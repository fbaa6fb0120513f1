----------------------------- MODULE MutingRule -----------------------------
(***************************************************************************)
(* signalfx_alert_muting_rule: when a rule mutes, and what.  The block     *)
(* says start and stop in seconds, the API stores milliseconds and does    *)
(* not let a rule begin in the past, nor an active one begin at another    *)
(* time; so an update of a rule that has begun sends the start that the    *)
(* API gave it.  The start is never read back into a block that sets it.   *)
(*                                                                         *)
(* Rules deleted by others, and the text an error must hold for Delete to  *)
(* be content, are in ResourceLifecycle.                                   *)
(***************************************************************************)
EXTENDS Integers, FiniteSetsExt

CONSTANTS
    None,             \* no block, no entry, no rule
    PerSecond,        \* milliseconds in a second
    Starts, Stops,    \* the times blocks set, in seconds
    MaxLag,           \* what the local clock is behind the API's, if at all
    Horizon,          \* bound on the time, in milliseconds
    MaxDisturbances   \* bound on faults and edits

VARIABLES
    now,      \* the time at the API
    lag,      \* what the local clock is behind; constant
    block,    \* the block, or None
    entry,    \* Terraform's entry, or None
    rule,     \* the rule the entry or the last create is about, or None
    op,       \* the operation under way
    moved,    \* history: others changed the rule's start
    unread,   \* history: others changed the rule since the last read
    budget    \* disturbances left

vars == <<now, lag, block, entry, rule, op, moved, unread, budget>>

Times == 0..Horizon

\* What is muted: alerts of detectors, alerts that match a filter; a block
\* must set one of the two, but an empty list of detectors will do.
BlockScopes == {s \in [detectors : {"null", "empty", "some"},
                       filter : {"none", "one"}] :
                    s.detectors # "null" \/ s.filter # "none"}
RuleScopes  == [detectors : {"none", "some", "negated"},
                filter : {"none", "one", "many"}]
Blocks  == [start : Starts, stop : Stops, scope : BlockScopes]
Rules   == [start : Times, stop : Times, scope : RuleScopes]
Entries == [start : Times, stop : Times, effective : Times,
            detectors : {"null", "some"}, filter : {"none", "one"},
            tainted : BOOLEAN]

NoReply == [code |-> "none", rule |-> None]
Idle    == [kind |-> "idle", phase |-> "none", sent |-> None,
            reply |-> NoReply]
Operations == [kind : {"idle", "refresh", "create", "update", "delete"},
               phase : {"none", "request", "reply"},
               sent : Rules \union {None},
               reply : [code : {"none", "ok", "badrequest", "notfound", "failed"},
                        rule : Rules \union {None}]]

ASSUME MutingAssumption ==
    /\ PerSecond \in Nat \ {0}
    /\ Horizon \in Nat /\ PerSecond <= Horizon
    /\ MaxLag \in Nat
    /\ MaxDisturbances \in Nat
    /\ \A s \in Starts \union Stops : s \in Nat /\ s * PerSecond <= Horizon
    /\ None \notin Blocks \union Rules \union Entries

TypeOK ==
    /\ now \in Times
    /\ lag \in 0..MaxLag
    /\ block \in Blocks \union {None}
    /\ entry \in Entries \union {None}
    /\ rule \in Rules \union {None}
    /\ op \in Operations
    /\ moved \in BOOLEAN
    /\ unread \in BOOLEAN
    /\ budget \in 0..MaxDisturbances

Init ==
    /\ now = PerSecond
    /\ lag \in {0, MaxLag}
    /\ block \in Blocks
    /\ entry = None
    /\ rule = None
    /\ op = Idle
    /\ moved = FALSE
    /\ unread = FALSE
    /\ budget = MaxDisturbances

----------------------------------------------------------------------------
(* Conversions.                                                            *)

\* time.Now().Unix() of the machine that runs Terraform.
Unix == (now - lag) \div PerSecond

SentScope(s) == [detectors |-> IF s.detectors = "some" THEN "some" ELSE "none",
                 filter |-> s.filter]

SentConfigured(update) == block.start * PerSecond  \* mutant: effective unused
SentStart(update) ==
    IF update /\ block.start <= Unix THEN entry.effective
    ELSE block.start * PerSecond

toRequest(update) ==
    [start |-> SentStart(update), stop |-> block.stop * PerSecond,
     scope |-> SentScope(block.scope)]

\* A detector filter is read for its detectors, negated or not.
ReadDetectors(r) == IF r.scope.detectors = "none" THEN "null" ELSE "some"

\* A start the block sets is kept.
KeepsStop(start, r) ==  \* mutant: the stop time is read once only
    [start |-> start,
     stop |-> IF entry = None \/ block = None THEN r.stop \div PerSecond
              ELSE block.stop,
     effective |-> r.start, detectors |-> ReadDetectors(r),
     filter |-> r.scope.filter, tainted |-> FALSE]
updateFromRule(start, r) ==
    [start |-> start, stop |-> r.stop \div PerSecond, effective |-> r.start,
     detectors |-> ReadDetectors(r), filter |-> r.scope.filter,
     tainted |-> FALSE]

----------------------------------------------------------------------------
(* The environment.                                                        *)

Disturb == budget > 0 /\ budget' = budget - 1

Tick ==
    /\ now < Horizon
    /\ now' = now + 1
    /\ UNCHANGED <<lag, block, entry, rule, op, moved, unread, budget>>

EditBlock(b) ==
    /\ op = Idle
    /\ b # block
    /\ block' = b
    /\ Disturb
    /\ UNCHANGED <<now, lag, entry, rule, op, moved, unread>>

Begun(r)   == r.start <= now
Expired(r) == r.stop # 0 /\ r.stop <= now

\* Somebody edits the rule: a start still to come, another stop or scope.
OthersEdit(r) ==
    /\ rule # None
    /\ ~Expired(rule)
    /\ r # rule
    /\ r.start = rule.start \/ (~Begun(rule) /\ r.start >= now)
    /\ \/ r.stop = rule.stop /\ r.start = rule.start
       \/ r.stop = 0 \/ r.stop > Max({now, r.start})
    /\ rule' = r
    /\ moved' = (moved \/ r.start # rule.start)
    /\ unread' = TRUE
    /\ Disturb
    /\ UNCHANGED <<now, lag, block, entry, op>>

----------------------------------------------------------------------------
(* Terraform starts an operation.                                          *)

Begin(kind, sent) ==
    /\ op = Idle
    /\ op' = [Idle EXCEPT !.kind = kind, !.phase = "request", !.sent = sent]
    /\ UNCHANGED <<now, lag, block, entry, rule, moved, unread, budget>>

\* start_time is RequiresReplace.
Replaced == block # None => (entry.tainted \/ block.start # entry.start)

\* An empty list of detectors is not the null that is read back.
Differs == \/ block.stop # entry.stop
           \/ block.scope.filter # entry.filter
           \/ block.scope.detectors # entry.detectors

StartRefresh == entry # None /\ Begin("refresh", None)
StartCreate  == entry = None /\ block # None /\ Begin("create", toRequest(FALSE))
StartUpdate  == /\ entry # None /\ ~Replaced /\ Differs
                /\ Begin("update", toRequest(TRUE))
StartDelete  == entry # None /\ Replaced /\ Begin("delete", None)

\* terraform import: Read with nothing but the identifier.
Import ==
    /\ op = Idle
    /\ entry = None
    /\ rule # None
    /\ block # None
    /\ rule.scope.filter # "many"
    /\ entry' = updateFromRule(rule.start \div PerSecond, rule)
    /\ unread' = FALSE
    /\ Disturb
    /\ UNCHANGED <<now, lag, block, rule, op, moved>>

----------------------------------------------------------------------------
(* The API.                                                                *)

\* No rule starts in the past.
Placed(r) == [r EXCEPT !.start = Max({r.start, now})]

\* The start of an active rule cannot be changed; an expired rule cannot be
\* deleted.
Missing == op.kind # "create" /\ rule = None
Refused ==
    /\ rule # None
    /\ \/ op.kind = "update" /\ Begun(rule) /\ op.sent.start # rule.start
       \/ op.kind = "delete" /\ Expired(rule)

Effect ==
    CASE op.kind = "create" -> Placed(op.sent)
      [] op.kind = "update" /\ ~Refused /\ ~Missing ->
             IF Begun(rule) THEN op.sent ELSE Placed(op.sent)
      [] op.kind = "delete" /\ ~Refused -> None
      [] OTHER -> rule

Answer ==
    IF Refused THEN [code |-> "badrequest", rule |-> None]
    ELSE IF Missing THEN [code |-> "notfound", rule |-> None]
    ELSE [code |-> "ok", rule |-> Effect]

\* History: a new rule's start is nobody's but its block's.
MovedBy(kind) == IF kind = "create" THEN FALSE ELSE moved

ServerAnswers ==
    /\ op.phase = "request"
    /\ rule' = Effect
    /\ moved' = MovedBy(op.kind)
    /\ op' = [op EXCEPT !.phase = "reply", !.reply = Answer]
    /\ unread' = (unread /\ Answer.code # "ok")
    /\ UNCHANGED <<now, lag, block, entry, budget>>

Fails(r) ==
    /\ op.phase = "request"
    /\ op' = [op EXCEPT !.phase = "reply",
                        !.reply = [NoReply EXCEPT !.code = "failed"]]
    /\ rule' = r
    /\ moved' = IF r = rule THEN moved ELSE MovedBy(op.kind)
    /\ unread' = TRUE
    /\ Disturb
    /\ UNCHANGED <<now, lag, block, entry>>

CallFails == Fails(rule)
ReplyLost == op.kind # "refresh" /\ Effect # rule /\ Fails(Effect)

----------------------------------------------------------------------------
(* The handlers, and what Terraform makes of their results.                *)

Ok == op.reply.code = "ok"

\* Terraform takes the null it is given for the planned empty list as an
\* error of the provider; what was created is tainted.
Inconsistent == block.scope.detectors = "empty"

\* A filter with several values is an error, and nothing is stored; a 404 is
\* a warning, and the entry stays.
AfterRead ==
    IF Ok /\ op.reply.rule.scope.filter # "many"
    THEN [updateFromRule(entry.start, op.reply.rule)
              EXCEPT !.tainted = entry.tainted]
    ELSE entry

AfterCreate ==
    IF Ok THEN [updateFromRule(block.start, op.reply.rule)
                    EXCEPT !.tainted = Inconsistent]
    ELSE None

\* After a 404 the missing reply is used: the process dies.
AfterUpdate == IF Ok THEN updateFromRule(block.start, op.reply.rule) ELSE entry

DeleteInsists == IF Ok THEN None ELSE entry  \* mutant: a 400 is an error
AfterDelete == IF op.reply.code = "failed" THEN entry ELSE None

Return(kind, e) ==
    /\ op.kind = kind
    /\ op.phase = "reply"
    /\ entry' = e
    /\ op' = Idle
    /\ UNCHANGED <<now, lag, block, rule, moved, unread, budget>>

RefreshReturns == Return("refresh", AfterRead)
CreateReturns  == Return("create", AfterCreate)
UpdateReturns  == Return("update", AfterUpdate)
DeleteReturns  == Return("delete", AfterDelete)

----------------------------------------------------------------------------

\* People change one thing at a time.
NewStart(r)     == {[r EXCEPT !.start = t] : t \in Times}
NewStop(r)      == {[r EXCEPT !.stop = t] : t \in Times}
NewScope(r, ss) == {[r EXCEPT !.scope = s] : s \in
                       {s \in ss : \/ s.detectors = r.scope.detectors
                                  \/ s.filter = r.scope.filter}}
OtherRules  == UNION {NewStart(rule), NewStop(rule),
                      NewScope(rule, RuleScopes)}
OtherBlocks ==
    IF block = None THEN Blocks
    ELSE Blocks \intersect UNION {NewStart(block), NewStop(block),
                                 NewScope(block, BlockScopes)}

Next ==
    \/ Tick
    \/ \E b \in OtherBlocks \union {None} : EditBlock(b)
    \/ rule # None /\ \E r \in OtherRules : OthersEdit(r)
    \/ StartRefresh \/ StartCreate \/ StartUpdate \/ StartDelete \/ Import
    \/ ServerAnswers \/ CallFails \/ ReplyLost
    \/ RefreshReturns \/ CreateReturns \/ UpdateReturns \/ DeleteReturns

Spec == Init /\ [][Next]_vars

\* Calls end, handlers return, time passes, Terraform refreshes and applies.
Fairness ==
    /\ WF_vars(\/ ServerAnswers \/ RefreshReturns \/ CreateReturns
               \/ UpdateReturns \/ DeleteReturns)
    /\ WF_vars(Tick)
    /\ SF_vars(StartRefresh)
    /\ SF_vars(StartCreate \/ StartUpdate \/ StartDelete)

FairSpec == Spec /\ Fairness

----------------------------------------------------------------------------
(* Properties.                                                             *)

(* An update of an active rule, as opposed to a replacement, is not one    *)
(* the API refuses for its start, whenever it was planned, sent and        *)
(* answered - unless somebody else moved the start, or the local clock has *)
(* not reached a start that the API's clock had passed when it was asked.  *)
UpdatesAccepted ==
    [][op.phase = "request" /\ op.kind = "update"
           /\ op'.reply.code = "badrequest" => moved \/ lag > 0]_vars

Agreed == block # None /\ entry # None /\ ~Replaced /\ ~Differs

\* A filter with several values makes every refresh fail.
Unreadable == rule # None /\ rule.scope.filter = "many"

(* When nothing is left to apply, and the entry was read from the rule as  *)
(* it is, the rule mutes what the block says until the second it says.     *)
(* Two changes made by others are never seen: a detector filter turned     *)
(* into its negation, and another start of a rule still to begin.          *)
MutesAsWritten ==
    (op = Idle /\ Agreed /\ ~unread /\ rule # None /\ ~Unreadable) =>
        /\ rule.stop \div PerSecond = block.stop
        /\ rule.scope.filter = block.scope.filter
        /\ block.scope.detectors = "some" <=> rule.scope.detectors # "none"
        /\ moved \/ rule.start >= block.start * PerSecond

(* Once the disturbances stop, block and entry come to agree, but for a    *)
(* block whose list of detectors is empty: its rule is replaced, or its    *)
(* update reported as wrong, for ever.  Expired rules are let go, although *)
(* the API does not delete them.  An update of a rule that is gone, which  *)
(* no refresh notices, ends in a crash however often it is tried.          *)
Converges ==
    <>[](op = Idle => \/ IF block = None THEN entry = None ELSE Agreed
                      \/ block # None /\ Inconsistent
                      \/ entry # None /\ rule = None)
=============================================================================
