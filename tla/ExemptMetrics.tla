--------------------------- MODULE ExemptMetrics ---------------------------
(***************************************************************************)
(* signalfx_automated_archival_exempt_metric: metrics exempted from        *)
(* automated archival.  The organization has one list of exempt metrics;   *)
(* a block names some of them, its Create adds those, its Read copies the  *)
(* whole list into the entry, and its Delete removes the identifiers that  *)
(* Create recorded.  There is no Update: a difference means delete, then   *)
(* create.  Several blocks work on the list at once.                       *)
(*                                                                         *)
(* The lists are sets here: the API is taken to list metrics in the order  *)
(* in which they were added, so that order makes no difference of its own. *)
(***************************************************************************)
EXTENDS Naturals

CONSTANTS
    Blocks,           \* the blocks of this type
    Others,           \* everybody else
    Metrics,          \* metric names
    None,             \* no entry, not exempt
    RetryMax,         \* retry_max_attempts
    MaxSerial,        \* bound on the identifiers one metric has in use
    MaxDisturbances   \* bound on faults, edits and others' acts

VARIABLES
    api,       \* two things the code leaves open about the API; constant
    block,     \* the metrics each block names; {} if there is no block
    entry,     \* each block's entry: the identifiers and the names
    exempt,    \* the organization's list: who exempted each metric, as what
    op,        \* each block's operation under way
    budget     \* disturbances left

vars == <<api, block, entry, exempt, op, budget>>

\* A metric is exempt under an identifier of its own, in use no more once
\* nothing mentions it; `by` and `lost` are history: whose POST exempted it,
\* and whether the reply to that POST never came.
Ids        == Metrics \X (1..MaxSerial)
Exemptions == [id : Ids, by : Blocks \union {Others}, lost : BOOLEAN]
Listed(m)  == exempt[m] # None
Exempted   == {m \in Metrics : Listed(m)}
LiveIds    == {exempt[m].id : m \in Exempted}

NoReply == [code |-> "none", ids |-> {}, names |-> {}]
Replies == [code : {"none", "ok", "notfound", "failed"},
            ids : SUBSET Ids, names : SUBSET Metrics]
Idle    == [kind |-> "idle", phase |-> "none", tries |-> 0,
            reply |-> NoReply]
Operations == [kind : {"idle", "refresh", "create", "delete"},
               phase : {"none", "request", "reply"}, tries : 0..RetryMax,
               reply : Replies]
Entries == [ids : SUBSET Ids, names : SUBSET Metrics]

ASSUME ExemptAssumption ==
    /\ Others \notin Blocks
    /\ None \notin Entries
    /\ None \notin Exemptions
    /\ RetryMax \in Nat
    /\ MaxSerial \in Nat
    /\ MaxDisturbances \in Nat

TypeOK ==
    /\ api \in [echoes : BOOLEAN, strict : BOOLEAN]
    /\ block \in [Blocks -> SUBSET Metrics]
    /\ entry \in [Blocks -> Entries \union {None}]
    /\ op \in [Blocks -> Operations]
    /\ exempt \in [Metrics -> Exemptions \union {None}]
    /\ budget \in 0..MaxDisturbances

\* echoes: the reply to a POST also lists metrics that were exempt before
\* it, not just new ones.  strict: a DELETE of an identifier that is no more
\* is answered 404 and removes nothing.  They are looked at one at a time.
Init ==
    /\ api \in [echoes : BOOLEAN, strict : BOOLEAN]
    /\ ~(api.echoes /\ api.strict)
    /\ block = [b \in Blocks |-> {}]
    /\ entry = [b \in Blocks |-> None]
    /\ exempt = [m \in Metrics |-> None]
    /\ op = [b \in Blocks |-> Idle]
    /\ budget = MaxDisturbances

----------------------------------------------------------------------------
(* The environment.                                                        *)

Disturb == budget > 0 /\ budget' = budget - 1
AllIdle == \A b \in Blocks : op[b] = Idle

InEntries == UNION {entry[b].ids : b \in {c \in Blocks : entry[c] # None}}
InReplies == UNION {op[b].reply.ids : b \in Blocks}
Mentioned == LiveIds \union InEntries \union InReplies
Unused(m) == {i \in Ids \ Mentioned : i[1] = m}
NewId(m)  == CHOOSE i \in Unused(m) : TRUE
New(m, b) == [id |-> NewId(m), by |-> b, lost |-> FALSE]

EditBlock(b, v) ==
    /\ AllIdle
    /\ v # block[b]
    /\ block' = [block EXCEPT ![b] = v]
    /\ Disturb
    /\ UNCHANGED <<api, entry, exempt, op>>

OthersExempt(m) ==
    /\ ~Listed(m)
    /\ Unused(m) # {}
    /\ exempt' = [exempt EXCEPT ![m] = New(m, Others)]
    /\ Disturb
    /\ UNCHANGED <<api, block, entry, op>>

OthersRemove(m) ==
    /\ Listed(m)
    /\ exempt' = [exempt EXCEPT ![m] = None]
    /\ Disturb
    /\ UNCHANGED <<api, block, entry, op>>

----------------------------------------------------------------------------
(* Terraform starts an operation of a block.                               *)

Begin(b, kind) ==
    /\ op[b] = Idle
    /\ op' = [op EXCEPT ![b] = [Idle EXCEPT !.kind = kind,
                                            !.phase = "request"]]
    /\ UNCHANGED <<api, block, entry, exempt, budget>>

\* exempt_metrics is ForceNew.
Replaced(b) == block[b] # entry[b].names \/ block[b] = {}

StartRefresh(b) == entry[b] # None /\ Begin(b, "refresh")
StartCreate(b)  == entry[b] = None /\ block[b] # {} /\ Begin(b, "create")
StartDelete(b)  == entry[b] # None /\ Replaced(b) /\ Begin(b, "delete")

----------------------------------------------------------------------------
(* The API.                                                                *)

Fresh(b) == {m \in block[b] : ~Listed(m)}

Gone(b) == entry[b].ids \ LiveIds

Reply(code, ms, list) ==
    [code |-> code, ids |-> {list[m].id : m \in ms}, names |-> ms]

\* The identifiers Delete splits from the one in the state.
SentIds(b) == entry[b].ids

Refused(b) == op[b].kind = "delete" /\ api.strict /\ Gone(b) # {}

Added(b)   == IF op[b].kind = "create" THEN Fresh(b) ELSE {}
Removed(b) == IF op[b].kind = "delete" /\ ~Refused(b)
              THEN {m \in Exempted : exempt[m].id \in SentIds(b)} ELSE {}
Effect(b)  == [m \in Metrics |-> IF m \in Added(b) THEN New(m, b)
                                 ELSE IF m \in Removed(b) THEN None
                                 ELSE exempt[m]]

Answer(b) ==
    CASE op[b].kind = "refresh" -> Reply("ok", Exempted, exempt)
      [] op[b].kind = "create" ->
             Reply("ok", IF api.echoes THEN block[b] ELSE Fresh(b), Effect(b))
      [] Refused(b) -> Reply("notfound", {}, exempt)
      [] OTHER -> Reply("ok", {}, exempt)

Replied(b, reply) == [op[b] EXCEPT !.phase = "reply", !.reply = reply]
RetryOrGiveUp(b) ==
    IF op[b].tries < RetryMax THEN [op[b] EXCEPT !.tries = @ + 1]
    ELSE Replied(b, [NoReply EXCEPT !.code = "failed"])

Serve(b, list) ==
    /\ op[b].phase = "request"
    /\ \A m \in Added(b) : Unused(m) # {}  \* within the bound MaxSerial
    /\ exempt' = list
    /\ UNCHANGED <<api, block, entry>>

ServerAnswers(b) ==
    /\ Serve(b, Effect(b))
    /\ op' = [op EXCEPT ![b] = Replied(b, Answer(b))]
    /\ UNCHANGED budget

\* The list with the metrics of M marked: nobody knows who exempted them.
Lost(list, M) == [m \in Metrics |-> IF m \in M
                                    THEN [list[m] EXCEPT !.lost = TRUE]
                                    ELSE list[m]]

ReplyLost(b) ==
    /\ Serve(b, Lost(Effect(b), Added(b)))
    /\ op' = [op EXCEPT ![b] = RetryOrGiveUp(b)]
    /\ Disturb

CallFails(b) ==
    /\ op[b].phase = "request"
    /\ op' = [op EXCEPT ![b] = RetryOrGiveUp(b)]
    /\ Disturb
    /\ UNCHANGED <<api, block, entry, exempt>>

----------------------------------------------------------------------------
(* The handlers: the entry each leaves, given what Terraform makes of an   *)
(* error.                                                                  *)

Ok(b) == op[b].reply.code = "ok"

\* The list of the whole organization, with the identifier of old.
ReadMovesId(b) ==  \* mutant: the id follows what was read
    IF Ok(b) THEN [ids |-> op[b].reply.ids, names |-> op[b].reply.names]
    ELSE entry[b]
ReadSkipsEmpty(b) ==  \* mutant: an empty list is not copied
    IF Ok(b) /\ op[b].reply.names # {}
    THEN [entry[b] EXCEPT !.names = op[b].reply.names] ELSE entry[b]
AfterRead(b) ==
    IF Ok(b) THEN [entry[b] EXCEPT !.names = op[b].reply.names] ELSE entry[b]

\* The identifiers of the reply, joined; an empty reply is an error.
CreateKeepsFirst(b) ==  \* mutant: only one identifier is recorded
    IF Ok(b) /\ op[b].reply.ids # {}
    THEN [ids |-> {CHOOSE i \in op[b].reply.ids : TRUE},
          names |-> op[b].reply.names]
    ELSE None
AfterCreate(b) ==
    IF Ok(b) /\ op[b].reply.ids # {}
    THEN [ids |-> op[b].reply.ids, names |-> op[b].reply.names]
    ELSE None

\* HandleError clears the id and returns the error: the entry stays.
AfterDelete(b) == IF Ok(b) THEN None ELSE entry[b]

Return(b, kind, e) ==
    /\ op[b].kind = kind
    /\ op[b].phase = "reply"
    /\ entry' = [entry EXCEPT ![b] = e]
    /\ op' = [op EXCEPT ![b] = Idle]
    /\ UNCHANGED <<api, block, exempt, budget>>

RefreshReturns(b) == Return(b, "refresh", AfterRead(b))
CreateReturns(b)  == Return(b, "create", AfterCreate(b))
DeleteReturns(b)  == Return(b, "delete", AfterDelete(b))

\* The process serves all blocks; when it dies no reply is recorded.
Recording(b) == IF op[b].kind = "create" THEN op[b].reply.ids ELSE {}
Interrupt ==
    /\ ~AllIdle
    /\ op' = [b \in Blocks |-> Idle]
    /\ exempt' = Lost(exempt, {m \in Exempted : \E b \in Blocks :
                                  /\ exempt[m].by = b
                                  /\ exempt[m].id \in Recording(b)})
    /\ Disturb
    /\ UNCHANGED <<api, block, entry>>

----------------------------------------------------------------------------

Next ==
    \/ \E m \in Metrics : OthersExempt(m)
    \/ \E m \in Metrics : OthersRemove(m)
    \/ \E b \in Blocks :
           \/ \E v \in SUBSET Metrics : EditBlock(b, v)
           \/ StartRefresh(b) \/ StartCreate(b) \/ StartDelete(b)
           \/ ServerAnswers(b) \/ ReplyLost(b) \/ CallFails(b)
           \/ RefreshReturns(b) \/ CreateReturns(b) \/ DeleteReturns(b)
    \/ Interrupt

Spec == Init /\ [][Next]_vars

\* Calls end, handlers return, Terraform refreshes and applies every block.
Fairness ==
    \A b \in Blocks :
        /\ WF_vars(\/ ServerAnswers(b)
                   \/ RefreshReturns(b) \/ CreateReturns(b) \/ DeleteReturns(b))
        /\ SF_vars(StartRefresh(b))
        /\ SF_vars(StartCreate(b) \/ StartDelete(b))

FairSpec == Spec /\ Fairness

----------------------------------------------------------------------------
(* Properties.                                                             *)

(* A metric that a block's POST exempted stays within reach of a Delete:   *)
(* its identifier is in the block's entry or about to be, unless the reply *)
(* to the POST was lost, and then nothing will ever un-exempt it.          *)
OwnExemptionsKnown ==
    \A m \in Exempted, b \in Blocks :
        exempt[m].by = b =>
            \/ entry[b] # None /\ exempt[m].id \in entry[b].ids
            \/ exempt[m].id \in Recording(b)
            \/ exempt[m].lost

(* However often blocks that read each other's metrics are replaced, a     *)
(* Delete un-exempts only what the same block exempted: what Read copies   *)
(* from the whole organization never reaches the identifiers it sends.  An *)
(* API that lists metrics exempt before the POST in the reply to it breaks *)
(* this, and only such an API does.                                        *)
RemovesOnlyItsOwn ==
    [][\A m \in Metrics, b \in Blocks :
          (/\ Listed(m) /\ exempt'[m] = None
           /\ op[b].kind = "delete" /\ op[b].phase = "request"
           /\ op'[b] # op[b]) =>
              api.echoes \/ exempt[m].by = b]_vars

Settled ==
    \A b \in Blocks :
        IF block[b] = {} THEN entry[b] = None
        ELSE entry[b] # None /\ entry[b].names = block[b]
                             /\ Exempted = block[b]

\* Somebody else's metric is in the list: each refresh finds it, each plan
\* replaces the block, and nothing gets better.
Contended ==
    \E b \in Blocks : block[b] # {}
                      /\ \/ \E c \in Blocks \ {b} : block[c] # {}
                         \/ \E m \in Exempted :
                                entry[b] # None => exempt[m].id \notin entry[b].ids

\* A 404 keeps the entry of a block whose metrics others removed.
Stuck == api.strict /\ \E b \in Blocks : entry[b] # None /\ Gone(b) # {}

(* Once the disturbances stop a block comes to agree with the organization *)
(* if it is the only one, if nobody else's metric is exempt (its own lost  *)
(* one included), and if its Delete is not refused for good because others *)
(* removed its metrics.  In the other cases it is replaced for ever.       *)
Converges == <>[](AllIdle => Settled \/ Contended \/ Stuck)
=============================================================================
