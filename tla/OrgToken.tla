------------------------------ MODULE OrgToken ------------------------------
(***************************************************************************)
(* Organization tokens.  The API knows a token by its name, so the name in *)
(* the block, the identifier in the state entry and the key of the object  *)
(* are one thing, and a rename moves all three.  Two sets of handlers      *)
(* exist; which of them serves the block is settled by a preview that is   *)
(* looked up when the provider is built, before it is configured.          *)
(***************************************************************************)
EXTENDS Naturals

CONSTANTS
    Names,            \* names a token may have
    None,             \* no token, no block, no entry, no secret
    RetryMax,         \* retry_max_attempts
    MaxTokens,        \* bound on the tokens ever made
    MaxDisturbances   \* bound on faults, edits and other users' acts

VARIABLES
    attr,      \* the attribute followed: "scopes" or "limits"; constant
    asked,     \* does the provider block switch the preview on?; constant
    process,   \* the provider process: how often built, preview, handlers
    block,     \* the resource block
    entry,     \* its entry in the state
    tokens,    \* the organization's tokens, by name
    born,      \* tokens made so far; a token's number stands for its secret
    op,        \* the operation under way
    outcome,   \* what the last one reported
    drifted,   \* others were at work since the last call
    budget,    \* disturbances left
    own,       \* history: tokens made by this block's POSTs
    lost,      \* history: touched by a call whose reply never came
    moved,     \* history: renamed or deleted by others
    stranded   \* history: renamed by the preview's Update

vars == <<attr, asked, process, block, entry, tokens, born, op, outcome,
          drifted, budget, own, lost, moved, stranded>>
fixed   == <<attr, asked>>
history == <<own, lost, moved, stranded>>

----------------------------------------------------------------------------
(* Shapes.  A value is a set: the one order of the scopes, or the kinds of *)
(* limit a token has (an entry may hold both, a block and a token may not).*)

ScopeValues == {{"sorted"}, {"unsorted"}}
LimitValues == {{}, {"dpm"}, {"usage"}}
BlockValues == IF attr = "scopes" THEN ScopeValues ELSE LimitValues
Values      == SUBSET {"sorted", "unsorted", "dpm", "usage"}

Tokens  == [serial : 1..MaxTokens, value : Values]
Secrets == 1..MaxTokens
Entries == [id : Names, name : Names, value : Values,
            secret : Secrets \union {0}]
Desired == [name : Names, value : Values]

NoReply == [code |-> "none", name |-> None, value |-> {}, secret |-> 0]
Replies == [code : {"none", "ok", "notfound", "refused", "failed"},
            name : Names \union {None}, value : Values,
            secret : Secrets \union {0}]
Idle    == [kind |-> "idle", phase |-> "none", id |-> None, sent |-> None,
            tries |-> 0, reply |-> NoReply]
Operations == [kind : {"idle", "refresh", "create", "update", "delete"},
               phase : {"none", "request", "reply"},
               id : Names \union {None}, sent : Desired \union {None},
               tries : 0..RetryMax, reply : Replies]
Processes  == [builds : 0..2, preview : BOOLEAN,
               handlers : {"legacy", "vnext"}, configured : BOOLEAN]

ASSUME OrgTokenAssumption ==
    /\ None \notin Names
    /\ None \notin Tokens \union Entries \union Desired
    /\ RetryMax \in Nat
    /\ MaxTokens \in Nat \ {0}
    /\ MaxDisturbances \in Nat

TypeOK ==
    /\ attr \in {"scopes", "limits"}
    /\ asked \in BOOLEAN
    /\ process \in Processes
    /\ block \in Desired \union {None}
    /\ entry \in Entries \union {None}
    /\ tokens \in [Names -> Tokens \union {None}]
    /\ born \in 0..MaxTokens
    /\ op \in Operations
    /\ outcome \in {"none", "ok", "error", "crash"}
    /\ drifted \in BOOLEAN
    /\ budget \in 0..MaxDisturbances
    /\ \A h \in {own, lost, moved, stranded} : h \subseteq Secrets

----------------------------------------------------------------------------
(* The provider process.                                                   *)

HandlersFromBlock(preview) == \* mutant: the block is asked, not the registry
    IF asked THEN "vnext" ELSE "legacy"

\* orgTokenResource, called while Provider() fills its map of resources.
HandlersFor(preview) == IF preview THEN "vnext" ELSE "legacy"

\* A fresh process: the registry has the preview registered, switched off.
Started == [builds |-> 1, preview |-> FALSE,
            handlers |-> HandlersFor(FALSE), configured |-> FALSE]

NothingYet ==
    /\ block = None
    /\ entry = None
    /\ tokens = [n \in Names |-> None]
    /\ born = 0
    /\ own = {}

\* What an earlier run of the legacy handlers left for the block b.
MadeEarlier(b) ==
    /\ block = b
    /\ entry = [id |-> b.name, name |-> b.name, secret |-> 1,
                value |-> IF attr = "scopes" THEN {"sorted"} ELSE b.value]
    /\ tokens = [n \in Names |-> IF n = b.name
                                 THEN [serial |-> 1, value |-> b.value]
                                 ELSE None]
    /\ born = 1
    /\ own = {1}

Init ==
    /\ attr \in {"scopes", "limits"}
    /\ asked \in BOOLEAN
    /\ process = Started
    /\ \/ NothingYet
       \/ \E b \in [name : Names, value : BlockValues] : MadeEarlier(b)
    /\ op = Idle
    /\ outcome = "none"
    /\ drifted = FALSE
    /\ budget = MaxDisturbances
    /\ lost = {} /\ moved = {} /\ stranded = {}

Disturb == budget > 0 /\ budget' = budget - 1

ProcessStep(p) ==
    /\ op = Idle
    /\ process' = p
    /\ UNCHANGED <<fixed, block, entry, tokens, born, op, outcome, drifted,
                   history>>

\* Terraform starts the provider for each run.
NewProcess == process # Started /\ ProcessStep(Started) /\ UNCHANGED budget

\* feature_preview = {...}: Registry.Configure sets what the block names.
Configure ==
    /\ ~process.configured
    /\ ProcessStep([process EXCEPT
           !.configured = TRUE,
           !.preview = @ \/ asked])
    /\ UNCHANGED budget

\* Provider() called again in the same process, as the tests do: the
\* registry is a global and keeps what the first configuration set.
BuildAgain ==
    /\ process.configured
    /\ process.builds = 1
    /\ ProcessStep([process EXCEPT !.builds = 2, !.configured = FALSE,
                                   !.handlers = HandlersFor(process.preview)])
    /\ Disturb

Legacy == process.handlers = "legacy"

----------------------------------------------------------------------------
(* The practitioner and the other users of the organization.               *)

EditBlock(b) ==
    /\ op = Idle
    /\ b # block
    /\ block' = b
    /\ Disturb
    /\ UNCHANGED <<fixed, process, entry, tokens, born, op, outcome, drifted,
                   history>>

Meddle ==
    /\ Disturb
    /\ drifted' = TRUE
    /\ UNCHANGED <<fixed, process, block, entry, op, outcome, own, lost,
                   stranded>>

OthersCreate(n, v) ==
    /\ tokens[n] = None
    /\ born < MaxTokens
    /\ tokens' = [tokens EXCEPT ![n] = [serial |-> born + 1, value |-> v]]
    /\ born' = born + 1
    /\ Meddle
    /\ UNCHANGED moved

OthersDelete(n) ==
    /\ tokens[n] # None
    /\ tokens' = [tokens EXCEPT ![n] = None]
    /\ moved' = moved \union {tokens[n].serial}
    /\ Meddle
    /\ UNCHANGED born

OthersRename(n, to) ==
    /\ tokens[n] # None
    /\ tokens[to] = None
    /\ tokens' = [tokens EXCEPT ![n] = None, ![to] = tokens[n]]
    /\ moved' = moved \union {tokens[n].serial}
    /\ Meddle
    /\ UNCHANGED born

OthersChange(n, v) ==
    /\ tokens[n] # None
    /\ v # tokens[n].value
    /\ tokens' = [tokens EXCEPT ![n].value = v]
    /\ Meddle
    /\ UNCHANGED <<born, moved>>

----------------------------------------------------------------------------
(* Terraform starts an operation; the handler builds its payload and makes *)
(* its one call.                                                           *)

Begin(kind, id, sent) ==
    /\ op = Idle
    /\ process.configured
    /\ op' = [Idle EXCEPT !.kind = kind, !.phase = "request", !.id = id,
                          !.sent = sent]
    /\ UNCHANGED <<fixed, process, block, entry, tokens, born, outcome,
                   drifted, budget, history>>

\* The plan compares the block with the entry's attributes, not its id.
NeedsUpdate == /\ block # None /\ entry # None
               /\ \/ block.name # entry.name
                  \/ block.value # entry.value

StartRefresh == entry # None /\ Begin("refresh", entry.id, None)
StartCreate  == block # None /\ entry = None /\ Begin("create", None, block)
StartUpdate  == NeedsUpdate /\ Begin("update", entry.id, block)
StartDelete  == block = None /\ entry # None
                /\ Begin("delete", entry.id, None)

----------------------------------------------------------------------------
(* The API, and the client that repeats a call without an answer.  A name  *)
(* is taken by one token at a time; PUT replaces the token and may rename. *)

Taken(n) == tokens[n] # None

Code ==
    CASE op.kind = "create" /\ Taken(op.sent.name) -> "refused"
      [] op.kind # "create" /\ ~Taken(op.id) -> "notfound"
      [] op.kind = "update" /\ op.sent.name # op.id
                            /\ Taken(op.sent.name) -> "refused"
      [] OTHER -> "ok"

\* The token an accepted call leaves behind or, for DELETE, removes.
Written ==
    CASE op.kind = "create" ->
             [serial |-> born + 1, value |-> op.sent.value]
      [] op.kind = "update" -> [tokens[op.id] EXCEPT !.value = op.sent.value]
      [] OTHER -> tokens[op.id]

NameAfter == IF op.kind \in {"create", "update"} THEN op.sent.name ELSE op.id

Effect ==
    CASE op.kind = "create" -> [tokens EXCEPT ![op.sent.name] = Written]
      [] op.kind = "update" ->
             [n \in Names |-> CASE n = op.sent.name -> Written
                                [] n = op.id /\ n # op.sent.name -> None
                                [] OTHER -> tokens[n]]
      [] op.kind = "delete" -> [tokens EXCEPT ![op.id] = None]
      [] OTHER -> tokens

Served ==
    /\ op.phase = "request"
    /\ op.kind = "create" => born < MaxTokens
    /\ IF Code = "ok"
       THEN /\ tokens' = Effect
            /\ born' = IF op.kind = "create" THEN born + 1 ELSE born
            /\ own' = IF op.kind = "create" THEN own \union {born + 1}
                      ELSE own
       ELSE UNCHANGED <<tokens, born, own>>
    /\ UNCHANGED <<fixed, process, block, entry, outcome, moved, stranded>>

Answer ==
    IF Code = "ok"
    THEN [code |-> "ok", name |-> NameAfter, value |-> Written.value,
          secret |-> Written.serial]
    ELSE [NoReply EXCEPT !.code = Code]

Replied(reply) == [op EXCEPT !.phase = "reply", !.reply = reply]
RetryOrGiveUp  == IF op.tries < RetryMax THEN [op EXCEPT !.tries = @ + 1]
                  ELSE Replied([NoReply EXCEPT !.code = "failed"])

ServerAnswers ==
    /\ Served
    /\ op' = Replied(Answer)
    /\ drifted' = FALSE
    /\ UNCHANGED <<budget, lost>>

ReplyLost ==
    /\ Served
    /\ op' = RetryOrGiveUp
    /\ lost' = IF Code = "ok" /\ op.kind # "refresh"
               THEN lost \union {Written.serial} ELSE lost
    /\ Disturb
    /\ UNCHANGED drifted

\* No connection or a 5xx: repeated.  Any other refusal: not repeated.
CallFails ==
    /\ op.phase = "request"
    /\ op' \in {RetryOrGiveUp, Replied([NoReply EXCEPT !.code = "refused"])}
    /\ Disturb
    /\ UNCHANGED <<fixed, process, block, entry, tokens, born, outcome,
                   drifted, history>>

----------------------------------------------------------------------------
(* The handlers.  A result is the entry the handler leaves (None: no id)   *)
(* and whether it returned an error.                                       *)

Ok       == op.reply.code = "ok"
NotFound == op.reply.code = "notfound"
Result(e, err) == [entry |-> e, err |-> err]

LimitsUnread(held) ==  \* mutant: the limits of the reply are not read
    IF attr = "limits" THEN held ELSE op.reply.value

\* What the reply leaves of the attribute, on top of what d already holds:
\* orgTokenAPIToTF sorts the scopes, the preview's encodeTerraform does not,
\* and both set the kind of limit the reply has and leave the other alone.
StoredValue(held) ==
    CASE attr = "limits" -> held \union op.reply.value
      [] attr = "scopes" /\ Legacy -> {"sorted"}
      [] OTHER -> op.reply.value

Encoded(id, held) ==
    [id |-> id, name |-> op.reply.name, value |-> StoredValue(held),
     secret |-> op.reply.secret]

\* An Update works on the entry with the planned values laid over it.
Planned == [entry EXCEPT !.name = op.sent.name, !.value = op.sent.value]

ReadKeepsTheGone ==  \* mutant: a 404 is an error like any other
    IF Ok THEN Result(Encoded(op.id, entry.value), FALSE)
    ELSE Result(entry, TRUE)

ReadResult ==
    CASE Ok -> Result(Encoded(op.id, entry.value), FALSE)
      [] NotFound -> Result(None, ~Legacy)  \* HandleError returns the error
      [] OTHER -> Result(entry, TRUE)

\* The preview's Create returns after SetId, the reply unread.
CreateResult ==
    CASE ~Ok -> Result(None, TRUE)
      [] Ok /\ Legacy ->
             Result(Encoded(op.reply.name, op.sent.value), FALSE)
      [] Ok /\ ~Legacy ->
             Result([id |-> op.reply.name, name |-> op.sent.name,
                     value |-> op.sent.value, secret |-> 0], FALSE)

KeepId == op.id  \* mutant: the id is not moved by a rename

\* Only the legacy Update ends with SetId(t.Name).
IdAfterUpdate == IF Legacy THEN op.reply.name ELSE op.id

UpdateResult ==
    CASE Ok -> Result(Encoded(IdAfterUpdate, op.sent.value), FALSE)
      [] NotFound /\ ~Legacy -> Result(None, TRUE)
      [] OTHER -> Result(Planned, TRUE)

DeleteForgets == Result(None, FALSE)  \* mutant: the error is dropped

DeleteResult ==
    CASE Ok -> Result(None, FALSE)
      [] NotFound /\ ~Legacy -> Result(None, TRUE)
      [] OTHER -> Result(entry, TRUE)

\* Terraform keeps the prior entry if a Read or a Delete fails, and if an
\* Update fails without leaving an id.
Finish(kind, r, keeps) ==
    /\ op.kind = kind
    /\ op.phase = "reply"
    /\ entry' = IF r.err /\ keeps THEN entry ELSE r.entry
    /\ op' = Idle
    /\ outcome' = IF r.err THEN "error" ELSE "ok"
    /\ UNCHANGED <<fixed, process, block, tokens, born, drifted, budget, own,
                   lost, moved>>

RefreshReturns ==
    Finish("refresh", ReadResult, TRUE) /\ UNCHANGED stranded
CreateReturns ==
    Finish("create", CreateResult, FALSE) /\ UNCHANGED stranded
UpdateReturns ==
    /\ Finish("update", UpdateResult, UpdateResult.entry = None)
    /\ stranded' = IF Ok /\ ~Legacy /\ op.reply.name # op.id
                   THEN stranded \union {op.reply.secret} ELSE stranded
DeleteReturns ==
    Finish("delete", DeleteResult, TRUE) /\ UNCHANGED stranded

\* The process dies; what its call did is known to nobody.
Interrupt ==
    /\ op # Idle
    /\ op' = Idle
    /\ outcome' = "crash"
    /\ lost' = IF Ok /\ op.kind # "refresh"
               THEN lost \union {op.reply.secret} ELSE lost
    /\ process' = Started
    /\ Disturb
    /\ UNCHANGED <<fixed, block, entry, tokens, born, drifted, own, moved,
                   stranded>>

----------------------------------------------------------------------------

Returns == RefreshReturns \/ CreateReturns \/ UpdateReturns \/ DeleteReturns

Next ==
    \/ NewProcess \/ Configure \/ BuildAgain
    \/ \E b \in [name : Names, value : BlockValues] \union {None} :
           EditBlock(b)
    \/ \E n \in Names, v \in BlockValues : OthersCreate(n, v)
    \/ \E n \in Names, v \in BlockValues : OthersChange(n, v)
    \/ \E n \in Names : OthersDelete(n)
    \/ \E n, to \in Names : OthersRename(n, to)
    \/ StartRefresh \/ StartCreate \/ StartUpdate \/ StartDelete
    \/ ServerAnswers \/ ReplyLost \/ CallFails
    \/ RefreshReturns \/ CreateReturns \/ UpdateReturns \/ DeleteReturns
    \/ Interrupt

Spec == Init /\ [][Next]_vars

\* Calls end, handlers return, a process that is started gets configured,
\* and Terraform both refreshes and applies, again and again.
Fairness ==
    /\ WF_vars(ServerAnswers \/ Returns)
    /\ WF_vars(Configure)
    /\ SF_vars(StartRefresh)
    /\ SF_vars(StartCreate \/ StartUpdate \/ StartDelete)

FairSpec == Spec /\ Fairness

----------------------------------------------------------------------------
(* Properties.                                                             *)

(* Whatever the provider block says, the handlers served by the only build *)
(* that main() makes are the legacy ones: the preview is looked up before  *)
(* any Configure, so asking for it takes effect in a second build at best. *)
FirstBuildServesLegacy ==
    process.builds = 1 => process.handlers = "legacy"

InFlight == IF Ok /\ op.kind # "refresh" THEN {op.reply.secret} ELSE {}

(* A live token made by this block is the one its entry names or about to  *)
(* be recorded, unless others moved it, a reply about it was lost, or the  *)
(* preview's Update renamed it.  The legacy rename loses no token.         *)
OwnTokensKnown ==
    \A n \in Names :
        (Taken(n) /\ tokens[n].serial \in own) =>
            \/ entry # None /\ entry.id = n
            \/ tokens[n].serial \in InFlight
            \/ tokens[n].serial \in moved \union lost \union stranded

(* A PUT or a DELETE hits the token whose secret the entry holds and never *)
(* a namesake made by somebody else, as long as the recorded token was not *)
(* moved by others, touched by a call whose reply was lost, or renamed by  *)
(* the preview (whose entry may hold no secret at all).                    *)
WritesOnlyTheRecorded ==
    [][op.kind \in {"update", "delete"} /\ op.phase = "request"
         /\ Code = "ok" /\ tokens' # tokens /\ tokens' = Effect =>
           \/ tokens[op.id].serial = entry.secret
           \/ entry.secret \in {0} \union moved \union lost \union stranded]_vars

(* After a success, and with no act of others since its last call, the     *)
(* entry names a live token, holds its secret (or none, written by the     *)
(* preview's Create) and its attribute, up to the order of the scopes and  *)
(* limits taken away by others; only the preview's rename breaks this.     *)
EntryMatchesToken ==
    (op = Idle /\ outcome = "ok" /\ ~drifted /\ entry # None
       /\ stranded = {}) =>
        /\ Taken(entry.id)
        /\ entry.id = entry.name
        /\ entry.secret \in {0, tokens[entry.id].serial}
        /\ attr = "limits" => tokens[entry.id].value \subseteq entry.value

Reconciled ==
    IF block = None THEN entry = None
    ELSE /\ entry # None
         /\ Taken(entry.id)
         /\ entry.id = block.name
         /\ entry.name = block.name
         /\ entry.value = block.value
         /\ attr = "limits" => tokens[entry.id].value \in {block.value, {}}

\* The name is held by a token the entry does not name: POST and rename are
\* refused for ever, be the holder somebody else's or one's own lost token.
NameHeld == /\ block # None /\ Taken(block.name)
            /\ entry = None \/ entry.id # block.name

\* orgTokenAPIToTF sorts a list that Terraform compares in order.
Unsortable == block # None /\ block.value = {"unsorted"} /\ Legacy

\* The preview's Read keeps the entry of a token that is gone.
ClingsToTheGone == ~Legacy /\ entry # None /\ ~Taken(entry.id)

(* Once the disturbances stop, block, entry and token come to agree, with  *)
(* three exceptions: the name is held by another token, the legacy handlers*)
(* serve a block with scopes out of order, or the preview's handlers serve *)
(* an entry whose token is gone.                                           *)
Converges ==
    /\ <>[](op = Idle => \/ Reconciled \/ NameHeld \/ Unsortable
                         \/ ClingsToTheGone)
    /\ []<>(op = Idle)
=============================================================================
