------------------------- MODULE ResourceLifecycle -------------------------
(***************************************************************************)
(* One managed resource block: its entry in the Terraform state, the       *)
(* objects it creates in Splunk Observability Cloud, and the handlers of   *)
(* the provider that keep the two together.                                *)
(*                                                                         *)
(* A handler is one HTTP call (two for a detector's create) made through a *)
(* client that repeats a failed call up to RetryMax times, followed by the *)
(* code that turns the reply into a new state entry.  The call and the     *)
(* code after it are separate steps: the object may change, disappear or   *)
(* be created twice in between.  One attribute of the block is followed;   *)
(* `profile` says which handlers the block has and how they treat it.      *)
(***************************************************************************)
EXTENDS Naturals, ResourceCatalogue

CONSTANTS
    Ids,             \* identifiers the API hands out, never twice
    NoId,            \* the empty identifier: "not in the state"
    Ids400,          \* the identifiers whose text contains "400"
    Values,          \* values of the modelled attribute
    Empty,           \* the attribute's zero value
    NoValue,         \* no object, no block, no value
    Resources,       \* the resource types to consider
    UrlOK,           \* may custom_app_url parse, may it not?
    RetryMax,        \* retry_max_attempts
    MaxDisturbances  \* bound on faults, drift and edits of the block

ASSUME LifecycleAssumption ==
    /\ NoId \notin Ids
    /\ Ids400 \subseteq Ids
    /\ Empty \in Values
    /\ NoValue \notin Values
    /\ Resources \subseteq Blocks
    /\ UrlOK \subseteq BOOLEAN
    /\ RetryMax \in Nat
    /\ MaxDisturbances \in Nat

\* Of all payload builders only a detector's can panic.
ASSUME OnlyDetectorsPanic ==
    \A r \in Resources : r.attributes["panicking"] # {} => r.family = "detector"

VARIABLES
    profile,     \* the block's handlers and attribute; never changes
    urlOK,       \* does the provider's custom_app_url parse?
    config,      \* the attribute's value in the block, NoValue: no block
    state,       \* the entry of the Terraform state, id = NoId: none
    remote,      \* the API's objects: value of each identifier
    allocated,   \* identifiers handed out so far
    op,          \* the operation under way and its current HTTP call
    outcome,     \* what the last finished operation reported
    drifted,     \* changed behind Terraform's back since the last call
    budget,      \* disturbances left
    lost,        \* history: created by a call whose reply never came
    unrecorded,  \* history: created, then dropped by a failing handler
    abandoned    \* history: dropped from the state by Delete, still live

vars == <<profile, urlOK, config, state, remote, allocated, op, outcome,
          drifted, budget, lost, unrecorded, abandoned>>

history == <<lost, unrecorded, abandoned>>

----------------------------------------------------------------------------
(* Shapes.                                                                 *)

MaybeId    == Ids \union {NoId}
MaybeValue == Values \union {NoValue}

NoState == [id |-> NoId, value |-> NoValue, tainted |-> FALSE]
NoReply == [code |-> "none", id |-> NoId, value |-> NoValue]
Idle    == [name |-> "idle", phase |-> "none", id |-> NoId,
            value |-> NoValue, tries |-> 0, reply |-> NoReply]

Request(name, id, value) ==
    [name |-> name, phase |-> "request", id |-> id, value |-> value,
     tries |-> 0, reply |-> NoReply]

Live == {i \in Ids : remote[i] # NoValue}

Profiles == [family : AllFamilies, updatesURL : BOOLEAN, kind : Kinds]
Entries  == [id : MaybeId, value : MaybeValue, tainted : BOOLEAN]
Replies  == [code : {"none", "ok", "notfound", "badrequest", "failed"},
             id : MaybeId, value : MaybeValue]
Operations ==
    [name : {"idle", "refresh", "create", "verify", "update", "delete"},
     phase : {"none", "request", "reply"}, id : MaybeId,
     value : MaybeValue, tries : 0..RetryMax, reply : Replies]

TypeOK ==
    /\ profile \in Profiles
    /\ urlOK \in BOOLEAN
    /\ config \in MaybeValue
    /\ state \in Entries
    /\ remote \in [Ids -> MaybeValue]
    /\ allocated \subseteq Ids
    /\ op \in Operations
    /\ outcome \in {"none", "ok", "error", "crash"}
    /\ drifted \in BOOLEAN
    /\ budget \in 0..MaxDisturbances
    /\ lost \subseteq Ids
    /\ unrecorded \subseteq Ids
    /\ abandoned \subseteq Ids

Init ==
    /\ \E r \in Resources, k \in Kinds :
           /\ r.attributes[k] # {}
           /\ profile = [family |-> r.family, updatesURL |-> r.updatesURL,
                          kind |-> k]
    /\ urlOK \in UrlOK
    /\ config = NoValue
    /\ state = NoState
    /\ remote = [i \in Ids |-> NoValue]
    /\ allocated = {}
    /\ op = Idle
    /\ outcome = "none"
    /\ drifted = FALSE
    /\ budget = MaxDisturbances
    /\ lost = {}
    /\ unrecorded = {}
    /\ abandoned = {}

----------------------------------------------------------------------------
(* The environment: the practitioner's edits of the block and other users  *)
(* of the organization.                                                    *)

Disturb == budget > 0 /\ budget' = budget - 1

EditConfig(v) ==
    /\ op = Idle
    /\ v # config
    /\ config' = v
    /\ Disturb
    /\ UNCHANGED <<profile, urlOK, state, remote, allocated, op, outcome,
                   drifted, history>>

EditURL(ok) ==
    /\ op = Idle
    /\ ok # urlOK
    /\ urlOK' = ok
    /\ Disturb
    /\ UNCHANGED <<profile, config, state, remote, allocated, op, outcome,
                   drifted, history>>

OutOfBandChange(i, v) ==
    /\ i \in Live
    /\ v # remote[i]
    /\ remote' = [remote EXCEPT ![i] = v]
    /\ drifted' = TRUE
    /\ Disturb
    /\ UNCHANGED <<profile, urlOK, config, state, allocated, op, outcome,
                   history>>

----------------------------------------------------------------------------
(* Terraform decides which handler to call.                                *)

Begin(request) ==
    /\ op = Idle
    /\ op' = request
    /\ UNCHANGED <<profile, urlOK, config, state, remote, allocated, outcome,
                   drifted, budget, history>>

StartRefresh ==
    /\ state.id # NoId
    /\ Begin(Request("refresh", state.id, state.value))

NeedsCreate == config # NoValue /\ state.id = NoId

NeedsUpdate ==
    /\ state.id # NoId
    /\ ~state.tainted
    /\ config # NoValue
    /\ config # state.value

\* Building the payload is the handler's first step.
PayloadBuilds == profile.kind = "panicking" => config = Empty

StartCreate ==
    /\ NeedsCreate
    /\ PayloadBuilds
    /\ Begin(Request("create", NoId, config))

StartUpdate ==
    /\ NeedsUpdate
    /\ PayloadBuilds
    /\ Begin(Request("update", state.id, config))

StartDelete ==
    /\ state.id # NoId
    /\ config = NoValue \/ state.tainted
    /\ Begin(Request("delete", state.id, state.value))

PayloadPanics ==
    /\ op = Idle
    /\ NeedsCreate \/ NeedsUpdate
    /\ ~PayloadBuilds
    /\ outcome' = "crash"
    /\ UNCHANGED <<profile, urlOK, config, state, remote, allocated, op,
                   drifted, budget, history>>

----------------------------------------------------------------------------
(* The HTTP call.  The client repeats a call that ended in a connection    *)
(* error or a 5xx, whatever its method, and gives up after RetryMax        *)
(* repetitions with an error that is not an API response.                  *)

Targets == IF op.name = "create" THEN Ids \ allocated ELSE {op.id}

\* A PUT replaces the object: what the payload lacks becomes empty.
Sent == IF profile.kind \in {"unsent", "ignored"} THEN Empty ELSE op.value

Effect(i) ==
    CASE op.name = "create" -> [remote EXCEPT ![i] = Sent]
      [] op.name = "update" /\ i \in Live -> [remote EXCEPT ![i] = Sent]
      [] op.name = "delete" -> [remote EXCEPT ![i] = NoValue]
      [] OTHER -> remote

Answer(i) ==
    IF op.name # "create" /\ i \notin Live
    THEN [code |-> "notfound", id |-> NoId, value |-> NoValue]
    ELSE [code |-> "ok", id |-> i,
          value |-> IF op.name \in {"create", "update"}
                    THEN Sent ELSE remote[i]]

Served(i) ==
    /\ op.phase = "request"
    /\ i \in Targets
    /\ remote' = Effect(i)
    /\ allocated' = allocated \union {i}
    /\ drifted' = FALSE
    /\ UNCHANGED <<profile, urlOK, config, state, outcome, unrecorded,
                   abandoned>>

Replied(reply) == [op EXCEPT !.phase = "reply", !.reply = reply]

RetryOnceMore ==  \* mutant: off by one
    IF op.tries <= RetryMax
    THEN [op EXCEPT !.tries = @ + 1]
    ELSE Replied([code |-> "failed", id |-> NoId, value |-> NoValue])

RetryOrGiveUp ==
    IF op.tries < RetryMax
    THEN [op EXCEPT !.tries = @ + 1]
    ELSE Replied([code |-> "failed", id |-> NoId, value |-> NoValue])

ServerAnswers(i) ==
    /\ Served(i)
    /\ op' = Replied(Answer(i))
    /\ UNCHANGED <<budget, lost>>

\* The call took effect and its reply was lost or came after the timeout.
ReplyLost(i) ==
    /\ Served(i)
    /\ op' = RetryOrGiveUp
    /\ lost' = IF op.name = "create" THEN lost \union {i} ELSE lost
    /\ Disturb

\* The call had no effect: no connection, or a 5xx.
RequestFails ==
    /\ op.phase = "request"
    /\ op' = RetryOrGiveUp
    /\ Disturb
    /\ UNCHANGED <<profile, urlOK, config, state, remote, allocated, outcome,
                   drifted, history>>

\* A 4xx other than 404: an API response, never repeated.
RequestRefused ==
    /\ op.phase = "request"
    /\ op' = Replied([code |-> "badrequest", id |-> NoId,
                      value |-> NoValue])
    /\ Disturb
    /\ UNCHANGED <<profile, urlOK, config, state, remote, allocated, outcome,
                   drifted, history>>

----------------------------------------------------------------------------
(* The handlers.  A result is the data the handler leaves behind (id NoId: *)
(* removed) and whether it reported an error; a crash leaves nothing.      *)

Result(id, value, err) ==
    [id |-> id, value |-> value, err |-> err, crash |-> FALSE]

Removed(err) == Result(NoId, NoValue, err)
Kept(err)    == Result(op.id, op.value, err)
Crash        == [Removed(TRUE) EXCEPT !.crash = TRUE]

Ok       == op.reply.code = "ok"
NotFound == op.reply.code = "notfound"

KeepPlanned == op.value  \* mutant: the reply is not read

\* xxxAPIToTF: what the reply leaves of the attribute.
APIToTF ==
    CASE profile.kind = "sticky" ->
             IF op.reply.value = Empty THEN op.value ELSE op.reply.value
      [] profile.kind \in {"writeonly", "ignored"} -> op.value
      [] OTHER -> op.reply.value

Stored == Result(op.reply.id, APIToTF, FALSE)

DropOnAnyError ==  \* mutant: the 404 is not told from other errors
    IF Ok THEN Stored ELSE Removed(FALSE)

LegacyRead ==
    CASE NotFound -> Removed(FALSE)
      [] Ok -> Stored
      [] OTHER -> Kept(TRUE)

LegacyUpdate == IF Ok THEN Stored ELSE Kept(TRUE)
DeleteSwallows == Removed(FALSE)  \* mutant: the error is not returned
LegacyDelete == IF Ok THEN Removed(FALSE) ELSE Kept(TRUE)
LegacyCreate == IF Ok THEN Stored ELSE Removed(TRUE)

\* The URL is built before SetId and before the attributes are read.
ChartRead   == IF Ok /\ ~urlOK THEN Kept(TRUE) ELSE LegacyRead
ChartUpdate == IF Ok /\ profile.updatesURL /\ ~urlOK THEN Kept(TRUE)
               ELSE LegacyUpdate
ChartCreate == IF Ok /\ ~urlOK THEN Removed(TRUE) ELSE LegacyCreate

\* common.HandleError clears the id and still returns the error.
HandleError == IF NotFound THEN Removed(TRUE) ELSE Kept(TRUE)

TeamRead   == IF Ok THEN Stored ELSE HandleError
TeamCreate == IF Ok THEN Stored ELSE Removed(TRUE)
TeamUpdate == IF Ok THEN Stored ELSE HandleError
TeamDelete == IF Ok THEN Removed(FALSE) ELSE HandleError

\* fwerr.ErrorHandler turns a 404 into a warning and removes the entry from
\* its own copy of the state.
ErrorHandlerFails == ~Ok /\ ~NotFound

TemplateRead   == IF Ok THEN Stored ELSE Kept(ErrorHandlerFails)
FrameworkCreate == IF Ok THEN Stored
                   ELSE IF ErrorHandlerFails THEN Removed(TRUE) ELSE Crash
TemplateUpdate ==
    CASE Ok -> Stored
      [] NotFound -> Crash
      [] OTHER -> Result(state.id, state.value, TRUE)
FrameworkDelete == IF ErrorHandlerFails THEN Kept(TRUE) ELSE Removed(FALSE)

\* strings.Contains(err.Error(), "400"): the error's text holds the route,
\* and the route the rule's identifier.
Says400 == ~Ok /\ (op.reply.code = "badrequest" \/ op.id \in Ids400)
MutingDelete == IF Says400 THEN Removed(FALSE) ELSE FrameworkDelete

BigPandaRead == IF NotFound THEN Removed(FALSE) ELSE TemplateRead
BigPandaNoNilCheck ==  \* mutant: the nil check is missing
    CASE Ok -> Stored
      [] NotFound -> Crash
      [] OTHER -> Result(state.id, state.value, TRUE)
BigPandaUpdate ==
    CASE Ok -> Stored
      [] NotFound -> Removed(TRUE)  \* "missing state" after an update
      [] OTHER -> Result(state.id, state.value, TRUE)

ReadResult ==
    CASE profile.family = "integration" -> LegacyRead
      [] profile.family \in {"chart", "detector"} -> ChartRead
      [] profile.family = "team" -> TeamRead
      [] profile.family \in {"muting", "email"} -> TemplateRead
      [] profile.family = "bigpanda" -> BigPandaRead

CreateResult ==
    CASE profile.family = "integration" -> LegacyCreate
      [] profile.family \in {"chart", "detector"} -> ChartCreate
      [] profile.family = "team" -> TeamCreate
      [] OTHER -> FrameworkCreate

UpdateResult ==
    CASE profile.family = "integration" -> LegacyUpdate
      [] profile.family \in {"chart", "detector"} -> ChartUpdate
      [] profile.family = "team" -> TeamUpdate
      [] profile.family \in {"muting", "email"} -> TemplateUpdate
      [] profile.family = "bigpanda" -> BigPandaUpdate

DeleteResult ==
    CASE profile.family \in {"integration", "chart", "detector"} ->
             LegacyDelete
      [] profile.family = "team" -> TeamDelete
      [] profile.family = "muting" -> MutingDelete
      [] OTHER -> FrameworkDelete

----------------------------------------------------------------------------
(* What Terraform makes of a handler's result.                             *)

Entry(r, tainted) ==
    IF r.id = NoId THEN NoState
    ELSE [id |-> r.id, value |-> r.value, tainted |-> tainted]

CoreRead(r)   == IF r.err THEN state ELSE Entry(r, state.tainted)
CoreCreate(r) == Entry(r, r.err)
CoreUpdate(r) == IF r.err /\ r.id = NoId THEN state ELSE Entry(r, FALSE)
CoreDelete(r) == IF r.err THEN state ELSE NoState

Finish(name, r, entry) ==
    /\ op.name = name
    /\ op.phase = "reply"
    /\ state' = entry
    /\ op' = Idle
    /\ outcome' = CASE r.crash -> "crash" [] r.err -> "error"
                    [] OTHER -> "ok"
    /\ UNCHANGED <<profile, urlOK, config, remote, allocated, drifted, budget,
                   lost>>

RefreshReturns ==
    /\ Finish("refresh", ReadResult, CoreRead(ReadResult))
    /\ UNCHANGED <<unrecorded, abandoned>>

UpdateReturns ==
    /\ Finish("update", UpdateResult, CoreUpdate(UpdateResult))
    /\ UNCHANGED <<unrecorded, abandoned>>

DeleteReturns ==
    /\ Finish("delete", DeleteResult, CoreDelete(DeleteResult))
    /\ abandoned' = IF ~DeleteResult.err /\ op.id \in Live
                    THEN abandoned \union {op.id} ELSE abandoned
    /\ UNCHANGED unrecorded

\* detectorCreate ends with detectorRead, after SetId.
VerifiesCreate == profile.family = "detector" /\ Ok /\ urlOK

CreateReturns ==
    /\ ~VerifiesCreate
    /\ Finish("create", CreateResult, CoreCreate(CreateResult))
    /\ unrecorded' = IF Ok /\ CreateResult.id = NoId
                     THEN unrecorded \union {op.reply.id} ELSE unrecorded
    /\ UNCHANGED abandoned

DetectorCreated ==
    /\ op.name = "create"
    /\ op.phase = "reply"
    /\ VerifiesCreate
    /\ op' = Request("verify", op.reply.id, op.value)
    /\ UNCHANGED <<profile, urlOK, config, state, remote, allocated, outcome,
                   drifted, budget, history>>

VerifyReturns ==
    /\ Finish("verify", ReadResult, CoreCreate(ReadResult))
    /\ UNCHANGED <<unrecorded, abandoned>>

\* The provider process dies: nothing of the operation reaches the state.
Interrupt ==
    /\ op # Idle
    /\ op' = Idle
    /\ outcome' = "crash"
    /\ lost' = CASE op.name = "create" /\ Ok -> lost \union {op.reply.id}
                 [] op.name = "verify" -> lost \union {op.id}
                 [] OTHER -> lost
    /\ Disturb
    /\ UNCHANGED <<profile, urlOK, config, state, remote, allocated, drifted,
                   unrecorded, abandoned>>

----------------------------------------------------------------------------

Start   == StartRefresh \/ StartCreate \/ StartUpdate \/ StartDelete
Returns == \/ RefreshReturns \/ CreateReturns \/ DetectorCreated
           \/ VerifyReturns \/ UpdateReturns \/ DeleteReturns

Next ==
    \/ \E v \in MaybeValue : EditConfig(v)
    \/ \E ok \in UrlOK : EditURL(ok)
    \/ \E i \in Ids, v \in MaybeValue : OutOfBandChange(i, v)
    \/ StartRefresh \/ StartCreate \/ StartUpdate \/ StartDelete
    \/ PayloadPanics
    \/ \E i \in Ids : ServerAnswers(i)
    \/ \E i \in Ids : ReplyLost(i)
    \/ RequestFails
    \/ RequestRefused
    \/ RefreshReturns
    \/ CreateReturns
    \/ DetectorCreated
    \/ VerifyReturns
    \/ UpdateReturns
    \/ DeleteReturns
    \/ Interrupt

Spec == Init /\ [][Next]_vars

\* Calls end (the client has a timeout) and handlers return; Terraform is
\* run again and again, so it both refreshes and applies.
Fairness ==
    /\ WF_vars(\E i \in Ids : ServerAnswers(i))
    /\ WF_vars(Returns)
    /\ SF_vars(StartRefresh)
    /\ SF_vars(StartCreate)
    /\ SF_vars(StartUpdate)
    /\ SF_vars(StartDelete)

FairSpec == Spec /\ Fairness

----------------------------------------------------------------------------
(* Properties.                                                             *)

\* What the operation under way has created and is about to record.
InFlight ==
    CASE op.name = "create" /\ Ok -> {op.reply.id}
      [] op.name = "verify" -> {op.id}
      [] OTHER -> {}

(* Every live object the block ever created is known to the state, about   *)
(* to be recorded, or an orphan of one of three kinds: the reply to its    *)
(* create was lost (the client repeats POSTs, the process may die), the    *)
(* create handler of a chart or detector failed between the POST and SetId *)
(* because the application URL does not parse, or a muting rule's Delete   *)
(* took an error for success.  No other family and no other step leaks.    *)
OrphansExplained ==
    \A i \in Live :
        \/ i = state.id
        \/ i \in InFlight
        \/ i \in lost
        \/ i \in unrecorded /\ profile.family \in {"chart", "detector"}
        \/ i \in abandoned /\ profile.family = "muting"

(* An entry leaves the state only when its object is gone, the one         *)
(* exception being the muting rule's Delete.                               *)
ForgetsOnlyTheGone ==
    [][state.id # NoId /\ state'.id = NoId =>
          \/ state.id \notin Live
          \/ profile.family = "muting" /\ op.name = "delete"]_vars

\* How far a value read back from the object may differ from it.
Mirrors(value, i) ==
    CASE profile.kind \in {"writeonly", "ignored"} -> TRUE
      [] profile.kind = "sticky" -> remote[i] \in {value, Empty}
      [] OTHER -> remote[i] = value

(* The state mirrors the object: after an operation that reported success, *)
(* and with no change made by others since its last call, the recorded     *)
(* value is the object's, but for an emptied attribute that Read copies    *)
(* only when it is not empty, and for write-only attributes.               *)
StateMirrorsObject ==
    (op = Idle /\ outcome = "ok" /\ ~drifted /\ state.id \in Live) =>
        Mirrors(state.value, state.id)

(* Refreshing an entry whose object no longer exists removes the entry, so *)
(* that the next plan creates the object again.                            *)
RefreshForgetsTheGone ==
    [][RefreshReturns /\ NotFound => state' = NoState]_vars

(* Whatever the API answers, a handler returns and does not crash the      *)
(* process, with two exceptions: the update of a muting rule or of an      *)
(* email template that somebody else deleted, and a detector whose payload *)
(* cannot be built from what its block says.                               *)
HandlersReturn ==
    [][(\/ RefreshReturns \/ CreateReturns \/ VerifyReturns
        \/ UpdateReturns \/ DeleteReturns \/ PayloadPanics)
       => \/ outcome' # "crash"
          \/ /\ profile.family \in {"muting", "email"}
             /\ op.name = "update" /\ NotFound
          \/ profile.family = "detector" /\ op = Idle]_vars

Reconciled ==
    IF config = NoValue
    THEN state = NoState
    ELSE /\ state.id \in Live
         /\ ~state.tainted
         /\ state.value = config
         /\ Mirrors(config, state.id)

(* Once the disturbances stop, refreshing and applying bring the block,    *)
(* the state and the object to agree, and they stay so.                    *)
Converges == <>[](op = Idle => Reconciled) /\ []<>(op = Idle)

----------------------------------------------------------------------------
(* Why the properties hold: an operation works on the object of the state  *)
(* entry, or on none (create) or its own new one (verify); a reply speaks  *)
(* of that object; and what is gone never comes back.                      *)
AllocatedFirst ==
    /\ Live \subseteq allocated
    /\ state.id \in allocated \union {NoId}
    /\ op.id \in allocated \union {NoId}
    /\ op.reply.id \in allocated \union {NoId}

OperationMatchesState ==
    /\ op.name = "idle" <=> op.phase = "none"
    /\ op.name = "idle" => op = Idle
    /\ op.name \in {"refresh", "update", "delete"} =>
           op.id = state.id /\ state.id # NoId
    /\ op.name = "create" => op.id = NoId /\ state.id = NoId
    /\ op.name \in {"create", "update"} => op.value # NoValue
    /\ op.name = "verify" => /\ op.id # NoId /\ state.id = NoId
                             /\ profile.family = "detector"

ReplySpeaksOfTarget ==
    /\ Ok => op.phase = "reply" /\ op.reply.id # NoId
    /\ Ok /\ op.name # "create" => op.reply.id = op.id
    /\ NotFound => op.name # "create" /\ op.id \notin Live
    /\ Ok /\ op.name = "delete" => op.id \notin Live

IndInv ==
    /\ TypeOK
    /\ AllocatedFirst
    /\ OperationMatchesState
    /\ ReplySpeaksOfTarget
    /\ OrphansExplained

----------------------------------------------------------------------------
(* The lifecycle implements the custody of objects: no object is created   *)
(* while another is owned, none is recorded that was not just created, and *)
(* none is dropped while it lives, except by the leaks listed above.       *)
Custody == INSTANCE ObjectCustody WITH
               live <- Live, born <- allocated, owned <- state.id,
               pending <- InFlight,
               leaked <- lost \union unrecorded \union abandoned

CustodySpec == Custody!Spec
=============================================================================
