--------------------------- MODULE AwsIntegration ---------------------------
(***************************************************************************)
(* Two blocks that share one object.  signalfx_aws_external_integration    *)
(* (or ..._token_integration) creates an AWS integration and its           *)
(* credentials; signalfx_aws_integration refers to it by identifier,       *)
(* configures it, and destroys it.  Enabling and cancelling CloudWatch     *)
(* metric streams takes the service a while: the handlers poll until the   *)
(* state settles.                                                          *)
(*                                                                         *)
(* Each step of `op` is one HTTP call and the code that follows it, up to  *)
(* the next call.  Terraform runs the two blocks one after the other: the  *)
(* second depends on the first's identifier.                               *)
(***************************************************************************)
EXTENDS Naturals

CONSTANTS
    Ids,             \* identifiers the API hands out, never twice
    NoId,            \* the empty identifier: "not in the state"
    Gone,            \* no object
    Absent,          \* no signalfx_aws_integration block
    Unseen,          \* no reply read yet
    MaxDisturbances  \* bound on faults, drift and edits of the blocks

SyncStates ==
    {"", "ENABLED", "DISABLED", "CANCELLING", "CANCELLATION_FAILED"}

\* starting: the service was asked to enable the streams and has not yet.
Objects   == [enabled : BOOLEAN, sync : SyncStates, starting : BOOLEAN]
Settings  == [enabled : BOOLEAN, sync : BOOLEAN]
MaybeId   == Ids \union {NoId}

ASSUME AwsAssumption ==
    /\ NoId \notin Ids
    /\ Gone \notin Objects
    /\ MaxDisturbances \in Nat

VARIABLES
    wanted,     \* the credentials block is in the configuration
    config,     \* the integration block, Absent: none
    renamed,    \* its name is not the recorded one (ForceNew)
    cred,       \* entry of the credentials block: its id
    main,       \* entry of the integration block
    remote,     \* the API's objects
    allocated,  \* identifiers handed out so far
    op,         \* the operation under way
    outcome,    \* what the last finished operation reported
    changed,    \* the object changed since the operation last saw it
    budget,     \* disturbances left
    lost,       \* history: created, and the id never recorded
    abandoned,  \* history: live when the credentials block was destroyed
    adopted     \* history: recorded by an integration block

blocks == <<wanted, config, renamed>>
vars   == <<blocks, cred, main, remote, allocated, op, outcome, changed,
            budget, lost, abandoned, adopted>>

NoMain == [id |-> NoId, set |-> Absent, tainted |-> FALSE]
Idle   == [name |-> "idle", step |-> "none", id |-> NoId, set |-> Absent,
           change |-> FALSE, seen |-> Unseen]
Fresh  == [enabled |-> FALSE, sync |-> "", starting |-> FALSE]

Live == {i \in Ids : remote[i] # Gone}

TypeOK ==
    /\ wanted \in BOOLEAN
    /\ config \in Settings \union {Absent}
    /\ renamed \in BOOLEAN
    /\ cred \in MaybeId
    /\ main \in [id : MaybeId, set : Settings \union {Absent},
                 tainted : BOOLEAN]
    /\ remote \in [Ids -> Objects \union {Gone}]
    /\ allocated \subseteq Ids
    /\ op \in [name : {"idle", "createCred", "readCred", "create", "read",
                       "update", "delete"},
               step : {"none", "post", "record", "get", "put", "wait",
                        "delete"},
               id : MaybeId, set : Settings \union {Absent},
               change : BOOLEAN, seen : Objects \union {Unseen}]
    /\ outcome \in {"none", "ok", "error"}
    /\ changed \in BOOLEAN
    /\ budget \in 0..MaxDisturbances
    /\ lost \subseteq Ids
    /\ abandoned \subseteq Ids
    /\ adopted \subseteq Ids

Init ==
    /\ wanted = FALSE
    /\ config = Absent
    /\ renamed = FALSE
    /\ cred = NoId
    /\ main = NoMain
    /\ remote = [i \in Ids |-> Gone]
    /\ allocated = {}
    /\ op = Idle
    /\ outcome = "none"
    /\ changed = FALSE
    /\ budget = MaxDisturbances
    /\ lost = {}
    /\ abandoned = {}
    /\ adopted = {}

----------------------------------------------------------------------------
(* The environment: edits of the blocks, other users, and the service's    *)
(* own progress with metric streams.                                       *)

Disturb == budget > 0 /\ budget' = budget - 1

\* An integration block refers to a credentials block.
EditBlocks(w, c) ==
    /\ op = Idle
    /\ c # Absent => w
    /\ <<w, c>> # <<wanted, config>>
    /\ wanted' = w
    /\ config' = c
    /\ renamed' = (renamed /\ w)
    /\ Disturb
    /\ UNCHANGED <<cred, main, remote, allocated, op, outcome, changed,
                   lost, abandoned, adopted>>

Rename ==
    /\ op = Idle
    /\ wanted /\ ~renamed /\ cred # NoId
    /\ renamed' = TRUE
    /\ Disturb
    /\ UNCHANGED <<wanted, config, cred, main, remote, allocated, op,
                   outcome, changed, lost, abandoned, adopted>>

RemoteBecomes(i, object) ==
    /\ remote' = [remote EXCEPT ![i] = object]
    /\ changed' = TRUE
    /\ UNCHANGED <<blocks, cred, main, allocated, op, outcome, lost,
                   abandoned, adopted>>

OutOfBandDelete(i) ==
    /\ i \in Live
    /\ RemoteBecomes(i, Gone)
    /\ Disturb

OutOfBandSwitch(i) ==
    /\ i \in Live
    /\ \E s \in {"ENABLED", "DISABLED"} \ {remote[i].sync} :
           RemoteBecomes(i, [remote[i] EXCEPT !.sync = s, !.starting = FALSE])
    /\ Disturb

Settle(i) ==
    /\ i \in Live
    /\ \/ /\ remote[i].starting
          /\ RemoteBecomes(i, [remote[i] EXCEPT !.sync = "ENABLED",
                                                !.starting = FALSE])
       \/ /\ remote[i].sync = "CANCELLING" /\ ~remote[i].starting
          /\ RemoteBecomes(i, [remote[i] EXCEPT !.sync = "DISABLED"])
    /\ UNCHANGED budget

CancellationFails(i) ==
    /\ i \in Live
    /\ remote[i].sync = "CANCELLING" /\ ~remote[i].starting
    /\ RemoteBecomes(i, [remote[i] EXCEPT !.sync = "CANCELLATION_FAILED"])
    /\ Disturb

----------------------------------------------------------------------------
(* Terraform decides which handler to call.                                *)

Begin(name, step, id, set, change) ==
    /\ op = Idle
    /\ op' = [name |-> name, step |-> step, id |-> id, set |-> set,
              change |-> change, seen |-> Unseen]
    /\ UNCHANGED <<blocks, cred, main, remote, allocated, outcome, changed,
                   budget, lost, abandoned, adopted>>

StartCreateCred ==
    /\ wanted /\ cred = NoId
    /\ Begin("createCred", "post", NoId, Absent, FALSE)

StartReadCred == cred # NoId /\ Begin("readCred", "get", cred, Absent, FALSE)

StartRead ==
    main.id # NoId /\ Begin("read", "get", main.id, main.set, FALSE)

\* HasChange compares with a state that holds no value: false.
StartCreate ==
    /\ config # Absent /\ main.id = NoId
    /\ cred # NoId /\ ~renamed
    /\ Begin("create", "get", cred, config, config.sync)

\* The identifier is ForceNew and computed by the credentials block.
Replaced == main.tainted \/ renamed \/ main.id # cred

StartUpdate ==
    /\ config # Absent /\ main.id # NoId
    /\ ~Replaced
    /\ config # main.set
    /\ Begin("update", "put", main.id, config, config.sync # main.set.sync)

StartDelete ==
    /\ main.id # NoId
    /\ config = Absent \/ Replaced
    /\ Begin("delete", "get", main.id, main.set, FALSE)

\* noop: the credentials block's Delete makes no call.
DeleteCred ==
    /\ op = Idle
    /\ cred # NoId /\ main.id = NoId
    /\ ~wanted \/ renamed
    /\ cred' = NoId
    /\ renamed' = FALSE
    /\ outcome' = "ok"
    /\ abandoned' = abandoned \union (Live \cap {cred})
    /\ UNCHANGED <<wanted, config, main, remote, allocated, op, changed,
                   budget, lost, adopted>>

----------------------------------------------------------------------------
(* How an operation ends and what Terraform makes of it.                   *)

Ends(result) == op' = Idle /\ outcome' = result

OnlySynced(r) ==  \* mutant: a cancellation under way is overlooked
    r.enabled /\ r.sync = "ENABLED"

NeedToDisable(r) == r.enabled /\ r.sync # "" /\ r.sync # "DISABLED"

\* awsIntegrationAPIToTF.
APIToTF(r) == [enabled |-> r.enabled, sync |-> r.sync = "ENABLED"]

\* A refresh leaves a tainted entry tainted.
Succeeds(r) ==
    /\ main' = [id |-> op.id, set |-> APIToTF(r),
                tainted |-> op.name = "read" /\ main.tainted]
    /\ Ends("ok")

NoRollback ==  \* mutant: an error of any step of Delete is dropped
    /\ main' = IF op.name = "delete" THEN NoMain ELSE main
    /\ Ends("error")

\* Create and Update: the SDK records the plan's values with an error.
Fails ==
    /\ main' = CASE op.name = "create" /\ op.step # "get" ->
                        [id |-> op.id, set |-> op.set, tainted |-> TRUE]
                 [] op.name = "update" -> [main EXCEPT !.set = op.set]
                 [] OTHER -> main
    /\ Ends("error")

\* integrationAWSCreate ignores a 404 no more than another error.
GoneOnGet ==
    \/ op.name \in {"read", "delete"} /\ main' = NoMain /\ Ends("ok")
    \/ op.name = "create" /\ Fails

Proceed(step, r) ==
    /\ op' = [op EXCEPT !.step = step, !.seen = r]
    /\ UNCHANGED <<main, outcome>>

----------------------------------------------------------------------------
(* The calls.                                                              *)

Saw == changed' = FALSE
Quiet == UNCHANGED <<blocks, allocated, budget, lost, abandoned>>
Records == adopted' = adopted \union ({main'.id} \ {NoId})

\* Which identifier the service hands out is of no matter, so it is fixed.
NewId == CHOOSE i \in Ids : i \notin allocated

Created ==
    /\ op.step = "post"
    /\ allocated # Ids
    /\ allocated' = allocated \union {NewId}
    /\ remote' = [remote EXCEPT ![NewId] = Fresh]

CreateCredAnswered ==
    /\ Created
    /\ op' = [op EXCEPT !.step = "record", !.id = NewId]
    /\ Saw
    /\ UNCHANGED <<blocks, cred, main, outcome, budget, lost, abandoned,
                   adopted>>

CreateCredReturns ==
    /\ op.step = "record"
    /\ cred' = op.id
    /\ renamed' = FALSE
    /\ Ends("ok")
    /\ UNCHANGED <<wanted, config, main, remote, allocated, changed, budget, lost,
                   abandoned, adopted>>

\* The reply never comes: the client repeats the call or gives up.
CreateCredLost ==
    /\ Created
    /\ lost' = lost \union {NewId}
    /\ \/ UNCHANGED <<op, outcome>>
       \/ Ends("error")
    /\ Disturb
    /\ UNCHANGED <<blocks, cred, main, changed, abandoned, adopted>>

KeepDeadCred == cred  \* mutant: a 404 is not told from success
ForgetCred   == NoId  \* mutant: the id is cleared whatever the reply

\* IntegrationAWSRead: a 404 clears the id.
CredAfterRead == IF op.id \in Live THEN cred ELSE NoId

ReadCredAnswered ==
    /\ op.name = "readCred"
    /\ cred' = CredAfterRead
    /\ Saw
    /\ Ends("ok")
    /\ Quiet
    /\ UNCHANGED <<main, remote, adopted>>

GetAnswered ==
    /\ op.name # "readCred" /\ op.step = "get"
    /\ LET r == remote[op.id]
       IN  \/ r = Gone /\ GoneOnGet
           \/ r # Gone /\ op.name = "read" /\ Succeeds(r)
           \/ r # Gone /\ op.name = "create" /\ Proceed("put", r)
           \/ /\ r # Gone /\ op.name = "delete"
              /\ Proceed(IF NeedToDisable(r) THEN "put" ELSE "delete", r)
    /\ Saw
    /\ Quiet
    /\ UNCHANGED <<cred, remote>>
    /\ Records

\* metricStreamsSyncState of the payload; "" is left out of the request.
AskedSync ==
    CASE op.name = "delete" -> "CANCELLING"
      [] op.set.sync -> "ENABLED"
      [] op.change -> "CANCELLING"
      [] OTHER -> ""

AskedEnabled == IF op.name = "delete" THEN op.seen.enabled ELSE op.set.enabled

\* What the service makes of a PUT: it may take its time to enable.
AfterPut(r) ==
    LET set == [r EXCEPT !.enabled = AskedEnabled]
        stopping == [set EXCEPT !.sync = "CANCELLING", !.starting = FALSE]
        started == [set EXCEPT !.sync = "ENABLED", !.starting = FALSE]
        slow == [set EXCEPT !.sync = IF @ = "" THEN "DISABLED" ELSE @,
                            !.starting = (@ \/ r.sync # "ENABLED")]
    IN  CASE AskedSync = "ENABLED" -> {started, slow}
          [] /\ AskedSync = "CANCELLING"
             /\ r.sync \notin {"", "DISABLED"} \/ r.starting -> {stopping}
          [] OTHER -> {set}

Waits == op.name = "delete" \/ op.change

PutAnswered ==
    /\ op.step = "put"
    /\ IF remote[op.id] = Gone
       THEN Fails /\ UNCHANGED remote
       ELSE \E r \in AfterPut(remote[op.id]) :
                /\ remote' = [remote EXCEPT ![op.id] = r]
                /\ IF Waits THEN Proceed("wait", r) ELSE Succeeds(r)
    /\ Saw
    /\ Quiet
    /\ UNCHANGED cred
    /\ Records

\* waitForIntegrationSpecificSyncStateToSettle.
ExpectOn == op.name # "delete" /\ op.set.sync
Pending  == IF ExpectOn
            THEN {"DISABLED", "CANCELLING", "CANCELLATION_FAILED"}
            ELSE {"ENABLED", "CANCELLING"}
Target   == IF ExpectOn THEN {"ENABLED"} ELSE {"", "DISABLED"}

PollAnswered ==
    /\ op.step = "wait"
    /\ LET r == remote[op.id]
       IN  \/ r = Gone /\ Fails
           \/ /\ r # Gone /\ r.sync \in Target
              /\ IF op.name = "delete" THEN Proceed("delete", r) ELSE Succeeds(r)
           \/ r # Gone /\ r.sync \in Pending /\ Proceed("wait", r)
           \/ r # Gone /\ r.sync \notin Target \union Pending /\ Fails
    /\ Saw
    /\ Quiet
    /\ UNCHANGED <<cred, remote>>
    /\ Records

\* A 404 is an error here.
DeleteAnswered ==
    /\ op.step = "delete"
    /\ IF remote[op.id] = Gone THEN Fails ELSE main' = NoMain /\ Ends("ok")
    /\ remote' = [remote EXCEPT ![op.id] = Gone]
    /\ Saw
    /\ Quiet
    /\ UNCHANGED cred
    /\ Records

\* A PUT or DELETE takes effect, its reply is lost and the client gives up.
ReplyLost ==
    /\ op.step \in {"put", "delete"}
    /\ remote[op.id] # Gone
    /\ \E r \in IF op.step = "put" THEN AfterPut(remote[op.id]) ELSE {Gone} :
           remote' = [remote EXCEPT ![op.id] = r]
    /\ Fails
    /\ changed' = TRUE
    /\ Disturb
    /\ UNCHANGED <<blocks, cred, allocated, lost, abandoned>>
    /\ Records

\* The timeout of WaitForState: no settling is left to wait for.
WaitTimesOut ==
    /\ op.step = "wait"
    /\ remote[op.id] # Gone
    /\ remote[op.id].sync \in Pending \ {"CANCELLING"}
    /\ ~remote[op.id].starting
    /\ Fails
    /\ Quiet
    /\ UNCHANGED <<cred, remote, changed>>
    /\ Records

\* A call is refused or never arrives, or the wait times out too early.
CallFails ==
    /\ op.step \notin {"none", "record"}
    /\ Fails
    /\ Disturb
    /\ UNCHANGED <<blocks, cred, remote, allocated, changed, lost, abandoned>>
    /\ Records

Unrecorded == IF op.step = "record" THEN {op.id} ELSE {}

Interrupt ==
    /\ op # Idle
    /\ Ends("error")
    /\ lost' = lost \union Unrecorded
    /\ Disturb
    /\ UNCHANGED <<blocks, cred, main, remote, allocated, changed, abandoned,
                   adopted>>

----------------------------------------------------------------------------

Answered ==
    \/ CreateCredAnswered
    \/ CreateCredReturns
    \/ ReadCredAnswered
    \/ GetAnswered
    \/ PutAnswered
    \/ PollAnswered
    \/ WaitTimesOut
    \/ DeleteAnswered

Next ==
    \/ \E w \in BOOLEAN, c \in Settings \union {Absent} : EditBlocks(w, c)
    \/ Rename
    \/ \E i \in Ids : OutOfBandDelete(i)
    \/ \E i \in Ids : OutOfBandSwitch(i)
    \/ \E i \in Ids : Settle(i)
    \/ \E i \in Ids : CancellationFails(i)
    \/ StartCreateCred \/ StartReadCred \/ StartRead
    \/ StartCreate \/ StartUpdate \/ StartDelete
    \/ DeleteCred
    \/ CreateCredAnswered
    \/ CreateCredReturns
    \/ CreateCredLost
    \/ ReadCredAnswered
    \/ GetAnswered
    \/ PutAnswered
    \/ PollAnswered
    \/ WaitTimesOut
    \/ DeleteAnswered
    \/ ReplyLost
    \/ CallFails
    \/ Interrupt

Spec == Init /\ [][Next]_vars

\* Calls end, the service settles, and Terraform is run again and again.
Fairness ==
    /\ WF_vars(Answered)
    /\ \A i \in Ids : WF_vars(Settle(i))
    /\ SF_vars(StartReadCred)
    /\ SF_vars(StartRead)
    /\ SF_vars(StartCreateCred)
    /\ SF_vars(StartCreate)
    /\ SF_vars(StartUpdate)
    /\ SF_vars(StartDelete)
    /\ SF_vars(DeleteCred)

FairSpec == Spec /\ Fairness

----------------------------------------------------------------------------
(* Properties.                                                             *)

(* Delete never destroys an integration whose metric streams run: unless   *)
(* the object changed after Delete last looked at it, the streams of an    *)
(* enabled integration have been seen to stop.                             *)
StreamsStopFirst ==
    [][DeleteAnswered /\ ~changed /\ remote[op.id] # Gone =>
          \/ ~remote[op.id].enabled
          \/ remote[op.id].sync \in {"", "DISABLED"}]_vars

(* Once an integration block has recorded an integration, the object lives *)
(* only as long as the block: whatever step of Delete fails, the block     *)
(* stays in the state until the object is gone.                            *)
AdoptedNeverLeaked == \A i \in adopted \cap Live : main.id = i

(* A create or update that switches metric streams and reports success has *)
(* seen them in the state the block asks for.                              *)
SwitchTakesEffect ==
    [][/\ op.name \in {"create", "update"}
       /\ op.change
       /\ op' = Idle /\ outcome' = "ok"
       => main'.set.sync = op.set.sync]_vars

Reconciled ==
    /\ (cred # NoId) <=> wanted
    /\ wanted => cred \in Live
    /\ config = Absent => main = NoMain
    /\ config # Absent => /\ main = [id |-> cred, set |-> config,
                                     tainted |-> FALSE]
                          /\ APIToTF(remote[cred]) = config

(* Once the disturbances stop, both blocks refer to the same live object   *)
(* and it is set as the integration block says, although a failed create   *)
(* of the second block destroys the object of the first.                   *)
Converges == <>[](op = Idle => Reconciled) /\ []<>(op = Idle)

(* The credentials block's entry implements the custody of objects.        *)
Custody == INSTANCE ObjectCustody WITH
               live <- Live, born <- allocated, owned <- cred,
               pending <- Unrecorded, leaked <- lost \union abandoned

CustodySpec == Custody!Spec
=============================================================================
