---------------------- MODULE ResourceLifecycle_proofs ----------------------
EXTENDS ResourceLifecycle, TLAPS

LEMMA IdleIsOperation == Idle \in Operations
  BY LifecycleAssumption DEF Idle, NoReply, Operations, Replies, MaybeId,
     MaybeValue

LEMMA NoStateIsEntry == NoState \in Entries
  BY DEF NoState, Entries, MaybeId, MaybeValue

LEMMA RequestIsOperation ==
  ASSUME NEW name \in {"refresh", "create", "verify", "update", "delete"},
         NEW id \in MaybeId, NEW value \in MaybeValue
  PROVE  Request(name, id, value) \in Operations
  BY LifecycleAssumption DEF Request, NoReply, Operations, Replies, MaybeId,
     MaybeValue

LEMMA RepliedIsOperation ==
  ASSUME op \in Operations, NEW reply \in Replies
  PROVE  Replied(reply) \in Operations
  BY DEF Replied, Operations

LEMMA RetryIsOperation ==
  ASSUME op \in Operations
  PROVE  RetryOrGiveUp \in Operations
<1>1. [code |-> "failed", id |-> NoId, value |-> NoValue] \in Replies
  BY DEF Replies, MaybeId, MaybeValue
<1>2. CASE op.tries < RetryMax
  <2>1. op.tries + 1 \in 0..RetryMax
    BY <1>2, LifecycleAssumption DEF Operations
  <2>2. QED
    BY <1>2, <2>1 DEF RetryOrGiveUp, Operations
<1>3. CASE ~(op.tries < RetryMax)
  BY <1>1, <1>3, RepliedIsOperation DEF RetryOrGiveUp
<1>4. QED
  BY <1>2, <1>3

LEMMA Initially == Init => IndInv
<1> SUFFICES ASSUME Init PROVE IndInv
  OBVIOUS
<1>1. TypeOK
  <2>1. profile \in Profiles /\ urlOK \in BOOLEAN
    <3>1. PICK b \in Resources, k \in Kinds :
              profile = [family |-> b.family, updatesURL |-> b.updatesURL,
                         kind |-> k]
      BY DEF Init
    <3>2. b.family \in AllFamilies /\ b.updatesURL \in BOOLEAN
      BY LifecycleAssumption DEF Blocks
    <3>3. QED
      BY <3>1, <3>2, LifecycleAssumption DEF Init, Profiles
  <2>2. budget \in 0..MaxDisturbances
    BY LifecycleAssumption DEF Init
  <2>3. QED
    BY <2>1, <2>2, IdleIsOperation, NoStateIsEntry
    DEF Init, TypeOK, MaybeValue
<1>2. Live = {}
  BY DEF Init, Live
<1>3. AllocatedFirst /\ OperationMatchesState /\ ReplySpeaksOfTarget
  BY <1>2 DEF Init, AllocatedFirst, OperationMatchesState,
              ReplySpeaksOfTarget, Idle, NoReply, NoState, Ok, NotFound
<1>4. OrphansExplained
  BY <1>2 DEF OrphansExplained
<1>5. QED
  BY <1>1, <1>3, <1>4 DEF IndInv


----------------------------------------------------------------------------
(* Results of the handlers.                                                *)

Results == [id : MaybeId, value : MaybeValue, err : BOOLEAN, crash : BOOLEAN]

(* The handlers' results without their Boolean argument.                    *)
Gone        == Removed(FALSE)
GoneError   == Removed(TRUE)
Same        == Kept(FALSE)
SameError   == Kept(TRUE)
Planned     == Result(op.reply.id, op.value, FALSE)
PriorError  == Result(state.id, state.value, TRUE)

LEMMA ResultFields ==
  ASSUME NEW id \in MaybeId, NEW value \in MaybeValue, NEW err \in BOOLEAN
  PROVE  /\ Result(id, value, err) \in Results
         /\ Result(id, value, err).id = id
         /\ Result(id, value, err).err = err
  BY DEF Result, Results

LEMMA BasicResults ==
  ASSUME TypeOK
  PROVE  /\ Gone \in Results /\ Gone.id = NoId
         /\ GoneError \in Results /\ GoneError.id = NoId
         /\ GoneError.err
         /\ Same \in Results /\ Same.id = op.id
         /\ SameError \in Results /\ SameError.id = op.id
         /\ SameError.err
         /\ Crash \in Results /\ Crash.id = NoId /\ Crash.err
         /\ Stored \in Results /\ Stored.id = op.reply.id
         /\ Planned \in Results
         /\ Planned.id = op.reply.id
         /\ PriorError \in Results
         /\ PriorError.id = state.id
<1>1. /\ op.id \in MaybeId /\ op.reply.id \in MaybeId /\ state.id \in MaybeId
      /\ op.value \in MaybeValue /\ op.reply.value \in MaybeValue
      /\ state.value \in MaybeValue
  BY DEF TypeOK, Operations, Replies, Entries
<1>2. APIToTF \in MaybeValue
  BY <1>1 DEF APIToTF, MaybeValue
<1>3. NoId \in MaybeId /\ NoValue \in MaybeValue
  BY DEF MaybeId, MaybeValue
<1>4. Crash \in Results /\ Crash.id = NoId /\ Crash.err
  BY <1>3 DEF Crash, Removed, Result, Results
<1>5. /\ Gone \in Results /\ Gone.id = NoId
      /\ GoneError \in Results /\ GoneError.id = NoId
      /\ GoneError.err
  BY <1>3 DEF Gone, GoneError, Removed, Result, Results
<1>6. /\ Same \in Results /\ Same.id = op.id
      /\ SameError \in Results /\ SameError.id = op.id
      /\ SameError.err
  BY <1>1 DEF Same, SameError, Kept, Result, Results
<1>7. Stored \in Results /\ Stored.id = op.reply.id
  BY <1>1, <1>2, ResultFields DEF Stored
<1>8. QED
  BY <1>1, <1>4, <1>5, <1>6, <1>7, ResultFields DEF Planned, PriorError

(* A read that reports no error stored the reply's object, kept the entry  *)
(* or removed it after a 404; a detector's read removes only after a 404.  *)
LEMMA ReadResults ==
  ASSUME TypeOK
  PROVE  /\ ReadResult \in Results
         /\ \/ ReadResult.id \in {NoId, op.id}
            \/ Ok /\ ReadResult.id = op.reply.id
         /\ ReadResult.id = NoId /\ ~ReadResult.err =>
                \/ NotFound \/ op.id = NoId
                \/ Ok /\ op.reply.id = NoId
         /\ ReadResult.id = NoId /\ profile.family = "detector" =>
                \/ NotFound \/ op.id = NoId
                \/ Ok /\ op.reply.id = NoId
<1>1. profile.family \in AllFamilies
  BY DEF TypeOK, Profiles
<1>2. \/ LegacyRead = Gone /\ NotFound
      \/ LegacyRead = Stored /\ Ok
      \/ LegacyRead = SameError
  BY DEF Gone, GoneError, Same, SameError, Planned, PriorError, LegacyRead, Ok, NotFound
<1>3. ChartRead = SameError \/ ChartRead = LegacyRead
  BY DEF Gone, GoneError, Same, SameError, Planned, PriorError, ChartRead
<1>4. \/ TeamRead = Stored /\ Ok
      \/ TeamRead = GoneError
      \/ TeamRead = SameError
  BY DEF Gone, GoneError, Same, SameError, Planned, PriorError, TeamRead, HandleError
<1>5. \/ TemplateRead = Stored /\ Ok
      \/ TemplateRead = SameError
      \/ TemplateRead = Same
  BY DEF Gone, GoneError, Same, SameError, Planned, PriorError, TemplateRead, ErrorHandlerFails
<1>6. \/ BigPandaRead = Gone /\ NotFound
      \/ BigPandaRead = TemplateRead
  BY DEF Gone, GoneError, Same, SameError, Planned, PriorError, BigPandaRead
<1>7. \/ ReadResult = LegacyRead \/ ReadResult = ChartRead
      \/ ReadResult = TeamRead /\ profile.family # "detector"
      \/ ReadResult = TemplateRead \/ ReadResult = BigPandaRead
  BY <1>1 DEF ReadResult, AllFamilies
<1>8. \/ ReadResult = Gone /\ NotFound
      \/ ReadResult = Stored /\ Ok
      \/ ReadResult = SameError \/ ReadResult = Same
      \/ ReadResult = GoneError /\ profile.family # "detector"
  BY <1>2, <1>3, <1>4, <1>5, <1>6, <1>7
<1>9. CASE ReadResult = Gone /\ NotFound
  BY <1>9, BasicResults DEF NotFound
<1>10. CASE ReadResult = Stored /\ Ok
  BY <1>10, BasicResults DEF Ok, NotFound
<1>11. CASE ReadResult = SameError \/ ReadResult = Same
  BY <1>11, BasicResults DEF NotFound
<1>12. CASE ReadResult = GoneError /\ profile.family # "detector"
  BY <1>12, BasicResults
<1>13. QED
  BY <1>8, <1>9, <1>10, <1>11, <1>12

(* A create records the object of a successful reply, unless the           *)
(* application URL of a chart or detector does not parse.                  *)
LEMMA CreateResults ==
  ASSUME TypeOK
  PROVE  /\ CreateResult \in Results
         /\ CreateResult.id \in {NoId, op.reply.id}
         /\ ~Ok => CreateResult.id = NoId
         /\ Ok /\ CreateResult.id = NoId => profile.family \in {"chart", "detector"} \/ op.reply.id = NoId
<1>1. profile.family \in AllFamilies
  BY DEF TypeOK, Profiles
<1>2. \/ CreateResult = LegacyCreate
      \/ CreateResult = ChartCreate /\ profile.family \in {"chart", "detector"}
      \/ CreateResult = TeamCreate
      \/ CreateResult = FrameworkCreate
  BY <1>1 DEF CreateResult, AllFamilies
<1>3. \/ Ok /\ CreateResult = Stored
      \/ Ok /\ CreateResult = Planned
      \/ Ok /\ CreateResult = GoneError /\ profile.family \in {"chart", "detector"}
      \/ ~Ok /\ (CreateResult = GoneError \/ CreateResult = Crash)
  BY <1>2 DEF Gone, GoneError, Same, SameError, Planned, PriorError, LegacyCreate, ChartCreate, TeamCreate, FrameworkCreate
<1>4. QED
  BY <1>3, BasicResults

(* An update never gives the entry another identifier, and clears it only  *)
(* together with an error.                                                 *)
LEMMA UpdateResults ==
  ASSUME TypeOK
  PROVE  /\ UpdateResult \in Results
         /\ \/ UpdateResult.id \in {op.id, state.id}
            \/ Ok /\ UpdateResult.id = op.reply.id
            \/ UpdateResult.id = NoId /\ UpdateResult.err
<1>1. profile.family \in AllFamilies
  BY DEF TypeOK, Profiles
<1>2. UpdateResult \in {LegacyUpdate, ChartUpdate, TeamUpdate,
                        TemplateUpdate, BigPandaUpdate}
  BY <1>1 DEF UpdateResult, AllFamilies
<1>3. \/ Ok /\ UpdateResult = Stored
      \/ UpdateResult = SameError \/ UpdateResult = GoneError
      \/ UpdateResult = Crash
      \/ UpdateResult = PriorError
  BY <1>2 DEF Gone, GoneError, Same, SameError, Planned, PriorError, LegacyUpdate, ChartUpdate, TeamUpdate, HandleError,
              TemplateUpdate, BigPandaUpdate
<1>4. QED
  BY <1>3, BasicResults

(* Only a muting rule's delete takes a failure for success.                *)
LEMMA DeleteResults ==
  ASSUME TypeOK
  PROVE  /\ DeleteResult \in Results
         /\ ~DeleteResult.err =>
                Ok \/ NotFound \/ profile.family = "muting"
<1>1. profile.family \in AllFamilies
  BY DEF TypeOK, Profiles
<1>2. \/ Ok /\ DeleteResult = Gone
      \/ NotFound /\ DeleteResult = Gone
      \/ profile.family = "muting" /\ DeleteResult = Gone
      \/ DeleteResult \in {SameError, GoneError}
  BY <1>1 DEF Gone, GoneError, SameError, DeleteResult, LegacyDelete, TeamDelete, HandleError,
              MutingDelete, FrameworkDelete, ErrorHandlerFails, AllFamilies
<1>3. QED
  BY <1>2, BasicResults

----------------------------------------------------------------------------
(* Type correctness.                                                       *)

LEMMA EntryType ==
  ASSUME NEW r \in Results, NEW tainted \in BOOLEAN
  PROVE  Entry(r, tainted) \in Entries
  BY NoStateIsEntry DEF Entry, Results, Entries

LEMMA CoreTypes ==
  ASSUME TypeOK, NEW r \in Results
  PROVE  /\ CoreRead(r) \in Entries
         /\ CoreCreate(r) \in Entries
         /\ CoreUpdate(r) \in Entries
         /\ CoreDelete(r) \in Entries
<1>1. state \in Entries /\ state.tainted \in BOOLEAN /\ r.err \in BOOLEAN
  BY DEF TypeOK, Entries, Results
<1>2. QED
  BY <1>1, EntryType, NoStateIsEntry
  DEF CoreRead, CoreCreate, CoreUpdate, CoreDelete

LEMMA DisturbType ==
  ASSUME TypeOK, Disturb
  PROVE  budget' \in 0..MaxDisturbances
  BY LifecycleAssumption DEF TypeOK, Disturb

LEMMA ServedType ==
  ASSUME TypeOK, NEW i \in Ids, Served(i)
  PROVE  /\ remote' \in [Ids -> MaybeValue]
         /\ allocated' \subseteq Ids
         /\ drifted' \in BOOLEAN
         /\ Answer(i) \in Replies
<1>1. Sent \in MaybeValue /\ remote[i] \in MaybeValue
  BY LifecycleAssumption DEF TypeOK, Operations, Sent, MaybeValue
<1>2. Effect(i) \in [Ids -> MaybeValue]
  BY <1>1 DEF TypeOK, Effect, MaybeValue
<1>3. Answer(i) \in Replies
  BY <1>1 DEF Answer, Replies, MaybeId, MaybeValue
<1>4. QED
  BY <1>2, <1>3 DEF Served, TypeOK

LEMMA FinishType ==
  ASSUME TypeOK, NEW name, NEW r \in Results, NEW entry \in Entries,
         Finish(name, r, entry)
  PROVE  /\ state' \in Entries
         /\ op' \in Operations
         /\ outcome' \in {"none", "ok", "error", "crash"}
         /\ UNCHANGED <<profile, urlOK, config, remote, allocated, drifted,
                        budget, lost>>
<1>1. r.err \in BOOLEAN /\ r.crash \in BOOLEAN
  BY DEF Results
<1>2. QED
  BY <1>1, IdleIsOperation DEF Finish

LEMMA TypeStep == IndInv /\ [Next]_vars => TypeOK'
<1> SUFFICES ASSUME IndInv, [Next]_vars PROVE TypeOK'
  OBVIOUS
<1>0. TypeOK
  BY DEF IndInv
<1> USE <1>0
<1>1. ASSUME NEW v \in MaybeValue, EditConfig(v) PROVE TypeOK'
  BY <1>1, DisturbType DEF EditConfig, TypeOK, history
<1>2. ASSUME NEW i \in Ids, NEW v \in MaybeValue, OutOfBandChange(i, v)
      PROVE  TypeOK'
  BY <1>2, DisturbType DEF OutOfBandChange, TypeOK, history
<1>3. CASE Start
  <2>1. state.id \in MaybeId /\ state.value \in MaybeValue
    BY DEF TypeOK, Entries
  <2>2. NoId \in MaybeId
    BY DEF MaybeId
  <2>3. op' \in Operations
    BY <1>3, <2>1, <2>2, RequestIsOperation
    DEF Start, StartRefresh, StartCreate, StartUpdate, StartDelete, Begin,
        NeedsCreate, NeedsUpdate, TypeOK
  <2>4. QED
    BY <1>3, <2>3 DEF Start, StartRefresh, StartCreate, StartUpdate,
       StartDelete, Begin, TypeOK, history
<1>4. ASSUME NEW i \in Ids, ServerAnswers(i) PROVE TypeOK'
  BY <1>4, ServedType, RepliedIsOperation DEF ServerAnswers, Served, TypeOK
<1>5. ASSUME NEW i \in Ids, ReplyLost(i) PROVE TypeOK'
  BY <1>5, ServedType, RetryIsOperation, DisturbType
  DEF ReplyLost, Served, TypeOK
<1>6. CASE RequestFails
  BY <1>6, RetryIsOperation, DisturbType DEF RequestFails, TypeOK, history
<1>7. CASE RequestRefused
  <2>1. [code |-> "badrequest", id |-> NoId, value |-> NoValue] \in Replies
    BY DEF Replies, MaybeId, MaybeValue
  <2>2. QED
    BY <1>7, <2>1, RepliedIsOperation, DisturbType
    DEF RequestRefused, TypeOK, history
<1>8. CASE RefreshReturns
  BY <1>8, ReadResults, CoreTypes, FinishType DEF RefreshReturns, TypeOK
<1>9. CASE CreateReturns
  <2>1. unrecorded' \subseteq Ids
    <3>1. Ok => op.reply.id \in Ids
      BY DEF IndInv, ReplySpeaksOfTarget, TypeOK, Operations, Replies, MaybeId
    <3>2. QED
      BY <1>9, <3>1 DEF CreateReturns, TypeOK
  <2>2. QED
    BY <1>9, <2>1, CreateResults, CoreTypes, FinishType
    DEF CreateReturns, TypeOK
<1>10. CASE DetectorCreated
  <2>1. op.reply.id \in MaybeId /\ op.value \in MaybeValue
    BY DEF TypeOK, Operations, Replies
  <2>2. QED
    BY <1>10, <2>1, RequestIsOperation DEF DetectorCreated, TypeOK, history
<1>11. CASE VerifyReturns
  BY <1>11, ReadResults, CoreTypes, FinishType DEF VerifyReturns, TypeOK
<1>12. CASE UpdateReturns
  BY <1>12, UpdateResults, CoreTypes, FinishType DEF UpdateReturns, TypeOK
<1>13. CASE DeleteReturns
  <2>1. abandoned' \subseteq Ids
    BY <1>13 DEF DeleteReturns, TypeOK, Live
  <2>2. QED
    BY <1>13, <2>1, DeleteResults, CoreTypes, FinishType
    DEF DeleteReturns, TypeOK
<1>14. CASE Interrupt
  <2>1. /\ Ok => op.reply.id \in Ids
        /\ op.name = "verify" => op.id \in Ids
    BY DEF IndInv, ReplySpeaksOfTarget, OperationMatchesState, TypeOK,
           Operations, Replies, MaybeId
  <2>2. lost' \subseteq Ids
    BY <1>14, <2>1 DEF Interrupt, TypeOK
  <2>3. QED
    BY <1>14, <2>2, IdleIsOperation, DisturbType DEF Interrupt, TypeOK
<1>15. CASE UNCHANGED vars
  BY <1>15 DEF vars, history, TypeOK
<1>16. ASSUME NEW ok \in UrlOK, EditURL(ok) PROVE TypeOK'
  BY <1>16, DisturbType, LifecycleAssumption DEF EditURL, TypeOK, history
<1>17. CASE PayloadPanics
  BY <1>17 DEF PayloadPanics, TypeOK, history
<1>18. QED
  BY <1>1, <1>2, <1>3, <1>4, <1>5, <1>6, <1>7, <1>8, <1>9, <1>10, <1>11,
     <1>12, <1>13, <1>14, <1>15, <1>16, <1>17 DEF Next, Start

----------------------------------------------------------------------------
(* The steps of an operation: each preserves the invariant and is a step   *)
(* of the custody of objects, or none.                                     *)

Sound ==
    /\ AllocatedFirst'
    /\ OperationMatchesState'
    /\ ReplySpeaksOfTarget'
    /\ OrphansExplained'
    /\ [Custody!Next]_(Custody!custody)

(* A step that leaves the objects, the entry and the operation alone.      *)
LEMMA QuietSound ==
  ASSUME IndInv,
         UNCHANGED <<profile, state, remote, allocated, op, lost, unrecorded,
                     abandoned>>
  PROVE  Sound
<1>1. Live' = Live /\ InFlight' = InFlight
  BY DEF Live, InFlight, Ok
<1>2. QED
  BY <1>1 DEF IndInv, Sound, AllocatedFirst, OperationMatchesState,
     ReplySpeaksOfTarget, OrphansExplained, Ok, NotFound,
     Custody!custody

LEMMA EditSound ==
  ASSUME IndInv,
         \/ \E v \in MaybeValue : EditConfig(v)
         \/ \E ok \in UrlOK : EditURL(ok)
         \/ PayloadPanics
         \/ UNCHANGED vars
  PROVE  Sound
<1>1. UNCHANGED <<profile, state, remote, allocated, op, lost, unrecorded,
                  abandoned>>
  BY DEF EditConfig, EditURL, PayloadPanics, vars, history
<1>2. QED
  BY <1>1, QuietSound

LEMMA OutOfBandSound ==
  ASSUME IndInv, NEW i \in Ids, NEW v \in MaybeValue, OutOfBandChange(i, v)
  PROVE  Sound
<1>1. UNCHANGED <<profile, state, allocated, op, lost, unrecorded,
                  abandoned>>
  BY DEF OutOfBandChange, history
<1>2. Live' = Live \/ Live' = Live \ {i}
  BY DEF OutOfBandChange, IndInv, TypeOK, Live
<1>3. InFlight' = InFlight
  BY <1>1 DEF InFlight, Ok
<1>4. AllocatedFirst' /\ OperationMatchesState' /\ ReplySpeaksOfTarget'
  BY <1>1, <1>2 DEF IndInv, AllocatedFirst, OperationMatchesState,
     ReplySpeaksOfTarget, Ok, NotFound
<1>5. OrphansExplained'
  BY <1>1, <1>2, <1>3 DEF IndInv, OrphansExplained
<1>6. [Custody!Next]_(Custody!custody)
  BY <1>1, <1>2, <1>3 DEF Custody!Next, Custody!Vanish, Custody!custody
<1>7. QED
  BY <1>4, <1>5, <1>6 DEF Sound

LEMMA StartSound ==
  ASSUME IndInv, Start
  PROVE  Sound
<1>1. /\ op = Idle
      /\ UNCHANGED <<profile, config, state, remote, allocated, outcome,
                     drifted, budget, lost, unrecorded, abandoned>>
  BY DEF Start, StartRefresh, StartCreate, StartUpdate, StartDelete, Begin,
         history
<1>2. /\ op'.reply = NoReply
      /\ op'.phase = "request"
      /\ \/ op'.name = "create" /\ op'.id = NoId /\ state.id = NoId
            /\ op'.value # NoValue
         \/ /\ op'.name \in {"refresh", "delete"}
            /\ op'.id = state.id /\ state.id # NoId
         \/ /\ op'.name = "update" /\ op'.value # NoValue
            /\ op'.id = state.id /\ state.id # NoId
  BY DEF Start, StartRefresh, StartCreate, StartUpdate, StartDelete, Begin,
     NeedsCreate, NeedsUpdate, Request
<1>3. Live' = Live
  BY <1>1 DEF Live
<1>4. ~Ok /\ ~Ok' /\ ~NotFound'
  BY <1>1, <1>2 DEF Ok, NotFound, Idle, NoReply
<1>5. InFlight = {} /\ InFlight' = {}
  BY <1>1, <1>2, <1>4 DEF InFlight, Idle
<1>6. AllocatedFirst'
  BY <1>1, <1>2, <1>3 DEF IndInv, AllocatedFirst, NoReply
<1>7. OperationMatchesState' /\ ReplySpeaksOfTarget'
  BY <1>1, <1>2, <1>4 DEF OperationMatchesState, ReplySpeaksOfTarget
<1>8. OrphansExplained' /\ UNCHANGED Custody!custody
  BY <1>1, <1>3, <1>5 DEF IndInv, OrphansExplained, Custody!custody
<1>9. QED
  BY <1>6, <1>7, <1>8 DEF Sound

LEMMA RepliedFields ==
  ASSUME TypeOK, NEW reply
  PROVE  /\ Replied(reply).name = op.name /\ Replied(reply).id = op.id
         /\ Replied(reply).value = op.value /\ Replied(reply).phase = "reply"
         /\ Replied(reply).reply = reply
  BY DEF Replied, TypeOK, Operations

LEMMA RetryFields ==
  ASSUME TypeOK
  PROVE  /\ RetryOrGiveUp.name = op.name /\ RetryOrGiveUp.id = op.id
         /\ RetryOrGiveUp.value = op.value
         /\ \/ RetryOrGiveUp.phase = op.phase /\ RetryOrGiveUp.reply = op.reply
            \/ /\ RetryOrGiveUp.phase = "reply"
               /\ RetryOrGiveUp.reply.code = "failed"
               /\ RetryOrGiveUp.reply.id = NoId
  BY RepliedFields DEF RetryOrGiveUp, TypeOK, Operations

(* Steps that only move the call of the operation along.                   *)
LEMMA CallSound ==
  ASSUME IndInv, op.phase = "request",
         UNCHANGED <<profile, state, remote, allocated, lost, unrecorded,
                     abandoned>>,
         op'.name = op.name, op'.id = op.id, op'.value = op.value,
         op'.phase \in {"request", "reply"},
         \/ op'.phase = "request" /\ op'.reply = op.reply
         \/ op'.reply.code \in {"failed", "badrequest"} /\ op'.reply.id = NoId
  PROVE  Sound
<1>1. Live' = Live
  BY DEF Live
<1>2. ~Ok /\ ~Ok'
  BY DEF IndInv, ReplySpeaksOfTarget, Ok
<1>3. InFlight' = InFlight
  BY <1>2 DEF InFlight
<1>4. AllocatedFirst'
  BY <1>1 DEF IndInv, AllocatedFirst
<1>5. op.name # "idle"
  BY DEF IndInv, OperationMatchesState
<1>6. OperationMatchesState'
  BY <1>5 DEF IndInv, OperationMatchesState
<1>7. ReplySpeaksOfTarget'
  BY <1>1, <1>2 DEF IndInv, ReplySpeaksOfTarget, NotFound
<1>8. OrphansExplained' /\ UNCHANGED Custody!custody
  BY <1>1, <1>3 DEF IndInv, OrphansExplained, Custody!custody
<1>9. QED
  BY <1>4, <1>6, <1>7, <1>8 DEF Sound

LEMMA FailSound ==
  ASSUME IndInv, RequestFails \/ RequestRefused
  PROVE  Sound
<1>1. TypeOK
  BY DEF IndInv
<1>2. /\ op.phase = "request"
      /\ UNCHANGED <<profile, state, remote, allocated, lost, unrecorded,
                     abandoned>>
      /\ \/ op' = RetryOrGiveUp
         \/ op' = Replied([code |-> "badrequest", id |-> NoId,
                           value |-> NoValue])
  BY DEF RequestFails, RequestRefused, history
<1>3. QED
  BY <1>1, <1>2, RepliedFields, RetryFields, CallSound

(* What serving a call does to the objects.                                *)
LEMMA ServedObjects ==
  ASSUME IndInv, NEW i \in Ids, Served(i)
  PROVE  /\ op.name = "create" =>
                /\ i \notin allocated /\ Live' = Live \union {i}
                /\ allocated' = allocated \union {i}
         /\ op.name = "delete" =>
                /\ i = op.id /\ Live' = Live \ {i} /\ allocated' = allocated
         /\ op.name \notin {"create", "delete"} =>
                /\ i = op.id /\ Live' = Live /\ allocated' = allocated
<1>1. /\ op.name = "create" => i \notin allocated
      /\ op.name # "create" => i = op.id
  BY DEF Served, Targets
<1>2. op.name # "create" => i \in allocated
  BY <1>1, LifecycleAssumption DEF IndInv, AllocatedFirst
<1>3. allocated' = allocated \union {i} /\ remote' = Effect(i)
  BY DEF Served
<1>4. remote \in [Ids -> MaybeValue]
  BY DEF IndInv, TypeOK
<1>5. CASE op.name = "create"
  <2>1. Sent # NoValue /\ remote' = [remote EXCEPT ![i] = Sent]
    BY <1>3, <1>5, LifecycleAssumption
    DEF IndInv, OperationMatchesState, Effect, Sent
  <2>2. QED
    BY <1>1, <1>3, <1>4, <1>5, <2>1 DEF Live
<1>6. CASE op.name = "delete"
  <2>1. remote' = [remote EXCEPT ![i] = NoValue]
    BY <1>3, <1>6 DEF Effect
  <2>2. QED
    BY <1>1, <1>2, <1>3, <1>4, <1>6, <2>1 DEF Live
<1>7. CASE op.name \notin {"create", "delete"}
  <2>1. \/ remote' = remote
        \/ /\ op.name = "update" /\ i \in Live
           /\ remote' = [remote EXCEPT ![i] = Sent]
    BY <1>3, <1>7 DEF Effect
  <2>2. op.name = "update" => Sent # NoValue
    BY LifecycleAssumption DEF IndInv, OperationMatchesState, Sent
  <2>3. QED
    BY <1>1, <1>2, <1>3, <1>4, <1>7, <2>1, <2>2 DEF Live
<1>8. QED
  BY <1>5, <1>6, <1>7

LEMMA AnswerFields ==
  ASSUME NEW i \in Ids
  PROVE  \/ /\ Answer(i).code = "notfound" /\ Answer(i).id = NoId
            /\ op.name # "create" /\ i \notin Live
         \/ /\ Answer(i).code = "ok" /\ Answer(i).id = i
            /\ (op.name = "create" \/ i \in Live)
  BY DEF Answer

LEMMA AnswersSound ==
  ASSUME IndInv, NEW i \in Ids, ServerAnswers(i)
  PROVE  Sound
<1>1. Served(i) /\ TypeOK /\ lost' = lost
  BY DEF ServerAnswers, IndInv
<1>2. /\ op'.name = op.name /\ op'.id = op.id /\ op'.value = op.value
      /\ op'.phase = "reply" /\ op'.reply = Answer(i)
  BY <1>1, RepliedFields DEF ServerAnswers
<1>3. op.phase = "request" /\ UNCHANGED <<profile, state, unrecorded, abandoned>>
  BY <1>1 DEF Served
<1>4. ~Ok
  BY <1>3 DEF IndInv, ReplySpeaksOfTarget
<1>5. i \in allocated' /\ allocated \subseteq allocated' /\ i # NoId
  BY <1>1, LifecycleAssumption DEF Served
<1>6. op.name # "idle"
  BY <1>3 DEF IndInv, OperationMatchesState
<1>7. Live' \subseteq Live \union {i}
  BY <1>1, ServedObjects
<1>8. AllocatedFirst'
  BY <1>2, <1>3, <1>5, <1>7, AnswerFields DEF IndInv, AllocatedFirst
<1>9. OperationMatchesState'
  BY <1>2, <1>3, <1>6 DEF IndInv, OperationMatchesState
<1>10. ReplySpeaksOfTarget'
  <2>1. Ok' => op'.reply.id = i
    BY <1>2, AnswerFields DEF Ok
  <2>2. NotFound' => op.name # "create" /\ i \notin Live
    BY <1>2, AnswerFields DEF NotFound
  <2>3. QED
    BY <1>1, <1>2, <1>5, <2>1, <2>2, ServedObjects DEF ReplySpeaksOfTarget
<1>11. CASE op.name = "create"
  <2>1. InFlight = {}
    BY <1>4, <1>11 DEF InFlight
  <2>2. InFlight' = {i}
    BY <1>2, <1>11, AnswerFields DEF InFlight, Ok
  <2>3. OrphansExplained'
    BY <1>1, <1>3, <1>11, <2>1, <2>2, ServedObjects
    DEF IndInv, OrphansExplained
  <2>4. state.id = NoId
    BY <1>11 DEF IndInv, OperationMatchesState
  <2>5. Custody!Birth(i)
    BY <1>1, <1>3, <1>11, <2>1, <2>2, <2>4, ServedObjects
    DEF Custody!Birth
  <2>6. QED
    BY <1>8, <1>9, <1>10, <2>3, <2>5 DEF Sound, Custody!Next
<1>12. CASE op.name # "create"
  <2>1. InFlight' = InFlight
    BY <1>2, <1>4, <1>12 DEF InFlight
  <2>2. Live' = Live \/ Live' = Live \ {i}
    BY <1>1, <1>12, ServedObjects
  <2>3. allocated' = allocated
    BY <1>1, <1>12, ServedObjects
  <2>4. OrphansExplained'
    BY <1>1, <1>3, <2>1, <2>2 DEF IndInv, OrphansExplained
  <2>5. [Custody!Next]_(Custody!custody)
    BY <1>1, <1>3, <2>1, <2>2, <2>3
    DEF Custody!Next, Custody!Vanish, Custody!custody
  <2>6. QED
    BY <1>8, <1>9, <1>10, <2>4, <2>5 DEF Sound
<1>13. QED
  BY <1>11, <1>12

(* A lost reply leaks the object of a create at once.                      *)
LEMMA ReplyLostSound ==
  ASSUME IndInv, NEW i \in Ids, ReplyLost(i)
  PROVE  Sound
<1>1. Served(i) /\ TypeOK /\ op' = RetryOrGiveUp
  BY DEF ReplyLost, IndInv
<1>2. op.phase = "request" /\ UNCHANGED <<profile, state, unrecorded, abandoned>>
  BY <1>1 DEF Served
<1>3. /\ op'.name = op.name /\ op'.id = op.id /\ op'.value = op.value
      /\ \/ op'.phase = "request" /\ op'.reply = op.reply
         \/ /\ op'.phase = "reply" /\ op'.reply.code = "failed"
            /\ op'.reply.id = NoId
  BY <1>1, <1>2, RetryFields
<1>4. ~Ok
  BY <1>2 DEF IndInv, ReplySpeaksOfTarget
<1>5. ~Ok'
  BY <1>3, <1>4 DEF Ok
<1>6. InFlight' = InFlight
  BY <1>3, <1>4, <1>5 DEF InFlight
<1>7. op.name # "idle"
  BY <1>2 DEF IndInv, OperationMatchesState
<1>8. allocated \subseteq allocated' /\ i \in allocated'
  BY <1>1 DEF Served
<1>9. Live' \subseteq Live \union {i}
  BY <1>1, ServedObjects
<1>10. AllocatedFirst'
  BY <1>2, <1>3, <1>8, <1>9 DEF IndInv, AllocatedFirst
<1>11. OperationMatchesState'
  BY <1>2, <1>3, <1>7 DEF IndInv, OperationMatchesState
<1>12. ReplySpeaksOfTarget'
  <2>1. NotFound' => NotFound
    BY <1>3 DEF NotFound
  <2>2. NotFound => op.name # "create" /\ op.id \notin Live
    BY DEF IndInv, ReplySpeaksOfTarget
  <2>3. op.name # "create" => Live' \subseteq Live
    BY <1>1, ServedObjects
  <2>4. QED
    BY <1>3, <1>5, <2>1, <2>2, <2>3 DEF ReplySpeaksOfTarget
<1>13. CASE op.name = "create"
  <2>1. InFlight = {} /\ lost' = lost \union {i} /\ state.id = NoId
    BY <1>4, <1>13 DEF InFlight, ReplyLost, IndInv, OperationMatchesState
  <2>2. OrphansExplained'
    BY <1>2, <1>6, <1>9, <2>1 DEF IndInv, OrphansExplained
  <2>3. Custody!Birth(i)
    BY <1>1, <1>2, <1>6, <1>13, <2>1, ServedObjects DEF Custody!Birth
  <2>4. QED
    BY <1>10, <1>11, <1>12, <2>2, <2>3 DEF Sound, Custody!Next
<1>14. CASE op.name # "create"
  <2>1. lost' = lost
    BY <1>14 DEF ReplyLost
  <2>2. Live' = Live \/ Live' = Live \ {i}
    BY <1>1, <1>14, ServedObjects
  <2>3. allocated' = allocated
    BY <1>1, <1>14, ServedObjects
  <2>4. OrphansExplained'
    BY <1>2, <1>6, <2>1, <2>2 DEF IndInv, OrphansExplained
  <2>5. [Custody!Next]_(Custody!custody)
    BY <1>2, <1>6, <2>1, <2>2, <2>3
    DEF Custody!Next, Custody!Vanish, Custody!custody
  <2>6. QED
    BY <1>10, <1>11, <1>12, <2>4, <2>5 DEF Sound
<1>15. QED
  BY <1>13, <1>14

LEMMA CreatedSound ==
  ASSUME IndInv, DetectorCreated
  PROVE  Sound
<1>1. /\ op.name = "create" /\ Ok /\ profile.family = "detector"
      /\ op'.name = "verify" /\ op'.phase = "request"
      /\ op'.id = op.reply.id /\ op'.reply = NoReply
      /\ UNCHANGED <<profile, state, remote, allocated, lost, unrecorded,
                     abandoned>>
  BY DEF DetectorCreated, VerifiesCreate, Request, history
<1>2. Live' = Live /\ ~Ok' /\ ~NotFound'
  BY <1>1 DEF Live, Ok, NotFound, NoReply
<1>3. InFlight' = InFlight
  BY <1>1 DEF InFlight
<1>4. AllocatedFirst'
  BY <1>1, <1>2 DEF IndInv, AllocatedFirst, NoReply
<1>5. OperationMatchesState' /\ ReplySpeaksOfTarget'
  BY <1>1, <1>2
  DEF IndInv, OperationMatchesState, ReplySpeaksOfTarget
<1>6. OrphansExplained' /\ UNCHANGED Custody!custody
  BY <1>1, <1>2, <1>3 DEF IndInv, OrphansExplained, Custody!custody
<1>7. QED
  BY <1>4, <1>5, <1>6 DEF Sound

(* The end of an operation, whatever it was.                               *)
LEMMA EndSound ==
  ASSUME IndInv, op' = Idle, UNCHANGED <<remote, allocated>>,
         state'.id \in {NoId, state.id, op.id, op.reply.id}
  PROVE  /\ AllocatedFirst' /\ OperationMatchesState' /\ ReplySpeaksOfTarget'
         /\ InFlight' = {}
         /\ Live' = Live
<1>1. Live' = Live
  BY DEF Live
<1>2. AllocatedFirst'
  BY <1>1 DEF IndInv, AllocatedFirst, Idle, NoReply
<1>3. ~Ok' /\ ~NotFound'
  BY DEF Ok, NotFound, Idle, NoReply
<1>4. OperationMatchesState' /\ ReplySpeaksOfTarget' /\ InFlight' = {}
  BY <1>3 DEF OperationMatchesState, ReplySpeaksOfTarget, InFlight, Idle
<1>5. QED
  BY <1>1, <1>2, <1>4

LEMMA FinishFields ==
  ASSUME NEW name, NEW r, NEW entry, Finish(name, r, entry)
  PROVE  /\ op.name = name /\ op' = Idle /\ state' = entry
         /\ op.phase = "reply"
         /\ UNCHANGED <<profile, remote, allocated, lost>>
  BY DEF Finish

LEMMA EntryId ==
  ASSUME NEW r, NEW tainted
  PROVE  Entry(r, tainted).id = r.id
  BY DEF Entry, NoState

(* The end of an operation that leaves the entry's identifier alone, or    *)
(* removes an entry whose object is gone.                                  *)
LEMMA KeepSound ==
  ASSUME IndInv, op' = Idle, InFlight = {},
         UNCHANGED <<profile, remote, allocated, lost, unrecorded,
                     abandoned>>,
         \/ state'.id = state.id
         \/ state'.id = NoId /\ state.id \notin Live
  PROVE  Sound
<1>1. /\ AllocatedFirst' /\ OperationMatchesState' /\ ReplySpeaksOfTarget'
      /\ InFlight' = {}
      /\ Live' = Live
  BY EndSound
<1>2. OrphansExplained'
  BY <1>1 DEF IndInv, OrphansExplained
<1>3. CASE state'.id = state.id
  <2>1. UNCHANGED Custody!custody
    BY <1>1, <1>3 DEF Custody!custody
  <2>2. QED
    BY <1>1, <1>2, <2>1 DEF Sound
<1>4. CASE state'.id = NoId /\ state.id # NoId /\ state.id \notin Live
  <2>1. Custody!Release
    BY <1>1, <1>4 DEF Custody!Release
  <2>2. QED
    BY <1>1, <1>2, <2>1 DEF Sound, Custody!Next
<1>5. QED
  BY <1>3, <1>4

(* A refresh keeps the identifier, or removes the entry of a gone object.  *)
LEMMA RefreshEntry ==
  ASSUME IndInv, RefreshReturns
  PROVE  \/ state'.id = state.id
         \/ state'.id = NoId /\ state.id \notin Live
<1> DEFINE r == ReadResult
<1>1. op.name = "refresh" /\ state' = CoreRead(r)
  BY FinishFields DEF RefreshReturns
<1>2. op.id = state.id /\ state.id # NoId
  BY <1>1 DEF IndInv, OperationMatchesState
<1>3. /\ Ok => op.reply.id = op.id /\ op.reply.id # NoId
      /\ NotFound => op.id \notin Live
  BY <1>1 DEF IndInv, ReplySpeaksOfTarget
<1>4. \/ state'.id = state.id
      \/ ~r.err /\ state'.id = r.id
  BY <1>1, EntryId DEF CoreRead
<1>5. QED
  BY <1>2, <1>3, <1>4, ReadResults DEF IndInv

LEMMA RefreshSound ==
  ASSUME IndInv, RefreshReturns
  PROVE  Sound
<1>1. /\ op.name = "refresh" /\ op' = Idle
      /\ UNCHANGED <<profile, remote, allocated, lost, unrecorded, abandoned>>
  BY FinishFields DEF RefreshReturns
<1>2. InFlight = {}
  BY <1>1 DEF InFlight
<1>3. QED
  BY <1>1, <1>2, RefreshEntry, KeepSound

(* An update keeps the identifier.                                         *)
LEMMA UpdateEntry ==
  ASSUME IndInv, UpdateReturns
  PROVE  state'.id = state.id
<1> DEFINE r == UpdateResult
<1>1. op.name = "update" /\ state' = CoreUpdate(r)
  BY FinishFields DEF UpdateReturns
<1>2. op.id = state.id /\ state.id # NoId
  BY <1>1 DEF IndInv, OperationMatchesState
<1>3. Ok => op.reply.id = op.id
  BY <1>1 DEF IndInv, ReplySpeaksOfTarget
<1>4. \/ r.id = state.id
      \/ r.id = NoId /\ r.err
  BY <1>2, <1>3, UpdateResults DEF IndInv
<1>5. QED
  BY <1>1, <1>2, <1>4, EntryId DEF CoreUpdate

LEMMA UpdateSound ==
  ASSUME IndInv, UpdateReturns
  PROVE  Sound
<1>1. /\ op.name = "update" /\ op' = Idle
      /\ UNCHANGED <<profile, remote, allocated, lost, unrecorded, abandoned>>
  BY FinishFields DEF UpdateReturns
<1>2. InFlight = {}
  BY <1>1 DEF InFlight
<1>3. QED
  BY <1>1, <1>2, UpdateEntry, KeepSound

LEMMA CreateSound ==
  ASSUME IndInv, CreateReturns
  PROVE  Sound
<1> DEFINE r == CreateResult
<1>1. /\ op.name = "create" /\ op' = Idle /\ state' = CoreCreate(r)
      /\ UNCHANGED <<profile, remote, allocated, lost, abandoned>>
  BY FinishFields DEF CreateReturns
<1>2. state.id = NoId /\ (Ok => op.reply.id # NoId)
  BY <1>1 DEF IndInv, OperationMatchesState, ReplySpeaksOfTarget
<1>3. state'.id = r.id
  BY <1>1, EntryId DEF CoreCreate
<1>4. /\ r.id \in {NoId, op.reply.id}
      /\ ~Ok => r.id = NoId
      /\ Ok /\ r.id = NoId => profile.family \in {"chart", "detector"}
  BY <1>2, CreateResults DEF IndInv
<1>5. /\ AllocatedFirst' /\ OperationMatchesState' /\ ReplySpeaksOfTarget'
      /\ InFlight' = {}
      /\ Live' = Live
  BY <1>1, <1>3, <1>4, EndSound
<1>6. CASE ~Ok
  <2>1. InFlight = {} /\ unrecorded' = unrecorded /\ state'.id = state.id
    BY <1>1, <1>2, <1>3, <1>4, <1>6 DEF InFlight, CreateReturns
  <2>2. QED
    BY <1>1, <2>1, KeepSound
<1>7. CASE Ok /\ r.id # NoId
  <2>1. InFlight = {op.reply.id} /\ unrecorded' = unrecorded
    BY <1>1, <1>7 DEF InFlight, CreateReturns
  <2>2. op.reply.id \in Ids /\ state'.id = op.reply.id
    BY <1>2, <1>3, <1>4, <1>7
    DEF IndInv, TypeOK, Operations, Replies, MaybeId
  <2>3. OrphansExplained'
    BY <1>1, <1>2, <1>5, <2>1, <2>2, LifecycleAssumption
    DEF IndInv, OrphansExplained, Live
  <2>4. Custody!Record(op.reply.id)
    BY <1>1, <1>5, <2>1, <2>2 DEF Custody!Record
  <2>5. QED
    BY <1>5, <2>2, <2>3, <2>4 DEF Sound, Custody!Next
<1>8. CASE Ok /\ r.id = NoId
  <2>1. InFlight = {op.reply.id} /\ unrecorded' = unrecorded \union {op.reply.id}
    BY <1>1, <1>8 DEF InFlight, CreateReturns
  <2>2. OrphansExplained'
    BY <1>1, <1>2, <1>3, <1>4, <1>5, <1>8, <2>1
    DEF IndInv, OrphansExplained
  <2>3. Custody!GiveUp
    BY <1>1, <1>2, <1>3, <1>5, <1>8, <2>1 DEF Custody!GiveUp
  <2>4. QED
    BY <1>5, <2>2, <2>3 DEF Sound, Custody!Next
<1>9. QED
  BY <1>6, <1>7, <1>8

LEMMA VerifySound ==
  ASSUME IndInv, VerifyReturns
  PROVE  Sound
<1> DEFINE r == ReadResult
<1>1. /\ op.name = "verify" /\ op' = Idle /\ state' = CoreCreate(r)
      /\ UNCHANGED <<profile, remote, allocated, lost, unrecorded, abandoned>>
  BY FinishFields DEF VerifyReturns
<1>2. /\ state.id = NoId /\ op.id # NoId /\ profile.family = "detector"
      /\ Ok => op.reply.id = op.id
      /\ NotFound => op.id \notin Live
  BY <1>1 DEF IndInv, OperationMatchesState, ReplySpeaksOfTarget
<1>3. state'.id = r.id
  BY <1>1, EntryId DEF CoreCreate
<1>4. \/ r.id = op.id
      \/ r.id = NoId /\ op.id \notin Live
  BY <1>2, ReadResults DEF IndInv
<1>5. InFlight = {op.id}
  BY <1>1 DEF InFlight
<1>6. /\ AllocatedFirst' /\ OperationMatchesState' /\ ReplySpeaksOfTarget'
      /\ InFlight' = {}
      /\ Live' = Live
  BY <1>1, <1>3, <1>4, EndSound
<1>7. OrphansExplained'
  BY <1>1, <1>2, <1>3, <1>4, <1>5, <1>6, LifecycleAssumption
  DEF IndInv, OrphansExplained, Live
<1>8. op.id \in Ids
  BY <1>2 DEF IndInv, TypeOK, Operations, MaybeId
<1>9. Custody!Record(op.id) \/ Custody!GiveUp
  BY <1>1, <1>2, <1>3, <1>4, <1>5, <1>6
  DEF Custody!Record, Custody!GiveUp
<1>10. QED
  BY <1>6, <1>7, <1>8, <1>9 DEF Sound, Custody!Next

(* A successful delete lets go of the entry; only a muting rule's does so  *)
(* while the object lives.                                                 *)
LEMMA DeleteEntry ==
  ASSUME IndInv, DeleteReturns
  PROVE  \/ state' = state
         \/ op.id \notin Live
         \/ profile.family = "muting"
<1> DEFINE r == DeleteResult
<1>1. op.name = "delete" /\ state' = CoreDelete(r)
  BY FinishFields DEF DeleteReturns
<1>2. (Ok \/ NotFound) => op.id \notin Live
  BY <1>1 DEF IndInv, ReplySpeaksOfTarget
<1>3. QED
  BY <1>1, <1>2, DeleteResults DEF IndInv, CoreDelete

LEMMA DeleteSound ==
  ASSUME IndInv, DeleteReturns
  PROVE  Sound
<1> DEFINE r == DeleteResult
<1>1. /\ op.name = "delete" /\ op' = Idle /\ state' = CoreDelete(r)
      /\ UNCHANGED <<profile, remote, allocated, lost, unrecorded>>
  BY FinishFields DEF DeleteReturns
<1>2. /\ op.id = state.id /\ state.id # NoId /\ InFlight = {}
  BY <1>1 DEF IndInv, OperationMatchesState, InFlight
<1>3. CASE r.err
  <2>1. state' = state /\ abandoned' = abandoned
    BY <1>1, <1>3 DEF CoreDelete, DeleteReturns
  <2>2. QED
    BY <1>1, <1>2, <2>1, KeepSound
<1>4. CASE ~r.err /\ op.id \notin Live
  <2>1. state'.id = NoId /\ abandoned' = abandoned
    BY <1>1, <1>4 DEF CoreDelete, DeleteReturns, NoState
  <2>2. QED
    BY <1>1, <1>2, <1>4, <2>1, KeepSound
<1>5. CASE ~r.err /\ op.id \in Live
  <2>1. state'.id = NoId /\ abandoned' = abandoned \union {op.id}
    BY <1>1, <1>5 DEF CoreDelete, DeleteReturns, NoState
  <2>2. profile.family = "muting"
    BY <1>2, <1>5, <2>1, DeleteEntry
  <2>3. /\ AllocatedFirst' /\ OperationMatchesState' /\ ReplySpeaksOfTarget'
        /\ InFlight' = {}
        /\ Live' = Live
    BY <1>1, <2>1, EndSound
  <2>4. OrphansExplained'
    BY <1>1, <1>2, <2>1, <2>2, <2>3 DEF IndInv, OrphansExplained
  <2>5. Custody!Release
    BY <1>1, <1>2, <2>1, <2>3 DEF Custody!Release
  <2>6. QED
    BY <2>3, <2>4, <2>5 DEF Sound, Custody!Next
<1>6. QED
  BY <1>3, <1>4, <1>5

LEMMA InterruptSound ==
  ASSUME IndInv, Interrupt
  PROVE  Sound
<1>1. /\ op' = Idle
      /\ UNCHANGED <<profile, state, remote, allocated, unrecorded, abandoned>>
  BY DEF Interrupt
<1>2. lost' = lost \union InFlight
  BY DEF Interrupt, InFlight
<1>3. /\ AllocatedFirst' /\ OperationMatchesState' /\ ReplySpeaksOfTarget'
      /\ InFlight' = {}
      /\ Live' = Live
  BY <1>1, EndSound
<1>4. OrphansExplained'
  BY <1>1, <1>2, <1>3 DEF IndInv, OrphansExplained
<1>5. CASE InFlight = {}
  <2>1. lost' = lost
    BY <1>2, <1>5
  <2>2. UNCHANGED Custody!custody
    BY <1>1, <1>3, <1>5, <2>1 DEF Custody!custody
  <2>3. QED
    BY <1>3, <1>4, <2>2 DEF Sound
<1>6. CASE InFlight # {}
  <2>1. Custody!GiveUp
    BY <1>1, <1>2, <1>3, <1>6 DEF Custody!GiveUp
  <2>2. QED
    BY <1>3, <1>4, <2>1 DEF Sound, Custody!Next
<1>7. QED
  BY <1>5, <1>6

----------------------------------------------------------------------------
(* The theorems.                                                           *)

LEMMA StepSound == IndInv /\ [Next]_vars => Sound
  BY EditSound, OutOfBandSound, StartSound, AnswersSound, ReplyLostSound,
     FailSound, RefreshSound, CreateSound, CreatedSound, VerifySound,
     UpdateSound, DeleteSound, InterruptSound
  DEF Next, Start

LEMMA Step == IndInv /\ [Next]_vars => IndInv'
  BY StepSound, TypeStep DEF Sound, IndInv

(* The invariant that carries every theorem below: an operation works on   *)
(* the object of the state entry, a reply speaks of that object, what is   *)
(* gone never comes back, and every orphan is accounted for.               *)
THEOREM Inductive == Spec => []IndInv
  BY Initially, Step, PTL DEF Spec

(* Type correctness of the lifecycle.                                      *)
THEOREM TypeCorrect == Spec => []TypeOK
<1>1. IndInv => TypeOK
  BY DEF IndInv
<1>2. QED
  BY <1>1, Inductive, PTL

(* However many faults, retries and interruptions occur, an object without *)
(* an entry in the state is one whose create was never answered, or one of *)
(* a chart or detector whose URL does not parse, or a muting rule's.       *)
THEOREM OrphansAccounted == Spec => []OrphansExplained
<1>1. IndInv => OrphansExplained
  BY DEF IndInv
<1>2. QED
  BY <1>1, Inductive, PTL

(* The provider's handlers implement the custody of objects.               *)
THEOREM ImplementsCustody == Spec => CustodySpec
<1>1. Init => Custody!Init
  BY DEF Init, Custody!Init, Live, InFlight, NoState, Idle
<1>2. IndInv /\ [Next]_vars => [Custody!Next]_(Custody!custody)
  BY StepSound DEF Sound
<1>3. QED
  BY <1>1, <1>2, Inductive, PTL DEF Spec, CustodySpec, Custody!Spec

(* A step lets go of an entry only when the object is gone or the rule's   *)
(* Delete took an error for success.                                       *)
LEMMA ForgetStep ==
  ASSUME IndInv, Next, state.id # NoId, state'.id = NoId
  PROVE  \/ state.id \notin Live
         \/ profile.family = "muting" /\ op.name = "delete"
<1>1. CASE RefreshReturns
  BY <1>1, RefreshEntry
<1>2. CASE UpdateReturns
  BY <1>2, UpdateEntry
<1>3. CASE DeleteReturns
  <2>1. op.name = "delete" /\ op.id = state.id
    BY <1>3, FinishFields DEF DeleteReturns, IndInv, OperationMatchesState
  <2>2. QED
    BY <1>3, <2>1, DeleteEntry
<1>4. CASE CreateReturns \/ VerifyReturns
  <2>1. op.name \in {"create", "verify"}
    BY <1>4, FinishFields DEF CreateReturns, VerifyReturns
  <2>2. QED
    BY <2>1 DEF IndInv, OperationMatchesState
<1>5. CASE state' = state
  BY <1>5
<1>6. QED
  BY <1>1, <1>2, <1>3, <1>4, <1>5
  DEF Next, EditConfig, EditURL, PayloadPanics, OutOfBandChange, StartRefresh, StartCreate,
      StartUpdate, StartDelete, Begin, ServerAnswers, ReplyLost, Served,
      RequestFails, RequestRefused, DetectorCreated, Interrupt

(* Terraform never forgets an object that still exists, whatever the       *)
(* handlers are told, but for the muting rule's Delete.                    *)
THEOREM ForgetsNothingLive == Spec => ForgetsOnlyTheGone
<1>1. IndInv /\ [Next]_vars =>
          [state.id # NoId /\ state'.id = NoId =>
              \/ state.id \notin Live
              \/ profile.family = "muting" /\ op.name = "delete"]_vars
  BY ForgetStep
<1>2. QED
  BY <1>1, Inductive, PTL DEF Spec, ForgetsOnlyTheGone

----------------------------------------------------------------------------
(* The results that are no crash.                                          *)

LEMMA CrashFields ==
  /\ ~Gone.crash /\ ~GoneError.crash /\ ~Same.crash /\ ~SameError.crash
  /\ ~Stored.crash /\ ~PriorError.crash
  BY DEF Gone, GoneError, Same, SameError, Stored, PriorError, Removed, Kept, Result

LEMMA ReadNeverCrashes ==
  ASSUME TypeOK
  PROVE  ~ReadResult.crash
<1>1. profile.family \in AllFamilies
  BY DEF TypeOK, Profiles
<1>2. LegacyRead \in {Gone, Stored, SameError}
  BY DEF LegacyRead, Gone, SameError
<1>3. ChartRead \in {SameError, LegacyRead}
  BY DEF ChartRead, SameError
<1>4. TeamRead \in {Stored, GoneError, SameError}
  BY DEF TeamRead, HandleError, GoneError, SameError
<1>5. TemplateRead \in {Stored, Same, SameError}
  BY DEF TemplateRead, ErrorHandlerFails, Same, SameError
<1>6. BigPandaRead \in {Gone, TemplateRead}
  BY DEF BigPandaRead, Gone
<1>7. ReadResult \in {LegacyRead, ChartRead, TeamRead, TemplateRead, BigPandaRead}
  BY <1>1 DEF ReadResult, AllFamilies
<1>8. ReadResult \in {Gone, GoneError, Same, SameError, Stored}
  BY <1>2, <1>3, <1>4, <1>5, <1>6, <1>7
<1>9. QED
  BY <1>8, CrashFields

(* A create's reply is no 404.                                             *)
LEMMA CreateNeverCrashes ==
  ASSUME TypeOK, ~NotFound
  PROVE  ~CreateResult.crash
<1>1. profile.family \in AllFamilies
  BY DEF TypeOK, Profiles
<1>2. CreateResult \in {LegacyCreate, ChartCreate, TeamCreate, FrameworkCreate}
  BY <1>1 DEF CreateResult, AllFamilies
<1>3. LegacyCreate \in {Stored, GoneError} /\ ChartCreate \in {GoneError, LegacyCreate}
      /\ TeamCreate \in {Stored, GoneError}
  BY DEF LegacyCreate, ChartCreate, TeamCreate, GoneError
<1>4. FrameworkCreate \in {Stored, GoneError}
  BY DEF FrameworkCreate, ErrorHandlerFails, GoneError
<1>5. CreateResult \in {Stored, GoneError}
  BY <1>2, <1>3, <1>4
<1>6. QED
  BY <1>5, CrashFields

LEMMA UpdateCrashesOn404 ==
  ASSUME TypeOK, ~(profile.family \in {"muting", "email"} /\ NotFound)
  PROVE  ~UpdateResult.crash
<1>1. profile.family \in AllFamilies
  BY DEF TypeOK, Profiles
<1>2. LegacyUpdate \in {Stored, SameError} /\ ChartUpdate \in {SameError, LegacyUpdate}
      /\ TeamUpdate \in {Stored, GoneError, SameError}
  BY DEF LegacyUpdate, ChartUpdate, TeamUpdate, HandleError, GoneError, SameError
<1>3. BigPandaUpdate \in {Stored, GoneError, PriorError}
  BY DEF BigPandaUpdate, GoneError, PriorError
<1>4. ~NotFound => TemplateUpdate \in {Stored, PriorError}
  BY DEF TemplateUpdate, PriorError
<1>5. \/ UpdateResult \in {LegacyUpdate, ChartUpdate, TeamUpdate, BigPandaUpdate}
      \/ UpdateResult = TemplateUpdate /\ ~NotFound
  BY <1>1 DEF UpdateResult, AllFamilies
<1>6. UpdateResult \in {Stored, GoneError, SameError, PriorError}
  BY <1>2, <1>3, <1>4, <1>5
<1>7. QED
  BY <1>6, CrashFields

LEMMA DeleteNeverCrashes ==
  ASSUME TypeOK
  PROVE  ~DeleteResult.crash
<1>1. profile.family \in AllFamilies
  BY DEF TypeOK, Profiles
<1>2. /\ LegacyDelete \in {Gone, SameError} /\ TeamDelete \in {Gone, GoneError, SameError}
      /\ FrameworkDelete \in {Gone, SameError} /\ MutingDelete \in {Gone, FrameworkDelete}
  BY DEF LegacyDelete, TeamDelete, HandleError, FrameworkDelete, MutingDelete, Gone,
         GoneError, SameError
<1>3. DeleteResult \in {LegacyDelete, TeamDelete, FrameworkDelete, MutingDelete}
  BY <1>1 DEF DeleteResult, AllFamilies
<1>4. DeleteResult \in {Gone, GoneError, SameError}
  BY <1>2, <1>3
<1>5. QED
  BY <1>4, CrashFields

(* The attribute followed makes a payload panic only in a detector.        *)
PanicsInDetectors == profile.kind = "panicking" => profile.family = "detector"

LEMMA PanicsStay == Spec => []PanicsInDetectors
<1>1. Init => PanicsInDetectors
  BY OnlyDetectorsPanic DEF Init, PanicsInDetectors
<1>2. PanicsInDetectors /\ [Next]_vars => PanicsInDetectors'
  BY DEF PanicsInDetectors, Next, vars, EditConfig, EditURL, PayloadPanics,
         OutOfBandChange, StartRefresh, StartCreate, StartUpdate, StartDelete,
         Begin, ServerAnswers, ReplyLost, Served, RequestFails, RequestRefused,
         DetectorCreated, Interrupt, RefreshReturns, UpdateReturns, DeleteReturns,
         CreateReturns, VerifyReturns, Finish
<1>3. QED
  BY <1>1, <1>2, PTL DEF Spec

LEMMA ReturnStep ==
  ASSUME IndInv, PanicsInDetectors,
         \/ RefreshReturns \/ CreateReturns \/ VerifyReturns
         \/ UpdateReturns \/ DeleteReturns \/ PayloadPanics
  PROVE  \/ outcome' # "crash"
         \/ /\ profile.family \in {"muting", "email"}
            /\ op.name = "update" /\ NotFound
         \/ profile.family = "detector" /\ op = Idle
<1>1. TypeOK
  BY DEF IndInv
<1>2. ASSUME NEW name, NEW r, NEW entry, Finish(name, r, entry), ~r.crash
      PROVE  outcome' # "crash"
  BY <1>2 DEF Finish
<1>3. CASE RefreshReturns \/ VerifyReturns
  BY <1>1, <1>2, <1>3, ReadNeverCrashes DEF RefreshReturns, VerifyReturns
<1>4. CASE CreateReturns
  <2>1. ~NotFound
    BY <1>4 DEF CreateReturns, Finish, IndInv, ReplySpeaksOfTarget
  <2>2. QED
    BY <1>1, <1>2, <1>4, <2>1, CreateNeverCrashes DEF CreateReturns
<1>5. CASE UpdateReturns
  <2>1. op.name = "update"
    BY <1>5 DEF UpdateReturns, Finish
  <2>2. CASE profile.family \in {"muting", "email"} /\ NotFound
    BY <2>1, <2>2
  <2>3. CASE ~(profile.family \in {"muting", "email"} /\ NotFound)
    BY <1>1, <1>2, <1>5, <2>3, UpdateCrashesOn404 DEF UpdateReturns
  <2>4. QED
    BY <2>2, <2>3
<1>6. CASE DeleteReturns
  BY <1>1, <1>2, <1>6, DeleteNeverCrashes DEF DeleteReturns
<1>7. CASE PayloadPanics
  BY <1>7 DEF PayloadPanics, PayloadBuilds, PanicsInDetectors
<1>8. QED
  BY <1>3, <1>4, <1>5, <1>6, <1>7

(* Whatever the API answers and whenever, no handler of any type crashes   *)
(* the process, but for the update of a muting rule or an email template   *)
(* that is gone and a detector whose payload cannot be built.              *)
THEOREM HandlersAlwaysReturn == Spec => HandlersReturn
<1>1. IndInv /\ PanicsInDetectors /\ [Next]_vars =>
        [(\/ RefreshReturns \/ CreateReturns \/ VerifyReturns
          \/ UpdateReturns \/ DeleteReturns \/ PayloadPanics)
         => \/ outcome' # "crash"
            \/ /\ profile.family \in {"muting", "email"}
               /\ op.name = "update" /\ NotFound
            \/ profile.family = "detector" /\ op = Idle]_vars
  BY ReturnStep
<1>2. QED
  BY <1>1, Inductive, PanicsStay, PTL DEF Spec, HandlersReturn

----------------------------------------------------------------------------
(* The entry mirrors the object.                                           *)

(* Until others change the object, an answer holds the object's value.     *)
ReplyCurrent ==
    Ok /\ op.name # "delete" /\ ~drifted /\ op.reply.id \in Live =>
        remote[op.reply.id] = op.reply.value

MirrorInv == ReplyCurrent /\ StateMirrorsObject

(* A handler that reports no error has stored the reply, or there is no    *)
(* object under the identifier it leaves.                                  *)
Truthful(r) ==
    \/ r.err
    \/ Ok /\ r = Stored
    \/ NotFound /\ r.id \in {NoId, op.id}

LEMMA ReadTruthful ==
  ASSUME TypeOK
  PROVE  Truthful(ReadResult)
<1>1. profile.family \in AllFamilies
  BY DEF TypeOK, Profiles
<1>2. \/ LegacyRead = Gone /\ NotFound
      \/ LegacyRead = Stored /\ Ok
      \/ LegacyRead = SameError
  BY DEF Gone, SameError, LegacyRead, Ok, NotFound
<1>3. ChartRead = SameError \/ ChartRead = LegacyRead
  BY DEF SameError, ChartRead
<1>4. (TeamRead = Stored /\ Ok) \/ TeamRead = GoneError \/ TeamRead = SameError
  BY DEF GoneError, SameError, TeamRead, HandleError
<1>5. \/ TemplateRead = Stored /\ Ok
      \/ TemplateRead = SameError
      \/ TemplateRead = Same /\ NotFound
  BY DEF Same, SameError, TemplateRead, ErrorHandlerFails
<1>6. (BigPandaRead = Gone /\ NotFound) \/ BigPandaRead = TemplateRead
  BY DEF Gone, BigPandaRead
<1>7. ReadResult \in {LegacyRead, ChartRead, TeamRead, TemplateRead, BigPandaRead}
  BY <1>1 DEF ReadResult, AllFamilies
<1>8. \/ ReadResult = Gone /\ NotFound
      \/ ReadResult = Stored /\ Ok
      \/ ReadResult = Same /\ NotFound
      \/ ReadResult \in {SameError, GoneError}
  BY <1>2, <1>3, <1>4, <1>5, <1>6, <1>7
<1>9. QED
  BY <1>8, BasicResults DEF Truthful

LEMMA CreateTruthful ==
  ASSUME TypeOK
  PROVE  Truthful(CreateResult)
<1>1. profile.family \in AllFamilies
  BY DEF TypeOK, Profiles
<1>2. CreateResult \in {LegacyCreate, ChartCreate, TeamCreate, FrameworkCreate}
  BY <1>1 DEF CreateResult, AllFamilies
<1>3. (Ok /\ CreateResult = Stored) \/ CreateResult \in {GoneError, Crash}
  BY <1>2 DEF GoneError, LegacyCreate, ChartCreate, TeamCreate, FrameworkCreate
<1>4. QED
  BY <1>3, BasicResults DEF Truthful

LEMMA UpdateTruthful ==
  ASSUME TypeOK
  PROVE  Truthful(UpdateResult)
<1>1. profile.family \in AllFamilies
  BY DEF TypeOK, Profiles
<1>2. UpdateResult \in {LegacyUpdate, ChartUpdate, TeamUpdate,
                        TemplateUpdate, BigPandaUpdate}
  BY <1>1 DEF UpdateResult, AllFamilies
<1>3. \/ Ok /\ UpdateResult = Stored
      \/ UpdateResult \in {SameError, GoneError, Crash, PriorError}
  BY <1>2 DEF GoneError, SameError, PriorError, LegacyUpdate, ChartUpdate,
              TeamUpdate, HandleError, TemplateUpdate, BigPandaUpdate
<1>4. PriorError.err
  BY DEF PriorError, Result
<1>5. QED
  BY <1>3, <1>4, BasicResults DEF Truthful

(* What is left of a current reply mirrors the object.                     *)
LEMMA StoredMirrors ==
  ASSUME TypeOK, remote[op.reply.id] = op.reply.value
  PROVE  Mirrors(Stored.value, op.reply.id)
<1>1. Stored.value = APIToTF
  BY DEF Stored, Result
<1>2. CASE profile.kind \in {"writeonly", "ignored"}
  BY <1>2 DEF Mirrors
<1>3. CASE profile.kind = "sticky"
  BY <1>1, <1>3 DEF Mirrors, APIToTF
<1>4. CASE profile.kind \notin {"writeonly", "ignored", "sticky"}
  BY <1>1, <1>4 DEF Mirrors, APIToTF
<1>5. QED
  BY <1>2, <1>3, <1>4

(* A truthful handler's result, once it is the entry.                      *)
LEMMA ReturnMirrors ==
  ASSUME IndInv, ReplyCurrent, NEW name, name # "delete", NEW r \in Results,
         NEW entry, Finish(name, r, entry), Truthful(r),
         ~r.err => \E tainted \in BOOLEAN : entry = Entry(r, tainted)
  PROVE  MirrorInv'
<1>1. /\ op.name = name /\ op' = Idle /\ state' = entry
      /\ UNCHANGED <<profile, remote, drifted>>
      /\ outcome' = "ok" => ~r.err
  BY DEF Finish
<1>2. Live' = Live
  BY <1>1 DEF Live
<1>3. ~Ok'
  BY <1>1 DEF Ok, Idle, NoReply
<1>4. SUFFICES ASSUME ~r.err, ~drifted, entry.id \in Live
               PROVE  Mirrors(entry.value, entry.id)
  BY <1>1, <1>2, <1>3 DEF MirrorInv, ReplyCurrent, StateMirrorsObject, Mirrors
<1>5. NoId \notin Live
  BY LifecycleAssumption DEF Live
<1>6. entry.id = r.id /\ entry.value = r.value
  BY <1>4, <1>5 DEF Entry, NoState
<1>7. Ok /\ r = Stored
  BY <1>4, <1>5, <1>6 DEF Truthful, IndInv, ReplySpeaksOfTarget
<1>8. r.id = op.reply.id /\ TypeOK
  BY <1>7, BasicResults DEF IndInv
<1>9. remote[op.reply.id] = op.reply.value
  BY <1>1, <1>4, <1>6, <1>7, <1>8 DEF ReplyCurrent
<1>10. QED
  BY <1>6, <1>7, <1>8, <1>9, StoredMirrors

LEMMA HandlersMirror ==
  ASSUME IndInv, ReplyCurrent,
         RefreshReturns \/ CreateReturns \/ VerifyReturns \/ UpdateReturns
  PROVE  MirrorInv'
<1>1. TypeOK /\ state.tainted \in BOOLEAN
  BY DEF IndInv, TypeOK, Entries
<1>2. /\ ReadResult \in Results /\ CreateResult \in Results
      /\ UpdateResult \in Results
  BY <1>1, ReadResults, CreateResults, UpdateResults
<1>3. CASE RefreshReturns
  <2>1. ~ReadResult.err => CoreRead(ReadResult) = Entry(ReadResult, state.tainted)
    BY DEF CoreRead
  <2>2. QED
    BY <1>1, <1>2, <1>3, <2>1, ReadTruthful, ReturnMirrors DEF RefreshReturns
<1>4. CASE CreateReturns
  <2>1. ~CreateResult.err => CoreCreate(CreateResult) = Entry(CreateResult, FALSE)
    BY <1>2 DEF CoreCreate, Results
  <2>2. QED
    BY <1>1, <1>2, <1>4, <2>1, CreateTruthful, ReturnMirrors DEF CreateReturns
<1>5. CASE VerifyReturns
  <2>1. ~ReadResult.err => CoreCreate(ReadResult) = Entry(ReadResult, FALSE)
    BY <1>2 DEF CoreCreate, Results
  <2>2. QED
    BY <1>1, <1>2, <1>5, <2>1, ReadTruthful, ReturnMirrors DEF VerifyReturns
<1>6. CASE UpdateReturns
  <2>1. ~UpdateResult.err => CoreUpdate(UpdateResult) = Entry(UpdateResult, FALSE)
    BY DEF CoreUpdate
  <2>2. QED
    BY <1>1, <1>2, <1>6, <2>1, UpdateTruthful, ReturnMirrors DEF UpdateReturns
<1>7. QED
  BY <1>3, <1>4, <1>5, <1>6

(* A delete that reports success leaves no entry.                          *)
LEMMA DeleteMirrors ==
  ASSUME IndInv, DeleteReturns
  PROVE  MirrorInv'
<1>1. /\ op' = Idle /\ state' = CoreDelete(DeleteResult)
      /\ outcome' = "ok" => ~DeleteResult.err
  BY DEF DeleteReturns, Finish
<1>2. outcome' = "ok" => state'.id = NoId
  BY <1>1 DEF CoreDelete, NoState
<1>3. NoId \notin Live'
  BY LifecycleAssumption DEF Live
<1>4. ~Ok'
  BY <1>1 DEF Ok, Idle, NoReply
<1>5. QED
  BY <1>2, <1>3, <1>4 DEF MirrorInv, ReplyCurrent, StateMirrorsObject

(* The answer is given as the call takes effect.                           *)
LEMMA AnswerMirrors ==
  ASSUME IndInv, NEW i \in Ids, ServerAnswers(i)
  PROVE  MirrorInv'
<1>1. /\ TypeOK /\ op' = Replied(Answer(i)) /\ remote' = Effect(i)
      /\ i \in Targets
  BY DEF IndInv, ServerAnswers, Served
<1>2. /\ op'.name = op.name /\ op'.reply = Answer(i)
      /\ op'.phase = "reply"
  BY <1>1, RepliedFields
<1>3. op' # Idle
  BY <1>2 DEF Idle
<1>4. SUFFICES ASSUME Ok', op.name # "delete"
               PROVE  remote'[op'.reply.id] = op'.reply.value
  BY <1>2, <1>3 DEF MirrorInv, ReplyCurrent, StateMirrorsObject
<1>5. op.name = "create" \/ i \in Live
  BY <1>2, <1>4 DEF Answer, Ok
<1>6. op'.reply.id = i
  BY <1>2, <1>5 DEF Answer
<1>7. CASE op.name \in {"create", "update"}
  BY <1>1, <1>2, <1>5, <1>6, <1>7 DEF Answer, Effect, TypeOK
<1>8. CASE op.name \notin {"create", "update", "delete"}
  BY <1>1, <1>2, <1>5, <1>6, <1>8 DEF Answer, Effect
<1>9. QED
  BY <1>4, <1>7, <1>8

(* Steps after which a call is under way and unanswered.                   *)
LEMMA UnansweredMirrors ==
  ASSUME IndInv,
         \/ Start \/ DetectorCreated
         \/ \E i \in Ids : ReplyLost(i)
         \/ RequestFails \/ RequestRefused
  PROVE  MirrorInv'
<1>1. SUFFICES op' # Idle /\ ~Ok'
  BY DEF MirrorInv, ReplyCurrent, StateMirrorsObject
<1>2. CASE Start \/ DetectorCreated
  BY <1>2 DEF Start, StartRefresh, StartCreate, StartUpdate, StartDelete,
              DetectorCreated, Begin, Request, Idle, NoReply, Ok
<1>3. CASE RequestFails \/ \E i \in Ids : ReplyLost(i)
  <2>1. TypeOK /\ op.phase = "request" /\ op' = RetryOrGiveUp /\ ~Ok
    BY <1>3 DEF RequestFails, ReplyLost, Served, IndInv, ReplySpeaksOfTarget
  <2>2. op'.phase # "none"
    BY <2>1, RetryFields
  <2>3. op'.reply = op.reply \/ op'.reply.code = "failed"
    BY <2>1, RetryFields
  <2>4. QED
    BY <2>1, <2>2, <2>3 DEF Idle, Ok
<1>4. CASE RequestRefused
  <2>1. /\ op'.phase = "reply"
        /\ op'.reply = [code |-> "badrequest", id |-> NoId, value |-> NoValue]
    BY <1>4, RepliedFields DEF RequestRefused, IndInv
  <2>2. QED
    BY <2>1 DEF Idle, Ok
<1>5. QED
  BY <1>2, <1>3, <1>4

(* Steps of others, and steps that report no success.                      *)
LEMMA OtherMirrors ==
  ASSUME IndInv, MirrorInv,
         \/ \E v \in MaybeValue : EditConfig(v)
         \/ \E ok \in UrlOK : EditURL(ok)
         \/ \E i \in Ids, v \in MaybeValue : OutOfBandChange(i, v)
         \/ PayloadPanics \/ Interrupt \/ UNCHANGED vars
  PROVE  MirrorInv'
<1>1. CASE \E i \in Ids, v \in MaybeValue : OutOfBandChange(i, v)
  BY <1>1 DEF OutOfBandChange, MirrorInv, ReplyCurrent, StateMirrorsObject
<1>2. CASE PayloadPanics \/ Interrupt
  <2>1. outcome' = "crash" /\ op' = Idle
    BY <1>2 DEF PayloadPanics, Interrupt
  <2>2. QED
    BY <2>1 DEF MirrorInv, ReplyCurrent, StateMirrorsObject, Ok, Idle, NoReply
<1>3. CASE \/ \E v \in MaybeValue : EditConfig(v)
           \/ \E ok \in UrlOK : EditURL(ok)
           \/ UNCHANGED vars
  <2>1. UNCHANGED <<profile, state, remote, op, outcome, drifted>>
    BY <1>3 DEF EditConfig, EditURL, vars, history
  <2>2. QED
    BY <2>1 DEF MirrorInv, ReplyCurrent, StateMirrorsObject, Mirrors, Ok, Live
<1>4. QED
  BY <1>1, <1>2, <1>3

LEMMA MirrorStep == IndInv /\ MirrorInv /\ [Next]_vars => MirrorInv'
<1>1. MirrorInv => ReplyCurrent
  BY DEF MirrorInv
<1>2. QED
  BY <1>1, HandlersMirror, DeleteMirrors, AnswerMirrors, UnansweredMirrors,
     OtherMirrors DEF Next, Start

(* For any set of values and types and any interleaving, a handler that    *)
(* reported success has left in the state what the object holds, as far as *)
(* the attribute is sent and read back, unless others changed it since.    *)
THEOREM SuccessMirrors == Spec => []StateMirrorsObject
<1>1. Init => MirrorInv
  BY DEF Init, MirrorInv, ReplyCurrent, StateMirrorsObject, Ok, Idle, NoReply
<1>2. MirrorInv => StateMirrorsObject
  BY DEF MirrorInv
<1>3. QED
  BY <1>1, <1>2, MirrorStep, Inductive, PTL DEF Spec
=============================================================================
