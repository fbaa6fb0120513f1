------------------------ MODULE DashboardGroup_proofs ------------------------
(* Theorems about DashboardGroup for every set of dashboards.              *)
EXTENDS DashboardGroup, TLAPS

----------------------------------------------------------------------------
(* Type correctness of the pieces.                                         *)

LEMMA IdleIsOperation == Idle \in Operations
BY DEF Idle, Operations, Steps

LEMMA SubsetsAreLists ==
    /\ \A mirrors \in SUBSET Mirrors : mirrors \in SUBSET Dashboards
    /\ \A mirrors \in SUBSET Mirrors : mirrors # Absent /\ mirrors # Gone
    /\ \A list \in SUBSET Dashboards : list # Gone
BY GroupAssumption DEF Dashboards

LEMMA Initially == Init => IndInv
<1> SUFFICES ASSUME Init PROVE IndInv
  OBVIOUS
<1>1. TypeOK
  <2>1. op \in Operations
    BY IdleIsOperation DEF Init
  <2>2. budget \in 0..MaxDisturbances
    BY GroupAssumption DEF Init
  <2> QED
    BY <2>1, <2>2 DEF Init, TypeOK
<1>2. op.name = "idle" /\ op.step = "none"
  BY DEF Init, Idle
<1> QED
  BY <1>1, <1>2
     DEF Init, IndInv, OperationMatchesEntry, NothingLivesInNothing,
         MembersKept, WriteKeepsMembers, PictureOfMirrors, ListIsFresh,
         MirrorsKnown, MirrorsTakenOut

----------------------------------------------------------------------------
(* A step after which the operation holds no picture of the list.          *)

Reading == {"check", "checkBack", "relist", "put"}

Rests ==
    /\ entry' \in Entries \union {Absent}
    /\ op' \in Operations
    /\ outcome' \in {"none", "ok", "error"}
    /\ OperationMatchesEntry'
    /\ op'.step \notin Reading

LEMMA IdleRests ==
    ASSUME op' = Idle, entry' \in Entries \union {Absent},
           outcome' \in {"none", "ok", "error"}
    PROVE  Rests
<1>1. op'.name = "idle" /\ op'.step = "none"
  BY DEF Idle
<1> QED
  BY <1>1, IdleIsOperation DEF Rests, OperationMatchesEntry, Reading

LEMMA FailsRests == ASSUME IndInv, op # Idle \/ entry # Absent, Fails
                    PROVE  Rests
<1>1. op' = Idle /\ outcome' = "error"
  BY DEF Fails, Ends
<1>2. op \in Operations /\ entry \in Entries \union {Absent}
  BY DEF IndInv, TypeOK
<1>3. [mirrors |-> op.want, tainted |-> TRUE] \in Entries
  BY <1>2 DEF Entries, Operations
<1>4. op.name = "update" => [entry EXCEPT !.mirrors = op.want] \in Entries
  BY <1>2 DEF IndInv, OperationMatchesEntry, Entries, Operations
<1>5. entry' \in Entries \union {Absent}
  BY <1>2, <1>3, <1>4 DEF Fails
<1> QED
  BY <1>1, <1>5, IdleRests

LEMMA RecordsRests ==
    ASSUME IndInv, NEW mirrors \in SUBSET Mirrors, Records(mirrors)
    PROVE  Rests
<1>1. op' = Idle /\ outcome' = "ok"
  BY DEF Records, Ends
<1>2. (op.name = "read" /\ entry.tainted) \in BOOLEAN
  BY DEF IndInv, TypeOK, OperationMatchesEntry, Entries
<1>3. entry' \in Entries
  BY <1>2 DEF Records, Entries
<1> QED
  BY <1>1, <1>3, IdleRests

LEMMA ForgetsRests == ASSUME Forgets PROVE Rests
BY IdleRests DEF Forgets, Ends

LEMMA APIToTFRests ==
    ASSUME IndInv, op.step # "none", NEW list, APIToTF(list)
    PROVE  Rests
<1>1. op \in Operations /\ op.want \in SUBSET Mirrors
  BY DEF IndInv, TypeOK, Operations
<1>2. CASE list = {}
  BY <1>1, <1>2, RecordsRests DEF APIToTF
<1>3. CASE list # {}
  <2>1. /\ op' = [op EXCEPT !.step = "listBack"]
        /\ entry' = entry /\ outcome' = outcome
    BY <1>3 DEF APIToTF, Proceeds
  <2>2. op' \in Operations /\ op'.step = "listBack" /\ op'.name = op.name
    BY <1>1, <2>1 DEF Operations, Steps
  <2> QED
    BY <2>1, <2>2
       DEF Rests, Reading, IndInv, TypeOK, OperationMatchesEntry
<1> QED
  BY <1>2, <1>3

(* What is left to show of such a step concerns the list alone.            *)
LEMMA RestingKeeps ==
    ASSUME Rests,
           config' = Absent \/ config' \in SUBSET Mirrors,
           group' = Gone \/ group' \in SUBSET Dashboards,
           homed' \in SUBSET Members,
           drifted' \in BOOLEAN,
           budget' \in 0..MaxDisturbances,
           unseen' \in SUBSET Members,
           raced' \in SUBSET Members,
           NothingLivesInNothing',
           MembersKept'
    PROVE  IndInv'
<1>1. TypeOK'
  BY DEF Rests, TypeOK
<1> QED
  BY <1>1
     DEF Rests, Reading, IndInv, WriteKeepsMembers, PictureOfMirrors,
         ListIsFresh, MirrorsKnown, MirrorsTakenOut

LEMMA DisturbType == ASSUME budget \in 0..MaxDisturbances, Disturb
                     PROVE  budget' \in 0..MaxDisturbances
BY GroupAssumption DEF Disturb

----------------------------------------------------------------------------
(* The steps that give or use a picture of the list.                       *)

LEMMA ListKeeps == IndInv /\ ListAnswered => IndInv'
<1> SUFFICES ASSUME IndInv, ListAnswered PROVE IndInv'
  OBVIOUS
<1>1. UNCHANGED <<config, drifted, budget, group, homed, unseen, raced>>
  BY DEF ListAnswered, Environment
<1>2. op \in Operations /\ op.step \in {"list", "listBack"}
  BY DEF ListAnswered, IndInv, TypeOK
<1>3. CASE group = Gone
  <2>1. op # Idle
    BY <1>2 DEF Idle
  <2>2. Rests
    BY <1>3, <2>1, FailsRests DEF ListAnswered
  <2> QED
    BY <1>1, <2>2, RestingKeeps
       DEF IndInv, TypeOK, NothingLivesInNothing, MembersKept
<1>4. CASE group # Gone
  <2>1. /\ op' = [op EXCEPT !.listed = group,
                            !.step = IF @ = "list" THEN "check"
                                                   ELSE "checkBack"]
        /\ entry' = entry /\ outcome' = outcome
    BY <1>4 DEF ListAnswered, Proceeds
  <2>2. group \in SUBSET Dashboards
    BY <1>4 DEF IndInv, TypeOK
  <2>3. /\ op' \in Operations
        /\ op'.listed = group /\ op'.name = op.name
        /\ op'.step = IF op.step = "list" THEN "check" ELSE "checkBack"
    BY <1>2, <2>1, <2>2 DEF Operations, Steps
  <2> QED
    BY <1>1, <1>2, <2>1, <2>3
       DEF IndInv, TypeOK, OperationMatchesEntry, NothingLivesInNothing,
           MembersKept, WriteKeepsMembers, PictureOfMirrors, ListIsFresh,
           MirrorsKnown, MirrorsTakenOut
<1> QED
  BY <1>3, <1>4

LEMMA ChecksKeep ==
    ASSUME IndInv, NEW missed \in SUBSET Mirrors, ChecksAnswered(missed)
    PROVE  IndInv'
<1> DEFINE found == MirroredBut(missed)
<1>1. /\ UNCHANGED <<config, drifted, group, homed, unseen, raced>>
      /\ budget' \in 0..MaxDisturbances
  BY DisturbType DEF ChecksAnswered, IndInv, TypeOK
<1>2. op \in Operations /\ found \in SUBSET Mirrors
  BY DEF IndInv, TypeOK, MirroredBut
<1>3. CASE op.step = "check"
  <2>1. /\ op' = [op EXCEPT !.step = "relist", !.mirrored = found,
                            !.blind = missed # {}]
        /\ entry' = entry /\ outcome' = outcome
    BY <1>3 DEF ChecksAnswered, Proceeds
  <2>2. /\ op' \in Operations
        /\ op'.step = "relist" /\ op'.name = op.name
        /\ op'.mirrored = found /\ op'.blind = (missed # {})
    BY <1>2, <2>1 DEF Operations, Steps
  <2>3. ~op'.blind => found = op.listed \cap Mirrors
    BY <2>2 DEF MirroredBut
  <2>4. TypeOK'
    BY <1>1, <2>1, <2>2 DEF IndInv, TypeOK
  <2>5. PictureOfMirrors'
    BY <1>1, <1>3, <2>2, <2>3
       DEF IndInv, PictureOfMirrors, ListIsFresh, MirrorsKnown,
           MirrorsTakenOut
  <2> QED
    BY <1>1, <1>3, <2>1, <2>2, <2>4, <2>5
       DEF IndInv, OperationMatchesEntry, NothingLivesInNothing,
           MembersKept, WriteKeepsMembers
<1>4. CASE op.step # "check"
  <2>1. Recorded(found) \in SUBSET Mirrors
    BY <1>2 DEF Recorded, Operations
  <2>2. Rests
    BY <1>4, <2>1, RecordsRests DEF ChecksAnswered
  <2> QED
    BY <1>1, <2>2, RestingKeeps
       DEF IndInv, TypeOK, NothingLivesInNothing, MembersKept
<1> QED
  BY <1>3, <1>4

LEMMA RelistKeeps == IndInv /\ RelistAnswered => IndInv'
<1> SUFFICES ASSUME IndInv, RelistAnswered PROVE IndInv'
  OBVIOUS
<1>1. /\ UNCHANGED <<config, drifted, budget, group, homed, raced>>
      /\ unseen' = {}
  BY DEF RelistAnswered, Environment
<1>2. op \in Operations /\ op.step = "relist"
  BY DEF RelistAnswered, IndInv, TypeOK
<1>3. CASE group = Gone
  <2>1. op # Idle
    BY <1>2 DEF Idle
  <2>2. Rests
    BY <1>3, <2>1, FailsRests DEF RelistAnswered
  <2> QED
    BY <1>1, <2>2, RestingKeeps
       DEF IndInv, TypeOK, NothingLivesInNothing, MembersKept
<1>4. CASE group # Gone
  <2>1. /\ op' = [op EXCEPT !.step = "put", !.kept = Kept]
        /\ entry' = entry /\ outcome' = outcome
    BY <1>4 DEF RelistAnswered, Proceeds
  <2>2. Kept \in SUBSET Dashboards
    BY <1>4 DEF Kept, IndInv, TypeOK
  <2>3. /\ op' \in Operations
        /\ op'.step = "put" /\ op'.name = op.name
        /\ op'.kept = Kept /\ op'.blind = op.blind
    BY <1>2, <2>1, <2>2 DEF Operations, Steps
  <2>4. TypeOK'
    BY <1>1, <2>1, <2>3 DEF IndInv, TypeOK
  <2>5. WriteKeepsMembers'
    BY <1>1, <1>2, <1>4, <2>3, GroupAssumption
       DEF IndInv, TypeOK, Operations, MembersKept, WriteKeepsMembers, Kept
  <2>6. PictureOfMirrors'
    BY <1>1, <1>2, <1>4, <2>3
       DEF IndInv, PictureOfMirrors, ListIsFresh, MirrorsKnown,
           MirrorsTakenOut, Kept
  <2> QED
    BY <1>1, <1>2, <2>1, <2>3, <2>4, <2>5, <2>6
       DEF IndInv, OperationMatchesEntry, NothingLivesInNothing, MembersKept
<1> QED
  BY <1>3, <1>4

(* The heart of MembersKept: what the write leaves out was added unseen.   *)
LEMMA PutKeepsMembers ==
    ASSUME IndInv, op.step = "put", Put
    PROVE  /\ group' \in SUBSET Dashboards
           /\ raced' \in SUBSET Members
           /\ homed' = homed /\ unseen' = unseen
           /\ NothingLivesInNothing'
           /\ MembersKept'
<1>1. /\ group # Gone /\ group \in SUBSET Dashboards
      /\ homed' = homed /\ unseen' = unseen
      /\ raced' = raced \union unseen
  BY DEF Put, IndInv, TypeOK
<1>2. homed \subseteq op.kept \union unseen \union raced
  BY DEF IndInv, WriteKeepsMembers
<1>3. homed \subseteq group \union raced
  BY <1>1 DEF IndInv, MembersKept
<1>4. group' = IF Payload = {} THEN group
               ELSE Payload \cap (Mirrors \union homed)
  BY DEF Put
<1>5. group' \in SUBSET Dashboards
  BY <1>1, <1>4 DEF Dashboards, IndInv, TypeOK
<1>6. homed \subseteq group' \union raced'
  <2>1. CASE Payload = {}
    BY <1>1, <1>3, <1>4, <2>1
  <2>2. CASE Payload # {}
    BY <1>1, <1>2, <1>4, <2>2 DEF Payload
  <2> QED
    BY <2>1, <2>2
<1>7. group' # Gone
  BY <1>5, SubsetsAreLists
<1> QED
  BY <1>1, <1>5, <1>6, <1>7
     DEF NothingLivesInNothing, MembersKept, IndInv, TypeOK

LEMMA PutAnsweredKeeps == IndInv /\ PutAnswered => IndInv'
<1> SUFFICES ASSUME IndInv, PutAnswered PROVE IndInv'
  OBVIOUS
<1>1. UNCHANGED <<config, drifted, budget>> /\ op.step = "put"
  BY DEF PutAnswered, Environment
<1>2. CASE Put /\ APIToTF(group')
  <2>1. Rests
    BY <1>1, <1>2, APIToTFRests
  <2> QED
    BY <1>1, <1>2, <2>1, PutKeepsMembers, RestingKeeps DEF IndInv, TypeOK
<1>3. CASE Fails /\ UNCHANGED <<group, homed, unseen, raced>>
  <2>1. op # Idle
    BY <1>1 DEF Idle
  <2>2. Rests
    BY <1>3, <2>1, FailsRests
  <2> QED
    BY <1>1, <1>3, <2>2, RestingKeeps
       DEF IndInv, TypeOK, NothingLivesInNothing, MembersKept
<1> QED
  BY <1>2, <1>3 DEF PutAnswered

LEMMA PutLostKeeps == IndInv /\ PutLost => IndInv'
<1> SUFFICES ASSUME IndInv, PutLost PROVE IndInv'
  OBVIOUS
<1>1. /\ op.step = "put" /\ Put /\ Fails
      /\ UNCHANGED <<config, drifted>>
      /\ budget' \in 0..MaxDisturbances
  BY DisturbType DEF PutLost, IndInv, TypeOK
<1>2. op # Idle
  BY <1>1 DEF Idle
<1>3. Rests
  BY <1>1, <1>2, FailsRests
<1> QED
  BY <1>1, <1>3, PutKeepsMembers, RestingKeeps DEF IndInv, TypeOK

----------------------------------------------------------------------------
(* The other calls.                                                        *)

LEMMA PostKeeps == IndInv /\ PostAnswered => IndInv'
<1> SUFFICES ASSUME IndInv, PostAnswered PROVE IndInv'
  OBVIOUS
<1>1. /\ UNCHANGED <<config, drifted, budget>> /\ op.step = "post"
      /\ group' = op.want /\ homed' = {} /\ unseen' = {} /\ raced' = {}
      /\ APIToTF(op.want)
  BY DEF PostAnswered, Environment
<1>2. op.want \in SUBSET Mirrors
  BY DEF IndInv, TypeOK, Operations
<1>3. Rests
  BY <1>1, APIToTFRests
<1>4. group' \in SUBSET Dashboards
  BY <1>1, <1>2, SubsetsAreLists
<1> QED
  BY <1>1, <1>3, <1>4, RestingKeeps
     DEF IndInv, TypeOK, NothingLivesInNothing, MembersKept

LEMMA GetKeeps == IndInv /\ GetAnswered => IndInv'
<1> SUFFICES ASSUME IndInv, GetAnswered PROVE IndInv'
  OBVIOUS
<1>1. /\ UNCHANGED <<config, drifted, budget, group, homed, unseen, raced>>
      /\ op.step = "get"
  BY DEF GetAnswered, Environment
<1>2. Rests
  BY <1>1, APIToTFRests, ForgetsRests DEF GetAnswered
<1> QED
  BY <1>1, <1>2, RestingKeeps
     DEF IndInv, TypeOK, NothingLivesInNothing, MembersKept

LEMMA DeleteKeeps == IndInv /\ DeleteAnswered => IndInv'
<1> SUFFICES ASSUME IndInv, DeleteAnswered PROVE IndInv'
  OBVIOUS
<1>1. /\ UNCHANGED <<config, drifted, budget>> /\ op.step = "delete"
      /\ group' = Gone /\ homed' = {} /\ unseen' = {} /\ raced' = {}
  BY DEF DeleteAnswered, Environment
<1>2. op # Idle
  BY <1>1 DEF Idle
<1>3. Rests
  BY <1>2, FailsRests, ForgetsRests DEF DeleteAnswered
<1> QED
  BY <1>1, <1>3, RestingKeeps
     DEF IndInv, TypeOK, NothingLivesInNothing, MembersKept

LEMMA FailureKeeps == IndInv /\ (CallFails \/ Interrupt) => IndInv'
<1> SUFFICES ASSUME IndInv, CallFails \/ Interrupt PROVE IndInv'
  OBVIOUS
<1>1. /\ UNCHANGED <<config, drifted, group, homed, unseen, raced>>
      /\ budget' \in 0..MaxDisturbances
  BY DisturbType DEF CallFails, Interrupt, IndInv, TypeOK
<1>2. CASE CallFails
  <2>1. op # Idle
    BY <1>2 DEF CallFails, Idle
  <2> QED
    BY <1>1, <1>2, <2>1, FailsRests, RestingKeeps
       DEF CallFails, IndInv, TypeOK, NothingLivesInNothing, MembersKept
<1>3. CASE Interrupt
  <2>1. Rests
    BY <1>3, IdleRests DEF Interrupt, Ends, IndInv, TypeOK
  <2> QED
    BY <1>1, <2>1, RestingKeeps
       DEF IndInv, TypeOK, NothingLivesInNothing, MembersKept
<1> QED
  BY <1>2, <1>3

LEMMA StartsKeep ==
    IndInv /\ (StartCreate \/ StartRead \/ StartUpdate \/ StartDelete)
        => IndInv'
<1> SUFFICES ASSUME IndInv,
                    StartCreate \/ StartRead \/ StartUpdate \/ StartDelete
             PROVE  IndInv'
  OBVIOUS
<1>1. PICK name \in {"create", "read", "update", "delete"},
           step \in {"post", "get", "list", "delete"},
           want \in SUBSET Mirrors :
        /\ Begin(name, step, want)
        /\ name \in {"read", "update"} => entry # Absent
        /\ name = "read" => step = "get"
  <2>1. CASE StartCreate
    BY <2>1 DEF StartCreate, IndInv, TypeOK
  <2>2. CASE StartRead
    BY <2>2 DEF StartRead, IndInv, TypeOK, Entries
  <2>3. CASE StartUpdate
    BY <2>3 DEF StartUpdate, IndInv, TypeOK
  <2>4. CASE StartDelete
    BY <2>4 DEF StartDelete
  <2> QED
    BY <2>1, <2>2, <2>3, <2>4
<1>2. /\ op' = [Idle EXCEPT !.name = name, !.step = step, !.want = want]
      /\ drifted' = FALSE
      /\ UNCHANGED <<config, entry, group, homed, outcome, unseen, raced>>
  BY <1>1 DEF Begin
<1>3. budget' \in 0..MaxDisturbances
  BY DisturbType
     DEF StartCreate, StartRead, StartUpdate, StartDelete, IndInv, TypeOK
<1>4. op' \in Operations /\ op'.name = name /\ op'.step = step
  BY <1>2, IdleIsOperation DEF Operations, Steps
<1>5. Rests
  BY <1>1, <1>2, <1>4
     DEF Rests, Reading, OperationMatchesEntry, IndInv, TypeOK
<1> QED
  BY <1>2, <1>3, <1>5, RestingKeeps
     DEF IndInv, TypeOK, NothingLivesInNothing, MembersKept

----------------------------------------------------------------------------
(* The environment.  Members and mirrors are different dashboards, so what *)
(* happens to members leaves the picture of the mirrors true.              *)

LEMMA MembersMove ==
    ASSUME IndInv, NEW d \in Members, AddMember(d) \/ RemoveMember(d)
    PROVE  IndInv'
<1>1. /\ UNCHANGED <<config, entry, op, outcome, drifted>>
      /\ budget' \in 0..MaxDisturbances
  BY DisturbType DEF AddMember, RemoveMember, IndInv, TypeOK
<1>2. group # Gone /\ group \in SUBSET Dashboards
  BY DEF AddMember, RemoveMember, IndInv, TypeOK, NothingLivesInNothing
<1>3. /\ group' \in SUBSET Dashboards
      /\ group' \cap Mirrors = group \cap Mirrors
  BY <1>2, GroupAssumption DEF AddMember, RemoveMember, Dashboards
<1>4. group' # Gone
  BY <1>3, SubsetsAreLists
<1>5. /\ homed' \in SUBSET Members /\ unseen' \in SUBSET Members
      /\ raced' \in SUBSET Members
  BY DEF AddMember, RemoveMember, IndInv, TypeOK
<1>6. TypeOK'
  BY <1>1, <1>3, <1>5 DEF IndInv, TypeOK
<1>7. MembersKept' /\ WriteKeepsMembers'
  BY <1>1, <1>2
     DEF AddMember, RemoveMember, IndInv, MembersKept, WriteKeepsMembers
<1>8. PictureOfMirrors'
  BY <1>1, <1>2, <1>3
     DEF IndInv, PictureOfMirrors, ListIsFresh, MirrorsKnown,
         MirrorsTakenOut
<1> QED
  BY <1>1, <1>4, <1>6, <1>7, <1>8
     DEF IndInv, OperationMatchesEntry, NothingLivesInNothing

LEMMA MirrorsMove ==
    ASSUME IndInv, NEW d \in Mirrors, OutOfBandMirror(d)
    PROVE  IndInv'
<1>1. /\ UNCHANGED <<config, entry, homed, op, outcome, unseen, raced>>
      /\ drifted' = TRUE
      /\ budget' \in 0..MaxDisturbances
      /\ group # Gone
  BY DisturbType DEF OutOfBandMirror, IndInv, TypeOK
<1>2. group' \in SUBSET Dashboards
  BY <1>1 DEF OutOfBandMirror, Dashboards, IndInv, TypeOK
<1>3. group' # Gone
  BY <1>2, SubsetsAreLists
<1>4. MembersKept'
  BY <1>1, GroupAssumption
     DEF OutOfBandMirror, IndInv, TypeOK, MembersKept
<1>5. TypeOK'
  BY <1>1, <1>2 DEF IndInv, TypeOK
<1> QED
  BY <1>1, <1>3, <1>4, <1>5
     DEF IndInv, OperationMatchesEntry, NothingLivesInNothing,
         WriteKeepsMembers, PictureOfMirrors

LEMMA GroupDeleted == IndInv /\ OutOfBandDelete => IndInv'
<1> SUFFICES ASSUME IndInv, OutOfBandDelete PROVE IndInv'
  OBVIOUS
<1>1. /\ UNCHANGED <<config, entry, op, outcome>>
      /\ group' = Gone /\ homed' = {} /\ unseen' = {} /\ raced' = {}
      /\ drifted' = TRUE
      /\ budget' \in 0..MaxDisturbances
  BY DisturbType DEF OutOfBandDelete, IndInv, TypeOK
<1>2. TypeOK'
  BY <1>1 DEF IndInv, TypeOK
<1> QED
  BY <1>1, <1>2
     DEF IndInv, OperationMatchesEntry, NothingLivesInNothing, MembersKept,
         WriteKeepsMembers, PictureOfMirrors

LEMMA EditKeeps ==
    ASSUME IndInv, NEW c \in (SUBSET Mirrors) \union {Absent}, EditBlock(c)
    PROVE  IndInv'
<1>1. /\ UNCHANGED <<entry, group, homed, op, outcome, drifted, unseen,
                     raced>>
      /\ config' = c
      /\ budget' \in 0..MaxDisturbances
  BY DisturbType DEF EditBlock, IndInv, TypeOK
<1>2. TypeOK'
  BY <1>1 DEF IndInv, TypeOK
<1> QED
  BY <1>1, <1>2
     DEF IndInv, OperationMatchesEntry, NothingLivesInNothing, MembersKept,
         WriteKeepsMembers, PictureOfMirrors, ListIsFresh, MirrorsKnown,
         MirrorsTakenOut

LEMMA StutterKeeps == IndInv /\ UNCHANGED vars => IndInv'
BY DEF vars, IndInv, TypeOK, OperationMatchesEntry, NothingLivesInNothing,
       MembersKept, WriteKeepsMembers, PictureOfMirrors, ListIsFresh,
       MirrorsKnown, MirrorsTakenOut

----------------------------------------------------------------------------
(* The theorems.                                                           *)

LEMMA Step == IndInv /\ [Next]_vars => IndInv'
BY EditKeeps, MembersMove, MirrorsMove, GroupDeleted, StartsKeep, PostKeeps,
   GetKeeps, ListKeeps, ChecksKeep, RelistKeeps, PutAnsweredKeeps,
   DeleteKeeps, PutLostKeeps, FailureKeeps, StutterKeeps DEF Next

(* The inductive invariant holds: between a read and a write of the list   *)
(* the operation knows every member but those added unseen, and, unless    *)
(* others changed them or a GET failed, every mirror.                      *)
THEOREM Inductive == Spec => []IndInv
BY Initially, Step, PTL DEF Spec

(* Every variable keeps its type.                                          *)
THEOREM TypeCorrect == Spec => []TypeOK
<1>1. IndInv => TypeOK
  BY DEF IndInv
<1> QED
  BY <1>1, Inductive, PTL

(* dashboardgroupUpdate loses no dashboard of the group, however it        *)
(* interleaves with others, but one added between its read and its write.  *)
THEOREM KeepsMembers == Spec => []MembersKept
<1>1. IndInv => MembersKept
  BY DEF IndInv
<1> QED
  BY <1>1, Inductive, PTL

(* Unless disturbed, dashboardgroupUpdate leaves exactly the block's       *)
(* mirrors in the group.                                                   *)
THEOREM AppliesMirrors == Spec => MirrorsApplied
<1>1. ASSUME IndInv, PutAnswered, group # Gone, ~drifted, ~op.blind,
             Payload # {}
      PROVE  group' \cap Mirrors = op.want
  <2>1. op.kept \cap Mirrors = {} /\ op.want \subseteq Mirrors
    BY <1>1
       DEF IndInv, TypeOK, Operations, PictureOfMirrors, MirrorsTakenOut,
           PutAnswered
  <2>2. group' = Payload \cap (Mirrors \union homed)
    BY <1>1 DEF PutAnswered, Put
  <2> QED
    BY <2>1, <2>2 DEF Payload
<1> QED
  BY <1>1, Inductive, PTL DEF MirrorsApplied

(* A refresh that saw every dashboard records the mirrors of the group.    *)
THEOREM RefreshFindsDrift == Spec => ReadFindsDrift
<1>1. ASSUME IndInv, ChecksAnswered({}), op.name = "read",
             group # Gone, ~drifted
      PROVE  \/ entry'.mirrors = group \cap Mirrors
             \/ group \cap Mirrors = {}
  <2>1. MirroredBut({}) = group \cap Mirrors
    BY <1>1
       DEF IndInv, PictureOfMirrors, ListIsFresh, ChecksAnswered,
           MirroredBut
  <2>2. op.step # "check" => entry'.mirrors = Recorded(MirroredBut({}))
    BY <1>1 DEF ChecksAnswered, Records
  <2>3. op.step # "check"
    BY <1>1 DEF IndInv, OperationMatchesEntry
  <2> QED
    BY <2>1, <2>2, <2>3 DEF Recorded
<1> QED
  BY <1>1, Inductive, PTL DEF ReadFindsDrift
=============================================================================
