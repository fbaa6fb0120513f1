----------------------- MODULE AwsIntegration_proofs -----------------------
EXTENDS AwsIntegration, TLAPS

MainEntries == [id : MaybeId, set : Settings \union {Absent}, tainted : BOOLEAN]
Operations  == [name : {"idle", "createCred", "readCred", "create", "read",
                        "update", "delete"},
                step : {"none", "post", "record", "get", "put", "wait",
                        "delete"},
                id : MaybeId, set : Settings \union {Absent},
                change : BOOLEAN, seen : Objects \union {Unseen}]
Remotes     == [Ids -> Objects \union {Gone}]

(* What each step of an operation belongs to, and what it has seen.        *)
StepsInOrder ==
    /\ op.step = "none" <=> op.name = "idle"
    /\ op.step = "post" => op.name = "createCred"
    /\ op.step = "record" => op.name = "createCred"
    /\ op.step = "get" => op.name \in {"readCred", "create", "read", "delete"}
    /\ op.step \in {"put", "wait"} => op.name \in {"create", "update", "delete"}
    /\ op.step = "delete" => op.name = "delete"
    /\ op.step \in {"put", "wait"} /\ op.name = "delete" => op.seen \in Objects
    /\ op.step \notin {"none", "post"} => op.id \in allocated

(* An operation works on the identifier its entry holds; nobody else       *)
(* changes the entry while it is under way.                                *)
OperationOnEntry ==
    /\ op.name = "createCred" => cred = NoId
    /\ op.name = "readCred" => op.id = cred
    /\ op.name = "create" => main.id = NoId
    /\ op.name \in {"create", "update"} => op.set \in Settings
    /\ op.name \in {"read", "update", "delete"} => op.id = main.id

(* Whatever is named anywhere was handed out by the API.                   *)
OnlyAllocated ==
    /\ Live \subseteq allocated
    /\ adopted \subseteq allocated
    /\ cred \in allocated \union {NoId}
    /\ main.id \in allocated \union {NoId}

(* Before the last step of Delete, what it saw is what there is, unless    *)
(* the object changed since.                                               *)
StreamsSeenOff ==
    op.step = "delete" /\ ~changed /\ remote[op.id] # Gone =>
        ~remote[op.id].enabled \/ remote[op.id].sync \in {"", "DISABLED"}

IndInv ==
    /\ TypeOK
    /\ StepsInOrder
    /\ OperationOnEntry
    /\ OnlyAllocated
    /\ StreamsSeenOff
    /\ AdoptedNeverLeaked
----------------------------------------------------------------------------
(* How operations begin, go on and end.                                    *)

LEMMA IdleIsOperation == Idle \in Operations
  BY DEF Idle, Operations, MaybeId

LEMMA TypesHold ==
  ASSUME IndInv
  PROVE  /\ main \in MainEntries /\ op \in Operations /\ remote \in Remotes
         /\ allocated \subseteq Ids /\ adopted \subseteq Ids /\ cred \in MaybeId
  BY DEF IndInv, TypeOK, MainEntries, Operations, Remotes

LEMMA DisturbCounts ==
  ASSUME budget \in 0..MaxDisturbances, Disturb
  PROVE  budget' \in 0..MaxDisturbances
  BY AwsAssumption DEF Disturb

\* The steps at which a call is under way that may end in an error.
Calling == op.step \in {"post", "get", "put", "wait", "delete"}

LEMMA APIToTFSetting ==
  ASSUME NEW r \in Objects
  PROVE  APIToTF(r) \in Settings
  BY DEF APIToTF, Objects, Settings, SyncStates

LEMMA FailsGives ==
  ASSUME IndInv, Fails, Calling
  PROVE  /\ op' = Idle /\ outcome' = "error" /\ main' \in MainEntries
         /\ \/ main'.id = main.id
            \/ main.id = NoId /\ main'.id \in allocated
<1> USE TypesHold
<1>1. op' = Idle /\ outcome' = "error"
  BY DEF Fails, Ends
<1>2. CASE op.name = "create" /\ op.step # "get"
  <2>1. op.id \in allocated /\ op.id \in MaybeId
    BY <1>2 DEF IndInv, StepsInOrder, Calling, Operations
  <2>2. main' = [id |-> op.id, set |-> op.set, tainted |-> TRUE]
    BY <1>2 DEF Fails
  <2>3. main.id = NoId /\ op.set \in Settings
    BY <1>2 DEF IndInv, OperationOnEntry
  <2>4. QED
    BY <1>1, <2>1, <2>2, <2>3 DEF MainEntries
<1>3. CASE op.name = "update"
  <2>1. main' = [main EXCEPT !.set = op.set]
    BY <1>3 DEF Fails
  <2>2. QED
    BY <1>1, <2>1 DEF MainEntries, Operations
<1>4. CASE ~(op.name = "create" /\ op.step # "get") /\ op.name # "update"
  <2>1. main' = main
    BY <1>4 DEF Fails
  <2>2. QED
    BY <1>1, <2>1
<1>5. QED
  BY <1>2, <1>3, <1>4

LEMMA SucceedsGives ==
  ASSUME IndInv, NEW r \in Objects, Succeeds(r), Calling,
         op.name \in {"create", "read", "update"}
  PROVE  /\ op' = Idle /\ outcome' = "ok" /\ main' \in MainEntries
         /\ \/ main'.id = main.id
            \/ main.id = NoId /\ main'.id \in allocated
         /\ main'.set = APIToTF(r)
<1> USE TypesHold
<1>1. op.id \in allocated /\ op.id \in MaybeId
  BY DEF IndInv, StepsInOrder, Calling, Operations
<1>2. main' = [id |-> op.id, set |-> APIToTF(r),
               tainted |-> op.name = "read" /\ main.tainted]
  BY DEF Succeeds
<1>3. op.id = main.id \/ main.id = NoId
  BY DEF IndInv, OperationOnEntry
<1>4. (op.name = "read" /\ main.tainted) \in BOOLEAN
  OBVIOUS
<1>5. main' \in MainEntries
  BY <1>1, <1>2, <1>4, APIToTFSetting DEF MainEntries
<1>6. main'.id = op.id /\ main'.set = APIToTF(r)
  BY <1>2
<1>7. QED
  BY <1>1, <1>3, <1>5, <1>6 DEF Succeeds, Ends

LEMMA ProceedGives ==
  ASSUME IndInv, NEW r \in Objects,
         NEW step \in {"put", "wait", "delete"}, Proceed(step, r)
  PROVE  /\ op' \in Operations /\ main' = main /\ outcome' = outcome
         /\ op'.step = step /\ op'.seen = r
         /\ op'.name = op.name /\ op'.id = op.id /\ op'.set = op.set
  BY TypesHold DEF Proceed, Operations

LEMMA EndKeeps ==
  ASSUME IndInv, op' = Idle, outcome' \in {"ok", "error"},
         main' \in MainEntries,
         \/ main'.id = main.id
         \/ main.id = NoId /\ main'.id \in allocated
         \/ main'.id = NoId /\ main.id \notin Live',
         remote' \in Remotes, Live' \subseteq Live, changed' \in BOOLEAN,
         budget' \in 0..MaxDisturbances,
         UNCHANGED <<blocks, cred, allocated, lost, abandoned>>, Records
  PROVE  IndInv'
<1> USE TypesHold
<1>1. adopted' \subseteq adopted \union ({main'.id} \ {NoId})
  BY DEF Records
<1>2. main'.id \in allocated \union {NoId}
  BY DEF IndInv, OnlyAllocated
<1>3. TypeOK'
  BY <1>1, <1>2, IdleIsOperation
  DEF IndInv, TypeOK, MainEntries, Operations, Remotes, blocks
<1>4. StepsInOrder' /\ OperationOnEntry' /\ StreamsSeenOff'
  BY DEF StepsInOrder, OperationOnEntry, StreamsSeenOff, Idle
<1>5. OnlyAllocated'
  BY <1>1, <1>2 DEF IndInv, OnlyAllocated
<1>6. AdoptedNeverLeaked'
  <2> SUFFICES ASSUME NEW i \in adopted' \cap Live'
               PROVE  main'.id = i
    BY DEF AdoptedNeverLeaked
  <2>1. CASE i \in adopted
    <3>1. main.id = i
      BY <2>1 DEF IndInv, AdoptedNeverLeaked
    <3>2. i # NoId
      BY <2>1, AwsAssumption
    <3>3. QED
      BY <3>1, <3>2
  <2>2. QED
    BY <1>1, <2>1
<1>7. QED
  BY <1>3, <1>4, <1>5, <1>6 DEF IndInv

LEMMA GoesOn ==
  ASSUME IndInv, NEW r \in Objects,
         NEW step \in {"put", "wait", "delete"}, Proceed(step, r),
         op.step \in {"get", "put", "wait"}, op.name # "readCred",
         step \in {"put", "wait"} => op.name \in {"create", "update", "delete"},
         step = "delete" => /\ op.name = "delete"
                            /\ remote' = remote /\ r = remote[op.id]
                            /\ ~r.enabled \/ r.sync \in {"", "DISABLED"},
         remote' \in Remotes, Live' \subseteq Live, Saw, Quiet, cred' = cred,
         Records
  PROVE  IndInv'
<1> USE TypesHold
<1> DEFINE G == /\ op' \in Operations /\ main' = main /\ outcome' = outcome
                /\ op'.step = step /\ op'.seen = r
                /\ op'.name = op.name /\ op'.id = op.id /\ op'.set = op.set
<1>1. G
  BY ProceedGives
<1>2. op.id \in allocated
  BY DEF IndInv, StepsInOrder
<1>3. adopted' \subseteq adopted \union ({main.id} \ {NoId})
  BY <1>1 DEF Records
<1>4. main.id \in allocated \union {NoId}
  BY DEF IndInv, OnlyAllocated
<1>5. TypeOK'
  BY <1>1, <1>3, <1>4
  DEF IndInv, TypeOK, MainEntries, Operations, Remotes, blocks, Saw, Quiet
<1>6. StepsInOrder'
  BY <1>1, <1>2 DEF StepsInOrder, IndInv, Quiet
<1>7. OperationOnEntry'
  BY <1>1 DEF OperationOnEntry, IndInv
<1>8. OnlyAllocated'
  BY <1>1, <1>3, <1>4 DEF IndInv, OnlyAllocated, Quiet
<1>9. StreamsSeenOff'
  BY <1>1 DEF StreamsSeenOff
<1>10. AdoptedNeverLeaked'
  BY <1>1, <1>3, AwsAssumption DEF AdoptedNeverLeaked, IndInv
<1>11. QED
  BY <1>5, <1>6, <1>7, <1>8, <1>9, <1>10 DEF IndInv

----------------------------------------------------------------------------
(* People, the service, and Terraform's decisions.                         *)

LEMMA EditKeeps ==
  ASSUME IndInv, \/ \E w \in BOOLEAN, c \in Settings \union {Absent} : EditBlocks(w, c)
                 \/ Rename
  PROVE  IndInv'
<1>1. UNCHANGED <<cred, main, remote, allocated, op, outcome, changed, lost,
                  abandoned, adopted>>
  BY DEF EditBlocks, Rename
<1>2. TypeOK'
  <2>1. wanted' \in BOOLEAN /\ config' \in Settings \union {Absent}
        /\ renamed' \in BOOLEAN
    BY DEF EditBlocks, Rename, IndInv, TypeOK
  <2>2. budget' \in 0..MaxDisturbances
    BY DisturbCounts DEF EditBlocks, Rename, IndInv, TypeOK
  <2>3. QED
    BY <1>1, <2>1, <2>2 DEF IndInv, TypeOK
<1>3. QED
  BY <1>1, <1>2 DEF IndInv, StepsInOrder, OperationOnEntry, OnlyAllocated,
     StreamsSeenOff, AdoptedNeverLeaked, Live

LEMMA RemoteKeeps ==
  ASSUME IndInv, NEW i \in Live, NEW object \in Objects \union {Gone},
         RemoteBecomes(i, object), budget' \in 0..MaxDisturbances
  PROVE  IndInv'
<1> USE TypesHold
<1>1. remote' \in Remotes /\ Live' \subseteq Live
  BY DEF RemoteBecomes, Remotes, Live
<1>2. UNCHANGED <<cred, main, allocated, op, adopted>> /\ changed' = TRUE
  BY DEF RemoteBecomes
<1>3. TypeOK'
  BY <1>1, <1>2 DEF IndInv, TypeOK, RemoteBecomes, Remotes, blocks
<1>4. QED
  BY <1>1, <1>2, <1>3
  DEF IndInv, StepsInOrder, OperationOnEntry, OnlyAllocated, StreamsSeenOff,
      AdoptedNeverLeaked

LEMMA ServiceKeeps ==
  ASSUME IndInv, NEW i \in Ids,
         \/ OutOfBandDelete(i) \/ OutOfBandSwitch(i) \/ Settle(i)
         \/ CancellationFails(i)
  PROVE  IndInv'
<1> USE TypesHold
<1>1. i \in Live /\ remote[i] \in Objects
  BY DEF OutOfBandDelete, OutOfBandSwitch, Settle, CancellationFails, Live,
         Remotes
<1>2. budget' \in 0..MaxDisturbances
  BY DisturbCounts DEF OutOfBandDelete, OutOfBandSwitch, Settle,
     CancellationFails, IndInv, TypeOK
<1>3. \A s \in SyncStates, st \in BOOLEAN :
          [remote[i] EXCEPT !.sync = s, !.starting = st] \in Objects
  BY <1>1 DEF Objects
<1>4. \A s \in SyncStates : [remote[i] EXCEPT !.sync = s] \in Objects
  BY <1>1 DEF Objects
<1>5. PICK object \in Objects \union {Gone} : RemoteBecomes(i, object)
  BY <1>3, <1>4 DEF OutOfBandDelete, OutOfBandSwitch, Settle,
     CancellationFails, SyncStates
<1>6. QED
  BY <1>1, <1>2, <1>5, RemoteKeeps

LEMMA BegunKeeps ==
  ASSUME IndInv,
         NEW name \in {"createCred", "readCred", "create", "read", "update", "delete"},
         NEW step \in {"post", "get", "put"}, NEW id \in MaybeId,
         NEW set \in Settings \union {Absent}, NEW change \in BOOLEAN,
         Begin(name, step, id, set, change),
         step = "post" => name = "createCred" /\ cred = NoId,
         step # "post" => id \in allocated,
         step = "get" => name \in {"readCred", "create", "read", "delete"},
         step = "put" => name = "update",
         name = "readCred" => id = cred,
         name = "create" => main.id = NoId,
         name \in {"create", "update"} => set \in Settings,
         name \in {"read", "update", "delete"} => id = main.id
  PROVE  IndInv'
<1> USE TypesHold
<1>1. op' = [name |-> name, step |-> step, id |-> id, set |-> set,
             change |-> change, seen |-> Unseen]
  BY DEF Begin
<1>2. op' \in Operations
  BY <1>1 DEF Operations
<1>3. op'.name = name /\ op'.step = step /\ op'.id = id /\ op'.set = set
  BY <1>1
<1>4. UNCHANGED <<wanted, config, renamed, cred, main, remote, allocated,
                  outcome, changed, budget, lost, abandoned, adopted>>
  BY DEF Begin, blocks
<1>5. TypeOK'
  BY <1>2, <1>4 DEF IndInv, TypeOK, Operations
<1>6. StepsInOrder' /\ StreamsSeenOff'
  BY <1>3, <1>4 DEF StepsInOrder, StreamsSeenOff
<1>7. OperationOnEntry'
  BY <1>3, <1>4 DEF OperationOnEntry
<1>8. QED
  BY <1>4, <1>5, <1>6, <1>7 DEF IndInv, OnlyAllocated, AdoptedNeverLeaked, Live

LEMMA BeginKeeps ==
  ASSUME IndInv,
         \/ StartCreateCred \/ StartReadCred \/ StartRead
         \/ StartCreate \/ StartUpdate \/ StartDelete
  PROVE  IndInv'
<1> USE TypesHold
<1>1. /\ config \in Settings \union {Absent}
      /\ main.set \in Settings \union {Absent} /\ main.id \in MaybeId
      /\ NoId \in MaybeId /\ Absent \in Settings \union {Absent}
      /\ cred \in allocated \union {NoId} /\ main.id \in allocated \union {NoId}
  BY DEF IndInv, TypeOK, MainEntries, MaybeId, OnlyAllocated
<1>2. CASE StartCreateCred
  BY <1>1, <1>2, BegunKeeps DEF StartCreateCred
<1>3. CASE StartReadCred
  BY <1>1, <1>3, BegunKeeps DEF StartReadCred
<1>4. CASE StartRead
  BY <1>1, <1>4, BegunKeeps DEF StartRead
<1>5. CASE StartCreate
  <2>1. config \in Settings /\ config.sync \in BOOLEAN
    BY <1>1, <1>5 DEF StartCreate, Settings
  <2>2. Begin("create", "get", cred, config, config.sync)
        /\ main.id = NoId /\ cred # NoId
    BY <1>5 DEF StartCreate
  <2> HIDE DEF Begin
  <2>3. QED
    BY <1>1, <2>1, <2>2, BegunKeeps
<1>6. CASE StartUpdate
  <2> DEFINE change == config.sync # main.set.sync
  <2>1. config \in Settings /\ change \in BOOLEAN
    BY <1>1, <1>6 DEF StartUpdate
  <2>2. Begin("update", "put", main.id, config, change) /\ main.id # NoId
    BY <1>6 DEF StartUpdate
  <2> HIDE DEF change
  <2>3. QED
    BY <1>1, <2>1, <2>2, BegunKeeps
<1>7. CASE StartDelete
  BY <1>1, <1>7, BegunKeeps DEF StartDelete
<1>8. QED
  BY <1>2, <1>3, <1>4, <1>5, <1>6, <1>7

LEMMA DeleteCredKeeps == IndInv /\ DeleteCred => IndInv'
<1> SUFFICES ASSUME IndInv, DeleteCred PROVE IndInv'
  OBVIOUS
<1>1. /\ UNCHANGED <<wanted, config, main, remote, allocated, op, changed,
                     budget, lost, adopted>>
      /\ cred' = NoId /\ renamed' = FALSE /\ outcome' = "ok" /\ op = Idle
  BY DEF DeleteCred
<1>2. abandoned' \subseteq Ids
  BY DEF DeleteCred, Live, IndInv, TypeOK
<1>3. TypeOK'
  <2>1. cred' \in MaybeId /\ renamed' \in BOOLEAN
        /\ outcome' \in {"none", "ok", "error"}
    BY <1>1 DEF MaybeId
  <2>2. QED
    BY <1>1, <1>2, <2>1 DEF IndInv, TypeOK
<1>4. OperationOnEntry'
  BY <1>1 DEF OperationOnEntry, Idle
<1>5. QED
  BY <1>1, <1>3, <1>4 DEF IndInv, StepsInOrder, OnlyAllocated,
     StreamsSeenOff, AdoptedNeverLeaked, Live
----------------------------------------------------------------------------
(* The calls of the credentials block.                                     *)

LEMMA NewIdIsNew ==
  ASSUME IndInv, allocated # Ids
  PROVE  NewId \in Ids \ allocated
BY TypesHold DEF NewId

LEMMA CreatedGives ==
  ASSUME IndInv, Created
  PROVE  /\ NewId \in Ids \ allocated
         /\ allocated' = allocated \union {NewId}
         /\ remote' \in Remotes
         /\ Live' = Live \union {NewId}
         /\ op.step = "post" /\ op.name = "createCred" /\ cred = NoId
<1> USE TypesHold
<1>1. NewId \in Ids \ allocated
  BY NewIdIsNew DEF Created
<1>2. Fresh \in Objects
  BY DEF Fresh, Objects, SyncStates
<1>3. remote' = [remote EXCEPT ![NewId] = Fresh]
  BY DEF Created
<1>4. remote' \in Remotes
  BY <1>1, <1>2, <1>3 DEF Remotes
<1>5. Live' = Live \union {NewId}
  BY <1>1, <1>2, <1>3, AwsAssumption DEF Live, Remotes
<1>6. QED
  BY <1>1, <1>4, <1>5
  DEF Created, IndInv, StepsInOrder, OperationOnEntry

LEMMA CredAnsweredKeeps == IndInv /\ CreateCredAnswered => IndInv'
<1> SUFFICES ASSUME IndInv, CreateCredAnswered PROVE IndInv'
  OBVIOUS
<1> USE TypesHold
<1>1. Created
  BY DEF CreateCredAnswered
<1>2. op' = [op EXCEPT !.step = "record", !.id = NewId]
  BY DEF CreateCredAnswered
<1>3. op' \in Operations /\ op'.step = "record" /\ op'.name = "createCred"
      /\ op'.id = NewId
  BY <1>1, <1>2, CreatedGives DEF Operations, MaybeId
<1>4. UNCHANGED <<wanted, config, renamed, cred, main, outcome, budget, lost,
                  abandoned, adopted>> /\ changed' = FALSE
  BY DEF CreateCredAnswered, Saw, blocks
<1>5. TypeOK'
  BY <1>1, <1>3, <1>4, CreatedGives DEF IndInv, TypeOK, Operations, Remotes
<1>6. StepsInOrder' /\ OperationOnEntry' /\ StreamsSeenOff'
  BY <1>1, <1>3, <1>4, CreatedGives
  DEF StepsInOrder, OperationOnEntry, StreamsSeenOff
<1>7. OnlyAllocated' /\ AdoptedNeverLeaked'
  BY <1>1, <1>4, CreatedGives DEF IndInv, OnlyAllocated, AdoptedNeverLeaked
<1>8. QED
  BY <1>5, <1>6, <1>7 DEF IndInv

LEMMA CredReturnsKeeps == IndInv /\ CreateCredReturns => IndInv'
<1> SUFFICES ASSUME IndInv, CreateCredReturns PROVE IndInv'
  OBVIOUS
<1> USE TypesHold
<1>1. /\ cred' = op.id /\ renamed' = FALSE /\ op' = Idle /\ outcome' = "ok"
      /\ UNCHANGED <<wanted, config, main, remote, allocated, changed, budget,
                     lost, abandoned, adopted>>
      /\ op.step = "record"
  BY DEF CreateCredReturns, Ends
<1>2. op.id \in allocated
  BY <1>1 DEF IndInv, StepsInOrder
<1>3. TypeOK'
  <2>1. cred' \in MaybeId /\ renamed' \in BOOLEAN
        /\ outcome' \in {"none", "ok", "error"}
    BY <1>1 DEF Operations
  <2>2. op' \in Operations
    BY <1>1, IdleIsOperation
  <2>3. QED
    BY <1>1, <2>1, <2>2 DEF IndInv, TypeOK, Operations
<1>4. StepsInOrder' /\ OperationOnEntry' /\ StreamsSeenOff'
  BY <1>1 DEF StepsInOrder, OperationOnEntry, StreamsSeenOff, Idle
<1>5. OnlyAllocated' /\ AdoptedNeverLeaked'
  BY <1>1, <1>2 DEF IndInv, OnlyAllocated, AdoptedNeverLeaked, Live
<1>6. QED
  BY <1>3, <1>4, <1>5 DEF IndInv

LEMMA CredLostKeeps == IndInv /\ CreateCredLost => IndInv'
<1> SUFFICES ASSUME IndInv, CreateCredLost PROVE IndInv'
  OBVIOUS
<1> USE TypesHold
<1>1. Created
  BY DEF CreateCredLost
<1>2. /\ UNCHANGED <<wanted, config, renamed, cred, main, changed, abandoned,
                     adopted>>
      /\ lost' = lost \union {NewId}
      /\ op' = op \/ op' = Idle
      /\ outcome' = outcome \/ outcome' = "error"
  BY DEF CreateCredLost, Ends, blocks
<1>3. budget' \in 0..MaxDisturbances
  BY DisturbCounts DEF CreateCredLost, IndInv, TypeOK
<1>4. TypeOK'
  <2>1. op' \in Operations /\ outcome' \in {"none", "ok", "error"}
    BY <1>2, IdleIsOperation DEF IndInv, TypeOK
  <2>2. QED
    BY <1>1, <1>2, <1>3, <2>1, CreatedGives
    DEF IndInv, TypeOK, Operations, Remotes
<1>5. StepsInOrder' /\ OperationOnEntry' /\ StreamsSeenOff'
  <2>1. CASE op' = op
    BY <1>1, <1>2, <2>1, CreatedGives
    DEF IndInv, StepsInOrder, OperationOnEntry, StreamsSeenOff
  <2>2. CASE op' = Idle
    BY <2>2 DEF StepsInOrder, OperationOnEntry, StreamsSeenOff, Idle
  <2>3. QED
    BY <1>2, <2>1, <2>2
<1>6. OnlyAllocated' /\ AdoptedNeverLeaked'
  BY <1>1, <1>2, CreatedGives DEF IndInv, OnlyAllocated, AdoptedNeverLeaked
<1>7. QED
  BY <1>4, <1>5, <1>6 DEF IndInv

LEMMA ReadCredKeeps == IndInv /\ ReadCredAnswered => IndInv'
<1> SUFFICES ASSUME IndInv, ReadCredAnswered PROVE IndInv'
  OBVIOUS
<1> USE TypesHold
<1>1. /\ cred' \in {cred, NoId} /\ op' = Idle /\ outcome' = "ok"
      /\ UNCHANGED <<wanted, config, renamed, main, remote, allocated, budget,
                     lost, abandoned, adopted>>
      /\ changed' = FALSE
  BY DEF ReadCredAnswered, CredAfterRead, Ends, Saw, Quiet, blocks
<1>2. TypeOK'
  <2>1. cred' \in MaybeId /\ outcome' \in {"none", "ok", "error"}
    BY <1>1 DEF MaybeId
  <2>2. op' \in Operations
    BY <1>1, IdleIsOperation
  <2>3. QED
    BY <1>1, <2>1, <2>2 DEF IndInv, TypeOK, Operations
<1>3. StepsInOrder' /\ OperationOnEntry' /\ StreamsSeenOff'
  BY <1>1 DEF StepsInOrder, OperationOnEntry, StreamsSeenOff, Idle
<1>4. OnlyAllocated' /\ AdoptedNeverLeaked'
  BY <1>1 DEF IndInv, OnlyAllocated, AdoptedNeverLeaked, Live
<1>5. QED
  BY <1>2, <1>3, <1>4 DEF IndInv

----------------------------------------------------------------------------
(* The calls of the integration block.                                     *)

LEMMA GetKeeps == IndInv /\ GetAnswered => IndInv'
<1> SUFFICES ASSUME IndInv, GetAnswered PROVE IndInv'
  OBVIOUS
<1> USE TypesHold
<1> DEFINE r == remote[op.id]
<1>1. /\ op.step = "get" /\ op.name \in {"create", "read", "delete"}
      /\ op.id \in allocated
  BY DEF GetAnswered, IndInv, StepsInOrder
<1>2. r \in Objects \union {Gone}
  BY <1>1 DEF Remotes
<1>3. /\ Saw /\ Quiet /\ Records /\ UNCHANGED <<cred, remote>>
      /\ remote' \in Remotes /\ Live' = Live
  BY DEF GetAnswered, Live
<1>4. UNCHANGED <<blocks, cred, allocated, lost, abandoned>>
      /\ changed' \in BOOLEAN /\ budget' \in 0..MaxDisturbances
  BY <1>3 DEF Saw, Quiet, IndInv, TypeOK
<1>5. CASE r = Gone /\ op.name = "create" /\ Fails
  BY <1>1, <1>3, <1>4, <1>5, FailsGives, EndKeeps DEF Calling
<1>6. CASE r = Gone /\ op.name \in {"read", "delete"} /\ main' = NoMain /\ Ends("ok")
  <2>1. main.id = op.id /\ main.id \notin Live'
    BY <1>3, <1>6 DEF IndInv, OperationOnEntry, Live
  <2>2. main' \in MainEntries /\ main'.id = NoId
    BY <1>6 DEF NoMain, MainEntries, MaybeId
  <2>3. op' = Idle /\ outcome' = "ok"
    BY <1>6 DEF Ends
  <2>4. QED
    BY <1>3, <1>4, <2>1, <2>2, <2>3, EndKeeps
<1>7. CASE r # Gone /\ op.name = "read" /\ Succeeds(r)
  <2>1. r \in Objects
    BY <1>2, <1>7
  <2>2. QED
    BY <1>1, <1>3, <1>4, <1>7, <2>1, SucceedsGives, EndKeeps DEF Calling
<1>8. CASE r # Gone /\ op.name = "create" /\ Proceed("put", r)
  <2>1. r \in Objects
    BY <1>2, <1>8
  <2>2. QED
    BY <1>1, <1>3, <1>8, <2>1, GoesOn
<1>9. CASE r # Gone /\ op.name = "delete" /\ NeedToDisable(r) /\ Proceed("put", r)
  <2>1. r \in Objects
    BY <1>2, <1>9
  <2>2. QED
    BY <1>1, <1>3, <1>9, <2>1, GoesOn
<1>10. CASE r # Gone /\ op.name = "delete" /\ ~NeedToDisable(r) /\ Proceed("delete", r)
  <2>1. r \in Objects
    BY <1>2, <1>10
  <2>2. ~r.enabled \/ r.sync \in {"", "DISABLED"}
    BY <1>10, <2>1 DEF NeedToDisable, Objects
  <2>3. QED
    BY <1>1, <1>3, <1>10, <2>1, <2>2, GoesOn
<1>11. QED
  BY <1>5, <1>6, <1>7, <1>8, <1>9, <1>10 DEF GetAnswered, GoneOnGet

LEMMA PutStores ==
  ASSUME IndInv, op.step = "put", NEW r \in Objects
  PROVE  AfterPut(r) \subseteq Objects
<1> USE TypesHold
<1>1. AskedEnabled \in BOOLEAN
  BY DEF AskedEnabled, IndInv, StepsInOrder, OperationOnEntry, Objects, Settings
<1> DEFINE set == [r EXCEPT !.enabled = AskedEnabled]
<1>2. set \in Objects
  BY <1>1 DEF Objects
<1>3. \A s \in SyncStates, b \in BOOLEAN :
          [set EXCEPT !.sync = s, !.starting = b] \in Objects
  BY <1>2 DEF Objects
<1>4. set.sync \in SyncStates /\ set.starting \in BOOLEAN
  BY <1>2 DEF Objects
<1> HIDE DEF set
<1>5. [set EXCEPT !.sync = IF @ = "" THEN "DISABLED" ELSE @,
                  !.starting = (@ \/ r.sync # "ENABLED")] \in Objects
  <2>1. (IF set.sync = "" THEN "DISABLED" ELSE set.sync) \in SyncStates
    BY <1>4 DEF SyncStates
  <2>2. (set.starting \/ r.sync # "ENABLED") \in BOOLEAN
    OBVIOUS
  <2>3. QED
    BY <1>3, <2>1, <2>2
<1>6. [set EXCEPT !.sync = "CANCELLING", !.starting = FALSE] \in Objects
      /\ [set EXCEPT !.sync = "ENABLED", !.starting = FALSE] \in Objects
  BY <1>3 DEF SyncStates
<1>7. QED
  BY <1>2, <1>5, <1>6 DEF AfterPut, set

LEMMA PutKeeps == IndInv /\ PutAnswered => IndInv'
<1> SUFFICES ASSUME IndInv, PutAnswered PROVE IndInv'
  OBVIOUS
<1> USE TypesHold
<1>1. /\ op.step = "put" /\ op.name \in {"create", "update", "delete"}
      /\ op.id \in allocated /\ op.id \in Ids
  BY DEF PutAnswered, IndInv, StepsInOrder
<1>2. Saw /\ Quiet /\ Records /\ UNCHANGED cred
  BY DEF PutAnswered
<1>3. UNCHANGED <<blocks, cred, allocated, lost, abandoned>>
      /\ changed' \in BOOLEAN /\ budget' \in 0..MaxDisturbances
  BY <1>2 DEF Saw, Quiet, IndInv, TypeOK
<1>4. CASE remote[op.id] = Gone
  <2>1. Fails /\ remote' = remote
    BY <1>4 DEF PutAnswered
  <2>2. remote' \in Remotes /\ Live' = Live
    BY <2>1 DEF Live
  <2>3. QED
    BY <1>1, <1>2, <1>3, <2>1, <2>2, FailsGives, EndKeeps DEF Calling
<1>5. CASE remote[op.id] # Gone
  <2>1. remote[op.id] \in Objects
    BY <1>1, <1>5 DEF Remotes
  <2>2. PICK r \in AfterPut(remote[op.id]) :
            /\ remote' = [remote EXCEPT ![op.id] = r]
            /\ IF Waits THEN Proceed("wait", r) ELSE Succeeds(r)
    BY <1>5 DEF PutAnswered
  <2>3. r \in Objects
    BY <1>1, <2>1, PutStores
  <2>4. remote' \in Remotes /\ Live' \subseteq Live
    BY <1>1, <1>5, <2>2, <2>3 DEF Remotes, Live
  <2>5. CASE Waits
    BY <1>1, <1>2, <2>2, <2>3, <2>4, <2>5, GoesOn
  <2>6. CASE ~Waits
    BY <1>1, <1>2, <1>3, <2>2, <2>3, <2>4, <2>6, SucceedsGives, EndKeeps
    DEF Calling, Waits
  <2>7. QED
    BY <2>5, <2>6
<1>6. QED
  BY <1>4, <1>5

LEMMA PollKeeps == IndInv /\ PollAnswered => IndInv'
<1> SUFFICES ASSUME IndInv, PollAnswered PROVE IndInv'
  OBVIOUS
<1> USE TypesHold
<1> DEFINE r == remote[op.id]
<1>1. /\ op.step = "wait" /\ op.name \in {"create", "update", "delete"}
      /\ op.id \in allocated /\ op.id \in Ids
  BY DEF PollAnswered, IndInv, StepsInOrder
<1>2. /\ Saw /\ Quiet /\ Records /\ UNCHANGED <<cred, remote>>
      /\ remote' \in Remotes /\ Live' = Live
  BY DEF PollAnswered, Live
<1>3. UNCHANGED <<blocks, cred, allocated, lost, abandoned>>
      /\ changed' \in BOOLEAN /\ budget' \in 0..MaxDisturbances
  BY <1>2 DEF Saw, Quiet, IndInv, TypeOK
<1>4. r # Gone => r \in Objects
  BY <1>1 DEF Remotes
<1>5. CASE Fails
  BY <1>1, <1>2, <1>3, <1>5, FailsGives, EndKeeps DEF Calling
<1>6. CASE /\ r # Gone /\ r.sync \in Target
           /\ op.name = "delete" /\ Proceed("delete", r)
  <2>1. r.sync \in {"", "DISABLED"}
    BY <1>6 DEF Target, ExpectOn
  <2>2. QED
    BY <1>1, <1>2, <1>4, <1>6, <2>1, GoesOn
<1>7. CASE r # Gone /\ op.name # "delete" /\ Succeeds(r)
  BY <1>1, <1>2, <1>3, <1>4, <1>7, SucceedsGives, EndKeeps DEF Calling
<1>8. CASE r # Gone /\ Proceed("wait", r)
  BY <1>1, <1>2, <1>4, <1>8, GoesOn
<1>9. QED
  BY <1>5, <1>6, <1>7, <1>8 DEF PollAnswered

LEMMA DeleteKeeps == IndInv /\ DeleteAnswered => IndInv'
<1> SUFFICES ASSUME IndInv, DeleteAnswered PROVE IndInv'
  OBVIOUS
<1> USE TypesHold
<1>1. /\ op.step = "delete" /\ op.name = "delete" /\ op.id = main.id
      /\ op.id \in allocated /\ op.id \in Ids
  BY DEF DeleteAnswered, IndInv, StepsInOrder, OperationOnEntry
<1>2. /\ Saw /\ Quiet /\ Records /\ UNCHANGED cred
      /\ remote' = [remote EXCEPT ![op.id] = Gone]
  BY DEF DeleteAnswered
<1>3. UNCHANGED <<blocks, cred, allocated, lost, abandoned>>
      /\ changed' \in BOOLEAN /\ budget' \in 0..MaxDisturbances
  BY <1>2 DEF Saw, Quiet, IndInv, TypeOK
<1>4. remote' \in Remotes /\ Live' \subseteq Live /\ main.id \notin Live'
  BY <1>1, <1>2 DEF Remotes, Live
<1>5. CASE Fails
  BY <1>1, <1>2, <1>3, <1>4, <1>5, FailsGives, EndKeeps DEF Calling
<1>6. CASE main' = NoMain /\ Ends("ok")
  <2>1. main' \in MainEntries /\ main'.id = NoId
    BY <1>6 DEF NoMain, MainEntries, MaybeId
  <2>2. QED
    BY <1>2, <1>3, <1>4, <1>6, <2>1, EndKeeps DEF Ends
<1>7. QED
  BY <1>5, <1>6 DEF DeleteAnswered

LEMMA FaultKeeps ==
  ASSUME IndInv, ReplyLost \/ WaitTimesOut \/ CallFails
  PROVE  IndInv'
<1> USE TypesHold
<1>1. Fails /\ Records /\ UNCHANGED <<blocks, cred, allocated, lost, abandoned>>
  BY DEF ReplyLost, WaitTimesOut, CallFails, Quiet
<1>2. Calling
  BY DEF ReplyLost, WaitTimesOut, CallFails, Calling, Operations
<1>3. changed' \in BOOLEAN /\ budget' \in 0..MaxDisturbances
  BY DisturbCounts DEF ReplyLost, WaitTimesOut, CallFails, Quiet, IndInv, TypeOK
<1>4. remote' \in Remotes /\ Live' \subseteq Live
  <2>1. CASE ReplyLost
    <3>1. op.step \in {"put", "delete"} /\ op.id \in Ids /\ remote[op.id] # Gone
      BY <2>1 DEF ReplyLost, IndInv, StepsInOrder
    <3>2. PICK r \in IF op.step = "put" THEN AfterPut(remote[op.id]) ELSE {Gone} :
              remote' = [remote EXCEPT ![op.id] = r]
      BY <2>1 DEF ReplyLost
    <3>3. r \in Objects \union {Gone}
      BY <3>1, <3>2, PutStores DEF Remotes
    <3>4. QED
      BY <3>1, <3>2, <3>3 DEF Remotes, Live
  <2>2. CASE WaitTimesOut \/ CallFails
    BY <2>2 DEF WaitTimesOut, CallFails, Live
  <2>3. QED
    BY <2>1, <2>2
<1>5. QED
  BY <1>1, <1>2, <1>3, <1>4, FailsGives, EndKeeps

LEMMA InterruptKeeps == IndInv /\ Interrupt => IndInv'
<1> SUFFICES ASSUME IndInv, Interrupt PROVE IndInv'
  OBVIOUS
<1> USE TypesHold
<1>1. /\ op' = Idle /\ outcome' = "error" /\ lost' = lost \union Unrecorded
      /\ UNCHANGED <<wanted, config, renamed, cred, main, remote, allocated,
                     changed, abandoned, adopted>>
  BY DEF Interrupt, Ends, blocks
<1>2. Unrecorded \subseteq Ids
  BY DEF Unrecorded, IndInv, StepsInOrder
<1>3. budget' \in 0..MaxDisturbances
  BY DisturbCounts DEF Interrupt, IndInv, TypeOK
<1>4. TypeOK'
  <2>1. op' \in Operations /\ outcome' \in {"none", "ok", "error"}
    BY <1>1, IdleIsOperation
  <2>2. QED
    BY <1>1, <1>2, <1>3, <2>1 DEF IndInv, TypeOK, Operations
<1>5. StepsInOrder' /\ OperationOnEntry' /\ StreamsSeenOff'
  BY <1>1 DEF StepsInOrder, OperationOnEntry, StreamsSeenOff, Idle
<1>6. OnlyAllocated' /\ AdoptedNeverLeaked'
  BY <1>1 DEF IndInv, OnlyAllocated, AdoptedNeverLeaked, Live
<1>7. QED
  BY <1>4, <1>5, <1>6 DEF IndInv
LEMMA Initially == Init => IndInv
<1> SUFFICES ASSUME Init PROVE IndInv
  OBVIOUS
<1>1. Live = {} /\ op = Idle
  BY DEF Init, Live
<1>2. TypeOK
  <2>1. op \in Operations /\ main \in MainEntries
    BY <1>1, IdleIsOperation DEF Init, NoMain, MainEntries, MaybeId
  <2>2. budget \in 0..MaxDisturbances
    BY AwsAssumption DEF Init
  <2>3. QED
    BY <2>1, <2>2 DEF Init, TypeOK, Operations, MainEntries, MaybeId
<1>3. StepsInOrder /\ OperationOnEntry /\ StreamsSeenOff
  BY <1>1 DEF StepsInOrder, OperationOnEntry, StreamsSeenOff, Idle
<1>4. OnlyAllocated /\ AdoptedNeverLeaked
  BY <1>1 DEF Init, OnlyAllocated, AdoptedNeverLeaked, NoMain
<1>5. QED
  BY <1>2, <1>3, <1>4 DEF IndInv

LEMMA Step == IndInv /\ [Next]_vars => IndInv'
<1> SUFFICES ASSUME IndInv, [Next]_vars PROVE IndInv'
  OBVIOUS
<1>1. CASE UNCHANGED vars
  <2>1. TypeOK'
    BY <1>1 DEF vars, blocks, IndInv, TypeOK
  <2>2. StepsInOrder' /\ OperationOnEntry' /\ StreamsSeenOff'
    BY <1>1 DEF vars, blocks, IndInv, StepsInOrder, OperationOnEntry, StreamsSeenOff
  <2>3. OnlyAllocated' /\ AdoptedNeverLeaked'
    BY <1>1 DEF vars, IndInv, OnlyAllocated, AdoptedNeverLeaked, Live
  <2>4. QED
    BY <2>1, <2>2, <2>3 DEF IndInv
<1>2. CASE Next
  BY <1>2, EditKeeps, ServiceKeeps, BeginKeeps, DeleteCredKeeps,
     CredAnsweredKeeps, CredReturnsKeeps, CredLostKeeps, ReadCredKeeps,
     GetKeeps, PutKeeps, PollKeeps, DeleteKeeps, FaultKeeps, InterruptKeeps
  DEF Next
<1>3. QED
  BY <1>1, <1>2

----------------------------------------------------------------------------
(* The theorems.                                                           *)

(* An operation works on the identifier its entry holds, what is named was *)
(* handed out, and what Delete has seen of the streams still holds unless  *)
(* the object changed.                                                     *)
THEOREM Inductive == Spec => []IndInv
  BY Initially, Step, PTL DEF Spec

(* Type correctness of the two AWS blocks and their object.                *)
THEOREM TypeCorrect == Spec => []TypeOK
<1>1. IndInv => TypeOK
  BY DEF IndInv
<1>2. QED
  BY <1>1, Inductive, PTL

(* Whichever of Delete's four steps fails or is interrupted, and whoever   *)
(* else changes the object, an integration that a block recorded lives     *)
(* only as long as the block's entry.                                      *)
THEOREM AdoptedKept == Spec => []AdoptedNeverLeaked
<1>1. IndInv => AdoptedNeverLeaked
  BY DEF IndInv
<1>2. QED
  BY <1>1, Inductive, PTL

(* Delete destroys no integration whose metric streams may run, unless it  *)
(* changed after Delete looked.                                            *)
THEOREM StopsStreamsFirst == Spec => StreamsStopFirst
<1>1. IndInv /\ [Next]_vars =>
          [DeleteAnswered /\ ~changed /\ remote[op.id] # Gone =>
              \/ ~remote[op.id].enabled
              \/ remote[op.id].sync \in {"", "DISABLED"}]_vars
  BY DEF IndInv, StreamsSeenOff, DeleteAnswered
<1>2. QED
  BY <1>1, Inductive, PTL DEF Spec, StreamsStopFirst

LEMMA SwitchStep ==
  ASSUME IndInv, Next, op.name \in {"create", "update"}, op.change,
         op' = Idle, outcome' = "ok"
  PROVE  main'.set.sync = op.set.sync
<1> USE TypesHold
<1>1. op # Idle /\ op.step \in {"get", "put", "wait"} /\ op.id \in Ids
  BY DEF Idle, IndInv, StepsInOrder, Operations
<1>2. ~Fails
  BY DEF Fails, Ends
<1>3. \A step, r : ~Proceed(step, r) \/ step = "none"
  BY DEF Proceed, Idle, Operations
<1>4. CASE GetAnswered
  BY <1>2, <1>3, <1>4 DEF GetAnswered, GoneOnGet
<1>5. CASE PutAnswered
  BY <1>2, <1>3, <1>5 DEF PutAnswered, Waits
<1>6. CASE PollAnswered
  <2> DEFINE r == remote[op.id]
  <2>1. r.sync \in Target /\ Succeeds(r) /\ r # Gone
    BY <1>2, <1>3, <1>6 DEF PollAnswered
  <2>2. main'.set = APIToTF(r)
    BY <2>1 DEF Succeeds
  <2>3. op.set.sync \in BOOLEAN
    BY DEF IndInv, OperationOnEntry, Settings
  <2>4. main'.set.sync = (r.sync = "ENABLED")
    BY <2>2 DEF APIToTF
  <2>5. CASE op.set.sync
    BY <2>1, <2>4, <2>5, <2>3 DEF Target, ExpectOn
  <2>6. CASE ~op.set.sync
    BY <2>1, <2>4, <2>6, <2>3 DEF Target, ExpectOn
  <2>7. QED
    BY <2>5, <2>6
<1>7. QED
  BY <1>1, <1>2, <1>4, <1>5, <1>6
  DEF Next, EditBlocks, Rename, OutOfBandDelete, OutOfBandSwitch, Settle,
      CancellationFails, RemoteBecomes, StartCreateCred, StartReadCred,
      StartRead, StartCreate, StartUpdate, StartDelete, Begin, DeleteCred,
      CreateCredAnswered, CreateCredReturns, CreateCredLost, Created,
      ReadCredAnswered, WaitTimesOut, DeleteAnswered, ReplyLost, CallFails,
      Interrupt, Ends, StepsInOrder, IndInv

(* A create or update that switches metric streams reports success only    *)
(* after it has seen them in the state the block asks for.                 *)
THEOREM SwitchesForReal == Spec => SwitchTakesEffect
<1>1. IndInv /\ [Next]_vars =>
          [/\ op.name \in {"create", "update"}
           /\ op.change
           /\ op' = Idle /\ outcome' = "ok"
           => main'.set.sync = op.set.sync]_vars
  BY SwitchStep
<1>2. QED
  BY <1>1, Inductive, PTL DEF Spec, SwitchTakesEffect
----------------------------------------------------------------------------
(* The credentials block's entry implements the custody of objects.        *)

Held == <<Live, allocated, cred, Unrecorded, lost \union abandoned>>

LEMMA HeldIsCustody == (Held' = Held) => UNCHANGED Custody!custody
  BY DEF Held, Custody!custody

LEMMA Vanishes ==
  ASSUME NEW i \in Ids, remote' = [remote EXCEPT ![i] = Gone],
         remote \in Remotes,
         UNCHANGED <<allocated, cred, lost, abandoned>>, Unrecorded' = Unrecorded
  PROVE  Custody!Next
<1>1. Live' = Live \ {i}
  BY DEF Live, Remotes
<1>2. Custody!Vanish(i)
  BY <1>1 DEF Custody!Vanish
<1>3. QED
  BY <1>2 DEF Custody!Next

LEMMA StaysLive ==
  ASSUME NEW i \in Live, NEW object \in Objects,
         remote' = [remote EXCEPT ![i] = object], remote \in Remotes
  PROVE  Live' = Live
  BY AwsAssumption DEF Live, Remotes

LEMMA QuietHolds ==
  ASSUME IndInv, op.step # "record", op'.step # "record", Live' = Live,
         UNCHANGED <<allocated, cred, lost, abandoned>>
  PROVE  UNCHANGED Custody!custody
<1>1. Unrecorded' = Unrecorded
  BY DEF Unrecorded
<1>2. QED
  BY <1>1, HeldIsCustody DEF Held

LEMMA ServiceCustody ==
  ASSUME IndInv, NEW i \in Ids,
         \/ OutOfBandDelete(i) \/ OutOfBandSwitch(i) \/ Settle(i)
         \/ CancellationFails(i)
  PROVE  [Custody!Next]_(Custody!custody)
<1> USE TypesHold
<1>1. i \in Live /\ remote[i] \in Objects
  BY DEF OutOfBandDelete, OutOfBandSwitch, Settle, CancellationFails, Live,
         Remotes
<1>2. UNCHANGED <<op, allocated, cred, lost, abandoned>>
  BY DEF OutOfBandDelete, OutOfBandSwitch, Settle, CancellationFails,
         RemoteBecomes
<1>3. Unrecorded' = Unrecorded
  BY <1>2 DEF Unrecorded
<1>4. CASE OutOfBandDelete(i)
  <2>1. remote' = [remote EXCEPT ![i] = Gone]
    BY <1>4 DEF OutOfBandDelete, RemoteBecomes
  <2>2. QED
    BY <1>2, <1>3, <2>1, Vanishes
<1>5. CASE OutOfBandSwitch(i) \/ Settle(i) \/ CancellationFails(i)
  <2>1. \A s \in SyncStates, st \in BOOLEAN :
            [remote[i] EXCEPT !.sync = s, !.starting = st] \in Objects
    BY <1>1 DEF Objects
  <2>2. \A s \in SyncStates : [remote[i] EXCEPT !.sync = s] \in Objects
    BY <1>1 DEF Objects
  <2>3. PICK object \in Objects : remote' = [remote EXCEPT ![i] = object]
    BY <1>5, <2>1, <2>2 DEF OutOfBandSwitch, Settle, CancellationFails,
       RemoteBecomes, SyncStates
  <2>4. Live' = Live
    BY <1>1, <2>3, StaysLive
  <2>5. QED
    BY <1>2, <1>3, <2>4, HeldIsCustody DEF Held
<1>6. QED
  BY <1>4, <1>5

LEMMA CredCustody ==
  ASSUME IndInv,
         \/ DeleteCred \/ CreateCredAnswered \/ CreateCredReturns
         \/ CreateCredLost \/ ReadCredAnswered
  PROVE  [Custody!Next]_(Custody!custody)
<1> USE TypesHold
<1>1. CASE DeleteCred
  <2>1. /\ cred # NoId /\ cred' = NoId /\ op = Idle
        /\ UNCHANGED <<op, remote, allocated, lost>>
        /\ abandoned' = abandoned \union (Live \cap {cred})
    BY <1>1 DEF DeleteCred
  <2>2. Live' = Live /\ Unrecorded' = Unrecorded
    BY <2>1 DEF Live, Unrecorded
  <2>3. \/ (lost \union abandoned)' = lost \union abandoned /\ cred \notin Live
        \/ (lost \union abandoned)' = (lost \union abandoned) \union {cred}
    BY <2>1
  <2>4. Custody!Release
    BY <2>1, <2>2, <2>3 DEF Custody!Release
  <2>5. QED
    BY <2>4 DEF Custody!Next
<1>2. CASE CreateCredAnswered \/ CreateCredLost
  <2>1. Created
    BY <1>2 DEF CreateCredAnswered, CreateCredLost
  <2>2. Unrecorded = {}
    BY <2>1 DEF Created, Unrecorded
  <2>3. UNCHANGED <<cred, abandoned>>
    BY <1>2 DEF CreateCredAnswered, CreateCredLost
  <2>4. \/ Unrecorded' = {NewId} /\ lost' = lost
        \/ Unrecorded' = {} /\ lost' = lost \union {NewId}
    <3>1. CASE CreateCredAnswered
      <4>1. op' = [op EXCEPT !.step = "record", !.id = NewId] /\ lost' = lost
        BY <3>1 DEF CreateCredAnswered
      <4>2. op'.step = "record" /\ op'.id = NewId
        BY <4>1 DEF Operations
      <4>3. QED
        BY <4>1, <4>2 DEF Unrecorded
    <3>2. CASE CreateCredLost
      <4>1. (op' = op \/ op' = Idle) /\ lost' = lost \union {NewId}
        BY <3>2 DEF CreateCredLost, Ends
      <4>2. op'.step # "record"
        BY <2>1, <4>1 DEF Idle, Created
      <4>3. QED
        BY <4>1, <4>2 DEF Unrecorded
    <3>3. QED
      BY <1>2, <3>1, <3>2
  <2>5. Custody!Birth(NewId)
    BY <2>1, <2>2, <2>3, <2>4, CreatedGives DEF Custody!Birth
  <2>6. QED
    BY <2>1, <2>5, CreatedGives DEF Custody!Next
<1>3. CASE CreateCredReturns
  <2>1. /\ op.step = "record" /\ cred' = op.id /\ op' = Idle
        /\ UNCHANGED <<remote, allocated, lost, abandoned>>
    BY <1>3 DEF CreateCredReturns, Ends
  <2>2. Unrecorded = {op.id} /\ Unrecorded' = {} /\ Live' = Live
    BY <2>1 DEF Unrecorded, Idle, Live
  <2>3. op.id \in Ids
    BY <2>1 DEF IndInv, StepsInOrder
  <2>4. Custody!Record(op.id)
    BY <2>1, <2>2 DEF Custody!Record
  <2>5. QED
    BY <2>3, <2>4 DEF Custody!Next
<1>4. CASE ReadCredAnswered
  <2>1. /\ op.name = "readCred" /\ op' = Idle
        /\ cred' = IF op.id \in Live THEN cred ELSE NoId
        /\ UNCHANGED <<remote, allocated, lost, abandoned>>
    BY <1>4 DEF ReadCredAnswered, CredAfterRead, Ends, Quiet
  <2>2. op.step # "record" /\ op'.step # "record" /\ op.id = cred
    BY <2>1 DEF IndInv, StepsInOrder, OperationOnEntry, Idle
  <2>3. Unrecorded' = Unrecorded /\ Live' = Live
    BY <2>1, <2>2 DEF Unrecorded, Live
  <2>4. CASE cred' = cred
    BY <2>1, <2>3, <2>4, HeldIsCustody DEF Held
  <2>5. CASE cred' # cred
    <3>1. Custody!Release
      BY <2>1, <2>2, <2>3, <2>5 DEF Custody!Release
    <3>2. QED
      BY <3>1 DEF Custody!Next
  <2>6. QED
    BY <2>4, <2>5
<1>5. QED
  BY <1>1, <1>2, <1>3, <1>4
LEMMA NotRecording ==
  ASSUME IndInv,
         \/ GetAnswered \/ PutAnswered \/ PollAnswered \/ DeleteAnswered
         \/ ReplyLost \/ WaitTimesOut \/ CallFails
  PROVE  /\ op.step # "record" /\ op'.step # "record"
         /\ Unrecorded' = Unrecorded
         /\ UNCHANGED <<allocated, cred, lost, abandoned>>
<1> USE TypesHold
<1>1. op.step # "record"
  BY DEF GetAnswered, PutAnswered, PollAnswered, DeleteAnswered, ReplyLost,
         WaitTimesOut, CallFails
<1>2. \A step \in {"put", "wait", "delete"} :
          \A r : Proceed(step, r) => op'.step # "record"
  BY DEF Proceed, Operations
<1>3. Fails => op'.step # "record"
  BY DEF Fails, Ends, Idle
<1>4. \A r : Succeeds(r) => op'.step # "record"
  BY DEF Succeeds, Ends, Idle
<1>5. \A o : Ends(o) => op'.step # "record"
  BY DEF Ends, Idle
<1>6. op'.step # "record"
  <2>1. CASE GetAnswered
    BY <1>2, <1>3, <1>4, <1>5, <2>1 DEF GetAnswered, GoneOnGet
  <2>2. CASE PutAnswered
    BY <1>2, <1>3, <1>4, <2>2 DEF PutAnswered
  <2>3. CASE PollAnswered
    BY <1>2, <1>3, <1>4, <2>3 DEF PollAnswered
  <2>4. CASE DeleteAnswered
    BY <1>3, <1>5, <2>4 DEF DeleteAnswered
  <2>5. CASE ReplyLost \/ WaitTimesOut \/ CallFails
    BY <1>3, <2>5 DEF ReplyLost, WaitTimesOut, CallFails
  <2>6. QED
    BY <2>1, <2>2, <2>3, <2>4, <2>5
<1>7. UNCHANGED <<allocated, cred, lost, abandoned>>
  BY DEF GetAnswered, PutAnswered, PollAnswered, DeleteAnswered, ReplyLost,
         WaitTimesOut, CallFails, Quiet
<1>8. QED
  BY <1>1, <1>6, <1>7 DEF Unrecorded

LEMMA MainCustody ==
  ASSUME IndInv,
         \/ GetAnswered \/ PutAnswered \/ PollAnswered \/ DeleteAnswered
         \/ ReplyLost \/ WaitTimesOut \/ CallFails
  PROVE  [Custody!Next]_(Custody!custody)
<1> USE TypesHold, NotRecording
<1>1. CASE remote' = remote
  <2>1. Live' = Live
    BY <1>1 DEF Live
  <2>2. QED
    BY <2>1, QuietHolds
<1>2. CASE remote' # remote /\ PutAnswered
  <2>1. op.step = "put" /\ op.id \in Ids
    BY <1>2 DEF PutAnswered, IndInv, StepsInOrder
  <2>2. remote[op.id] \in Objects /\ op.id \in Live
    BY <1>2, <2>1 DEF PutAnswered, Remotes, Live
  <2>3. PICK r \in AfterPut(remote[op.id]) : remote' = [remote EXCEPT ![op.id] = r]
    BY <1>2, <2>1, <2>2 DEF PutAnswered, Live
  <2>4. Live' = Live
    BY <2>1, <2>2, <2>3, PutStores, StaysLive
  <2>5. QED
    BY <2>4, QuietHolds
<1>3. CASE ReplyLost
  <2>1. op.step \in {"put", "delete"} /\ op.id \in Ids /\ op.id \in Live
    BY <1>3 DEF ReplyLost, IndInv, StepsInOrder, Live
  <2>2. PICK r \in IF op.step = "put" THEN AfterPut(remote[op.id]) ELSE {Gone} :
            remote' = [remote EXCEPT ![op.id] = r]
    BY <1>3 DEF ReplyLost
  <2>3. CASE op.step = "put"
    <3>1. r \in Objects
      BY <2>1, <2>2, <2>3, PutStores DEF Remotes, Live
    <3>2. Live' = Live
      BY <2>1, <2>2, <3>1, StaysLive
    <3>3. QED
      BY <3>2, QuietHolds
  <2>4. CASE op.step = "delete"
    BY <2>1, <2>2, <2>4, Vanishes
  <2>5. QED
    BY <2>1, <2>3, <2>4
<1>4. CASE DeleteAnswered
  <2>1. op.id \in Ids /\ remote' = [remote EXCEPT ![op.id] = Gone]
    BY <1>4 DEF DeleteAnswered, IndInv, StepsInOrder
  <2>2. QED
    BY <2>1, Vanishes
<1>5. QED
  BY <1>1, <1>2, <1>3, <1>4 DEF GetAnswered, PollAnswered, WaitTimesOut, CallFails

LEMMA RestCustody ==
  ASSUME IndInv,
         \/ \E w \in BOOLEAN, c \in Settings \union {Absent} : EditBlocks(w, c)
         \/ Rename \/ UNCHANGED vars
         \/ StartCreateCred \/ StartReadCred \/ StartRead
         \/ StartCreate \/ StartUpdate \/ StartDelete
  PROVE  UNCHANGED Custody!custody
<1>1. UNCHANGED <<cred, remote, allocated, lost, abandoned>>
  BY DEF EditBlocks, Rename, vars, StartCreateCred, StartReadCred, StartRead,
         StartCreate, StartUpdate, StartDelete, Begin
<1>2. op' = op \/ (op.step # "record" /\ op'.step # "record")
  BY DEF EditBlocks, Rename, vars, StartCreateCred, StartReadCred, StartRead,
         StartCreate, StartUpdate, StartDelete, Begin, Idle
<1>3. Unrecorded' = Unrecorded /\ Live' = Live
  BY <1>1, <1>2 DEF Unrecorded, Live
<1>4. QED
  BY <1>1, <1>3, HeldIsCustody DEF Held

LEMMA InterruptCustody ==
  ASSUME IndInv, Interrupt
  PROVE  [Custody!Next]_(Custody!custody)
<1>1. /\ op' = Idle /\ lost' = lost \union Unrecorded
      /\ UNCHANGED <<cred, remote, allocated, abandoned>>
  BY DEF Interrupt, Ends
<1>2. Live' = Live /\ Unrecorded' = {}
  BY <1>1 DEF Live, Unrecorded, Idle
<1>3. CASE Unrecorded = {}
  BY <1>1, <1>2, <1>3, HeldIsCustody DEF Held
<1>4. CASE Unrecorded # {}
  <2>1. Custody!GiveUp
    BY <1>1, <1>2, <1>4 DEF Custody!GiveUp
  <2>2. QED
    BY <2>1 DEF Custody!Next
<1>5. QED
  BY <1>3, <1>4

LEMMA CustodyStep == IndInv /\ [Next]_vars => [Custody!Next]_(Custody!custody)
  BY ServiceCustody, CredCustody, MainCustody, RestCustody, InterruptCustody
  DEF Next

(* Sharing an object between two blocks, the credentials block still       *)
(* implements the custody of objects, and loses none but those of a create *)
(* that was never answered or of a Delete without an integration block.    *)
THEOREM ImplementsCustody == Spec => CustodySpec
<1>1. Init => Custody!Init
  BY DEF Init, Custody!Init, Live, Unrecorded, Idle
<1>2. QED
  BY <1>1, CustodyStep, Inductive, PTL DEF Spec, CustodySpec, Custody!Spec

=============================================================================
