--------------------------- MODULE VersionedObject ---------------------------
(***************************************************************************)
(* The two blocks whose objects carry a version that the API checks: the   *)
(* metric ruleset and the settings of automated archival, of which an      *)
(* organization has one.  A PUT names the version it replaces and is       *)
(* refused if others were faster.  The ruleset's update reads the version  *)
(* just before; the settings' sends the version of the last refresh.  The  *)
(* settings' DELETE names a version too: the block's identifier, which is  *)
(* the version the settings had when they were created.                    *)
(*                                                                         *)
(* Each step of `op` is one HTTP call and the code up to the next one.     *)
(***************************************************************************)
EXTENDS Naturals

CONSTANTS
    Values,    \* what a block can ask for
    Absent,    \* no block, no entry, no object
    Families,  \* the blocks to consider
    MaxFaults  \* bound on faults, drift and edits of the block

\* Version 0 is none: a created settings block records its version at the
\* next refresh only.  Objects are created with version 1.
Objects == [born : Nat \ {0}, version : Nat \ {0}, value : Values]
VersionedEntries == [id : Nat \ {0}, version : Nat, value : Values]

ASSUME VersionedAssumption ==
    /\ Absent \notin Values \union Objects \union VersionedEntries
    /\ Families \subseteq {"ruleset", "settings"}
    /\ MaxFaults \in Nat

VARIABLES
    family,    \* the block's type; never changes
    config,    \* what the block asks for
    recorded,  \* the entry of the state
    object,    \* the object, with the number of its birth
    births,    \* objects created so far
    call,      \* the operation under way
    outcome,   \* what the last finished operation reported
    drifted,   \* the object changed by others since the operation began
    basis,     \* history: the object as the version at hand was read from it
    faults     \* disturbances left

versionedVars == <<family, config, recorded, object, births, call, outcome, drifted, basis, faults>>

NoCall == [name |-> "idle", step |-> "none", seen |-> 0]
Calls ==
    [name : {"idle", "create", "read", "update", "delete"},
     step : {"none", "post", "get", "current", "put", "delete"}, seen : Nat]

VersionedTypeOK ==
    /\ family \in {"ruleset", "settings"}
    /\ config = Absent \/ config \in Values
    /\ recorded = Absent \/ recorded \in VersionedEntries
    /\ object = Absent \/ object \in Objects
    /\ births \in Nat
    /\ call \in Calls
    /\ outcome \in {"none", "ok", "error"}
    /\ drifted \in BOOLEAN
    /\ basis = Absent \/ basis \in Objects
    /\ faults \in 0..MaxFaults

VersionedInit ==
    /\ family \in Families
    /\ config = Absent /\ recorded = Absent /\ object = Absent /\ basis = Absent
    /\ births = 0
    /\ call = NoCall
    /\ outcome = "none"
    /\ drifted = FALSE
    /\ faults = MaxFaults

-----------------------------------------------------------------------------
(* The environment.                                                        *)

Disturbs == faults > 0 /\ faults' = faults - 1

EditConfig(c) ==
    /\ call = NoCall /\ c # config
    /\ config' = c
    /\ Disturbs
    /\ UNCHANGED <<family, recorded, object, births, call, outcome, drifted, basis>>

OutOfBand ==
    /\ drifted' = TRUE
    /\ Disturbs
    /\ UNCHANGED <<family, config, recorded, call, outcome, basis>>

OutOfBandChange(v) ==
    /\ object # Absent /\ v # object.value
    /\ object' = [object EXCEPT !.version = @ + 1, !.value = v]
    /\ OutOfBand /\ UNCHANGED births

OutOfBandDelete ==
    /\ object # Absent
    /\ object' = Absent
    /\ OutOfBand /\ UNCHANGED births

\* A ruleset created by others is another ruleset; the settings are the settings.
OutOfBandCreate(v) ==
    /\ object = Absent /\ family = "settings"
    /\ births' = births + 1
    /\ object' = [born |-> births', version |-> 1, value |-> v]
    /\ OutOfBand

-----------------------------------------------------------------------------
(* Terraform decides which handler to call.                                *)

StartCall(name, step) ==
    /\ call = NoCall
    /\ call' = [NoCall EXCEPT !.name = name, !.step = step]
    /\ drifted' = FALSE
    /\ UNCHANGED <<family, config, recorded, object, births, outcome, basis, faults>>

CreateStarts == config # Absent /\ recorded = Absent /\ StartCall("create", "post")
ReadStarts   == recorded # Absent /\ StartCall("read", "get")
UpdateStarts ==
    /\ config # Absent /\ recorded # Absent
    /\ config # recorded.value
    /\ StartCall("update", IF family = "ruleset" THEN "current" ELSE "put")
DeleteStarts == config = Absent /\ recorded # Absent /\ StartCall("delete", "delete")

-----------------------------------------------------------------------------
(* How an operation ends and what Terraform makes of it.                   *)

Ends(result) == call' = NoCall /\ outcome' = result

\* metricRulesetAPIToTF sets the id with every reply, encodeTerraform of the
\* settings never does.
RecordsOldVersion(o) ==   \* mutant: the version of the reply is not copied
    /\ recorded' = [id      |-> IF family = "ruleset" THEN o.born ELSE recorded.id,
                 version |-> IF recorded = Absent THEN o.version ELSE recorded.version,
                 value   |-> o.value]
    /\ basis' = o /\ Ends("ok")
Records(o) ==
    /\ recorded' = [id      |-> IF family = "ruleset" THEN o.born ELSE recorded.id,
                 version |-> o.version, value |-> o.value]
    /\ basis' = o /\ Ends("ok")

Forgets  == recorded' = Absent /\ Ends("ok") /\ UNCHANGED basis

\* A failed update leaves the plan's values behind, the version as it was.
\* HandleError clears the id of missing settings, which changes nothing:
\* the error is returned with it, and Terraform keeps what it has.
Fails ==
    /\ recorded' = IF call.name = "update" THEN [recorded EXCEPT !.value = config] ELSE recorded
    /\ Ends("error") /\ UNCHANGED basis

-----------------------------------------------------------------------------
(* The calls.                                                              *)

\* A ruleset is asked for by its id, the settings by the organization.
Found == object # Absent /\ (family = "ruleset" => object.born = recorded.id)

\* The settings' create returns without reading the reply but for its version.
PostAnswered ==
    /\ call.step = "post"
    /\ IF object # Absent
       THEN Fails /\ UNCHANGED <<object, births>>
       ELSE /\ births' = births + 1
            /\ object' = [born |-> births', version |-> 1, value |-> config]
            /\ IF family = "ruleset" THEN Records(object')
               ELSE /\ recorded' = [id |-> 1, version |-> 0, value |-> config]
                    /\ Ends("ok") /\ UNCHANGED basis
    /\ UNCHANGED <<family, config, drifted, faults>>

\* A missing ruleset is forgotten, missing settings are an error.
MissingFails == Fails   \* mutant: no isNotFoundError
Missing      == IF family = "ruleset" THEN Forgets ELSE Fails

GetAnswered ==
    /\ call.step = "get"
    /\ IF Found THEN Records(object) ELSE Missing
    /\ UNCHANGED <<family, config, object, births, drifted, faults>>

CurrentAnswered ==
    /\ call.step = "current"
    /\ IF Found THEN /\ call' = [call EXCEPT !.step = "put", !.seen = object.version]
                     /\ basis' = object
                     /\ UNCHANGED <<recorded, outcome>>
                ELSE Fails
    /\ UNCHANGED <<family, config, object, births, drifted, faults>>

\* The version the PUT says it replaces.
SentUnseen  == IF Found THEN object.version ELSE 0    \* mutant: no version is sent
SentVersion == IF family = "ruleset" THEN call.seen ELSE recorded.version

Accepted == Found /\ object.version = SentVersion
Put      == object' = [object EXCEPT !.version = @ + 1, !.value = config]

PutAnswered ==
    /\ call.step = "put"
    /\ \/ Accepted /\ Put /\ Records(object')
       \/ ~Accepted /\ Fails /\ UNCHANGED object
    /\ UNCHANGED <<family, config, births, drifted, faults>>

\* The settings' DELETE names the version they were created with.
Deletable == Found /\ (family = "settings" => object.version = recorded.id)

DeleteAnswered ==
    /\ call.step = "delete"
    /\ \/ Deletable /\ object' = Absent /\ Forgets
       \/ ~Deletable /\ Fails /\ UNCHANGED object
    /\ UNCHANGED <<family, config, births, drifted, faults>>

\* The call takes effect, its reply is lost and the client repeats it.
AnswerLost ==
    /\ \/ call.step = "put" /\ Accepted /\ Put
       \/ call.step = "delete" /\ Deletable /\ object' = Absent
    /\ Disturbs
    /\ UNCHANGED <<family, config, recorded, births, call, outcome, drifted, basis>>

CallErrs ==
    /\ call # NoCall
    /\ Fails /\ Disturbs
    /\ UNCHANGED <<family, config, object, births, drifted>>

Killed ==
    /\ call # NoCall
    /\ Ends("error") /\ Disturbs
    /\ UNCHANGED <<family, config, recorded, object, births, drifted, basis>>

Answered == \/ PostAnswered \/ GetAnswered \/ CurrentAnswered
            \/ PutAnswered \/ DeleteAnswered

VersionedNext ==
    \/ \E c \in Values \union {Absent} : EditConfig(c)
    \/ \E v \in Values : OutOfBandChange(v) \/ OutOfBandCreate(v)
    \/ OutOfBandDelete
    \/ CreateStarts \/ ReadStarts \/ UpdateStarts \/ DeleteStarts
    \/ PostAnswered \/ GetAnswered \/ CurrentAnswered \/ PutAnswered \/ DeleteAnswered
    \/ AnswerLost \/ CallErrs \/ Killed

VersionedSpec == VersionedInit /\ [][VersionedNext]_versionedVars

\* Calls end and Terraform is run again and again.
VersionedFairSpec ==
    /\ VersionedSpec
    /\ WF_versionedVars(Answered)
    /\ SF_versionedVars(CreateStarts) /\ SF_versionedVars(ReadStarts)
    /\ SF_versionedVars(UpdateStarts) /\ SF_versionedVars(DeleteStarts)

-----------------------------------------------------------------------------
(* Properties.                                                             *)

\* An update replaces nothing it has not seen: the object its PUT replaces is
\* the very one its version was read from, whoever changed it in between
\* (resource_signalfx_metric_ruleset.go:343-356, autoarchivesettings/schema.go:94-99).
\* The exception: settings deleted and created anew count their versions from 1 again.
OverwritesOnlyTheRead ==
    [][(PutAnswered \/ AnswerLost) /\ call.step = "put" /\ object' # object
           => \/ object = basis
              \/ family = "settings" /\ basis # Absent /\ object.born # basis.born]_versionedVars

\* After an operation that reported success, and unless others have changed the
\* object since it began, the entry holds the object's values and version; only a
\* settings block just created has no version yet.
StateMirrorsObject ==
    call = NoCall /\ outcome = "ok" /\ ~drifted =>
        IF recorded = Absent THEN object = Absent
        ELSE /\ object # Absent /\ recorded.value = object.value
             /\ \/ recorded.version = object.version
                \/ family = "settings" /\ recorded.version = 0

InAgreement ==
    IF config = Absent THEN recorded = Absent /\ (family = "ruleset" => object = Absent)
    ELSE /\ recorded # Absent /\ object # Absent
         /\ config = recorded.value /\ config = object.value
         /\ recorded.version = object.version

\* What Terraform cannot repair: settings that are gone while the entry stays, settings
\* to be destroyed that were ever updated, settings created by others.
BeyondRepair ==
    /\ family = "settings"
    /\ \/ recorded # Absent /\ object = Absent
       \/ config = Absent /\ recorded # Absent /\ object # Absent /\ object.version # recorded.id
       \/ config # Absent /\ recorded = Absent /\ object # Absent

\* With Terraform run again and again, block, state and object agree in the end,
\* whatever was lost, repeated or refused on the way; only settings may be stuck,
\* in the listed ways (autoarchivesettings/resource.go:36-131, common/error.go:33).
VersionsConverge == <>[](call = NoCall => InAgreement \/ BeyondRepair) /\ []<>(call = NoCall)
=============================================================================
