--------------------------- MODULE DashboardGroup ---------------------------
(***************************************************************************)
(* A dashboard group block.  The API keeps in a group the list of all its  *)
(* dashboards: those that live in it (members) and those of other groups   *)
(* it shows (mirrors).  The block names the mirrors only, so Update reads  *)
(* the list, takes out the mirrors, adds the block's and writes the list   *)
(* back, while other users, and the blocks of the dashboards themselves,   *)
(* change the list at any time.                                            *)
(*                                                                         *)
(* Each step of `op` is one HTTP call and the code up to the next one; the *)
(* GETs of the listed dashboards, one after the other, are one step.       *)
(***************************************************************************)
EXTENDS Naturals

CONSTANTS
    Mirrors,         \* dashboards that live in other groups
    Members,         \* dashboards that may live in this group
    Absent,          \* no block, no entry
    Gone,            \* no group
    MaxDisturbances  \* bound on faults, drift and edits of the block

ASSUME GroupAssumption ==
    /\ Mirrors \cap Members = {}
    /\ \A list \in SUBSET (Mirrors \union Members) :
           list # Absent /\ list # Gone
    /\ MaxDisturbances \in Nat

VARIABLES
    config,   \* the block's mirrors, Absent: no block
    entry,    \* the entry of the state, Absent: none
    group,    \* the list of the group, Gone: no group
    homed,    \* the dashboards that live in the group
    op,       \* the operation under way
    outcome,  \* what the last finished operation reported
    drifted,  \* mirrors changed by others since the operation began
    budget,   \* disturbances left
    unseen,   \* history: members added since the operation read the list
    raced     \* history: members added between a read and a write of it

vars == <<config, entry, group, homed, op, outcome, drifted, budget, unseen,
          raced>>

Dashboards == Mirrors \union Members
Steps == {"none", "post", "get", "list", "check", "relist", "put",
          "listBack", "checkBack", "delete"}
Idle == [name |-> "idle", step |-> "none", want |-> {}, listed |-> {},
         mirrored |-> {}, kept |-> {}, blind |-> FALSE]

Entries == [mirrors : SUBSET Mirrors, tainted : BOOLEAN]
Operations ==
    [name : {"idle", "create", "read", "update", "delete"}, step : Steps,
     want : SUBSET Mirrors, listed : SUBSET Dashboards,
     mirrored : SUBSET Mirrors, kept : SUBSET Dashboards, blind : BOOLEAN]

TypeOK ==
    /\ config = Absent \/ config \in SUBSET Mirrors
    /\ entry \in Entries \union {Absent}
    /\ group = Gone \/ group \in SUBSET Dashboards
    /\ homed \in SUBSET Members
    /\ op \in Operations
    /\ outcome \in {"none", "ok", "error"}
    /\ drifted \in BOOLEAN
    /\ budget \in 0..MaxDisturbances
    /\ unseen \in SUBSET Members
    /\ raced \in SUBSET Members

Init ==
    /\ config = Absent
    /\ entry = Absent
    /\ group = Gone
    /\ homed = {}
    /\ op = Idle
    /\ outcome = "none"
    /\ drifted = FALSE
    /\ budget = MaxDisturbances
    /\ unseen = {}
    /\ raced = {}

----------------------------------------------------------------------------
(* The environment.                                                        *)

Disturb == budget > 0 /\ budget' = budget - 1

EditBlock(c) ==
    /\ op = Idle
    /\ c # config
    /\ config' = c
    /\ Disturb
    /\ UNCHANGED <<entry, group, homed, op, outcome, drifted, unseen, raced>>

AddMember(d) ==
    /\ group # Gone /\ d \notin homed
    /\ homed' = homed \union {d}
    /\ group' = group \union {d}
    /\ unseen' = unseen \union {d}
    /\ Disturb
    /\ UNCHANGED <<config, entry, op, outcome, drifted, raced>>

RemoveMember(d) ==
    /\ d \in homed
    /\ homed' = homed \ {d}
    /\ group' = group \ {d}
    /\ unseen' = unseen \ {d}
    /\ raced' = raced \ {d}
    /\ Disturb
    /\ UNCHANGED <<config, entry, op, outcome, drifted>>

OutOfBandMirror(d) ==
    /\ group # Gone
    /\ group' = IF d \in group THEN group \ {d} ELSE group \union {d}
    /\ drifted' = TRUE
    /\ Disturb
    /\ UNCHANGED <<config, entry, homed, op, outcome, unseen, raced>>

OutOfBandDelete ==
    /\ group # Gone
    /\ group' = Gone
    /\ homed' = {}
    /\ unseen' = {}
    /\ raced' = {}
    /\ drifted' = TRUE
    /\ Disturb
    /\ UNCHANGED <<config, entry, op, outcome>>

----------------------------------------------------------------------------
(* Terraform decides which handler to call.                                *)

Begin(name, step, want) ==
    /\ op = Idle
    /\ op' = [Idle EXCEPT !.name = name, !.step = step, !.want = want]
    /\ drifted' = FALSE
    /\ UNCHANGED <<config, entry, group, homed, outcome, unseen, raced>>

StartCreate ==
    /\ config # Absent /\ entry = Absent
    /\ Begin("create", "post", config)
    /\ UNCHANGED budget

StartRead ==
    /\ entry # Absent
    /\ Begin("read", "get", entry.mirrors)
    /\ UNCHANGED budget

\* The mirrors differ, or another attribute of the block was edited.
StartUpdate ==
    /\ config # Absent /\ entry # Absent
    /\ ~entry.tainted
    /\ Begin("update", "list", config)
    /\ IF config # entry.mirrors THEN UNCHANGED budget ELSE Disturb

StartDelete ==
    /\ entry # Absent
    /\ config = Absent \/ entry.tainted
    /\ Begin("delete", "delete", {})
    /\ UNCHANGED budget

----------------------------------------------------------------------------
(* How an operation ends and what Terraform makes of it.                   *)

Ends(result) == op' = Idle /\ outcome' = result

Records(mirrors) ==
    /\ entry' = [mirrors |-> mirrors,
                 tainted |-> op.name = "read" /\ entry.tainted]
    /\ Ends("ok")

Forgets == entry' = Absent /\ Ends("ok")

\* With an error after SetId a create leaves a tainted entry, and an update
\* the plan's values.
Fails ==
    /\ entry' = CASE op.name = "create" /\ op.step # "post" ->
                         [mirrors |-> op.want, tainted |-> TRUE]
                  [] op.name = "update" -> [entry EXCEPT !.mirrors = op.want]
                  [] OTHER -> entry
    /\ Ends("error")

Proceeds(next) == op' = next /\ UNCHANGED <<entry, outcome>>

\* dashboardGroupAPIToTF of a reply with this list.
APIToTF(list) ==
    IF list = {} THEN Records(op.want)
                 ELSE Proceeds([op EXCEPT !.step = "listBack"])

----------------------------------------------------------------------------
(* The calls.                                                              *)

Environment == <<config, drifted, budget>>

PostAnswered ==
    /\ op.step = "post"
    /\ group' = op.want
    /\ homed' = {}
    /\ unseen' = {}
    /\ raced' = {}
    /\ APIToTF(op.want)
    /\ UNCHANGED Environment

GetAnswered ==
    /\ op.step = "get"
    /\ IF group = Gone THEN Forgets ELSE APIToTF(group)
    /\ UNCHANGED <<Environment, group, homed, unseen, raced>>

\* The first GET of getMirroredDashboardConfigs; any error is one.
ListAnswered ==
    /\ op.step \in {"list", "listBack"}
    /\ IF group = Gone
       THEN Fails
       ELSE Proceeds([op EXCEPT !.listed = group,
                                !.step = IF @ = "list" THEN "check"
                                                       ELSE "checkBack"])
    /\ UNCHANGED <<Environment, group, homed, unseen, raced>>

\* A dashboard whose GET fails counts as a member.
MirroredBut(missed) == (op.listed \cap Mirrors) \ missed

\* Nothing in the reply overwrites an attribute without mirrors.
KeepPlanned(found) == op.want  \* mutant: the block's mirrors, whatever found
Recorded(found) == IF found = {} THEN op.want ELSE found

ChecksAnswered(missed) ==
    /\ op.step \in {"check", "checkBack"}
    /\ missed \subseteq op.listed
    /\ LET found == MirroredBut(missed)
       IN  IF op.step = "check"
           THEN Proceeds([op EXCEPT !.step = "relist", !.mirrored = found,
                                    !.blind = missed # {}])
           ELSE Records(Recorded(found))
    /\ IF missed = {} THEN UNCHANGED budget ELSE Disturb
    /\ UNCHANGED <<config, drifted, group, homed, unseen, raced>>

\* getNonMirroredDashes.
KeepNothing == {}         \* mutant: the payload lists the mirrors only
KeepAll     == group      \* mutant: the old mirrors are not taken out
Kept        == group \ op.mirrored

RelistAnswered ==
    /\ op.step = "relist"
    /\ IF group = Gone
       THEN Fails
       ELSE Proceeds([op EXCEPT !.step = "put", !.kept = Kept])
    /\ unseen' = {}
    /\ UNCHANGED <<Environment, group, homed, raced>>

Payload == op.want \union op.kept

\* An empty list is a nil slice, which says nothing about the list.
Put ==
    /\ group # Gone
    /\ group' = IF Payload = {} THEN group
                ELSE Payload \cap (Mirrors \union homed)
    /\ raced' = raced \union unseen
    /\ UNCHANGED <<homed, unseen>>

PutAnswered ==
    /\ op.step = "put"
    /\ \/ Put /\ APIToTF(group')
       \/ group = Gone /\ Fails /\ UNCHANGED <<group, homed, unseen, raced>>
    /\ UNCHANGED Environment

\* A 404 is an error.
DeleteAnswered ==
    /\ op.step = "delete"
    /\ IF group = Gone THEN Fails ELSE Forgets
    /\ group' = Gone
    /\ homed' = {}
    /\ unseen' = {}
    /\ raced' = {}
    /\ UNCHANGED Environment

\* The PUT takes effect and its reply never comes.
PutLost ==
    /\ op.step = "put"
    /\ Put
    /\ Fails
    /\ Disturb
    /\ UNCHANGED <<config, drifted>>

CallFails ==
    /\ op.step \notin {"none", "check", "checkBack"}
    /\ Fails
    /\ Disturb
    /\ UNCHANGED <<config, drifted, group, homed, unseen, raced>>

Interrupt ==
    /\ op # Idle
    /\ Ends("error")
    /\ Disturb
    /\ UNCHANGED <<config, entry, drifted, group, homed, unseen, raced>>

----------------------------------------------------------------------------

Answered ==
    \/ PostAnswered \/ GetAnswered \/ ListAnswered \/ ChecksAnswered({})
    \/ RelistAnswered \/ PutAnswered \/ DeleteAnswered

Next ==
    \/ \E c \in (SUBSET Mirrors) \union {Absent} : EditBlock(c)
    \/ \E d \in Members : AddMember(d) \/ RemoveMember(d)
    \/ \E d \in Mirrors : OutOfBandMirror(d)
    \/ OutOfBandDelete
    \/ StartCreate \/ StartRead \/ StartUpdate \/ StartDelete
    \/ PostAnswered
    \/ GetAnswered
    \/ ListAnswered
    \/ \E missed \in SUBSET Mirrors : ChecksAnswered(missed)
    \/ RelistAnswered
    \/ PutAnswered
    \/ DeleteAnswered
    \/ PutLost
    \/ CallFails
    \/ Interrupt

Spec == Init /\ [][Next]_vars

\* Calls end and Terraform is run again and again.
FairSpec ==
    /\ Spec
    /\ WF_vars(Answered)
    /\ SF_vars(StartCreate)
    /\ SF_vars(StartRead)
    /\ SF_vars(StartUpdate)
    /\ SF_vars(StartDelete)

----------------------------------------------------------------------------
(* Properties.                                                             *)

(* However updates interleave with other users, a dashboard that lives in  *)
(* the group stays in its list, unless it was added between an update's    *)
(* last read of the list and its write.                                    *)
MembersKept == group # Gone => homed \subseteq group \union raced

(* An update leaves in the group the mirrors of the block and no others,   *)
(* unless others changed the mirrors meanwhile, the GET of a listed        *)
(* dashboard failed, or nothing was left to send.                          *)
MirrorsApplied ==
    [][PutAnswered /\ group # Gone /\ ~drifted /\ ~op.blind /\ Payload # {}
          => group' \cap Mirrors = op.want]_vars

(* A refresh that saw every dashboard and reports success has recorded the *)
(* group's mirrors as they were listed, but for a group without any.       *)
ReadFindsDrift ==
    [][/\ ChecksAnswered({}) /\ op.name = "read"
       /\ group # Gone /\ ~drifted
       => \/ entry'.mirrors = group \cap Mirrors
          \/ group \cap Mirrors = {}]_vars

\* The block's mirrors, or none at all: see Recorded and Put.
Reconciled ==
    IF config = Absent
    THEN entry = Absent
    ELSE /\ entry = [mirrors |-> config, tainted |-> FALSE]
         /\ group # Gone
         /\ group \cap Mirrors \in {config, {}}

(* Once the disturbances stop, the state and the group agree with the      *)
(* block, though the last mirror of a group without members can be neither *)
(* removed by the block nor found missing.                                 *)
Converges ==
    \/ <>[](op = Idle => Reconciled) /\ []<>(op = Idle)
    \/ <>[](config = {} /\ homed \ raced = {})

----------------------------------------------------------------------------
(* Why the properties hold.                                                *)

OperationMatchesEntry ==
    /\ op.name = "idle" <=> op.step = "none"
    /\ op.name \in {"read", "update"} => entry # Absent
    /\ op.name = "read" => op.step \in {"get", "listBack", "checkBack"}

NothingLivesInNothing == group = Gone => homed = {}

\* Between the last read of the list and its write.
WriteKeepsMembers ==
    op.step = "put" => homed \subseteq op.kept \union unseen \union raced

\* The operation's picture of the mirrors, if nobody changed them since.
ListIsFresh ==
    op.step \in {"check", "checkBack"} =>
        op.listed \cap Mirrors = group \cap Mirrors

MirrorsKnown ==
    op.step = "relist" /\ ~op.blind => group \cap Mirrors = op.mirrored

MirrorsTakenOut == op.step = "put" /\ ~op.blind => op.kept \cap Mirrors = {}

PictureOfMirrors ==
    ~drifted /\ group # Gone => ListIsFresh /\ MirrorsKnown /\ MirrorsTakenOut

IndInv ==
    /\ TypeOK
    /\ OperationMatchesEntry
    /\ NothingLivesInNothing
    /\ MembersKept
    /\ WriteKeepsMembers
    /\ PictureOfMirrors
=============================================================================
