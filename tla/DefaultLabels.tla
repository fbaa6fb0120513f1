--------------------------- MODULE DefaultLabels ---------------------------
(***************************************************************************)
(* The provider's own tags and teams.  They are added to the labels of     *)
(* every object the provider writes, but Terraform plans without them: a   *)
(* plan compares the block with the entry only.  What becomes of them      *)
(* depends on whether the resource type merges them on an update too and   *)
(* on whether it reads labels back.  Git tracking adds tags that change    *)
(* with the checkout rather than with the configuration.                   *)
(*                                                                         *)
(* One object of one kind: its tags, or its teams.  Retries and objects    *)
(* that disappear are in ResourceLifecycle.                                *)
(***************************************************************************)
EXTENDS Naturals, Sequences, SequencesExt, FiniteSetsExt

CONSTANTS
    Labels,       \* tags, or teams
    Absent,       \* no entry, no object
    MaxLength,    \* bound on the labels of a block
    MaxDefaults,  \* bound on the labels the provider is given
    MaxFaults     \* bound on faults and edits

VARIABLES
    kind,       \* which labels of which resource type; constant
    provider,   \* the provider's settings, as the next command finds them
    named,      \* the labels the block names
    stored,     \* those in Terraform's state
    carried,    \* those of the object in Splunk Observability Cloud
    op,         \* the operation under way
    written,    \* history: the provider's labels at the last write
    unnoticed,  \* history: the object changed, or did not, and no read of
                \* an object tells of it
    faults      \* disturbances left

defaultsVars == <<kind, provider, named, stored, carried, op, written, unnoticed, faults>>

Kinds == {"detector tags", "detector teams", "dashboard tags", "chart tags",
          "time chart tags", "group teams"}
Teams == {"detector teams", "group teams"}

\* Types that copy the labels of a reply into the entry.
ReadBack == {"detector tags", "detector teams", "time chart tags", "group teams"}

\* Those of a dashboard and of a time chart are a list, the others a set.
Listed == {"dashboard tags", "time chart tags"}

UpTo(n)  == UNION {[1..i -> Labels] : i \in 0..n}
Lists    == UpTo(MaxLength)
Distinct == {s \in UpTo(Cardinality(Labels)) : IsInjective(s)}
LabelBlocks == IF kind \in Listed THEN Lists ELSE Lists \intersect Distinct

\* preview: provider.tags, or provider.teams; branch: the one checked out,
\* Absent if provider.tracking is off.
Settings == [preview : BOOLEAN, listed : UpTo(MaxDefaults),
             branch : Labels \union {Absent}]

Idle == [kind |-> "idle", phase |-> "none", labels |-> <<>>]
Operations == [kind : {"idle", "create", "update"},
               phase : {"none", "request", "reply"}, labels : Distinct]

ASSUME DefaultLabelsAssumption ==
    /\ IsFiniteSet(Labels)
    /\ Absent \notin Labels \union UpTo(MaxLength) \union Distinct
    /\ MaxLength \in Nat
    /\ MaxDefaults \in Nat
    /\ MaxFaults \in Nat

DefaultsTypeOK ==
    /\ kind \in Kinds
    /\ provider \in Settings
    /\ named \in LabelBlocks
    /\ stored = Absent \/ stored \in LabelBlocks \union Distinct
    /\ carried = Absent \/ carried \in Distinct
    /\ op \in Operations
    /\ written \in UpTo(MaxDefaults + 1)
    /\ unnoticed \in BOOLEAN
    /\ faults \in 0..MaxFaults

DefaultsInit ==
    /\ kind \in Kinds
    /\ provider \in Settings
    /\ named \in LabelBlocks
    /\ stored = Absent
    /\ carried = Absent
    /\ op = Idle
    /\ written = <<>>
    /\ unnoticed = FALSE
    /\ faults = MaxFaults

----------------------------------------------------------------------------
(* What the handlers send, and what they keep of a reply.                  *)

Add(s, x)    == IF Contains(s, x) THEN s ELSE Append(s, x)
Unique(s, t) == FoldLeft(Add, <<>>, s \o t)

\* Meta.Tags, with the tags of git at the end, or Meta.Teams.
Configured ==
    IF provider.branch # Absent /\ kind \notin Teams
    THEN Append(provider.listed, provider.branch) ELSE provider.listed

LoadProviderTags   == IF provider.preview THEN Configured ELSE <<>>
MergeProviderTeams == IF provider.preview THEN Unique(Configured, named)
                      ELSE named

\* The block's tags go to a variable of the same name in an inner scope.
TimeChartPayload == <<>>

DetectorCreate  == IF kind \in Teams THEN MergeProviderTeams
                   ELSE Unique(LoadProviderTags, named)
DetectorUpdatesBoth ==  \* mutant: the update merges the teams, too
    IF kind \in Teams THEN MergeProviderTeams ELSE Unique(LoadProviderTags, named)
DetectorUpdate  == IF kind \in Teams THEN named
                   ELSE Unique(LoadProviderTags, named)
DashboardWrite  == Unique(LoadProviderTags, named)
ChartCreate     == Unique(LoadProviderTags, named)
ChartForgetsDefaults == named  \* mutant: an update sends the block only
ChartUpdate     == Unique(LoadProviderTags, named)
TimeChartWrite  == Unique(LoadProviderTags, TimeChartPayload)
GroupWrite      == MergeProviderTeams

ToCreate ==
    CASE kind \in {"detector tags", "detector teams"} -> DetectorCreate
      [] kind = "dashboard tags"  -> DashboardWrite
      [] kind = "chart tags"      -> ChartCreate
      [] kind = "time chart tags" -> TimeChartWrite
      [] kind = "group teams"     -> GroupWrite

ToUpdate ==
    CASE kind \in {"detector tags", "detector teams"} -> DetectorUpdate
      [] kind = "dashboard tags"  -> DashboardWrite
      [] kind = "chart tags"      -> ChartUpdate
      [] kind = "time chart tags" -> TimeChartWrite
      [] kind = "group teams"     -> GroupWrite

\* The entry after a reply, where it would otherwise hold e.
KeepsOwn(e, labels) == e  \* mutant: labels are never read back
Recorded(e, labels) == IF kind \in ReadBack THEN labels ELSE e

Same(s, t) == IF kind \in Listed THEN s = t ELSE ToSet(s) = ToSet(t)

----------------------------------------------------------------------------
(* The environment.                                                        *)

Disturbs == faults > 0 /\ faults' = faults - 1

EditLabels(v) ==
    /\ op = Idle
    /\ v # named
    /\ named' = v
    /\ Disturbs
    /\ UNCHANGED <<kind, provider, stored, carried, op, written, unnoticed>>

\* Somebody edits the provider's settings, or checks out another branch.
EditProvider(s) ==
    /\ op = Idle
    /\ s # provider
    /\ provider' = s
    /\ Disturbs
    /\ UNCHANGED <<kind, named, stored, carried, op, written, unnoticed>>

OthersRelabel(v) ==
    /\ carried # Absent
    /\ v # carried
    /\ carried' = v
    /\ unnoticed' = TRUE
    /\ Disturbs
    /\ UNCHANGED <<kind, provider, named, stored, op, written>>

----------------------------------------------------------------------------
(* Terraform.                                                              *)

Differs == stored # Absent /\ ~Same(named, stored)

RefreshLabels ==
    /\ op = Idle
    /\ stored # Absent
    /\ stored' = Recorded(stored, carried)
    /\ UNCHANGED <<kind, provider, named, carried, op, written, unnoticed, faults>>

Start(what, labels) ==
    /\ op = Idle
    /\ op' = [kind |-> what, phase |-> "request", labels |-> labels]
    /\ UNCHANGED <<kind, provider, named, stored, carried, written, unnoticed,
                   faults>>

StartCreate == stored = Absent /\ Start("create", ToCreate)
StartUpdate == Differs /\ Start("update", ToUpdate)

\* POST and PUT store the labels they are given.
ServerApplies ==
    /\ op.phase = "request"
    /\ carried' = op.labels
    /\ op' = [op EXCEPT !.phase = "reply"]
    /\ written' = LoadProviderTags
    /\ UNCHANGED <<kind, provider, named, stored, unnoticed, faults>>

\* A detector is read again once it is created.
ReplyReturns ==
    /\ op.phase = "reply"
    /\ stored' = Recorded(named, IF op.kind = "create"
                                   /\ kind \in {"detector tags", "detector teams"}
                                THEN carried ELSE op.labels)
    /\ unnoticed' = (carried # op.labels)
    /\ op' = Idle
    /\ UNCHANGED <<kind, provider, named, carried, written, faults>>

\* An error of a Create leaves no entry, and nothing will find the object.
\* An error of an Update leaves what was planned in the entry.
CallFails ==
    /\ op # Idle
    /\ IF op.kind = "create" THEN stored' = Absent /\ carried' = Absent
       ELSE stored' = named /\ carried' = carried
    /\ unnoticed' = (op.kind = "update")
    /\ op' = Idle
    /\ Disturbs
    /\ UNCHANGED <<kind, provider, named, written>>

\* The process dies: nothing is recorded.
Interrupt ==
    /\ op # Idle
    /\ carried' = IF op.kind = "create" THEN Absent ELSE carried
    /\ unnoticed' = (op.kind = "update")
    /\ op' = Idle
    /\ Disturbs
    /\ UNCHANGED <<kind, provider, named, stored, written>>

DefaultsNext ==
    \/ \E v \in LabelBlocks : EditLabels(v)
    \/ \E v \in Distinct : OthersRelabel(v)
    \/ \E s \in Settings : EditProvider(s)
    \/ RefreshLabels \/ StartCreate \/ StartUpdate
    \/ ServerApplies \/ ReplyReturns \/ CallFails \/ Interrupt

DefaultsSpec == DefaultsInit /\ [][DefaultsNext]_defaultsVars

\* Calls end, and Terraform refreshes and applies again and again.
DefaultsFairness ==
    /\ WF_defaultsVars(ServerApplies \/ ReplyReturns)
    /\ SF_defaultsVars(RefreshLabels)
    /\ SF_defaultsVars(StartCreate \/ StartUpdate)

DefaultsFairSpec == DefaultsSpec /\ DefaultsFairness

----------------------------------------------------------------------------
(* Properties.                                                             *)

Defaults == ToSet(LoadProviderTags)

(* A chart or dashboard whose plan is empty carries its own tags and those *)
(* the provider had when it was last written: neither a later change of    *)
(* the provider's tags nor another branch reaches it.  Unless a PUT failed *)
(* or somebody edited the object: that is forgotten, as nothing reads tags *)
(* back, and the entry says what it would say had all gone well.           *)
UnreadKeepsLastWrite ==
    op = Idle /\ stored # Absent /\ ~Differs /\ kind \notin ReadBack /\ ~unnoticed
        => ToSet(carried) = ToSet(written) \union ToSet(named)

\* The provider has labels that the block does not name, and what is read
\* back makes every plan remove them and every apply add them again.
Echo ==
    CASE kind \in {"detector tags", "group teams"} -> ~(Defaults \subseteq ToSet(named))
      [] kind = "time chart tags" -> Unique(LoadProviderTags, <<>>) # named
      [] OTHER -> FALSE

(* Once the disturbances stop, plans become empty and stay empty, unless   *)
(* the provider's labels are echoed into the entry of a type that would    *)
(* merge them again.  The teams of a detector are no such case: the first  *)
(* update sheds the provider's.                                            *)
LabelsConverge == <>[](op = Idle => Echo \/ (stored # Absent /\ ~Differs))

(* Where labels are read back nothing stays different without an end to    *)
(* the plans it causes: either updates go on for ever, or the object ends  *)
(* up with the labels of the block and no others.  A default label lasts   *)
(* on such an object only by being written again at every apply.           *)
QuietMeansOwnLabels ==
    kind \in ReadBack =>
        \/ []<>(op.kind = "update")
        \/ <>[](carried # Absent /\ ToSet(carried) = ToSet(named))
=============================================================================
