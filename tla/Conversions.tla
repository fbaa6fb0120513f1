----------------------------- MODULE Conversions -----------------------------
(***************************************************************************)
(* What the conversions between block, API and entry do over many applies  *)
(* and refreshes.  One aspect of one resource at a time:                   *)
(*   "notification"  where a rule of a detector sends its alerts           *)
(*   "layout"        where a dashboard puts its charts                     *)
(*   "view"          the time of a dashboard                               *)
(*   "period"        the time of a detector                                *)
(*   "rules"         the target and the alert rules of an SLO              *)
(* The entry has the shape of the block.  The lives of the objects are in  *)
(* ResourceLifecycle; here an object, once there, stays.                   *)
(***************************************************************************)
EXTENDS Integers, NotificationStrings, DashboardLayout, TimeSettings, SloRules

CONSTANTS
    None,             \* no entry, no object
    MaxDisturbances   \* bound on faults and edits

ASSUME ConversionsAssumption == MaxDisturbances \in Nat

VARIABLES
    aspect,   \* what is converted; constant
    block,    \* the block
    known,    \* every value of the block is known when it is planned
    entry,    \* Terraform's entry, or None
    object,   \* what the API holds, or None
    lost,     \* an object of the block's name whose creation was not answered
    text,     \* the range of an entry that is still to be migrated, or None
    drifted,  \* history: the object changed and no refresh has seen it since
    budget    \* disturbances left

vars == <<aspect, block, known, entry, object, lost, text, drifted, budget>>

Aspects == {"notification", "layout", "view", "period", "rules"}

Blocks(a) ==
    CASE a = "notification" -> Texts
      [] a = "layout" -> Layouts
      [] a = "view" -> Views
      [] a = "period" -> Periods
      [] a = "rules" -> Slos

ASSUME NoneAssumption == \A a \in Aspects : None \notin Blocks(a)

----------------------------------------------------------------------------
(* The conversions of the aspect.                                          *)

\* What is sent for a block.
Payload(b) ==
    CASE aspect = "notification" -> NewNotificationFromString(b)
      [] aspect = "layout" -> LaidOut[b]
      [] aspect = "view" -> getDashboardTime(b)
      [] aspect = "period" -> getVisualizationTime(b)
      [] aspect = "rules" -> getApiTargets(b)

\* What an entry becomes when a reply is read into it.
ReadInto(e, o) ==
    CASE aspect = "notification" -> NewNotificationStringFromAPI(o)
      [] aspect = "layout" -> ReadLayout(e, o)
      [] aspect = "view" -> ReadView(e, o)
      [] aspect = "period" -> ReadPeriod(e, o)
      [] aspect = "rules" -> getTfTargets(o)

\* A reply that is an error to read: the entry stays as it was.
Readable(o) ==
    /\ aspect = "notification" => Writable(o)
    /\ aspect = "view" => ReadableView(o)

\* What is sent is what the block says, or the handler fails before it sends.
Convertible(b) == aspect = "notification" => Valid(b)

\* The plan checks a notification whose value it knows; the validation of an
\* SLO makes the payload from whatever it knows and asks the API, which takes
\* no second SLO of one name.
PlanAccepts ==
    /\ aspect = "notification" /\ known => Valid(block)
    /\ aspect = "rules" => known /\ ~(entry = None /\ lost)

----------------------------------------------------------------------------

Fresh(a) ==
    CASE a = "notification" -> OtherNotifications
      [] a = "layout" -> SUBSET SomePlaces
      [] a = "view" -> OtherFilters
      [] a = "period" -> OtherTimes
      [] a = "rules" -> OtherReplies

\* What others make of the object: another one, or its rules reordered.
OthersMake ==
    IF aspect = "rules" THEN Reordered(object)
                             \union {[object EXCEPT !.rules = <<>>]}
    ELSE Fresh(aspect)

\* What an entry is before anything has been read into it.
Blank(a) ==
    CASE a = "layout" -> NoLayout
      [] a = "view" -> [range |-> Nothing, start |-> 0, end |-> 0]
      [] a = "period" -> [range |-> 0, start |-> 0, end |-> 0]
      [] OTHER -> None

\* A block still to be applied, or a detector whose entry is of an older
\* release.
Init ==
    /\ aspect \in Aspects
    /\ block \in Blocks(aspect)
    /\ known \in (IF aspect \in {"notification", "rules"} THEN BOOLEAN
                  ELSE {TRUE})
    /\ \/ entry = None /\ object = None /\ text = None
       \/ /\ aspect = "period"
          /\ block = [range |-> DefaultRange, start |-> 0, end |-> 0]
          /\ text \in RangeTexts
          /\ entry = Blank(aspect)
          /\ object = getVisualizationTime(block)
    /\ lost = FALSE
    /\ drifted = (entry # None)
    /\ budget = MaxDisturbances

Disturb == budget > 0 /\ budget' = budget - 1

----------------------------------------------------------------------------
(* People.                                                                 *)

\* The block a user writes instead; for notifications and layouts a few.
Revisions ==
    CASE aspect = "notification" ->
             {t \in Texts : t.type = "Email" /\ Len(t.parts) = 3
                                /\ Len(t.parts[2]) # 1}
             \union {[type |-> "PagerDuty", parts |-> <<<<"a">>>>]}
      [] aspect = "layout" ->
             {l \in Layouts : Len(l.columns) + Len(l.grids) <= 1}
      [] aspect = "rules" -> {s \in Slos : Settles(s) /\ Len(s.rules) = 2}
      [] OTHER -> Blocks(aspect)

EditBlock(b) ==
    /\ text = None
    /\ b # block
    /\ block' = b
    /\ Disturb
    /\ UNCHANGED <<aspect, known, entry, object, lost, text, drifted>>

\* The block refers to something that is still to be created.
MakeUnknown ==
    /\ aspect \in {"notification", "rules"}
    /\ known
    /\ known' = FALSE
    /\ Disturb
    /\ UNCHANGED <<aspect, block, entry, object, lost, text, drifted>>

OthersEdit(o) ==
    /\ text = None
    /\ object # None
    /\ o # object
    /\ object' = o
    /\ drifted' = TRUE
    /\ Disturb
    /\ UNCHANGED <<aspect, block, known, entry, lost, text>>

\* terraform import: Read with nothing but an identifier.
Import(o) ==
    /\ entry = None
    /\ object = None
    /\ Readable(o)
    /\ object' = o
    /\ entry' = ReadInto(Blank(aspect), o)
    /\ drifted' = FALSE
    /\ Disturb
    /\ UNCHANGED <<aspect, block, known, lost, text>>

----------------------------------------------------------------------------
(* Terraform.                                                              *)

\* Before anything else, the entry of an older release is migrated.
Upgrade ==
    /\ text # None
    /\ ~FromTimeRangeToMilliseconds(text).failed
    /\ entry' = [entry EXCEPT
           !.range = Quotient(FromTimeRangeToMilliseconds(text).value, PerSecond)]
    /\ text' = None
    /\ UNCHANGED <<aspect, block, known, object, lost, drifted, budget>>

Refresh ==
    /\ text = None
    /\ entry # None
    /\ Readable(object)
    /\ entry' = ReadInto(entry, object)
    /\ drifted' = FALSE
    /\ UNCHANGED <<aspect, block, known, object, lost, text, budget>>

\* A plan that the checks accept, and something to do.
Planned == text = None /\ PlanAccepts /\ entry # block

\* What the block refers to is created first.
Applied(e, o) ==
    /\ entry' = e
    /\ object' = o
    /\ known' = TRUE
    /\ UNCHANGED <<aspect, block, text>>

\* The start of a detector's time ends the process; nothing is stored.
Dies == aspect = "period" /\ Panics(block)

Apply ==
    /\ Planned
    /\ ~Dies
    /\ Convertible(block)
    /\ \E reply \in {Payload(block)} : Applied(ReadInto(block, reply), reply)
    /\ drifted' = FALSE
    /\ UNCHANGED <<lost, budget>>

\* A value found wrong when it is known: nothing is sent, and the failed
\* update leaves the planned values in the entry.
ApplyRefused ==
    /\ Planned
    /\ ~Convertible(block)
    /\ Applied(IF entry = None THEN None ELSE block, object)
    /\ drifted' = TRUE
    /\ UNCHANGED <<lost, budget>>

\* The call fails, or its reply is lost: a create leaves no entry, an update
\* the planned one.
ApplyFails(o) ==
    /\ Planned
    /\ ~Dies
    /\ Convertible(block)
    /\ IF entry = None
       THEN Applied(None, object) /\ lost' = (lost \/ o # object)
       ELSE Applied(block, o) /\ lost' = lost
    /\ drifted' = TRUE
    /\ Disturb

Next ==
    \/ \E b \in Revisions : EditBlock(b)
    \/ MakeUnknown
    \/ object # None /\ \E o \in OthersMake : OthersEdit(o)
    \/ \E o \in Fresh(aspect) : Import(o)
    \/ Upgrade \/ Refresh \/ Apply \/ ApplyRefused
    \/ \E o \in {object, Payload(block)} : ApplyFails(o)

Spec == Init /\ [][Next]_vars

\* Terraform is run again and again, and refreshes before it plans.
Fairness == WF_vars(Upgrade) /\ WF_vars(Refresh) /\ SF_vars(Apply)

FairSpec == Spec /\ Fairness

----------------------------------------------------------------------------
(* Properties.                                                             *)

\* The block is one of its aspect; only a detector's entry that has not been
\* refreshed since waits for its migration.
TypeOK ==
    /\ aspect \in Aspects
    /\ block \in Blocks(aspect)
    /\ known \in BOOLEAN
    /\ lost \in BOOLEAN
    /\ drifted \in BOOLEAN
    /\ budget \in 0..MaxDisturbances
    /\ text # None => aspect = "period" /\ text \in RangeTexts

\* The object is what the block says, the order of recipients and rules apart.
Serves ==
    CASE aspect = "notification" -> Equivalent(object, Payload(block))
      [] aspect = "rules" -> SameRules(object, Payload(block))
      [] OTHER -> object = Payload(block)

\* Of a time, what a block can say: whole seconds, and no start of a detector.
ServesInSeconds ==
    CASE aspect = "view" -> WholeSeconds(object) = Payload(block)
      [] aspect = "period" ->
             ~Panics(block) /\ WholeSeconds(object) = Payload(block)
      [] OTHER -> Serves

\* What a read leaves in the entry as it was, or makes into something else.
\* Charts laid out in grids and columns are never read back.  A part of a
\* dashboard's time that the API does not have, or that is in the first second,
\* is none of a block's.  A detector's range in the first second reads as zero,
\* and a range says nothing of the start a block has.  A start and an end are
\* stored as milliseconds, which pass for as many seconds.  After a comma in
\* its identifier, nothing of a notification is looked at.
Unread(t) == t = Nothing \/ InFirstSecond(t)
Unseen ==
    \/ aspect = "notification" /\ ~NoCommas(object)
    \/ aspect = "layout" /\ KeepsOwnLayout(block)
    \/ /\ aspect = "view"
       /\ \/ Unread(object.start)
          \/ Unread(object.end) /\ Whole(object.start) = Payload(block).start
    \/ /\ aspect = "period"
       /\ \/ object = NoTime
          \/ object.range # Nothing /\ (InFirstSecond(object.range) \/ Panics(block))
          \/ /\ object.range = Nothing
             /\ block.start = OrZero(object.start) /\ block.end = OrZero(object.end)

(* When a refresh has seen the object and the plan of a block that can be  *)
(* converted is empty, the object is what the block says, a time to the    *)
(* second, unless it is one of the things of Unseen: nobody looks at the   *)
(* charts of a grid or a column, a time removed from a dashboard or a      *)
(* detector is not missed, and a detector's start and end, read back in    *)
(* milliseconds, pass for the same number of seconds.                      *)
QuietMeansTrue ==
    (entry = block /\ text = None /\ ~drifted /\ Convertible(block))
        => ServesInSeconds \/ Unseen

(* Charts laid out in grids, as they were sent, never overlap and never    *)
(* stick out of the dashboard, whatever widths and heights were combined.  *)
GridsFit ==
    aspect = "layout" /\ block.grids # <<>> /\ entry = block /\ ~drifted
        => WellPlaced(LaidOut[block])

(* A notification read from the API is written to the entry as a text that *)
(* means it, recipients of every list included, so that the text can be    *)
(* copied to a block: but for names that hold commas, channels with their  *)
(* sign, webhooks with both a credential and a URL or with neither, what   *)
(* is no address or URL, and templates without a name.  Of the last four   *)
(* the text is refused where it is used, of a comma it may mean another.   *)
TextMeansNotification ==
    (aspect = "notification" /\ entry # None /\ ~drifted
         /\ NoCommas(object) /\ PlainChannel(object) /\ OneWay(object)
         /\ Understood(object) /\ NamedTemplate(object))
    => Equivalent(NewNotificationFromString(entry), object)

(* The migration of a detector's entry stores the seconds its text meant,  *)
(* if their milliseconds are an int; and the framework's parser, where it  *)
(* takes the text, gives the same back in time, as its minus says, if it   *)
(* is no more than a time.Duration holds.                                  *)
MigrationKeepsMeaning ==
    [][text # None /\ text' = None =>
           /\ Meaning(text, PerSecond) <= MaxInt =>
                  entry'.range = Meaning(text, PerSecond) \div PerSecond
           /\ ~ParseDuration(text).failed
                  /\ Meaning(text, NanosPerSecond) <= MaxDuration =>
                  ParseDuration(text).value = -Meaning(text, NanosPerSecond)]_vars

\* Blocks that are never read back as they are: recipients out of order or
\* blank, parts after the last that counts; a dashboard's time of more
\* milliseconds than an int holds; alert rules out of order, fields of the
\* other window.
Unsettled ==
    \/ aspect = "notification" /\ ~Canonical(block)
    \/ aspect = "view" /\ Overflows(block)
    \/ aspect = "rules" /\ ~Settles(block)

(* A refresh of an object that serves its block shows nothing to do where  *)
(* there was nothing to do, in whatever order recipients and alert rules   *)
(* are returned.                                                           *)
ServedStaysQuiet ==
    [][entry = block /\ text = None /\ Serves /\ ~Unsettled /\ block' = block
           => entry' = entry]_vars

(* Once the disturbances stop, the plan becomes empty, or it is refused,   *)
(* or the block is one of those that never settle.  What others wrote may  *)
(* be an error to read for ever; a start of a detector's time kills the    *)
(* process; and an entry whose text cannot be migrated stays unusable.     *)
Converges ==
    <>[](\/ entry = block
         \/ Unsettled
         \/ ~PlanAccepts \/ ~Convertible(block)
         \/ entry # None /\ ~Readable(object)
         \/ Dies
         \/ text # None)
=============================================================================
