# The SignalFx Terraform provider in TLA+

`terraform-provider-signalfx` is a program that Terraform starts for a plan, a
refresh or an apply.  It serves two Terraform providers through one mux: a
*legacy* one built on Plugin SDK v2 (`signalfx/`, `internal/definition/`) and a
*framework* one (`internal/framework/`).  A practitioner writes resource
blocks; for each, Terraform calls the provider's Create, Read, Update and Delete
handlers, which call the REST API of Splunk Observability Cloud and return the
entry Terraform keeps in its state.

What can go wrong in such a program lies between the three copies of the truth:
the **block**, the **state entry** and the **object** behind the API.  A call may
be lost or repeated, the object may be changed by others between two calls, a
handler may fail half way, and Terraform draws its conclusions only from the
entry and the error a handler returns.  The modules here model that triangle.

## 1. Inventory

| Component | State | Operations | Hard behaviour | Correct when |
|---|---|---|---|---|
| Legacy provider configuration (`signalfx/provider.go`) | the client, the application URL, the token, tags and teams | `signalfxConfigure`: files, environment, block | precedence of five sources; `retryablehttp` repeats any failed call | the most specific source wins; a repeated POST loses no object |
| Framework provider configuration (`internal/framework/provider.go`) | the same | `Configure` | the same sources, read by other code | both providers reach the same configuration |
| Integrations (Slack, PagerDuty, VictorOps, Opsgenie, ServiceNow, webhook, Jira, Azure, GCP, BigPanda) | one object each | four handlers | secrets the API never returns; attributes that are copied only if not empty | entry and object agree after success |
| Charts, dashboards, detectors, data links, SLOs | one object each | four handlers; `detectorCreate` ends with `detectorRead` | the application URL is built between POST and `SetId`; times, layouts and alert rules are converted on the way | no object is created and forgotten; an empty plan means what it says |
| Teams (`internal/definition/team`) | one object | four handlers, `HandleError` | error path clears the id *and* returns the error | a deleted team is forgotten and created again |
| Email templates, muting rules (`internal/framework/alert`) | one object; a muting rule also depends on the clock | four handlers, `ErrorHandler` | a 404 is a warning, the reply is nil; a rule that has begun keeps the start the API gave it | handlers return; the rule mutes what and until when the block says |
| AWS integration (4 files) | one object *shared by two blocks* | credentials block: create, read, no delete; integration block: create = GET + PUT, delete = GET + PUT + wait + DELETE | metric streams settle slowly: polling, timeouts, partial failure | streams stop before the object goes; nothing recorded is left behind |
| Dashboard groups | the group's list of dashboards | read-modify-write of the list | other blocks of the same apply change the list | no dashboard is lost |
| Metric rulesets | rules and a version | four handlers; update = GET of the version, then PUT | optimistic locking | a change by others is not overwritten unseen |
| Organization tokens | the name *is* the id; a token holds a secret | two sets of four handlers; a preview chooses, when the provider is built | renaming; names used again by others | a write never hits a namesake; the entry describes its token |
| Automated archival settings | one per organization; id = version at creation | four handlers | stale versions | a change by others is not overwritten unseen |
| Exempt metrics of automated archival | one list for the organization; a block keeps identifiers and names | create, read, delete | every block reads the whole list | a Delete removes its own metrics only, and can name all of them |
| Provider's tags and teams, git tracking | settings of the provider, the branch checked out | merged into every write | types differ in whether they merge on update and read back | plans become empty; objects carry the labels they should |
| Provider metadata, feature previews | the sources; a concurrent map | lookups, `Register`, `Get`, `Configure` | resources are chosen by a preview before any preview is configured | exactly the previews asked for are on |
| Conversions and validators (`check`, `common`, `convert`, `visual`, the dashboard's, detector's and SLO's own) | none | pure functions, applied on every apply and refresh | boundaries, orders, units, round trips | an object that serves its block causes no plan; an empty plan means that it serves |
| Data sources, test helpers, code generation, definitions not served | none | reads | – | not modelled: input, tooling, or never registered |

Interactions.  Handlers share nothing in memory but the HTTP client; they
interact through the API.  Terraform calls handlers of independent blocks
concurrently and of dependent blocks in dependency order, one operation per
block at a time.  The two halves of the provider serve disjoint sets of types.

`PROJECT.json` lists every component with its status and, under `hazards`, each
place in the code where such a thing can go wrong.

## 2. The modules

| Module | Models | State |
|---|---|---|
| `ResourceCatalogue` | what becomes of each attribute of 27 resource types (payload builder and `APIToTF` function of each) | none |
| `ResourceLifecycle` | the handlers of those types, the retrying client, Terraform's treatment of their results | block, entry, objects, the call under way, what was lost and how |
| `ObjectCustody` | *abstract*: what the provider promises about the objects of one block | live, born, owned, pending, leaked |
| `AwsIntegration` | the two AWS blocks and their shared object | two blocks, two entries, objects, the step under way |
| `DashboardGroup` | a group's handlers, call by call, against other users of the group's list | block, entry, list, the dashboards living in the group, the step under way |
| `VersionedObject` | metric rulesets and archival settings, whose PUT names the version it replaces | block, entry, object, the step under way |
| `OrgToken` | organization tokens under both sets of handlers | process, block, entry, tokens by name, the call under way |
| `ExemptMetrics` | several blocks of exempt metrics on the organization's one list | blocks, entries, the list, each block's call under way |
| `MutingRule` | when a muting rule mutes, and what, while time passes | two clocks, block, entry, rule, the call under way |
| `DefaultLabels` | the provider's tags and teams on the objects of six kinds of block | provider's settings, block, entry, object, the call under way |
| `ProviderConfigure` | the two halves of the provider finding their configuration | the sources, the half and the step at work, two configurations, the shared registry of previews |
| `NotificationStrings` | a rule's notification as text and as the API's record, both ways | none: operators |
| `DashboardLayout` | the places of charts, columns and grids | none: operators |
| `TimeSettings` | times of dashboards and detectors, and the two parsers of ranges written as text | none: operators |
| `SloRules` | the target and alert rules of an SLO | none: operators |
| `Sorting` | choosing from a sequence and stable sorting by key, for recipients and alert rules | none: operators |
| `Conversions` | applies, refreshes, imports and acts of others over the conversions of these four | block, entry, object, a range still to be migrated |
| `MCResourceLifecycle`, `MCProviderConfigure` | selections of types and attributes, of sources, for TLC | – |
| `ResourceLifecycle_proofs`, `AwsIntegration_proofs`, `DashboardGroup_proofs`, `OrgToken_proofs`, `MutingRule_proofs`, `ProviderConfigure_proofs` | theorems about these modules, with proofs | – |
| `Archival_proofs` | the same about `ExemptMetrics` and `VersionedObject`, the two sides of automated archival | – |
| `Conversions_proofs` | the same about `Conversions` with its operator modules, and about `DefaultLabels` | – |

`ResourceLifecycle` is the frame: what it says of every type – lost replies, deleted
objects, tainted entries – the other modules do not repeat.  Each of them takes the part of
the lifecycle its question needs, and adds the state in which its type differs.

### ResourceCatalogue

For every type the module has a record: the family of handlers it belongs to,
whether its Update builds the application URL, and the attributes by what the
code does with them.  An attribute is *echoed* (sent, and copied from each reply),
*sticky* (copied only if the reply's is not empty), *write-only*, *unsent*
(copied back, never sent: the tags of a time chart), *ignored* (neither: the tags
of an event feed chart) or *panicking* (its presence makes the payload builder
panic: a detector's `start_time`).  Computed attributes and the inside of nested
blocks are left out.

### ResourceLifecycle

One block is followed through one attribute; `profile`, fixed at the start,
says which family and which kind of attribute.  A handler is two steps: the HTTP
call (`ServerAnswers`, `ReplyLost`, `RequestFails`, `RequestRefused`) and the code after it
(`RefreshReturns`, `CreateReturns`, `UpdateReturns`, `DeleteReturns`, and for
detectors `DetectorCreated` and `VerifyReturns`).  Between them the object may be
changed or deleted (`OutOfBandChange`).  A lost reply leads the client to repeat
the call until `RetryMax` (`RetryOrGiveUp`): a repeated POST makes a second
object.  `Interrupt` kills the process.

The result of each family's handler is an operator of its own (`LegacyRead`,
`ChartCreate`, `TeamRead`, `TemplateUpdate`, `MutingDelete`, ...): a record of an
identifier, a value, whether an error is returned and whether the handler panics.
What Terraform makes of the result is `CoreRead`, `CoreCreate`, `CoreUpdate`
and `CoreDelete`:

* a Read that returns an error leaves the prior entry, whatever it set in its own
  copy; without an error an empty id removes the entry;
* a Create that returns an error after setting the id leaves a *tainted* entry,
  which the next apply destroys and creates again;
* an Update of the SDK that returns an error records the *planned* values; the
  framework keeps the prior state;
* a Delete that returns an error keeps the entry.

These rules belong to Terraform and its two plugin libraries, which are not in
the repository; the map marks them external.  The same holds for the API: PUT
replaces an object, an identifier is never used twice, a call for a missing
object is answered 404.

The history variables `lost`, `unrecorded` and `abandoned` say why an object is
unknown to the state, and the flag `drifted` whether it changed behind the
handlers' back; no guard reads them.

### ObjectCustody

The abstract promise: an object is born once; it is pending, owned or leaked; no
object is created while another is owned; only a pending object is recorded; an
entry is released only when its object is gone or by leaking it.  Both
`ResourceLifecycle` and the credentials block of `AwsIntegration` implement it
(`CustodySpec`), each with its own definition of *leaked*.

### AwsIntegration

`signalfx_aws_external_integration` (or `..._token_integration`: the same code)
creates the object; `signalfx_aws_integration` takes its identifier, configures
it and deletes it.  Each step of `op` is one HTTP call and the code up to the
next:

| Operation | Steps | Code |
|---|---|---|
| create (credentials) | `post`, `record` | `IntegrationAWSCreate` |
| read (credentials) | `get` | `IntegrationAWSRead` |
| delete (credentials) | none: `DeleteCred` | `noop` |
| create | `get`, `put`, `wait` | `integrationAWSCreate` → `integrationAWSUpdate` |
| read | `get` | `integrationAWSRead` |
| update | `put`, `wait` | `integrationAWSUpdate` |
| delete | `get`, `put`, `wait`, `delete` | `DoIntegrationAWSDelete` |

`wait` is `waitForIntegrationSpecificSyncStateToSettle`, with the code's own
lists of pending and target states.  The service (external) enables streams at
once or later and cancels them later (`Settle`), or fails to (`CancellationFails`).
Every step can fail, be interrupted, or have its reply lost; the object can be
switched or deleted by others at any moment.  The plan's rules for the pair are in `Replaced`:
the identifier is `ForceNew`, so a new object behind the credentials block, a
renamed credentials block or a tainted entry means delete, then create.

The interesting consequence of sharing: a failed `put` in *create* taints the
second block's entry, the next apply destroys the object of the *first* block,
and *create* fails with 404 until the first block's entry is refreshed away and
its object created anew.  `Converges` checks that this does end well.

### DashboardGroup

The API keeps in a group the list of all its dashboards: those that live in it
and those it mirrors from other groups.  The block names the mirrors only; the
rest belong to dashboard blocks or to nobody.  So `dashboardgroupUpdate` reads
the list (`list`), asks for every listed dashboard whether it lives here
(`check`), reads the list *again* (`relist`), takes out the mirrors, adds the
block's and writes the list back (`put`); the code that turns the reply into the
entry reads and checks once more (`listBack`, `checkBack`).  Between any two steps
others add, delete and mirror dashboards or delete the group.  The GETs of
the listed dashboards are one step, with any subset of them failing: a dashboard's
group never changes, so only whether its GET fails matters.  A GET that fails makes
the dashboard count as a member; a list without mirrors leaves the recorded ones in
the entry.  An empty list is a nil slice in the request and says nothing about
the list (the client library, external).

### VersionedObject

A PUT to a metric ruleset or to the archival settings names the version it replaces, and
the API refuses it when that is not the current one.  The two types of blocks come by the
version in different ways:

| Operation | Ruleset | Settings |
|---|---|---|
| create | `post`; the reply fills the entry | `post`; of the reply only the version, as identifier |
| read | `get` by id; a 404 removes the entry | `get`, without an id; a 404 is an error, so the entry stays (`HandleError`) |
| update | `current`: GET of the version, then `put` with it | `put` with the version of the last refresh |
| delete | `delete` by id | `delete` with the identifier, read as a version |

Everything the block says besides is one value: an attribute that the ruleset's reply leaves
out (emptied rule lists, a restoration without `stop_time`) is not modelled.  The API is
external: an object is created with version 1 and every change adds one, as the acceptance
tests expect; a wrong version, or settings that exist already, are refused, as the tests'
"Failed preconditions" has it.  Settings deleted and created anew start from 1 again.  The reply to a POST is
never lost here: `ResourceLifecycle` is about that.  `basis` is a history variable: the object
from which the version at hand was read.

### ProviderConfigure

Terraform validates the block, then the mux configures the framework half and, if it
raised no error, the legacy half.  Both read the same sources with code of their own:

| Step | Framework half | Legacy half |
|---|---|---|
| `validate` | `ValidateConfig`: block or environment must name the API | – |
| `system`, `home` | `FileMetaLookupFunc`, errors skipped | `readConfigFile`, errors are final |
| `netrc` | `NetrcMetaLookupFunc`, no default entry | `readNetrcFile`, default entry taken |
| `overlay` | not-null attributes, an empty variable included | `GetOk`: non-empty values and the schema's defaults |
| `check` | `Meta.Validate` | `Meta.Validate` |
| `session`, `detect` | in this order | in the other order |
| `previews` | an unknown preview is a warning | an unknown preview is an error |
| `track` | tags from git | tags from git |

The value of a field is the *name of its source*, so that the model says nothing but which source wins.
The question for the application URL has one of four answers (`Answers`): a URL, an *empty* URL, none, or an error; the
empty one is a string like any other to the code, which stores it over whatever the other sources gave.
A preview is switched on in the registry the two halves share.  An explicit empty string in the
block, previews set to false and the numbers of the HTTP client are left out.

### OrgToken

The API knows a token by its name, so the block's name, the entry's identifier and the key of the
object are one thing, and a rename moves all three.  A token's serial number stands for its
secret, so that a namesake can be told apart.  The legacy handlers
(`resource_signalfx_org_token.go`) end every Update with `SetId(t.Name)`; those of the preview
`vnext.org-token` (`internal/definition/orgtoken`) do not, and their Create leaves the reply
unread.  Which set serves is `HandlersFor`, asked when `Provider()` builds its map of resources;
`Configure` switches the preview on later, and only a second build in the same process
(`BuildAgain`, as tests do it) sees that.  One attribute is followed: the scopes, which the
legacy handlers sort and Terraform compares in order, or the limits, of which a reply
that lacks one kind leaves the entry's.  Others create, delete, rename and change tokens; the client
repeats calls; the process may die.  The histories `own`, `lost`, `moved` and `stranded` say why a token
is unknown to the state.

### ExemptMetrics

Create posts the block's metrics and records the identifiers of the reply as one string; Read
copies the *whole* list of the organization into the entry and leaves the identifier; Delete
sends the identifiers it recorded.  There is no Update: a difference replaces the block.  Several
blocks have operations under way at once.  Two things the code leaves open are constants
of a behaviour: whether the reply to a POST repeats metrics exempt before, and whether a DELETE of
an unknown identifier is a 404.  Both are allowed, one at a time.

### MutingRule

Blocks say seconds, the API stores milliseconds.  `toRequest` sends the start that the API gave
(`effective`) once the block's start has passed by the local clock, because the API lets no active rule begin at
another time; the local clock may be behind by `MaxLag`.  Others edit the rule; time passes at any moment,
so it may begin or expire between plan, call and reply.  What the API accepts (no start in the past, no
other start of an active rule, no deletion of an expired one) is external, taken from the
handlers' own comments and the strings they look for in an error.  A PUT is taken to empty what
it leaves out.  The plan may go on after a refresh that failed.

### DefaultLabels

The provider's tags (from its block, or the branch of the checkout) and teams are added to what the
block says when an object is written.  The six kinds differ in three ways: whether the update
merges too (a detector's teams are merged by the create only), whether labels are read back (a
dashboard's and a chart's tags are not), and whether a list or a set is compared.  A time
chart sends the provider's tags and not its own: they go to a variable of an inner scope.
Others edit the object; the provider's settings and the branch change between runs.

### Conversions and its operator modules

`Conversions` follows one block through many plans, applies, refreshes, imports and acts of others,
with *one aspect* converted for real: `Payload` is what is sent and `ReadInto` what the entry becomes.

| Aspect | Operators | Code |
|---|---|---|
| notification | `NewNotificationFromString`, `NewNotificationStringFromAPI`, `Valid` | `internal/common/notification_api.go`, `internal/check/notification.go` |
| layout | `getDashboardGrids`, `getDashboardColumns`, `ReadLayout` | `resource_signalfx_dashboard.go` |
| view | `getDashboardTime`, `ReadView` | `resource_signalfx_dashboard.go` |
| period | `getVisualizationTime`, `ReadPeriod`; `FromTimeRangeToMilliseconds` for entries of an older schema, `ParseDuration` of the framework's type | `resource_signalfx_detector.go`, `internal/common`, `internal/framework/types` |
| rules | `getApiTargets`, `getTfTargets` | `resource_signalfx_slo.go` |

Each operator module ends with its reference definitions (`Equivalent`, `WellPlaced`, `Meaning`,
`Settles`: what the conversion should do, said without saying how) and the bounded inputs.  A
text is a sequence of parts, a part a sequence of pieces: commas and bars are structure, words are
values; a piece with a sign ("#") is a channel with its sign or an address that is none, as the place has it.
What others put in the place of an object need not be what any block can say: webhooks with both a credential and a URL,
or with neither, wrong addresses, names with commas, times of any number of milliseconds.  A block may hold
what a refresh would write, the milliseconds of a detector's start included.

An int is as wide as `MaxInt` says, because the provider is released for machines of 32 bits too
(`.goreleaser.yml:19-20`); what a block's seconds are multiplied to, and what the older parser of ranges adds up, wraps at that width
(`Wrapped`).  The framework's parser counts in a `time.Duration`, which has a width of its own (`MaxDuration`), and
counts a leading minus.  Division drops the remainder (`Quotient`).

Values may be unknown at plan time (`known`), when a notification is not validated and an SLO's
validation fails.

## 3. What the runs check

All configurations use model values.  *Disturbances* – faults, interruptions,
edits of the blocks, changes by others – share one budget; everything else is free.
Where a type invariant is proved (section 6) no run repeats it.

### `lifecycle_safety` (MCLifecycleSafety)

Every type of the catalogue, every kind of attribute it has; four
identifiers, one of which contains "400"; one retry; four disturbances.

* `OrphansExplained`: every object the state does not know was created by a call whose
  reply never came, by a chart or detector whose URL does not parse, or is a muting
  rule's: its Delete takes any error whose text has "400" in it for success.  Nothing else leaks.
* `StateMirrorsObject`: after success, and unless others changed the object since, the
  recorded value is the object's (up to what sticky and write-only attributes
  can know).
* `HandlersReturn`: no handler crashes the process, with two exceptions: the update of a muting rule
  or email template that is gone, and a detector whose payload cannot be built.
* `CustodySpec`: refinement of `ObjectCustody`.
* `TypeOK`.

### `lifecycle_converges` (MCLifecycleConverges)

The types and attributes without an exception below, three disturbances, fairness.

* `Converges`: once the disturbances stop, refreshing and applying bring block, entry
  and object to agree, and they stay so.

### `aws` (MCAws)

Five identifiers, four disturbances (one of which must create the blocks), fairness.

* `AdoptedNeverLeaked`: once an integration block has recorded an object, the object
  lives only as long as the entry, whichever of Delete's four steps fails.
* `StreamsStopFirst`: Delete does not destroy an enabled integration whose streams it
  has not seen to stop (unless the object changed after Delete last looked).
* `CustodySpec`: the credentials block refines `ObjectCustody`.
* `Converges`: once the disturbances stop, refreshing and applying bring both blocks and the
  shared object to agree, and they stay so.

### `group` (MCGroup)

Two mirrors, two members, five disturbances, fairness.

* `MembersKept`: an update loses no dashboard that lives in the group, except one added
  between its last read of the list and its write.  That window is real – the API has
  no version to compare – and the property says it is the only one.
* `MirrorsApplied`: otherwise undisturbed, an update leaves exactly the block's mirrors.
* `ReadFindsDrift`: a refresh that saw every dashboard records the group's mirrors, but for
  a group that has none.
* `Converges`: block, entry and group come to agree.  Two blind spots of the code are part
  of the statement: mirrors that others removed *all* are not missed by a refresh, and the
  last mirror of a group without members cannot be removed by the block.

### `versioned` (MCVersioned)

A ruleset or the settings, two values, six disturbances, fairness.

* `OverwritesOnlyTheRead`: the object a PUT replaces is the very one its version was read
  from – for the ruleset by the GET of the same update, for the settings by the last refresh, create or update.
  What the ruleset's lock does not cover is a change between the plan and that GET: it is
  overwritten.  The settings have one gap: deleted and created anew by others, they may have the
  same version again.
* `StateMirrorsObject`: after success, and unless others were at work, entry and object agree in
  value and version; only settings just created have no version in the entry yet.
* `VersionsConverge`: block, entry and object come to agree, whatever is lost, repeated or refused.
  Only settings can be stuck, and `BeyondRepair` lists how: gone while the entry stays, to be destroyed
  after any update (the DELETE names the version they were created with), or created by others.
  TLC needs every one of the three.

### `tokens` (MCTokens)

Two names, four tokens, one retry, three disturbances, fairness; the block starts new, or with what
an earlier run left.

* `WritesOnlyTheRecorded`: a PUT or a DELETE hits the token whose secret the entry holds and never
  a namesake, unless others moved the recorded token, a reply about it was lost, or the preview renamed it.
* `OwnTokensKnown`: the block loses no token it made, with the same exceptions; the legacy
  rename in particular loses none.
* `EntryMatchesToken`: after a success, nobody else at work, the entry describes the token it names.
  Only the preview's rename breaks this: its Update leaves the old name as identifier.
* `FirstBuildServesLegacy`: the only build that `main()` makes serves the legacy handlers, whatever
  the provider block asks for.
* `Converges`, with three exceptions by name: the name is held by another token (one's own, after
  a lost reply, included); the legacy handlers sort scopes that the block gives in another order; the
  preview's Read keeps the entry of a token that is gone.

### `exempt` (MCExempt)

Two blocks, two metrics, five identifiers of a metric in use, one retry, three disturbances, fairness.

* `RemovesOnlyItsOwn`: however often blocks that read each other's metrics are replaced, a Delete
  takes away only what the same block added – unless the API echoes older metrics in the reply to a POST.
* `OwnExemptionsKnown`: what a block exempted its Delete can name, unless the reply was lost;
  then nothing will ever take it back.
* `Converges`: a block alone on the list settles.  Two blocks, or a metric of somebody else's,
  mean that it is replaced at every apply, for ever; a strict API makes an entry stuck whose metrics
  others removed.

### `defaults` (MCDefaults)

Two labels, blocks of up to two, one default besides the branch, two disturbances, fairness.

* `UnreadKeepsLastWrite`: a chart or dashboard whose plan is empty carries its own tags and those the
  provider had at the *last write*; changes of the provider never reach it.
* `LabelsConverge`: plans become empty unless the provider's labels are echoed into an entry that
  the next write will merge them into again (`Echo`: tags of a detector, teams of a group, and
  a time chart's tags, which are never sent).
* `QuietMeansOwnLabels`: where labels are read back, either updates go on for ever or the object ends up
  with the block's labels alone – a default label lasts only by being fought over.

### `muting` (MCMuting)

Two milliseconds to a second, starts at 1 or 2 seconds, stops never or at 3, time up to 6, a clock
right or 2 behind, two disturbances, fairness.

* `UpdatesAccepted`: no update of an active rule is refused for its start, whenever it was planned, sent
  and answered – unless others moved the start or the local clock is behind.
* `MutesAsWritten`: when nothing is left to apply the rule mutes what the block says, until the second it
  says.  A detector filter turned into its negation, and another start of a rule to come, go unseen.
* `Converges`, with exceptions by name: an empty list of detectors is never read back as such, and a rule that is gone
  stays in the entry (`ErrorHandler` removes it from its own copy of the state).

### `conversions` (MCConversions)

Two milliseconds to a second, ints of 21 bits, dashboards two columns wide, two disturbances, fairness; every input that the
operator modules list (notifications of up to four parts and two recipients in a list, one or two grids of
up to three charts, one or two columns, all range texts of up to four signs).  The
times that others leave are 1, 3 and 2^20 milliseconds: within the first second, not a whole second, and more than an int holds.

* `QuietMeansTrue`: when a refresh has seen the object and the plan is empty, the object is what the
  block says, a time *to the second* (`WholeSeconds`: the rest of the milliseconds is dropped when it is read).  `Unseen` lists what
  passes unnoticed: charts of grids and columns are never read back; a time removed by others is not missed, and one in the first
  second reads as zero, which is not set; a detector's start and end are read as they are at the API, so a block with the
  same number means that many *seconds* and looks served; and after a comma in its identifier a notification says no more.
* `ServedStaysQuiet`: a refresh of an object that serves its block causes no plan, in whatever order
  recipients and alert rules come – for blocks that can settle: recipients and rules that the block
  gives out of order never do (`Unsettled`).
* `TextMeansNotification`: a notification read from the API is written as a text that means it, but for five things that no
  text says: names with commas (`NoCommas`), channels with their sign (`PlainChannel`), webhooks with both a credential and a URL or
  with neither (`OneWay`), a URL or an e-mail address, of whatever recipient, that is none (`Understood`), and templates without a name (`NamedTemplate`).
* `GridsFit`: charts of grids never overlap and never stick out.
* `MigrationKeepsMeaning`: a range migrated from text is the seconds the text meant, rounded down, if their milliseconds are an int.  The
  framework's parser, where it takes the text, gives as much *back in time*: a text that is migrated has a minus, which the older parser drops
  and the newer one counts (`time_range_value.go:108-110`).
* `Converges`: the plan becomes empty, or is refused, or never settles for one of the named reasons.  Among these:
  a dashboard's time of more milliseconds than an int holds is sent as another (`Overflows`); an SLO whose creation was not answered leaves a namesake for which every later plan is refused; what others wrote may be
  impossible to read (`Readable`: a relative start with another end, milliseconds beyond an int, an unknown type of notification);
  a range that cannot be migrated makes its entry unusable; a detector's start time kills the process.

### `configure` (MCConfigure)

4023 combinations of the sources: every way to give token and login, every way to give the two
URLs, every way to give tags and previews.  Fields are configured independently, token and login
excepted, so no larger product is needed.

* `SourcesRanked`: each half ends with the value of the best source of a field.  For
  token and API URL: block, environment, schema default, netrc, home file, system file – the API URL
  of a file therefore never counts.  For login, tags and teams: home file, system file,
  *then* the block.  Two misreadings are exempt, and named in `Misread`.
* `HalvesAgree`: the two halves have the same token, API URL, login and tags, these two
  misreadings apart.
* `BlankURLExplained`: links are built on no URL only when the API names an *empty* one, which wins over every other source
  (`internal/providermeta/meta.go:213`); or when no file gives one and the API names none or,
  in the framework half, could not be asked and the block gives none.  A block's URL does not help where the
  organization has none: it is stored after it was needed (`internal/providermeta/meta.go:217`).

### Where the code does not do what it seems to

`team_refresh` is a run that TLC must find violated, and `findings` quotes the line: `HandleError`
(`internal/common/error.go:33`) clears the id of a team that is gone but returns the error as well, so
Terraform keeps the entry and every refresh fails, although the comment says "This will ensure that the
state is cleaned up".

The others are exceptions that a property of a passing run names, so that the property says
they are the only ones:

| Behaviour | Named in |
|---|---|
| the 404 of an update of a muting rule or email template becomes a warning, and the handler dereferences the nil reply | `HandlersReturn` |
| a detector's payload builder asserts `int64` on an `int` (`resource_signalfx_detector.go:505`) | `HandlersReturn`, `Dies` in `Conversions` |
| `ErrorHandler` removes a muting rule or email template from its own copy of the state (`internal/framework/fwerr/handler.go:40`) | `Converges` of `MutingRule`; the types are not in `lifecycle_converges` |
| a time chart's tags are collected in a shadowed variable and never sent (`resource_signalfx_time_chart.go:483`) | `Echo`, `QuietMeansOwnLabels` |
| the tags of an event feed chart are neither sent nor read | kind `ignored` of `ResourceCatalogue`, not in `lifecycle_converges` |
| a mirror whose GET fails is taken for a member: an update that should remove it writes it back and succeeds | `MirrorsApplied` speaks of operations that were not blind |
| an organization without a URL of its own leaves the application URL blank although the block gives one | `BlankURLExplained` |
| an organization whose URL is the empty string blanks the application URL that a file, the environment or the block gives (`internal/providermeta/meta.go:213-214`, stored at `signalfx/provider.go:248-253` and `internal/framework/provider.go:241-246`) | `BlankURLExplained` |
| the AWS credentials block's Delete is a no-op; without an integration block nobody deletes the object | `abandoned`, in `CustodySpec` |
| `ValidateConfig` wants `api_url`, which the documentation calls optional | theorem `RefusalsForEveryWorld` |
| asking for the preview `vnext.org-token` changes nothing | `FirstBuildServesLegacy` |
| start and end of a detector's time are read back in milliseconds (`resource_signalfx_detector.go:693-696`) and its block's would be seconds: a block with the same number looks served | `Unseen` in `Conversions`; such a block `Dies` when it is applied |
| a webhook with both a credential and a URL, which `notification_api_test.go:238-248` writes as a text, is refused as a text (`notification_string.go:145`, `notification_string_test.go:357-361`); with neither, the same | `OneWay` in `TextMeansNotification` |
| names with commas, channels with their sign, wrong addresses and URLs, blank template names are written as texts that are refused or mean another notification | `NoCommas`, `PlainChannel`, `Understood`, `NamedTemplate` |
| times are divided by 1000 and the rest dropped (`resource_signalfx_detector.go:688`, `resource_signalfx_dashboard.go:1000,1009`), and in the first second they read as zero | `WholeSeconds`, `Unseen` in `QuietMeansTrue` |
| `val.(int) * 1000` of a dashboard's time overflows an int of 32 bits (`resource_signalfx_dashboard.go:614-617`) for every time after 25 January 1970, and milliseconds read back are not an int | `Overflows`, `Readable` in `Converges` |
| the older parser of ranges counts milliseconds in an int (`internal/common/time_range.go:45`), 32 bits of which are less than 25 days | `MaxInt` in `MigrationKeepsMeaning` |
| the two parsers of ranges disagree about the minus that both accept | `MigrationKeepsMeaning` |

## 4. Bounds, and why they are enough

* **Identifiers.**  A create consumes one; four or five leave room for the object,
  the second object of a repeated POST, and the objects created after a taint, a
  rename or a deletion by others.  In `lifecycle_safety` running out merely
  stops a path early; in the runs with liveness there are enough that no behaviour
  runs out (a run that does shows up as a violation of `Converges`).  Identifiers of exempt metrics
  are used again once nothing mentions them, so that blocks can replace each other for ever.
* **Values.**  One value and the empty value: the code distinguishes no others.  In `versioned` two,
  so that a change can be made and overwritten; births and versions are bounded by the disturbances.
* **Names.**  Two: a rename needs a second one, and a namesake one of the two.
* **`RetryMax` = 1.**  One repetition already makes two objects; more repeat the
  same step.
* **Disturbances.**  The shortest behaviour that breaks a property under one of its mutants needs one to three
  (create the block, delete its object, edit it).  The modules in which few things happen have two or three, those in which a
  fault may hit the handling of a fault four to six.
* **Time.**  Two ticks to a second are enough for a time that is not a whole second; six ticks let
  a rule begin, be changed, stop and be replaced.
* **Inputs of conversions.**  Each branch of the code is taken by an input, and each pair of aspects that meet in
  one function (two lists of recipients, two grids, two rules of one type, a number before and after a unit) by a pair.
  A grid of three charts in two columns wraps, a chart as wide as the dashboard does so at once.
  Recipients are three names in their sorting order, one of them no address: a list in order, one out of order, one with a wrong address.
* **Widths.**  `MaxInt` = 2^20 - 1 and `MaxDuration` = 2^21 - 1 are large enough for most range texts of four signs
  (two minutes are 240 milliseconds, two hours 14400) and small enough that some wrap and that a time can be too large:
  of a block `GivenSeconds` are 1 and 2^19, whose milliseconds, two a second, are one more than an int holds; of others `OtherMilliseconds` are 1, 3 and 2^20.
  `NanosPerSecond` = 4 keeps the two parsers' units apart.  The proofs assume none of these values.
* **Sources.**  See `configure`: three families of worlds, each complete in the fields it varies.
* **Deadlock** is not checked: with no block, an empty state and no disturbance left,
  nothing remains to be done and the system rightly stops.

## 5. Fairness

Weak fairness on the API's answers and on the handlers' code: the client has a
timeout (`provider.go`: `HTTPClient.Timeout`), so a call ends and the handler
returns.  In `AwsIntegration` also on the service's settling, and on
`WaitTimesOut`, the end of the wait when nothing is left to settle:
`StateChangeConf.Timeout` bounds it.  In `OrgToken` on `Configure`, which Terraform calls before any
operation; in `MutingRule` on the clock.  Strong fairness on each operation Terraform
may start: it is run again and again, and each run both refreshes and applies; strong,
because operations disable each other while one is under way.  In `ExemptMetrics` all this is
required of every block by itself.  In `Conversions`, where an operation is one step, refreshes and migrations are
weakly fair – nothing disables them but themselves – and applies strongly.  No fairness is assumed
of faults, edits or other users, and the budget makes them end.

## 6. What is proved

`ResourceLifecycle_proofs`, for *every* set of identifiers, values and resource
types and every bound, from `LifecycleAssumption` alone (the empty identifier is no
identifier, the empty value is a value, "no value" is none, and the shapes of
the sets):

| Theorem | States |
|---|---|
| `TypeCorrect` | `Spec => []TypeOK` |
| `Inductive` | `Spec => []IndInv` |
| `OrphansAccounted` | `Spec => []OrphansExplained` |
| `ImplementsCustody` | `Spec => CustodySpec`: the lifecycle refines `ObjectCustody` |
| `HandlersAlwaysReturn` | `Spec => HandlersReturn`, from the further assumption `OnlyDetectorsPanic`: no type but the detector has an attribute that makes its payload builder panic |
| `SuccessMirrors` | `Spec => []StateMirrorsObject` |
| `ForgetsNothingLive` | `Spec => ForgetsOnlyTheGone`: an entry leaves the state only when its object is gone, the muting rule's Delete excepted |

Neither `OrphansExplained` nor the refinement is inductive: a handler records the
identifier of its reply, so one must know what a reply says.  `IndInv` adds

* `AllocatedFirst` – what the entry, the operation or the reply names was handed out, so a
  new object is nobody's;
* `OperationMatchesState` – a refresh, update or delete works on the entry's object, a
  create starts from an empty state, only a detector verifies;
* `ReplySpeaksOfTarget` – an answered call speaks of the operation's object, and a 404,
  or the success of a DELETE, means it no longer exists.  It is stable because
  what is gone never comes back.

The proof is in three layers.  `*Results` and `CoreTypes` bound what each family's
handler can return.  `TypeStep` gives type correctness.  The `*Sound` lemmas, one per action, show
`Sound`: the rest of `IndInv` is preserved *and* the step is a step of
`ObjectCustody` or leaves it alone – both need the same case analysis, so it is done once.

`SuccessMirrors` rests on `MirrorInv`: until others change the object, an answer holds its value
(`ReplyCurrent`); and a handler that reports no error has stored the reply, or no object has the
identifier it leaves (`Truthful`, one lemma per handler).

`AwsIntegration_proofs`, for every set of identifiers and number of disturbances, from `AwsAssumption`:

| Theorem | States |
|---|---|
| `TypeCorrect` | `Spec => []TypeOK` |
| `Inductive` | `Spec => []IndInv` |
| `AdoptedKept` | `Spec => []AdoptedNeverLeaked` |
| `StopsStreamsFirst` | `Spec => StreamsStopFirst` |
| `SwitchesForReal` | `Spec => SwitchTakesEffect`: a create or update that switches the streams and succeeds has seen them in the configured state |
| `ImplementsCustody` | `Spec => CustodySpec` |

An operation runs over several calls, so the invariant carries what it knows from one to the next:
`StepsInOrder` (which steps an operation of a kind has), `OperationOnEntry` (it works on
the object of its own entry), `OnlyAllocated` (no entry and no step names an object nobody made) and
`StreamsSeenOff` (before the last step of a Delete the streams were seen off, or the object has changed since).

`DashboardGroup_proofs`, for every set of mirrors and members, from `GroupAssumption`
(the two sets are disjoint; "absent" and "gone" are no lists):

| Theorem | States |
|---|---|
| `TypeCorrect` | `Spec => []TypeOK` |
| `KeepsMembers` | `Spec => []MembersKept` |
| `AppliesMirrors` | `Spec => MirrorsApplied` |
| `RefreshFindsDrift` | `Spec => ReadFindsDrift` |

Here the invariant must say what an operation knows of the list from one call to
the next: `WriteKeepsMembers` (before the write, every member is in what is kept, or was
added unseen) and `PictureOfMirrors` (if nobody changed the mirrors and no GET failed, the listed,
the recognised and the kept dashboards fit the list).  Members and mirrors are different
dashboards, so members may move without spoiling the picture.  A step after which the
operation holds no picture (`Rests`) needs no more than its types: `RestingKeeps`.

`OrgToken_proofs`, for every set of names and every bound, from `OrgTokenAssumption` ("none" is nothing else):

| Theorem | States |
|---|---|
| `TypeCorrect` | `Spec => []TypeOK` |
| `Inductive` | `Spec => []IndInv` |
| `LegacyFirst` | `Spec => []FirstBuildServesLegacy` |
| `OwnTokens` | `Spec => []OwnTokensKnown` |
| `EntryDescribes` | `Spec => []EntryMatchesToken` |
| `WritesRecorded` | `Spec => WritesOnlyTheRecorded` |

Who a token is must survive renames, so the invariant is about numbers: `Numbered` (no two tokens share a number, and
none is above `born`); `OpOnEntry`; `ReplyNamesToken` and `AnswerMatches` (a reply is about the token it names until others
touch that token, and an update's or delete's about the entry's); `SecretMatches` (the token under the entry's name has the entry's secret, the
exceptions apart); `LeftBehind` (where an update or delete has been there is no token of the block's but the one written) and `DeletedIsGone`.

`Archival_proofs`, of `ExemptMetrics` for every set of blocks and of metrics and every bound, from `ExemptAssumption`:

| Theorem | States |
|---|---|
| `TypeCorrect` | `Spec => []TypeOK` |
| `Inductive` | `Spec => []IndInv` |
| `ExemptionsKnown` | `Spec => []OwnExemptionsKnown` |
| `RemovesItsOwn` | `Spec => RemovesOnlyItsOwn` |

Blocks interleave freely, so each part speaks of every pair: `PhasesInOrder`; `IdsNameMetrics` (an identifier says
which metric it exempts); `EntriesAreOwn` and `RepliesAreOwn` (unless the API echoes, no identifier in a block's entry
or in the reply to its POST is in use for somebody else's exemption); `DeletedStaysGone` (what an accepted DELETE named is off the list, so its
entry may be dropped).  That an identifier in use is never given out again is part of the same argument.

The same module, of `VersionedObject` for every set of values and every number of disturbances, from
`VersionedAssumption` ("absent" is none of the data, the families are the two):

| Theorem | States |
|---|---|
| `VersionedTypeCorrect` | `VersionedSpec => []VersionedTypeOK` |
| `VersionedMirrors` | `VersionedSpec => []StateMirrorsObject` |
| `NothingUnseenReplaced` | `VersionedSpec => OverwritesOnlyTheRead` |

The argument: one version of one object has one content and versions only grow (`VersionsTell`), so
a PUT that names the version of what was read, and is accepted, replaces what was read.  That the version sent
is the one that was read is `VersionAtHand`; that a ruleset that exists is the entry's, so that nobody
else's is found under the id, `RulesetOwned`; what an operation under way works on, `OperationFits`.

`MutingRule_proofs`, for every set of times, every length of a second, lag and number of disturbances, from `MutingAssumption`
(a second has milliseconds and fits, with the blocks' times, under `Horizon`; "none" is nothing else):

| Theorem | States |
|---|---|
| `TypeCorrect` | `Spec => []TypeOK` |
| `Inductive` | `Spec => []IndInv` |
| `MutesForEveryTime` | `Spec => []MutesAsWritten` |
| `UpdatesTaken` | `Spec => UpdatesAccepted` |

What the entry holds is what a read of the rule would leave (`EntryRead`, from `ReplyTells`).  A rule nobody moved does
not begin before its block says (`StartKept`), which a pending update may not spoil (`SentKept`).  With a right
clock (`StartKnown`) the entry's `effective` is the rule's start, and a rule that has not begun has its block's start;
so `toRequest` repeats the rule's start on either side of its `if`, and a tick between plan and call changes nothing.  The arithmetic of seconds is
in lemmas of its own (`LaterSecond`, `WholeSeconds`).

`ProviderConfigure_proofs`, for every set of worlds, from `WorldsAssumption` (they are sources
of the right form, and the unknown preview is unknown):

| Theorem | States |
|---|---|
| `TypeCorrect` | `Spec => []TypeOK` |
| `RankedForEveryWorld` | `Spec => []SourcesRanked` |
| `AgreedForEveryWorld` | `Spec => []HalvesAgree` |
| `CreditedForEveryWorld` | `Spec => []CredentialGiven` |
| `AskedForEveryWorld` | `Spec => []PreviewsAsAsked` |
| `BlankForEveryWorld` | `Spec => []BlankURLExplained` |
| `RefusalsForEveryWorld` | `Spec => []RefusalsExplained` |

`CredentialGiven`: no session without a login, no client without a credential.  `PreviewsAsAsked`: exactly the known previews
of the block are on.  `RefusalsExplained`: the provider refuses a configuration for the listed reasons only.

The sources of a run are a variable that never changes, so a theorem about every
behaviour is one about every combination of sources.  What a half holds before a step is a
function of the sources (`Began`, `AfterSystem`, ..., `AfterOverlay`); `Staged` says so,
and `LastStageRanked` shows, without time, that the last stage holds the best source of each field.
No two sources of a field share a rank (`BestIsOne`), so two halves that are both right
agree.  `LetThrough` keeps what validation, check and session have established.

`Conversions_proofs`, of `DefaultLabels` for every finite set of labels, every length of a block's and number of the
provider's, from `DefaultLabelsAssumption` (there are finitely many labels, "absent" is neither a label nor a list of them, and the bounds are numbers):

| Theorem | States |
|---|---|
| `LabelsTypeCorrect` | `DefaultsSpec => []DefaultsTypeOK` |
| `UnreadKeepsWritten` | `DefaultsSpec => []UnreadKeepsLastWrite` |

`LabelsInvariant` says besides the types what an operation under way works on (`OperationsKnown`), that what it
sends to a kind whose labels are not read back is the block's labels with the provider's of that moment (`SentFromBlock`), and
that an object of such a kind carries its entry's labels and the provider's of the last write (`EntryTellsWrite`: the entry in the
block's place, because an edit of the block must not spoil it).  The labels sent are a list made by a
fold; that it has every label once, and so is no longer than there are labels, is `LabelsTypeCorrect`.

The same module, of `Conversions` for every length of a second over one millisecond, every width of an int, of a `time.Duration` and of
a dashboard, all sets of seconds in blocks and of milliseconds at the API, and every
number of disturbances, from `PerSecondAssumption` (a second has more than one millisecond), `WidthAssumption` (widths are numbers),
`TimesAssumption` (times are natural numbers, ranges and "nothing" are none), `DashboardColumnsAssumption`, `NoneAssumption` ("nothing" is no block) and
`ConversionsAssumption` (the budget is a number).  The notifications, layouts and SLOs are those that the operator modules list:

| Theorem | States |
|---|---|
| `ConversionsTypeCorrect` | `Spec => []TypeOK` |
| `QuietIsTrue` | `Spec => []QuietMeansTrue` |
| `TextsMeanNotifications` | `Spec => []TextMeansNotification` |
| `GridsAlwaysFit` | `Spec => []GridsFit` |
| `ServedBlocksStayQuiet` | `Spec => ServedStaysQuiet` |
| `MigratedRangesMean` | `Spec => MigrationKeepsMeaning` |

`ConversionsInvariant` is what these need and the properties do not say: block, object and entry have the shape of the
aspect, though others and imports put there what no block would; an entry waits for its migration only when it is a detector's and
differs from the object; and an entry that has seen the object as it is now is what `ReadInto` makes of the object *and some
entry before it* (`ReadFrom`).  Without the last an empty plan would say nothing about the object, because block and entry
could agree by accident.

What the conversions do is proved for inputs that the runs do not reach, of any length:

| Theorem | States |
|---|---|
| `TextIsReadAsItWas` | a notification's text, read, written and read again, says the same |
| `CanonicalComesBack` | a text with its recipients sorted and its parts in their places is written back as it was |
| `SettledSloComesBack` | an SLO with its rules sorted by type comes back from a reply in any order that keeps rules of one type |
| `SloReadSaysTheSame` | what is read of an SLO says what the reply says |
| `GridsNeverOverlap` | any number of grids with any number of charts put no two in one cell and none beyond the last column |
| `RangesMeanTheSame` | on every text of a range whose `Meaning` fits the parser's integer, the older parser refuses or gives it, and the framework's refuses or gives it with the sign of its minus; of a text that does not fit nothing is said |

Induction principles cannot be cited in the prover, so these arguments take a least counterexample instead (`WFMin` of
the natural numbers): `RecursionOnIndices` and `RecursionUpTo` show that a recursive function on indices exists and
unfolds, `StepsFollowed` that a sequence of partial results is the only one; a fold is then its last result.  On top of that:

* *Sorting.*  `Grouped` is stable: `Among` picks a sequence's elements of one key in their order, and two sequences with the same
  elements of each key are sorted into the same sequence.  Recipients and rules are two uses of it.
* *Texts.*  Writer and parser are inverse up to the order the writer sorts; a list of recipients is taken apart and put
  together element by element.
* *Ranges.*  `Scan` goes from the left and carries what it has not yet given a unit; `Meaning` weighs from the right.
  Scanned so far, plus what is carried times the weight of the signs to come, never changes (`NothingLost`); no partial
  result is larger than the whole, so if that fits nothing wraps on the way (`WrappedStays`).
* *Times.*  Of a time nothing is lost in reading but the milliseconds of a second: `Quotient` undoes the multiplication of a payload that did not wrap.
* *What no text says.*  `TextsSay`: a notification of the right shape, with lists of recipients of any length, is what its own text says as soon as the
  validation takes that text, or the five exceptions are ruled out.
* *Grids.*  After each grid everything placed lies above the row at which the next begins, and within a grid left of or above the next chart.

`GridsFit` needs only `BlockFits`; `MigratedRangesMean` adds the types to the invariant.

Only model-checked: the liveness properties – `Converges` of each module, `VersionsConverge`, `LabelsConverge` and
`QuietMeansOwnLabels` – whose fairness speaks of `ENABLED`, beyond the prover.  Every invariant and every action property of the
passing runs is a theorem.

## 7. What is not modelled, and why

* Wording, logging, JSON, the palettes and units of charts: no property here is about them.
* The interior of nested blocks, but for notifications, times, layouts and SLO rules: the fate of the
  attribute as a whole is modelled.  Of a dashboard the variables, filters and overlays, of an SLO the parameters of a
  rule are copied field by field.
* The validation of a detector's program text: a question to the API whose answer is not the provider's.
* A ruleset's emptied rule lists and its restoration without `stop_time`: what the service answers
  to them is not known from the repository.
* Write-only secrets after a failed update (`resource_signalfx_victor_ops_integration.go:111`): the SDK records the planned secret and the
  plan never differs again.  `StateMirrorsObject` and `Converges` say nothing of write-only attributes, because nothing in the state
  could tell.
* A cancellation of metric streams that failed reads as "off" and is not repeated;
  no document promises otherwise.
* The detection of the application URL has no timeout of its own (`internal/providermeta/meta.go:193`): `ProviderConfigure`
  has a URL, an empty URL, an error or silence for an answer, and no call that never ends.
* Of range texts the digits that are no ASCII (`unicode.IsDigit` takes them); of a detector's start and end at the API the SDK's refusal to store
  milliseconds in an int of 32 bits; of an e-mail at the API the blank recipients and the commas in a list.
* Of an attribute's kind in `ResourceCatalogue` only `StateMirrorsObject`, `HandlersReturn` and the attributes that
  `lifecycle_converges` leaves out depend.  The attributes are still listed one by one: that the code treats each of them so is what the module says.
* Reading git metadata: the branch is an input of `DefaultLabels`.
* The `Splunk On-Call` framework resource and several `internal/definition` packages: the
  released provider registers none of them.
* Data sources, tests, code generation.

Taken from the handlers' side only, as the service is not in the repository: that `PUT` empties what it leaves
out (`MutingRule`), that Terraform may apply although a refresh failed (`MutingRule`, as with `-refresh=false`), that
the list of exempt metrics is in the order of addition.

## 8. Plan

| # | Modules | Composition and abstract specification | Status |
|---|---|---|---|
| 1 | `ResourceCatalogue`, `ResourceLifecycle`, `ObjectCustody` | lifecycle implements custody | done |
| 2 | `AwsIntegration` | credentials block implements custody | done |
| 3 | `DashboardGroup` | one group block, other users | done; the group's permissions are left |
| 4 | `VersionedObject`, `ExemptMetrics` | two families of one versioned object; blocks on one list | done; emptied rule lists are left |
| 5 | `OrgToken`, `DefaultLabels`, `MutingRule` | names as identifiers; labels of the provider; clocks | done; a refinement of `ObjectCustody` by tokens is left |
| 6 | `ProviderConfigure` | two readers of one set of sources | done |
| 7 | feature registry | resources chosen before previews are configured | done in `OrgToken` and `ProviderConfigure` |
| 8 | `Sorting`, `NotificationStrings`, `TimeSettings`, `DashboardLayout`, `SloRules`, `Conversions` | pure functions against reference definitions, over many applies and refreshes | done; dashboard variables and filters, SLO rule parameters are left |
| 9 | pagination of the data sources, program-text validation | – | left |

Recursive definitions are folds or recursive functions, never `RECURSIVE` operators, so that they can be proved about.
