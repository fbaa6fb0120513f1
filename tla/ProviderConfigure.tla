--------------------------- MODULE ProviderConfigure ---------------------------
(***************************************************************************)
(* How the two halves of the provider find their configuration.  Terraform *)
(* validates the provider block and then has both halves configure         *)
(* themselves, the framework half (internal/framework/provider.go) first,  *)
(* the legacy half (signalfx/provider.go) second.  Each reads the same     *)
(* sources with code of its own: the block, the environment, two           *)
(* configuration files and the user's netrc; then it asks the API for the  *)
(* application URL and, without a token, for a session.                    *)
(*                                                                         *)
(* The value of a field is the name of the source it came from: which      *)
(* source wins is all the properties are about.                            *)
(***************************************************************************)
EXTENDS Naturals

CONSTANTS
    Worlds,     \* what the sources may hold when the provider is started
    Unknown     \* a preview that no code has registered

Halves    == {"framework", "legacy"}

\* "login" stands for email, password and organization_id, "tags" for tags and
\* teams: the code treats the members of each alike.
Fields    == {"auth_token", "api_url", "custom_app_url", "login", "tags"}
EnvFields == {"auth_token", "api_url", "custom_app_url"}
Origins   == {"none", "block", "env", "netrc", "home", "system", "default",
              "detected"}

\* A file may be absent, hold a JSON object that sets some fields, or be
\* unreadable or no JSON.  The default entry of a netrc serves every machine.
Files  == [status : {"absent", "valid", "broken"}, sets : SUBSET Fields]
Netrcs == {"absent", "machine", "default", "broken"}

KnownPreviews == {"provider.teams", "provider.tags", "provider.track",
                  "vnext.org-token"}
Previews      == KnownPreviews \cup {Unknown}

Sources ==
    [block : SUBSET Fields, env : [EnvFields -> {"unset", "empty", "set"}],
     system : Files, home : Files, netrc : Netrcs, previews : SUBSET Previews]

ASSUME WorldsAssumption == Worlds \subseteq Sources /\ Unknown \notin KnownPreviews

Steps == {"validate", "system", "home", "netrc", "overlay", "check", "session",
          "detect", "previews", "track", "ready", "refused"}

VARIABLES
    world,    \* the sources of this run
    half,     \* the half of the provider at work
    step,     \* what it does next
    config,   \* the configuration of each half
    todo,     \* the previews of the block not yet looked at
    enabled   \* the previews switched on, in the registry both halves share

vars == <<world, half, step, config, todo, enabled>>

\* The answer to the question for the application URL: a URL, an empty one, no
\* member of that name, or a failed call.
Answers == {"url", "blank", "silent", "error"}

\* token is the client's; site and tracked record how the API and git answered.
Configurations ==
    [fields : [Fields -> Origins], token : Origins \cup {"session"},
     site : {"unasked"} \cup Answers, tracked : BOOLEAN]

\* What the sources say -----------------------------------------------------

InBlock(f) == f \in world.block
Env(f)     == world.env[f]

\* data.GetOk of the legacy half: the block, then a non-empty environment
\* variable, then the schema's default.
LegacyGet(f, default) ==
    IF InBlock(f) THEN "block" ELSE IF Env(f) = "set" THEN "env" ELSE default

\* OllyProviderModel.init of the framework half: an attribute is not null when
\* the block gives it or the variable is set, were it to the empty string.
ModelHas(f) == InBlock(f) \/ Env(f) # "unset"
ModelGet(f) ==
    IF InBlock(f) THEN "block" ELSE IF Env(f) = "set" THEN "env" ELSE "none"

\* What either half takes from the block at once, before any other source.
LegacyBegins    == [f \in Fields |->
    IF f \in {"login", "tags"} /\ InBlock(f) THEN "block" ELSE "none"]
FrameworkBegins == [f \in Fields |->
    IF f \in {"login", "tags"} /\ InBlock(f) THEN "block" ELSE "none"]

\* Decoding a file into the configuration replaces what the file sets.  The
\* framework half reports an unknown member as an error, but not before it has
\* decoded the others.
KeepEarlier(fields, file, name) ==   \* mutant: the first file to set a field wins
    [f \in Fields |-> IF f \in file.sets /\ fields[f] = "none" THEN name ELSE fields[f]]
Decoded(fields, file, name) ==
    [f \in Fields |-> IF f \in file.sets THEN name ELSE fields[f]]

\* netrc.FindMachine answers with the default entry if it has no better; the
\* framework half does not take it.
LegacyTakesNetrc    == world.netrc \in {"machine", "default"}
TakesAnyEntry       == world.netrc = "default"  \* mutant: IsDefault not negated
FrameworkTakesNetrc == world.netrc = "machine"

\* What wins over the files.
LegacyOverlay(fields) ==
    [fields EXCEPT
        !["auth_token"] = LET given == LegacyGet("auth_token", "none")
                          IN  IF given # "none" THEN given ELSE @,
        !["api_url"]    = LegacyGet("api_url", "default")]

FrameworkOverlay(fields) ==
    [f \in Fields |-> IF f \in {"auth_token", "api_url"} /\ ModelHas(f)
                      THEN ModelGet(f) ELSE fields[f]]

\* Meta.Validate.
Valid(fields) ==
    /\ fields["auth_token"] # "none" \/ fields["login"] # "none"
    /\ fields["api_url"] # "none"

\* The application URL when the API could not be asked.
NoDefault(fields)         == LegacyGet("custom_app_url", "none")  \* mutant
LegacyFallback(fields)    == LegacyGet("custom_app_url", "default")
FrameworkFallback(fields) ==
    IF InBlock("custom_app_url") THEN "block" ELSE fields["custom_app_url"]

\* Steps --------------------------------------------------------------------

Started(fields) ==
    [fields |-> fields, token |-> "none", site |-> "unasked", tracked |-> FALSE]

Init ==
    /\ world \in Worlds
    /\ half = "framework"
    /\ step = "validate"
    /\ config = [h \in Halves |->
                    Started(IF h = "legacy" THEN LegacyBegins ELSE FrameworkBegins)]
    /\ todo = {}
    /\ enabled = {}

Mine          == config[half]
Become(c)     == config' = [config EXCEPT ![half] = c]
SetFields(fs) == Become([Mine EXCEPT !.fields = fs])
Refuse        == step' = "refused" /\ UNCHANGED <<world, half, config, todo, enabled>>
Go(next)      == step' = next /\ UNCHANGED <<world, half, todo, enabled>>

\* ValidateConfig of the framework half: the block or the environment must
\* name the API; a missing token or login is only a warning.
ValidateBlock ==
    /\ step = "validate"
    /\ IF ModelHas("api_url") THEN Go("system") /\ UNCHANGED config ELSE Refuse

\* The legacy half gives up on a file it cannot read ...
LegacyReads(file, name, next) ==
    /\ half = "legacy"
    /\ \/ /\ file.status = "valid"
          /\ Go(next) /\ SetFields(Decoded(Mine.fields, file, name))
       \/ file.status = "absent" /\ Go(next) /\ UNCHANGED config
       \/ file.status = "broken" /\ Refuse

\* ... and the framework half goes on.
FrameworkReads(file, name, next) ==
    /\ half = "framework"
    /\ Go(next)
    /\ IF file.status = "valid" THEN SetFields(Decoded(Mine.fields, file, name))
                                ELSE UNCHANGED config

ReadFile(file, name, next) ==
    /\ step = name
    /\ LegacyReads(file, name, next) \/ FrameworkReads(file, name, next)

ReadSystemFile == ReadFile(world.system, "system", "home")
ReadHomeFile   == ReadFile(world.home, "home", "netrc")

TakeNetrc(takes) ==
    Go("overlay") /\ SetFields([Mine.fields EXCEPT !["auth_token"] =
                                   IF takes THEN "netrc" ELSE @])

LegacyReadsNetrc ==
    /\ step = "netrc" /\ half = "legacy"
    /\ IF world.netrc = "broken" THEN Refuse ELSE TakeNetrc(LegacyTakesNetrc)

FrameworkReadsNetrc ==
    step = "netrc" /\ half = "framework" /\ TakeNetrc(FrameworkTakesNetrc)

Overlay ==
    /\ step = "overlay"
    /\ Go("check")
    /\ SetFields(IF half = "legacy" THEN LegacyOverlay(Mine.fields)
                                    ELSE FrameworkOverlay(Mine.fields))

\* The framework half opens its session before it asks for the URL, the legacy
\* half after.
Check ==
    /\ step = "check"
    /\ IF ~Valid(Mine.fields) THEN Refuse
       ELSE Go(IF half = "legacy" THEN "detect" ELSE "session") /\ UNCHANGED config

LookAtPreviews ==
    /\ step' = "previews"
    /\ todo' = world.previews
    /\ UNCHANGED <<world, half, enabled>>

\* Meta.LoadSessionToken: the token, or a session that the API may refuse.
Authenticated(t) ==
    /\ Become([Mine EXCEPT !.token = t])
    /\ IF half = "legacy" THEN LookAtPreviews ELSE Go("detect")

OpenSession ==
    /\ step = "session"
    /\ IF Mine.fields["auth_token"] # "none" THEN Authenticated(Mine.fields["auth_token"])
       ELSE Authenticated("session") \/ Refuse

\* Meta.DetectCustomAPPURL, which sends the configured token, never the session's:
\* the API names the organization's URL, which may be the empty text and is taken
\* all the same, names none (the configuration's is kept), or the call fails (and
\* the block is looked at).
Located(answer) ==
    LET fallback == IF half = "legacy" THEN LegacyFallback(Mine.fields)
                                       ELSE FrameworkFallback(Mine.fields)
    IN  [url |-> "detected", blank |-> "none", silent |-> Mine.fields["custom_app_url"],
         error |-> fallback][answer]

DetectSite ==
    /\ step = "detect"
    /\ \E answer \in Answers :
        /\ answer = "error" \/ Mine.fields["auth_token"] # "none"
        /\ Become([Mine EXCEPT !.site = answer,
                               !.fields["custom_app_url"] = Located(answer)])
    /\ IF half = "legacy" THEN Go("session") ELSE LookAtPreviews

\* Registry.Configure for one preview of the block; a Go map has no order.
EnablePreview(p) ==
    /\ p \in KnownPreviews
    /\ enabled' = enabled \cup {p}
    /\ todo' = todo \ {p}
    /\ UNCHANGED <<world, half, step, config>>

LegacyUnknown(p) == half = "legacy" /\ p \notin KnownPreviews /\ Refuse

FrameworkUnknown(p) ==
    /\ half = "framework" /\ p \notin KnownPreviews
    /\ todo' = todo \ {p}
    /\ UNCHANGED <<world, half, step, config, enabled>>

ConfigurePreview ==
    /\ step = "previews"
    /\ \E p \in todo : EnablePreview(p) \/ LegacyUnknown(p) \/ FrameworkUnknown(p)

PreviewsDone ==
    /\ step = "previews" /\ todo = {}
    /\ Go("track") /\ UNCHANGED config

\* With the preview on, the tags git gives are added, if git gives any.
Tracked(found) == Become([Mine EXCEPT !.tracked = found /\ "provider.track" \in enabled])

FrameworkTracks ==
    /\ step = "track" /\ half = "framework"
    /\ \E found \in BOOLEAN : Tracked(found)
    /\ half' = "legacy" /\ step' = "system"
    /\ UNCHANGED <<world, todo, enabled>>

LegacyTracks ==
    /\ step = "track" /\ half = "legacy"
    /\ \E found \in BOOLEAN : Tracked(found)
    /\ Go("ready")

Next == \/ ValidateBlock \/ ReadSystemFile \/ ReadHomeFile
        \/ LegacyReadsNetrc \/ FrameworkReadsNetrc \/ Overlay \/ Check
        \/ OpenSession \/ DetectSite \/ ConfigurePreview \/ PreviewsDone
        \/ FrameworkTracks \/ LegacyTracks

Spec == Init /\ [][Next]_vars

-----------------------------------------------------------------------------
Configured(h) == step = "ready" \/ (h = "framework" /\ half = "legacy")

\* Every variable has its type.
TypeOK ==
    /\ world \in Sources /\ half \in Halves /\ step \in Steps
    /\ config \in [Halves -> Configurations]
    /\ todo \subseteq Previews /\ enabled \subseteq KnownPreviews

\* The sources of a field, best first.  The token and the API URL of the block
\* come last and win; the schema's default of the URL is never empty and hides
\* the files.  Login, tags and teams of the block come first and lose.
Rank(f) ==
    IF f \in {"login", "tags"} THEN [home |-> 1, system |-> 2, block |-> 3]
    ELSE [block |-> 1, env |-> 2, default |-> 3, netrc |-> 4, home |-> 5, system |-> 6]

Supplies(origin, f) ==
    \/ origin = "block"   /\ InBlock(f)
    \/ origin = "env"     /\ f \in EnvFields /\ Env(f) = "set"
    \/ origin = "default" /\ f = "api_url"
    \/ origin = "netrc"   /\ f = "auth_token" /\ world.netrc = "machine"
    \/ origin = "home"    /\ world.home.status = "valid" /\ f \in world.home.sets
    \/ origin = "system"  /\ world.system.status = "valid" /\ f \in world.system.sets

IsBest(origin, f) ==
    IF \E o \in DOMAIN Rank(f) : Supplies(o, f)
    THEN /\ origin \in DOMAIN Rank(f) /\ Supplies(origin, f)
         /\ \A o \in DOMAIN Rank(f) : Supplies(o, f) => Rank(f)[origin] <= Rank(f)[o]
    ELSE origin = "none"

\* Where one half departs from the ranking: the legacy half takes the default
\* entry of a netrc for the API's, the framework half takes an empty variable
\* for a token.
Misread(h, f) ==
    /\ f = "auth_token" /\ ~InBlock(f)
    /\ \/ h = "legacy" /\ Env(f) # "set" /\ world.netrc = "default"
       \/ h = "framework" /\ Env(f) = "empty"

Compared == {"auth_token", "api_url", "login", "tags"}

\* Whatever the sources hold, each half ends with the value of the best source
\* of each field (signalfx/provider.go:205-242, internal/framework/provider.go:155-189),
\* the two misreadings apart.
SourcesRanked ==
    \A h \in Halves, f \in Compared :
        Configured(h) /\ ~Misread(h, f) => IsBest(config[h].fields[f], f)

\* The two halves of one provider, which serve different resources of one
\* configuration, talk to the same API as the same user and add the same tags.
HalvesAgree ==
    step = "ready" =>
        \A f \in Compared :
            \/ config["framework"].fields[f] = config["legacy"].fields[f]
            \/ \E h \in Halves : Misread(h, f)

\* A half that is configured has an API to talk to and a credential that some
\* source gave: no session is opened without a login.
CredentialGiven ==
    \A h \in Halves : Configured(h) =>
        /\ config[h].fields["api_url"] # "none"
        /\ config[h].token # "none"
        /\ config[h].token = "session" => config[h].fields["login"] # "none"

\* The provider refuses its configuration only for want of an API URL in block and
\* environment or of a token, or (legacy half) for an unreadable file or an
\* unknown preview.
RefusalsExplained ==
    step = "refused" =>
        \/ half = "framework" /\ ~InBlock("api_url") /\ Env("api_url") # "set"
        \/ config[half].fields["auth_token"] = "none"
        \/ /\ half = "legacy"
           /\ \/ "broken" \in {world.system.status, world.home.status, world.netrc}
              \/ Unknown \in world.previews

\* The resources' links are built on no URL at all only when the API named an
\* empty one, which wins over whatever block, environment and files give; or when
\* no file gave one and the API named none or, in the framework half, could not be
\* asked while the block was silent too.
BlankURLExplained ==
    \A h \in Halves :
        Configured(h) /\ config[h].fields["custom_app_url"] = "none" =>
            \/ config[h].site = "blank"
            \/ /\ ~Supplies("home", "custom_app_url") /\ ~Supplies("system", "custom_app_url")
               /\ \/ config[h].site = "silent"
                  \/ h = "framework" /\ config[h].site = "error" /\ ~InBlock("custom_app_url")

\* The registry both halves share ends with exactly the previews of the block on,
\* in whatever order they are looked at; tags of git are added only if asked for.
PreviewsAsAsked ==
    \A h \in Halves : Configured(h) =>
        /\ enabled = world.previews \ {Unknown}
        /\ config[h].tracked => "provider.track" \in world.previews
=============================================================================
