----------------------- MODULE ProviderConfigure_proofs -----------------------
(***************************************************************************)
(* For whatever the sources hold: each half of the provider ends with the  *)
(* value of the best source of each field, the halves agree, and nobody is *)
(* configured without an API and a credential.                             *)
(*                                                                         *)
(* The argument: what a half holds before a step is a function of the      *)
(* sources alone, given by the stages below; the last stage is ranked, and *)
(* the steps after it change no field but the application URL.             *)
(***************************************************************************)
EXTENDS ProviderConfigure, TLAPS

LEMMA HalvesAreTwo == \A h \in Halves : h = "framework" \/ h = "legacy"
    BY DEF Halves

\* The stages of a half's fields: the block's, then each source read over it.
Began == [f \in Fields |->
    IF f \in {"login", "tags"} /\ InBlock(f) THEN "block" ELSE "none"]
Over(fields, file, name) ==
    IF file.status = "valid" THEN Decoded(fields, file, name) ELSE fields
AfterSystem == Over(Began, world.system, "system")
AfterHome   == Over(AfterSystem, world.home, "home")
Takes(h)    == IF h = "legacy" THEN LegacyTakesNetrc ELSE FrameworkTakesNetrc
AfterNetrc(h)   == [AfterHome EXCEPT !["auth_token"] = IF Takes(h) THEN "netrc" ELSE @]
AfterOverlay(h) ==
    IF h = "legacy" THEN LegacyOverlay(AfterNetrc(h)) ELSE FrameworkOverlay(AfterNetrc(h))

\* Where half h stands: the one at work at the step, the other at an end.
Stands(h) == IF h = half THEN step ELSE IF h = "framework" THEN "done" ELSE "waits"
Late == {"check", "session", "detect", "previews", "track", "ready", "done"}

Staged ==
    \A h \in Halves :
        /\ Stands(h) \in {"waits", "validate", "system"} => config[h].fields = Began
        /\ Stands(h) = "home"    => config[h].fields = AfterSystem
        /\ Stands(h) = "netrc"   => config[h].fields = AfterHome
        /\ Stands(h) = "overlay" => config[h].fields = AfterNetrc(h)
        /\ Stands(h) \in Late    =>
               \A f \in Compared : config[h].fields[f] = AfterOverlay(h)[f]

\* What the steps before have let through.
LetThrough ==
    /\ (step = "ready" => half = "legacy") /\ (step = "validate" => half = "framework")
    /\ Stands("framework") \notin {"validate", "refused"} => ModelHas("api_url")
    /\ \A h \in Halves :
        /\ Stands(h) \in Late \ {"check"} => Valid(config[h].fields)
        /\ Stands(h) \in {"previews", "track", "ready", "done"} \cup
                         (IF h = "legacy" THEN {} ELSE {"detect"}) =>
               /\ config[h].token # "none"
               /\ config[h].token = "session" => config[h].fields["login"] # "none"

IInv == TypeOK /\ Staged /\ LetThrough

-----------------------------------------------------------------------------
\* The stages are configurations' fields.
LEMMA StagesTyped ==
    ASSUME world \in Sources
    PROVE  /\ Began \in [Fields -> Origins] /\ AfterSystem \in [Fields -> Origins]
           /\ AfterHome \in [Fields -> Origins]
           /\ \A h \in Halves : /\ AfterNetrc(h) \in [Fields -> Origins]
                                /\ AfterOverlay(h) \in [Fields -> Origins]
<1>1. Began \in [Fields -> Origins]
    BY DEF Began, Origins
<1>2. AfterSystem \in [Fields -> Origins]
    BY <1>1 DEF AfterSystem, Over, Decoded, Origins
<1>3. AfterHome \in [Fields -> Origins]
    BY <1>2 DEF AfterHome, Over, Decoded, Origins
<1>4. ASSUME NEW h \in Halves
      PROVE  AfterNetrc(h) \in [Fields -> Origins]
    BY <1>3 DEF AfterNetrc, Origins, Fields
<1>5. ASSUME NEW h \in Halves
      PROVE  AfterOverlay(h) \in [Fields -> Origins]
    <2>1. CASE h = "legacy"
        BY <1>4, <2>1 DEF AfterOverlay, LegacyOverlay, LegacyGet, Origins, Fields
    <2>2. CASE h # "legacy"
        BY <1>4, <2>2 DEF AfterOverlay, FrameworkOverlay, ModelGet, Origins, Fields
    <2>3. QED BY <2>1, <2>2
<1>6. QED BY <1>1, <1>2, <1>3, <1>4, <1>5

\* What the files and the netrc leave of a field.
LEMMA NetrcStage ==
    ASSUME world \in Sources, NEW h \in Halves, NEW f \in Fields
    PROVE  AfterNetrc(h)[f] =
               IF f = "auth_token" /\ Takes(h) THEN "netrc"
               ELSE IF Supplies("home", f) THEN "home"
               ELSE IF Supplies("system", f) THEN "system"
               ELSE IF f \in {"login", "tags"} /\ InBlock(f) THEN "block" ELSE "none"
<1>1. Began[f] = IF f \in {"login", "tags"} /\ InBlock(f) THEN "block" ELSE "none"
    BY DEF Began
<1>2. AfterSystem[f] = IF Supplies("system", f) THEN "system" ELSE Began[f]
    BY DEF AfterSystem, Over, Decoded, Supplies
<1>3. AfterHome[f] = IF Supplies("home", f) THEN "home" ELSE AfterSystem[f]
    BY DEF AfterHome, Over, Decoded, Supplies
<1>4. AfterNetrc(h)[f] = IF f = "auth_token" /\ Takes(h) THEN "netrc" ELSE AfterHome[f]
    BY StagesTyped DEF AfterNetrc
<1>5. QED BY <1>1, <1>2, <1>3, <1>4

\* The best source, spelled out: the first of the list that supplies the field.
LEMMA BestOfLate ==
    ASSUME NEW f \in {"login", "tags"}, NEW o,
           o = IF Supplies("home", f) THEN "home"
               ELSE IF Supplies("system", f) THEN "system"
               ELSE IF Supplies("block", f) THEN "block" ELSE "none"
    PROVE  IsBest(o, f)
<1>1. Rank(f) = [home |-> 1, system |-> 2, block |-> 3]
    BY DEF Rank
<1>2. DOMAIN Rank(f) = {"home", "system", "block"}
    BY <1>1
<1>3. /\ Rank(f)["home"] = 1 /\ Rank(f)["system"] = 2 /\ Rank(f)["block"] = 3
    BY <1>1
<1>4. QED BY <1>2, <1>3 DEF IsBest

LEMMA BestOfEarly ==
    ASSUME NEW f \in Fields \ {"login", "tags"}, NEW o,
           o = IF Supplies("block", f) THEN "block"
               ELSE IF Supplies("env", f) THEN "env"
               ELSE IF Supplies("default", f) THEN "default"
               ELSE IF Supplies("netrc", f) THEN "netrc"
               ELSE IF Supplies("home", f) THEN "home"
               ELSE IF Supplies("system", f) THEN "system" ELSE "none"
    PROVE  IsBest(o, f)
<1>1. Rank(f) = [block |-> 1, env |-> 2, default |-> 3, netrc |-> 4, home |-> 5, system |-> 6]
    BY DEF Rank
<1>2. DOMAIN Rank(f) = {"block", "env", "default", "netrc", "home", "system"}
    BY <1>1
<1>3. /\ Rank(f)["block"] = 1 /\ Rank(f)["env"] = 2 /\ Rank(f)["default"] = 3
      /\ Rank(f)["netrc"] = 4 /\ Rank(f)["home"] = 5 /\ Rank(f)["system"] = 6
    BY <1>1
<1>4. QED BY <1>2, <1>3 DEF IsBest

\* The last stage is ranked: of each compared field it holds the best source,
\* the two misreadings apart; the framework half, once validation has found
\* the API's URL in block or environment and the check has found it not empty.
LEMMA LastStageRanked ==
    ASSUME world \in Sources, NEW h \in Halves, NEW f \in Compared, ~Misread(h, f),
           h = "framework" => /\ ModelHas("api_url")
                              /\ AfterOverlay(h)["api_url"] # "none"
    PROVE  IsBest(AfterOverlay(h)[f], f)
<1> f \in Fields
    BY DEF Compared, Fields
<1>1. CASE f \in {"login", "tags"}
    <2>1. AfterOverlay(h)[f] = AfterNetrc(h)[f]
        BY <1>1, StagesTyped DEF AfterOverlay, LegacyOverlay, FrameworkOverlay
    <2>2. Supplies("block", f) <=> InBlock(f)
        BY DEF Supplies
    <2>3. QED BY <1>1, <2>1, <2>2, NetrcStage, BestOfLate
<1>2. CASE f = "api_url"
    <2>1. CASE h = "legacy"
        <3>1. AfterOverlay(h)[f] = LegacyGet("api_url", "default")
            BY <1>2, <2>1, StagesTyped DEF AfterOverlay, LegacyOverlay
        <3>2. QED BY <1>2, <3>1, BestOfEarly DEF LegacyGet, Supplies, EnvFields
    <2>2. CASE h = "framework"
        <3>1. AfterOverlay(h)[f] = ModelGet("api_url")
            BY <1>2, <2>2 DEF AfterOverlay, FrameworkOverlay
        <3>2. ModelGet("api_url") # "none"
            BY <1>2, <2>2, <3>1
        <3>3. QED BY <1>2, <3>1, <3>2, BestOfEarly DEF ModelGet, Supplies, EnvFields
    <2>3. QED BY <2>1, <2>2, HalvesAreTwo
<1>3. CASE f = "auth_token"
    <2>1. Env("auth_token") \in {"unset", "empty", "set"}
        BY DEF Sources, EnvFields, Env
    <2>2. CASE h = "legacy"
        <3>1. AfterOverlay(h)[f] = IF LegacyGet("auth_token", "none") # "none"
                                   THEN LegacyGet("auth_token", "none")
                                   ELSE AfterNetrc(h)[f]
            BY <1>3, <2>2, StagesTyped DEF AfterOverlay, LegacyOverlay
        <3>2. ~InBlock(f) /\ Env(f) # "set" => world.netrc # "default"
            BY <1>3, <2>2 DEF Misread
        <3>3. QED BY <1>3, <2>2, <3>1, <3>2, NetrcStage, BestOfEarly
                  DEF LegacyGet, Supplies, EnvFields, Takes, LegacyTakesNetrc
    <2>3. CASE h = "framework"
        <3>1. AfterOverlay(h)[f] = IF ModelHas(f) THEN ModelGet(f) ELSE AfterNetrc(h)[f]
            BY <1>3, <2>3 DEF AfterOverlay, FrameworkOverlay
        <3>2. ~InBlock(f) => Env(f) # "empty"
            BY <1>3, <2>3 DEF Misread
        <3>3. QED BY <1>3, <2>1, <2>3, <3>1, <3>2, NetrcStage, BestOfEarly
                  DEF ModelHas, ModelGet, Supplies, EnvFields, Takes, FrameworkTakesNetrc
    <2>4. QED BY <2>2, <2>3, HalvesAreTwo
<1>4. QED BY <1>1, <1>2, <1>3 DEF Compared

-----------------------------------------------------------------------------
\* No step leaves the types.
LEMMA TypeInit == Init => TypeOK
BY WorldsAssumption DEF Init, TypeOK, Sources, Halves, Steps, Configurations, Started,
   LegacyBegins, FrameworkBegins, Origins, KnownPreviews

LEMMA LocatedTyped ==
    ASSUME TypeOK, NEW answer \in Answers
    PROVE  Located(answer) \in Origins
BY DEF TypeOK, Answers, Located, LegacyFallback, FrameworkFallback, LegacyGet, Mine, Origins,
   Configurations, Fields

LEMMA TypeStep == TypeOK /\ [Next]_vars => TypeOK'
<1> SUFFICES ASSUME TypeOK, [Next]_vars PROVE TypeOK'
    OBVIOUS
<1> USE DEF TypeOK
<1>1. Mine \in Configurations
    BY DEF Mine
<1>2. ASSUME NEW c \in Configurations, Become(c)
      PROVE  config' \in [Halves -> Configurations]
    BY <1>2 DEF Become
<1>3. ASSUME NEW fs \in [Fields -> Origins], SetFields(fs)
      PROVE  config' \in [Halves -> Configurations]
    BY <1>1, <1>2, <1>3 DEF SetFields, Configurations
<1>4. ASSUME NEW file \in Files, NEW name \in {"system", "home"},
             NEW next \in {"home", "netrc"}, ReadFile(file, name, next)
      PROVE  TypeOK'
    <2>1. Decoded(Mine.fields, file, name) \in [Fields -> Origins]
        BY <1>1 DEF Configurations, Decoded, Origins
    <2>2. config' \in [Halves -> Configurations]
        BY <1>3, <1>4, <2>1 DEF ReadFile, LegacyReads, FrameworkReads, Refuse
    <2>3. QED BY <1>4, <2>2 DEF ReadFile, LegacyReads, FrameworkReads, Refuse, Go, Steps
<1>5. CASE ValidateBlock
    BY <1>5 DEF ValidateBlock, Go, Refuse, Steps
<1>6. CASE ReadSystemFile
    BY <1>4, <1>6 DEF ReadSystemFile, Sources
<1>7. CASE ReadHomeFile
    BY <1>4, <1>7 DEF ReadHomeFile, Sources
<1>8. ASSUME NEW takes \in BOOLEAN, TakeNetrc(takes)
      PROVE  TypeOK'
    <2>1. [Mine.fields EXCEPT !["auth_token"] = IF takes THEN "netrc" ELSE @]
              \in [Fields -> Origins]
        BY <1>1 DEF Configurations, Origins
    <2>2. QED BY <1>3, <1>8, <2>1 DEF TakeNetrc, Go, Steps
<1>9. CASE LegacyReadsNetrc
    <2>1. LegacyTakesNetrc \in BOOLEAN
        BY DEF LegacyTakesNetrc
    <2>2. CASE TakeNetrc(LegacyTakesNetrc)
        BY <1>8, <2>1, <2>2
    <2>3. CASE Refuse
        BY <2>3 DEF Refuse, Steps
    <2>4. QED BY <1>9, <2>2, <2>3 DEF LegacyReadsNetrc
<1>10. CASE FrameworkReadsNetrc
    <2>1. FrameworkTakesNetrc \in BOOLEAN
        BY DEF FrameworkTakesNetrc
    <2>2. QED BY <1>8, <1>10, <2>1 DEF FrameworkReadsNetrc
<1>11. CASE Overlay
    <2>1. LegacyOverlay(Mine.fields) \in [Fields -> Origins]
        BY <1>1 DEF Configurations, LegacyOverlay, LegacyGet, Origins
    <2>2. FrameworkOverlay(Mine.fields) \in [Fields -> Origins]
        BY <1>1 DEF Configurations, FrameworkOverlay, ModelGet, Origins
    <2>3. QED BY <1>3, <1>11, <2>1, <2>2 DEF Overlay, Go, Steps
<1>12. CASE Check
    BY <1>12 DEF Check, Go, Refuse, Steps
<1>13. ASSUME NEW t \in Origins \cup {"session"}, Authenticated(t)
       PROVE  TypeOK'
    <2>1. [Mine EXCEPT !.token = t] \in Configurations
        BY <1>1 DEF Configurations
    <2>2. QED BY <1>2, <1>13, <2>1
              DEF Authenticated, LookAtPreviews, Go, Steps, Sources
<1>14. CASE OpenSession
    <2>1. Mine.fields["auth_token"] \in Origins
        BY <1>1 DEF Configurations, Fields
    <2>2. QED BY <1>13, <1>14, <2>1 DEF OpenSession, Refuse, Steps
<1>15. CASE DetectSite
    <2>1. PICK answer \in Answers :
              Become([Mine EXCEPT !.site = answer,
                                  !.fields["custom_app_url"] = Located(answer)])
        BY <1>15 DEF DetectSite
    <2>2. Located(answer) \in Origins
        BY LocatedTyped
    <2>3. [Mine EXCEPT !.site = answer, !.fields["custom_app_url"] = Located(answer)]
              \in Configurations
        BY <1>1, <2>2 DEF Configurations
    <2>4. QED BY <1>2, <1>15, <2>1, <2>3 DEF DetectSite, LookAtPreviews, Go, Steps, Sources
<1>16. CASE ConfigurePreview
    BY <1>16 DEF ConfigurePreview, EnablePreview, LegacyUnknown, FrameworkUnknown,
                 Refuse, Steps
<1>17. CASE PreviewsDone
    BY <1>17 DEF PreviewsDone, Go, Steps
<1>18. ASSUME NEW found \in BOOLEAN, Tracked(found)
       PROVE  config' \in [Halves -> Configurations]
    <2>1. [Mine EXCEPT !.tracked = found /\ "provider.track" \in enabled] \in Configurations
        BY <1>1 DEF Configurations
    <2>2. QED BY <1>2, <1>18, <2>1 DEF Tracked
<1>19. CASE FrameworkTracks
    BY <1>18, <1>19 DEF FrameworkTracks, Halves, Steps
<1>20. CASE LegacyTracks
    BY <1>18, <1>20 DEF LegacyTracks, Go, Steps
<1>21. CASE UNCHANGED vars
    BY <1>21 DEF vars
<1>22. QED BY <1>5, <1>6, <1>7, <1>9, <1>10, <1>11, <1>12, <1>14, <1>15, <1>16, <1>17,
              <1>19, <1>20, <1>21 DEF Next

\* Whatever the sources hold, every variable keeps its type.
THEOREM TypeCorrect == Spec => []TypeOK
BY TypeInit, TypeStep, PTL DEF Spec

-----------------------------------------------------------------------------
\* The sources do not change, nor do the stages.
LEMMA WorldStays ==
    ASSUME [Next]_vars
    PROVE  world' = world
BY DEF Next, vars, ValidateBlock, ReadSystemFile, ReadHomeFile, ReadFile, LegacyReads,
   FrameworkReads, LegacyReadsNetrc, FrameworkReadsNetrc, TakeNetrc, Overlay, Check,
   OpenSession, Authenticated, LookAtPreviews, DetectSite, ConfigurePreview, EnablePreview,
   LegacyUnknown, FrameworkUnknown, PreviewsDone, FrameworkTracks, LegacyTracks, Go, Refuse

LEMMA StagesStay ==
    ASSUME world' = world
    PROVE  /\ Began' = Began /\ AfterSystem' = AfterSystem /\ AfterHome' = AfterHome
           /\ \A h \in Halves : AfterNetrc(h)' = AfterNetrc(h)
           /\ \A h \in Halves : AfterOverlay(h)' = AfterOverlay(h)
           /\ ModelHas("api_url")' = ModelHas("api_url")
<1> USE DEF InBlock, Env
<1>1. Began' = Began
    BY DEF Began
<1>2. AfterSystem' = AfterSystem
    BY <1>1 DEF AfterSystem, Over
<1>3. AfterHome' = AfterHome
    BY <1>2 DEF AfterHome, Over
<1>4. \A h \in Halves : AfterNetrc(h)' = AfterNetrc(h)
    BY <1>3 DEF AfterNetrc, Takes, LegacyTakesNetrc, FrameworkTakesNetrc
<1>5. \A h \in Halves : AfterOverlay(h)' = AfterOverlay(h)
    BY <1>4 DEF AfterOverlay, LegacyOverlay, LegacyGet, FrameworkOverlay, ModelHas, ModelGet
<1>6. ModelHas("api_url")' = ModelHas("api_url")
    BY DEF ModelHas
<1>7. QED BY <1>1, <1>2, <1>3, <1>4, <1>5, <1>6

\* A half's fields after a step that sets them, or that sets one of them.
LEMMA FieldsSet ==
    ASSUME TypeOK, NEW fs \in [Fields -> Origins], SetFields(fs)
    PROVE  /\ config'[half].fields = fs
           /\ \A h \in Halves \ {half} : config'[h] = config[h]
BY DEF SetFields, Become, Mine, TypeOK, Configurations

LEMMA StagedInit == Init => IInv
<1> SUFFICES ASSUME Init PROVE Staged /\ LetThrough
    BY TypeInit DEF IInv
<1>1. \A h \in Halves : config[h].fields = Began
    BY DEF Init, Started, LegacyBegins, FrameworkBegins, Began
<1>2. QED BY <1>1 DEF Init, Staged, LetThrough, Stands, Late, Halves

\* What a half holds at a step is the stage the step has come to.
LEMMA StagedStep == IInv /\ [Next]_vars => Staged'
<1> SUFFICES ASSUME IInv, [Next]_vars PROVE Staged'
    OBVIOUS
<1> USE DEF IInv
<1>1. world' = world
    BY WorldStays
<1>2. /\ Began' = Began /\ AfterSystem' = AfterSystem /\ AfterHome' = AfterHome
      /\ \A h \in Halves : AfterNetrc(h)' = AfterNetrc(h) /\ AfterOverlay(h)' = AfterOverlay(h)
    BY <1>1, StagesStay
<1>3. world \in Sources /\ half \in Halves /\ step \in Steps
    BY DEF TypeOK
<1>4. ASSUME NEW s \in Steps, Go(s), NEW fs \in [Fields -> Origins], SetFields(fs),
             /\ s = "home"    => fs = AfterSystem
             /\ s = "netrc"   => fs = AfterHome
             /\ s = "overlay" => fs = AfterNetrc(half)
             /\ s = "check"   => fs = AfterOverlay(half),
             s \in {"home", "netrc", "overlay", "check"}
      PROVE  Staged'
    BY <1>2, <1>3, <1>4, FieldsSet DEF Staged, Stands, Late, Go, Halves
<1>5. ASSUME NEW file \in Files, NEW name \in {"system", "home"},
             NEW next \in {"home", "netrc"}, ReadFile(file, name, next),
             \/ name = "system" /\ next = "home" /\ file = world.system
             \/ name = "home" /\ next = "netrc" /\ file = world.home
      PROVE  Staged'
    <2>1. Mine.fields = IF name = "system" THEN Began ELSE AfterSystem
        BY <1>3, <1>5 DEF ReadFile, Mine, Staged, Stands
    <2>2. Over(Mine.fields, file, name) = IF next = "home" THEN AfterSystem ELSE AfterHome
        BY <1>5, <2>1 DEF AfterSystem, AfterHome
    <2>3. CASE SetFields(Decoded(Mine.fields, file, name)) /\ Go(next) /\ file.status = "valid"
        <3>1. Over(Mine.fields, file, name) = Decoded(Mine.fields, file, name)
            BY <2>3 DEF Over
        <3>2. QED BY <1>3, <1>4, <2>2, <2>3, <3>1, StagesTyped DEF Steps
    <2>4. CASE UNCHANGED config /\ Go(next) /\ file.status # "valid"
        <3>1. Over(Mine.fields, file, name) = Mine.fields
            BY <2>4 DEF Over
        <3>2. QED BY <1>2, <1>3, <2>2, <2>4, <3>1 DEF Staged, Stands, Late, Go, Mine, Halves
    <2>5. CASE Refuse
        BY <1>2, <1>3, <2>5 DEF Refuse, Staged, Stands, Late, Halves
    <2>6. QED BY <1>5, <2>3, <2>4, <2>5 DEF ReadFile, LegacyReads, FrameworkReads, Files
<1>6. ASSUME NEW s \in Steps, Go(s), UNCHANGED config,
             \/ step = "validate" /\ s = "system"
             \/ step \in Late /\ s \in Late
      PROVE  Staged'
    BY <1>2, <1>3, <1>6 DEF Staged, Stands, Late, Go, Halves
<1>7. CASE Refuse
    BY <1>2, <1>3, <1>7 DEF Refuse, Staged, Stands, Late, Halves
<1>8. ASSUME step \in Late, step' \in Late, half' = half,
             \A f \in Compared, h \in Halves : config'[h].fields[f] = config[h].fields[f],
             \A h \in Halves \ {half} : config'[h] = config[h]
      PROVE  Staged'
    BY <1>2, <1>3, <1>8 DEF Staged, Stands, Late, Halves
<1>9. CASE ValidateBlock
    BY <1>6, <1>7, <1>9 DEF ValidateBlock, Steps
<1>10. CASE ReadSystemFile
    BY <1>3, <1>5, <1>10 DEF ReadSystemFile, Sources
<1>11. CASE ReadHomeFile
    BY <1>3, <1>5, <1>11 DEF ReadHomeFile, Sources
<1>12. ASSUME step = "netrc", TakeNetrc(Takes(half))
       PROVE  Staged'
    <2>1. Mine.fields = AfterHome
        BY <1>3, <1>12 DEF Mine, Staged, Stands
    <2>2. SetFields(AfterNetrc(half)) /\ Go("overlay")
        BY <1>12, <2>1 DEF TakeNetrc, AfterNetrc
    <2>3. QED BY <1>3, <1>4, <2>2, StagesTyped DEF Steps
<1>13. CASE LegacyReadsNetrc
    <2>1. CASE Refuse
        BY <1>7, <2>1
    <2>2. CASE TakeNetrc(LegacyTakesNetrc)
        BY <1>12, <1>13, <2>2 DEF LegacyReadsNetrc, Takes
    <2>3. QED BY <1>13, <2>1, <2>2 DEF LegacyReadsNetrc
<1>14. CASE FrameworkReadsNetrc
    BY <1>12, <1>14 DEF FrameworkReadsNetrc, Takes
<1>15. CASE Overlay
    <2>1. Mine.fields = AfterNetrc(half)
        BY <1>3, <1>15 DEF Overlay, Mine, Staged, Stands
    <2>2. SetFields(AfterOverlay(half)) /\ Go("check")
        BY <1>15, <2>1 DEF Overlay, AfterOverlay
    <2>3. QED BY <1>3, <1>4, <2>2, StagesTyped DEF Steps
<1>16. CASE Check
    BY <1>6, <1>7, <1>16 DEF Check, Steps, Late
<1>17. ASSUME NEW c \in Configurations, Become(c), step \in Late, step' \in Late, half' = half,
              \A f \in Compared : c.fields[f] = Mine.fields[f]
       PROVE  Staged'
    <2>1. /\ config'[half] = c
          /\ \A h \in Halves \ {half} : config'[h] = config[h]
        BY <1>17 DEF Become, TypeOK
    <2>2. QED BY <1>8, <1>17, <2>1 DEF Mine
<1>18. CASE OpenSession
    <2>1. ASSUME NEW t \in Origins \cup {"session"}, Authenticated(t)
          PROVE  Staged'
        <3>1. [Mine EXCEPT !.token = t] \in Configurations
            BY <1>3 DEF Mine, TypeOK, Configurations
        <3>2. [Mine EXCEPT !.token = t].fields = Mine.fields
            BY <1>3 DEF Mine, TypeOK, Configurations
        <3>3. QED BY <1>17, <1>18, <2>1, <3>1, <3>2
                  DEF OpenSession, Authenticated, LookAtPreviews, Go, Late
    <2>2. Mine.fields["auth_token"] \in Origins
        BY <1>3 DEF Mine, TypeOK, Configurations, Fields
    <2>3. QED BY <1>7, <1>18, <2>1, <2>2 DEF OpenSession
<1>19. CASE DetectSite
    <2>1. PICK answer \in Answers :
              Become([Mine EXCEPT !.site = answer,
                                  !.fields["custom_app_url"] = Located(answer)])
        BY <1>19 DEF DetectSite
    <2>2. [Mine EXCEPT !.site = answer, !.fields["custom_app_url"] = Located(answer)]
              \in Configurations
        BY <1>3, LocatedTyped DEF Mine, TypeOK, Configurations
    <2>3. \A f \in Compared :
              [Mine EXCEPT !.site = answer, !.fields["custom_app_url"] = Located(answer)].fields[f]
                  = Mine.fields[f]
        BY <1>3 DEF Mine, TypeOK, Configurations, Compared
    <2>4. QED BY <1>17, <1>19, <2>1, <2>2, <2>3 DEF DetectSite, LookAtPreviews, Go, Late
<1>20. CASE ConfigurePreview
    BY <1>7, <1>8, <1>20 DEF ConfigurePreview, EnablePreview, LegacyUnknown, FrameworkUnknown, Late
<1>21. CASE PreviewsDone
    BY <1>6, <1>21 DEF PreviewsDone, Steps, Late
<1>22. CASE FrameworkTracks
    <2>1. PICK found \in BOOLEAN : Tracked(found)
        BY <1>22 DEF FrameworkTracks
    <2>2. /\ config'["framework"].fields = config["framework"].fields
          /\ config'["legacy"] = config["legacy"]
        BY <1>22, <2>1 DEF FrameworkTracks, Tracked, Become, Mine, TypeOK, Configurations, Halves
    <2>3. QED BY <1>2, <1>22, <2>2 DEF FrameworkTracks, Staged, Stands, Late, Halves
<1>23. CASE LegacyTracks
    <2>1. PICK found \in BOOLEAN : Tracked(found)
        BY <1>23 DEF LegacyTracks
    <2>2. [Mine EXCEPT !.tracked = found /\ "provider.track" \in enabled] \in Configurations
        BY <1>3 DEF Mine, TypeOK, Configurations
    <2>3. [Mine EXCEPT !.tracked = found /\ "provider.track" \in enabled].fields = Mine.fields
        BY <1>3 DEF Mine, TypeOK, Configurations
    <2>4. QED BY <1>17, <1>23, <2>1, <2>2, <2>3 DEF LegacyTracks, Tracked, Go, Late
<1>24. CASE UNCHANGED vars
    BY <1>2, <1>24 DEF vars, Staged, Stands
<1>25. QED BY <1>9, <1>10, <1>11, <1>13, <1>14, <1>15, <1>16, <1>18, <1>19, <1>20, <1>21,
              <1>22, <1>23, <1>24 DEF Next

\* Nobody passes a check that should have stopped it.
LEMMA LetThroughStep == IInv /\ [Next]_vars => LetThrough'
<1> SUFFICES ASSUME IInv, [Next]_vars PROVE LetThrough'
    OBVIOUS
<1> USE DEF IInv
<1>1. world' = world /\ ModelHas("api_url")' = ModelHas("api_url")
    BY WorldStays, StagesStay
<1>2. half \in Halves /\ step \in Steps
    BY DEF TypeOK
<1>3. Mine = config[half] /\ Mine \in Configurations
    BY DEF Mine, TypeOK
<1>4. ASSUME step' \in {"system", "home", "netrc", "overlay", "check", "refused"}, half' = half,
             step \notin {"validate", "refused"},
             \A h \in Halves \ {half} : config'[h] = config[h]
      PROVE  LetThrough'
    BY <1>1, <1>2, <1>4 DEF LetThrough, Stands, Late, Halves, Valid
<1>5. ASSUME NEW c \in Configurations, Become(c)
      PROVE  /\ config'[half] = c
             /\ \A h \in Halves \ {half} : config'[h] = config[h]
    BY <1>2, <1>5 DEF Become, TypeOK
<1>6. ASSUME NEW fs, SetFields(fs)
      PROVE  \A h \in Halves \ {half} : config'[h] = config[h]
    BY <1>6 DEF SetFields, Become, TypeOK
<1>7. CASE ValidateBlock
    BY <1>1, <1>2, <1>7 DEF ValidateBlock, Go, Refuse, LetThrough, Stands, Late, Halves, Valid
<1>8. ASSUME NEW file, NEW name \in {"system", "home"}, NEW next \in {"home", "netrc"},
             ReadFile(file, name, next)
      PROVE  LetThrough'
    <2>1. \A h \in Halves \ {half} : config'[h] = config[h]
        BY <1>6, <1>8 DEF ReadFile, LegacyReads, FrameworkReads, Refuse
    <2>2. QED BY <1>4, <1>8, <2>1 DEF ReadFile, LegacyReads, FrameworkReads, Refuse, Go
<1>9. CASE ReadSystemFile
    BY <1>8, <1>9 DEF ReadSystemFile
<1>10. CASE ReadHomeFile
    BY <1>8, <1>10 DEF ReadHomeFile
<1>11. CASE LegacyReadsNetrc \/ FrameworkReadsNetrc
    <2>1. \A h \in Halves \ {half} : config'[h] = config[h]
        BY <1>6, <1>11 DEF LegacyReadsNetrc, FrameworkReadsNetrc, TakeNetrc, Refuse
    <2>2. QED BY <1>4, <1>11, <2>1
              DEF LegacyReadsNetrc, FrameworkReadsNetrc, TakeNetrc, Refuse, Go
<1>12. CASE Overlay
    BY <1>4, <1>6, <1>12 DEF Overlay, Go
<1>13. CASE Check
    <2>1. CASE Refuse
        BY <1>4, <1>13, <2>1 DEF Check, Refuse
    <2>2. CASE Valid(Mine.fields) /\ ~Refuse
        <3>1. Valid(config[half].fields)'
            BY <1>3, <1>13, <2>2 DEF Check, Go, Valid
        <3>2. QED BY <1>1, <1>2, <1>13, <2>2, <3>1
                  DEF Check, Go, LetThrough, Stands, Late, Halves, Valid
    <2>3. QED BY <1>13, <2>1, <2>2 DEF Check
<1>14. CASE OpenSession
    <2>1. CASE Refuse
        BY <1>4, <1>14, <2>1 DEF OpenSession, Refuse
    <2>2. ASSUME NEW t \in Origins \cup {"session"}, Authenticated(t), t # "none",
                 t = "session" => Mine.fields["login"] # "none"
          PROVE  LetThrough'
        <3>1. [Mine EXCEPT !.token = t] \in Configurations
            BY <1>3 DEF Configurations
        <3>2. /\ config'[half].fields = config[half].fields /\ config'[half].token = t
              /\ \A h \in Halves \ {half} : config'[h] = config[h]
            BY <1>3, <1>5, <2>2, <3>1 DEF Authenticated, Configurations
        <3>3. QED BY <1>1, <1>2, <1>3, <1>14, <2>2, <3>2
                  DEF OpenSession, Authenticated, LookAtPreviews, Go, LetThrough, Stands,
                      Late, Halves, Valid
    <2>3. Valid(Mine.fields) /\ Mine.fields["auth_token"] \in Origins
        BY <1>2, <1>3, <1>14 DEF OpenSession, LetThrough, Stands, Late, Configurations, Fields
    <2>4. "session" \notin Origins
        BY DEF Origins
    <2>5. QED BY <1>14, <2>1, <2>2, <2>3, <2>4 DEF OpenSession, Valid
<1>15. CASE DetectSite
    <2>1. PICK answer \in Answers :
              Become([Mine EXCEPT !.site = answer,
                                  !.fields["custom_app_url"] = Located(answer)])
        BY <1>15 DEF DetectSite
    <2>2. [Mine EXCEPT !.site = answer, !.fields["custom_app_url"] = Located(answer)]
              \in Configurations
        BY <1>3, LocatedTyped DEF Configurations
    <2>3. /\ \A f \in Compared : config'[half].fields[f] = config[half].fields[f]
          /\ config'[half].token = config[half].token
          /\ \A h \in Halves \ {half} : config'[h] = config[h]
        <3>1. /\ config'[half] = [Mine EXCEPT !.site = answer,
                                              !.fields["custom_app_url"] = Located(answer)]
              /\ \A h \in Halves \ {half} : config'[h] = config[h]
            BY <1>5, <2>1, <2>2
        <3>2. /\ config'[half].fields = [Mine.fields EXCEPT !["custom_app_url"] = Located(answer)]
              /\ config'[half].token = Mine.token
            BY <1>3, <3>1 DEF Configurations
        <3>3. Mine.fields \in [Fields -> Origins]
            BY <1>3 DEF Configurations
        <3>4. QED BY <1>3, <3>1, <3>2, <3>3 DEF Compared, Fields
    <2>4. Valid(config[half].fields)'
        BY <1>2, <1>15, <2>3 DEF DetectSite, LetThrough, Stands, Late, Valid, Compared,
                                 LookAtPreviews, Go
    <2>5. QED BY <1>1, <1>2, <1>15, <2>3, <2>4
              DEF DetectSite, LookAtPreviews, Go, LetThrough, Stands, Late, Halves, Valid, Compared
<1>16. CASE ConfigurePreview
    BY <1>1, <1>2, <1>16 DEF ConfigurePreview, EnablePreview, LegacyUnknown, FrameworkUnknown,
                             Refuse, LetThrough, Stands, Late, Halves, Valid
<1>17. CASE PreviewsDone
    BY <1>1, <1>2, <1>17 DEF PreviewsDone, Go, LetThrough, Stands, Late, Halves, Valid
<1>18. ASSUME NEW found \in BOOLEAN, Tracked(found)
       PROVE  /\ config'[half].fields = config[half].fields
              /\ config'[half].token = config[half].token
              /\ \A h \in Halves \ {half} : config'[h] = config[h]
    <2>1. [Mine EXCEPT !.tracked = found /\ "provider.track" \in enabled] \in Configurations
        BY <1>3 DEF Configurations
    <2>2. QED BY <1>3, <1>5, <1>18, <2>1 DEF Tracked, Configurations
<1>19. CASE FrameworkTracks
    BY <1>1, <1>2, <1>18, <1>19 DEF FrameworkTracks, LetThrough, Stands, Late, Halves, Valid
<1>20. CASE LegacyTracks
    BY <1>1, <1>2, <1>18, <1>20 DEF LegacyTracks, Go, LetThrough, Stands, Late, Halves, Valid
<1>21. CASE UNCHANGED vars
    BY <1>1, <1>21 DEF vars, LetThrough, Stands, Valid
<1>22. QED BY <1>7, <1>9, <1>10, <1>11, <1>12, <1>13, <1>14, <1>15, <1>16, <1>17, <1>19,
              <1>20, <1>21 DEF Next

LEMMA Inductive == Spec => []IInv
<1>1. IInv /\ [Next]_vars => IInv'
    BY TypeStep, StagedStep, LetThroughStep DEF IInv
<1>2. QED BY StagedInit, <1>1, PTL DEF Spec

-----------------------------------------------------------------------------
\* A half that is configured has come to the end of its stages.
LEMMA ConfiguredStands ==
    ASSUME IInv, NEW h \in Halves, Configured(h)
    PROVE  /\ Stands(h) \in {"ready", "done"}
           /\ \A f \in Compared : config[h].fields[f] = AfterOverlay(h)[f]
           /\ Valid(config[h].fields)
           /\ h = "framework" => ModelHas("api_url")
<1>1. Stands(h) \in {"ready", "done"}
    BY DEF Configured, Stands, Halves, IInv, LetThrough
<1>2. QED BY <1>1 DEF IInv, Staged, LetThrough, Late

LEMMA Ranked == IInv => SourcesRanked
<1> SUFFICES ASSUME IInv, NEW h \in Halves, NEW f \in Compared, Configured(h), ~Misread(h, f)
             PROVE  IsBest(config[h].fields[f], f)
    BY DEF SourcesRanked
<1>1. world \in Sources
    BY DEF IInv, TypeOK
<1>2. AfterOverlay(h)["api_url"] # "none"
    BY ConfiguredStands DEF Valid, Compared
<1>3. QED BY <1>1, <1>2, ConfiguredStands, LastStageRanked

\* No two sources of a field have one rank.
LEMMA BestIsOne ==
    ASSUME NEW f \in Compared, NEW o1, NEW o2, IsBest(o1, f), IsBest(o2, f)
    PROVE  o1 = o2
<1>1. CASE f \in {"login", "tags"}
    <2>1. Rank(f) = [home |-> 1, system |-> 2, block |-> 3]
        BY <1>1 DEF Rank
    <2>2. QED BY <2>1 DEF IsBest
<1>2. CASE f \notin {"login", "tags"}
    <2>1. Rank(f) = [block |-> 1, env |-> 2, default |-> 3, netrc |-> 4, home |-> 5,
                     system |-> 6]
        BY <1>2 DEF Rank
    <2>2. QED BY <2>1 DEF IsBest
<1>3. QED BY <1>1, <1>2

LEMMA Agreed == IInv => HalvesAgree
<1> SUFFICES ASSUME IInv, step = "ready", NEW f \in Compared, \A h \in Halves : ~Misread(h, f)
             PROVE  config["framework"].fields[f] = config["legacy"].fields[f]
    BY DEF HalvesAgree
<1>1. \A h \in Halves : Configured(h)
    BY DEF Configured
<1>2. \A h \in Halves : IsBest(config[h].fields[f], f)
    BY <1>1, Ranked DEF SourcesRanked
<1>3. QED BY <1>2, BestIsOne DEF Halves

LEMMA Credited == IInv => CredentialGiven
<1> SUFFICES ASSUME IInv, NEW h \in Halves, Configured(h)
             PROVE  /\ config[h].fields["api_url"] # "none"
                    /\ config[h].token # "none"
                    /\ config[h].token = "session" => config[h].fields["login"] # "none"
    BY DEF CredentialGiven
<1>1. Stands(h) \in {"ready", "done"} /\ Valid(config[h].fields)
    BY ConfiguredStands
<1>2. QED BY <1>1 DEF IInv, LetThrough, Valid

\* Whatever the sources hold, each half ends with the best source of each
\* field, the two misreadings apart (signalfx/provider.go:205-242,
\* internal/framework/provider.go:155-189).
THEOREM RankedForEveryWorld == Spec => []SourcesRanked
BY Inductive, Ranked, PTL

\* Whatever the sources hold, the two halves talk to one API as one user.
THEOREM AgreedForEveryWorld == Spec => []HalvesAgree
BY Inductive, Agreed, PTL

\* Whatever the sources hold and the API answers, a configured half has an API
\* and a credential, and a session only if some source gave a login
\* (internal/providermeta/meta.go:115-172).
THEOREM CreditedForEveryWorld == Spec => []CredentialGiven
BY Inductive, Credited, PTL

-----------------------------------------------------------------------------
\* The previews switched on are those looked at, and nothing is tracked unasked.
PreviewsLooked ==
    /\ todo \subseteq world.previews /\ enabled \subseteq world.previews \ {Unknown}
    /\ Stands("framework") = "previews" => world.previews \ {Unknown} \subseteq enabled \cup todo
    /\ Stands("framework") \in {"track", "done"} => enabled = world.previews \ {Unknown}
    /\ \A h \in Halves : config[h].tracked => "provider.track" \in enabled

LEMMA PreviewsInit == Init => PreviewsLooked
BY DEF Init, PreviewsLooked, Stands, Started

LEMMA PreviewsStep == TypeOK /\ PreviewsLooked /\ [Next]_vars => PreviewsLooked'
<1> SUFFICES ASSUME TypeOK, PreviewsLooked, [Next]_vars PROVE PreviewsLooked'
    OBVIOUS
<1>1. world' = world
    BY WorldStays
<1>2. /\ half \in Halves /\ world.previews \subseteq Previews
      /\ Mine = config[half] /\ Mine \in Configurations /\ "done" \notin {step, step'}
    BY TypeStep DEF TypeOK, Sources, Mine, Steps
<1>3. ASSUME UNCHANGED <<todo, enabled>>, half' = half, step \notin {"previews", "track"},
             step' \notin {"previews", "track"},
             \A h \in Halves : config'[h].tracked = config[h].tracked
      PROVE  PreviewsLooked'
    BY <1>1, <1>2, <1>3 DEF PreviewsLooked, Stands, Halves
<1>4. ASSUME NEW c \in Configurations, Become(c), c.tracked = Mine.tracked
      PROVE  \A h \in Halves : config'[h].tracked = config[h].tracked
    BY <1>2, <1>4 DEF Become, TypeOK
<1>5. ASSUME NEW fs, SetFields(fs)
      PROVE  \A h \in Halves : config'[h].tracked = config[h].tracked
    BY <1>2, <1>5 DEF SetFields, Become, TypeOK, Configurations
<1>6. ASSUME LookAtPreviews, step \in {"session", "detect"},
             \A h \in Halves : config'[h].tracked = config[h].tracked
      PROVE  PreviewsLooked'
    BY <1>1, <1>2, <1>6 DEF LookAtPreviews, PreviewsLooked, Stands, Halves
<1>7. CASE ValidateBlock \/ Check
    BY <1>3, <1>7 DEF ValidateBlock, Check, Go, Refuse
<1>8. CASE ReadSystemFile \/ ReadHomeFile
    BY <1>3, <1>5, <1>8 DEF ReadSystemFile, ReadHomeFile, ReadFile, LegacyReads,
                            FrameworkReads, Go, Refuse
<1>9. CASE LegacyReadsNetrc \/ FrameworkReadsNetrc
    BY <1>3, <1>5, <1>9 DEF LegacyReadsNetrc, FrameworkReadsNetrc, TakeNetrc, Go, Refuse
<1>10. CASE Overlay
    BY <1>3, <1>5, <1>10 DEF Overlay, Go
<1>11. CASE OpenSession
    <2>1. CASE Refuse
        BY <1>3, <1>11, <2>1 DEF OpenSession, Refuse
    <2>2. ASSUME NEW t \in Origins \cup {"session"}, Authenticated(t)
          PROVE  PreviewsLooked'
        <3>1. /\ [Mine EXCEPT !.token = t] \in Configurations
              /\ [Mine EXCEPT !.token = t].tracked = Mine.tracked
            BY <1>2 DEF Configurations
        <3>2. QED BY <1>3, <1>4, <1>6, <1>11, <2>2, <3>1 DEF OpenSession, Authenticated, Go
    <2>3. Mine.fields["auth_token"] \in Origins
        BY <1>2 DEF Configurations, Fields
    <2>4. QED BY <1>11, <2>1, <2>2, <2>3 DEF OpenSession
<1>12. CASE DetectSite
    <2>1. PICK answer \in Answers :
              Become([Mine EXCEPT !.site = answer,
                                  !.fields["custom_app_url"] = Located(answer)])
        BY <1>12 DEF DetectSite
    <2>2. /\ [Mine EXCEPT !.site = answer, !.fields["custom_app_url"] = Located(answer)]
                 \in Configurations
          /\ [Mine EXCEPT !.site = answer, !.fields["custom_app_url"] = Located(answer)].tracked
                 = Mine.tracked
        BY <1>2, LocatedTyped DEF Configurations
    <2>3. QED BY <1>3, <1>4, <1>6, <1>12, <2>1, <2>2 DEF DetectSite, Go
<1>13. CASE ConfigurePreview
    <2>1. PICK p \in todo : EnablePreview(p) \/ LegacyUnknown(p) \/ FrameworkUnknown(p)
        BY <1>13 DEF ConfigurePreview
    <2>2. p \in world.previews /\ (p \in KnownPreviews <=> p # Unknown)
        BY <1>2, WorldsAssumption DEF PreviewsLooked, Previews
    <2>3. QED BY <1>1, <1>2, <1>13, <2>1, <2>2
              DEF ConfigurePreview, EnablePreview, LegacyUnknown, FrameworkUnknown, Refuse,
                  PreviewsLooked, Stands, Halves
<1>14. CASE PreviewsDone
    BY <1>1, <1>2, <1>14 DEF PreviewsDone, Go, PreviewsLooked, Stands, Halves
<1>15. ASSUME NEW found \in BOOLEAN, Tracked(found)
       PROVE  \A h \in Halves : config'[h].tracked => config[h].tracked \/ "provider.track" \in enabled
    <2>1. [Mine EXCEPT !.tracked = found /\ "provider.track" \in enabled].tracked
              = (found /\ "provider.track" \in enabled)
        BY <1>2 DEF Configurations
    <2>2. QED BY <1>2, <1>15, <2>1 DEF Tracked, Become, TypeOK
<1>16. CASE FrameworkTracks
    BY <1>1, <1>2, <1>15, <1>16 DEF FrameworkTracks, PreviewsLooked, Stands, Halves
<1>17. CASE LegacyTracks
    BY <1>1, <1>2, <1>15, <1>17 DEF LegacyTracks, Go, PreviewsLooked, Stands, Halves
<1>18. CASE UNCHANGED vars
    BY <1>18 DEF vars, PreviewsLooked, Stands
<1>19. QED BY <1>7, <1>8, <1>9, <1>10, <1>11, <1>12, <1>13, <1>14, <1>16, <1>17, <1>18 DEF Next

LEMMA Asked == IInv /\ PreviewsLooked => PreviewsAsAsked
<1> SUFFICES ASSUME IInv, PreviewsLooked, NEW h \in Halves, Configured(h)
             PROVE  /\ enabled = world.previews \ {Unknown}
                    /\ config[h].tracked => "provider.track" \in world.previews
    BY DEF PreviewsAsAsked
<1>1. Stands("framework") = "done"
    BY DEF Configured, Stands, Halves, IInv, LetThrough
<1>2. QED BY <1>1 DEF PreviewsLooked

\* Whatever previews the block asks for and in whatever order they are looked
\* at, the shared registry ends with exactly those that exist, and git's tags are
\* added only if asked for (internal/feature/registry.go:34-70).
THEOREM AskedForEveryWorld == Spec => []PreviewsAsAsked
<1>1. Spec => []PreviewsLooked
    BY PreviewsInit, PreviewsStep, TypeCorrect, PTL DEF Spec
<1>2. QED BY <1>1, Inductive, Asked, PTL

-----------------------------------------------------------------------------
\* Where a half stands before it is refused tells what it was refused for.
LEMMA RefusalsStep == IInv /\ PreviewsLooked /\ RefusalsExplained /\ [Next]_vars => RefusalsExplained'
<1> SUFFICES ASSUME IInv, PreviewsLooked, RefusalsExplained, [Next]_vars, step' = "refused"
             PROVE  RefusalsExplained'
    BY DEF RefusalsExplained
<1>1. world \in Sources /\ half \in Halves
    BY DEF IInv, TypeOK
<1>2. CASE UNCHANGED vars
    BY <1>2 DEF vars, RefusalsExplained, InBlock, Env
<1>3. CASE Refuse
    <2>1. CASE ValidateBlock
        <3>1. half = "framework"
            BY <2>1 DEF ValidateBlock, IInv, LetThrough
        <3>2. QED BY <1>3, <2>1, <3>1 DEF ValidateBlock, Go, Refuse, RefusalsExplained, ModelHas, InBlock, Env
    <2>2. CASE step \in {"system", "home", "netrc"} /\ half = "legacy"
              /\ "broken" \in {world.system.status, world.home.status, world.netrc}
        BY <1>3, <2>2 DEF Refuse, RefusalsExplained
    <2>3. CASE half = "legacy" /\ Unknown \in world.previews
        BY <1>3, <2>3 DEF Refuse, RefusalsExplained
    <2>4. CASE config[half].fields["auth_token"] = "none"
        BY <1>3, <2>4 DEF Refuse, RefusalsExplained
    <2>5. CASE step = "check" /\ ~Valid(Mine.fields)
        <3>1. CASE config[half].fields["api_url"] # "none"
            BY <2>4, <2>5, <3>1 DEF Valid, Mine
        <3>2. CASE config[half].fields["api_url"] = "none"
            <4>1. AfterOverlay(half)["api_url"] = "none"
                BY <1>1, <2>5, <3>2 DEF IInv, Staged, Stands, Late, Compared
            <4>2. half = "framework"
                <5>1. AfterOverlay("legacy")["api_url"] = LegacyGet("api_url", "default")
                    BY <1>1, StagesTyped DEF AfterOverlay, LegacyOverlay, Halves, Fields
                <5>2. QED BY <1>1, <4>1, <5>1 DEF LegacyGet, Halves
            <4>3. ModelHas("api_url")
                BY <2>5, <4>2 DEF IInv, LetThrough, Stands
            <4>4. AfterOverlay("framework")["api_url"] = ModelGet("api_url")
                BY <4>3 DEF AfterOverlay, FrameworkOverlay, Fields
            <4>5. ~InBlock("api_url") /\ Env("api_url") # "set"
                BY <4>1, <4>2, <4>4 DEF ModelGet
            <4>6. QED BY <1>3, <4>2, <4>5 DEF Refuse, RefusalsExplained, InBlock, Env
        <3>3. QED BY <3>1, <3>2
    <2>6. CASE ReadSystemFile \/ ReadHomeFile
        BY <1>3, <2>2, <2>6 DEF ReadSystemFile, ReadHomeFile, ReadFile, LegacyReads,
                                FrameworkReads, Go, Refuse
    <2>7. CASE LegacyReadsNetrc \/ FrameworkReadsNetrc
        BY <1>3, <2>2, <2>7 DEF LegacyReadsNetrc, FrameworkReadsNetrc, TakeNetrc, Go, Refuse
    <2>8. CASE Check
        BY <1>3, <2>5, <2>8 DEF Check, Go, Refuse
    <2>9. CASE OpenSession
        BY <1>3, <2>4, <2>9 DEF OpenSession, Authenticated, LookAtPreviews, Go, Refuse, Mine
    <2>10. CASE ConfigurePreview
        <3>1. PICK p \in todo : EnablePreview(p) \/ LegacyUnknown(p) \/ FrameworkUnknown(p)
            BY <2>10 DEF ConfigurePreview
        <3>2. CASE LegacyUnknown(p)
            <4>1. p = Unknown /\ p \in world.previews
                BY <1>1, <3>2 DEF LegacyUnknown, PreviewsLooked, Sources, Previews
            <4>2. QED BY <2>3, <3>2, <4>1 DEF LegacyUnknown
        <3>3. QED BY <1>3, <2>10, <3>1, <3>2
                  DEF ConfigurePreview, EnablePreview, FrameworkUnknown, Refuse
    <2>11. CASE Overlay \/ DetectSite \/ PreviewsDone \/ FrameworkTracks \/ LegacyTracks
        BY <1>3, <2>11 DEF Overlay, DetectSite, LookAtPreviews, PreviewsDone, FrameworkTracks,
                           LegacyTracks, Go, Refuse
    <2>12. CASE UNCHANGED vars
        BY <1>2, <2>12
    <2>13. QED BY <2>1, <2>6, <2>7, <2>8, <2>9, <2>10, <2>11, <2>12 DEF Next
<1>4. Next => Refuse
    <2>1. Overlay \/ DetectSite \/ PreviewsDone \/ FrameworkTracks \/ LegacyTracks => FALSE
        BY DEF Overlay, DetectSite, LookAtPreviews, PreviewsDone, FrameworkTracks,
               LegacyTracks, Go
    <2>2. ReadSystemFile \/ ReadHomeFile => Refuse
        BY DEF ReadSystemFile, ReadHomeFile, ReadFile, LegacyReads, FrameworkReads, Go
    <2>3. LegacyReadsNetrc \/ FrameworkReadsNetrc => Refuse
        BY DEF LegacyReadsNetrc, FrameworkReadsNetrc, TakeNetrc, Go
    <2>4. ValidateBlock \/ Check \/ OpenSession => Refuse
        BY DEF ValidateBlock, Check, OpenSession, Authenticated, LookAtPreviews, Go
    <2>5. ASSUME ConfigurePreview
          PROVE  Refuse
        <3>1. PICK p \in todo : EnablePreview(p) \/ LegacyUnknown(p) \/ FrameworkUnknown(p)
            BY <2>5 DEF ConfigurePreview
        <3>2. QED BY <2>5, <3>1
                  DEF ConfigurePreview, EnablePreview, LegacyUnknown, FrameworkUnknown
    <2>6. QED BY <2>1, <2>2, <2>3, <2>4, <2>5 DEF Next
<1>5. QED BY <1>2, <1>3, <1>4

\* Whatever the sources hold, the provider refuses its configuration only for want
\* of an API URL or a token or, in the legacy half, for a file it cannot read or
\* a preview nobody registered (signalfx/provider.go:205-312).
THEOREM RefusalsForEveryWorld == Spec => []RefusalsExplained
<1>1. Init => RefusalsExplained
    BY DEF Init, RefusalsExplained
<1>2. Spec => []PreviewsLooked
    BY PreviewsInit, PreviewsStep, TypeCorrect, PTL DEF Spec
<1>3. QED BY <1>1, <1>2, Inductive, RefusalsStep, PTL DEF Spec

-----------------------------------------------------------------------------
\* The application URL: what the files said until the API is asked, and then
\* what its answer makes of that.
Awaiting(h) == IF h = "legacy" THEN {"check", "detect"} ELSE {"check", "session", "detect"}
Told(h)  == IF h = "legacy" THEN {"session", "previews", "track", "ready", "done"}
                             ELSE {"previews", "track", "ready", "done"}
Site(h)   == config[h].fields["custom_app_url"]
FromFiles(h) == AfterNetrc(h)["custom_app_url"]
Answered(h, answer) ==
    IF answer = "url" THEN "detected" ELSE IF answer = "blank" THEN "none"
    ELSE IF answer = "silent" THEN FromFiles(h)
    ELSE IF h = "legacy" THEN LegacyGet("custom_app_url", "default")
    ELSE IF InBlock("custom_app_url") THEN "block" ELSE FromFiles(h)

SiteStaged ==
    \A h \in Halves :
        /\ Stands(h) \in Awaiting(h) => Site(h) = FromFiles(h)
        /\ Stands(h) \in Told(h)  =>
               /\ config[h].site \in Answers
               /\ Site(h) = Answered(h, config[h].site)

LEMMA SiteInit == Init => SiteStaged
BY DEF Init, SiteStaged, Stands, Awaiting, Told, Halves

LEMMA AnsweredStays ==
    ASSUME world' = world, NEW h \in Halves
    PROVE  /\ FromFiles(h)' = FromFiles(h)
           /\ \A a : Answered(h, a)' = Answered(h, a)
<1>1. AfterNetrc(h)' = AfterNetrc(h)
    BY StagesStay
<1>2. FromFiles(h)' = FromFiles(h)
    BY <1>1 DEF FromFiles
<1>3. LegacyGet("custom_app_url", "default")' = LegacyGet("custom_app_url", "default")
      /\ InBlock("custom_app_url")' = InBlock("custom_app_url")
    BY DEF LegacyGet, InBlock, Env
<1>4. QED BY <1>2, <1>3 DEF Answered

\* The URL is not a compared field: it is the netrc's stage that reaches the check.
LEMMA OverlayKeepsSite ==
    ASSUME IInv, Overlay
    PROVE  Site(half)' = FromFiles(half)
<1>1. half \in Halves /\ world \in Sources /\ Mine.fields = AfterNetrc(half)
    BY DEF IInv, TypeOK, Staged, Overlay, Stands, Mine
<1> DEFINE fs == IF half = "legacy" THEN LegacyOverlay(Mine.fields)
                                    ELSE FrameworkOverlay(Mine.fields)
<1>2. AfterNetrc(half) \in [Fields -> Origins] /\ AfterOverlay(half) \in [Fields -> Origins]
    BY <1>1, StagesTyped
<1>3. fs = AfterOverlay(half) /\ SetFields(fs)
    BY <1>1 DEF Overlay, AfterOverlay
<1>4. config'[half].fields = fs
    BY <1>2, <1>3, FieldsSet DEF IInv
<1>5. AfterOverlay(half)["custom_app_url"] = AfterNetrc(half)["custom_app_url"]
    <2>1. CASE half = "legacy"
        BY <1>2, <2>1 DEF AfterOverlay, LegacyOverlay, Fields
    <2>2. CASE half # "legacy"
        BY <1>2, <2>2 DEF AfterOverlay, FrameworkOverlay, Fields
    <2>3. QED BY <2>1, <2>2
<1>6. half' = half /\ config'[half] = config[half]'
    BY DEF Overlay, Go
<1>7. QED BY <1>3, <1>4, <1>5, <1>6 DEF Site, FromFiles

LEMMA DetectAnswers ==
    ASSUME IInv, SiteStaged, DetectSite
    PROVE  /\ config'[half].site \in Answers
           /\ config'[half].fields["custom_app_url"] = Answered(half, config'[half].site)
           /\ \A h \in Halves \ {half} : config'[h] = config[h]
<1>1. half \in Halves /\ Mine = config[half] /\ Mine \in Configurations
    BY DEF IInv, TypeOK, Mine
<1>2. PICK answer \in Answers :
          Become([Mine EXCEPT !.site = answer,
                              !.fields["custom_app_url"] = Located(answer)])
    BY DEF DetectSite
<1>3. /\ config'[half] = [Mine EXCEPT !.site = answer,
                                      !.fields["custom_app_url"] = Located(answer)]
      /\ \A h \in Halves \ {half} : config'[h] = config[h]
    BY <1>1, <1>2 DEF Become, IInv, TypeOK
<1>4. /\ config'[half].site = answer
      /\ config'[half].fields = [Mine.fields EXCEPT !["custom_app_url"] = Located(answer)]
      /\ Mine.fields \in [Fields -> Origins]
    BY <1>1, <1>3 DEF Configurations
<1>5. config'[half].fields["custom_app_url"] = Located(answer)
    BY <1>4 DEF Fields
<1>6. Mine.fields["custom_app_url"] = FromFiles(half)
    BY <1>1 DEF SiteStaged, DetectSite, Stands, Awaiting, Site
<1>7. Located(answer) = Answered(half, answer)
    <2>1. CASE half = "legacy"
        BY <1>6, <2>1 DEF Located, Answers, Answered, LegacyFallback
    <2>2. CASE half # "legacy"
        BY <1>6, <2>2 DEF Located, Answers, Answered, FrameworkFallback
    <2>3. QED BY <2>1, <2>2
<1>8. QED BY <1>3, <1>4, <1>5, <1>7

LEMMA SiteStep == IInv /\ SiteStaged /\ [Next]_vars => SiteStaged'
<1> SUFFICES ASSUME IInv, SiteStaged, [Next]_vars PROVE SiteStaged'
    OBVIOUS
<1>1. /\ half \in Halves /\ Mine = config[half] /\ Mine \in Configurations
      /\ "done" \notin {step, step'} /\ config \in [Halves -> Configurations]
    BY TypeStep DEF IInv, TypeOK, Mine, Steps
<1>2. world' = world /\ \A h \in Halves : /\ FromFiles(h)' = FromFiles(h)
                                        /\ \A a : Answered(h, a)' = Answered(h, a)
    BY WorldStays, AnsweredStays
\* Steps that leave the answer and the URL of both halves alone.
<1>3. ASSUME \A h \in Halves : /\ Site(h)' = Site(h)
                               /\ config'[h].site = config[h].site,
             \A h \in Halves : /\ Stands(h)' \in Awaiting(h) => Stands(h) \in Awaiting(h)
                               /\ Stands(h)' \in Told(h) => Stands(h) \in Told(h)
      PROVE  SiteStaged'
    BY <1>2, <1>3 DEF SiteStaged, Awaiting, Told
\* Steps before the check change the half at work only.
<1>4. ASSUME half' = half, step' \notin Awaiting(half) \union Told(half),
             \A h \in Halves \ {half} : config'[h] = config[h]
      PROVE  SiteStaged'
    <2>1. ASSUME NEW h \in Halves \ {half}
          PROVE  Stands(h)' = Stands(h) /\ Site(h)' = Site(h)
        BY <1>4, <2>1 DEF Stands, Site
    <2>2. Stands(half)' = step'
        BY <1>4 DEF Stands
    <2>3. QED BY <1>2, <1>4, <2>1, <2>2 DEF SiteStaged, Awaiting, Told
<1>5. ASSUME NEW fs, SetFields(fs)
      PROVE  \A h \in Halves \ {half} : config'[h] = config[h]
    BY <1>1, <1>5 DEF SetFields, Become
<1>6. CASE ValidateBlock
    BY <1>4, <1>1, <1>6 DEF ValidateBlock, Go, Refuse, Awaiting, Told
<1>7. CASE ReadSystemFile \/ ReadHomeFile
    BY <1>4, <1>5, <1>7 DEF ReadSystemFile, ReadHomeFile, ReadFile, LegacyReads,
                            FrameworkReads, Go, Refuse, Awaiting, Told
<1>8. CASE LegacyReadsNetrc \/ FrameworkReadsNetrc
    BY <1>4, <1>5, <1>8 DEF LegacyReadsNetrc, FrameworkReadsNetrc, TakeNetrc, Go, Refuse,
                            Awaiting, Told
<1>9. CASE Overlay
    <2>1. half' = half /\ step' = "check" /\ \A h \in Halves \ {half} : config'[h] = config[h]
        BY <1>5, <1>9 DEF Overlay, Go
    <2>2. ASSUME NEW h \in Halves \ {half}
          PROVE  Stands(h)' = Stands(h) /\ Site(h)' = Site(h)
        BY <2>1, <2>2 DEF Stands, Site
    <2>3. Stands(half)' = "check" /\ Site(half)' = FromFiles(half)
        BY <1>9, <2>1, OverlayKeepsSite DEF Stands
    <2>4. QED BY <1>2, <2>1, <2>2, <2>3 DEF SiteStaged, Awaiting, Told
<1>10. CASE Check
    <2>1. config' = config /\ half' = half
        BY <1>10 DEF Check, Go, Refuse
    <2>2. step = "check" /\ step' \in {"refused", IF half = "legacy" THEN "detect" ELSE "session"}
        BY <1>10 DEF Check, Go, Refuse
    <2>3. QED BY <1>1, <1>3, <2>1, <2>2 DEF Stands, Awaiting, Told, Site, Halves
<1>11. CASE OpenSession
    <2>1. CASE Refuse
        BY <1>4, <2>1 DEF Refuse, Awaiting, Told
    <2>2. ASSUME NEW t, Authenticated(t)
          PROVE  SiteStaged'
        <3>1. \A h \in Halves : config'[h].fields = config[h].fields
                                /\ config'[h].site = config[h].site
            BY <1>1, <2>2 DEF Authenticated, Become, Configurations
        <3>2. half' = half /\ step = "session"
              /\ step' = IF half = "legacy" THEN "previews" ELSE "detect"
            BY <1>11, <2>2 DEF OpenSession, Authenticated, LookAtPreviews, Go
        <3>3. QED BY <1>1, <1>3, <3>1, <3>2 DEF Stands, Awaiting, Told, Site, Halves
    <2>3. QED BY <1>11, <2>1, <2>2 DEF OpenSession
<1>12. CASE DetectSite
    <2>1. half' = half /\ step' = IF half = "legacy" THEN "session" ELSE "previews"
        BY <1>12 DEF DetectSite, LookAtPreviews, Go
    <2>2. ASSUME NEW h \in Halves \ {half}
          PROVE  Stands(h)' = Stands(h) /\ Site(h)' = Site(h) /\ config'[h] = config[h]
        BY <1>12, <2>1, <2>2, DetectAnswers DEF Stands, Site
    <2>3. Stands(half)' = step'
        BY <2>1 DEF Stands
    <2>4. Site(half)' = Answered(half, config'[half].site)
        BY <1>12, <2>1, DetectAnswers DEF Site
    <2>5. QED BY <1>1, <1>2, <1>12, <2>1, <2>2, <2>3, <2>4, DetectAnswers
              DEF SiteStaged, Awaiting, Told
<1>13. CASE ConfigurePreview
    <2>1. config' = config /\ half' = half /\ step = "previews" /\ step' \in {"previews", "refused"}
        BY <1>13 DEF ConfigurePreview, EnablePreview, LegacyUnknown, FrameworkUnknown, Refuse
    <2>2. QED BY <1>1, <1>3, <2>1 DEF Stands, Awaiting, Told, Site, Halves
<1>14. CASE PreviewsDone
    BY <1>1, <1>3, <1>14 DEF PreviewsDone, Go, Stands, Awaiting, Told, Site, Halves
<1>15. CASE FrameworkTracks \/ LegacyTracks
    <2>1. \A h \in Halves : config'[h].fields = config[h].fields
                            /\ config'[h].site = config[h].site
        BY <1>1, <1>15 DEF Answers, FrameworkTracks, LegacyTracks, Tracked, Become, Configurations
    <2>2. CASE FrameworkTracks
        BY <1>1, <1>3, <2>1, <2>2 DEF FrameworkTracks, Stands, Awaiting, Told, Site, Halves
    <2>3. CASE LegacyTracks
        BY <1>1, <1>3, <2>1, <2>3 DEF LegacyTracks, Go, Stands, Awaiting, Told, Site, Halves
    <2>4. QED BY <1>15, <2>2, <2>3
<1>16. CASE UNCHANGED vars
    BY <1>3, <1>16 DEF vars, Stands, Site
<1>17. QED BY <1>6, <1>7, <1>8, <1>9, <1>10, <1>11, <1>12, <1>13, <1>14, <1>15, <1>16 DEF Next

LEMMA BlankExplained == IInv /\ SiteStaged => BlankURLExplained
<1> SUFFICES ASSUME IInv, SiteStaged, NEW h \in Halves, Configured(h), Site(h) = "none",
                    config[h].site # "blank"
             PROVE  /\ ~Supplies("home", "custom_app_url") /\ ~Supplies("system", "custom_app_url")
                    /\ \/ config[h].site = "silent"
                       \/ h = "framework" /\ config[h].site = "error" /\ ~InBlock("custom_app_url")
    BY DEF BlankURLExplained, Site
<1>1. Stands(h) \in {"ready", "done"}
    BY ConfiguredStands
<1>2. /\ config[h].site \in Answers
      /\ Answered(h, config[h].site) = "none"
    BY <1>1 DEF SiteStaged, Told
<1>3. h # "legacy" => h = "framework"
    BY HalvesAreTwo
<1>4. /\ FromFiles(h) = "none"
      /\ \/ config[h].site = "silent"
         \/ h = "framework" /\ config[h].site = "error" /\ ~InBlock("custom_app_url")
    <2>1. LegacyGet("custom_app_url", "default") # "none"
        BY DEF LegacyGet
    <2>2. CASE config[h].site = "silent"
        BY <1>2, <2>2 DEF Answered
    <2>3. CASE config[h].site = "error"
        BY <1>2, <1>3, <2>1, <2>3 DEF Answered
    <2>4. CASE config[h].site = "url"
        BY <1>2, <2>4 DEF Answered
    <2>5. QED BY <1>2, <2>2, <2>3, <2>4 DEF Answers
<1>5. FromFiles(h) = IF Supplies("home", "custom_app_url") THEN "home"
                     ELSE IF Supplies("system", "custom_app_url") THEN "system" ELSE "none"
    BY NetrcStage DEF FromFiles, IInv, TypeOK, Fields
<1>6. QED BY <1>4, <1>5

\* Whatever the sources hold and the API answers, links are built on no URL only
\* when the API named an empty one, or when no file names one and the API named
\* none or, in the framework half, could not be asked while the block was silent
\* (internal/providermeta/meta.go:213-217, signalfx/provider.go:248-254,
\* internal/framework/provider.go:241-247).
THEOREM BlankForEveryWorld == Spec => []BlankURLExplained
<1>1. Spec => []SiteStaged
    BY SiteInit, SiteStep, Inductive, PTL DEF Spec
<1>2. QED BY <1>1, Inductive, BlankExplained, PTL
=============================================================================
