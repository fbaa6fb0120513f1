-------------------------- MODULE MutingRule_proofs --------------------------
EXTENDS MutingRule, TLAPS

Codes     == {"none", "ok", "badrequest", "notfound", "failed"}
SentRules == {r \in Rules : r.scope.filter # "many"}

(* What an operation of a kind works on, and what it sends.                *)
OpFits ==
    /\ op.kind = "idle" <=> op.phase = "none"
    /\ op.kind = "idle" => op = Idle
    /\ op.kind = "create" => entry = None
    /\ op.kind \in {"refresh", "update", "delete"} => entry # None
    /\ op.kind \in {"create", "update"} => block # None /\ op.sent \in SentRules
    /\ op.kind = "create" => op.sent.start = block.start * PerSecond
    /\ op.kind = "update" => block.start = entry.start

(* A reply tells what there is, until others edit it.                      *)
ReplyTells ==
    /\ op.phase # "reply" => op.reply = NoReply
    /\ Ok /\ op.kind # "delete" => op.reply.rule \in Rules
    /\ Ok /\ op.kind # "delete" /\ ~unread => rule = op.reply.rule
    /\ Ok /\ op.kind # "delete" /\ ~moved =>
           rule # None /\ rule.start = op.reply.rule.start
    /\ Ok /\ op.kind = "delete" => rule = None
    /\ Ok /\ op.kind \in {"create", "update"} =>
           op.reply.rule.scope.filter # "many"
    /\ op.reply.code = "notfound" => rule = None /\ op.kind # "create"
    /\ op.reply.code = "badrequest" => op.kind \in {"update", "delete"}
    /\ op.phase = "reply" /\ op.reply.code = "failed" => unread
    /\ op.phase = "reply" => op.reply.code # "none"

\* What a read would leave of the rule is what the entry has.
Read(e, r) == /\ e.stop = r.stop \div PerSecond
              /\ e.filter = r.scope.filter
              /\ e.detectors = ReadDetectors(r)

(* The entry was read from the rule as it is, unless others edited it, a   *)
(* call failed, a reply is still to be read or cannot be.                  *)
EntryRead ==
    entry # None /\ rule # None /\ ~unread /\ ~Unreadable /\ ~Ok =>
        Read(entry, rule)

(* No rule begins before the block says, unless others moved it.           *)
StartKept ==
    ~moved /\ rule # None =>
        /\ entry # None => rule.start >= entry.start * PerSecond
        /\ op.kind = "create" /\ Ok => rule.start >= block.start * PerSecond

(* An update does not make it begin before.                                *)
SentKept ==
    op.kind = "update" /\ op.phase = "request" =>
        \/ op.sent.start >= block.start * PerSecond
        \/ now >= block.start * PerSecond

(* With a clock that is right, the start of a rule nobody moved is the one *)
(* it was given, and the entry and the next update know it.                *)
StartKnown ==
    ~moved /\ lag = 0 /\ rule # None =>
        /\ Begun(rule) \/ \E s \in Starts : rule.start = s * PerSecond
        /\ entry # None =>
               /\ entry.effective = rule.start
               /\ Begun(rule) \/ rule.start = entry.start * PerSecond
        /\ op.kind = "create" /\ Ok =>
               Begun(rule) \/ rule.start = block.start * PerSecond
        /\ op.kind = "update" /\ op.phase = "request" =>
               op.sent.start = rule.start

IndInv ==
    /\ TypeOK
    /\ OpFits
    /\ ReplyTells
    /\ EntryRead
    /\ StartKept
    /\ SentKept
    /\ StartKnown

----------------------------------------------------------------------------
(* Seconds and milliseconds.                                               *)

LEMMA SecondsBegin == \A t \in Int : (t \div PerSecond) * PerSecond <= t
  BY MutingAssumption

LEMMA SecondsAreTimes == \A t \in Times : t \div PerSecond \in Times
<1>1. \A t \in Nat : t \div PerSecond \in 0..t
  BY MutingAssumption
<1>2. QED
  BY <1>1, MutingAssumption DEF Times

LEMMA WholeSeconds == \A s \in Nat : (s * PerSecond) \div PerSecond = s
  BY MutingAssumption

LEMMA LaterSecond ==
  \A s \in Nat, t \in Int :
      /\ s <= t \div PerSecond => s * PerSecond <= t
      /\ s > t \div PerSecond => s * PerSecond > t
<1>1. \A t \in Int : (t \div PerSecond) * PerSecond > t - PerSecond
  BY MutingAssumption
<1>2. \A s, k \in Int : s <= k => s * PerSecond <= k * PerSecond
  BY MutingAssumption
<1>3. \A s, k \in Int : s > k => s * PerSecond >= k * PerSecond + PerSecond
  BY MutingAssumption
<1>4. \A t \in Int : t \div PerSecond \in Int
  BY MutingAssumption
<1>5. \A s, k \in Int : s * PerSecond \in Int /\ k * PerSecond \in Int
  BY MutingAssumption
<1> TAKE s \in Nat, t \in Int
<1>6. CASE s <= t \div PerSecond
  BY <1>2, <1>4, <1>5, <1>6, SecondsBegin, MutingAssumption
<1>7. CASE s > t \div PerSecond
  BY <1>1, <1>3, <1>4, <1>5, <1>7, MutingAssumption
<1>8. QED
  BY <1>4, <1>6, <1>7

LEMMA BlockTimes ==
  ASSUME NEW s \in Starts \union Stops
  PROVE  s \in Times /\ s * PerSecond \in Times
<1>1. s \in Nat /\ s * PerSecond <= Horizon
  BY MutingAssumption
<1>2. s <= s * PerSecond /\ s * PerSecond \in Nat
  BY <1>1, MutingAssumption
<1>3. QED
  BY <1>1, <1>2, MutingAssumption DEF Times

LEMMA TheLater ==
  ASSUME NEW s \in Times, NEW t \in Times
  PROVE  /\ Max({s, t}) \in Times
         /\ Max({s, t}) = IF s >= t THEN s ELSE t
<1>1. s \in Int /\ t \in Int
  BY MutingAssumption DEF Times
<1>2. \E x \in {s, t} : \A y \in {s, t} : x >= y
  BY <1>1
<1>3. Max({s, t}) \in {s, t} /\ \A y \in {s, t} : Max({s, t}) >= y
  BY <1>2 DEF Max
<1>4. QED
  BY <1>1, <1>3

----------------------------------------------------------------------------
(* Shapes.                                                                 *)

LEMMA IdleIsOperation == Idle \in Operations
  BY DEF Idle, NoReply, Operations

LEMMA ReadEntry ==
  ASSUME NEW start \in Times, NEW r \in Rules, r.scope.filter # "many"
  PROVE  /\ updateFromRule(start, r) \in Entries
         /\ updateFromRule(start, r).start = start
         /\ updateFromRule(start, r).effective = r.start
         /\ Read(updateFromRule(start, r), r)
<1>1. r.stop \div PerSecond \in Times
  BY SecondsAreTimes DEF Rules
<1>2. r.scope.filter \in {"none", "one"}
  BY DEF Rules, RuleScopes
<1>3. QED
  BY <1>1, <1>2 DEF updateFromRule, ReadDetectors, Read, Entries, Rules

LEMMA Shapes ==
  ASSUME IndInv
  PROVE  /\ TypeOK
         /\ block # None => block \in Blocks /\ block.start \in Starts
                            /\ block.stop \in Stops
         /\ entry # None => entry \in Entries
         /\ rule # None => rule \in Rules
         /\ now \in Times /\ now \in Int /\ lag \in Nat
  BY MutingAssumption DEF IndInv, TypeOK, Blocks, Times

LEMMA SentRule ==
  ASSUME NEW update \in BOOLEAN, block \in Blocks,
         SentStart(update) \in Times, MutingAssumption
  PROVE  /\ toRequest(update) \in SentRules
         /\ toRequest(update).start = SentStart(update)
<1>1. block.stop * PerSecond \in Times
  BY BlockTimes DEF Blocks
<1>2. SentScope(block.scope) \in RuleScopes
      /\ SentScope(block.scope).filter # "many"
  BY DEF SentScope, RuleScopes, Blocks, BlockScopes
<1>3. QED
  BY <1>1, <1>2 DEF toRequest, SentRules, Rules

LEMMA PlacedRule ==
  ASSUME NEW r \in Rules, now \in Times
  PROVE  /\ Placed(r) \in Rules
         /\ Placed(r).start = (IF r.start >= now THEN r.start ELSE now)
         /\ Placed(r).scope = r.scope
<1>1. r.start \in Times
  BY DEF Rules
<1>2. /\ Max({r.start, now}) \in Times
      /\ Max({r.start, now}) = IF r.start >= now THEN r.start ELSE now
  BY <1>1, TheLater
<1>3. QED
  BY <1>2 DEF Placed, Rules

----------------------------------------------------------------------------
(* The environment.                                                        *)

LEMMA TickKeeps ==
  ASSUME IndInv, Tick
  PROVE  IndInv'
<1>1. now' \in Times /\ now' > now /\ now \in Int
  BY MutingAssumption DEF IndInv, TypeOK, Tick, Times
<1>2. TypeOK'
  BY <1>1 DEF IndInv, TypeOK, Tick
<1>3. OpFits' /\ ReplyTells' /\ EntryRead' /\ StartKept'
  BY DEF IndInv, Tick, OpFits, ReplyTells, EntryRead, StartKept, Ok, Read,
         ReadDetectors, Unreadable
<1>4. op.kind = "update" /\ op.phase = "request" =>
          block.start * PerSecond \in Int
  <2>1. block # None => block.start * PerSecond \in Times
    BY BlockTimes, Shapes
  <2>2. QED
    BY <2>1 DEF IndInv, OpFits, Times
<1>5. SentKept'
  BY <1>1, <1>4 DEF IndInv, SentKept, Tick
<1>6. rule # None /\ Begun(rule) => Begun(rule)'
  <2>1. rule # None => rule.start \in Int
    BY Shapes DEF Rules, Times
  <2>2. QED
    BY <1>1, <2>1 DEF Begun, Tick
<1>7. StartKnown'
  BY <1>6 DEF IndInv, StartKnown, Tick, Ok
<1>8. QED
  BY <1>2, <1>3, <1>5, <1>7 DEF IndInv

LEMMA EditBlockKeeps ==
  ASSUME IndInv, NEW b \in Blocks \union {None}, EditBlock(b)
  PROVE  IndInv'
<1>1. TypeOK'
  BY MutingAssumption DEF IndInv, TypeOK, EditBlock, Disturb
<1>2. op.kind = "idle" /\ op.phase = "none" /\ op.reply = NoReply
  BY DEF EditBlock, Idle
<1>3. OpFits' /\ ReplyTells' /\ EntryRead' /\ StartKept' /\ SentKept'
  BY <1>2 DEF IndInv, EditBlock, OpFits, ReplyTells, EntryRead, StartKept,
              SentKept, Ok, Read, ReadDetectors, Unreadable, NoReply
<1>4. StartKnown'
  BY <1>2 DEF IndInv, EditBlock, StartKnown, Ok, Begun
<1>5. QED
  BY <1>1, <1>3, <1>4 DEF IndInv

LEMMA OtherRulesAreRules ==
  ASSUME rule \in Rules, NEW r \in OtherRules
  PROVE  r \in Rules
<1>1. CASE r \in NewStart(rule)
  BY <1>1 DEF NewStart, Rules
<1>2. CASE r \in NewStop(rule)
  BY <1>2 DEF NewStop, Rules
<1>3. CASE r \in NewScope(rule, RuleScopes)
  BY <1>3 DEF NewScope, Rules
<1>4. QED
  BY <1>1, <1>2, <1>3 DEF OtherRules

LEMMA OthersEditKeeps ==
  ASSUME IndInv, rule # None, NEW r \in OtherRules, OthersEdit(r)
  PROVE  IndInv'
<1>1. r \in Rules /\ r # None
  BY Shapes, OtherRulesAreRules, MutingAssumption
<1>2. moved \in BOOLEAN /\ moved' \in BOOLEAN
      /\ (~moved' => ~moved /\ r.start = rule.start)
  BY DEF OthersEdit, IndInv, TypeOK
<1>3. TypeOK'
  BY <1>1, <1>2, MutingAssumption DEF IndInv, TypeOK, OthersEdit, Disturb
<1>4. OpFits' /\ SentKept'
  BY DEF IndInv, OthersEdit, OpFits, SentKept
<1>5. ReplyTells' /\ EntryRead' /\ StartKept'
  BY <1>1, <1>2 DEF IndInv, OthersEdit, ReplyTells, EntryRead, StartKept, Ok
<1>6. StartKnown'
  BY <1>1, <1>2 DEF IndInv, OthersEdit, StartKnown, Ok, Begun
<1>7. QED
  BY <1>3, <1>4, <1>5, <1>6 DEF IndInv

----------------------------------------------------------------------------
(* Terraform starts an operation, or imports a rule.                       *)

LEMMA BeginKeeps ==
  ASSUME IndInv,
         NEW kind \in {"refresh", "create", "update", "delete"},
         NEW sent \in Rules \union {None},
         Begin(kind, sent),
         kind = "create" => entry = None,
         kind \in {"refresh", "update", "delete"} => entry # None,
         kind \in {"create", "update"} => block # None /\ sent \in SentRules,
         kind = "create" => sent.start = block.start * PerSecond,
         kind = "update" =>
             /\ block.start = entry.start
             /\ \/ sent.start >= block.start * PerSecond
                \/ now >= block.start * PerSecond
             /\ ~moved /\ lag = 0 /\ rule # None => sent.start = rule.start
  PROVE  IndInv'
<1>1. /\ op'.kind = kind /\ op'.phase = "request" /\ op'.sent = sent
      /\ op'.reply = NoReply
      /\ op.reply = NoReply
      /\ op' \in Operations
  BY DEF Begin, Idle, Operations, NoReply
<1>2. TypeOK'
  BY <1>1 DEF IndInv, TypeOK, Begin
<1>3. OpFits' /\ SentKept'
  BY <1>1 DEF Begin, OpFits, SentKept
<1>4. ReplyTells' /\ EntryRead' /\ StartKept'
  BY <1>1 DEF IndInv, Begin, ReplyTells, EntryRead, StartKept, Ok, NoReply,
              Read, ReadDetectors, Unreadable
<1>5. StartKnown'
  BY <1>1 DEF IndInv, Begin, StartKnown, Ok, NoReply, Begun
<1>6. QED
  BY <1>2, <1>3, <1>4, <1>5 DEF IndInv

LEMMA StartRefreshKeeps ==
  ASSUME IndInv, StartRefresh
  PROVE  IndInv'
  BY BeginKeeps DEF StartRefresh

LEMMA StartDeleteKeeps ==
  ASSUME IndInv, StartDelete
  PROVE  IndInv'
  BY BeginKeeps DEF StartDelete

LEMMA StartCreateKeeps ==
  ASSUME IndInv, StartCreate
  PROVE  IndInv'
<1>1. block \in Blocks /\ SentStart(FALSE) = block.start * PerSecond
      /\ SentStart(FALSE) \in Times
  BY Shapes, BlockTimes DEF StartCreate, SentStart
<1>2. toRequest(FALSE) \in SentRules
      /\ toRequest(FALSE).start = block.start * PerSecond
  BY <1>1, SentRule, MutingAssumption
<1>3. QED
  BY <1>2, BeginKeeps DEF StartCreate, SentRules

LEMMA StartUpdateKeeps ==
  ASSUME IndInv, StartUpdate
  PROVE  IndInv'
<1>0. entry # None /\ ~Replaced /\ Differs /\ Begin("update", toRequest(TRUE))
  BY DEF StartUpdate
<1>1. /\ block \in Blocks /\ block.start \in Nat /\ block # None
      /\ block.start * PerSecond \in Times
      /\ entry \in Entries /\ block.start = entry.start
      /\ now \in Int /\ lag \in Nat
  BY <1>0, Shapes, BlockTimes, MutingAssumption DEF Replaced
<1>2. SentStart(TRUE) =
          IF block.start <= Unix THEN entry.effective
          ELSE block.start * PerSecond
  BY DEF SentStart
<1>3. SentStart(TRUE) \in Times
  BY <1>1, <1>2 DEF Entries
<1>4. toRequest(TRUE) \in SentRules /\ toRequest(TRUE).start = SentStart(TRUE)
  BY <1>1, <1>3, SentRule, MutingAssumption
<1>5. now - lag \in Int /\ now - lag <= now /\ block.start * PerSecond \in Int
  BY <1>1, MutingAssumption
<1>6. /\ block.start <= Unix => block.start * PerSecond <= now - lag
      /\ ~(block.start <= Unix) => block.start * PerSecond > now - lag
  <2>1. Unix \in Int
    BY <1>5, MutingAssumption DEF Unix
  <2>2. QED
    BY <1>1, <1>5, <2>1, LaterSecond DEF Unix
<1>7. \/ SentStart(TRUE) >= block.start * PerSecond
      \/ now >= block.start * PerSecond
  <2> DEFINE due == block.start * PerSecond
  <2>1. due \in Int /\ (block.start <= Unix => due <= now - lag)
    BY <1>5, <1>6
  <2> HIDE DEF due
  <2>2. CASE block.start <= Unix
    <3>1. now >= due
      BY <1>1, <1>5, <2>1, <2>2
    <3>2. QED
      BY <3>1 DEF due
  <2>3. CASE ~(block.start <= Unix)
    <3>1. SentStart(TRUE) = due
      BY <1>2, <2>3 DEF due
    <3>2. due >= due
      BY <2>1
    <3>3. QED
      BY <3>1, <3>2 DEF due
  <2>4. QED
    BY <2>2, <2>3
<1>8. ASSUME ~moved, lag = 0, rule # None
      PROVE  SentStart(TRUE) = rule.start
  <2>1. /\ entry.effective = rule.start
        /\ Begun(rule) \/ rule.start = block.start * PerSecond
        /\ rule.start >= block.start * PerSecond
    BY <1>0, <1>1, <1>8 DEF IndInv, StartKnown, StartKept
  <2>2. rule.start \in Int
    BY <1>8, Shapes DEF Rules, Times
  <2>3. CASE block.start <= Unix
    BY <1>2, <2>1, <2>3
  <2>4. CASE ~(block.start <= Unix)
    <3> DEFINE due == block.start * PerSecond
    <3>1. due \in Int /\ due > now - lag /\ rule.start >= due
      BY <1>5, <1>6, <2>1, <2>4
    <3> HIDE DEF due
    <3>2. rule.start > now
      BY <1>1, <1>8, <2>2, <3>1
    <3>3. ~Begun(rule)
      BY <1>1, <2>2, <3>2 DEF Begun
    <3>4. QED
      BY <1>2, <2>1, <2>4, <3>3
  <2>5. QED
    BY <2>3, <2>4
<1>9. toRequest(TRUE) \in Rules \union {None}
  BY <1>4 DEF SentRules
<1>10. QED
  BY <1>0, <1>1, <1>4, <1>7, <1>8, <1>9, BeginKeeps

LEMMA ImportKeeps ==
  ASSUME IndInv, Import
  PROVE  IndInv'
<1>1. /\ rule \in Rules /\ rule # None /\ rule.start \in Times
      /\ rule.scope.filter # "many"
      /\ rule.start \div PerSecond \in Times
  BY Shapes, SecondsAreTimes DEF Import, Rules
<1>2. /\ entry' \in Entries /\ entry' # None
      /\ entry'.start = rule.start \div PerSecond
      /\ entry'.effective = rule.start
      /\ Read(entry', rule)
  BY <1>1, ReadEntry, MutingAssumption DEF Import
<1>3. TypeOK'
  <2>1. budget' \in 0..MaxDisturbances
    <3>1. budget \in 0..MaxDisturbances /\ budget > 0 /\ budget' = budget - 1
      BY DEF IndInv, TypeOK, Import, Disturb
    <3>2. QED
      BY <3>1, MutingAssumption
  <2>2. /\ UNCHANGED <<now, lag, block, rule, op, moved>>
        /\ unread' \in BOOLEAN
    BY DEF Import
  <2>3. QED
    BY <1>2, <2>1, <2>2 DEF IndInv, TypeOK
<1>4. op = Idle /\ op.kind = "idle" /\ op.phase = "none"
      /\ op.reply = NoReply /\ op.reply.code = "none"
  BY DEF Import, Idle, NoReply
<1>5. OpFits' /\ ReplyTells' /\ EntryRead' /\ SentKept'
  BY <1>2, <1>4 DEF Import, OpFits, ReplyTells, EntryRead, SentKept, Ok, Read,
                    ReadDetectors
<1>6. (rule.start \div PerSecond) * PerSecond <= rule.start
  BY <1>1, SecondsBegin DEF Times
<1>7. StartKept'
  BY <1>1, <1>2, <1>4, <1>6 DEF Import, StartKept, Ok
<1>8. \A s \in Starts : rule.start = s * PerSecond =>
          rule.start = (rule.start \div PerSecond) * PerSecond
  BY WholeSeconds, MutingAssumption
<1>9. StartKnown'
  BY <1>1, <1>2, <1>4, <1>8 DEF IndInv, Import, StartKnown, Ok, Begun
<1>10. QED
  BY <1>3, <1>5, <1>7, <1>9 DEF IndInv

----------------------------------------------------------------------------
(* The API.                                                                *)

LEMMA EffectCases ==
  ASSUME IndInv, op.phase = "request"
  PROVE  \/ op.kind = "create" /\ ~Missing /\ Effect = Placed(op.sent)
         \/ /\ op.kind = "update" /\ ~Refused /\ rule # None
            /\ Effect = IF Begun(rule) THEN op.sent ELSE Placed(op.sent)
         \/ op.kind = "delete" /\ ~Refused /\ Effect = None
         \/ op.kind # "create" /\ Effect = rule /\ (Refused \/ Missing)
         \/ op.kind = "refresh" /\ Effect = rule /\ ~Refused
<1>1. op.kind \in {"refresh", "create", "update", "delete"}
  BY DEF IndInv, TypeOK, Operations, OpFits
<1>2. CASE op.kind = "create"
  BY <1>2 DEF Effect, Missing
<1>3. CASE op.kind = "update"
  <2>1. CASE ~Refused /\ ~Missing
    BY <1>3, <2>1 DEF Effect, Missing
  <2>2. CASE Refused \/ Missing
    BY <1>3, <2>2 DEF Effect
  <2>3. QED
    BY <1>3, <2>1, <2>2
<1>4. CASE op.kind = "delete"
  <2>1. CASE Refused
    BY <1>4, <2>1 DEF Effect
  <2>2. CASE ~Refused
    BY <1>4, <2>2 DEF Effect
  <2>3. QED
    BY <1>4, <2>1, <2>2
<1>5. CASE op.kind = "refresh"
  BY <1>5 DEF Effect, Refused
<1>6. QED
  BY <1>1, <1>2, <1>3, <1>4, <1>5

\* What the answer to a call leaves is a rule that may be read.
LEMMA EffectRule ==
  ASSUME IndInv, op.phase = "request"
  PROVE  /\ Effect \in Rules \union {None}
         /\ op.kind = "create" => Effect \in Rules
         /\ op.kind \in {"create", "update"} /\ ~Refused /\ ~Missing =>
                Effect \in Rules /\ Effect.scope.filter # "many"
<1>1. now \in Times /\ rule \in Rules \union {None}
  BY DEF IndInv, TypeOK
<1>2. op.kind \in {"create", "update"} =>
          /\ op.sent \in Rules /\ op.sent.scope.filter # "many"
          /\ Placed(op.sent) \in Rules
          /\ Placed(op.sent).scope.filter # "many"
  BY <1>1, PlacedRule DEF IndInv, OpFits, SentRules
<1>3. QED
  BY <1>1, <1>2, EffectCases DEF Missing

\* When it begins.
LEMMA EffectStarts ==
  ASSUME IndInv, op.phase = "request", ~MovedBy(op.kind), Effect # None
  PROVE  /\ entry # None => Effect.start >= entry.start * PerSecond
         /\ op.kind = "create" => Effect.start >= block.start * PerSecond
<1>1. now \in Times /\ now \in Int /\ rule \in Rules \union {None}
  BY Shapes DEF IndInv, TypeOK
<1>2. CASE op.kind = "create"
  <2>1. entry = None /\ block # None /\ op.sent \in Rules
        /\ op.sent.start = block.start * PerSecond
    BY <1>2 DEF IndInv, OpFits, SentRules
  <2>2. Effect = Placed(op.sent)
    BY <1>2, EffectCases
  <2>3. op.sent.start \in Int
    BY <2>1 DEF Rules, Times
  <2>4. Placed(op.sent).start >= op.sent.start
    BY <1>1, <2>1, <2>3, PlacedRule
  <2>5. QED
    BY <2>1, <2>2, <2>4
<1>3. CASE op.kind = "update" /\ Effect # rule
  <2>1. /\ ~Refused /\ rule # None /\ ~moved /\ entry # None
        /\ Effect = IF Begun(rule) THEN op.sent ELSE Placed(op.sent)
    BY <1>3, EffectCases DEF MovedBy, IndInv, OpFits
  <2>2. op.sent \in Rules /\ op.sent.start \in Int /\ block.start = entry.start
    BY <1>3 DEF IndInv, OpFits, SentRules, Rules, Times
  <2>3. rule.start >= entry.start * PerSecond
    BY <2>1 DEF IndInv, StartKept
  <2>4. CASE Begun(rule)
    BY <1>3, <2>1, <2>3, <2>4 DEF Refused
  <2>5. CASE ~Begun(rule)
    <3> DEFINE due == block.start * PerSecond
    <3>1. Placed(op.sent).start =
              IF op.sent.start >= now THEN op.sent.start ELSE now
      BY <1>1, <2>2, PlacedRule
    <3>2. op.sent.start >= due \/ now >= due
      BY <1>3 DEF IndInv, SentKept
    <3>3. due \in Int
      BY <2>2, BlockTimes, Shapes, <1>3 DEF IndInv, OpFits, Times
    <3> HIDE DEF due
    <3>4. Placed(op.sent).start >= due
      BY <1>1, <2>2, <3>1, <3>2, <3>3
    <3>5. QED
      BY <1>3, <2>1, <2>2, <2>5, <3>4 DEF due
  <2>6. QED
    BY <2>4, <2>5
<1>4. CASE op.kind # "create" /\ Effect = rule
  BY <1>4 DEF IndInv, StartKept, MovedBy
<1>5. QED
  BY <1>2, <1>3, <1>4, EffectCases

LEMMA EffectKnown ==
  ASSUME IndInv, op.phase = "request", ~MovedBy(op.kind), Effect # None,
         lag = 0
  PROVE  /\ Begun(Effect) \/ \E s \in Starts : Effect.start = s * PerSecond
         /\ entry # None =>
                /\ entry.effective = Effect.start
                /\ Begun(Effect) \/ Effect.start = entry.start * PerSecond
         /\ op.kind = "create" =>
                Begun(Effect) \/ Effect.start = block.start * PerSecond
<1>1. now \in Times /\ now \in Int
  BY Shapes DEF IndInv, TypeOK
<1>2. CASE op.kind = "create"
  <2>1. entry = None /\ op.sent \in Rules /\ block.start \in Starts
        /\ op.sent.start = block.start * PerSecond
    BY <1>2, Shapes DEF IndInv, OpFits, SentRules
  <2>2. /\ Effect = Placed(op.sent)
        /\ Effect.start = IF op.sent.start >= now THEN op.sent.start ELSE now
    BY <1>1, <1>2, <2>1, EffectCases, PlacedRule
  <2>3. Begun(Effect) \/ Effect.start = op.sent.start
    BY <1>1, <2>2 DEF Begun
  <2>4. QED
    BY <2>1, <2>3
<1>3. CASE op.kind = "update" /\ Effect # rule
  <2>1. /\ ~Refused /\ rule # None /\ ~moved /\ entry # None
        /\ Effect = IF Begun(rule) THEN op.sent ELSE Placed(op.sent)
    BY <1>3, EffectCases DEF MovedBy, IndInv, OpFits
  <2>2. op.sent \in Rules /\ rule \in Rules
    BY <1>3, <2>1, Shapes DEF IndInv, OpFits, SentRules
  <2>3. op.sent.start = rule.start /\ rule.start \in Int
    BY <1>3, <2>1, <2>2 DEF IndInv, StartKnown, Rules, Times
  <2>4. Effect.start = rule.start
    <3>1. CASE Begun(rule)
      BY <2>1, <2>3, <3>1
    <3>2. CASE ~Begun(rule)
      <4>1. op.sent.start >= now
        BY <1>1, <2>3, <3>2 DEF Begun
      <4>2. QED
        BY <1>1, <2>1, <2>2, <2>3, <3>2, <4>1, PlacedRule
    <3>3. QED
      BY <3>1, <3>2
  <2>5. QED
    BY <1>3, <2>1, <2>4 DEF IndInv, StartKnown, Begun
<1>4. CASE op.kind # "create" /\ Effect = rule
  BY <1>4 DEF IndInv, StartKnown, MovedBy
<1>5. QED
  BY <1>2, <1>3, <1>4, EffectCases

LEMMA AnswerTells ==
  ASSUME IndInv, op.phase = "request"
  PROVE  /\ Refused => Answer = [code |-> "badrequest", rule |-> None]
         /\ ~Refused /\ Missing => Answer = [code |-> "notfound", rule |-> None]
         /\ ~Refused /\ ~Missing => Answer = [code |-> "ok", rule |-> Effect]
         /\ Answer.code \in {"ok", "badrequest", "notfound"}
         /\ Answer.rule \in Rules \union {None}
         /\ Answer.code # "ok" => Effect = rule
         /\ Refused => op.kind \in {"update", "delete"}
         /\ Missing => rule = None /\ op.kind # "create" /\ ~Refused
<1>1. /\ Refused => Answer = [code |-> "badrequest", rule |-> None]
      /\ ~Refused /\ Missing => Answer = [code |-> "notfound", rule |-> None]
      /\ ~Refused /\ ~Missing => Answer = [code |-> "ok", rule |-> Effect]
  BY DEF Answer
<1>2. /\ Refused => op.kind \in {"update", "delete"}
      /\ Missing => rule = None /\ op.kind # "create" /\ ~Refused
  BY DEF Refused, Missing
<1>3. Refused \/ Missing => Effect = rule
  BY <1>2, EffectCases
<1>4. QED
  BY <1>1, <1>2, <1>3, EffectRule

LEMMA ServerAnswersKeeps ==
  ASSUME IndInv, ServerAnswers
  PROVE  IndInv'
<1>1. /\ op.phase = "request" /\ rule' = Effect /\ moved' = MovedBy(op.kind)
      /\ op' = [op EXCEPT !.phase = "reply", !.reply = Answer]
      /\ unread' = (unread /\ Answer.code # "ok")
      /\ UNCHANGED <<now, lag, block, entry, budget>>
  BY DEF ServerAnswers
<1>2. op \in Operations /\ Answer.rule \in Rules \union {None}
      /\ Answer \in [code : {"none", "ok", "badrequest", "notfound", "failed"},
                     rule : Rules \union {None}]
  BY <1>1, AnswerTells, EffectRule DEF IndInv, TypeOK
<1>3. /\ op' \in Operations /\ op'.kind = op.kind /\ op'.sent = op.sent
      /\ op'.phase = "reply" /\ op'.reply = Answer
      /\ op.kind # "idle"
  BY <1>1, <1>2 DEF Operations, IndInv, OpFits
<1>4. moved \in BOOLEAN /\ unread \in BOOLEAN
  BY DEF IndInv, TypeOK
<1>5. moved' \in BOOLEAN
  BY <1>1, <1>4 DEF MovedBy
<1>6. unread' \in BOOLEAN
  BY <1>1, <1>4
<1>7. TypeOK'
  <2>1. now' \in Times /\ lag' \in 0..MaxLag /\ block' \in Blocks \union {None}
        /\ entry' \in Entries \union {None} /\ budget' \in 0..MaxDisturbances
    BY <1>1 DEF IndInv, TypeOK
  <2>2. rule' \in Rules \union {None}
    BY <1>1, EffectRule
  <2>3. QED
    BY <1>3, <1>5, <1>6, <2>1, <2>2 DEF TypeOK
<1>8. OpFits'
  BY <1>1, <1>3 DEF IndInv, OpFits
<1>9. Ok' => ~Refused /\ ~Missing /\ Answer = [code |-> "ok", rule |-> Effect]
  BY <1>1, <1>3, AnswerTells DEF Ok
<1>10. Ok' /\ op.kind # "delete" => Effect \in Rules
  BY <1>1, <1>9, EffectCases, EffectRule, Shapes DEF Missing
<1>11. Ok' /\ op.kind = "delete" => Effect = None
  BY <1>1, <1>9, EffectCases DEF Missing
<1>12. ReplyTells'
  <2>1. Ok' /\ op.kind # "delete" =>
            /\ op'.reply.rule \in Rules
            /\ rule' = op'.reply.rule
            /\ rule' # None /\ rule'.start = op'.reply.rule.start
    BY <1>1, <1>3, <1>9, <1>10, MutingAssumption
  <2>2. Ok' /\ op.kind \in {"create", "update"} =>
            op'.reply.rule.scope.filter # "many"
    BY <1>1, <1>3, <1>9, EffectRule
  <2>3. op'.reply.code = "notfound" => rule' = None /\ op.kind # "create"
    BY <1>1, <1>3, AnswerTells
  <2>4. op'.reply.code = "badrequest" => op.kind \in {"update", "delete"}
    BY <1>1, <1>3, AnswerTells
  <2>5. op'.reply.code # "failed" /\ op'.reply.code # "none"
    BY <1>1, <1>3, AnswerTells
  <2>6. QED
    BY <1>1, <1>3, <1>11, <2>1, <2>2, <2>3, <2>4, <2>5 DEF ReplyTells
<1>13. EntryRead'
  <2>1. ~Ok' => Effect = rule /\ (~unread' => ~unread)
    BY <1>1, <1>3, <1>4, AnswerTells DEF Ok
  <2>2. ~Ok
    BY <1>1 DEF IndInv, ReplyTells, NoReply, Ok
  <2>3. QED
    BY <1>1, <2>1, <2>2 DEF IndInv, EntryRead, Unreadable, Read, ReadDetectors
<1>14. StartKept'
  BY <1>1, <1>3, EffectStarts DEF StartKept
<1>15. SentKept'
  BY <1>3 DEF SentKept
<1>16. StartKnown'
  BY <1>1, <1>3, EffectKnown DEF StartKnown, Begun
<1>17. QED
  BY <1>7, <1>8, <1>12, <1>13, <1>14, <1>15, <1>16 DEF IndInv

\* A call that fails, whether or not it was carried out.
LEMMA FailsKeeps ==
  ASSUME IndInv, NEW r, r \in {rule, Effect}, Fails(r)
  PROVE  IndInv'
<1>1. /\ op.phase = "request" /\ rule' = r
      /\ op' = [op EXCEPT !.phase = "reply",
                          !.reply = [NoReply EXCEPT !.code = "failed"]]
      /\ moved' = IF r = rule THEN moved ELSE MovedBy(op.kind)
      /\ unread' = TRUE
      /\ Disturb
      /\ UNCHANGED <<now, lag, block, entry>>
  BY DEF Fails
<1>2. op \in Operations
  BY DEF IndInv, TypeOK
<1>3. /\ op' \in Operations /\ op'.kind = op.kind /\ op'.sent = op.sent
      /\ op'.phase = "reply" /\ op'.reply.code = "failed"
      /\ op.kind # "idle"
  BY <1>1, <1>2 DEF Operations, NoReply, IndInv, OpFits
<1>4. moved \in BOOLEAN /\ MovedBy(op.kind) \in BOOLEAN
  BY DEF IndInv, TypeOK, MovedBy
<1>5. TypeOK'
  <2>1. now' \in Times /\ lag' \in 0..MaxLag /\ block' \in Blocks \union {None}
        /\ entry' \in Entries \union {None}
    BY <1>1 DEF IndInv, TypeOK
  <2>2. budget' \in 0..MaxDisturbances
    <3>1. budget \in 0..MaxDisturbances /\ budget > 0 /\ budget' = budget - 1
      BY <1>1 DEF IndInv, TypeOK, Disturb
    <3>2. QED
      BY <3>1, MutingAssumption
  <2>3. rule' \in Rules \union {None}
    BY <1>1, EffectRule DEF IndInv, TypeOK
  <2>4. moved' \in BOOLEAN
    BY <1>1, <1>4
  <2>5. unread' \in BOOLEAN
    BY <1>1
  <2>6. QED
    BY <1>3, <2>1, <2>2, <2>3, <2>4, <2>5 DEF TypeOK
<1>6. OpFits'
  BY <1>1, <1>3 DEF IndInv, OpFits
<1>7. ReplyTells' /\ EntryRead' /\ SentKept'
  BY <1>1, <1>3 DEF ReplyTells, EntryRead, SentKept, Ok
<1>8. StartKept'
  BY <1>1, <1>3, EffectStarts DEF IndInv, StartKept, Ok
<1>9. StartKnown'
  <2>1. CASE r = rule
    BY <1>1, <1>3, <2>1 DEF IndInv, StartKnown, Ok, Begun
  <2>2. CASE r # rule
    BY <1>1, <1>3, <2>2, EffectKnown DEF StartKnown, Ok, Begun
  <2>3. QED
    BY <2>1, <2>2
<1>10. QED
  BY <1>5, <1>6, <1>7, <1>8, <1>9 DEF IndInv

----------------------------------------------------------------------------
(* The handlers.                                                           *)

LEMMA ReturnKeeps ==
  ASSUME IndInv,
         NEW kind, NEW e \in Entries \union {None},
         Return(kind, e),
         e # None /\ rule # None /\ ~unread /\ ~Unreadable => Read(e, rule),
         e # None /\ rule # None /\ ~moved =>
             rule.start >= e.start * PerSecond,
         e # None /\ rule # None /\ ~moved /\ lag = 0 =>
             /\ e.effective = rule.start
             /\ Begun(rule) \/ rule.start = e.start * PerSecond
  PROVE  IndInv'
<1>1. /\ entry' = e /\ op' = Idle
      /\ UNCHANGED <<now, lag, block, rule, moved, unread, budget>>
  BY DEF Return
<1>2. /\ op'.kind = "idle" /\ op'.phase = "none" /\ op'.reply = NoReply
      /\ op'.reply.code = "none"
  BY <1>1 DEF Idle, NoReply
<1>3. TypeOK'
  BY <1>1, IdleIsOperation DEF IndInv, TypeOK
<1>4. OpFits' /\ ReplyTells' /\ SentKept'
  BY <1>1, <1>2 DEF OpFits, ReplyTells, SentKept, Ok
<1>5. EntryRead'
  BY <1>1 DEF EntryRead, Unreadable, Read, ReadDetectors
<1>6. StartKept'
  BY <1>1, <1>2 DEF StartKept
<1>7. StartKnown'
  BY <1>1, <1>2 DEF IndInv, StartKnown, Begun
<1>8. QED
  BY <1>3, <1>4, <1>5, <1>6, <1>7 DEF IndInv

LEMMA RefreshReturnsKeeps ==
  ASSUME IndInv, RefreshReturns
  PROVE  IndInv'
<1>1. op.kind = "refresh" /\ op.phase = "reply" /\ entry # None
      /\ Return("refresh", AfterRead)
  BY DEF RefreshReturns, Return, IndInv, OpFits
<1>2. entry \in Entries /\ entry.start \in Times /\ entry.tainted \in BOOLEAN
  BY <1>1, Shapes DEF Entries
<1>3. CASE Ok /\ op.reply.rule.scope.filter # "many"
  <2> DEFINE read == updateFromRule(entry.start, op.reply.rule)
  <2>1. op.reply.rule \in Rules
    BY <1>1, <1>3 DEF IndInv, ReplyTells
  <2>2. /\ read \in Entries /\ read.start = entry.start
        /\ read.effective = op.reply.rule.start /\ Read(read, op.reply.rule)
    BY <1>2, <1>3, <2>1, ReadEntry
  <2>3. AfterRead = [read EXCEPT !.tainted = entry.tainted]
    BY <1>3 DEF AfterRead
  <2> HIDE DEF read
  <2>4. /\ AfterRead \in Entries /\ AfterRead.start = entry.start
        /\ AfterRead.effective = op.reply.rule.start
        /\ Read(AfterRead, op.reply.rule)
    BY <1>2, <2>2, <2>3 DEF Entries, Read
  <2>5. ~unread => rule = op.reply.rule
    BY <1>1, <1>3 DEF IndInv, ReplyTells
  <2>6. ~moved => rule # None /\ rule.start = op.reply.rule.start
    BY <1>1, <1>3 DEF IndInv, ReplyTells
  <2>7. QED
    BY <1>1, <2>4, <2>5, <2>6, ReturnKeeps DEF IndInv, StartKept, StartKnown
<1>4. CASE ~(Ok /\ op.reply.rule.scope.filter # "many")
  <2>1. AfterRead = entry
    BY <1>4 DEF AfterRead
  <2>2. rule # None /\ ~unread /\ ~Unreadable => Read(entry, rule)
    BY <1>1, <1>4 DEF IndInv, ReplyTells, EntryRead, Unreadable
  <2>3. QED
    BY <1>1, <1>2, <2>1, <2>2, ReturnKeeps DEF IndInv, StartKept, StartKnown
<1>5. QED
  BY <1>3, <1>4

LEMMA CreateReturnsKeeps ==
  ASSUME IndInv, CreateReturns
  PROVE  IndInv'
<1>1. op.kind = "create" /\ op.phase = "reply" /\ block # None
      /\ Return("create", AfterCreate)
  BY DEF CreateReturns, Return, IndInv, OpFits
<1>2. block \in Blocks /\ block.start \in Times /\ Inconsistent \in BOOLEAN
  BY <1>1, Shapes, BlockTimes DEF Inconsistent
<1>3. CASE Ok
  <2> DEFINE read == updateFromRule(block.start, op.reply.rule)
  <2>1. op.reply.rule \in Rules /\ op.reply.rule.scope.filter # "many"
    BY <1>1, <1>3 DEF IndInv, ReplyTells
  <2>2. /\ read \in Entries /\ read.start = block.start
        /\ read.effective = op.reply.rule.start /\ Read(read, op.reply.rule)
    BY <1>2, <2>1, ReadEntry
  <2>3. AfterCreate = [read EXCEPT !.tainted = Inconsistent]
    BY <1>3 DEF AfterCreate
  <2> HIDE DEF read
  <2>4. /\ AfterCreate \in Entries /\ AfterCreate.start = block.start
        /\ AfterCreate.effective = op.reply.rule.start
        /\ Read(AfterCreate, op.reply.rule)
    BY <1>2, <2>2, <2>3 DEF Entries, Read
  <2>5. ~unread => rule = op.reply.rule
    BY <1>1, <1>3 DEF IndInv, ReplyTells
  <2>6. ~moved => rule # None /\ rule.start = op.reply.rule.start
    BY <1>1, <1>3 DEF IndInv, ReplyTells
  <2>7. QED
    BY <1>1, <1>3, <2>4, <2>5, <2>6, ReturnKeeps
       DEF IndInv, StartKept, StartKnown
<1>4. CASE ~Ok
  BY <1>1, <1>4, ReturnKeeps DEF AfterCreate
<1>5. QED
  BY <1>3, <1>4

LEMMA UpdateReturnsKeeps ==
  ASSUME IndInv, UpdateReturns
  PROVE  IndInv'
<1>1. op.kind = "update" /\ op.phase = "reply" /\ entry # None /\ block # None
      /\ block.start = entry.start
      /\ Return("update", AfterUpdate)
  BY DEF UpdateReturns, Return, IndInv, OpFits
<1>2. entry \in Entries /\ block.start \in Times
  BY <1>1, Shapes, BlockTimes
<1>3. CASE Ok
  <2>1. op.reply.rule \in Rules /\ op.reply.rule.scope.filter # "many"
    BY <1>1, <1>3 DEF IndInv, ReplyTells
  <2>2. /\ AfterUpdate \in Entries /\ AfterUpdate.start = entry.start
        /\ AfterUpdate.effective = op.reply.rule.start
        /\ Read(AfterUpdate, op.reply.rule)
    BY <1>1, <1>2, <1>3, <2>1, ReadEntry DEF AfterUpdate
  <2>3. ~unread => rule = op.reply.rule
    BY <1>1, <1>3 DEF IndInv, ReplyTells
  <2>4. ~moved => rule # None /\ rule.start = op.reply.rule.start
    BY <1>1, <1>3 DEF IndInv, ReplyTells
  <2>5. QED
    BY <1>1, <2>2, <2>3, <2>4, ReturnKeeps DEF IndInv, StartKept, StartKnown
<1>4. CASE ~Ok
  BY <1>1, <1>2, <1>4, ReturnKeeps
     DEF AfterUpdate, IndInv, EntryRead, StartKept, StartKnown
<1>5. QED
  BY <1>3, <1>4

LEMMA DeleteReturnsKeeps ==
  ASSUME IndInv, DeleteReturns
  PROVE  IndInv'
<1>1. op.kind = "delete" /\ op.phase = "reply" /\ entry # None
      /\ Return("delete", AfterDelete)
  BY DEF DeleteReturns, Return, IndInv, OpFits
<1>2. CASE op.reply.code = "failed"
  <2>1. unread /\ AfterDelete = entry /\ entry \in Entries
    BY <1>1, <1>2, Shapes DEF IndInv, ReplyTells, AfterDelete
  <2>2. QED
    BY <1>1, <2>1, ReturnKeeps DEF IndInv, StartKept, StartKnown
<1>3. CASE op.reply.code # "failed"
  BY <1>1, <1>3, ReturnKeeps DEF AfterDelete
<1>4. QED
  BY <1>2, <1>3

----------------------------------------------------------------------------
(* The theorems.                                                           *)

LEMMA InitInv == Init => IndInv
<1> SUFFICES ASSUME Init PROVE IndInv
  OBVIOUS
<1>1. op = Idle /\ op.kind = "idle" /\ op.phase = "none"
      /\ op.reply = NoReply /\ op.reply.code = "none"
      /\ entry = None /\ rule = None
  BY DEF Init, Idle, NoReply
<1>2. TypeOK
  <2>1. now \in Times /\ lag \in 0..MaxLag /\ budget \in 0..MaxDisturbances
    BY MutingAssumption DEF Init, Times
  <2>2. QED
    BY <2>1, IdleIsOperation DEF Init, TypeOK
<1>3. OpFits /\ ReplyTells /\ EntryRead /\ StartKept /\ SentKept /\ StartKnown
  BY <1>1 DEF OpFits, ReplyTells, EntryRead, StartKept, SentKept, StartKnown, Ok
<1>4. QED
  BY <1>2, <1>3 DEF IndInv

LEMMA NextKeeps == IndInv /\ [Next]_vars => IndInv'
<1> SUFFICES ASSUME IndInv, [Next]_vars PROVE IndInv'
  OBVIOUS
<1>1. CASE Tick
  BY <1>1, TickKeeps
<1>2. ASSUME NEW b \in OtherBlocks \union {None}, EditBlock(b)
      PROVE  IndInv'
  <2>1. b \in Blocks \union {None}
    BY DEF OtherBlocks
  <2>2. QED
    BY <1>2, <2>1, EditBlockKeeps
<1>3. ASSUME rule # None, NEW r \in OtherRules, OthersEdit(r)
      PROVE  IndInv'
  BY <1>3, OthersEditKeeps
<1>4. CASE StartRefresh \/ StartCreate \/ StartUpdate \/ StartDelete \/ Import
  BY <1>4, StartRefreshKeeps, StartCreateKeeps, StartUpdateKeeps,
     StartDeleteKeeps, ImportKeeps
<1>5. CASE ServerAnswers
  BY <1>5, ServerAnswersKeeps
<1>6. CASE CallFails \/ ReplyLost
  BY <1>6, FailsKeeps DEF CallFails, ReplyLost
<1>7. CASE \/ RefreshReturns \/ CreateReturns
           \/ UpdateReturns \/ DeleteReturns
  BY <1>7, RefreshReturnsKeeps, CreateReturnsKeeps, UpdateReturnsKeeps,
     DeleteReturnsKeeps
<1>8. CASE UNCHANGED vars
  BY <1>8 DEF vars, IndInv, TypeOK, OpFits, ReplyTells, EntryRead, StartKept,
              SentKept, StartKnown, Ok, Begun, Read, ReadDetectors, Unreadable
<1>9. QED
  BY <1>1, <1>2, <1>3, <1>4, <1>5, <1>6, <1>7, <1>8 DEF Next

(* The entry is the rule as the last answer gave it, until others edit it  *)
(* or a call fails; with a right clock a rule nobody moved has the start   *)
(* its entry knows, and a pending update repeats it.                       *)
THEOREM Inductive == Spec => []IndInv
  BY InitInv, NextKeeps, PTL DEF Spec

(* Blocks, entries, rules and calls keep their shape, so no time leaves    *)
(* what the program and the API can hold.                                  *)
THEOREM TypeCorrect == Spec => []TypeOK
<1>1. IndInv => TypeOK
  BY DEF IndInv
<1>2. QED
  BY <1>1, Inductive, PTL

LEMMA MutesInductively == IndInv => MutesAsWritten
<1> SUFFICES ASSUME IndInv, op = Idle, Agreed, ~unread, rule # None, ~Unreadable
             PROVE  /\ rule.stop \div PerSecond = block.stop
                    /\ rule.scope.filter = block.scope.filter
                    /\ block.scope.detectors = "some"
                           <=> rule.scope.detectors # "none"
                    /\ moved \/ rule.start >= block.start * PerSecond
  BY DEF MutesAsWritten
<1>1. ~Ok
  BY DEF Idle, NoReply, Ok
<1>2. /\ entry # None /\ block # None
      /\ block.start = entry.start /\ block.stop = entry.stop
      /\ block.scope.filter = entry.filter
      /\ block.scope.detectors = entry.detectors
  BY DEF Agreed, Replaced, Differs
<1>3. Read(entry, rule)
  BY <1>1, <1>2 DEF IndInv, EntryRead
<1>4. block.scope.detectors = "some" <=> rule.scope.detectors # "none"
  BY <1>2, <1>3 DEF Read, ReadDetectors
<1>5. ~moved => rule.start >= block.start * PerSecond
  BY <1>2 DEF IndInv, StartKept
<1>6. QED
  BY <1>2, <1>3, <1>4, <1>5 DEF Read

(* A rule that Terraform has nothing to apply to, and has read as it is,   *)
(* mutes what its block says until the second it says and, unless others   *)
(* moved it, not before: updateFromRule and toRequest undo each other for  *)
(* any times and length of a second.                                       *)
THEOREM MutesForEveryTime == Spec => []MutesAsWritten
  BY MutesInductively, Inductive, PTL

LEMMA UpdatesInductively ==
  IndInv /\ [Next]_vars =>
      [op.phase = "request" /\ op.kind = "update"
           /\ op'.reply.code = "badrequest" => moved \/ lag > 0]_vars
<1> SUFFICES ASSUME IndInv, [Next]_vars, op.phase = "request",
                    op.kind = "update", op'.reply.code = "badrequest",
                    ~moved, vars' # vars
             PROVE  lag > 0
  BY DEF IndInv, TypeOK
<1>1. op.reply.code = "none" /\ op # Idle
  BY DEF IndInv, ReplyTells, NoReply, Idle
<1>2. op' # op
  BY <1>1
<1>3. ~CallFails /\ ~ReplyLost
  <2>1. ASSUME NEW r, Fails(r) PROVE FALSE
    <3>1. op \in Operations
      BY DEF IndInv, TypeOK
    <3>2. op'.reply.code = "failed"
      BY <2>1, <3>1 DEF Fails, Operations, NoReply
    <3>3. QED
      BY <3>2
  <2>2. QED
    BY <2>1 DEF CallFails, ReplyLost
<1>4. ServerAnswers
  BY <1>1, <1>2, <1>3
     DEF Next, Tick, EditBlock, OthersEdit, StartRefresh, StartCreate,
         StartUpdate, StartDelete, Begin, Import, RefreshReturns,
         CreateReturns, UpdateReturns, DeleteReturns, Return, vars
<1>5. Answer.code = "badrequest"
  <2>1. op \in Operations /\ op' = [op EXCEPT !.phase = "reply", !.reply = Answer]
    BY <1>4 DEF IndInv, TypeOK, ServerAnswers
  <2>2. QED
    BY <2>1 DEF Operations
<1>6. Refused
  BY <1>5, AnswerTells
<1>7. rule # None /\ op.sent.start # rule.start
  BY <1>6 DEF Refused
<1>8. lag # 0
  BY <1>7 DEF IndInv, StartKnown
<1>9. QED
  BY <1>8, MutingAssumption DEF IndInv, TypeOK

(* The API never refuses an update for its start, however the clock ticks  *)
(* between plan, request and answer, if nobody else moved the rule and the *)
(* local clock is right: toRequest sends the effective start exactly when  *)
(* the rule has begun.                                                     *)
THEOREM UpdatesTaken == Spec => UpdatesAccepted
<1>1. IndInv /\ [Next]_vars =>
          [op.phase = "request" /\ op.kind = "update"
               /\ op'.reply.code = "badrequest" => moved \/ lag > 0]_vars
  BY UpdatesInductively
<1>2. QED
  BY <1>1, Inductive, PTL DEF Spec, UpdatesAccepted
=============================================================================
