--------------------------- MODULE OrgToken_proofs ---------------------------
EXTENDS OrgToken, TLAPS

Excused == moved \union lost \union stranded
Serial(n) == tokens[n].serial

(* A token has its number to itself, given when it was made.               *)
Numbered ==
    /\ \A n \in Names : Taken(n) => Serial(n) \in 1..born
    /\ \A n, m \in Names : Taken(n) /\ Taken(m) /\ Serial(n) = Serial(m) => n = m
    /\ own \subseteq 1..born
    /\ op.reply.secret \in 0..born

(* An operation works on the entry it was started for.                     *)
OpOnEntry ==
    /\ op.phase # "reply" => op.reply = NoReply
    /\ op.kind = "idle" <=> op.phase = "none"
    /\ op.kind = "idle" => op = Idle
    /\ op.kind = "create" => entry = None
    /\ op.kind \in {"refresh", "update", "delete"} => entry # None /\ op.id = entry.id
    /\ op.kind \in {"create", "update"} => op.sent \in Desired

(* The name in a success is a name of the token that the secret in it is   *)
(* of, until others rename or delete the token.                            *)
ReplyNamesToken ==
    Ok => /\ op.kind \in {"create", "update"} => op.reply.name = op.sent.name
          /\ op.kind = "refresh" => op.reply.name = op.id
          /\ op.kind = "create" => op.reply.value = op.sent.value
          /\ op.kind # "delete" =>
                \/ Taken(op.reply.name) /\ Serial(op.reply.name) = op.reply.secret
                \/ op.reply.secret \in moved
          /\ op.kind # "delete" /\ ~drifted =>
                /\ Taken(op.reply.name) /\ Serial(op.reply.name) = op.reply.secret
                /\ tokens[op.reply.name].value = op.reply.value

(* The secret of the entry is that of the token it names, unless an update *)
(* or a delete was just answered, or the entry never held a secret, or the *)
(* token was moved, touched by a lost call or stranded.                    *)
SecretMatches ==
    entry # None =>
        \/ Ok /\ op.kind \in {"update", "delete"}
        \/ Taken(entry.id) /\ Serial(entry.id) = entry.secret
        \/ entry.secret \in {0} \union Excused

AnswerMatches ==
    Ok /\ op.kind \in {"update", "delete"} =>
        op.reply.secret = entry.secret \/ entry.secret \in {0} \union Excused

(* Where an update or a delete has been, and where a 404 says there is     *)
(* nothing, there is no token of this block's but the one written.         *)
Left == NotFound \/ (Ok /\ op.kind \in {"update", "delete"})
LeftBehind ==
    Left /\ Taken(op.id) /\ Serial(op.id) \in own =>
        \/ Serial(op.id) \in Excused
        \/ op.kind = "update" /\ Ok /\ Serial(op.id) = op.reply.secret

(* A token that a DELETE removed is not found again.                       *)
DeletedIsGone ==
    Ok /\ op.kind = "delete" =>
        /\ op.reply.secret # 0
        /\ \A n \in Names : Taken(n) /\ Serial(n) \in own /\ Serial(n) = op.reply.secret
               => Serial(n) \in Excused

IndInv ==
    /\ TypeOK
    /\ Numbered
    /\ OpOnEntry
    /\ ReplyNamesToken
    /\ SecretMatches
    /\ AnswerMatches
    /\ LeftBehind
    /\ DeletedIsGone
    /\ NotFound => op.kind \in {"refresh", "update", "delete"}
    /\ FirstBuildServesLegacy
    /\ OwnTokensKnown
    /\ EntryMatchesToken

----------------------------------------------------------------------------
(* Shapes.                                                                 *)

LEMMA NoReplyGives ==
  /\ NoReply \in Replies /\ NoReply.code = "none" /\ NoReply.secret = 0
  BY DEF NoReply, Replies, Values

LEMMA IdleGives ==
  /\ Idle \in Operations /\ Idle.kind = "idle" /\ Idle.phase = "none"
  /\ Idle.reply = NoReply
  BY NoReplyGives, OrgTokenAssumption DEF Idle, Operations

LEMMA DisturbCounts ==
  ASSUME budget \in 0..MaxDisturbances, Disturb
  PROVE  budget' \in 0..MaxDisturbances
  BY OrgTokenAssumption DEF Disturb

LEMMA TokenIsRecord ==
  ASSUME TypeOK, NEW n \in Names, Taken(n)
  PROVE  tokens[n] \in Tokens /\ Serial(n) \in Secrets /\ tokens[n].value \in Values
  BY DEF TypeOK, Taken, Tokens, Serial, Secrets

LEMMA EntryIsRecord ==
  ASSUME TypeOK, entry # None
  PROVE  /\ entry \in Entries /\ entry.id \in Names /\ entry.name \in Names
         /\ entry.value \in Values /\ entry.secret \in Secrets \union {0}
  BY DEF TypeOK, Entries

LEMMA OpIsRecord ==
  ASSUME TypeOK
  PROVE  /\ op \in Operations /\ op.reply \in Replies /\ op.tries \in 0..RetryMax
         /\ op.sent # None => op.sent \in Desired
         /\ op.reply.value \in Values /\ op.reply.secret \in Secrets \union {0}
  BY DEF TypeOK, Operations, Replies

LEMMA RepliedKinds ==
  ASSUME IndInv
  PROVE  /\ op.phase # "reply" => ~Ok /\ ~NotFound /\ op.reply = NoReply
         /\ Ok => op.kind \in {"refresh", "create", "update", "delete"}
         /\ entry # None => entry.id \in Names
         /\ op.kind \in {"refresh", "update", "delete"} => op.id \in Names
         /\ op.kind \in {"create", "update"} => op.sent.name \in Names
         /\ Left => op.id \in Names
         /\ Ok /\ op.kind # "delete" => op.reply.name \in Names
<1>1. entry # None => entry.id \in Names
  BY EntryIsRecord DEF IndInv
<1>2. op.kind \in {"refresh", "update", "delete"} => op.id \in Names
  BY <1>1 DEF IndInv, OpOnEntry
<1>3. op.kind \in {"create", "update"} => op.sent.name \in Names
  BY DEF IndInv, OpOnEntry, Desired
<1>4. op.phase # "reply" => ~Ok /\ ~NotFound /\ op.reply = NoReply
  BY NoReplyGives DEF IndInv, OpOnEntry, Ok, NotFound
<1>5. Ok => op.kind \in {"refresh", "create", "update", "delete"}
  <2>1. op.kind \in {"idle", "refresh", "create", "update", "delete"}
    BY DEF IndInv, TypeOK, Operations
  <2>2. QED
    BY <1>4, <2>1 DEF IndInv, OpOnEntry
<1>6. Left => op.id \in Names
  BY <1>2 DEF IndInv, Left
<1>7. Ok /\ op.kind # "delete" => op.reply.name \in Names
  BY <1>2, <1>3, <1>5 DEF IndInv, ReplyNamesToken
<1>8. QED
  BY <1>1, <1>2, <1>3, <1>4, <1>5, <1>6, <1>7

----------------------------------------------------------------------------
(* The process, the block, and other users.                                *)

LEMMA ProcessKeeps ==
  ASSUME IndInv, NEW p \in Processes, ProcessStep(p),
         budget' \in 0..MaxDisturbances, p.builds = 1 => p.handlers = "legacy"
  PROVE  IndInv'
<1>1. /\ process' = p /\ op = Idle
      /\ UNCHANGED <<fixed, block, entry, tokens, born, op, outcome, drifted, history>>
  BY DEF ProcessStep
<1>2. TypeOK'
  BY <1>1 DEF IndInv, TypeOK, fixed, history
<1>3. Numbered' /\ OpOnEntry' /\ ReplyNamesToken' /\ SecretMatches'
      /\ AnswerMatches' /\ LeftBehind' /\ DeletedIsGone'
  BY <1>1 DEF IndInv, history, Numbered, OpOnEntry, ReplyNamesToken, SecretMatches, AnswerMatches,
              LeftBehind, DeletedIsGone, Left, Ok, NotFound, Taken, Serial, Excused
<1>4. (NotFound => op.kind \in {"refresh", "update", "delete"})'
  BY <1>1 DEF IndInv, NotFound
<1>5. FirstBuildServesLegacy'
  BY <1>1 DEF FirstBuildServesLegacy
<1>6. OwnTokensKnown' /\ EntryMatchesToken'
  BY <1>1 DEF IndInv, fixed, history, OwnTokensKnown, EntryMatchesToken, Taken, InFlight, Ok
<1>7. QED
  BY <1>2, <1>3, <1>4, <1>5, <1>6 DEF IndInv

LEMMA ProcessesKeep ==
  ASSUME IndInv, NewProcess \/ Configure \/ BuildAgain
  PROVE  IndInv'
<1>1. process \in Processes /\ budget \in 0..MaxDisturbances /\ asked \in BOOLEAN
  BY DEF IndInv, TypeOK
<1>2. Started \in Processes /\ Started.builds = 1 /\ Started.handlers = "legacy"
  BY DEF Started, HandlersFor, Processes
<1>3. CASE NewProcess
  BY <1>1, <1>2, <1>3, ProcessKeeps DEF NewProcess
<1>4. CASE Configure
  <2> DEFINE p == [process EXCEPT !.configured = TRUE, !.preview = @ \/ asked]
  <2>1. p \in Processes /\ p.builds = process.builds /\ p.handlers = process.handlers
    BY <1>1 DEF Processes
  <2>2. ProcessStep(p) /\ budget' \in 0..MaxDisturbances
    BY <1>1, <1>4 DEF Configure
  <2>3. p.builds = 1 => p.handlers = "legacy"
    BY <2>1 DEF IndInv, FirstBuildServesLegacy
  <2> HIDE DEF p
  <2>4. QED
    BY <2>1, <2>2, <2>3, ProcessKeeps
<1>5. CASE BuildAgain
  <2> DEFINE p == [process EXCEPT !.builds = 2, !.configured = FALSE,
                                  !.handlers = HandlersFor(process.preview)]
  <2>1. p \in Processes /\ p.builds = 2
    <3>1. \A h \in {"legacy", "vnext"}, k \in 0..2 :
             LET q == [process EXCEPT !.builds = k, !.configured = FALSE, !.handlers = h]
             IN  q \in Processes /\ q.builds = k
      BY <1>1 DEF Processes
    <3>2. PICK h \in {"legacy", "vnext"} : h = HandlersFor(process.preview)
      BY DEF HandlersFor
    <3>3. p = [process EXCEPT !.builds = 2, !.configured = FALSE, !.handlers = h]
      BY <3>2
    <3>4. 2 \in 0..2
      OBVIOUS
    <3>5. QED
      BY <3>1, <3>3, <3>4
  <2>2. ProcessStep(p) /\ budget' \in 0..MaxDisturbances
    BY <1>1, <1>5, DisturbCounts DEF BuildAgain
  <2> HIDE DEF p
  <2>3. QED
    BY <2>1, <2>2, ProcessKeeps
<1>6. QED
  BY <1>3, <1>4, <1>5

LEMMA EditBlockKeeps ==
  ASSUME IndInv, NEW b \in Desired \union {None}, EditBlock(b)
  PROVE  IndInv'
<1>1. /\ block' = b
      /\ UNCHANGED <<fixed, process, entry, tokens, born, op, outcome, drifted, history>>
      /\ budget' \in 0..MaxDisturbances
  BY DisturbCounts DEF EditBlock, IndInv, TypeOK
<1>2. TypeOK'
  BY <1>1 DEF IndInv, TypeOK, fixed, history
<1>3. Numbered' /\ OpOnEntry' /\ ReplyNamesToken' /\ SecretMatches'
      /\ AnswerMatches' /\ LeftBehind' /\ DeletedIsGone'
  BY <1>1 DEF IndInv, history, Numbered, OpOnEntry, ReplyNamesToken, SecretMatches, AnswerMatches,
              LeftBehind, DeletedIsGone, Left, Ok, NotFound, Taken, Serial, Excused
<1>4. (NotFound => op.kind \in {"refresh", "update", "delete"})'
      /\ FirstBuildServesLegacy'
  BY <1>1 DEF IndInv, NotFound, FirstBuildServesLegacy
<1>5. OwnTokensKnown' /\ EntryMatchesToken'
  BY <1>1 DEF IndInv, fixed, history, OwnTokensKnown, EntryMatchesToken, Taken, InFlight, Ok
<1>6. QED
  BY <1>2, <1>3, <1>4, <1>5 DEF IndInv

(* What others do moves a token, makes one that is nobody's, or leaves it  *)
(* under its name.                                                         *)
LEMMA MeddleKeeps ==
  ASSUME IndInv, Meddle, TypeOK', Numbered', moved \subseteq moved',
         \A n \in Names : Taken(n)' =>
             \/ Taken(n) /\ Serial(n)' = Serial(n)
             \/ Serial(n)' \notin own
             \/ Serial(n)' \in moved',
         \A n \in Names : Taken(n) =>
             \/ Taken(n)' /\ Serial(n)' = Serial(n)
             \/ Serial(n) \in moved'
  PROVE  IndInv'
<1>1. /\ UNCHANGED <<process, block, entry, op, outcome, own, lost, stranded>>
      /\ drifted' = TRUE /\ Excused \subseteq Excused' /\ moved' \subseteq Excused'
      /\ Ok' = Ok /\ NotFound' = NotFound
  BY DEF Meddle, Excused, Ok, NotFound
<1>2. entry # None => entry.id \in Names
  BY EntryIsRecord DEF IndInv
<1>3. OpOnEntry'
  BY <1>1 DEF IndInv, OpOnEntry
<1>4. ReplyNamesToken'
  BY <1>1, RepliedKinds DEF IndInv, ReplyNamesToken
<1>5. SecretMatches' /\ AnswerMatches'
  BY <1>1, <1>2 DEF IndInv, SecretMatches, AnswerMatches
<1>6. LeftBehind'
  <2>1. Left' = Left
    BY <1>1 DEF Left
  <2>2. ASSUME Left, Taken(op.id)', Serial(op.id)' \in own
        PROVE  \/ Serial(op.id)' \in Excused'
               \/ op.kind = "update" /\ Ok /\ Serial(op.id)' = op.reply.secret
    <3>1. op.id \in Names
      BY <2>2, RepliedKinds
    <3>2. CASE Taken(op.id) /\ Serial(op.id)' = Serial(op.id)
      BY <1>1, <2>2, <3>1, <3>2 DEF IndInv, LeftBehind
    <3>3. QED
      BY <1>1, <2>2, <3>1, <3>2
  <2>3. QED
    BY <1>1, <2>1, <2>2 DEF LeftBehind
<1>7. DeletedIsGone'
  BY <1>1 DEF IndInv, DeletedIsGone
<1>8. OwnTokensKnown'
  <2>1. InFlight' = InFlight
    BY <1>1 DEF InFlight, Ok
  <2>2. \A n \in Names : Taken(n) /\ Serial(n) \in own =>
           \/ entry # None /\ entry.id = n
           \/ Serial(n) \in InFlight
           \/ Serial(n) \in Excused
    BY DEF IndInv, OwnTokensKnown, Excused, Serial
  <2>3. \A n \in Names : Taken(n)' /\ Serial(n)' \in own =>
           \/ entry # None /\ entry.id = n
           \/ Serial(n)' \in InFlight
           \/ Serial(n)' \in Excused'
    BY <1>1, <2>2
  <2>4. QED
    BY <1>1, <2>1, <2>3 DEF OwnTokensKnown, Excused, Serial
<1>9. QED
  BY <1>1, <1>3, <1>4, <1>5, <1>6, <1>7, <1>8 DEF IndInv, FirstBuildServesLegacy, EntryMatchesToken

LEMMA BlockValuesAre == BlockValues \subseteq Values
  BY DEF BlockValues, ScopeValues, LimitValues, Values

LEMMA OthersCreateKeeps ==
  ASSUME IndInv, NEW n \in Names, NEW v \in BlockValues, OthersCreate(n, v)
  PROVE  IndInv'
<1> DEFINE t == [serial |-> born + 1, value |-> v]
<1>1. /\ tokens[n] = None /\ tokens' = [tokens EXCEPT ![n] = t]
      /\ born' = born + 1 /\ born + 1 \in 1..MaxTokens /\ born \in Nat
      /\ moved' = moved /\ Meddle
  BY OrgTokenAssumption DEF OthersCreate, IndInv, TypeOK
<1>2. t \in Tokens /\ t.serial = born + 1 /\ t # None
  BY <1>1, BlockValuesAre, OrgTokenAssumption DEF Tokens
<1> HIDE DEF t
<1>3. TypeOK'
  BY <1>1, <1>2, DisturbCounts DEF IndInv, TypeOK, Meddle, fixed
<1>4. \A m \in Names : \/ m = n /\ Taken(m)' /\ Serial(m)' = born + 1
                       \/ m # n /\ (Taken(m)' <=> Taken(m)) /\ Serial(m)' = Serial(m)
  BY <1>1, <1>2 DEF IndInv, TypeOK, Taken, Serial
<1>5. Numbered'
  BY <1>1, <1>4 DEF IndInv, Numbered, Meddle
<1>6. born + 1 \notin own /\ ~Taken(n)
  BY <1>1 DEF IndInv, Numbered, Taken
<1>7. QED
  BY <1>1, <1>3, <1>4, <1>5, <1>6, MeddleKeeps

LEMMA OthersDeleteKeeps ==
  ASSUME IndInv, NEW n \in Names, OthersDelete(n)
  PROVE  IndInv'
<1>1. /\ Taken(n) /\ tokens' = [tokens EXCEPT ![n] = None]
      /\ born' = born /\ moved' = moved \union {Serial(n)} /\ Meddle
  BY DEF OthersDelete, Taken, Serial
<1>2. Serial(n) \in Secrets
  BY <1>1, TokenIsRecord DEF IndInv
<1>3. TypeOK'
  BY <1>1, <1>2, DisturbCounts DEF IndInv, TypeOK, Meddle, fixed
<1>4. \A m \in Names : \/ m = n /\ ~Taken(m)'
                       \/ m # n /\ (Taken(m)' <=> Taken(m)) /\ Serial(m)' = Serial(m)
  BY <1>1 DEF IndInv, TypeOK, Taken, Serial
<1>5. Numbered'
  BY <1>1, <1>4 DEF IndInv, Numbered, Meddle
<1>6. QED
  BY <1>1, <1>3, <1>4, <1>5, MeddleKeeps

LEMMA OthersRenameKeeps ==
  ASSUME IndInv, NEW n \in Names, NEW to \in Names, OthersRename(n, to)
  PROVE  IndInv'
<1>1. /\ Taken(n) /\ ~Taken(to)
      /\ tokens' = [tokens EXCEPT ![n] = None, ![to] = tokens[n]]
      /\ born' = born /\ moved' = moved \union {Serial(n)} /\ Meddle
  BY DEF OthersRename, Taken, Serial
<1>2. Serial(n) \in Secrets /\ n # to
  BY <1>1, TokenIsRecord DEF IndInv
<1>3. TypeOK'
  BY <1>1, <1>2, DisturbCounts DEF IndInv, TypeOK, Meddle, fixed
<1>4. \A m \in Names : \/ m = n /\ ~Taken(m)'
                       \/ m = to /\ Taken(m)' /\ Serial(m)' = Serial(n)
                       \/ m # n /\ m # to /\ (Taken(m)' <=> Taken(m)) /\ Serial(m)' = Serial(m)
  BY <1>1, <1>2 DEF IndInv, TypeOK, Taken, Serial
<1>5. Numbered'
  BY <1>1, <1>2, <1>4 DEF IndInv, Numbered, Meddle
<1>6. QED
  BY <1>1, <1>2, <1>3, <1>4, <1>5, MeddleKeeps

LEMMA OthersChangeKeeps ==
  ASSUME IndInv, NEW n \in Names, NEW v \in BlockValues, OthersChange(n, v)
  PROVE  IndInv'
<1>1. /\ Taken(n) /\ tokens' = [tokens EXCEPT ![n].value = v]
      /\ born' = born /\ moved' = moved /\ Meddle
  BY DEF OthersChange, Taken
<1> DEFINE t == [tokens[n] EXCEPT !.value = v]
<1>2. t \in Tokens /\ t.serial = Serial(n) /\ t # None
  BY <1>1, BlockValuesAre, TokenIsRecord, OrgTokenAssumption DEF IndInv, Tokens, Serial
<1>3. tokens' = [tokens EXCEPT ![n] = t]
  BY <1>1
<1> HIDE DEF t
<1>4. TypeOK'
  BY <1>1, <1>2, <1>3, DisturbCounts DEF IndInv, TypeOK, Meddle, fixed
<1>5. \A m \in Names : (Taken(m)' <=> Taken(m)) /\ Serial(m)' = Serial(m)
  BY <1>1, <1>2, <1>3 DEF IndInv, TypeOK, Taken, Serial
<1>6. Numbered'
  BY <1>1, <1>5 DEF IndInv, Numbered, Meddle
<1>7. QED
  BY <1>1, <1>4, <1>5, <1>6, MeddleKeeps

----------------------------------------------------------------------------
(* An operation begins.                                                    *)

LEMMA BeginKeeps ==
  ASSUME IndInv, NEW kind \in {"refresh", "create", "update", "delete"},
         NEW id \in Names \union {None}, NEW sent \in Desired \union {None},
         Begin(kind, id, sent),
         kind = "create" => entry = None,
         kind \in {"refresh", "update", "delete"} => entry # None /\ id = entry.id,
         kind \in {"create", "update"} => sent \in Desired
  PROVE  IndInv'
<1>1. /\ op = Idle /\ op' \in Operations /\ op'.phase = "request" /\ op'.kind = kind
      /\ op'.id = id /\ op'.sent = sent /\ op'.reply = NoReply
  BY IdleGives DEF Begin, Idle, Operations
<1>2. UNCHANGED <<fixed, process, block, entry, tokens, born, outcome, drifted, budget, history>>
  BY DEF Begin
<1>3. ~Ok /\ ~Ok' /\ ~NotFound' /\ ~Left' /\ op' # Idle
  BY <1>1, IdleGives, NoReplyGives DEF Ok, NotFound, Left
<1>4. TypeOK'
  BY <1>1, <1>2 DEF IndInv, TypeOK, fixed, history
<1>5. Numbered'
  BY <1>1, <1>2, IdleGives DEF IndInv, Numbered, history, Taken, Serial
<1>6. OpOnEntry'
  BY <1>1, <1>2, IdleGives DEF OpOnEntry
<1>7. ReplyNamesToken' /\ AnswerMatches' /\ LeftBehind' /\ DeletedIsGone'
  BY <1>3 DEF ReplyNamesToken, AnswerMatches, LeftBehind, DeletedIsGone
<1>8. SecretMatches'
  BY <1>2, <1>3 DEF IndInv, SecretMatches, history, Taken, Serial, Excused
<1>9. FirstBuildServesLegacy' /\ EntryMatchesToken'
  BY <1>2, <1>3 DEF IndInv, FirstBuildServesLegacy, EntryMatchesToken
<1>10. OwnTokensKnown'
  BY <1>2, <1>3 DEF IndInv, OwnTokensKnown, history, Taken, InFlight
<1>11. QED
  BY <1>3, <1>4, <1>5, <1>6, <1>7, <1>8, <1>9, <1>10 DEF IndInv

LEMMA StartsKeep ==
  ASSUME IndInv, StartRefresh \/ StartCreate \/ StartUpdate \/ StartDelete
  PROVE  IndInv'
<1>1. block # None => block \in Desired
  BY DEF IndInv, TypeOK
<1>2. entry # None => entry.id \in Names
  BY EntryIsRecord DEF IndInv
<1>3. CASE StartRefresh
  BY <1>2, <1>3, BeginKeeps DEF StartRefresh
<1>4. CASE StartCreate
  BY <1>1, <1>4, BeginKeeps DEF StartCreate
<1>5. CASE StartUpdate
  BY <1>1, <1>2, <1>5, BeginKeeps DEF StartUpdate, NeedsUpdate
<1>6. CASE StartDelete
  BY <1>2, <1>6, BeginKeeps DEF StartDelete
<1>7. QED
  BY <1>3, <1>4, <1>5, <1>6

----------------------------------------------------------------------------
(* The API.                                                                *)

LEMMA RequestGives ==
  ASSUME IndInv, op.phase = "request"
  PROVE  /\ op.kind \in {"refresh", "create", "update", "delete"}
         /\ op.reply = NoReply /\ ~Ok /\ ~NotFound /\ InFlight = {}
         /\ op.kind # "create" => entry # None /\ op.id = entry.id /\ op.id \in Names
         /\ op.kind = "create" => entry = None
         /\ op.kind \in {"create", "update"} =>
               op.sent \in Desired /\ op.sent.name \in Names /\ op.sent.value \in Values
<1>1. op.kind \in {"idle", "refresh", "create", "update", "delete"}
  BY DEF IndInv, TypeOK, Operations
<1>2. op.kind # "idle"
  BY DEF IndInv, OpOnEntry
<1>3. op.reply = NoReply
  BY DEF IndInv, OpOnEntry
<1>4. ~Ok /\ ~NotFound
  BY <1>3, NoReplyGives DEF Ok, NotFound
<1>5. InFlight = {}
  BY <1>4 DEF InFlight
<1>6. op.kind # "create" => entry # None /\ op.id = entry.id
  BY <1>1, <1>2 DEF IndInv, OpOnEntry
<1>7. op.kind # "create" => op.id \in Names
  BY <1>6, EntryIsRecord DEF IndInv
<1>8. op.kind \in {"create", "update"} =>
        op.sent \in Desired /\ op.sent.name \in Names /\ op.sent.value \in Values
  BY DEF IndInv, OpOnEntry, Desired
<1>9. op.kind = "create" => entry = None
  BY DEF IndInv, OpOnEntry
<1>10. QED
  BY <1>1, <1>2, <1>3, <1>4, <1>5, <1>6, <1>7, <1>8, <1>9

LEMMA CodeGives ==
  ASSUME op.kind \in {"refresh", "create", "update", "delete"}
  PROVE  /\ Code \in {"ok", "notfound", "refused"}
         /\ Code = "ok" => /\ op.kind = "create" => ~Taken(op.sent.name)
                           /\ op.kind # "create" => Taken(op.id)
                           /\ op.kind = "update" /\ op.sent.name # op.id
                                 => ~Taken(op.sent.name)
         /\ Code = "notfound" => op.kind # "create" /\ ~Taken(op.id)
  BY DEF Code

(* What an accepted call wrote, whatever became of its reply.              *)
Wrote ==
    /\ Written \in Tokens
    /\ op.kind # "create" => Taken(op.id) /\ Written.serial = Serial(op.id)
    /\ op.kind = "create" => Written.serial \notin 1..born
    /\ own' = IF op.kind = "create" THEN own \union {Written.serial} ELSE own
    /\ born' \in Nat /\ born \in 0..born' /\ Written.serial \in 1..born'
    /\ op.kind # "delete" =>
          /\ NameAfter \in Names /\ tokens'[NameAfter] = Written
    /\ op.kind = "update" /\ NameAfter # op.id => tokens'[op.id] = None
    /\ op.kind = "delete" => tokens'[op.id] = None
    /\ op.kind \in {"create", "update"} => Written.value = op.sent.value
    /\ op.kind = "refresh" => tokens' = tokens
    /\ \A n \in Names :
          \/ (Taken(n)' <=> Taken(n)) /\ Serial(n)' = Serial(n)
          \/ op.kind \in {"create", "update"} /\ n = NameAfter
          \/ op.kind \in {"update", "delete"} /\ n = op.id

Fits == /\ tokens' \in [Names -> Tokens \union {None}]
        /\ born' \in 0..MaxTokens /\ own' \subseteq Secrets

LEMMA CreateWrote ==
  ASSUME IndInv, Served, Code = "ok", op.kind = "create"
  PROVE  Wrote /\ Fits
<1> DEFINE t == [serial |-> born + 1, value |-> op.sent.value]
<1>1. op.phase = "request" /\ born + 1 \in 1..MaxTokens /\ born \in Nat
  BY OrgTokenAssumption DEF Served, IndInv, TypeOK
<1>2. op.sent.name \in Names /\ op.sent.value \in Values
  BY <1>1, RequestGives
<1>3. Written = t /\ NameAfter = op.sent.name
  BY DEF Written, NameAfter
<1>4. t \in Tokens /\ t # None /\ t.serial = born + 1 /\ t.value = op.sent.value
  BY <1>1, <1>2, OrgTokenAssumption DEF Tokens
<1> HIDE DEF t
<1>5. Effect = [tokens EXCEPT ![op.sent.name] = t]
  BY <1>3 DEF Effect
<1>6. /\ tokens' = [tokens EXCEPT ![op.sent.name] = t]
      /\ born' = born + 1 /\ own' = own \union {born + 1}
  BY <1>5 DEF Served
<1>7. Fits
  BY <1>1, <1>2, <1>4, <1>6 DEF Fits, IndInv, TypeOK, Secrets
<1>8. \A n \in Names : \/ n # op.sent.name /\ (Taken(n)' <=> Taken(n)) /\ Serial(n)' = Serial(n)
                       \/ n = op.sent.name /\ Taken(n)' /\ tokens'[n] = t
  BY <1>2, <1>4, <1>6 DEF IndInv, TypeOK, Taken, Serial
<1>9. born + 1 \notin 1..born
  BY <1>1
<1>10. born' \in Nat /\ born \in 0..born' /\ Written.serial \in 1..born' /\ Written.serial = born + 1
  BY <1>1, <1>3, <1>4, <1>6
<1>11. tokens'[NameAfter] = Written
  BY <1>2, <1>3, <1>8
<1>12. Wrote
  BY <1>2, <1>3, <1>4, <1>6, <1>8, <1>9, <1>10, <1>11 DEF Wrote
<1>13. QED
  BY <1>7, <1>12

LEMMA UpdateWrote ==
  ASSUME IndInv, Served, Code = "ok", op.kind = "update"
  PROVE  Wrote /\ Fits
<1> DEFINE t == [tokens[op.id] EXCEPT !.value = op.sent.value]
<1>1. op.phase = "request"
  BY DEF Served
<1>2. op.sent.name \in Names /\ op.sent.value \in Values /\ op.id \in Names
  BY <1>1, RequestGives
<1>3. Taken(op.id) /\ (op.sent.name # op.id => ~Taken(op.sent.name))
  BY CodeGives
<1>4. Written = t /\ NameAfter = op.sent.name
  BY DEF Written, NameAfter
<1>5. t \in Tokens /\ t # None /\ t.serial = Serial(op.id) /\ t.value = op.sent.value
  BY <1>2, <1>3, TokenIsRecord, OrgTokenAssumption DEF IndInv, Tokens, Serial
<1>6. Serial(op.id) \in 1..born
  BY <1>2, <1>3 DEF IndInv, Numbered
<1> HIDE DEF t
<1>7. Effect = [n \in Names |-> CASE n = op.sent.name -> t
                                  [] n = op.id /\ n # op.sent.name -> None
                                  [] OTHER -> tokens[n]]
  BY <1>4 DEF Effect
<1>8. tokens' = Effect /\ born' = born /\ own' = own
  BY DEF Served
<1>9. \A n \in Names : /\ n = op.sent.name => tokens'[n] = t
                       /\ n = op.id /\ n # op.sent.name => tokens'[n] = None
                       /\ n # op.id /\ n # op.sent.name => tokens'[n] = tokens[n]
  BY <1>7, <1>8
<1>10. Fits
  BY <1>5, <1>7, <1>8, <1>9 DEF Fits, IndInv, TypeOK, Secrets
<1>11. born \in Nat
  BY OrgTokenAssumption DEF IndInv, TypeOK
<1>12. \A n \in Names : \/ (Taken(n)' <=> Taken(n)) /\ Serial(n)' = Serial(n)
                        \/ n = op.sent.name
                        \/ n = op.id
  BY <1>9 DEF Taken, Serial
<1>13. tokens'[op.sent.name] = t
  BY <1>2, <1>5, <1>9 DEF Taken
<1>14. op.sent.name # op.id => tokens'[op.id] = None
  BY <1>2, <1>9 DEF Taken
<1>15. born' \in Nat /\ born \in 0..born' /\ Written.serial \in 1..born'
  BY <1>4, <1>5, <1>6, <1>8, <1>11
<1>16. Wrote
  BY <1>2, <1>3, <1>4, <1>5, <1>8, <1>12, <1>13, <1>14, <1>15 DEF Wrote
<1>17. QED
  BY <1>10, <1>16

LEMMA OtherWrote ==
  ASSUME IndInv, Served, Code = "ok", op.kind \in {"refresh", "delete"}
  PROVE  Wrote /\ Fits
<1>1. op.phase = "request"
  BY DEF Served
<1>2. op.id \in Names
  BY <1>1, RequestGives
<1>3. Taken(op.id)
  BY CodeGives
<1>4. Written = tokens[op.id] /\ NameAfter = op.id
  BY DEF Written, NameAfter
<1>5. Serial(op.id) \in 1..born /\ tokens[op.id] \in Tokens
  BY <1>2, <1>3, TokenIsRecord DEF IndInv, Numbered
<1>6. /\ op.kind = "refresh" => tokens' = tokens
      /\ op.kind = "delete" => tokens' = [tokens EXCEPT ![op.id] = None]
      /\ born' = born /\ own' = own
  BY DEF Served, Effect
<1>7. Fits
  BY <1>6 DEF Fits, IndInv, TypeOK
<1>8. \A n \in Names : \/ tokens'[n] = tokens[n]
                       \/ n = op.id /\ op.kind = "delete" /\ tokens'[n] = None
  BY <1>6 DEF IndInv, TypeOK
<1>9. op.kind = "refresh" => tokens'[op.id] = tokens[op.id]
  BY <1>6
<1>10. op.kind = "delete" => tokens'[op.id] = None
  BY <1>2, <1>6 DEF IndInv, TypeOK
<1>11. /\ op.kind = "refresh" => tokens'[op.id] = Written
       /\ op.kind = "delete" => tokens'[op.id] = None
  BY <1>3, <1>4, <1>9, <1>10 DEF Taken
<1>12. \A n \in Names : \/ (Taken(n)' <=> Taken(n)) /\ Serial(n)' = Serial(n)
                        \/ op.kind = "delete" /\ n = op.id
  BY <1>8 DEF Taken, Serial
<1>13. born' \in Nat /\ born \in 0..born' /\ Written.serial \in 1..born' /\ Written.serial = Serial(op.id)
  BY <1>4, <1>5, <1>6, OrgTokenAssumption DEF Serial, IndInv, TypeOK
<1>14. Wrote
  BY <1>2, <1>3, <1>4, <1>5, <1>6, <1>11, <1>12, <1>13 DEF Wrote
<1>15. QED
  BY <1>7, <1>14

LEMMA Writes ==
  ASSUME IndInv, Served, Code = "ok"
  PROVE  Wrote /\ Fits
<1>1. op.kind \in {"refresh", "create", "update", "delete"}
  BY RequestGives DEF Served
<1>2. QED
  BY <1>1, CreateWrote, UpdateWrote, OtherWrote

LEMMA WrittenIsNumbered ==
  ASSUME IndInv, op.kind \in {"refresh", "create", "update", "delete"}, Wrote,
         op'.reply.secret \in {0, Written.serial}
  PROVE  Numbered'
<1>1. born \in Nat /\ born' \in Nat /\ born <= born' /\ 1..born \subseteq 1..born'
  <2>1. born \in Nat
    BY OrgTokenAssumption DEF IndInv, TypeOK
  <2>2. born' \in Nat /\ born \in 0..born'
    BY DEF Wrote
  <2>3. QED
    BY <2>1, <2>2
<1>2. Written.serial \in 1..born'
  BY DEF Wrote
<1>3. ASSUME NEW n \in Names, Taken(n)'
      PROVE  \/ op.kind # "delete" /\ n = NameAfter /\ Serial(n)' = Written.serial
             \/ /\ Taken(n) /\ Serial(n)' = Serial(n)
                /\ op.kind \in {"update", "delete"} => n # op.id
  <2>1. tokens'[n] # None
    BY <1>3 DEF Taken
  <2>2. CASE op.kind = "create"
    BY <1>3, <2>1, <2>2 DEF Wrote, Serial
  <2>3. CASE op.kind = "update"
    BY <1>3, <2>1, <2>3 DEF Wrote, Serial
  <2>4. CASE op.kind = "delete"
    BY <1>3, <2>1, <2>4 DEF Wrote, Serial
  <2>5. CASE op.kind = "refresh"
    BY <1>3, <2>1, <2>5 DEF Wrote, Serial, Taken
  <2>6. QED
    BY <2>2, <2>3, <2>4, <2>5
<1>4. \A n \in Names : Taken(n)' => Serial(n)' \in 1..born'
  BY <1>1, <1>2, <1>3 DEF IndInv, Numbered
<1>5. ASSUME NEW n \in Names, Taken(n), op.kind # "refresh",
             op.kind \in {"update", "delete"} => n # op.id
      PROVE  Serial(n) # Written.serial
  <2>1. CASE op.kind = "create"
    BY <1>5, <2>1 DEF IndInv, Numbered, Wrote
  <2>2. CASE op.kind \in {"update", "delete"}
    <3>1. op.id \in Names /\ Taken(op.id) /\ Written.serial = Serial(op.id) /\ n # op.id
      BY <1>5, <2>2, RepliedKinds DEF Wrote
    <3>2. QED
      BY <1>5, <3>1 DEF IndInv, Numbered
  <2>3. QED
    BY <1>5, <2>1, <2>2
<1>6. ASSUME NEW n \in Names, NEW m \in Names, Taken(n)', Taken(m)', Serial(n)' = Serial(m)'
      PROVE  n = m
  <2>1. CASE op.kind = "refresh"
    BY <1>6, <2>1 DEF Wrote, IndInv, Numbered, Taken, Serial
  <2>2. CASE op.kind # "refresh"
    BY <1>3, <1>5, <1>6, <2>2 DEF IndInv, Numbered
  <2>3. QED
    BY <2>1, <2>2
<1>7. own' \subseteq 1..born'
  BY <1>1, <1>2 DEF IndInv, Numbered, Wrote
<1>8. op'.reply.secret \in 0..born'
  BY <1>1, <1>2
<1>9. QED
  BY <1>4, <1>6, <1>7, <1>8 DEF Numbered

(* The call goes on with what its reply says, or without one.              *)
GoesOn ==
    /\ op' \in Operations
    /\ op'.kind = op.kind /\ op'.id = op.id /\ op'.sent = op.sent
    /\ op'.phase \in {"request", "reply"}
    /\ op'.phase = "request" => op'.reply = NoReply

LEMMA GoingOn ==
  ASSUME IndInv, op.phase = "request", GoesOn, entry' = entry, process' = process
  PROVE  OpOnEntry' /\ FirstBuildServesLegacy' /\ EntryMatchesToken'
<1>1. op.kind # "idle" /\ op' # Idle
  BY RequestGives, IdleGives DEF GoesOn
<1>2. OpOnEntry'
  BY <1>1 DEF GoesOn, IndInv, OpOnEntry
<1>3. FirstBuildServesLegacy' /\ EntryMatchesToken'
  BY <1>1 DEF IndInv, FirstBuildServesLegacy, EntryMatchesToken
<1>4. QED
  BY <1>2, <1>3

(* A call whose reply did not come, or came as an error other than a 404:  *)
(* what it did is counted among the lost.                                  *)
LEMMA UnansweredKeeps ==
  ASSUME IndInv, op.phase = "request", GoesOn, TypeOK', Numbered',
         op'.reply.code \notin {"ok", "notfound"},
         UNCHANGED <<entry, process, moved, stranded>>, lost \subseteq lost',
         \A n \in Names : Taken(n)' /\ Serial(n)' \in own' =>
             \/ Taken(n) /\ Serial(n)' = Serial(n) /\ Serial(n) \in own
             \/ Serial(n)' \in lost',
         \A n \in Names : Taken(n) =>
             \/ Taken(n)' /\ Serial(n)' = Serial(n)
             \/ Serial(n) \in lost'
  PROVE  IndInv'
<1>1. ~Ok' /\ ~NotFound' /\ ~Left' /\ ~Ok /\ InFlight = {}
  BY RequestGives DEF Ok, NotFound, Left
<1>2. Excused \subseteq Excused' /\ lost' \subseteq Excused'
  BY DEF Excused
<1>3. OpOnEntry' /\ FirstBuildServesLegacy' /\ EntryMatchesToken'
  BY GoingOn
<1>4. ReplyNamesToken' /\ AnswerMatches' /\ LeftBehind' /\ DeletedIsGone'
  BY <1>1 DEF ReplyNamesToken, AnswerMatches, LeftBehind, DeletedIsGone
<1>5. SecretMatches'
  <2>1. entry # None => entry.id \in Names
    BY EntryIsRecord DEF IndInv
  <2>2. entry # None => \/ Taken(entry.id) /\ Serial(entry.id) = entry.secret
                        \/ entry.secret \in {0} \union Excused
    BY <1>1 DEF IndInv, SecretMatches
  <2>3. QED
    BY <1>2, <2>1, <2>2 DEF SecretMatches
<1>6. OwnTokensKnown'
  <2>1. \A n \in Names : Taken(n) /\ Serial(n) \in own =>
           \/ entry # None /\ entry.id = n
           \/ Serial(n) \in Excused
    BY <1>1 DEF IndInv, OwnTokensKnown, Excused, Serial
  <2>2. \A n \in Names : Taken(n)' /\ Serial(n)' \in own' =>
           \/ entry # None /\ entry.id = n
           \/ Serial(n)' \in Excused'
    BY <1>2, <2>1
  <2>3. QED
    BY <2>2 DEF OwnTokensKnown, Excused, Serial
<1>7. QED
  BY <1>1, <1>3, <1>4, <1>5, <1>6 DEF IndInv

LEMMA RetryGives ==
  ASSUME IndInv, op.phase = "request",
         op' = RetryOrGiveUp \/ op' = Replied([NoReply EXCEPT !.code = "refused"])
  PROVE  /\ GoesOn /\ op'.reply.code \notin {"ok", "notfound"}
         /\ op'.reply.secret = 0
<1>1. op \in Operations /\ op.reply = NoReply /\ RetryMax \in Nat /\ op.tries \in 0..RetryMax
  BY RequestGives, OpIsRecord, OrgTokenAssumption DEF IndInv
<1>2. ASSUME NEW c \in {"refused", "failed"}, op' = Replied([NoReply EXCEPT !.code = c])
      PROVE  /\ GoesOn /\ op'.reply.code \notin {"ok", "notfound"}
             /\ op'.reply.secret = 0
  <2> DEFINE r == [NoReply EXCEPT !.code = c]
  <2>1. r \in Replies /\ r.code = c /\ r.secret = 0
    BY DEF NoReply, Replies, Values
  <2> HIDE DEF r
  <2>2. op' = [op EXCEPT !.phase = "reply", !.reply = r]
    BY <1>2 DEF Replied, r
  <2>3. /\ op' \in Operations /\ op'.kind = op.kind /\ op'.id = op.id /\ op'.sent = op.sent
        /\ op'.phase = "reply" /\ op'.reply = r
    BY <1>1, <2>1, <2>2 DEF Operations
  <2>4. QED
    BY <2>1, <2>3 DEF GoesOn
<1>3. ASSUME op.tries < RetryMax, op' = [op EXCEPT !.tries = @ + 1]
      PROVE  /\ GoesOn /\ op'.reply.code \notin {"ok", "notfound"}
             /\ op'.reply.secret = 0
  <2>1. op.tries + 1 \in 0..RetryMax
    BY <1>1, <1>3
  <2>2. /\ op' \in Operations /\ op'.kind = op.kind /\ op'.id = op.id /\ op'.sent = op.sent
        /\ op'.phase = "request" /\ op'.reply = NoReply
    BY <1>1, <1>3, <2>1 DEF Operations
  <2>3. QED
    BY <2>2, NoReplyGives DEF GoesOn
<1>4. QED
  BY <1>2, <1>3 DEF RetryOrGiveUp

LEMMA CallFailsKeeps ==
  ASSUME IndInv, CallFails
  PROVE  IndInv'
<1>1. /\ op.phase = "request" /\ budget' \in 0..MaxDisturbances
      /\ UNCHANGED <<fixed, process, block, entry, tokens, born, outcome, drifted, history>>
  BY DisturbCounts DEF CallFails, IndInv, TypeOK
<1>2. /\ GoesOn /\ op'.reply.code \notin {"ok", "notfound"}
      /\ op'.reply.secret = 0
  BY <1>1, RetryGives DEF CallFails
<1>3. TypeOK'
  BY <1>1, <1>2 DEF IndInv, TypeOK, fixed, history, GoesOn
<1>4. Numbered'
  BY <1>1, <1>2, OrgTokenAssumption DEF IndInv, TypeOK, Numbered, history, Taken, Serial
<1>5. \A n \in Names : (Taken(n)' <=> Taken(n)) /\ Serial(n)' = Serial(n)
  BY <1>1 DEF Taken, Serial
<1>6. QED
  BY <1>1, <1>2, <1>3, <1>4, <1>5, UnansweredKeeps DEF history

LEMMA ReplyLostKeeps ==
  ASSUME IndInv, ReplyLost
  PROVE  IndInv'
<1>1. /\ op.phase = "request" /\ Served /\ budget' \in 0..MaxDisturbances
      /\ UNCHANGED <<fixed, process, block, entry, outcome, drifted, moved, stranded>>
  BY DisturbCounts DEF ReplyLost, Served, IndInv, TypeOK
<1>2. /\ GoesOn /\ op'.reply.code \notin {"ok", "notfound"}
      /\ op'.reply.secret = 0
  BY <1>1, RetryGives DEF ReplyLost
<1>3. op.kind \in {"refresh", "create", "update", "delete"}
  BY <1>1, RequestGives
<1>4. CASE Code = "ok"
  <2>1. Wrote /\ Fits
    BY <1>1, <1>4, Writes
  <2>2. lost' = IF op.kind # "refresh" THEN lost \union {Written.serial} ELSE lost
    BY <1>4 DEF ReplyLost
  <2>3. Numbered'
    BY <1>2, <1>3, <2>1, WrittenIsNumbered
  <2>4. TypeOK'
    BY <1>1, <1>2, <2>1, <2>2 DEF IndInv, TypeOK, fixed, GoesOn, Fits, Wrote, Tokens, Secrets
  <2>5. ASSUME NEW n \in Names
        PROVE  /\ Taken(n)' /\ Serial(n)' \in own' =>
                    \/ Taken(n) /\ Serial(n)' = Serial(n) /\ Serial(n) \in own
                    \/ Serial(n)' \in lost'
               /\ Taken(n) =>
                    \/ Taken(n)' /\ Serial(n)' = Serial(n)
                    \/ Serial(n) \in lost'
    <3>1. CASE op.kind = "refresh"
      BY <2>1, <3>1 DEF Wrote, Taken, Serial
    <3>2. CASE op.kind = "create"
      <4>1. tokens[NameAfter] = None
        BY <1>3, <1>4, <3>2, CodeGives DEF NameAfter, Taken
      <4>2. QED
        BY <2>1, <2>2, <3>2, <4>1, <2>5 DEF Wrote, Taken, Serial, IndInv, Numbered
    <3>3. CASE op.kind = "update"
      <4>1. NameAfter # op.id => tokens[NameAfter] = None
        BY <1>3, <1>4, <3>3, CodeGives DEF NameAfter, Taken
      <4>2. QED
        BY <2>1, <2>2, <3>3, <4>1, <2>5 DEF Wrote, Taken, Serial
    <3>4. CASE op.kind = "delete"
      BY <2>1, <2>2, <3>4, <2>5 DEF Wrote, Taken, Serial
    <3>5. QED
      BY <1>3, <3>1, <3>2, <3>3, <3>4
  <2>6. lost \subseteq lost'
    BY <2>2
  <2>7. QED
    BY <1>1, <1>2, <2>3, <2>4, <2>5, <2>6, UnansweredKeeps
<1>5. CASE Code # "ok"
  <2>1. UNCHANGED <<tokens, born, own, lost>>
    BY <1>1, <1>5 DEF Served, ReplyLost
  <2>2. TypeOK'
    BY <1>1, <1>2, <2>1 DEF IndInv, TypeOK, fixed, GoesOn
  <2>3. Numbered'
    BY <1>2, <2>1, OrgTokenAssumption DEF IndInv, TypeOK, Numbered, Taken, Serial
  <2>4. \A n \in Names : (Taken(n)' <=> Taken(n)) /\ Serial(n)' = Serial(n)
    BY <2>1 DEF Taken, Serial
  <2>5. QED
    BY <1>1, <1>2, <2>1, <2>2, <2>3, <2>4, UnansweredKeeps
<1>6. QED
  BY <1>4, <1>5

LEMMA RepliedGives ==
  ASSUME IndInv, op.phase = "request", NEW r \in Replies, op' = Replied(r)
  PROVE  GoesOn /\ op'.reply = r /\ op'.phase = "reply"
<1>1. op \in Operations
  BY DEF IndInv, TypeOK
<1>2. /\ op' \in Operations /\ op'.kind = op.kind /\ op'.id = op.id /\ op'.sent = op.sent
      /\ op'.phase = "reply" /\ op'.reply = r
  BY <1>1 DEF Replied, Operations
<1>3. QED
  BY <1>2 DEF GoesOn

LEMMA RefusalKeeps ==
  ASSUME IndInv, ServerAnswers, Code # "ok"
  PROVE  IndInv'
<1>1. /\ op.phase = "request"
      /\ UNCHANGED <<fixed, process, block, entry, tokens, born, outcome, budget, history>>
      /\ drifted' = FALSE
  BY DEF ServerAnswers, Served, history
<1>2. op.kind \in {"refresh", "create", "update", "delete"} /\ ~Ok /\ InFlight = {}
  BY <1>1, RequestGives
<1>3. Code \in {"notfound", "refused"}
  BY <1>2, CodeGives
<1> DEFINE r == [NoReply EXCEPT !.code = Code]
<1>4. r \in Replies /\ r.code = Code /\ r.secret = 0
  BY <1>3 DEF NoReply, Replies, Values
<1>5. op' = Replied(r)
  BY DEF ServerAnswers, Answer
<1> HIDE DEF r
<1>6. GoesOn /\ op'.reply = r
  BY <1>1, <1>4, <1>5, RepliedGives
<1>7. TypeOK'
  BY <1>1, <1>6 DEF IndInv, TypeOK, fixed, history, GoesOn
<1>8. Numbered'
  BY <1>1, <1>4, <1>6, OrgTokenAssumption DEF IndInv, TypeOK, Numbered, history, Taken, Serial
<1>9. CASE Code = "refused"
  <2>1. op'.reply.code \notin {"ok", "notfound"}
    BY <1>4, <1>6, <1>9
  <2>2. \A n \in Names : (Taken(n)' <=> Taken(n)) /\ Serial(n)' = Serial(n)
    BY <1>1 DEF Taken, Serial
  <2>3. QED
    BY <1>1, <1>6, <1>7, <1>8, <2>1, <2>2, UnansweredKeeps DEF history
<1>10. CASE Code = "notfound"
  <2>1. ~Ok' /\ NotFound'
    BY <1>4, <1>6, <1>10 DEF Ok, NotFound
  <2>2. op.kind # "create" /\ ~Taken(op.id) /\ op'.id = op.id /\ op'.kind = op.kind
    BY <1>2, <1>6, <1>10, CodeGives DEF GoesOn
  <2>3. OpOnEntry' /\ FirstBuildServesLegacy' /\ EntryMatchesToken'
    BY <1>1, <1>6, GoingOn
  <2>4. ReplyNamesToken' /\ AnswerMatches' /\ DeletedIsGone'
    BY <2>1 DEF ReplyNamesToken, AnswerMatches, DeletedIsGone
  <2>5. LeftBehind'
    BY <1>1, <2>2 DEF LeftBehind, Taken
  <2>6. SecretMatches'
    BY <1>1, <1>2 DEF IndInv, SecretMatches, history, Taken, Serial, Excused
  <2>7. OwnTokensKnown'
    BY <1>1, <1>2 DEF IndInv, OwnTokensKnown, history, Taken
  <2>8. (NotFound => op.kind \in {"refresh", "update", "delete"})'
    BY <1>2, <2>2
  <2>9. QED
    BY <1>7, <1>8, <2>3, <2>4, <2>5, <2>6, <2>7, <2>8 DEF IndInv
<1>11. QED
  BY <1>3, <1>9, <1>10

LEMMA SuccessKeeps ==
  ASSUME IndInv, ServerAnswers, Code = "ok"
  PROVE  IndInv'
<1>1. /\ op.phase = "request" /\ Served /\ drifted' = FALSE
      /\ UNCHANGED <<fixed, process, block, entry, outcome, budget, lost, moved, stranded>>
  BY DEF ServerAnswers, Served
<1>2. /\ op.kind \in {"refresh", "create", "update", "delete"} /\ ~Ok /\ InFlight = {}
      /\ op.kind # "create" => entry # None /\ op.id = entry.id /\ op.id \in Names
      /\ op.kind = "create" => entry = None
      /\ op.kind \in {"create", "update"} => op.sent.name \in Names
  BY <1>1, RequestGives
<1>3. Wrote /\ Fits
  BY <1>1, Writes
<1>4. /\ op.kind # "create" => Taken(op.id)
      /\ op.kind \in {"create", "update"} /\ (op.kind = "update" => op.sent.name # op.id)
            => ~Taken(op.sent.name)
  BY <1>2, CodeGives
<1> DEFINE r == [code |-> "ok", name |-> NameAfter, value |-> Written.value,
                 secret |-> Written.serial]
<1>5. NameAfter \in Names
  BY <1>2 DEF NameAfter
<1>6. /\ r \in Replies /\ r.code = "ok" /\ r.name = NameAfter
      /\ r.value = Written.value /\ r.secret = Written.serial
  BY <1>3, <1>5 DEF Wrote, Tokens, Replies, Secrets
<1>7. op' = Replied(r)
  BY DEF ServerAnswers, Answer
<1> HIDE DEF r
<1>8. GoesOn /\ op'.reply = r /\ op'.phase = "reply"
  BY <1>1, <1>6, <1>7, RepliedGives
<1>9. op'.kind = op.kind /\ op'.id = op.id /\ op'.sent = op.sent /\ Ok' /\ ~NotFound'
  BY <1>6, <1>8 DEF GoesOn, Ok, NotFound
<1>10. TypeOK'
  BY <1>1, <1>3, <1>8 DEF IndInv, TypeOK, fixed, GoesOn, Fits
<1>11. Numbered'
  BY <1>2, <1>3, <1>6, <1>8, WrittenIsNumbered
<1>12. OpOnEntry' /\ FirstBuildServesLegacy' /\ EntryMatchesToken'
  BY <1>1, <1>8, GoingOn
<1>13. op.kind # "delete" => /\ tokens'[NameAfter] = Written /\ Written # None
  BY <1>3, OrgTokenAssumption DEF Wrote
<1>14. ReplyNamesToken'
  <2>1. /\ op.kind \in {"create", "update"} => NameAfter = op.sent.name
        /\ op.kind = "refresh" => NameAfter = op.id
    BY DEF NameAfter
  <2>2. op.kind = "create" => Written.value = op.sent.value
    BY <1>3 DEF Wrote
  <2>3. op.kind # "delete" => /\ tokens'[op'.reply.name] # None
                             /\ tokens'[op'.reply.name].serial = op'.reply.secret
                             /\ tokens'[op'.reply.name].value = op'.reply.value
    BY <1>6, <1>8, <1>13
  <2>4. QED
    BY <1>6, <1>8, <1>9, <2>1, <2>2, <2>3 DEF ReplyNamesToken, Taken, Serial
<1>15. SecretMatches'
  <2>1. CASE op.kind \in {"update", "delete"}
    BY <1>9, <2>1 DEF SecretMatches
  <2>2. CASE op.kind = "create"
    BY <1>1, <1>2, <2>2 DEF SecretMatches
  <2>3. CASE op.kind = "refresh"
    BY <1>1, <1>2, <1>3, <2>3 DEF Wrote, IndInv, SecretMatches, Taken, Serial, Excused
  <2>4. QED
    BY <1>2, <2>1, <2>2, <2>3
<1>16. AnswerMatches'
  BY <1>1, <1>2, <1>3, <1>6, <1>8, <1>9
     DEF Wrote, IndInv, SecretMatches, AnswerMatches, Taken, Serial, Excused
<1>17. LeftBehind'
  <2>1. CASE op.kind = "delete"
    BY <1>3, <1>9, <2>1 DEF Wrote, LeftBehind, Taken
  <2>2. CASE op.kind = "update"
    BY <1>3, <1>6, <1>8, <1>9, <2>2 DEF Wrote, LeftBehind, Taken, Serial
  <2>3. CASE op.kind \in {"refresh", "create"}
    BY <1>9, <2>3 DEF LeftBehind, Left
  <2>4. QED
    BY <1>2, <2>1, <2>2, <2>3
<1>18. DeletedIsGone'
  <2>1. ASSUME op.kind = "delete", NEW n \in Names, tokens'[n] # None
        PROVE  tokens'[n].serial # Written.serial
    <3>1. n # op.id /\ Taken(n) /\ Serial(n) = tokens'[n].serial
      BY <1>3, <2>1 DEF Wrote, Taken, Serial
    <3>2. Written.serial = Serial(op.id) /\ Taken(op.id) /\ op.id \in Names
      BY <1>2, <1>3, <2>1 DEF Wrote
    <3>3. QED
      BY <3>1, <3>2 DEF IndInv, Numbered
  <2>2. Written.serial # 0
    BY <1>3 DEF Wrote
  <2>3. QED
    BY <1>6, <1>8, <1>9, <2>1, <2>2 DEF DeletedIsGone, Taken, Serial
<1>19. OwnTokensKnown'
  <2>1. ASSUME NEW n \in Names, tokens'[n] # None, tokens'[n].serial \in own',
               tokens'[n].serial # Written.serial
        PROVE  \/ entry # None /\ entry.id = n
               \/ tokens'[n].serial \in moved \union lost \union stranded
    <3>1. Serial(n) = tokens'[n].serial /\ Taken(n) /\ Serial(n) \in own
      <4>1. CASE op.kind = "refresh"
        BY <1>3, <2>1, <4>1 DEF Wrote, Taken, Serial
      <4>2. CASE op.kind = "create"
        BY <1>3, <2>1, <4>2 DEF Wrote, Taken, Serial
      <4>3. CASE op.kind = "update"
        BY <1>3, <2>1, <4>3 DEF Wrote, Taken, Serial
      <4>4. CASE op.kind = "delete"
        BY <1>3, <2>1, <4>4 DEF Wrote, Taken, Serial
      <4>5. QED
        BY <1>2, <4>1, <4>2, <4>3, <4>4
    <3>2. QED
      BY <1>2, <3>1 DEF IndInv, OwnTokensKnown, Serial
  <2>2. op.kind = "refresh" => tokens' = tokens /\ own' = own
    BY <1>3 DEF Wrote
  <2>3. CASE op.kind # "refresh"
    <3>1. InFlight' = {Written.serial}
      BY <1>6, <1>8, <1>9, <2>3 DEF InFlight
    <3>2. QED
      BY <1>1, <2>1, <3>1 DEF OwnTokensKnown, Taken
  <2>4. CASE op.kind = "refresh"
    BY <1>1, <1>2, <2>2, <2>4 DEF IndInv, OwnTokensKnown, Taken
  <2>5. QED
    BY <2>3, <2>4
<1>20. QED
  BY <1>9, <1>10, <1>11, <1>12, <1>14, <1>15, <1>16, <1>17, <1>18, <1>19 DEF IndInv

----------------------------------------------------------------------------
(* The handlers.                                                           *)

LEMMA FinishedKeeps ==
  ASSUME IndInv, TypeOK', op' = Idle, UNCHANGED <<tokens, born, own, drifted>>,
         Excused \subseteq Excused', FirstBuildServesLegacy', EntryMatchesToken',
         entry' # None => \/ Taken(entry'.id) /\ Serial(entry'.id) = entry'.secret
                          \/ entry'.secret \in {0} \union Excused',
         \A n \in Names : Taken(n) /\ Serial(n) \in own =>
             \/ entry' # None /\ entry'.id = n
             \/ Serial(n) \in Excused'
  PROVE  IndInv'
<1>1. op'.kind = "idle" /\ op'.phase = "none" /\ op'.reply = NoReply
  BY IdleGives
<1>2. ~Ok' /\ ~NotFound' /\ ~Left'
  BY <1>1, NoReplyGives DEF Ok, NotFound, Left
<1>3. Numbered'
  BY <1>1, NoReplyGives, OrgTokenAssumption DEF IndInv, TypeOK, Numbered, Taken, Serial
<1>4. OpOnEntry'
  BY <1>1 DEF OpOnEntry
<1>5. ReplyNamesToken' /\ AnswerMatches' /\ LeftBehind' /\ DeletedIsGone'
  BY <1>2 DEF ReplyNamesToken, AnswerMatches, LeftBehind, DeletedIsGone
<1>6. SecretMatches'
  BY DEF SecretMatches, Taken, Serial
<1>7. OwnTokensKnown'
  BY DEF OwnTokensKnown, Excused, Taken, Serial
<1>8. QED
  BY <1>2, <1>3, <1>4, <1>5, <1>6, <1>7 DEF IndInv

(* What is known of the entry and of this block's tokens before a return.  *)
LEMMA BeforeReturn ==
  ASSUME IndInv
  PROVE  /\ \A n \in Names : Taken(n) /\ Serial(n) \in own =>
               \/ entry # None /\ entry.id = n
               \/ Ok /\ op.kind # "refresh" /\ Serial(n) = op.reply.secret
               \/ Serial(n) \in Excused
         /\ entry # None =>
               \/ Ok /\ op.kind \in {"update", "delete"}
               \/ Taken(entry.id) /\ Serial(entry.id) = entry.secret
               \/ entry.secret \in {0} \union Excused
         /\ Ok /\ op.kind # "delete" =>
               \/ Taken(op.reply.name) /\ Serial(op.reply.name) = op.reply.secret
               \/ op.reply.secret \in Excused
         /\ \A n, m \in Names : Taken(n) /\ Taken(m) /\ Serial(n) = Serial(m) => n = m
         /\ op.reply.value \in Values /\ op.reply.secret \in Secrets \union {0}
<1>1. \A n \in Names : Taken(n) /\ Serial(n) \in own =>
               \/ entry # None /\ entry.id = n
               \/ Ok /\ op.kind # "refresh" /\ Serial(n) = op.reply.secret
               \/ Serial(n) \in Excused
  BY DEF IndInv, OwnTokensKnown, InFlight, Excused, Serial
<1>2. Ok /\ op.kind # "delete" =>
               \/ Taken(op.reply.name) /\ Serial(op.reply.name) = op.reply.secret
               \/ op.reply.secret \in Excused
  BY DEF IndInv, ReplyNamesToken, Excused
<1>3. QED
  BY <1>1, <1>2, OpIsRecord DEF IndInv, SecretMatches, Numbered

LEMMA FinishGives ==
  ASSUME IndInv, NEW kind, NEW e \in Entries \union {None}, NEW err \in BOOLEAN,
         NEW keeps \in BOOLEAN, Finish(kind, Result(e, err), keeps),
         stranded' \subseteq Secrets
  PROVE  /\ op.kind = kind /\ op.phase = "reply" /\ op' = Idle
         /\ entry' = IF err /\ keeps THEN entry ELSE e
         /\ outcome' = IF err THEN "error" ELSE "ok"
         /\ UNCHANGED <<fixed, process, block, tokens, born, drifted, budget, own, lost, moved>>
         /\ TypeOK' /\ FirstBuildServesLegacy'
<1>1. Result(e, err).entry = e /\ Result(e, err).err = err
  BY DEF Result
<1>2. /\ op.kind = kind /\ op.phase = "reply" /\ op' = Idle
      /\ entry' = IF err /\ keeps THEN entry ELSE e
      /\ outcome' = IF err THEN "error" ELSE "ok"
      /\ UNCHANGED <<fixed, process, block, tokens, born, drifted, budget, own, lost, moved>>
  BY <1>1 DEF Finish
<1>3. entry' \in Entries \union {None} /\ outcome' \in {"none", "ok", "error", "crash"}
  BY <1>2 DEF IndInv, TypeOK
<1>4. TypeOK'
  BY <1>2, <1>3, IdleGives DEF IndInv, TypeOK, fixed
<1>5. FirstBuildServesLegacy'
  BY <1>2 DEF IndInv, FirstBuildServesLegacy
<1>6. QED
  BY <1>2, <1>4, <1>5

LEMMA StoredGives ==
  ASSUME NEW held \in Values, op.reply.value \in Values, attr \in {"scopes", "limits"}
  PROVE  /\ StoredValue(held) \in Values
         /\ attr = "limits" => op.reply.value \subseteq StoredValue(held)
  BY DEF StoredValue, Values

LEMMA EncodedGives ==
  ASSUME IndInv, Ok, NEW id \in Names, NEW held \in Values, op.reply.name \in Names
  PROVE  /\ Encoded(id, held) \in Entries /\ Encoded(id, held) # None
         /\ Encoded(id, held).id = id /\ Encoded(id, held).name = op.reply.name
         /\ Encoded(id, held).secret = op.reply.secret
         /\ attr = "limits" => op.reply.value \subseteq Encoded(id, held).value
<1>1. StoredValue(held) \in Values /\ (attr = "limits" => op.reply.value \subseteq StoredValue(held))
  BY StoredGives, OpIsRecord DEF IndInv, TypeOK
<1>2. op.reply.secret \in Secrets \union {0}
  BY OpIsRecord DEF IndInv
<1>3. Encoded(id, held) \in Entries
  BY <1>1, <1>2 DEF Encoded, Entries
<1>4. Encoded(id, held) # None
  BY <1>3, OrgTokenAssumption
<1>5. QED
  BY <1>1, <1>3, <1>4 DEF Encoded

LEMMA RefreshReturnsKeeps ==
  ASSUME IndInv, RefreshReturns
  PROVE  IndInv'
<1>1. op.kind = "refresh" /\ stranded' = stranded /\ stranded' \subseteq Secrets
  BY DEF RefreshReturns, Finish, IndInv, TypeOK
<1>2. /\ entry # None /\ op.id = entry.id /\ op.id \in Names
      /\ entry \in Entries /\ entry.value \in Values
  BY <1>1, RepliedKinds, EntryIsRecord DEF IndInv, OpOnEntry
<1>3. (Ok => ~NotFound) /\ Legacy \in BOOLEAN
  BY DEF Ok, NotFound, Legacy
<1>4. CASE Ok
  <2>1. op.reply.name = op.id /\ op.reply.name \in Names
    BY <1>1, <1>2, <1>4 DEF IndInv, ReplyNamesToken
  <2> DEFINE e == Encoded(op.id, entry.value)
  <2>2. /\ e \in Entries /\ e # None /\ e.id = op.id /\ e.name = op.reply.name
        /\ e.secret = op.reply.secret /\ (attr = "limits" => op.reply.value \subseteq e.value)
    BY <1>2, <1>4, <2>1, EncodedGives
  <2>3. Finish("refresh", Result(e, FALSE), TRUE)
    BY <1>3, <1>4 DEF RefreshReturns, ReadResult
  <2> HIDE DEF e
  <2>4. /\ op' = Idle /\ entry' = e /\ outcome' = "ok" /\ TypeOK' /\ FirstBuildServesLegacy'
        /\ UNCHANGED <<fixed, tokens, born, drifted, own, lost, moved>>
    BY <1>1, <2>2, <2>3, FinishGives
  <2>5. Excused' = Excused
    BY <1>1, <2>4 DEF Excused
  <2>6. EntryMatchesToken'
    BY <1>1, <1>4, <2>1, <2>2, <2>4
       DEF EntryMatchesToken, IndInv, ReplyNamesToken, Taken, Serial, fixed
  <2>7. \/ Taken(e.id) /\ Serial(e.id) = e.secret
        \/ e.secret \in {0} \union Excused
    BY <1>1, <1>4, <2>1, <2>2, BeforeReturn
  <2>8. \A n \in Names : Taken(n) /\ Serial(n) \in own => e.id = n \/ Serial(n) \in Excused
    BY <1>1, <1>2, <2>2, BeforeReturn
  <2>9. QED
    BY <2>2, <2>4, <2>5, <2>6, <2>7, <2>8, FinishedKeeps
<1>5. CASE NotFound /\ Legacy
  <2>1. Finish("refresh", Result(None, FALSE), TRUE)
    BY <1>3, <1>5 DEF RefreshReturns, ReadResult
  <2>2. /\ op' = Idle /\ entry' = None /\ TypeOK' /\ FirstBuildServesLegacy'
        /\ UNCHANGED <<tokens, born, drifted, own, lost, moved>>
    BY <1>1, <2>1, FinishGives
  <2>3. Excused' = Excused
    BY <1>1, <2>2 DEF Excused
  <2>4. EntryMatchesToken'
    BY <2>2 DEF EntryMatchesToken
  <2>5. \A n \in Names : Taken(n) /\ Serial(n) \in own => Serial(n) \in Excused
    BY <1>1, <1>2, <1>5, BeforeReturn DEF IndInv, LeftBehind, Left
  <2>6. QED
    BY <2>2, <2>3, <2>4, <2>5, FinishedKeeps
<1>6. CASE ~Ok /\ ~(NotFound /\ Legacy)
  <2>1. PICK e \in {entry, None} : Finish("refresh", Result(e, TRUE), TRUE)
    BY <1>6 DEF RefreshReturns, ReadResult
  <2>2. /\ op' = Idle /\ entry' = entry /\ outcome' = "error" /\ TypeOK'
        /\ FirstBuildServesLegacy'
        /\ UNCHANGED <<tokens, born, drifted, own, lost, moved>>
    BY <1>1, <1>2, <2>1, FinishGives
  <2>3. Excused' = Excused
    BY <1>1, <2>2 DEF Excused
  <2>4. EntryMatchesToken'
    BY <2>2 DEF EntryMatchesToken
  <2>5. QED
    BY <1>1, <1>6, <2>2, <2>3, <2>4, BeforeReturn, FinishedKeeps
<1>7. QED
  BY <1>4, <1>5, <1>6

LEMMA CreateReturnsKeeps ==
  ASSUME IndInv, CreateReturns
  PROVE  IndInv'
<1>1. op.kind = "create" /\ stranded' = stranded /\ stranded' \subseteq Secrets
  BY DEF CreateReturns, Finish, IndInv, TypeOK
<1>2. /\ entry = None /\ op.sent \in Desired /\ op.sent.name \in Names
      /\ op.sent.value \in Values
  BY <1>1 DEF IndInv, OpOnEntry, Desired
<1>3. CASE Ok
  <2>1. op.reply.name = op.sent.name /\ op.reply.value = op.sent.value
    BY <1>1, <1>3 DEF IndInv, ReplyNamesToken
  <2> DEFINE bare == [id |-> op.reply.name, name |-> op.sent.name,
                      value |-> op.sent.value, secret |-> 0]
  <2>2. /\ bare \in Entries /\ bare # None /\ bare.id = op.reply.name
        /\ bare.name = op.reply.name /\ bare.secret = 0 /\ bare.value = op.reply.value
    BY <1>2, <2>1, OrgTokenAssumption DEF Entries
  <2> DEFINE full == Encoded(op.reply.name, op.sent.value)
  <2>3. /\ full \in Entries /\ full # None /\ full.id = op.reply.name
        /\ full.name = op.reply.name /\ full.secret = op.reply.secret
        /\ attr = "limits" => op.reply.value \subseteq full.value
    BY <1>2, <1>3, <2>1, EncodedGives
  <2>4. \/ Finish("create", Result(full, FALSE), FALSE)
        \/ Finish("create", Result(bare, FALSE), FALSE)
    BY <1>3 DEF CreateReturns, CreateResult
  <2> HIDE DEF bare, full
  <2>5. PICK e \in {bare, full} : Finish("create", Result(e, FALSE), FALSE)
    BY <2>4
  <2>6. /\ e \in Entries /\ e # None /\ e.id = op.reply.name /\ e.name = op.reply.name
        /\ e.secret \in {0, op.reply.secret}
        /\ attr = "limits" => op.reply.value \subseteq e.value
    BY <2>2, <2>3
  <2>7. /\ op' = Idle /\ entry' = e /\ outcome' = "ok" /\ TypeOK' /\ FirstBuildServesLegacy'
        /\ UNCHANGED <<fixed, tokens, born, drifted, own, lost, moved>>
    BY <1>1, <2>5, <2>6, FinishGives
  <2>8. Excused' = Excused
    BY <1>1, <2>7 DEF Excused
  <2>9. EntryMatchesToken'
    BY <1>1, <1>3, <2>6, <2>7
       DEF EntryMatchesToken, IndInv, ReplyNamesToken, Taken, Serial, fixed
  <2>10. \/ Taken(e.id) /\ Serial(e.id) = e.secret
         \/ e.secret \in {0} \union Excused
    BY <1>1, <1>3, <2>6, BeforeReturn
  <2>11. ASSUME NEW n \in Names, Taken(n), Serial(n) \in own
         PROVE  e.id = n \/ Serial(n) \in Excused
    <3>1. Serial(n) = op.reply.secret \/ Serial(n) \in Excused
      BY <1>2, <2>11, BeforeReturn
    <3>2. op.reply.name \in Names
      BY <1>2, <2>1
    <3>3. QED
      BY <1>1, <1>3, <2>6, <2>11, <3>1, <3>2, BeforeReturn
  <2>12. QED
    BY <2>6, <2>7, <2>8, <2>9, <2>10, <2>11, FinishedKeeps
<1>4. CASE ~Ok
  <2>1. Finish("create", Result(None, TRUE), FALSE)
    BY <1>4 DEF CreateReturns, CreateResult
  <2>2. /\ op' = Idle /\ entry' = None /\ TypeOK' /\ FirstBuildServesLegacy'
        /\ UNCHANGED <<tokens, born, drifted, own, lost, moved>>
    BY <1>1, <2>1, FinishGives
  <2>3. Excused' = Excused
    BY <1>1, <2>2 DEF Excused
  <2>4. EntryMatchesToken'
    BY <2>2 DEF EntryMatchesToken
  <2>5. QED
    BY <1>2, <1>4, <2>2, <2>3, <2>4, BeforeReturn, FinishedKeeps
<1>5. QED
  BY <1>3, <1>4

LEMMA PlannedGives ==
  ASSUME IndInv, entry # None, op.sent \in Desired
  PROVE  /\ Planned \in Entries /\ Planned # None /\ Planned.id = entry.id
         /\ Planned.secret = entry.secret
<1>1. Planned \in Entries /\ Planned.id = entry.id /\ Planned.secret = entry.secret
  BY EntryIsRecord DEF IndInv, Planned, Entries, Desired
<1>2. QED
  BY <1>1, OrgTokenAssumption

LEMMA UpdateSucceeds ==
  ASSUME IndInv, UpdateReturns, Ok
  PROVE  IndInv'
<1>1. op.kind = "update"
  BY DEF UpdateReturns, Finish
<1>2. /\ entry # None /\ op.id = entry.id /\ op.id \in Names
      /\ op.sent \in Desired /\ op.sent.value \in Values
  BY <1>1, RepliedKinds DEF IndInv, OpOnEntry, Desired
<1>3. op.reply.name \in Names
  BY <1>1, RepliedKinds
<1> DEFINE e == Encoded(IdAfterUpdate, op.sent.value)
<1>4. /\ IdAfterUpdate \in Names
      /\ \/ IdAfterUpdate = op.reply.name
         \/ ~Legacy /\ IdAfterUpdate = op.id
  BY <1>2, <1>3 DEF IdAfterUpdate
<1>5. /\ e \in Entries /\ e # None /\ e.id = IdAfterUpdate /\ e.name = op.reply.name
      /\ e.secret = op.reply.secret /\ (attr = "limits" => op.reply.value \subseteq e.value)
  BY <1>2, <1>3, <1>4, EncodedGives
<1>6. UpdateResult = Result(e, FALSE)
  BY DEF UpdateResult, Ok, NotFound
<1> HIDE DEF e
<1>7. Finish("update", Result(e, FALSE), FALSE)
  BY <1>5, <1>6 DEF UpdateReturns, Result
<1>8. /\ stranded \subseteq stranded' /\ stranded' \subseteq Secrets
      /\ e.id # op.reply.name => op.reply.secret \in stranded'
  <2>1. stranded' = IF ~Legacy /\ op.reply.name # op.id
                    THEN stranded \union {op.reply.secret} ELSE stranded
    BY DEF UpdateReturns
  <2>2. ReplyNamesToken /\ stranded \subseteq Secrets
    BY DEF IndInv, TypeOK
  <2>3. op.reply.secret \in Secrets
    <3>1. \/ Taken(op.reply.name) /\ Serial(op.reply.name) = op.reply.secret
          \/ op.reply.secret \in moved
      BY <1>1, <2>2 DEF ReplyNamesToken
    <3>2. moved \subseteq Secrets
      BY DEF IndInv, TypeOK
    <3>3. QED
      BY <1>3, <3>1, <3>2, TokenIsRecord DEF IndInv
  <2>4. QED
    BY <1>4, <1>5, <2>1, <2>2, <2>3
<1>9. /\ op' = Idle /\ entry' = e /\ outcome' = "ok" /\ TypeOK' /\ FirstBuildServesLegacy'
      /\ UNCHANGED <<fixed, tokens, born, drifted, own, lost, moved>>
  BY <1>5, <1>7, <1>8, FinishGives
<1>10. Excused \subseteq Excused' /\ stranded' \subseteq Excused'
  BY <1>8, <1>9 DEF Excused
<1>11. EntryMatchesToken'
  <2>1. SUFFICES ASSUME stranded' = {}, ~drifted PROVE EntryMatchesToken'
    BY <1>9 DEF EntryMatchesToken
  <2>2. e.id = op.reply.name
    BY <1>8, <2>1
  <2>3. /\ tokens[e.id] # None /\ tokens[e.id].serial = e.secret
        /\ tokens[e.id].value = op.reply.value
    BY <1>1, <1>5, <2>1, <2>2 DEF IndInv, ReplyNamesToken, Taken, Serial
  <2>4. QED
    BY <1>5, <1>9, <2>2, <2>3 DEF EntryMatchesToken, Taken, fixed
<1>12. \/ Taken(e.id) /\ Serial(e.id) = e.secret
       \/ e.secret \in {0} \union Excused'
  BY <1>1, <1>5, <1>8, <1>10, BeforeReturn
<1>13. ASSUME NEW n \in Names, Taken(n), Serial(n) \in own
       PROVE  e.id = n \/ Serial(n) \in Excused'
  <2>1. Serial(n) = op.reply.secret \/ Serial(n) \in Excused
    <3>1. CASE n = op.id
      BY <1>1, <1>13, <3>1 DEF IndInv, LeftBehind, Left
    <3>2. CASE n # op.id
      BY <1>2, <1>13, <3>2, BeforeReturn
    <3>3. QED
      BY <3>1, <3>2
  <2>2. CASE Serial(n) = op.reply.secret
    <3>1. n = op.reply.name \/ op.reply.secret \in Excused
      BY <1>1, <1>3, <1>13, <2>2, BeforeReturn
    <3>2. QED
      BY <1>8, <1>10, <2>2, <3>1
  <2>3. QED
    BY <1>10, <2>1, <2>2
<1>14. QED
  BY <1>5, <1>9, <1>10, <1>11, <1>12, <1>13, FinishedKeeps

LEMMA UpdateReturnsKeeps ==
  ASSUME IndInv, UpdateReturns
  PROVE  IndInv'
<1>1. CASE Ok
  BY <1>1, UpdateSucceeds
<1>2. CASE ~Ok
  <2>1. op.kind = "update" /\ stranded' = stranded /\ stranded' \subseteq Secrets
    BY <1>2 DEF UpdateReturns, Finish, IndInv, TypeOK
  <2>2. entry # None /\ op.sent \in Desired
    BY <2>1 DEF IndInv, OpOnEntry
  <2>3. /\ Planned \in Entries /\ Planned # None /\ Planned.id = entry.id
        /\ Planned.secret = entry.secret
    BY <2>2, PlannedGives
  <2>4. \/ UpdateResult = Result(None, TRUE)
        \/ UpdateResult = Result(Planned, TRUE)
    BY <1>2 DEF UpdateResult
  <2>5. \/ Finish("update", Result(None, TRUE), TRUE)
        \/ Finish("update", Result(Planned, TRUE), FALSE)
    <3>1. Finish("update", UpdateResult, UpdateResult.entry = None)
      BY DEF UpdateReturns
    <3>2. CASE UpdateResult = Result(None, TRUE)
      <4>1. UpdateResult.entry = None
        BY <3>2 DEF Result
      <4>2. QED
        BY <3>1, <3>2, <4>1 DEF Finish
    <3>3. CASE UpdateResult = Result(Planned, TRUE)
      <4>1. UpdateResult.entry # None
        BY <2>3, <3>3 DEF Result
      <4>2. QED
        BY <3>1, <3>3, <4>1 DEF Finish
    <3>4. QED
      BY <2>4, <3>2, <3>3
  <2>6. /\ op' = Idle /\ entry' \in {entry, Planned} /\ outcome' = "error"
        /\ TypeOK' /\ FirstBuildServesLegacy'
        /\ UNCHANGED <<tokens, born, drifted, own, lost, moved>>
    BY <2>1, <2>3, <2>5, FinishGives
  <2>7. Excused' = Excused
    BY <2>1, <2>6 DEF Excused
  <2>8. EntryMatchesToken'
    BY <2>6 DEF EntryMatchesToken
  <2>9. entry' # None /\ entry'.id = entry.id /\ entry'.secret = entry.secret
    BY <2>2, <2>3, <2>6
  <2>10. QED
    BY <1>2, <2>2, <2>6, <2>7, <2>8, <2>9, BeforeReturn, FinishedKeeps
<1>3. QED
  BY <1>1, <1>2

LEMMA DeleteReturnsKeeps ==
  ASSUME IndInv, DeleteReturns
  PROVE  IndInv'
<1>1. op.kind = "delete" /\ stranded' = stranded /\ stranded' \subseteq Secrets
  BY DEF DeleteReturns, Finish, IndInv, TypeOK
<1>2. entry # None /\ op.id = entry.id /\ op.id \in Names /\ entry \in Entries
  BY <1>1, RepliedKinds, EntryIsRecord DEF IndInv, OpOnEntry
<1>3. Ok => ~NotFound
  BY DEF Ok, NotFound
<1>4. CASE Ok
  <2>1. Finish("delete", Result(None, FALSE), TRUE)
    BY <1>3, <1>4 DEF DeleteReturns, DeleteResult
  <2>2. /\ op' = Idle /\ entry' = None /\ TypeOK' /\ FirstBuildServesLegacy'
        /\ UNCHANGED <<tokens, born, drifted, own, lost, moved>>
    BY <1>1, <2>1, FinishGives
  <2>3. Excused' = Excused
    BY <1>1, <2>2 DEF Excused
  <2>4. EntryMatchesToken'
    BY <2>2 DEF EntryMatchesToken
  <2>5. ASSUME NEW n \in Names, Taken(n), Serial(n) \in own
        PROVE  Serial(n) \in Excused
    <3>1. CASE n = op.id
      BY <1>1, <1>4, <2>5, <3>1 DEF IndInv, LeftBehind, Left
    <3>2. CASE Serial(n) = op.reply.secret
      BY <1>1, <1>4, <2>5, <3>2 DEF IndInv, DeletedIsGone
    <3>3. QED
      BY <1>2, <2>5, <3>1, <3>2, BeforeReturn
  <2>6. QED
    BY <2>2, <2>3, <2>4, <2>5, FinishedKeeps
<1>5. CASE ~Ok
  <2>1. PICK e \in {entry, None} : Finish("delete", Result(e, TRUE), TRUE)
    BY <1>5 DEF DeleteReturns, DeleteResult
  <2>2. /\ op' = Idle /\ entry' = entry /\ outcome' = "error" /\ TypeOK'
        /\ FirstBuildServesLegacy'
        /\ UNCHANGED <<tokens, born, drifted, own, lost, moved>>
    BY <1>1, <1>2, <2>1, FinishGives
  <2>3. Excused' = Excused
    BY <1>1, <2>2 DEF Excused
  <2>4. EntryMatchesToken'
    BY <2>2 DEF EntryMatchesToken
  <2>5. QED
    BY <1>5, <2>2, <2>3, <2>4, BeforeReturn, FinishedKeeps
<1>6. QED
  BY <1>4, <1>5

LEMMA InterruptKeeps ==
  ASSUME IndInv, Interrupt
  PROVE  IndInv'
<1>1. /\ op' = Idle /\ outcome' = "crash" /\ process' = Started
      /\ lost' = IF Ok /\ op.kind # "refresh"
                 THEN lost \union {op.reply.secret} ELSE lost
      /\ UNCHANGED <<fixed, block, entry, tokens, born, drifted, own, moved, stranded>>
      /\ budget' \in 0..MaxDisturbances
  BY DisturbCounts DEF Interrupt, IndInv, TypeOK
<1>2. Started \in Processes /\ Started.handlers = "legacy"
  BY DEF Started, HandlersFor, Processes
<1>3. ASSUME Ok, op.kind # "refresh"
      PROVE  op.reply.secret \in Secrets
  <2>1. op.reply.secret \in Secrets \union {0}
    BY OpIsRecord DEF IndInv
  <2>2. CASE op.kind = "delete"
    BY <1>3, <2>1, <2>2 DEF IndInv, DeletedIsGone
  <2>3. CASE op.kind # "delete"
    <3>1. op.reply.name \in Names /\ moved \subseteq Secrets
      BY <1>3, <2>3, RepliedKinds DEF IndInv, TypeOK
    <3>2. \/ Taken(op.reply.name) /\ Serial(op.reply.name) = op.reply.secret
          \/ op.reply.secret \in moved
      BY <1>3, <2>3 DEF IndInv, ReplyNamesToken
    <3>3. QED
      BY <3>1, <3>2, TokenIsRecord DEF IndInv
  <2>4. QED
    BY <2>2, <2>3
<1>4. TypeOK'
  BY <1>1, <1>2, <1>3, IdleGives DEF IndInv, TypeOK, fixed
<1>5. Excused \subseteq Excused' /\ lost' \subseteq Excused'
  BY <1>1 DEF Excused
<1>6. FirstBuildServesLegacy' /\ EntryMatchesToken'
  BY <1>1, <1>2 DEF FirstBuildServesLegacy, EntryMatchesToken
<1>7. Ok /\ op.kind # "refresh" => op.reply.secret \in Excused'
  BY <1>1, <1>5
<1>8. entry # None => \/ Taken(entry.id) /\ Serial(entry.id) = entry.secret
                      \/ entry.secret \in {0} \union Excused'
  BY <1>5, <1>7, BeforeReturn DEF IndInv, AnswerMatches
<1>9. QED
  BY <1>1, <1>4, <1>5, <1>6, <1>7, <1>8, BeforeReturn, FinishedKeeps

----------------------------------------------------------------------------
(* The theorems.                                                           *)

LEMMA Initially ==
  ASSUME Init
  PROVE  IndInv
<1>1. /\ attr \in {"scopes", "limits"} /\ asked \in BOOLEAN /\ process = Started
      /\ op = Idle /\ outcome = "none" /\ drifted = FALSE /\ budget = MaxDisturbances
      /\ lost = {} /\ moved = {} /\ stranded = {}
  BY DEF Init
<1>2. Started \in Processes /\ Started.handlers = "legacy"
  BY DEF Started, HandlersFor, Processes
<1>3. /\ Idle \in Operations /\ op.kind = "idle" /\ op.phase = "none" /\ op.reply = NoReply
      /\ op.reply.secret = 0 /\ ~Ok /\ ~NotFound /\ ~Left
  BY <1>1, IdleGives, NoReplyGives DEF Ok, NotFound, Left
<1>4. FirstBuildServesLegacy /\ EntryMatchesToken
  BY <1>1, <1>2 DEF FirstBuildServesLegacy, EntryMatchesToken
<1>5. OpOnEntry /\ ReplyNamesToken /\ AnswerMatches /\ LeftBehind /\ DeletedIsGone
  BY <1>1, <1>3 DEF OpOnEntry, ReplyNamesToken, AnswerMatches, LeftBehind, DeletedIsGone
<1> DEFINE Counts == /\ budget \in 0..MaxDisturbances
                     /\ 0 \in 0..MaxTokens /\ 1 \in 0..MaxTokens
<1>6. Counts
  BY <1>1, OrgTokenAssumption
<1>7. CASE NothingYet
  <2>1. block = None /\ entry = None /\ born = 0 /\ own = {}
        /\ tokens = [n \in Names |-> None]
    BY <1>7 DEF NothingYet
  <2>2. tokens \in [Names -> Tokens \union {None}]
    BY <2>1
  <2>3. TypeOK
    BY <1>1, <1>2, <1>3, <1>6, <2>1, <2>2 DEF TypeOK
  <2>4. Numbered /\ SecretMatches /\ OwnTokensKnown
    BY <1>3, <2>1 DEF Numbered, SecretMatches, OwnTokensKnown, Taken
  <2>5. QED
    BY <1>3, <1>4, <1>5, <2>3, <2>4 DEF IndInv
<1>8. ASSUME NEW b \in [name : Names, value : BlockValues], MadeEarlier(b)
      PROVE  IndInv
  <2> DEFINE t == [serial |-> 1, value |-> b.value]
             v == IF attr = "scopes" THEN {"sorted"} ELSE b.value
             e == [id |-> b.name, name |-> b.name, secret |-> 1, value |-> v]
  <2>1. b.name \in Names /\ b.value \in Values /\ b \in Desired /\ 1 \in 1..MaxTokens
    BY <1>8, BlockValuesAre, OrgTokenAssumption DEF Desired
  <2>2. block = b /\ entry = e /\ born = 1 /\ own = {1}
        /\ tokens = [n \in Names |-> IF n = b.name THEN t ELSE None]
    BY <1>8 DEF MadeEarlier
  <2>3. t \in Tokens /\ t.serial = 1 /\ t # None
    BY <2>1, OrgTokenAssumption DEF Tokens
  <2>4. v \in Values
    BY <2>1 DEF Values
  <2>5. e \in Entries /\ e.id = b.name /\ e.secret = 1
    BY <2>1, <2>4 DEF Entries, Secrets
  <2> HIDE DEF t, v, e
  <2>6. TypeOK
    <3>1. tokens \in [Names -> Tokens \union {None}]
      BY <2>2, <2>3
    <3>2. own \subseteq Secrets
      BY <2>1, <2>2 DEF Secrets
    <3>3. QED
      BY <1>1, <1>2, <1>3, <1>6, <2>1, <2>2, <2>5, <3>1, <3>2 DEF TypeOK
  <2>7. \A n \in Names : Taken(n) => n = b.name /\ Serial(n) = 1
    BY <2>2, <2>3 DEF Taken, Serial
  <2>8. Taken(b.name) /\ Serial(b.name) = 1
    BY <2>1, <2>2, <2>3 DEF Taken, Serial
  <2>9. Numbered
    BY <1>3, <2>2, <2>7 DEF Numbered
  <2>10. SecretMatches
    BY <2>2, <2>5, <2>8 DEF SecretMatches
  <2>11. OwnTokensKnown
    <3>1. entry # None
      BY <2>2, <2>5, OrgTokenAssumption
    <3>2. QED
      BY <2>2, <2>5, <2>7, <3>1 DEF OwnTokensKnown
  <2>12. QED
    BY <1>3, <1>4, <1>5, <2>6, <2>9, <2>10, <2>11 DEF IndInv
<1>9. QED
  BY <1>7, <1>8 DEF Init

LEMMA Stutters ==
  ASSUME IndInv, UNCHANGED vars
  PROVE  IndInv'
<1>1. UNCHANGED <<attr, asked, process, block, entry, tokens, born, op, outcome,
                  drifted, budget, own, lost, moved, stranded>>
  BY DEF vars
<1>2. TypeOK'
  BY <1>1 DEF IndInv, TypeOK
<1>3. Numbered' /\ OpOnEntry' /\ ReplyNamesToken' /\ SecretMatches'
      /\ AnswerMatches' /\ LeftBehind' /\ DeletedIsGone'
  BY <1>1 DEF IndInv, Numbered, OpOnEntry, ReplyNamesToken, SecretMatches, AnswerMatches,
              LeftBehind, DeletedIsGone, Left, Ok, NotFound, Taken, Serial, Excused
<1>4. (NotFound => op.kind \in {"refresh", "update", "delete"})'
      /\ FirstBuildServesLegacy'
  BY <1>1 DEF IndInv, NotFound, FirstBuildServesLegacy
<1>5. OwnTokensKnown' /\ EntryMatchesToken'
  BY <1>1 DEF IndInv, OwnTokensKnown, EntryMatchesToken, Taken, InFlight, Ok
<1>6. QED
  BY <1>2, <1>3, <1>4, <1>5 DEF IndInv

LEMMA NextKeeps ==
  ASSUME IndInv, [Next]_vars
  PROVE  IndInv'
<1>1. CASE NewProcess \/ Configure \/ BuildAgain
  BY <1>1, ProcessesKeep
<1>2. CASE \E b \in [name : Names, value : BlockValues] \union {None} : EditBlock(b)
  <2>1. [name : Names, value : BlockValues] \union {None} \subseteq Desired \union {None}
    BY BlockValuesAre DEF Desired
  <2>2. QED
    BY <1>2, <2>1, EditBlockKeeps
<1>3. CASE \E n \in Names, v \in BlockValues : OthersCreate(n, v)
  BY <1>3, OthersCreateKeeps
<1>4. CASE \E n \in Names, v \in BlockValues : OthersChange(n, v)
  BY <1>4, OthersChangeKeeps
<1>5. CASE \E n \in Names : OthersDelete(n)
  BY <1>5, OthersDeleteKeeps
<1>6. CASE \E n, to \in Names : OthersRename(n, to)
  BY <1>6, OthersRenameKeeps
<1>7. CASE StartRefresh \/ StartCreate \/ StartUpdate \/ StartDelete
  BY <1>7, StartsKeep
<1>8. CASE ServerAnswers
  BY <1>8, RefusalKeeps, SuccessKeeps
<1>9. CASE ReplyLost
  BY <1>9, ReplyLostKeeps
<1>10. CASE CallFails
  BY <1>10, CallFailsKeeps
<1>11. CASE RefreshReturns
  BY <1>11, RefreshReturnsKeeps
<1>12. CASE CreateReturns
  BY <1>12, CreateReturnsKeeps
<1>13. CASE UpdateReturns
  BY <1>13, UpdateReturnsKeeps
<1>14. CASE DeleteReturns
  BY <1>14, DeleteReturnsKeeps
<1>15. CASE Interrupt
  BY <1>15, InterruptKeeps
<1>16. CASE UNCHANGED vars
  BY <1>16, Stutters
<1>17. QED
  BY <1>1, <1>2, <1>3, <1>4, <1>5, <1>6, <1>7, <1>8, <1>9, <1>10, <1>11, <1>12, <1>13,
     <1>14, <1>15, <1>16 DEF Next

(* The inductive invariant holds of every state: tokens keep their numbers,*)
(* an operation stays on its entry, and a reply names the token it is      *)
(* about until others move it.                                             *)
THEOREM Inductive == Spec => []IndInv
<1>1. Init => IndInv
  BY Initially
<1>2. IndInv /\ [Next]_vars => IndInv'
  BY NextKeeps
<1>3. QED
  BY <1>1, <1>2, PTL DEF Spec

(* For any names and bounds, the state keeps its shape.                    *)
THEOREM TypeCorrect == Spec => []TypeOK
<1>1. IndInv => TypeOK
  BY DEF IndInv
<1>2. QED
  BY <1>1, Inductive, PTL

(* The preview is looked up before any Configure, so whatever the provider *)
(* block asks for, a process's first build serves the legacy handlers.     *)
THEOREM LegacyFirst == Spec => []FirstBuildServesLegacy
<1>1. IndInv => FirstBuildServesLegacy
  BY DEF IndInv
<1>2. QED
  BY <1>1, Inductive, PTL

(* Whatever fails, is renamed or is lost, a live token made by this        *)
(* block's POST is the one its entry names, is about to be recorded, or    *)
(* was moved by others, touched by a lost call or renamed by the preview.  *)
THEOREM OwnTokens == Spec => []OwnTokensKnown
<1>1. IndInv => OwnTokensKnown
  BY DEF IndInv
<1>2. QED
  BY <1>1, Inductive, PTL

(* After a success with nobody else at work the entry describes the token  *)
(* it names, unless the preview's Update renamed one.                      *)
THEOREM EntryDescribes == Spec => []EntryMatchesToken
<1>1. IndInv => EntryMatchesToken
  BY DEF IndInv
<1>2. QED
  BY <1>1, Inductive, PTL

(* PUT and DELETE reach the token whose secret the entry holds and never a *)
(* namesake's, unless that token was moved by others, touched by a lost    *)
(* call or renamed by the preview, or the entry never held a secret.       *)
THEOREM WritesRecorded == Spec => WritesOnlyTheRecorded
<1>1. ASSUME IndInv, op.kind \in {"update", "delete"}, op.phase = "request", Code = "ok"
      PROVE  \/ tokens[op.id].serial = entry.secret
             \/ entry.secret \in {0} \union moved \union lost \union stranded
  <2>1. ~Ok /\ entry # None /\ op.id = entry.id
    BY <1>1, RequestGives
  <2>2. QED
    BY <1>1, <2>1 DEF IndInv, SecretMatches, Serial, Excused
<1>2. IndInv =>
        [op.kind \in {"update", "delete"} /\ op.phase = "request"
           /\ Code = "ok" /\ tokens' # tokens /\ tokens' = Effect =>
             \/ tokens[op.id].serial = entry.secret
             \/ entry.secret \in {0} \union moved \union lost \union stranded]_vars
  BY <1>1
<1>3. QED
  BY <1>2, Inductive, PTL DEF WritesOnlyTheRecorded

============================================================================
