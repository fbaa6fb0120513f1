-------------------------- MODULE Archival_proofs --------------------------
(***************************************************************************)
(* Automated archival: its exempt metrics, of which a block names some of  *)
(* the organization's, and its settings, of which an organization has one. *)
(* The settings are a versioned object, and so is a metric ruleset.        *)
(***************************************************************************)
EXTENDS ExemptMetrics, VersionedObject, TLAPS

----------------------------------------------------------------------------
(* Exempt metrics.                                                         *)

Lists == [Metrics -> Exemptions \union {None}]

(* What the phases of an operation go with: a create works on a block      *)
(* without an entry, the others on one that has an entry, and identifiers  *)
(* come only with a success.                                               *)
PhasesInOrder ==
    \A b \in Blocks :
        /\ op[b].phase # "reply" => op[b].reply = NoReply
        /\ op[b].kind = "create" => entry[b] = None
        /\ op[b].kind \in {"refresh", "delete"} => entry[b] # None
        /\ op[b].reply.ids # {} => op[b].reply.code = "ok"

(* An identifier belongs to one metric.                                    *)
IdsNameMetrics == \A m \in Exempted : exempt[m].id[1] = m

(* A block's entry holds no identifier that another's POST brought into    *)
(* use, unless the API lists those in its replies.                         *)
EntriesAreOwn ==
    \A b \in Blocks, m \in Exempted :
        entry[b] # None /\ exempt[m].id \in entry[b].ids =>
            api.echoes \/ exempt[m].by = b

(* Nor does the reply from which the entry is about to be written.         *)
RepliesAreOwn ==
    \A b \in Blocks, m \in Exempted :
        exempt[m].id \in Recording(b) => api.echoes \/ exempt[m].by = b

(* What a DELETE was answered "done" about is gone, and its identifiers    *)
(* are not used again while the entry mentions them.                       *)
DeletedStaysGone ==
    \A b \in Blocks, m \in Exempted :
        op[b].kind = "delete" /\ op[b].reply.code = "ok" =>
            exempt[m].id \notin entry[b].ids

IndInv ==
    /\ TypeOK
    /\ PhasesInOrder
    /\ IdsNameMetrics
    /\ EntriesAreOwn
    /\ RepliesAreOwn
    /\ DeletedStaysGone
    /\ OwnExemptionsKnown

----------------------------------------------------------------------------
(* Shapes.                                                                 *)

LEMMA NoReplyIsReply == NoReply \in Replies
  BY DEF NoReply, Replies

LEMMA IdleIsOperation == Idle \in Operations
  BY NoReplyIsReply, ExemptAssumption DEF Idle, Operations

LEMMA DisturbCounts ==
  ASSUME budget \in 0..MaxDisturbances, Disturb
  PROVE  budget' \in 0..MaxDisturbances
  BY ExemptAssumption DEF Disturb

LEMMA ExemptIsRecord ==
  ASSUME TypeOK, NEW m \in Exempted
  PROVE  m \in Metrics /\ exempt[m] \in Exemptions /\ exempt[m].id \in Ids
  BY DEF TypeOK, Exempted, Listed, Exemptions

LEMMA EntryIsRecord ==
  ASSUME TypeOK, NEW b \in Blocks, entry[b] # None
  PROVE  entry[b] \in Entries /\ entry[b].ids \subseteq Ids
  BY DEF TypeOK, Entries

LEMMA OpIsRecord ==
  ASSUME TypeOK, NEW b \in Blocks
  PROVE  /\ op[b] \in Operations /\ op[b].reply \in Replies
         /\ op[b].reply.ids \subseteq Ids /\ op[b].tries \in 0..RetryMax
  BY DEF TypeOK, Operations, Replies

(* The API finds an identifier that nothing mentions.                      *)
LEMMA NewIsUnused ==
  ASSUME NEW m \in Metrics, Unused(m) # {}, NEW b \in Blocks \union {Others}
  PROVE  /\ New(m, b) \in Exemptions /\ New(m, b).id \in Unused(m)
         /\ New(m, b).by = b /\ New(m, b).lost = FALSE
<1>1. NewId(m) \in Unused(m)
  <2>1. \E i \in Unused(m) : TRUE
    OBVIOUS
  <2>2. QED
    BY <2>1, Zenon DEF NewId
<1>2. NewId(m) \in Ids
  BY <1>1 DEF Unused
<1>3. QED
  BY <1>1, <1>2 DEF New, Exemptions

LEMMA UnusedIsNew ==
  ASSUME NEW m \in Metrics, NEW i \in Unused(m), TypeOK
  PROVE  /\ i \in Ids /\ i[1] = m
         /\ \A n \in Exempted : exempt[n].id # i
         /\ \A b \in Blocks : entry[b] # None => i \notin entry[b].ids
         /\ \A b \in Blocks : i \notin op[b].reply.ids
<1>1. i \in Ids /\ i \notin Mentioned /\ i[1] = m
  BY DEF Unused
<1>2. \A n \in Exempted : exempt[n].id \in Mentioned
  BY DEF Mentioned, LiveIds
<1>3. ASSUME NEW b \in Blocks, entry[b] # None, NEW j \in entry[b].ids
      PROVE  j \in Mentioned
  <2>1. b \in {c \in Blocks : entry[c] # None}
    BY <1>3
  <2>2. j \in UNION {entry[a].ids : a \in {c \in Blocks : entry[c] # None}}
    BY <2>1, <1>3
  <2>3. QED
    BY <2>2 DEF Mentioned, InEntries
<1>4. ASSUME NEW b \in Blocks, NEW j \in op[b].reply.ids
      PROVE  j \in Mentioned
  <2>1. j \in UNION {op[a].reply.ids : a \in Blocks}
    BY <1>4
  <2>2. QED
    BY <2>1 DEF Mentioned, InReplies
<1>5. QED
  BY <1>1, <1>2, <1>3, <1>4

----------------------------------------------------------------------------
(* What a call that reaches the API does to the list.                      *)

(* Each metric is new under an unused identifier, removed, or as it was.   *)
Follows(b) ==
    /\ exempt' \in Lists
    /\ \A m \in Metrics :
          \/ /\ m \in Added(b)
             /\ exempt[m] = None
             /\ exempt'[m] \in Exemptions
             /\ exempt'[m].id \in Unused(m)
             /\ exempt'[m].by = b
          \/ m \in Removed(b) /\ exempt'[m] = None
          \/ m \notin Added(b) \union Removed(b) /\ exempt'[m] = exempt[m]
    /\ UNCHANGED <<api, block, entry>>

LEMMA AddedIsNew ==
  ASSUME TypeOK, NEW b \in Blocks, NEW m \in Added(b)
  PROVE  m \in Metrics /\ exempt[m] = None /\ op[b].kind = "create"
  BY DEF TypeOK, Added, Fresh, Listed

LEMMA RemovedIsListed ==
  ASSUME TypeOK, NEW b \in Blocks, NEW m \in Removed(b)
  PROVE  /\ m \in Exempted /\ op[b].kind = "delete" /\ m \notin Added(b)
         /\ exempt[m].id \in entry[b].ids
  BY DEF Removed, Added, SentIds

LEMMA EffectGives ==
  ASSUME TypeOK, NEW b \in Blocks, NEW m \in Metrics,
         \A n \in Added(b) : Unused(n) # {}
  PROVE  /\ m \in Added(b) =>
               /\ Effect(b)[m] \in Exemptions /\ Effect(b)[m].id \in Unused(m)
               /\ Effect(b)[m].by = b
         /\ m \in Removed(b) => Effect(b)[m] = None
         /\ m \notin Added(b) \union Removed(b) => Effect(b)[m] = exempt[m]
<1>1. CASE m \in Added(b)
  <2>1. Effect(b)[m] = New(m, b)
    BY <1>1 DEF Effect
  <2>2. /\ New(m, b) \in Exemptions /\ New(m, b).id \in Unused(m)
        /\ New(m, b).by = b
    BY <1>1, NewIsUnused
  <2>3. m \notin Removed(b)
    BY <1>1, RemovedIsListed
  <2>4. QED
    BY <1>1, <2>1, <2>2, <2>3
<1>2. CASE m \notin Added(b)
  BY <1>2 DEF Effect
<1>3. QED
  BY <1>1, <1>2

LEMMA ServerAnswersFollows ==
  ASSUME IndInv, NEW b \in Blocks, ServerAnswers(b)
  PROVE  Follows(b)
<1>1. TypeOK /\ exempt' = Effect(b) /\ \A n \in Added(b) : Unused(n) # {}
  BY DEF IndInv, ServerAnswers, Serve
<1>2. UNCHANGED <<api, block, entry>>
  BY DEF ServerAnswers, Serve
<1>3. ASSUME NEW m \in Metrics
      PROVE  /\ exempt'[m] \in Exemptions \union {None}
             /\ \/ /\ m \in Added(b) /\ exempt[m] = None
                   /\ exempt'[m] \in Exemptions
                   /\ exempt'[m].id \in Unused(m) /\ exempt'[m].by = b
                \/ m \in Removed(b) /\ exempt'[m] = None
                \/ m \notin Added(b) \union Removed(b) /\ exempt'[m] = exempt[m]
  <2>1. exempt[m] \in Exemptions \union {None}
    BY <1>1 DEF TypeOK
  <2>2. QED
    BY <1>1, <2>1, EffectGives, AddedIsNew
<1>4. exempt' = [m \in Metrics |-> exempt'[m]]
  BY <1>1 DEF Effect
<1>5. exempt' \in Lists
  BY <1>3, <1>4 DEF Lists
<1>6. QED
  BY <1>2, <1>3, <1>5 DEF Follows

LEMMA ReplyLostFollows ==
  ASSUME IndInv, NEW b \in Blocks, ReplyLost(b)
  PROVE  Follows(b) /\ \A m \in Added(b) : exempt'[m].lost
<1>1. /\ TypeOK /\ exempt' = Lost(Effect(b), Added(b))
      /\ \A n \in Added(b) : Unused(n) # {}
  BY DEF IndInv, ReplyLost, Serve
<1>2. UNCHANGED <<api, block, entry>>
  BY DEF ReplyLost, Serve
<1>3. ASSUME NEW m \in Metrics
      PROVE  /\ exempt'[m] \in Exemptions \union {None}
             /\ m \in Added(b) => exempt'[m].lost
             /\ \/ /\ m \in Added(b) /\ exempt[m] = None
                   /\ exempt'[m] \in Exemptions
                   /\ exempt'[m].id \in Unused(m) /\ exempt'[m].by = b
                \/ m \in Removed(b) /\ exempt'[m] = None
                \/ m \notin Added(b) \union Removed(b) /\ exempt'[m] = exempt[m]
  <2>1. exempt[m] \in Exemptions \union {None}
    BY <1>1 DEF TypeOK
  <2>2. CASE m \in Added(b)
    <3>1. /\ exempt'[m] = [Effect(b)[m] EXCEPT !.lost = TRUE]
          /\ Effect(b)[m] \in Exemptions
      BY <1>1, <2>2, EffectGives DEF Lost
    <3>2. /\ exempt'[m] \in Exemptions /\ exempt'[m].lost
          /\ exempt'[m].id = Effect(b)[m].id
          /\ exempt'[m].by = Effect(b)[m].by
      BY <3>1 DEF Exemptions
    <3>3. QED
      BY <1>1, <2>2, <3>2, EffectGives, AddedIsNew
  <2>3. CASE m \notin Added(b)
    <3>1. exempt'[m] = Effect(b)[m]
      BY <1>1, <2>3 DEF Lost
    <3>2. QED
      BY <1>1, <2>1, <2>3, <3>1, EffectGives
  <2>4. QED
    BY <2>2, <2>3
<1>4. exempt' = [m \in Metrics |-> exempt'[m]]
  BY <1>1 DEF Lost
<1>5. exempt' \in Lists
  BY <1>3, <1>4 DEF Lists
<1>6. Added(b) \subseteq Metrics
  BY <1>1, AddedIsNew
<1>7. QED
  BY <1>2, <1>3, <1>5, <1>6 DEF Follows

(* A metric listed after the call was listed before, under the same        *)
(* identifier, or is new.                                                  *)
LEMMA ListedAfter ==
  ASSUME IndInv, NEW b \in Blocks, Follows(b), NEW m \in Exempted'
  PROVE  /\ m \in Metrics /\ exempt'[m] \in Exemptions
         /\ \/ m \in Exempted /\ exempt'[m] = exempt[m] /\ m \notin Removed(b)
            \/ /\ m \in Added(b) /\ exempt'[m].by = b
               /\ exempt'[m].id \in Unused(m)
<1>1. m \in Metrics /\ exempt'[m] # None
  BY DEF Exempted, Listed
<1>2. exempt'[m] \in Exemptions
  BY <1>1 DEF Follows, Lists
<1>3. QED
  BY <1>1, <1>2 DEF Follows, Exempted, Listed

LEMMA FollowsKeeps ==
  ASSUME IndInv, NEW b \in Blocks, Follows(b)
  PROVE  IdsNameMetrics' /\ EntriesAreOwn'
<1> USE DEF IndInv
<1>1. ASSUME NEW m \in Exempted' PROVE exempt'[m].id[1] = m
  BY <1>1, ListedAfter, UnusedIsNew DEF IdsNameMetrics
<1>2. ASSUME NEW c \in Blocks, NEW m \in Exempted', entry[c] # None,
             exempt'[m].id \in entry[c].ids
      PROVE  api.echoes \/ exempt'[m].by = c
  <2>1. CASE m \in Exempted /\ exempt'[m] = exempt[m]
    BY <1>2, <2>1 DEF EntriesAreOwn
  <2>2. CASE m \in Metrics /\ exempt'[m].id \in Unused(m)
    BY <1>2, <2>2, UnusedIsNew
  <2>3. QED
    BY <2>1, <2>2, ListedAfter
<1>3. api' = api /\ entry' = entry
  BY DEF Follows
<1>4. QED
  BY <1>1, <1>2, <1>3 DEF IdsNameMetrics, EntriesAreOwn

(* What others hold is not disturbed by the call of b.                     *)
LEMMA FollowsSparesOthers ==
  ASSUME IndInv, NEW b \in Blocks, Follows(b), NEW o, op' = [op EXCEPT ![b] = o],
         NEW c \in Blocks, c # b, NEW m \in Exempted'
  PROVE  /\ exempt'[m].id \in Recording(c)' => api'.echoes \/ exempt'[m].by = c
         /\ op'[c].kind = "delete" /\ op'[c].reply.code = "ok" =>
               exempt'[m].id \notin entry'[c].ids
         /\ exempt'[m].by = c =>
               \/ entry'[c] # None /\ exempt'[m].id \in entry'[c].ids
               \/ exempt'[m].id \in Recording(c)'
               \/ exempt'[m].lost
<1>1. op'[c] = op[c] /\ Recording(c)' = Recording(c)
  BY DEF IndInv, TypeOK, Recording
<1>2. api' = api /\ entry' = entry
  BY DEF Follows
<1>3. CASE m \in Exempted /\ exempt'[m] = exempt[m]
  BY <1>1, <1>2, <1>3 DEF IndInv, RepliesAreOwn, DeletedStaysGone, OwnExemptionsKnown
<1>4. CASE m \in Metrics /\ exempt'[m].by = b /\ exempt'[m].id \in Unused(m)
  <2>1. exempt'[m].id \notin Recording(c)
    BY <1>4, UnusedIsNew DEF IndInv, Recording
  <2>2. entry[c] # None => exempt'[m].id \notin entry[c].ids
    BY <1>4, UnusedIsNew DEF IndInv
  <2>3. op[c].kind = "delete" => entry[c] # None
    BY DEF IndInv, PhasesInOrder
  <2>4. QED
    BY <1>1, <1>2, <1>4, <2>1, <2>2, <2>3
<1>5. QED
  BY <1>3, <1>4, ListedAfter

(* A call under way has not been answered.                                 *)
LEMMA UnansweredHasNothing ==
  ASSUME IndInv, NEW b \in Blocks, op[b].phase # "reply"
  PROVE  op[b].reply.code = "none" /\ op[b].reply.ids = {} /\ Recording(b) = {}
  BY DEF IndInv, PhasesInOrder, NoReply, Recording

LEMMA AnswerGives ==
  ASSUME NEW b \in Blocks
  PROVE  /\ op[b].kind = "refresh" => Answer(b) = Reply("ok", Exempted, exempt)
         /\ op[b].kind = "create" =>
               Answer(b) = Reply("ok", IF api.echoes THEN block[b] ELSE Fresh(b),
                                 Effect(b))
         /\ op[b].kind \notin {"refresh", "create"} =>
               Answer(b) = Reply(IF Refused(b) THEN "notfound" ELSE "ok", {}, exempt)
  BY DEF Answer, Refused

LEMMA CreateLeavesListed ==
  ASSUME IndInv, NEW b \in Blocks, op[b].kind = "create", Follows(b),
         NEW m \in block[b]
  PROVE  m \in Exempted'
<1>1. m \in Metrics
  BY DEF IndInv, TypeOK
<1>2. m \notin Removed(b)
  BY RemovedIsListed DEF IndInv
<1>3. exempt'[m] # None
  <2>1. CASE exempt[m] # None
    <3>1. m \notin Added(b)
      BY <2>1 DEF Added, Fresh, Listed
    <3>2. QED
      BY <1>1, <1>2, <2>1, <3>1 DEF Follows
  <2>2. CASE exempt[m] = None
    <3>1. m \in Added(b)
      BY <2>2, <1>1 DEF Added, Fresh, Listed
    <3>2. exempt'[m] \in Exemptions
      BY <1>1, <1>2, <3>1 DEF Follows
    <3>3. QED
      BY <3>2, ExemptAssumption
  <2>3. QED
    BY <2>1, <2>2
<1>4. QED
  BY <1>1, <1>3 DEF Exempted, Listed

----------------------------------------------------------------------------
(* Calls that end.                                                         *)

LEMMA AnswerIsReply ==
  ASSUME IndInv, NEW b \in Blocks, ServerAnswers(b)
  PROVE  Answer(b) \in Replies
<1>1. TypeOK /\ Follows(b) /\ exempt' = Effect(b)
  BY ServerAnswersFollows DEF IndInv, ServerAnswers, Serve
<1>2. ASSUME NEW code \in {"ok", "notfound"}, NEW ms \in SUBSET Metrics, NEW list,
             \A m \in ms : list[m].id \in Ids
      PROVE  Reply(code, ms, list) \in Replies
  <2>1. {list[m].id : m \in ms} \in SUBSET Ids
    BY <1>2
  <2>2. QED
    BY <1>2, <2>1 DEF Reply, Replies
<1>3. CASE op[b].kind = "refresh"
  <2>1. Exempted \in SUBSET Metrics /\ \A m \in Exempted : exempt[m].id \in Ids
    BY <1>1, ExemptIsRecord DEF Exempted
  <2>2. QED
    BY <1>2, <1>3, <2>1, AnswerGives
<1>4. CASE op[b].kind = "create"
  <2> DEFINE ms == IF api.echoes THEN block[b] ELSE Fresh(b)
  <2>1. ms \in SUBSET Metrics /\ ms \subseteq block[b]
    BY <1>1 DEF TypeOK, Fresh
  <2>2. \A m \in ms : Effect(b)[m].id \in Ids
    BY <1>1, <1>4, <2>1, CreateLeavesListed, ListedAfter DEF Exemptions
  <2>3. Reply("ok", ms, Effect(b)) \in Replies
    <3> HIDE DEF ms
    <3>1. QED
      BY <1>2, <2>1, <2>2
  <2>4. QED
    BY <1>4, <2>3, AnswerGives
<1>5. CASE op[b].kind \notin {"refresh", "create"}
  <2>1. (IF Refused(b) THEN "notfound" ELSE "ok") \in {"ok", "notfound"}
    OBVIOUS
  <2>2. QED
    BY <1>2, <1>5, <2>1, AnswerGives
<1>6. QED
  BY <1>3, <1>4, <1>5

(* What a create is told are the identifiers of its own metrics.           *)
LEMMA CreateLearnsItsOwn ==
  ASSUME IndInv, NEW b \in Blocks, ServerAnswers(b), op[b].kind = "create",
         NEW m \in Exempted'
  PROVE  /\ exempt'[m].id \in Answer(b).ids => api.echoes \/ exempt'[m].by = b
         /\ m \in Added(b) => exempt'[m].id \in Answer(b).ids
<1>1. TypeOK /\ Follows(b) /\ exempt' = Effect(b) /\ IdsNameMetrics'
  BY ServerAnswersFollows, FollowsKeeps DEF IndInv, ServerAnswers, Serve
<1> DEFINE ms == IF api.echoes THEN block[b] ELSE Fresh(b)
<1>2. Answer(b).ids = {exempt'[n].id : n \in ms}
  BY <1>1, AnswerGives DEF Reply
<1>3. m \in Added(b) => m \in ms
  BY DEF Added, Fresh
<1>4. ASSUME exempt'[m].id \in Answer(b).ids, ~api.echoes
      PROVE  exempt'[m].by = b
  <2>1. PICK n \in Fresh(b) : exempt'[n].id = exempt'[m].id
    BY <1>2, <1>4
  <2>2. n \in Exempted'
    BY <1>1, <2>1, CreateLeavesListed DEF Fresh
  <2>3. n = m
    BY <1>1, <2>1, <2>2 DEF IdsNameMetrics
  <2>4. m \in Added(b)
    BY <2>1, <2>3 DEF Added
  <2>5. exempt[m] = None
    BY <1>1, <2>4, AddedIsNew
  <2>6. QED
    BY <1>1, <2>4, <2>5, ListedAfter DEF Exempted, Listed
<1>5. QED
  BY <1>2, <1>3, <1>4

LEMMA ServerAnswersKeeps ==
  ASSUME IndInv, NEW b \in Blocks, ServerAnswers(b)
  PROVE  IndInv'
<1>1. /\ TypeOK /\ Follows(b) /\ IdsNameMetrics' /\ EntriesAreOwn'
      /\ Answer(b) \in Replies /\ op[b] \in Operations /\ op[b].phase = "request"
      /\ exempt' = Effect(b)
  BY ServerAnswersFollows, FollowsKeeps, AnswerIsReply, OpIsRecord
  DEF IndInv, ServerAnswers, Serve
<1>2. /\ op' = [op EXCEPT ![b] = Replied(b, Answer(b))]
      /\ api' = api /\ block' = block /\ entry' = entry /\ budget' = budget
  BY DEF ServerAnswers, Serve
<1>3. /\ Replied(b, Answer(b)) \in Operations
      /\ Replied(b, Answer(b)).kind = op[b].kind
      /\ Replied(b, Answer(b)).phase = "reply"
      /\ Replied(b, Answer(b)).reply = Answer(b)
  BY <1>1 DEF Replied, Operations
<1>4. op'[b] = Replied(b, Answer(b)) /\ op \in [Blocks -> Operations]
  BY <1>1, <1>2 DEF TypeOK
<1>5. TypeOK'
  BY <1>1, <1>2, <1>3, <1>4 DEF TypeOK, Follows, Lists
<1>6. PhasesInOrder'
  <2>1. Answer(b).ids # {} => Answer(b).code = "ok"
    BY AnswerGives DEF Reply
  <2>2. QED
    BY <1>2, <1>3, <1>4, <2>1 DEF IndInv, PhasesInOrder
<1>7. Recording(b)' = IF op[b].kind = "create" THEN Answer(b).ids ELSE {}
  BY <1>3, <1>4 DEF Recording
<1>8. ASSUME NEW m \in Exempted'
      PROVE  /\ exempt'[m].id \in Recording(b)' => api'.echoes \/ exempt'[m].by = b
             /\ op'[b].kind = "delete" /\ op'[b].reply.code = "ok" =>
                   exempt'[m].id \notin entry'[b].ids
             /\ exempt'[m].by = b =>
                   \/ entry'[b] # None /\ exempt'[m].id \in entry'[b].ids
                   \/ exempt'[m].id \in Recording(b)'
                   \/ exempt'[m].lost
  <2>1. exempt'[m].id \in Recording(b)' => api'.echoes \/ exempt'[m].by = b
    BY <1>2, <1>7, CreateLearnsItsOwn
  <2>2. ASSUME op'[b].kind = "delete", op'[b].reply.code = "ok"
        PROVE  exempt'[m].id \notin entry'[b].ids
    <3>1. op[b].kind = "delete" /\ Answer(b).code = "ok"
      BY <1>3, <1>4, <2>2
    <3>2. ~Refused(b)
      <4>1. Answer(b) = Reply(IF Refused(b) THEN "notfound" ELSE "ok", {}, exempt)
        BY <3>1, AnswerGives
      <4>2. Answer(b).code = IF Refused(b) THEN "notfound" ELSE "ok"
        BY <4>1 DEF Reply
      <4>3. QED
        BY <3>1, <4>2
    <3>3. m \notin Added(b)
      BY <3>1 DEF Added
    <3>4. m \in Exempted /\ exempt'[m] = exempt[m] /\ m \notin Removed(b)
      BY <1>1, <3>3, ListedAfter
    <3>5. QED
      BY <1>2, <3>1, <3>2, <3>4 DEF Removed, SentIds
  <2>3. ASSUME exempt'[m].by = b
        PROVE  \/ entry'[b] # None /\ exempt'[m].id \in entry'[b].ids
               \/ exempt'[m].id \in Recording(b)'
               \/ exempt'[m].lost
    <3>1. CASE m \in Added(b)
      BY <1>1, <1>7, <3>1, AddedIsNew, CreateLearnsItsOwn
    <3>2. CASE m \in Exempted /\ exempt'[m] = exempt[m]
      <4>1. Recording(b) = {}
        BY <1>1, UnansweredHasNothing
      <4>2. QED
        BY <1>2, <2>3, <3>2, <4>1 DEF IndInv, OwnExemptionsKnown
    <3>3. QED
      BY <1>1, <3>1, <3>2, ListedAfter
  <2>4. QED
    BY <2>1, <2>2, <2>3
<1>9. RepliesAreOwn' /\ DeletedStaysGone' /\ OwnExemptionsKnown'
  BY <1>1, <1>2, <1>8, FollowsSparesOthers
  DEF RepliesAreOwn, DeletedStaysGone, OwnExemptionsKnown
<1>10. QED
  BY <1>1, <1>5, <1>6, <1>9 DEF IndInv

LEMMA RetryGives ==
  ASSUME TypeOK, NEW b \in Blocks, op[b].phase = "request", op[b].reply = NoReply
  PROVE  /\ RetryOrGiveUp(b) \in Operations
         /\ RetryOrGiveUp(b).kind = op[b].kind
         /\ RetryOrGiveUp(b).reply.ids = {} /\ RetryOrGiveUp(b).reply.code # "ok"
         /\ RetryOrGiveUp(b).phase # "reply" => RetryOrGiveUp(b).reply = NoReply
<1>1. op[b] \in Operations /\ op[b].tries \in 0..RetryMax /\ RetryMax \in Nat
  BY OpIsRecord, ExemptAssumption
<1>2. CASE op[b].tries < RetryMax
  <2>1. RetryOrGiveUp(b) = [op[b] EXCEPT !.tries = @ + 1]
    BY <1>2 DEF RetryOrGiveUp
  <2>2. op[b].tries + 1 \in 0..RetryMax
    BY <1>1, <1>2
  <2>3. QED
    BY <1>1, <2>1, <2>2 DEF Operations, NoReply
<1>3. CASE ~(op[b].tries < RetryMax)
  <2> DEFINE r == [NoReply EXCEPT !.code = "failed"]
  <2>1. RetryOrGiveUp(b) = [op[b] EXCEPT !.phase = "reply", !.reply = r]
    BY <1>3 DEF RetryOrGiveUp, Replied
  <2>2. r \in Replies /\ r.ids = {} /\ r.code = "failed"
    BY DEF NoReply, Replies
  <2>3. QED
    BY <1>1, <2>1, <2>2 DEF Operations
<1>4. QED
  BY <1>2, <1>3

LEMMA ReplyLostKeeps ==
  ASSUME IndInv, NEW b \in Blocks, ReplyLost(b)
  PROVE  IndInv'
<1>1. /\ TypeOK /\ Follows(b) /\ IdsNameMetrics' /\ EntriesAreOwn'
      /\ op[b].phase = "request" /\ op[b].reply = NoReply
      /\ op \in [Blocks -> Operations] /\ budget' \in 0..MaxDisturbances
      /\ \A m \in Added(b) : exempt'[m].lost
  BY ReplyLostFollows, FollowsKeeps, DisturbCounts
  DEF IndInv, TypeOK, PhasesInOrder, ReplyLost, Serve
<1>2. /\ op' = [op EXCEPT ![b] = RetryOrGiveUp(b)]
      /\ api' = api /\ block' = block /\ entry' = entry
  BY DEF ReplyLost, Serve
<1>3. op'[b] = RetryOrGiveUp(b)
  BY <1>1, <1>2
<1>4. TypeOK'
  BY <1>1, <1>2, RetryGives DEF TypeOK, Follows, Lists
<1>5. PhasesInOrder'
  BY <1>1, <1>2, <1>3, RetryGives DEF IndInv, PhasesInOrder
<1>6. Recording(b)' = {}
  BY <1>1, <1>3, RetryGives DEF Recording
<1>7. ASSUME NEW m \in Exempted'
      PROVE  /\ exempt'[m].id \in Recording(b)' => api'.echoes \/ exempt'[m].by = b
             /\ op'[b].kind = "delete" /\ op'[b].reply.code = "ok" =>
                   exempt'[m].id \notin entry'[b].ids
             /\ exempt'[m].by = b =>
                   \/ entry'[b] # None /\ exempt'[m].id \in entry'[b].ids
                   \/ exempt'[m].id \in Recording(b)'
                   \/ exempt'[m].lost
  <2>1. op'[b].reply.code # "ok"
    BY <1>1, <1>3, RetryGives
  <2>2. Recording(b) = {}
    BY <1>1, UnansweredHasNothing
  <2>3. exempt'[m].by = b =>
           \/ entry'[b] # None /\ exempt'[m].id \in entry'[b].ids
           \/ exempt'[m].lost
    BY <1>1, <1>2, <2>2, ListedAfter DEF IndInv, OwnExemptionsKnown
  <2>4. QED
    BY <1>6, <2>1, <2>3
<1>8. RepliesAreOwn' /\ DeletedStaysGone' /\ OwnExemptionsKnown'
  BY <1>1, <1>2, <1>7, FollowsSparesOthers
  DEF RepliesAreOwn, DeletedStaysGone, OwnExemptionsKnown
<1>9. QED
  BY <1>1, <1>4, <1>5, <1>8 DEF IndInv

(* A step of b that leaves the list and the entries alone and whose reply, *)
(* if any, brings no identifiers.                                          *)
LEMMA NothingLearnt ==
  ASSUME IndInv, NEW b \in Blocks, NEW o \in Operations, op' = [op EXCEPT ![b] = o],
         op[b].phase # "reply", UNCHANGED <<api, block, entry, exempt>>,
         budget' \in 0..MaxDisturbances,
         o.reply.ids = {}, o.reply.code # "ok",
         o.phase # "reply" => o.reply = NoReply,
         o.kind = "create" => entry[b] = None,
         o.kind \in {"refresh", "delete"} => entry[b] # None
  PROVE  IndInv'
<1>1. TypeOK /\ op \in [Blocks -> Operations] /\ op'[b] = o
      /\ \A c \in Blocks : c # b => op'[c] = op[c]
  BY DEF IndInv, TypeOK
<1>2. TypeOK'
  BY <1>1 DEF TypeOK
<1>3. PhasesInOrder'
  BY <1>1 DEF IndInv, PhasesInOrder
<1>4. Recording(b) = {} /\ Recording(b)' = {}
      /\ \A c \in Blocks : Recording(c)' = Recording(c)
  BY <1>1, UnansweredHasNothing DEF Recording
<1>5. Exempted' = Exempted
  BY DEF Exempted, Listed
<1>6. IdsNameMetrics' /\ EntriesAreOwn'
  BY <1>5 DEF IndInv, IdsNameMetrics, EntriesAreOwn
<1>7. RepliesAreOwn' /\ OwnExemptionsKnown'
  BY <1>4, <1>5 DEF IndInv, RepliesAreOwn, OwnExemptionsKnown
<1>8. DeletedStaysGone'
  BY <1>1, <1>5 DEF IndInv, DeletedStaysGone
<1>9. QED
  BY <1>2, <1>3, <1>6, <1>7, <1>8 DEF IndInv

LEMMA CallFailsKeeps ==
  ASSUME IndInv, NEW b \in Blocks, CallFails(b)
  PROVE  IndInv'
<1>1. TypeOK /\ op[b].phase = "request" /\ op[b].reply = NoReply
      /\ budget' \in 0..MaxDisturbances
  BY DisturbCounts DEF IndInv, TypeOK, PhasesInOrder, CallFails
<1>2. op' = [op EXCEPT ![b] = RetryOrGiveUp(b)] /\ UNCHANGED <<api, block, entry, exempt>>
  BY DEF CallFails
<1>3. /\ op[b].kind = "create" => entry[b] = None
      /\ op[b].kind \in {"refresh", "delete"} => entry[b] # None
  BY DEF IndInv, PhasesInOrder
<1>4. QED
  BY <1>1, <1>2, <1>3, RetryGives, NothingLearnt

LEMMA BeginKeeps ==
  ASSUME IndInv, NEW b \in Blocks, NEW kind \in {"refresh", "create", "delete"},
         Begin(b, kind),
         kind = "create" => entry[b] = None,
         kind # "create" => entry[b] # None
  PROVE  IndInv'
<1> DEFINE o == [Idle EXCEPT !.kind = kind, !.phase = "request"]
<1>1. /\ o \in Operations /\ o.kind = kind /\ o.phase = "request"
      /\ o.reply = NoReply /\ NoReply.ids = {} /\ NoReply.code = "none"
  BY IdleIsOperation DEF Idle, Operations, NoReply
<1>2. /\ op' = [op EXCEPT ![b] = o] /\ UNCHANGED <<api, block, entry, exempt, budget>>
      /\ op[b].phase # "reply" /\ budget' \in 0..MaxDisturbances
  BY DEF Begin, Idle, IndInv, TypeOK
<1> HIDE DEF o
<1>3. QED
  BY <1>1, <1>2, NothingLearnt

----------------------------------------------------------------------------
(* Handlers that return.                                                   *)

(* An entry that names only what the block knew, and all that it has to.   *)
LEMMA ReturnKeeps ==
  ASSUME IndInv, NEW b \in Blocks, NEW kind, NEW e \in Entries \union {None},
         Return(b, kind, e),
         e # None => \A i \in e.ids : (entry[b] # None /\ i \in entry[b].ids)
                                       \/ i \in Recording(b),
         \A m \in Exempted : exempt[m].by = b /\ ~exempt[m].lost =>
                                e # None /\ exempt[m].id \in e.ids
  PROVE  IndInv'
<1>1. /\ TypeOK /\ entry' = [entry EXCEPT ![b] = e] /\ op' = [op EXCEPT ![b] = Idle]
      /\ UNCHANGED <<api, block, exempt, budget>>
      /\ Exempted' = Exempted
  BY DEF IndInv, Return, Exempted, Listed
<1>2. /\ entry'[b] = e /\ op'[b] = Idle
      /\ \A c \in Blocks : c # b => op'[c] = op[c] /\ entry'[c] = entry[c]
                                 /\ Recording(c)' = Recording(c)
  BY <1>1 DEF TypeOK, Recording
<1>3. /\ Idle.kind = "idle" /\ Idle.phase = "none" /\ Idle.reply = NoReply
      /\ NoReply.ids = {} /\ NoReply.code = "none"
  BY DEF Idle, NoReply
<1>4. TypeOK'
  BY <1>1, IdleIsOperation DEF TypeOK
<1>5. PhasesInOrder'
  BY <1>2, <1>3 DEF IndInv, PhasesInOrder
<1>6. IdsNameMetrics'
  BY <1>1 DEF IndInv, IdsNameMetrics
<1>7. Recording(b)' = {}
  BY <1>2, <1>3 DEF Recording
<1>8. ASSUME NEW c \in Blocks, NEW m \in Exempted
      PROVE  /\ entry'[c] # None /\ exempt[m].id \in entry'[c].ids =>
                   api.echoes \/ exempt[m].by = c
             /\ exempt[m].id \in Recording(c)' => api.echoes \/ exempt[m].by = c
             /\ op'[c].kind = "delete" /\ op'[c].reply.code = "ok" =>
                   exempt[m].id \notin entry'[c].ids
             /\ exempt[m].by = c =>
                   \/ entry'[c] # None /\ exempt[m].id \in entry'[c].ids
                   \/ exempt[m].id \in Recording(c)'
                   \/ exempt[m].lost
  <2>1. CASE c # b
    BY <1>2, <2>1
    DEF IndInv, EntriesAreOwn, RepliesAreOwn, DeletedStaysGone, OwnExemptionsKnown
  <2>2. CASE c = b
    <3>1. e # None /\ exempt[m].id \in e.ids => api.echoes \/ exempt[m].by = b
      BY DEF IndInv, EntriesAreOwn, RepliesAreOwn
    <3>2. exempt[m].by = b => \/ e # None /\ exempt[m].id \in e.ids
                              \/ exempt[m].lost
      OBVIOUS
    <3>3. QED
      BY <1>2, <1>3, <1>7, <2>2, <3>1, <3>2
  <2>3. QED
    BY <2>1, <2>2
<1>9. EntriesAreOwn' /\ RepliesAreOwn' /\ DeletedStaysGone' /\ OwnExemptionsKnown'
  BY <1>1, <1>8
  DEF EntriesAreOwn, RepliesAreOwn, DeletedStaysGone, OwnExemptionsKnown
<1>10. QED
  BY <1>4, <1>5, <1>6, <1>9 DEF IndInv

LEMMA RefreshReturnsKeeps ==
  ASSUME IndInv, NEW b \in Blocks, RefreshReturns(b)
  PROVE  IndInv'
<1>1. /\ Return(b, "refresh", AfterRead(b)) /\ op[b].kind = "refresh"
      /\ entry[b] # None /\ entry[b] \in Entries /\ op[b].reply \in Replies
      /\ TypeOK
  BY EntryIsRecord, OpIsRecord
  DEF IndInv, PhasesInOrder, RefreshReturns, Return
<1>2. AfterRead(b) \in Entries /\ AfterRead(b).ids = entry[b].ids
  BY <1>1 DEF AfterRead, Entries, Replies
<1>3. AfterRead(b) # None
  BY <1>2, ExemptAssumption
<1>4. Recording(b) = {}
  BY <1>1 DEF Recording
<1>5. \A m \in Exempted : exempt[m].by = b /\ ~exempt[m].lost =>
                              exempt[m].id \in entry[b].ids
  BY <1>4 DEF IndInv, OwnExemptionsKnown
<1>6. QED
  BY <1>1, <1>2, <1>3, <1>5, ReturnKeeps

LEMMA CreateReturnsKeeps ==
  ASSUME IndInv, NEW b \in Blocks, CreateReturns(b)
  PROVE  IndInv'
<1> DEFINE e == AfterCreate(b)
<1>1. /\ Return(b, "create", e) /\ op[b].kind = "create" /\ entry[b] = None
      /\ op[b].reply \in Replies /\ Recording(b) = op[b].reply.ids
  BY OpIsRecord DEF IndInv, PhasesInOrder, CreateReturns, Return, Recording
<1>2. op[b].reply.ids # {} => op[b].reply.code = "ok"
  BY DEF IndInv, PhasesInOrder
<1>3. CASE op[b].reply.ids # {}
  <2>1. e = [ids |-> op[b].reply.ids, names |-> op[b].reply.names]
    BY <1>2, <1>3 DEF AfterCreate, Ok
  <2>2. e \in Entries /\ e.ids = Recording(b)
    BY <1>1, <2>1 DEF Entries, Replies
  <2>3. e # None
    BY <2>2, ExemptAssumption
  <2>4. \A m \in Exempted : exempt[m].by = b /\ ~exempt[m].lost =>
                                e # None /\ exempt[m].id \in e.ids
    BY <1>1, <2>2, <2>3 DEF IndInv, OwnExemptionsKnown
  <2> HIDE DEF e
  <2>5. QED
    BY <1>1, <2>2, <2>4, ReturnKeeps
<1>4. CASE op[b].reply.ids = {}
  <2>1. e = None
    BY <1>4 DEF AfterCreate
  <2>2. \A m \in Exempted : exempt[m].by = b => exempt[m].lost
    BY <1>1, <1>4 DEF IndInv, OwnExemptionsKnown
  <2> HIDE DEF e
  <2>3. QED
    BY <1>1, <2>1, <2>2, ReturnKeeps
<1>5. QED
  BY <1>3, <1>4

LEMMA DeleteReturnsKeeps ==
  ASSUME IndInv, NEW b \in Blocks, DeleteReturns(b)
  PROVE  IndInv'
<1> DEFINE e == AfterDelete(b)
<1>1. /\ Return(b, "delete", e) /\ op[b].kind = "delete" /\ entry[b] # None
      /\ entry[b] \in Entries /\ Recording(b) = {}
  BY EntryIsRecord DEF IndInv, PhasesInOrder, DeleteReturns, Return, Recording
<1>2. CASE op[b].reply.code = "ok"
  <2>1. e = None
    BY <1>2 DEF AfterDelete, Ok
  <2>2. \A m \in Exempted : exempt[m].by = b => exempt[m].lost
    BY <1>1, <1>2 DEF IndInv, OwnExemptionsKnown, DeletedStaysGone
  <2> HIDE DEF e
  <2>3. QED
    BY <1>1, <2>1, <2>2, ReturnKeeps
<1>3. CASE op[b].reply.code # "ok"
  <2>1. e = entry[b]
    BY <1>3 DEF AfterDelete, Ok
  <2>2. \A m \in Exempted : exempt[m].by = b /\ ~exempt[m].lost =>
                                e # None /\ exempt[m].id \in e.ids
    BY <1>1, <2>1 DEF IndInv, OwnExemptionsKnown
  <2> HIDE DEF e
  <2>3. QED
    BY <1>1, <2>1, <2>2, ReturnKeeps
<1>4. QED
  BY <1>2, <1>3

----------------------------------------------------------------------------
(* The environment.                                                        *)

LEMMA EditBlockKeeps ==
  ASSUME IndInv, NEW b \in Blocks, NEW v \in SUBSET Metrics, EditBlock(b, v)
  PROVE  IndInv'
<1>1. block' = [block EXCEPT ![b] = v] /\ UNCHANGED <<api, entry, exempt, op>>
      /\ budget' \in 0..MaxDisturbances /\ Exempted' = Exempted
  BY DisturbCounts DEF EditBlock, IndInv, TypeOK, Exempted, Listed
<1>2. TypeOK'
  BY <1>1 DEF IndInv, TypeOK
<1>3. \A c \in Blocks : Recording(c)' = Recording(c)
  BY <1>1 DEF Recording
<1>4. QED
  BY <1>1, <1>2, <1>3
  DEF IndInv, PhasesInOrder, IdsNameMetrics, EntriesAreOwn, RepliesAreOwn,
      DeletedStaysGone, OwnExemptionsKnown

(* What others exempt or remove leaves every block's own as it was.        *)
LEMMA OthersKeep ==
  ASSUME IndInv, exempt' \in Lists, UNCHANGED <<api, block, entry, op>>,
         budget' \in 0..MaxDisturbances,
         \A m \in Exempted' :
            \/ m \in Exempted /\ exempt'[m] = exempt[m]
            \/ /\ m \in Metrics /\ exempt'[m].by = Others
               /\ exempt'[m].id \in Unused(m)
  PROVE  IndInv'
<1>1. TypeOK /\ TypeOK' /\ PhasesInOrder'
  BY DEF IndInv, TypeOK, PhasesInOrder, Lists
<1>2. \A c \in Blocks : Recording(c)' = Recording(c)
                        /\ Recording(c) \subseteq op[c].reply.ids
  BY DEF Recording
<1>3. IdsNameMetrics'
  BY <1>1, UnusedIsNew DEF IndInv, IdsNameMetrics
<1>4. ASSUME NEW c \in Blocks, NEW m \in Exempted'
      PROVE  /\ entry[c] # None /\ exempt'[m].id \in entry[c].ids =>
                   api.echoes \/ exempt'[m].by = c
             /\ exempt'[m].id \in Recording(c) => api.echoes \/ exempt'[m].by = c
             /\ op[c].kind = "delete" /\ op[c].reply.code = "ok" =>
                   exempt'[m].id \notin entry[c].ids
             /\ exempt'[m].by = c =>
                   \/ entry[c] # None /\ exempt'[m].id \in entry[c].ids
                   \/ exempt'[m].id \in Recording(c)
                   \/ exempt'[m].lost
  <2>1. CASE m \in Exempted /\ exempt'[m] = exempt[m]
    BY <2>1
    DEF IndInv, EntriesAreOwn, RepliesAreOwn, DeletedStaysGone, OwnExemptionsKnown
  <2>2. CASE m \in Metrics /\ exempt'[m].by = Others /\ exempt'[m].id \in Unused(m)
    <3>1. /\ entry[c] # None => exempt'[m].id \notin entry[c].ids
          /\ exempt'[m].id \notin Recording(c)
      BY <1>1, <1>2, <2>2, UnusedIsNew
    <3>2. op[c].kind = "delete" => entry[c] # None
      BY DEF IndInv, PhasesInOrder
    <3>3. exempt'[m].by # c
      BY <2>2, ExemptAssumption
    <3>4. QED
      BY <3>1, <3>2, <3>3
  <2>3. QED
    BY <2>1, <2>2
<1>5. EntriesAreOwn' /\ RepliesAreOwn' /\ DeletedStaysGone' /\ OwnExemptionsKnown'
  BY <1>2, <1>4
  DEF EntriesAreOwn, RepliesAreOwn, DeletedStaysGone, OwnExemptionsKnown
<1>6. QED
  BY <1>1, <1>3, <1>5 DEF IndInv

LEMMA OthersExemptKeeps ==
  ASSUME IndInv, NEW m \in Metrics, OthersExempt(m)
  PROVE  IndInv'
<1>1. /\ exempt' = [exempt EXCEPT ![m] = New(m, Others)] /\ Unused(m) # {}
      /\ UNCHANGED <<api, block, entry, op>> /\ exempt \in Lists
      /\ budget' \in 0..MaxDisturbances
  BY DisturbCounts DEF OthersExempt, IndInv, TypeOK, Lists
<1>2. /\ New(m, Others) \in Exemptions /\ New(m, Others).by = Others
      /\ New(m, Others).id \in Unused(m)
  BY <1>1, NewIsUnused
<1>3. exempt' \in Lists
  BY <1>1, <1>2 DEF Lists
<1>4. ASSUME NEW n \in Exempted'
      PROVE  \/ n \in Exempted /\ exempt'[n] = exempt[n]
             \/ /\ n \in Metrics /\ exempt'[n].by = Others
                /\ exempt'[n].id \in Unused(n)
  BY <1>1, <1>2 DEF Exempted, Listed, Lists
<1>5. QED
  BY <1>1, <1>3, <1>4, OthersKeep

LEMMA OthersRemoveKeeps ==
  ASSUME IndInv, NEW m \in Metrics, OthersRemove(m)
  PROVE  IndInv'
<1>1. /\ exempt' = [exempt EXCEPT ![m] = None] /\ exempt \in Lists
      /\ UNCHANGED <<api, block, entry, op>>
      /\ budget' \in 0..MaxDisturbances
  BY DisturbCounts DEF OthersRemove, IndInv, TypeOK, Lists
<1>2. exempt' \in Lists
  BY <1>1 DEF Lists
<1>3. \A n \in Exempted' : n \in Exempted /\ exempt'[n] = exempt[n]
  BY <1>1 DEF Exempted, Listed, Lists
<1>4. QED
  BY <1>1, <1>2, <1>3, OthersKeep

(* When the process dies, what its creates were told is marked as lost.    *)
LEMMA InterruptKeeps ==
  ASSUME IndInv, Interrupt
  PROVE  IndInv'
<1> DEFINE M == {m \in Exempted : \E b \in Blocks : exempt[m].by = b
                                        /\ exempt[m].id \in Recording(b)}
<1>1. /\ exempt' = Lost(exempt, M) /\ op' = [b \in Blocks |-> Idle]
      /\ UNCHANGED <<api, block, entry>> /\ budget' \in 0..MaxDisturbances
      /\ TypeOK
  BY DisturbCounts DEF Interrupt, IndInv, TypeOK
<1>2. ASSUME NEW m \in Metrics
      PROVE  /\ exempt'[m] \in Exemptions \union {None}
             /\ exempt'[m] # None <=> exempt[m] # None
             /\ exempt[m] # None => /\ exempt'[m].id = exempt[m].id
                                    /\ exempt'[m].by = exempt[m].by
                                    /\ exempt[m].lost => exempt'[m].lost
             /\ m \in M => exempt'[m].lost
  <2>1. exempt[m] \in Exemptions \union {None}
    BY <1>1 DEF TypeOK
  <2>2. CASE m \in M
    <3>1. exempt[m] \in Exemptions
      BY <2>1, <2>2 DEF Exempted, Listed
    <3>2. exempt'[m] = [exempt[m] EXCEPT !.lost = TRUE]
      BY <1>1, <2>2 DEF Lost
    <3>3. exempt'[m] \in Exemptions /\ exempt'[m].lost
          /\ exempt'[m].id = exempt[m].id /\ exempt'[m].by = exempt[m].by
      BY <3>1, <3>2 DEF Exemptions
    <3>4. exempt[m] # None /\ exempt'[m] # None
      BY <3>1, <3>3, ExemptAssumption
    <3>5. QED
      BY <3>3, <3>4
  <2>3. CASE m \notin M
    <3>1. exempt'[m] = exempt[m]
      BY <1>1, <2>3 DEF Lost
    <3>2. QED
      BY <2>1, <2>3, <3>1
  <2>4. QED
    BY <2>2, <2>3
<1>3. Exempted' = Exempted
  BY <1>2 DEF Exempted, Listed
<1>4. exempt' \in Lists
  <2>1. exempt' = [m \in Metrics |-> exempt'[m]]
    BY <1>1 DEF Lost
  <2>2. QED
    BY <1>2, <2>1 DEF Lists
<1>5. TypeOK'
  BY <1>1, <1>4, IdleIsOperation DEF TypeOK, Lists
<1>6. /\ Idle.kind = "idle" /\ Idle.reply = NoReply /\ NoReply.ids = {}
      /\ \A b \in Blocks : op'[b] = Idle
  BY <1>1 DEF Idle, NoReply
<1>7. PhasesInOrder' /\ RepliesAreOwn' /\ DeletedStaysGone'
  BY <1>6 DEF PhasesInOrder, RepliesAreOwn, DeletedStaysGone, Recording
<1>8. \A m \in Exempted : m \in Metrics /\ exempt[m] # None
  BY DEF Exempted, Listed
<1>9. IdsNameMetrics' /\ EntriesAreOwn'
  BY <1>1, <1>2, <1>3, <1>8 DEF IndInv, IdsNameMetrics, EntriesAreOwn
<1>10. ASSUME NEW m \in Exempted, NEW b \in Blocks, exempt'[m].by = b
       PROVE  \/ entry[b] # None /\ exempt'[m].id \in entry[b].ids
              \/ exempt'[m].lost
  <2>1. exempt[m].by = b /\ exempt'[m].id = exempt[m].id
        /\ (exempt[m].lost => exempt'[m].lost) /\ (m \in M => exempt'[m].lost)
    BY <1>2, <1>8, <1>10
  <2>2. CASE exempt[m].id \in Recording(b)
    BY <2>1, <2>2
  <2>3. CASE exempt[m].id \notin Recording(b)
    BY <2>1, <2>3 DEF IndInv, OwnExemptionsKnown
  <2>4. QED
    BY <2>2, <2>3
<1>11. OwnExemptionsKnown'
  BY <1>1, <1>3, <1>10 DEF OwnExemptionsKnown
<1>12. QED
  BY <1>5, <1>7, <1>9, <1>11 DEF IndInv

----------------------------------------------------------------------------
(* The invariant holds.                                                    *)

LEMMA Initially == Init => IndInv
<1> SUFFICES ASSUME Init PROVE IndInv
  OBVIOUS
<1>1. Exempted = {} /\ TypeOK
  BY IdleIsOperation, ExemptAssumption DEF Init, TypeOK, Exempted, Listed
<1>2. \A b \in Blocks : op[b] = Idle
  BY DEF Init
<1>3. PhasesInOrder
  <2>1. Idle.kind = "idle" /\ Idle.reply = NoReply /\ NoReply.ids = {}
    BY DEF Idle, NoReply
  <2>2. QED
    BY <1>2, <2>1 DEF PhasesInOrder
<1>4. QED
  BY <1>1, <1>3
  DEF IndInv, IdsNameMetrics, EntriesAreOwn, RepliesAreOwn, DeletedStaysGone,
      OwnExemptionsKnown

LEMMA Step == IndInv /\ [Next]_vars => IndInv'
<1> SUFFICES ASSUME IndInv, [Next]_vars PROVE IndInv'
  OBVIOUS
<1>1. CASE \E m \in Metrics : OthersExempt(m) \/ OthersRemove(m)
  BY <1>1, OthersExemptKeeps, OthersRemoveKeeps
<1>2. ASSUME NEW b \in Blocks, NEW v \in SUBSET Metrics, EditBlock(b, v)
      PROVE  IndInv'
  BY <1>2, EditBlockKeeps
<1>3. ASSUME NEW b \in Blocks, StartRefresh(b) \/ StartCreate(b) \/ StartDelete(b)
      PROVE  IndInv'
  <2>1. CASE StartRefresh(b)
    BY <2>1, BeginKeeps DEF StartRefresh
  <2>2. CASE StartCreate(b)
    BY <2>2, BeginKeeps DEF StartCreate
  <2>3. CASE StartDelete(b)
    BY <2>3, BeginKeeps DEF StartDelete
  <2>4. QED
    BY <1>3, <2>1, <2>2, <2>3
<1>4. ASSUME NEW b \in Blocks, ServerAnswers(b) \/ ReplyLost(b) \/ CallFails(b)
      PROVE  IndInv'
  BY <1>4, ServerAnswersKeeps, ReplyLostKeeps, CallFailsKeeps
<1>5. ASSUME NEW b \in Blocks,
             RefreshReturns(b) \/ CreateReturns(b) \/ DeleteReturns(b)
      PROVE  IndInv'
  BY <1>5, RefreshReturnsKeeps, CreateReturnsKeeps, DeleteReturnsKeeps
<1>6. CASE Interrupt
  BY <1>6, InterruptKeeps
<1>7. CASE UNCHANGED vars
  BY <1>7
  DEF vars, IndInv, TypeOK, PhasesInOrder, IdsNameMetrics, EntriesAreOwn,
      RepliesAreOwn, DeletedStaysGone, OwnExemptionsKnown, Exempted, Listed,
      Recording
<1>8. QED
  BY <1>1, <1>2, <1>3, <1>4, <1>5, <1>6, <1>7 DEF Next

----------------------------------------------------------------------------
(* The theorems.                                                           *)

(* What Create, Read and Delete keep between them: an identifier belongs   *)
(* to one metric, an entry and a reply hold no other block's identifiers   *)
(* unless the API lists them, and what was deleted stays deleted.          *)
THEOREM Inductive == Spec => []IndInv
  BY Initially, Step, PTL DEF Spec

(* Type correctness of the blocks, their entries and the list.             *)
THEOREM TypeCorrect == Spec => []TypeOK
<1>1. IndInv => TypeOK
  BY DEF IndInv
<1>2. QED
  BY <1>1, Inductive, PTL

(* For any number of blocks and metrics, what a block's Create exempted    *)
(* its Delete can un-exempt, except after a POST whose reply was lost.     *)
THEOREM ExemptionsKnown == Spec => []OwnExemptionsKnown
<1>1. IndInv => OwnExemptionsKnown
  BY DEF IndInv
<1>2. QED
  BY <1>1, Inductive, PTL

(* For any number of blocks that read each other's metrics, a Delete takes *)
(* away only what the same block's Create added.                           *)
THEOREM RemovesItsOwn == Spec => RemovesOnlyItsOwn
<1>1. ASSUME IndInv, [Next]_vars, NEW m \in Metrics, NEW b \in Blocks,
             Listed(m), exempt'[m] = None, op[b].kind = "delete",
             op[b].phase = "request", op'[b] # op[b]
      PROVE  api.echoes \/ exempt[m].by = b
  <2>1. CASE ServerAnswers(b) \/ ReplyLost(b)
    <3>1. Follows(b)
      BY <1>1, <2>1, ServerAnswersFollows, ReplyLostFollows
    <3>2. m \in Removed(b)
      BY <1>1, <3>1, ExemptAssumption DEF Follows, Listed
    <3>3. m \in Exempted /\ exempt[m].id \in entry[b].ids
      BY <1>1, <3>2, RemovedIsListed DEF IndInv
    <3>4. entry[b] # None
      BY <1>1 DEF IndInv, PhasesInOrder
    <3>5. QED
      BY <1>1, <3>3, <3>4 DEF IndInv, EntriesAreOwn
  <2>2. CASE UNCHANGED exempt
    BY <1>1, <2>2 DEF Listed
  <2>3. CASE Interrupt
    <3>1. exempt \in Lists /\ \E M : exempt' = Lost(exempt, M)
      BY <1>1, <2>3 DEF IndInv, TypeOK, Lists, Interrupt
    <3>2. exempt[m] \in Exemptions
      BY <1>1, <3>1 DEF Lists, Listed
    <3>3. exempt'[m] = exempt[m] \/ exempt'[m] = [exempt[m] EXCEPT !.lost = TRUE]
      BY <3>1 DEF Lost
    <3>4. exempt'[m] \in Exemptions
      BY <3>2, <3>3 DEF Exemptions
    <3>5. QED
      BY <1>1, <3>4, ExemptAssumption
  <2>4. CASE \E c \in Blocks : c # b /\ (ServerAnswers(c) \/ ReplyLost(c))
    <3>1. op'[b] = op[b]
      BY <1>1, <2>4 DEF IndInv, TypeOK, ServerAnswers, ReplyLost
    <3>2. QED
      BY <1>1, <3>1
  <2>5. CASE \E n \in Metrics : OthersExempt(n) \/ OthersRemove(n)
    BY <1>1, <2>5 DEF OthersExempt, OthersRemove
  <2>6. QED
    BY <1>1, <2>1, <2>2, <2>3, <2>4, <2>5
    DEF Next, vars, EditBlock, StartRefresh, StartCreate, StartDelete, Begin,
        CallFails, RefreshReturns, CreateReturns, DeleteReturns, Return
<1>2. IndInv /\ [Next]_vars =>
        [\A m \in Metrics, b \in Blocks :
            (/\ Listed(m) /\ exempt'[m] = None
             /\ op[b].kind = "delete" /\ op[b].phase = "request"
             /\ op'[b] # op[b]) =>
                api.echoes \/ exempt[m].by = b]_vars
  BY <1>1
<1>3. QED
  BY <1>2, Inductive, PTL DEF Spec, RemovesOnlyItsOwn

----------------------------------------------------------------------------
(* Versioned objects, for any set of values and any number of disturbances *)
(* (VersionedObject).                                                      *)
(*                                                                         *)
(* The argument: one version of one object has one content and versions    *)
(* only grow, so whoever names the version of what it read, and is not     *)
(* refused, replaces what it read.                                         *)

\* What an operation under way works on.
OperationFits ==
    /\ call.step = "none"    => call = NoCall
    /\ call.step = "post"    => config # Absent /\ recorded = Absent /\ call.name = "create"
    /\ call.step = "current" => family = "ruleset"
    /\ call.step \in {"current", "put"} => config # Absent /\ recorded # Absent /\ call.name = "update"
    /\ call.step \in {"get", "delete"}  => recorded # Absent /\ call.name \in {"read", "delete"}

\* A ruleset that exists is the one of the entry.
RulesetOwned ==
    family = "ruleset" /\ object # Absent => recorded # Absent /\ object.born = recorded.id

\* One version of one object has one content, and versions only grow.
VersionsTell ==
    /\ object # Absent => object.born <= births
    /\ basis # Absent  => basis.born <= births
    /\ object # Absent /\ basis # Absent /\ object.born = basis.born =>
           /\ basis.version <= object.version
           /\ basis.version = object.version => basis = object

\* The version an update is about to send is that of the basis.
VersionAtHand ==
    /\ family = "settings" /\ recorded # Absent /\ recorded.version # 0 =>
           basis # Absent /\ basis.version = recorded.version
    /\ family = "ruleset" /\ call.step = "put" =>
           basis # Absent /\ basis.version = call.seen /\ basis.born = recorded.id

VersionedInv ==
    /\ VersionedTypeOK
    /\ OperationFits
    /\ RulesetOwned
    /\ VersionsTell
    /\ VersionAtHand
    /\ StateMirrorsObject

-----------------------------------------------------------------------------
\* A step is either of the environment, the beginning of an operation or a call.
OthersAct ==
    \/ \E c \in Values \union {Absent} : EditConfig(c)
    \/ \E v \in Values : \/ OutOfBandChange(v)
                        \/ OutOfBandCreate(v)
    \/ OutOfBandDelete

Begins == \/ CreateStarts \/ ReadStarts
          \/ UpdateStarts \/ DeleteStarts

LEMMA VersionedSteps ==
    ASSUME [VersionedNext]_versionedVars
    PROVE  \/ OthersAct \/ Begins
           \/ Answered \/ AnswerLost
           \/ CallErrs \/ Killed
           \/ UNCHANGED versionedVars
BY DEF VersionedNext, OthersAct, Begins, Answered

LEMMA VersionedInitially ==
    ASSUME VersionedInit
    PROVE  VersionedInv
<1>1. VersionedTypeOK
    <2>1. call \in Calls
        BY DEF VersionedInit, NoCall, Calls
    <2>2. faults \in 0..MaxFaults /\ family \in {"ruleset", "settings"}
        BY VersionedAssumption DEF VersionedInit
    <2>3. QED BY <2>1, <2>2 DEF VersionedInit, VersionedTypeOK
<1>2. QED
    BY <1>1
       DEF VersionedInit, VersionedInv, OperationFits, RulesetOwned,
           VersionsTell, VersionAtHand, StateMirrorsObject,
           NoCall

LEMMA ChangedObject ==
    ASSUME NEW o \in Objects, NEW v \in Values
    PROVE  [o EXCEPT !.version = @ + 1, !.value = v] \in Objects
<1>1. o.version + 1 \in Nat \ {0}
    BY DEF Objects
<1>2. QED BY <1>1 DEF Objects

LEMMA DisturbTyped ==
    ASSUME faults \in 0..MaxFaults,
           Disturbs
    PROVE  faults' \in 0..MaxFaults
BY VersionedAssumption DEF Disturbs

-----------------------------------------------------------------------------
\* Others change the object to a version it never had, or to another object.
LEMMA OthersActKeeps ==
    ASSUME VersionedInv, OthersAct
    PROVE  VersionedInv'
<1> USE VersionedAssumption, DisturbTyped DEF VersionedInv
<1>1. ASSUME NEW c \in Values \union {Absent}, EditConfig(c)
      PROVE  VersionedInv'
    BY <1>1
       DEF EditConfig, VersionedTypeOK, OperationFits, RulesetOwned,
           VersionsTell, VersionAtHand, StateMirrorsObject,
           NoCall
<1>2. ASSUME NEW v \in Values, OutOfBandChange(v)
      PROVE  VersionedInv'
    <2>1. VersionedTypeOK'
        <3>1. object' \in Objects
            BY <1>2, ChangedObject
               DEF OutOfBandChange, VersionedTypeOK
        <3>2. QED
            BY <1>2, <3>1
               DEF OutOfBandChange, OutOfBand,
                   VersionedTypeOK
    <2>2. VersionsTell'
        BY <1>2
           DEF OutOfBandChange, OutOfBand, VersionedTypeOK,
               Objects, VersionsTell
    <2>3. QED
        BY <1>2, <2>1, <2>2
           DEF OutOfBandChange, OutOfBand, VersionedTypeOK,
               Objects, OperationFits, RulesetOwned, VersionAtHand,
               StateMirrorsObject
<1>3. ASSUME NEW v \in Values, OutOfBandCreate(v)
      PROVE  VersionedInv'
    <2>1. /\ object' = [born |-> births + 1, version |-> 1, value |-> v]
          /\ object' \in Objects
        BY <1>3
           DEF OutOfBandCreate, VersionedTypeOK, Objects
    <2>2. VersionedTypeOK'
        BY <1>3, <2>1
           DEF OutOfBandCreate, OutOfBand, VersionedTypeOK
    <2>3. VersionsTell'
        BY <1>3, <2>1
           DEF OutOfBandCreate, OutOfBand, VersionedTypeOK,
               Objects, VersionsTell
    <2>4. QED
        BY <1>3, <2>1, <2>2, <2>3
           DEF OutOfBandCreate, OutOfBand, VersionedTypeOK,
               OperationFits, RulesetOwned, VersionAtHand,
               StateMirrorsObject
<1>4. CASE OutOfBandDelete
    BY <1>4
       DEF OutOfBandDelete, OutOfBand, VersionedTypeOK,
           OperationFits, RulesetOwned, VersionsTell, VersionAtHand,
           StateMirrorsObject
<1>5. QED BY <1>1, <1>2, <1>3, <1>4 DEF OthersAct

LEMMA BeginsKeep ==
    ASSUME VersionedInv, Begins
    PROVE  VersionedInv'
<1>1. \E n \in {"create", "read", "update", "delete"},
         s \in {"post", "get", "current", "put", "delete"} : StartCall(n, s)
    BY DEF Begins, CreateStarts, ReadStarts,
           UpdateStarts, DeleteStarts
<1>2. /\ VersionedTypeOK' /\ RulesetOwned' /\ VersionsTell'
      /\ StateMirrorsObject'
    <2>1. PICK n \in {"create", "read", "update", "delete"},
               s \in {"post", "get", "current", "put", "delete"} : StartCall(n, s)
        BY <1>1
    <2>2. call' = [name |-> n, step |-> s, seen |-> 0]
        BY <2>1 DEF StartCall, NoCall
    <2>3. call' \in Calls /\ call' # NoCall
        BY <2>2 DEF NoCall, Calls
    <2>4. QED
        BY <2>1, <2>3
           DEF StartCall, VersionedInv, VersionedTypeOK, RulesetOwned,
               VersionsTell, StateMirrorsObject
<1>3. OperationFits'
    BY DEF Begins, CreateStarts, ReadStarts,
           UpdateStarts, DeleteStarts, StartCall,
           VersionedInv, VersionedTypeOK, OperationFits, NoCall
<1>4. VersionAtHand'
    BY DEF Begins, CreateStarts, ReadStarts,
           UpdateStarts, DeleteStarts, StartCall,
           VersionedInv, VersionedTypeOK, VersionAtHand, NoCall
<1>5. QED BY <1>2, <1>3, <1>4 DEF VersionedInv

-----------------------------------------------------------------------------
\* How an operation may end.
LEMMA RecordsKeeps ==
    ASSUME VersionedInv,
           NEW o \in Objects, Records(o), object' = o,
           UNCHANGED <<family, config, drifted, faults>>,
           births' \in Nat, o.born <= births',
           family = "ruleset" \/ recorded # Absent
    PROVE  VersionedInv'
<1>1. recorded' \in VersionedEntries /\ recorded' # Absent
    BY VersionedAssumption
       DEF Records, VersionedInv, VersionedTypeOK, VersionedEntries,
           Objects
<1>2. VersionedTypeOK'
    <2>1. call' \in Calls
        BY DEF Records, Ends, NoCall,
               Calls
    <2>2. QED
        BY <1>1, <2>1
           DEF Records, Ends, VersionedInv, VersionedTypeOK
<1>3. OperationFits'
    BY DEF Records, Ends, OperationFits, NoCall
<1>4. RulesetOwned' /\ StateMirrorsObject'
    BY <1>1, VersionedAssumption
       DEF Records, RulesetOwned, StateMirrorsObject
<1>5. VersionsTell' /\ VersionAtHand'
    BY <1>1, VersionedAssumption
       DEF Records, Ends, NoCall, Objects,
           VersionedInv, VersionedTypeOK, VersionsTell, VersionAtHand
<1>6. QED BY <1>2, <1>3, <1>4, <1>5 DEF VersionedInv

LEMMA ForgetsKeeps ==
    ASSUME VersionedInv,
           Forgets, object' = Absent,
           UNCHANGED <<family, config, births, drifted, faults>>
    PROVE  VersionedInv'
<1>1. VersionedTypeOK'
    <2>1. call' \in Calls
        BY DEF Forgets, Ends, NoCall,
               Calls
    <2>2. QED
        BY <2>1
           DEF Forgets, Ends, VersionedInv, VersionedTypeOK
<1>2. OperationFits'
    BY DEF Forgets, Ends, OperationFits, NoCall
<1>3. RulesetOwned' /\ StateMirrorsObject'
    BY DEF Forgets, RulesetOwned, StateMirrorsObject
<1>4. VersionsTell' /\ VersionAtHand'
    BY DEF Forgets, Ends, NoCall, VersionedInv,
           VersionsTell, VersionAtHand
<1>5. QED BY <1>1, <1>2, <1>3, <1>4 DEF VersionedInv

\* An operation that ends without success leaves object and basis alone.
LEMMA FailedKeeps ==
    ASSUME VersionedInv, Ends("error"),
           UNCHANGED <<family, config, object, births, drifted, basis>>,
           faults' \in 0..MaxFaults,
           \/ recorded' = recorded
           \/ /\ recorded \in VersionedEntries /\ recorded' \in VersionedEntries
              /\ recorded'.id = recorded.id /\ recorded'.version = recorded.version
    PROVE  VersionedInv'
<1>1. VersionedTypeOK'
    <2>1. call' \in Calls
        BY DEF Ends, NoCall, Calls
    <2>2. QED BY <2>1 DEF Ends, VersionedInv, VersionedTypeOK
<1>2. OperationFits' /\ StateMirrorsObject'
    BY DEF Ends, OperationFits, StateMirrorsObject,
           NoCall
<1>3. RulesetOwned' /\ VersionsTell' /\ VersionAtHand'
    BY VersionedAssumption
       DEF Ends, NoCall, VersionedInv, RulesetOwned,
           VersionsTell, VersionAtHand
<1>4. QED BY <1>1, <1>2, <1>3 DEF VersionedInv

LEMMA FailsKeeps ==
    ASSUME VersionedInv,
           call # NoCall, Fails,
           UNCHANGED <<family, config, object, births, drifted>>,
           faults' \in 0..MaxFaults
    PROVE  VersionedInv'
<1>1. CASE call.name = "update"
    <2>1. config \in Values /\ recorded \in VersionedEntries
        BY <1>1
           DEF VersionedInv, VersionedTypeOK, OperationFits,
               Calls, NoCall
    <2>2. /\ recorded' \in VersionedEntries /\ recorded' # Absent
          /\ recorded'.id = recorded.id /\ recorded'.version = recorded.version
        BY <1>1, <2>1, VersionedAssumption DEF Fails, VersionedEntries
    <2>3. QED BY <2>1, <2>2, VersionedAssumption, FailedKeeps DEF Fails
<1>2. CASE call.name # "update"
    BY <1>2, FailedKeeps DEF Fails, VersionedInv, VersionedTypeOK
<1>3. QED BY <1>1, <1>2

\* The call repeats itself: the object is past what the operation knows of.
LEMMA RepeatKeeps ==
    ASSUME VersionedInv, AnswerLost
    PROVE  VersionedInv'
<1>1. call.step \in {"put", "delete"} /\ call # NoCall
    BY DEF AnswerLost, NoCall
<1>2. CASE object' = Absent
    <2>1. VersionedTypeOK'
        BY <1>2, DisturbTyped
           DEF AnswerLost, VersionedInv, VersionedTypeOK
    <2>2. QED
        BY <1>1, <1>2, <2>1
           DEF AnswerLost, VersionedInv, OperationFits, RulesetOwned,
               VersionsTell, VersionAtHand, StateMirrorsObject
<1>3. CASE call.step = "put" /\ Accepted /\ Put
    <2>1. config \in Values /\ object \in Objects
        BY <1>3
           DEF Accepted, Found, VersionedInv,
               VersionedTypeOK, OperationFits
    <2>2. /\ object' \in Objects /\ object' # Absent
          /\ object'.born = object.born /\ object'.version = object.version + 1
        BY <1>3, <2>1, ChangedObject, VersionedAssumption
           DEF Put, Objects
    <2>3. VersionedTypeOK'
        BY <1>3, <2>2, DisturbTyped
           DEF AnswerLost, VersionedInv, VersionedTypeOK
    <2>4. VersionsTell'
        BY <2>1, <2>2, <1>3
           DEF AnswerLost, VersionedInv, VersionedTypeOK,
               Objects, VersionsTell, Accepted,
               Found
    <2>5. QED
        BY <1>1, <1>3, <2>1, <2>2, <2>3, <2>4, VersionedAssumption
           DEF AnswerLost, VersionedInv, OperationFits, RulesetOwned,
               VersionAtHand, StateMirrorsObject
<1>4. QED BY <1>2, <1>3 DEF AnswerLost

LEMMA AnsweredKeeps ==
    ASSUME VersionedInv, Answered
    PROVE  VersionedInv'
<1>1. VersionedTypeOK /\ births \in Nat /\ faults \in 0..MaxFaults
    BY DEF VersionedInv, VersionedTypeOK
<1>2. CASE PostAnswered
    <2>1. config \in Values /\ recorded = Absent /\ call # NoCall
        BY <1>2
           DEF PostAnswered, VersionedInv, VersionedTypeOK,
               OperationFits, NoCall
    <2>2. CASE object # Absent
        BY <1>1, <1>2, <2>1, <2>2, FailsKeeps DEF PostAnswered
    <2>3. CASE object = Absent
        <3>1. /\ object' = [born |-> births + 1, version |-> 1, value |-> config]
              /\ object' \in Objects /\ births' = births + 1
            BY <1>1, <1>2, <2>1, <2>3
               DEF PostAnswered, Objects
        <3>2. CASE family = "ruleset"
            <4>1. Records(object') /\ object'.born = births'
                BY <1>2, <2>3, <3>1, <3>2 DEF PostAnswered
            <4>2. QED
                BY <1>1, <1>2, <3>1, <3>2, <4>1, RecordsKeeps
                   DEF PostAnswered
        <3>3. CASE family = "settings"
            <4>1. /\ recorded' = [id |-> 1, version |-> 0, value |-> config]
                  /\ Ends("ok") /\ UNCHANGED basis
                BY <1>2, <2>3, <3>3 DEF PostAnswered
            <4>2. /\ recorded' \in VersionedEntries /\ recorded' # Absent /\ recorded'.version = 0
                  /\ recorded'.value = config
                BY <2>1, <4>1, VersionedAssumption DEF VersionedEntries
            <4>3. VersionedTypeOK'
                <5>1. call' \in Calls
                    BY <4>1
                       DEF Ends, NoCall, Calls
                <5>2. QED
                    BY <1>1, <1>2, <3>1, <4>1, <4>2, <5>1
                       DEF PostAnswered, Ends,
                           VersionedTypeOK
            <4>4. OperationFits' /\ RulesetOwned' /\ VersionAtHand'
                BY <1>2, <3>3, <4>1, <4>2
                   DEF PostAnswered, Ends, NoCall,
                       OperationFits, RulesetOwned, VersionAtHand
            <4>5. VersionsTell'
                BY <1>1, <3>1, <4>1
                   DEF VersionedInv, VersionedTypeOK, Objects,
                       VersionsTell
            <4>6. StateMirrorsObject'
                BY <1>2, <3>1, <3>3, <4>2, VersionedAssumption
                   DEF PostAnswered, StateMirrorsObject
            <4>7. QED BY <4>3, <4>4, <4>5, <4>6 DEF VersionedInv
        <3>4. QED BY <1>1, <3>2, <3>3 DEF VersionedTypeOK
    <2>4. QED BY <2>2, <2>3
<1>3. CASE GetAnswered
    <2>1. CASE Found
        <3>1. object \in Objects /\ object.born <= births
            BY <2>1
               DEF Found, VersionedInv, VersionedTypeOK, VersionsTell
        <3>2. recorded # Absent
            BY <1>3 DEF GetAnswered, VersionedInv, OperationFits
        <3>3. QED
            BY <1>1, <1>3, <2>1, <3>1, <3>2, RecordsKeeps
               DEF GetAnswered
    <2>2. CASE ~Found /\ family = "ruleset"
        <3>1. object = Absent
            BY <2>2 DEF Found, VersionedInv, RulesetOwned
        <3>2. QED
            BY <1>3, <2>2, <3>1, ForgetsKeeps
               DEF GetAnswered, Missing
    <2>3. CASE ~Found /\ family # "ruleset"
        BY <1>1, <1>3, <2>3, FailsKeeps
           DEF GetAnswered, Missing, NoCall
    <2>4. QED BY <2>1, <2>2, <2>3
<1>4. CASE CurrentAnswered
    <2>1. call # NoCall
        BY <1>4 DEF CurrentAnswered, NoCall
    <2>2. CASE Found
        <3>1. object \in Objects /\ recorded # Absent /\ config # Absent
              /\ call.name = "update"
              /\ family = "ruleset"
            BY <1>4, <2>2
               DEF CurrentAnswered, Found, VersionedInv,
                   VersionedTypeOK, OperationFits
        <3>2. /\ call' = [call EXCEPT !.step = "put", !.seen = object.version]
              /\ basis' = object
              /\ UNCHANGED <<recorded, outcome, family, config, object, births, drifted, faults>>
            BY <1>4, <2>2 DEF CurrentAnswered
        <3>3. /\ call' \in Calls /\ call'.step = "put" /\ call'.name = "update"
              /\ call'.seen = object.version /\ call' # NoCall
            BY <1>1, <3>1, <3>2
               DEF VersionedTypeOK, Calls, Objects,
                   NoCall
        <3>4. VersionedTypeOK'
            BY <1>1, <3>1, <3>2, <3>3 DEF VersionedTypeOK
        <3>5. VersionsTell' /\ VersionAtHand'
            BY <2>2, <3>1, <3>2, <3>3
               DEF Found, VersionedInv, Objects,
                   VersionsTell, VersionAtHand
        <3>6. QED
            BY <3>1, <3>2, <3>3, <3>4, <3>5
               DEF VersionedInv, OperationFits, RulesetOwned,
                   StateMirrorsObject
    <2>3. CASE ~Found
        BY <1>1, <1>4, <2>1, <2>3, FailsKeeps DEF CurrentAnswered
    <2>4. QED BY <2>2, <2>3
<1>5. CASE PutAnswered
    <2>1. call # NoCall
        BY <1>5 DEF PutAnswered, NoCall
    <2>2. CASE Accepted /\ Put /\ Records(object')
        <3>1. /\ config \in Values /\ object \in Objects
              /\ recorded # Absent /\ object.born <= births
            BY <1>5, <2>2
               DEF PutAnswered, Accepted, Found,
                   VersionedInv, VersionedTypeOK, OperationFits, VersionsTell
        <3>2. object' \in Objects /\ object'.born = object.born
            BY <2>2, <3>1, ChangedObject DEF Put, Objects
        <3>3. QED
            BY <1>1, <1>5, <2>2, <3>1, <3>2, RecordsKeeps
               DEF PutAnswered
    <2>3. CASE Fails /\ UNCHANGED object
        BY <1>1, <1>5, <2>1, <2>3, FailsKeeps DEF PutAnswered
    <2>4. QED BY <1>5, <2>2, <2>3 DEF PutAnswered
<1>6. CASE DeleteAnswered
    <2>1. CASE object' = Absent /\ Forgets
        BY <1>6, <2>1, ForgetsKeeps DEF DeleteAnswered
    <2>2. CASE Fails /\ UNCHANGED object
        BY <1>1, <1>6, <2>2, FailsKeeps
           DEF DeleteAnswered, NoCall
    <2>3. QED BY <1>6, <2>1, <2>2 DEF DeleteAnswered
<1>7. QED BY <1>2, <1>3, <1>4, <1>5, <1>6 DEF Answered

LEMMA VersionedInductive ==
    VersionedSpec
        => []VersionedInv
<1>1. ASSUME VersionedInv,
             CallErrs
      PROVE  VersionedInv'
    BY <1>1, FailsKeeps, DisturbTyped
       DEF CallErrs, VersionedInv, VersionedTypeOK
<1>2. ASSUME VersionedInv,
             Killed
      PROVE  VersionedInv'
    BY <1>2, FailedKeeps, DisturbTyped
       DEF Killed, VersionedInv, VersionedTypeOK
<1>3. ASSUME VersionedInv,
             UNCHANGED versionedVars
      PROVE  VersionedInv'
    BY <1>3
       DEF versionedVars, VersionedInv, VersionedTypeOK, OperationFits,
           RulesetOwned, VersionsTell, VersionAtHand,
           StateMirrorsObject, NoCall
<1>4. VersionedInv
          /\ [VersionedNext]_versionedVars
        => VersionedInv'
    BY <1>1, <1>2, <1>3, VersionedSteps, OthersActKeeps, BeginsKeep,
       RepeatKeeps, AnsweredKeeps
       DEF VersionedAssumption
<1>5. VersionedInit => VersionedInv
    BY VersionedInitially
<1>6. QED BY <1>4, <1>5, PTL DEF VersionedSpec

-----------------------------------------------------------------------------
\* Every variable keeps its type, however often versions grow.
THEOREM VersionedTypeCorrect ==
    VersionedSpec => []VersionedTypeOK
<1>1. VersionedInv => VersionedTypeOK
    BY DEF VersionedInv
<1>2. QED BY VersionedInductive, <1>1, PTL

\* After a reported success the entry holds the object's values and version,
\* unless others have changed it since (resource_signalfx_metric_ruleset.go:395-410).
THEOREM VersionedMirrors ==
    VersionedSpec
        => []StateMirrorsObject
<1>1. VersionedInv => StateMirrorsObject
    BY DEF VersionedInv
<1>2. QED BY VersionedInductive, <1>1, PTL

\* A PUT the API accepts replaces the object its version was read from
\* (resource_signalfx_metric_ruleset.go:343-356, autoarchivesettings/schema.go:94-99).
THEOREM NothingUnseenReplaced ==
    VersionedSpec
        => OverwritesOnlyTheRead
<1>1. ASSUME VersionedInv,
             PutAnswered \/ AnswerLost, call.step = "put",
             object' # object
      PROVE  \/ object = basis
             \/ family = "settings" /\ basis # Absent /\ object.born # basis.born
    <2>1. Accepted
        BY <1>1 DEF PutAnswered, AnswerLost
    <2>2. /\ object \in Objects /\ recorded \in VersionedEntries
          /\ object.version = SentVersion
        BY <1>1, <2>1
           DEF Accepted, Found, VersionedInv,
               VersionedTypeOK, OperationFits
    <2>3. CASE family = "ruleset"
        BY <1>1, <2>1, <2>2, <2>3
           DEF Accepted, Found, SentVersion,
               VersionedInv, VersionsTell, VersionAtHand
    <2>4. CASE family = "settings"
        BY <1>1, <2>2, <2>4, VersionedAssumption
           DEF SentVersion, VersionedInv, VersionsTell, VersionAtHand,
               Objects
    <2>5. QED BY <1>1, <2>3, <2>4 DEF VersionedInv, VersionedTypeOK
<1>2. QED
    BY VersionedInductive, <1>1, PTL
       DEF VersionedSpec, OverwritesOnlyTheRead
=============================================================================
