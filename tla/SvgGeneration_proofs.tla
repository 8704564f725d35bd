------------------------ MODULE SvgGeneration_proofs ------------------------
(***************************************************************************)
(* What POST /svg/generate keeps, for every set of requests, keys and       *)
(* descriptions: the cache only holds documents the ontology passed, and    *)
(* the history is what was answered, whatever fails and whenever the        *)
(* process dies.                                                           *)
(***************************************************************************)
EXTENDS SvgGeneration, TLAPS

\* Only request r moves.
OnlyMoves(r) ==
    \A q \in Requests \ {r} : /\ pc'[q] = pc[q]
                              /\ doc'[q] = doc[q]
                              /\ cached'[q] = cached[q]
                              /\ answer'[q] = answer[q]
                              /\ crashes' = crashes

\* Where a request is before it may have stored its document.
Early == {"idle", "lookup", "llm", "validate", "store"}

\* The record that stands for no document is not a document.
LEMMA NoneIsNoDocument == NoDocument \notin Document
  BY DEF NoDocument, Document

\* What another request stored stays stored while a request moves that has not
\* stored anything yet.
LEMMA StaysStored ==
  ASSUME NEW r \in Requests, OnlyMoves(r), pc[r] \in Early
  PROVE  \A d, k : Stored(d, k) => Stored(d, k)' /\ d.by # r
<1> SUFFICES ASSUME NEW d, NEW k, Stored(d, k) PROVE Stored(d, k)' /\ d.by # r
  OBVIOUS
<1>1. d.by \in Requests /\ d.by # r
  BY DEF Stored, Document, Early
<1> QED
  BY <1>1 DEF Stored, OnlyMoves, Answered, Document

\* Hence a request that does not move keeps its part of the invariant.
LEMMA OthersKeep ==
  ASSUME NEW r \in Requests, OnlyMoves(r),
         \A d, k : Stored(d, k) => Stored(d, k)'
  PROVE  \A q \in Requests \ {r} : RequestOK(q) => RequestOK(q)'
<1> SUFFICES ASSUME NEW q \in Requests \ {r}, RequestOK(q) PROVE RequestOK(q)'
  OBVIOUS
<1>1. HasDocument(q) => HasDocument(q)'
  BY DEF HasDocument, OnlyMoves
<1> QED
  BY <1>1 DEF RequestOK, OnlyMoves, Answered

\* The history follows the answers as long as neither changes.
LEMMA HistoryKeeps ==
  ASSUME NEW r \in Requests, OnlyMoves(r), AnsweredIsRecorded, history' = history,
         answer[r] = "none", answer'[r] \in {"none", "400", "500"}
  PROVE  AnsweredIsRecorded'
<1> DEFINE rows(q) == {h \in history : h.req = q}
           row(q) == [req |-> q, doc |-> doc[q], cached |-> cached[q]]
<1>1. ASSUME NEW q \in Requests
      PROVE  /\ rows(q) \subseteq IF Answered(q)' \/ answer'[q] = "lost" THEN {row(q)'} ELSE {}
             /\ Answered(q)' => row(q)' \in rows(q)
  <2>0. /\ rows(q) \subseteq IF Answered(q) \/ answer[q] = "lost" THEN {row(q)} ELSE {}
        /\ Answered(q) => row(q) \in rows(q)
    BY DEF AnsweredIsRecorded
  <2>1. CASE q = r
    BY <2>0, <2>1 DEF Answered
  <2>2. CASE q # r
    BY <2>0, <2>2 DEF OnlyMoves, Answered
  <2> QED  BY <2>1, <2>2
<1> QED
  BY <1>1 DEF AnsweredIsRecorded

\* Before any request the invariant holds: nothing is stored, made or answered.
LEMMA SvgStart == SvgInit => SvgInv
  BY SvgAssumption, NoneIsNoDocument
  DEF SvgInit, SvgInv, SvgTypeOK, StoreOK, RequestOK, AnsweredIsRecorded, Answered

\* The invariant is kept by each step: one lemma per action.
LEMMA CheckTypeKeeps ==
  ASSUME SvgInv, NEW r \in Requests, CheckType(r) PROVE SvgInv'
<1>1. SvgTypeOK'
  BY DEF SvgInv, SvgTypeOK, CheckType, Answer, Goto
<1>2. OnlyMoves(r) /\ pc[r] \in Early
  BY DEF SvgInv, SvgTypeOK, CheckType, Answer, Goto, OnlyMoves, Early
<1>3. \A d, k : Stored(d, k) => Stored(d, k)'
  BY <1>2, StaysStored
<1>4. StoreOK'
  BY <1>3 DEF SvgInv, StoreOK, CheckType
<1>5. RequestOK(r)'
  BY DEF SvgInv, RequestOK, CheckType, Answer, Goto, SvgTypeOK, Answered
<1>6. AnsweredIsRecorded'
  BY <1>2, HistoryKeeps DEF SvgInv, RequestOK, CheckType, Answer, Goto, SvgTypeOK, Answered
<1> QED
  BY <1>1, <1>2, <1>3, <1>4, <1>5, <1>6, OthersKeep DEF SvgInv

LEMMA LookupKeeps ==
  ASSUME SvgInv, NEW r \in Requests, Lookup(r) PROVE SvgInv'
<1>k. KeyOf[r] \in Keys
  BY SvgAssumption
<1>1. SvgTypeOK'
  BY <1>k DEF SvgInv, SvgTypeOK, Lookup, Goto
<1>2. OnlyMoves(r) /\ pc[r] \in Early
  BY DEF SvgInv, SvgTypeOK, Lookup, Goto, OnlyMoves, Early
<1>3. \A d, k : Stored(d, k) => Stored(d, k)' /\ d.by # r
  BY <1>2, StaysStored
<1>4. StoreOK'
  BY <1>3 DEF SvgInv, StoreOK, Lookup
<1>5. RequestOK(r)'
  <2>1. CASE cache[KeyOf[r]] # NoDocument /\ doc' = [doc EXCEPT ![r] = cache[KeyOf[r]]]
             /\ cached' = [cached EXCEPT ![r] = TRUE] /\ Goto(r, "validate")
    <3>1. Stored(cache[KeyOf[r]], KeyOf[r])
      BY <2>1, <1>k DEF SvgInv, StoreOK
    <3>2. doc'[r] = cache[KeyOf[r]] /\ cached'[r] = TRUE /\ pc'[r] = "validate"
          /\ answer'[r] = answer[r] /\ r \in Caching /\ answer[r] = "none"
      BY <2>1 DEF SvgInv, RequestOK, SvgTypeOK, Lookup, Goto
    <3>3. HasDocument(r)'
      BY <3>1, <3>2, <1>3 DEF HasDocument, Stored
    <3> QED
      BY <3>2, <3>3 DEF RequestOK, Answered
  <2>2. CASE Goto(r, "llm") /\ UNCHANGED <<doc, cached>>
    BY <2>2 DEF SvgInv, RequestOK, SvgTypeOK, Lookup, Goto, Answered
  <2> QED
    BY <2>1, <2>2 DEF Lookup
<1>6. AnsweredIsRecorded'
  BY <1>2, HistoryKeeps DEF SvgInv, RequestOK, Lookup, Goto, SvgTypeOK, Answered
<1> QED
  BY <1>1, <1>2, <1>3, <1>4, <1>5, <1>6, OthersKeep DEF SvgInv

LEMMA CallLLMKeeps ==
  ASSUME SvgInv, NEW r \in Requests, CallLLM(r) PROVE SvgInv'
<1>0. \A sound, passes \in BOOLEAN : Draft(r, sound, passes) \in Document
  BY DEF Draft, Document
<1>1. SvgTypeOK'
  BY <1>0 DEF SvgInv, SvgTypeOK, CallLLM, Goto, Answer
<1>2. OnlyMoves(r) /\ pc[r] \in Early
  BY DEF SvgInv, SvgTypeOK, CallLLM, Goto, Answer, OnlyMoves, Early
<1>3. \A d, k : Stored(d, k) => Stored(d, k)' /\ d.by # r
  BY <1>2, StaysStored
<1>4. StoreOK'
  BY <1>3 DEF SvgInv, StoreOK, CallLLM
<1>5. RequestOK(r)'
  <2>0. answer[r] = "none" /\ ~cached[r] /\ cached' = cached
    BY DEF SvgInv, RequestOK, SvgTypeOK, CallLLM
  <2>1. ASSUME NEW sound \in BOOLEAN, NEW passes \in BOOLEAN,
               doc' = [doc EXCEPT ![r] = Draft(r, sound, passes)], Goto(r, "validate")
        PROVE  RequestOK(r)'
    <3>1. doc'[r] = Draft(r, sound, passes) /\ pc'[r] = "validate" /\ answer'[r] = "none"
      BY <2>0, <2>1 DEF SvgInv, SvgTypeOK, Goto
    <3>2. HasDocument(r)'
      BY <1>0, <2>0, <3>1 DEF HasDocument, Draft
    <3> QED
      BY <3>1, <3>2 DEF RequestOK, Answered
  <2>2. CASE Answer(r, "500")
    BY <2>0, <2>2 DEF SvgInv, RequestOK, SvgTypeOK, Answer, Answered
  <2> QED
    BY <2>1, <2>2 DEF CallLLM
<1>6. AnsweredIsRecorded'
  BY <1>2, HistoryKeeps DEF SvgInv, RequestOK, CallLLM, Goto, Answer, SvgTypeOK, Answered
<1> QED
  BY <1>1, <1>2, <1>3, <1>4, <1>5, <1>6, OthersKeep DEF SvgInv

LEMMA ValidateKeeps ==
  ASSUME SvgInv, NEW r \in Requests, Validate(r) PROVE SvgInv'
<1>1. SvgTypeOK'
  BY DEF SvgInv, SvgTypeOK, Validate, Goto, Answer
<1>2. OnlyMoves(r) /\ pc[r] \in Early
  BY DEF SvgInv, SvgTypeOK, Validate, Goto, Answer, OnlyMoves, Early
<1>3. \A d, k : Stored(d, k) => Stored(d, k)' /\ d.by # r
  BY <1>2, StaysStored
<1>4. StoreOK'
  BY <1>3 DEF SvgInv, StoreOK, Validate
<1>5. RequestOK(r)'
  <2>0. HasDocument(r) /\ answer[r] = "none" /\ cached' = cached /\ doc' = doc
    BY DEF SvgInv, RequestOK, SvgTypeOK, Validate
  <2>1. HasDocument(r)'
    BY <2>0, <1>3 DEF HasDocument
  <2> QED
    BY <2>0, <2>1 DEF SvgInv, RequestOK, SvgTypeOK, Validate, Goto, Answer, Answered
<1>6. AnsweredIsRecorded'
  BY <1>2, HistoryKeeps DEF SvgInv, RequestOK, Validate, Goto, Answer, SvgTypeOK, Answered
<1> QED
  BY <1>1, <1>2, <1>3, <1>4, <1>5, <1>6, OthersKeep DEF SvgInv

LEMMA StoreKeeps ==
  ASSUME SvgInv, NEW r \in Requests, Store(r) PROVE SvgInv'
<1>k. KeyOf[r] \in Keys
  BY SvgAssumption
<1>0. /\ pc[r] = "store" /\ pc'[r] = "record" /\ answer[r] = "none" /\ answer' = answer
      /\ doc' = doc /\ cached' = cached /\ history' = history
      /\ HasDocument(r) /\ ~cached[r] /\ r \in Caching /\ doc[r].passes
  BY DEF SvgInv, RequestOK, SvgTypeOK, Store, Goto
<1>1. SvgTypeOK'
  BY <1>k, <1>0 DEF SvgInv, SvgTypeOK, Store, Goto, HasDocument
<1>2. OnlyMoves(r) /\ pc[r] \in Early
  BY DEF SvgInv, SvgTypeOK, Store, Goto, OnlyMoves, Early
<1>3. \A d, k : Stored(d, k) => Stored(d, k)' /\ d.by # r
  BY <1>2, StaysStored
<1>4. StoreOK'
  <2>1. Stored(doc[r], KeyOf[r])'
    BY <1>0 DEF HasDocument, Stored
  <2>2. \A k \in Keys : \/ cache'[k] = cache[k]
                        \/ k = KeyOf[r] /\ cache'[k] = doc[r]
    BY <1>k DEF Store, SvgInv, SvgTypeOK
  <2>3. ASSUME NEW k \in Keys, cache'[k] # NoDocument
        PROVE  Stored(cache[k], k)'
    <3>1. CASE cache'[k] = cache[k]
      <4>1. Stored(cache[k], k)
        BY <2>3, <3>1 DEF SvgInv, StoreOK
      <4>2. \A d : Stored(d, k) => Stored(d, k)'
        BY <1>3
      <4> QED
        BY <3>1, <4>1, <4>2 DEF Stored, Answered
    <3>2. CASE k = KeyOf[r] /\ cache'[k] = doc[r]
      BY <3>2, <2>1, <1>0 DEF Stored, Answered
    <3> QED
      BY <3>1, <3>2, <2>2
  <2> QED
    BY <2>3 DEF StoreOK, Stored, Answered
<1>5. RequestOK(r)'
  <2>1. HasDocument(r)'
    BY <1>0 DEF HasDocument
  <2> QED
    BY <1>0, <2>1 DEF RequestOK, Answered
<1>6. AnsweredIsRecorded'
  BY <1>0, <1>2, HistoryKeeps DEF SvgInv, Answered
<1> QED
  BY <1>1, <1>2, <1>3, <1>4, <1>5, <1>6, OthersKeep DEF SvgInv

LEMMA RecordKeeps ==
  ASSUME SvgInv, NEW r \in Requests, RecordGeneration(r) PROVE SvgInv'
<1>0. /\ pc[r] = "record" /\ pc'[r] = "done" /\ answer[r] = "none"
      /\ doc' = doc /\ cached' = cached /\ cache' = cache
      /\ answer'[r] = "200" \/ (answer'[r] = "500" /\ "db" \in Faults)
      /\ HasDocument(r)
  <2>1. pc[r] = "record" /\ RequestOK(r)
    BY DEF SvgInv, RecordGeneration
  <2>2. answer[r] = "none" /\ HasDocument(r)
    BY <2>1 DEF RequestOK
  <2> QED
    BY <2>1, <2>2 DEF SvgInv, SvgTypeOK, RecordGeneration, Answer
<1>1. SvgTypeOK'
  BY <1>0 DEF SvgInv, SvgTypeOK, RecordGeneration, Answer, HasDocument
<1>2. OnlyMoves(r)
  BY DEF SvgInv, SvgTypeOK, RecordGeneration, Answer, OnlyMoves
<1>3. \A d, k : Stored(d, k) => Stored(d, k)'
  <2> SUFFICES ASSUME NEW d, NEW k, Stored(d, k) PROVE Stored(d, k)'
    OBVIOUS
  <2>1. CASE d.by = r
    BY <2>1, <1>0 DEF Stored, Answered
  <2>2. CASE d.by # r
    BY <2>2, <1>2 DEF Stored, OnlyMoves, Answered, Document
  <2> QED
    BY <2>1, <2>2
<1>4. StoreOK'
  BY <1>0, <1>3 DEF SvgInv, StoreOK
<1>5. RequestOK(r)'
  <2>1. HasDocument(r)'
    BY <1>0, <1>3 DEF HasDocument
  <2> QED
    BY <1>0, <2>1 DEF RequestOK
<1>6. AnsweredIsRecorded'
  <2> DEFINE row == [req |-> r, doc |-> doc[r], cached |-> cached[r]]
  <2>1. {h \in history : h.req = r} = {}
    BY <1>0 DEF SvgInv, AnsweredIsRecorded, Answered
  <2>2. row.req = r
    OBVIOUS
  <2>3. ASSUME NEW q \in Requests \ {r}
        PROVE  {h \in history' : h.req = q} = {h \in history : h.req = q}
    <3> HIDE DEF row
    <3>1. history' = history \/ history' = history \cup {row}
      BY DEF RecordGeneration, row
    <3> QED
      BY <2>2, <3>1
  <2>4. {h \in history' : h.req = r} = IF Answered(r)' THEN {row} ELSE {}
    <3>1. \/ history' = history \cup {row} /\ answer'[r] = "200"
          \/ history' = history /\ answer'[r] = "500"
      BY <1>0 DEF SvgInv, SvgTypeOK, RecordGeneration, Answer
    <3> HIDE DEF row
    <3> QED
      BY <2>1, <2>2, <3>1 DEF Answered
  <2> QED
    BY <1>0, <1>2, <2>3, <2>4 DEF SvgInv, AnsweredIsRecorded, OnlyMoves, Answered
<1> QED
  BY <1>1, <1>2, <1>3, <1>4, <1>5, <1>6, OthersKeep DEF SvgInv

LEMMA ExpireKeeps ==
  ASSUME SvgInv, NEW k \in Keys, Expire(k) PROVE SvgInv'
<1>1. SvgTypeOK'
  BY DEF SvgInv, SvgTypeOK, Expire
<1>2. \A d, key : Stored(d, key)' <=> Stored(d, key)
  BY DEF Stored, Expire, Answered
<1>3. StoreOK'
  BY <1>2 DEF SvgInv, StoreOK, SvgTypeOK, Expire
<1>4. \A r \in Requests : RequestOK(r)'
  BY <1>2 DEF SvgInv, RequestOK, HasDocument, Expire, Answered
<1>5. AnsweredIsRecorded'
  BY DEF SvgInv, AnsweredIsRecorded, Expire, Answered
<1> QED
  BY <1>1, <1>3, <1>4, <1>5 DEF SvgInv

LEMMA CrashKeeps ==
  ASSUME SvgInv, Crash PROVE SvgInv'
<1> DEFINE dying == {r \in Requests : pc[r] \notin {"idle", "done"}}
           row(r) == [req |-> r, doc |-> doc[r], cached |-> cached[r]]
<1>0. /\ crashes' = crashes + 1 /\ crashes < MaxCrashes
      /\ UNCHANGED <<cache, doc, cached>>
      /\ \A r \in Requests : IF r \in dying THEN pc'[r] = "done" /\ answer'[r] = "lost"
                                           ELSE pc'[r] = pc[r] /\ answer'[r] = answer[r]
      /\ pc' \in [Requests -> {"idle", "lookup", "llm", "validate", "store", "record", "done"}]
      /\ answer' \in [Requests -> {"none", "200", "400", "500", "lost"}]
  BY DEF SvgInv, SvgTypeOK, Crash
<1>1. PICK R \in SUBSET {r \in dying : pc[r] = "record"} :
          history' = history \cup {row(r) : r \in R}
  BY DEF Crash
<1>2. \A r \in R : r \in Requests /\ r \in dying /\ HasDocument(r)
  BY DEF SvgInv, RequestOK
<1>3. SvgTypeOK'
  <2>1. history' \subseteq [req : Requests, doc : Document, cached : BOOLEAN]
    BY <1>1, <1>2 DEF SvgInv, SvgTypeOK, HasDocument
  <2>2. crashes' \in 0 .. MaxCrashes
    BY <1>0, SvgAssumption DEF SvgInv, SvgTypeOK
  <2> QED  BY <1>0, <2>1, <2>2 DEF SvgInv, SvgTypeOK
<1>4. \A d, k : Stored(d, k) => Stored(d, k)'
  <2> SUFFICES ASSUME NEW d, NEW k, Stored(d, k) PROVE Stored(d, k)'
    OBVIOUS
  <2>1. d.by \in Requests /\ crashes' > 0
    BY <1>0 DEF Stored, Document, SvgInv, SvgTypeOK
  <2> QED  BY <1>0, <2>1 DEF Stored, Answered
<1>5. StoreOK'
  BY <1>0, <1>4 DEF SvgInv, StoreOK
<1>6. ASSUME NEW r \in Requests PROVE RequestOK(r)'
  <2>0. RequestOK(r)
    BY DEF SvgInv
  <2>1. HasDocument(r) => HasDocument(r)'
    BY <1>0, <1>4 DEF HasDocument
  <2> QED  BY <1>0, <2>0, <2>1 DEF RequestOK, Answered
<1>7. AnsweredIsRecorded'
  <2> SUFFICES ASSUME NEW q \in Requests
               PROVE  /\ {h \in history' : h.req = q}
                            \subseteq IF Answered(q)' \/ answer'[q] = "lost" THEN {row(q)} ELSE {}
                      /\ Answered(q)' => row(q) \in {h \in history' : h.req = q}
    BY <1>0 DEF AnsweredIsRecorded
  <2>0. /\ {h \in history : h.req = q}
              \subseteq IF Answered(q) \/ answer[q] = "lost" THEN {row(q)} ELSE {}
        /\ Answered(q) => row(q) \in {h \in history : h.req = q}
    BY DEF SvgInv, AnsweredIsRecorded
  <2>1. CASE q \in dying
    <3>1. answer[q] = "none"
      BY <2>1 DEF SvgInv, RequestOK
    <3>2. {h \in history : h.req = q} = {}
      BY <2>0, <3>1 DEF Answered
    <3>3. \A h \in history' : h.req = q => h = row(q)
      BY <1>1, <3>2
    <3> QED  BY <1>0, <2>1, <3>3 DEF Answered
  <2>2. CASE q \notin dying
    <3>1. \A h \in history' : h.req = q => h \in history
      BY <1>1, <1>2, <2>2
    <3> QED  BY <1>0, <1>1, <2>0, <2>2, <3>1 DEF Answered
  <2> QED  BY <2>1, <2>2
<1> QED
  BY <1>3, <1>5, <1>6, <1>7 DEF SvgInv

\* What Redis, the requests and the history hold is tied together as SvgInv says,
\* in every state and for every set of requests.
THEOREM Generation == SvgSpec => []SvgInv
<1>1. SvgInv /\ [SvgNext]_svgVars => SvgInv'
  <2> SUFFICES ASSUME SvgInv, [SvgNext]_svgVars PROVE SvgInv'
    OBVIOUS
  <2>1. CASE UNCHANGED svgVars
    BY <2>1 DEF svgVars, SvgInv, SvgTypeOK, StoreOK, RequestOK, HasDocument, Stored,
                AnsweredIsRecorded, Answered
  <2>2. CASE SvgNext
    BY <2>1, <2>2, CheckTypeKeeps, LookupKeeps, CallLLMKeeps, ValidateKeeps, StoreKeeps,
       RecordKeeps, ExpireKeeps, CrashKeeps DEF SvgNext, SvgQuiet
  <2> QED
    BY <2>1, <2>2
<1> QED
  BY SvgStart, <1>1, PTL DEF SvgSpec

\* api/svg.py: the history is what was answered, and nothing else but rows whose
\* answer a crash has lost.
THEOREM HistoryServes == SvgSpec => []AnsweredIsRecorded
<1>1. SvgInv => AnsweredIsRecorded
  BY DEF SvgInv
<1> QED
  BY <1>1, Generation, PTL

\* api/svg.py and the cache: what is served from the cache passes the ontology, is for
\* the same key, and is in the history of the request that made it, or about to be,
\* unless the database failed or the process died.
THEOREM OriginIsKnown == SvgSpec => []HitHasOrigin
<1>1. SvgInv => HitHasOrigin
  <2> SUFFICES ASSUME SvgInv, NEW r \in Requests, Answered(r), cached[r], NEW origin,
                      origin = doc[r].by
               PROVE  /\ doc[r].passes /\ KeyOf[origin] = KeyOf[r]
                      /\ {r, origin} \subseteq Caching /\ origin # r
                      /\ ~cached[origin] /\ doc[origin] = doc[r]
                      /\ \/ [req |-> origin, doc |-> doc[r], cached |-> FALSE] \in history
                         \/ pc[origin] = "record"
                         \/ "db" \in Faults /\ answer[origin] = "500"
                         \/ crashes > 0 /\ answer[origin] = "lost"
    BY DEF HitHasOrigin
  <2>1. /\ r \in Caching /\ origin # r /\ origin \in Requests
        /\ Stored(doc[r], KeyOf[r])
    BY DEF SvgInv, RequestOK, HasDocument, Stored, Document
  <2>2. ~cached[origin] /\ doc[origin] = doc[r] /\ cached[origin] \in BOOLEAN
    BY <2>1 DEF Stored, SvgInv, SvgTypeOK
  <2>3. Answered(origin) => [req |-> origin, doc |-> doc[r], cached |-> FALSE] \in history
    <3>1. Answered(origin) => [req |-> origin, doc |-> doc[origin], cached |-> cached[origin]]
                                  \in {h \in history : h.req = origin}
      BY <2>1 DEF SvgInv, AnsweredIsRecorded
    <3>2. cached[origin] = FALSE
      BY <2>2
    <3> QED  BY <2>2, <3>1, <3>2
  <2> QED  BY <2>1, <2>2, <2>3 DEF Stored
<1> QED
  BY <1>1, Generation, PTL
=============================================================================
