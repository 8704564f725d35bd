----------------------- MODULE CodeRequests_proofs -----------------------
(***************************************************************************)
(* Proofs about CodeRequests: the inductive invariant MeterInv, and from it *)
(* that calls are charged as answered and how far the quota is overshot,    *)
(* for any number of requests, any quota and any failures; of runs, what    *)
(* they take for code and what their verdict is worth, for any outputs.     *)
(***************************************************************************)
EXTENDS CodeRequests, FiniteSetTheorems, SequenceTheorems, WellFoundedInduction, TLAPS

\* The sets that are counted are finite, and have no call in common.
LEMMA CountedSets ==
    /\ IsFiniteSet(InFlight)
    /\ IsFiniteSet(Charged)
    /\ Cardinality(InFlight) \in Nat
    /\ Cardinality(Charged) \in Nat
  <1>1. InFlight \subseteq Metered /\ Charged \subseteq Metered
    BY DEF InFlight, Charged
  <1>2. IsFiniteSet(InFlight) /\ IsFiniteSet(Charged)
    BY <1>1, FS_Subset, RequestsAssumption
  <1> QED
    BY <1>2, FS_CardinalityType

\* The invariant holds initially.
LEMMA MeterInit == RequestsInit => MeterInv
  <1> SUFFICES ASSUME RequestsInit PROVE MeterInv
    OBVIOUS
  <1>1. RequestsTypeOK /\ ChargedAsAnswered
    BY DEF RequestsInit, RequestsTypeOK, ChargedAsAnswered, Requests, Metered
  <1>2. InFlight = {} /\ Charged = {}
    BY DEF RequestsInit, InFlight, Charged, Requests, Metered
  <1>3. Cardinality(InFlight) = 0
    BY <1>2, FS_EmptySet
  <1> QED
    BY <1>1, <1>2, <1>3 DEF RequestsInit, MeterInv, Requests, Metered

\* Steps of a run do not touch the metered calls.
LEMMA RunSteps ==
    ASSUME MeterInv, NEW r \in Requests, Generate(r) \/ CheckCode(r)
    PROVE  MeterInv'
  <1> USE DEF MeterInv
  <1>1. r \in Runs /\ r \notin Metered
    BY RequestsAssumption DEF Generate, CheckCode, Requests, Metered
  <1>2. UNCHANGED <<success, result, staged, poisoned, record, answer, peak>>
    BY DEF Generate, CheckCode
  <1>3. pc' \in [Requests -> {"idle", "generated", "admitted", "reviewed", "finally",
                              "ending", "done"}]
    BY DEF Generate, CheckCode, RequestsTypeOK
  <1>4. \A m \in Metered : pc'[m] = pc[m]
    BY <1>1 DEF Generate, CheckCode, RequestsTypeOK, Requests, Metered
  <1>5. InFlight' = InFlight /\ Charged' = Charged
    BY <1>2, <1>4 DEF InFlight, Charged
  <1>6. RequestsTypeOK'
    BY <1>2, <1>3 DEF RequestsTypeOK
  <1>7. ChargedAsAnswered'
    BY <1>2, <1>4 DEF ChargedAsAnswered, Useful
  <1> QED
    BY <1>2, <1>4, <1>5, <1>6, <1>7 DEF Useful

\* A step of a call that is in flight and stays so counts nothing.
LEMMA CountsUnchanged ==
    ASSUME NEW r \in Metered,
           pc[r] \notin {"idle", "done"}, pc'[r] \notin {"idle", "done"},
           \A m \in Metered \ {r} : pc'[m] = pc[m],
           record' = record
    PROVE  /\ InFlight' = InFlight
           /\ Charged' = Charged
  BY DEF InFlight, Charged

\* What every step of a handler between admission and the end of its session has
\* in common: the counts stay, and only the call's own entries change.
LEMMA HandlerSteps ==
    ASSUME MeterInv, NEW r \in Metered,
           CallReviewer(r) \/ CheckReview(r) \/ CallFixer(r) \/ RecordCall(r)
    PROVE  MeterInv'
  <1>a. r \in Requests
    BY DEF Requests
  <1>1. ASSUME NEW ok \in BOOLEAN, NEW what, NEW status \in {"200", "500"},
               pc[r] \in {"admitted", "reviewed"},
               what \in {"none", "failed", "approved", "rejected", "nonconforming", "fixed"},
               ok <=> status = "200" /\ what \in {"approved", "fixed"},
               Leave(r, ok, what, status)
        PROVE  MeterInv'
    <2>2. RequestsTypeOK'
      BY <1>1, <1>a DEF Leave, MeterInv, RequestsTypeOK
    <2>3. \A m \in Metered \ {r} : /\ pc'[m] = pc[m] /\ success'[m] = success[m]
                                    /\ result'[m] = result[m] /\ answer'[m] = answer[m]
      BY <1>1, <1>a DEF Leave, MeterInv, RequestsTypeOK, Requests
    <2>4. /\ pc'[r] = "finally" /\ success'[r] = ok /\ result'[r] = what
          /\ answer'[r] = status
      BY <1>1, <1>a DEF Leave, MeterInv, RequestsTypeOK
    <2>5. UNCHANGED <<staged, poisoned, record, peak>>
      BY <1>1 DEF Leave
    <2>1. InFlight' = InFlight /\ Charged' = Charged
      BY <1>1, <2>3, <2>4, <2>5, CountsUnchanged
    <2>6. ChargedAsAnswered'
      BY <2>3, <2>4, <2>5 DEF MeterInv, ChargedAsAnswered, Useful
    <2> QED
      BY <1>1, <2>1, <2>2, <2>3, <2>4, <2>5, <2>6 DEF MeterInv, Useful
  <1>2. CASE CallReviewer(r)
    <2>1. pc[r] = "admitted"
      BY <1>2 DEF CallReviewer
    <2>2. CASE Leave(r, FALSE, "none", "500")
      BY <1>1, <2>1, <2>2
    <2>3. CASE Leave(r, FALSE, "failed", "200")
      BY <1>1, <2>1, <2>3
    <2>4. CASE /\ \E opinion \in {"approved", "rejected"} :
                     result' = [result EXCEPT ![r] = opinion]
               /\ pc' = [pc EXCEPT ![r] = "reviewed"]
               /\ UNCHANGED <<code, success, staged, poisoned, record, answer, peak>>
      <3>2. RequestsTypeOK'
        BY <2>4, <1>a DEF MeterInv, RequestsTypeOK
      <3>3. \A m \in Metered \ {r} : pc'[m] = pc[m] /\ result'[m] = result[m]
        BY <2>4, <1>a DEF MeterInv, RequestsTypeOK, Requests
      <3>4. pc'[r] = "reviewed" /\ result'[r] \in {"approved", "rejected"}
        BY <2>4, <1>a DEF MeterInv, RequestsTypeOK
      <3>1. InFlight' = InFlight /\ Charged' = Charged
        BY <2>1, <2>4, <3>3, <3>4, CountsUnchanged
      <3>5. ChargedAsAnswered'
        BY <2>4, <3>3, <3>4 DEF MeterInv, ChargedAsAnswered, Useful
      <3> QED
        BY <2>1, <2>4, <3>1, <3>2, <3>3, <3>4, <3>5 DEF MeterInv, Useful
    <2> QED
      BY <1>2, <2>2, <2>3, <2>4 DEF CallReviewer
  <1>3. CASE CheckReview(r)
    <2>1. pc[r] = "reviewed" /\ result[r] # "fixed"
      BY <1>3 DEF CheckReview, MeterInv
    <2>2. ASSUME NEW conforms \in BOOLEAN,
                 Leave(r, result[r] = "approved" /\ conforms,
                       IF ~conforms THEN "nonconforming" ELSE result[r], "200")
          PROVE  MeterInv'
      <3> DEFINE what == IF ~conforms THEN "nonconforming" ELSE result[r]
                 ok   == result[r] = "approved" /\ conforms
      <3>1. what \in {"none", "failed", "approved", "rejected", "nonconforming", "fixed"}
        BY DEF MeterInv, RequestsTypeOK
      <3>2. ok \in BOOLEAN /\ (ok <=> "200" = "200" /\ what \in {"approved", "fixed"})
        BY <2>1
      <3> QED
        BY <1>1, <2>1, <2>2, <3>1, <3>2
    <2>3. CASE Leave(r, FALSE, "none", "500")
      BY <1>1, <2>1, <2>3
    <2>4. ASSUME NEW text \in Outputs, NEW l \in Languages,
                 Leave(r, result[r] = "approved" /\ SoftwarePayload(text, l) \in Conforming,
                       IF ~(SoftwarePayload(text, l) \in Conforming)
                         THEN "nonconforming" ELSE result[r], "200")
          PROVE  MeterInv'
      BY <2>2, <2>4
    <2> QED
      BY <1>3, <2>3, <2>4 DEF CheckReview
  <1>4. CASE CallFixer(r)
    <2>1. pc[r] = "admitted"
      BY <1>4 DEF CallFixer
    <2>2. CASE Leave(r, FALSE, "none", "500")
      BY <1>1, <2>1, <2>2
    <2>3. CASE Leave(r, FALSE, "failed", "200")
      BY <1>1, <2>1, <2>3
    <2>4. CASE Leave(r, TRUE, "fixed", "200")
      BY <1>1, <2>1, <2>4
    <2> QED
      BY <1>4, <2>2, <2>3, <2>4 DEF CallFixer
  <1>5. CASE RecordCall(r)
    <2>2. RequestsTypeOK'
      BY <1>5, <1>a DEF RecordCall, Meter, MeterInv, RequestsTypeOK
    <2>3. \A m \in Metered \ {r} : /\ pc'[m] = pc[m] /\ staged'[m] = staged[m]
                                    /\ poisoned'[m] = poisoned[m]
      BY <1>5, <1>a DEF RecordCall, Meter, MeterInv, RequestsTypeOK, Requests
    <2>4. /\ pc[r] = "finally" /\ pc'[r] = "ending"
          /\ poisoned'[r] \/ staged'[r] = IF success[r] THEN "ok" ELSE "failed"
      BY <1>5, <1>a DEF RecordCall, Meter, MeterInv, RequestsTypeOK
    <2>5. UNCHANGED <<success, result, record, answer, peak>>
      BY <1>5 DEF RecordCall, Meter
    <2>1. InFlight' = InFlight /\ Charged' = Charged
      BY <2>3, <2>4, <2>5, CountsUnchanged
    <2>6. ChargedAsAnswered'
      BY <2>3, <2>4, <2>5 DEF MeterInv, ChargedAsAnswered, Useful
    <2> QED
      BY <2>1, <2>2, <2>3, <2>4, <2>5, <2>6 DEF MeterInv, Useful
  <1> QED
    BY <1>2, <1>3, <1>4, <1>5

\* An admitted call is one more in flight; the quota was not used up by then.
LEMMA AdmitStep ==
    ASSUME MeterInv, NEW r \in Metered, Admit(r)
    PROVE  MeterInv'
  <1>a. r \in Requests
    BY DEF Requests
  <1>1. /\ UNCHANGED <<code, success, result, staged, poisoned, record>>
        /\ pc[r] = "idle"
        /\ \A m \in Metered \ {r} : pc'[m] = pc[m] /\ answer'[m] = answer[m]
    BY <1>a DEF Admit, MeterInv, RequestsTypeOK, Requests
  <1>2. Charged' = Charged
    BY <1>1 DEF Charged
  <1>3. record[r] = "none" /\ staged[r] = "none" /\ ~poisoned[r]
    BY <1>1 DEF MeterInv
  <1>4. Cardinality(InFlight) \in Nat /\ Cardinality(Charged) \in Nat
    BY CountedSets
  <1>5. CASE /\ Cardinality(Charged) < Quota
             /\ pc' = [pc EXCEPT ![r] = "admitted"]
             /\ peak' = IF Cardinality(InFlight) < peak THEN peak
                                                        ELSE Cardinality(InFlight) + 1
             /\ UNCHANGED answer
    <2>1. InFlight' = InFlight \cup {r} /\ r \notin InFlight
      BY <1>1, <1>5, <1>a DEF InFlight, MeterInv, RequestsTypeOK
    <2>2. Cardinality(InFlight') = Cardinality(InFlight) + 1
      BY <2>1, CountedSets, FS_AddElement
    <2>3. RequestsTypeOK'
      BY <1>1, <1>4, <1>5, <1>a DEF MeterInv, RequestsTypeOK
    <2>4. pc'[r] = "admitted" /\ answer'[r] = answer[r]
      BY <1>5, <1>a DEF MeterInv, RequestsTypeOK
    <2>5. ChargedAsAnswered'
      BY <1>1, <2>4 DEF MeterInv, ChargedAsAnswered, Useful
    <2>6. /\ Cardinality(InFlight') <= peak'
          /\ peak' > 0
          /\ Cardinality(Charged') + Cardinality(InFlight') <= Quota + peak' - 1
      <3>1. peak \in Nat /\ Quota \in Nat /\ Cardinality(InFlight) <= peak
        BY RequestsAssumption DEF MeterInv, RequestsTypeOK
      <3> QED
        BY <1>2, <1>4, <1>5, <2>2, <3>1
    <2> QED
      BY <1>1, <1>2, <2>3, <2>4, <2>5, <2>6 DEF MeterInv, Useful
  <1>6. ASSUME pc' = [pc EXCEPT ![r] = "done"], UNCHANGED peak,
               NEW status \in {"429", "500"}, answer' = [answer EXCEPT ![r] = status]
        PROVE  MeterInv'
    <2>1. pc'[r] = "done" /\ answer'[r] = status
      BY <1>6, <1>a DEF MeterInv, RequestsTypeOK
    <2>2. InFlight' = InFlight
      BY <1>1, <2>1 DEF InFlight
    <2>3. RequestsTypeOK'
      BY <1>1, <1>6, <1>a DEF MeterInv, RequestsTypeOK
    <2>4. ChargedAsAnswered'
      BY <1>1, <1>3, <1>6, <2>1 DEF MeterInv, ChargedAsAnswered, Useful
    <2> QED
      BY <1>1, <1>2, <1>6, <2>1, <2>2, <2>3, <2>4 DEF MeterInv, Useful
  <1> QED
    BY <1>5, <1>6 DEF Admit

\* The end of a session takes its call out of flight, and may charge it.
LEMMA EndStep ==
    ASSUME MeterInv, NEW r \in Metered, EndSession(r)
    PROVE  MeterInv'
  <1>a. r \in Requests
    BY DEF Requests
  <1>1. /\ UNCHANGED <<code, result, poisoned, peak>>
        /\ pc[r] = "ending" /\ pc'[r] = "done"
        /\ \A m \in Metered \ {r} :
              /\ pc'[m] = pc[m] /\ answer'[m] = answer[m] /\ record'[m] = record[m]
              /\ staged'[m] = staged[m] /\ success'[m] = success[m]
    BY <1>a DEF EndSession, MeterInv, RequestsTypeOK, Requests
  <1>2. RequestsTypeOK'
    BY <1>a DEF EndSession, MeterInv, RequestsTypeOK
  <1>3. record[r] = "none"
    BY <1>1 DEF MeterInv
  <1>4. /\ record'[r] = "ok" => answer'[r] = "200" /\ Useful(r)
        /\ record'[r] = "failed" => answer'[r] = "200" /\ ~Useful(r)
        /\ answer'[r] = "200" /\ ~poisoned[r] => record'[r] # "none"
    BY <1>1, <1>3, <1>a DEF EndSession, MeterInv, RequestsTypeOK
  <1>5. ChargedAsAnswered'
    BY <1>1, <1>4 DEF MeterInv, ChargedAsAnswered, Useful
  <1>6. r \in InFlight /\ InFlight' = InFlight \ {r}
    BY <1>1 DEF InFlight
  <1>7. Charged' = Charged \/ (Charged' = Charged \cup {r} /\ r \notin Charged)
    BY <1>1, <1>3 DEF Charged
  <1>8. /\ Cardinality(InFlight') = Cardinality(InFlight) - 1
        /\ Cardinality(Charged') \in {Cardinality(Charged), Cardinality(Charged) + 1}
    BY <1>6, <1>7, CountedSets, FS_RemoveElement, FS_AddElement
  <1>9. /\ Cardinality(InFlight') <= peak' /\ peak' > 0
        /\ Cardinality(Charged') + Cardinality(InFlight') <= Quota + peak' - 1
    <2>1. /\ Cardinality(InFlight) \in Nat /\ Cardinality(Charged) \in Nat
          /\ Cardinality(InFlight) # 0 /\ Cardinality(InFlight) <= peak
          /\ peak \in Nat /\ peak' = peak /\ Quota \in Nat
      BY <1>1, <1>6, CountedSets, FS_EmptySet, RequestsAssumption DEF MeterInv, RequestsTypeOK
    <2>2. Cardinality(Charged) + Cardinality(InFlight) <= Quota + peak - 1
      BY <2>1 DEF MeterInv
    <2> QED
      BY <1>8, <2>1, <2>2
  <1> QED
    BY <1>1, <1>2, <1>5, <1>9 DEF MeterInv, Useful

LEMMA MeterNext == MeterInv /\ [RequestsNext]_requestVars => MeterInv'
  <1> SUFFICES ASSUME MeterInv, [RequestsNext]_requestVars PROVE MeterInv'
    OBVIOUS
  <1>1. CASE \E r \in Requests : Generate(r) \/ CheckCode(r)
    BY <1>1, RunSteps
  <1>2. CASE \E r \in Metered : Admit(r)
    BY <1>2, AdmitStep
  <1>3. CASE \E r \in Metered : \/ CallReviewer(r) \/ CheckReview(r) \/ CallFixer(r)
                                \/ RecordCall(r)
    BY <1>3, HandlerSteps
  <1>4. CASE \E r \in Metered : EndSession(r)
    BY <1>4, EndStep
  <1>5. CASE UNCHANGED requestVars
    BY <1>5 DEF requestVars, MeterInv, RequestsTypeOK, ChargedAsAnswered, Useful, InFlight, Charged
  <1> QED
    BY <1>1, <1>2, <1>3, <1>4, <1>5 DEF RequestsNext, RequestsQuiet

\* The inductive invariant of the metered calls (api/pipeline.py, services/quota.py).
THEOREM MeterInvariant == RequestsSpec => []MeterInv
  <1> QED
    BY MeterInit, MeterNext, PTL DEF RequestsSpec

\* Calls are charged as they were answered, whatever fails and in whatever order.
THEOREM CallsChargedAsAnswered == RequestsSpec => []ChargedAsAnswered
  <1>1. MeterInv => ChargedAsAnswered
    BY DEF MeterInv
  <1> QED
    BY <1>1, MeterInvariant, PTL

\* The quota is overshot by overlapping calls only.
THEOREM QuotaOvershoot == RequestsSpec => []OvershootIsOverlap
  <1>1. MeterInv => OvershootIsOverlap
    <2> SUFFICES ASSUME MeterInv, peak > 0
                 PROVE  Cardinality(Charged \cup InFlight) <= Quota + peak - 1
      BY DEF OvershootIsOverlap
    <2>1. Charged \cap InFlight = {}
      BY DEF MeterInv, Charged, InFlight
    <2>2. Cardinality(Charged \cup InFlight) =
              Cardinality(Charged) + Cardinality(InFlight)
      BY <2>1, CountedSets, FS_Union, FS_EmptySet
    <2> QED
      BY <2>2 DEF MeterInv
  <1> QED
    BY <1>1, MeterInvariant, PTL

---------------------------------------------------------------------------
(* What a run extracts and stores *)

\* What a run got was in a language the service supports; in the end it holds what
\* was extracted from that, and the verdict on it.
RunCode(r) ==
    LET c    == code[r]
        lang == NormalizeLanguage(c.language) IN
    /\ pc[r] \in {"generated", "done"} => lang \in SUPPORTED_LANGUAGES /\ c.output \in Outputs
    /\ pc[r] = "done" =>
          /\ c.code = Extract(c.output, lang)
          /\ c.passed = RunPasses(c.code, lang, c.reached)
          /\ c.reached \in BOOLEAN
CodeShape ==
    /\ DOMAIN code = Runs
    /\ \A r \in Runs : DOMAIN code[r] = DOMAIN NoRun
    /\ DOMAIN pc = Requests
RunInv == CodeShape /\ \A r \in Runs : RunCode(r)

LEMMA RunInit == RequestsInit => RunInv
  BY RequestsAssumption DEF RequestsInit, RunInv, CodeShape, RunCode, NoRun, Requests, Metered

\* The steps of metered calls are about other requests.
LEMMA MeteredSteps ==
    ASSUME RunInv, NEW m \in Metered,
           \/ Admit(m) \/ CallReviewer(m) \/ CheckReview(m) \/ CallFixer(m)
           \/ RecordCall(m) \/ EndSession(m)
    PROVE  RunInv'
<1>1. /\ code' = code
      /\ \E label \in {"admitted", "reviewed", "finally", "ending", "done"} :
            pc' = [pc EXCEPT ![m] = label]
  BY DEF Admit, CallReviewer, CheckReview, CallFixer, RecordCall, EndSession, Leave
<1>2. \A r \in Runs : pc'[r] = pc[r]
  BY <1>1, RequestsAssumption DEF RunInv, CodeShape, NoRun, Requests
<1> QED  BY <1>1, <1>2 DEF RunInv, CodeShape, RunCode

LEMMA RunNext == RunInv /\ [RequestsNext]_requestVars => RunInv'
<1> SUFFICES ASSUME RunInv, [RequestsNext]_requestVars PROVE RunInv'
  OBVIOUS
<1>1. ASSUME NEW r \in Requests, Generate(r) PROVE RunInv'
  <2>1. PICK l \in Languages, text \in Outputs :
            /\ NormalizeLanguage(l) \in SUPPORTED_LANGUAGES
            /\ code' = [code EXCEPT ![r].language = l, ![r].output = text]
    BY <1>1 DEF Generate
  <2>2. r \in Runs /\ pc' = [pc EXCEPT ![r] = "generated"]
    BY <1>1 DEF Generate
  <2>3. /\ code'[r].language = l /\ code'[r].output = text /\ pc'[r] = "generated"
        /\ \A q \in Runs \ {r} : code'[q] = code[q] /\ pc'[q] = pc[q]
    BY <2>1, <2>2 DEF RunInv, CodeShape, NoRun, Requests
  <2>4. CodeShape'
    BY <2>1, <2>2 DEF RunInv, CodeShape, NoRun, Requests
  <2>5. ASSUME NEW q \in Runs PROVE RunCode(q)'
    BY <2>1, <2>3 DEF RunInv, RunCode
  <2> QED  BY <2>4, <2>5 DEF RunInv
<1>2. ASSUME NEW r \in Requests, CheckCode(r) PROVE RunInv'
  <2> DEFINE lang == NormalizeLanguage(code[r].language)
             text == Extract(code[r].output, lang)
  <2>1. PICK reached \in BOOLEAN :
            code' = [code EXCEPT ![r].code = text, ![r].stored = Stored(text),
                        ![r].passed = RunPasses(text, lang, reached), ![r].reached = reached]
    BY <1>2 DEF CheckCode
  <2>2. r \in Runs /\ pc[r] = "generated" /\ pc' = [pc EXCEPT ![r] = "done"]
    BY <1>2 DEF CheckCode
  <2> DEFINE passed == RunPasses(text, lang, reached)
             stored == Stored(text)
  <2> HIDE DEF text, passed, stored
  <2>4. /\ code'[r].language = code[r].language /\ code'[r].output = code[r].output
        /\ code'[r].code = text /\ code'[r].passed = passed /\ code'[r].reached = reached
        /\ \A q \in Runs \ {r} : code'[q] = code[q] /\ pc'[q] = pc[q]
        /\ pc'[r] = "done"
    BY <2>1, <2>2 DEF RunInv, CodeShape, NoRun, Requests, passed, stored
  <2>5. CodeShape'
    BY <2>1, <2>2 DEF RunInv, CodeShape, NoRun, Requests, passed, stored
  <2>6. ASSUME NEW q \in Runs PROVE RunCode(q)'
    BY <2>2, <2>4 DEF RunInv, RunCode, text, passed
  <2> QED  BY <2>5, <2>6 DEF RunInv
<1>3. ASSUME NEW m \in Metered, \/ Admit(m) \/ CallReviewer(m) \/ CheckReview(m) \/ CallFixer(m)
                                \/ RecordCall(m) \/ EndSession(m)
      PROVE  RunInv'
  BY <1>3, MeteredSteps
<1>4. CASE UNCHANGED requestVars
  BY <1>4 DEF requestVars, RunInv, CodeShape, RunCode
<1> QED  BY <1>1, <1>2, <1>3, <1>4 DEF RequestsNext, RequestsQuiet

LEMMA RunInvariant == RequestsSpec => []RunInv
  BY RunInit, RunNext, PTL DEF RequestsSpec

\* POST /pipeline/validate says of code that was stored whole what the run said.
THEOREM VerdictsHold == RequestsSpec => []StoredVerdictHolds
<1>1. RunInv => StoredVerdictHolds
  <2> SUFFICES ASSUME RunInv, NEW r \in Runs, pc[r] = "done",
                      NormalizeLanguage(code[r].language) # "python",
                      code[r].stored = code[r].code
               PROVE  LET again == ValidateAnswer(code[r].stored, code[r].language, TRUE) IN
                      /\ code[r].passed => again = "valid"
                      /\ code[r].reached /\ ~code[r].passed => again = "invalid"
    BY DEF StoredVerdictHolds
  <2> DEFINE lang == NormalizeLanguage(code[r].language)
             text == code[r].code
  <2>1. /\ lang \in SUPPORTED_LANGUAGES /\ code[r].reached \in BOOLEAN
        /\ code[r].passed = RunPasses(text, lang, code[r].reached)
    BY DEF RunInv, RunCode
  <2>2. code[r].passed <=> /\ PolyglotPayload(text, lang) \in Conforming
                           /\ SandboxUrl /\ code[r].reached /\ Compiles(text, lang)
    BY <2>1 DEF RunPasses, ValidSyntax
  <2>3. ValidateAnswer(text, code[r].language, TRUE) =
            IF /\ PolyglotPayload(text, lang) \in Conforming
               /\ SandboxUrl /\ Compiles(text, lang) THEN "valid" ELSE "invalid"
    BY <2>1 DEF ValidateAnswer, ValidSyntax
  <2> QED  BY <2>2, <2>3
<1> QED  BY <1>1, RunInvariant, PTL

---------------------------------------------------------------------------
(* The code that is extracted *)

\* A nonempty set of numbers has a first one.
LEMMA FirstFacts ==
    ASSUME NEW S \in SUBSET Nat, S # {}
    PROVE  First(S) \in S /\ \A j \in S : First(S) <= j
<1> DEFINE below == {ss \in Nat \X Nat : ss[1] < ss[2]}
<1>1. IsWellFoundedOn(below, Nat)
  BY NatLessThanWellFounded, Zenon DEF OpToRel
<1> HIDE DEF below
<1>2. \E i \in S : \A j \in S : <<j, i>> \notin below
  BY <1>1, WFMin
<1>3. \E i \in S : \A j \in S : i <= j
  <2>1. PICK i \in S : \A j \in S : <<j, i>> \notin below
    BY <1>2
  <2>2. \A j \in S : ~(j < i)
    BY <2>1 DEF below
  <2>3. \A j \in S : i <= j
    BY <2>2
  <2> QED  BY <2>3
<1> QED  BY <1>3 DEF First

\* The tag of a bare fence.
Bare == ""

\* The tags that are looked for.
LEMMA TagFacts ==
    ASSUME NEW lang
    PROVE  \E a, b : FenceTags(lang) = <<a, b, Bare>> /\ a # Bare /\ b # Bare
<1>1. CASE lang = "typescript"
  <2>1. FenceTags(lang) = <<"typescript", "ts", Bare>>
    BY <1>1, Zenon DEF FenceTags, Bare
  <2> QED  BY <2>1, Zenon DEF Bare
<1>2. CASE lang # "typescript" /\ lang = "rust"
  <2>1. FenceTags(lang) = <<"rust", "rs", Bare>>
    BY <1>2, Zenon DEF FenceTags, Bare
  <2> QED  BY <2>1, Zenon DEF Bare
<1>3. CASE lang # "typescript" /\ lang # "rust"
  <2>1. FenceTags(lang) = <<"python", "py", Bare>>
    BY <1>3, Zenon DEF FenceTags, Bare
  <2> QED  BY <2>1, Zenon DEF Bare
<1> QED  BY <1>1, <1>2, <1>3

\* A text whose markers come in turn.
LEMMA ExtractInTurn ==
    ASSUME NEW text, text.tags \in Seq(STRING), InTurn(text), NEW lang
    PROVE  LET tags   == FenceTags(lang)
               tagged == {i \in DOMAIN text.tags :
                             i % 2 = 1 /\ text.tags[i] \in {tags[1], tags[2]}} IN
           \/ \E i \in tagged : Extract(text, lang) = Plain(text.chunks[i + 1])
           \/ /\ tagged = {}
              /\ Extract(text, lang) = IF text.tags = <<>> THEN text
                                       ELSE IF text.tags[1] = Bare THEN Plain(text.chunks[2])
                                       ELSE IF Len(text.tags) > 2 THEN Plain(text.chunks[3])
                                       ELSE text
<1> DEFINE tags   == FenceTags(lang)
           tagged == {i \in DOMAIN text.tags : i % 2 = 1 /\ text.tags[i] \in {tags[1], tags[2]}}
           hits   == {k \in DOMAIN tags : Matches(text, tags[k]) # {}}
<1>1. /\ DOMAIN tags = {1, 2, 3}
      /\ tags[1] # Bare /\ tags[2] # Bare /\ tags[3] = Bare
  <2>1. PICK a, b : tags = <<a, b, Bare>> /\ a # Bare /\ b # Bare
    BY TagFacts
  <2> HIDE DEF tags
  <2>2. DOMAIN <<a, b, Bare>> = {1, 2, 3}
    OBVIOUS
  <2> QED  BY <2>1, <2>2
<1> HIDE DEF tags
<1> DEFINE len == Len(text.tags)
<1>2. len \in Nat /\ DOMAIN text.tags = 1 .. len
  OBVIOUS
<1>10. len % 2 = 0 /\ \A i \in DOMAIN text.tags : i % 2 = 0 => text.tags[i] = Bare
  BY Zenon DEF InTurn, Bare
<1> HIDE DEF len
<1>3. ASSUME NEW i \in DOMAIN text.tags, i % 2 = 1  PROVE i \in 1 .. (len - 1)
  <2>1. i \in Nat /\ i >= 1 /\ i <= len
    BY <1>2
  <2>2. i # len
    BY <1>3, <1>10
  <2> QED  BY <1>2, <2>1, <2>2
<1>11. ASSUME NEW tag, NEW i \in Matches(text, tag)
       PROVE  i \in DOMAIN text.tags /\ i \in Nat /\ i >= 1 /\ text.tags[i] = tag
  BY <1>2 DEF Matches, len
<1>12. ASSUME NEW tag, NEW i \in DOMAIN text.tags, i % 2 = 1, text.tags[i] = tag
       PROVE  i \in Matches(text, tag)
  BY <1>3, <1>12 DEF Matches, len
<1>4. ASSUME NEW tag \in {tags[1], tags[2]}, NEW i \in Matches(text, tag)
      PROVE  i \in tagged
  <2>1. i \in DOMAIN text.tags /\ i \in Nat /\ text.tags[i] = tag
    BY <1>11
  <2>2. i % 2 \in {0, 1}
    BY <2>1
  <2>3. i % 2 # 0
    BY <1>1, <1>10, <2>1
  <2> QED  BY <2>1, <2>2, <2>3
<1>5. ASSUME NEW tag PROVE Matches(text, tag) \in SUBSET Nat
  BY <1>11
<1>6. hits \subseteq {1, 2, 3} /\ hits \in SUBSET Nat
  BY <1>1
<1>7. hits # {} => Extract(text, lang) =
                      Plain(text.chunks[First(Matches(text, tags[First(hits)])) + 1])
  BY DEF Extract, tags
<1>8. ASSUME tagged # {}
      PROVE  \E i \in tagged : Extract(text, lang) = Plain(text.chunks[i + 1])
  <2>1. PICK i \in tagged : TRUE
    BY <1>8
  <2>2. i \in Matches(text, tags[1]) \/ i \in Matches(text, tags[2])
    BY <1>12, <2>1
  <2>3. 1 \in hits \/ 2 \in hits
    BY <1>1, <2>2
  <2> HIDE DEF hits
  <2>4. First(hits) \in hits /\ First(hits) \in {1, 2}
    <3>1. First(hits) \in hits /\ \A k \in hits : First(hits) <= k
      BY <1>6, <2>3, FirstFacts
    <3>2. First(hits) # 3
      BY <2>3, <3>1
    <3> QED  BY <1>6, <3>1, <3>2
  <2>5. Matches(text, tags[First(hits)]) # {}
    BY <2>4 DEF hits
  <2>6. First(Matches(text, tags[First(hits)])) \in tagged
    BY <1>4, <1>5, <2>4, <2>5, FirstFacts
  <2> QED  BY <1>7, <2>3, <2>6
<1>9. ASSUME tagged = {}
      PROVE  hits \subseteq {3} /\ (3 \in hits <=> Matches(text, Bare) # {})
  <2>1. Matches(text, tags[1]) = {} /\ Matches(text, tags[2]) = {}
    BY <1>4, <1>9
  <2>2. 1 \notin hits /\ 2 \notin hits
    BY <2>1
  <2> QED  BY <1>1, <1>6, <2>2
<1>13. ASSUME tagged = {}, Matches(text, Bare) = {}
       PROVE  Extract(text, lang) = text
  <2>1. hits = {}
    BY <1>9, <1>13
  <2> QED  BY <2>1 DEF Extract, tags
<1>14. ASSUME tagged = {}, NEW n \in Matches(text, Bare), \A i \in Matches(text, Bare) : n <= i
       PROVE  Extract(text, lang) = Plain(text.chunks[n + 1])
  <2>1. hits = {3}
    BY <1>9, <1>14
  <2> HIDE DEF hits
  <2>2. First(hits) = 3
    BY <2>1, FirstFacts
  <2>3. First(Matches(text, Bare)) = n
    <3>1. /\ First(Matches(text, Bare)) \in Matches(text, Bare)
          /\ First(Matches(text, Bare)) <= n /\ n <= First(Matches(text, Bare))
      BY <1>5, <1>14, FirstFacts
    <3>2. First(Matches(text, Bare)) \in Nat /\ n \in Nat
      BY <1>11, <3>1
    <3> QED  BY <3>1, <3>2
  <2>4. Extract(text, lang) = Plain(text.chunks[First(Matches(text, Bare)) + 1])
    BY <1>1, <1>7, <2>1, <2>2
  <2> QED  BY <2>3, <2>4
<1>15. \A i \in Matches(text, Bare) : i \in 1 .. len - 1 /\ text.tags[i] = Bare
  BY DEF Matches, len
<1>16. len = 0 <=> text.tags = <<>>
  BY <1>2, EmptySeq DEF len
<1>17. CASE tagged # {}
  BY <1>8, <1>17 DEF tags
<1>18. CASE tagged = {} /\ text.tags = <<>>
  <2>1. Matches(text, Bare) = {}
    BY <1>15, <1>16, <1>18
  <2> QED  BY <1>13, <1>18, <2>1 DEF tags
<1>19. CASE tagged = {} /\ text.tags # <<>> /\ text.tags[1] = Bare
  <2>1. 1 \in Matches(text, Bare)
    <3>1. 1 \in DOMAIN text.tags /\ 1 % 2 = 1
      BY <1>2, <1>16, <1>19
    <3> QED  BY <1>12, <1>19, <3>1
  <2>2. Extract(text, lang) = Plain(text.chunks[1 + 1])
    BY <1>11, <1>14, <1>19, <2>1
  <2> QED  BY <1>19, <2>2 DEF tags
<1>20. CASE tagged = {} /\ text.tags # <<>> /\ text.tags[1] # Bare /\ len > 2
  <2>1. 2 \in Matches(text, Bare)
    <3>1. 2 \in DOMAIN text.tags /\ 2 % 2 = 0 /\ 2 \in 1 .. len - 1
      BY <1>2, <1>20
    <3> QED  BY <1>10, <3>1 DEF Matches, len
  <2>2. \A i \in Matches(text, Bare) : 2 <= i
    BY <1>2, <1>15, <1>20
  <2>3. Extract(text, lang) = Plain(text.chunks[2 + 1])
    BY <1>14, <1>20, <2>1, <2>2
  <2> QED  BY <1>20, <2>3 DEF tags, len
<1>21. CASE tagged = {} /\ text.tags # <<>> /\ text.tags[1] # Bare /\ ~(len > 2)
  <2>1. Matches(text, Bare) = {}
    BY <1>2, <1>10, <1>15, <1>16, <1>21
  <2> QED  BY <1>13, <1>21, <2>1 DEF tags, len
<1> QED  BY <1>17, <1>18, <1>19, <1>20, <1>21

\* What stands in a block tagged with the language is the code, or else in a first block
\* without a tag; and what is the code when the first block has another tag: the prose
\* behind it, or the whole text.
THEOREM BlocksExtracted == RequestsSpec => []TaggedBlockExtracted
<1>1. RunInv => TaggedBlockExtracted
  <2> SUFFICES ASSUME RunInv, NEW r \in Runs, pc[r] = "done", InTurn(code[r].output)
               PROVE  LET text == code[r].output
                          tags == FenceTags(NormalizeLanguage(code[r].language))
                          tagged == {i \in DOMAIN text.tags :
                                        i % 2 = 1 /\ text.tags[i] \in {tags[1], tags[2]}} IN
                      \/ \E i \in tagged : code[r].code = Plain(text.chunks[i + 1])
                      \/ /\ tagged = {}
                         /\ code[r].code = IF text.tags = <<>> THEN text
                                           ELSE IF text.tags[1] = "" THEN Plain(text.chunks[2])
                                           ELSE IF Len(text.tags) > 2 THEN Plain(text.chunks[3])
                                           ELSE text
    BY DEF TaggedBlockExtracted
  <2>1. /\ code[r].code = Extract(code[r].output, NormalizeLanguage(code[r].language))
        /\ code[r].output.tags \in Seq(STRING)
    BY RequestsAssumption DEF RunInv, RunCode
  <2> DEFINE text == code[r].output
             lang == NormalizeLanguage(code[r].language)
  <2>2. text.tags \in Seq(STRING) /\ InTurn(text) /\ code[r].code = Extract(text, lang)
    BY <2>1
  <2>3. LET tags == FenceTags(lang)
            tagged == {i \in DOMAIN text.tags :
                          i % 2 = 1 /\ text.tags[i] \in {tags[1], tags[2]}} IN
        \/ \E i \in tagged : Extract(text, lang) = Plain(text.chunks[i + 1])
        \/ /\ tagged = {}
           /\ Extract(text, lang) = IF text.tags = <<>> THEN text
                                    ELSE IF text.tags[1] = Bare THEN Plain(text.chunks[2])
                                    ELSE IF Len(text.tags) > 2 THEN Plain(text.chunks[3])
                                    ELSE text
    <3> HIDE DEF text, lang
    <3> QED  BY <2>2, ExtractInTurn
  <2> QED  BY <2>2, <2>3, Zenon DEF Bare
<1> QED  BY <1>1, RunInvariant, PTL
============================================================================
