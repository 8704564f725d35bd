--------------------------- MODULE CodeRequests ---------------------------
(***************************************************************************)
(* The requests that judge or repair code.  A run of the pipeline extracts  *)
(* the code from what the models answered, validates it and stores code and *)
(* verdict (the rest of a run is in PipelineRun).  POST /pipeline/review and *)
(* POST /pipeline/fix ask one agent each; they are metered: enforce_quota   *)
(* looks at the calls charged before the handler starts, record_call adds   *)
(* the call's record to the session when it is over, get_db commits.        *)
(***************************************************************************)
EXTENDS CodeChecks, FiniteSets

CONSTANTS
    Runs,           \* runs that come to their validation
    Reviews,        \* requests to POST /pipeline/review, all of one user
    Fixes,          \* requests to POST /pipeline/fix of that user
    Languages,      \* languages that requests name
    Outputs,        \* texts the models may answer with
    Cut,            \* a chunk's first 16,000 characters
    Quota,          \* monthly_call_quota of the user's plan
    Faults          \* what may fail: "agent", "sandbox", "db"

Metered == Reviews \cup Fixes
Requests == Runs \cup Metered

ASSUME RequestsAssumption ==
    /\ Runs \cap Metered = {}
    /\ Reviews \cap Fixes = {}
    /\ IsFiniteSet(Metered)
    /\ \A text \in Outputs : text.tags \in Seq(STRING)
    /\ Cut \in [Sources -> Sources]
    /\ Quota \in Nat

VARIABLES
    pc,         \* where each request is
    code,       \* what a run got, extracted and stored, with its verdict
    success,    \* the local variable of review_code and fix_code
    result,     \* what a metered call is going to answer
    staged,     \* the record of the call, in the open session
    poisoned,   \* record_call's statement has failed
    record,     \* the committed BillingUsageRecord
    answer,     \* the status code
    peak        \* most metered calls that were under way at a time

requestVars == <<pc, code, success, result, staged, poisoned, record, answer, peak>>

NoRun == [language |-> "", output |-> Plain(Blank), code |-> Plain(Blank),
          stored |-> Plain(Blank), passed |-> FALSE, reached |-> FALSE]

InFlight == {r \in Metered : pc[r] \notin {"idle", "done"}}
Charged  == {r \in Metered : record[r] = "ok"}

RequestsInit ==
    /\ pc = [r \in Requests |-> "idle"]
    /\ code = [r \in Runs |-> NoRun]
    /\ success = [r \in Metered |-> FALSE]
    /\ result = [r \in Metered |-> "none"]
    /\ staged = [r \in Metered |-> "none"]
    /\ poisoned = [r \in Metered |-> FALSE]
    /\ record = [r \in Metered |-> "none"]
    /\ answer = [r \in Metered |-> "none"]
    /\ peak = 0

---------------------------------------------------------------------------
(* The validation of a run *)

\* The orchestrator has answered; the language passed run_task's check.
Generate(r) ==
    /\ r \in Runs
    /\ pc[r] = "idle"
    /\ \E l \in Languages, text \in Outputs :
          /\ NormalizeLanguage(l) \in SUPPORTED_LANGUAGES
          /\ code' = [code EXCEPT ![r].language = l, ![r].output = text]
    /\ pc' = [pc EXCEPT ![r] = "generated"]
    /\ UNCHANGED <<success, result, staged, poisoned, record, answer, peak>>

\* output_code[:16000]; a text with markers in it is taken to be shorter.
Stored(text) == IF text.tags = <<>> THEN Plain(Cut[text.chunks[1]]) ELSE text

\* The code is extracted and validated; its first part and the verdict are kept.
CheckCode(r) ==
    /\ r \in Runs
    /\ pc[r] = "generated"
    /\ \E reached \in BOOLEAN :
          /\ reached \/ "sandbox" \in Faults
          /\ LET lang == NormalizeLanguage(code[r].language)
                 text == Extract(code[r].output, lang) IN
             code' = [code EXCEPT ![r].code = text, ![r].stored = Stored(text),
                ![r].passed = RunPasses(text, lang, reached), ![r].reached = reached]
    /\ pc' = [pc EXCEPT ![r] = "done"]
    /\ UNCHANGED <<success, result, staged, poisoned, record, answer, peak>>

---------------------------------------------------------------------------
(* A metered call *)

\* Mutant: the call that reaches the quota is let in.
AdmitOneMore(r) ==
    /\ r \in Metered
    /\ pc[r] = "idle"
    /\ \/ /\ Cardinality(Charged) <= Quota
          /\ pc' = [pc EXCEPT ![r] = "admitted"]
          /\ peak' = IF Cardinality(InFlight) < peak THEN peak ELSE Cardinality(InFlight) + 1
          /\ UNCHANGED answer
       \/ /\ Cardinality(Charged) > Quota
          /\ pc' = [pc EXCEPT ![r] = "done"]
          /\ answer' = [answer EXCEPT ![r] = "429"]
          /\ UNCHANGED peak
    /\ UNCHANGED <<code, success, result, staged, poisoned, record>>

\* enforce_quota: the calls charged this month against the plan's quota, unless the
\* database fails.
Admit(r) ==
    /\ r \in Metered
    /\ pc[r] = "idle"
    /\ \/ /\ Cardinality(Charged) < Quota
          /\ pc' = [pc EXCEPT ![r] = "admitted"]
          /\ peak' = IF Cardinality(InFlight) < peak THEN peak ELSE Cardinality(InFlight) + 1
          /\ UNCHANGED answer
       \/ /\ Cardinality(Charged) >= Quota
          /\ pc' = [pc EXCEPT ![r] = "done"]
          /\ answer' = [answer EXCEPT ![r] = "429"]
          /\ UNCHANGED peak
       \/ /\ "db" \in Faults
          /\ pc' = [pc EXCEPT ![r] = "done"]
          /\ answer' = [answer EXCEPT ![r] = "500"]
          /\ UNCHANGED peak
    /\ UNCHANGED <<code, success, result, staged, poisoned, record>>

\* The try block is left with an answer, or with an exception that becomes 500.
Leave(r, ok, what, status) ==
    /\ pc' = [pc EXCEPT ![r] = "finally"]
    /\ success' = [success EXCEPT ![r] = ok]
    /\ result' = [result EXCEPT ![r] = what]
    /\ answer' = [answer EXCEPT ![r] = status]
    /\ UNCHANGED <<code, staged, poisoned, record, peak>>

\* review_code: a reviewer that did not succeed is answered 200, not passed.
CallReviewer(r) ==
    /\ r \in Reviews
    /\ pc[r] = "admitted"
    /\ \/ "agent" \in Faults /\ Leave(r, FALSE, "none", "500")
       \/ Leave(r, FALSE, "failed", "200")
       \/ /\ \E opinion \in {"approved", "rejected"} :
                result' = [result EXCEPT ![r] = opinion]
          /\ pc' = [pc EXCEPT ![r] = "reviewed"]
          /\ UNCHANGED <<code, success, staged, poisoned, record, answer, peak>>

\* Mutant: the reviewer's opinion alone makes a success.
CheckReviewByOpinion(r) ==
    /\ pc[r] = "reviewed"
    /\ \/ \E text \in Outputs, l \in Languages :
            LET conforms == SoftwarePayload(text, l) \in Conforming IN
            Leave(r, result[r] = "approved",
                  IF ~conforms THEN "nonconforming" ELSE result[r], "200")
       \/ "agent" \in Faults /\ Leave(r, FALSE, "none", "500")

\* The code is analysed in the language as it was named; the answer holds the
\* opinion and the verdict apart, success wants both.
CheckReview(r) ==
    /\ pc[r] = "reviewed"
    /\ \/ \E text \in Outputs, l \in Languages :
            LET conforms == SoftwarePayload(text, l) \in Conforming IN
            Leave(r, result[r] = "approved" /\ conforms,
                  IF ~conforms THEN "nonconforming" ELSE result[r], "200")
       \/ "agent" \in Faults /\ Leave(r, FALSE, "none", "500")

\* fix_code: a fixer that did not succeed is answered 200 with an error.
CallFixer(r) ==
    /\ r \in Fixes
    /\ pc[r] = "admitted"
    /\ \/ "agent" \in Faults /\ Leave(r, FALSE, "none", "500")
       \/ Leave(r, FALSE, "failed", "200")
       \/ Leave(r, TRUE, "fixed", "200")

\* quota.record_call writes in the session of the request; a failed statement
\* leaves the transaction aborted.
Meter(r) ==
    \/ /\ staged' = [staged EXCEPT ![r] = IF success[r] THEN "ok" ELSE "failed"]
       /\ UNCHANGED poisoned
    \/ /\ "db" \in Faults
       /\ poisoned' = [poisoned EXCEPT ![r] = TRUE]
       /\ UNCHANGED staged

\* The finally block swallows what record_call raises.
RecordCall(r) ==
    /\ pc[r] = "finally"
    /\ Meter(r)
    /\ pc' = [pc EXCEPT ![r] = "ending"]
    /\ UNCHANGED <<code, success, result, record, answer, peak>>

\* get_db: commit after an answer, rollback after an exception.  A commit may fail,
\* and answers 500; that of an aborted transaction is a rollback that may not even
\* raise, if nothing was left to flush.  Locals and session are gone afterwards.
EndSession(r) ==
    /\ pc[r] = "ending"
    /\ \/ /\ answer[r] = "200" /\ ~poisoned[r]
          /\ record' = [record EXCEPT ![r] = staged[r]]
          /\ UNCHANGED answer
       \/ /\ answer[r] = "200" /\ (poisoned[r] \/ "db" \in Faults)
          /\ answer' = [answer EXCEPT ![r] = "500"]
          /\ UNCHANGED record
       \/ /\ answer[r] = "500" \/ poisoned[r]
          /\ UNCHANGED <<record, answer>>
    /\ pc' = [pc EXCEPT ![r] = "done"]
    /\ success' = [success EXCEPT ![r] = FALSE]
    /\ staged' = [staged EXCEPT ![r] = "none"]
    /\ UNCHANGED <<code, result, poisoned, peak>>

RequestsIdle == \A r \in Requests : pc[r] = "idle"

RequestsQuiet ==
    /\ \A r \in Requests : pc[r] = "done"
    /\ UNCHANGED requestVars

RequestsNext ==
    \/ \E r \in Requests : Generate(r) \/ CheckCode(r)
    \/ \E r \in Metered : \/ Admit(r) \/ CallReviewer(r) \/ CheckReview(r) \/ CallFixer(r)
                          \/ RecordCall(r) \/ EndSession(r)
    \/ RequestsQuiet

RequestsSpec == RequestsInit /\ [][RequestsNext]_requestVars

---------------------------------------------------------------------------
RequestsTypeOK ==
    /\ pc \in [Requests -> {"idle", "generated", "admitted", "reviewed", "finally",
                            "ending", "done"}]
    /\ success \in [Metered -> BOOLEAN]
    /\ result \in [Metered -> {"none", "failed", "approved", "rejected", "nonconforming",
                               "fixed"}]
    /\ staged \in [Metered -> {"none", "ok", "failed"}]
    /\ poisoned \in [Metered -> BOOLEAN]
    /\ record \in [Metered -> {"none", "ok", "failed"}]
    /\ answer \in [Metered -> {"none", "200", "429", "500"}]
    /\ peak \in Nat

\* What the user got: a review without objections, or repaired code.
Useful(r) == result[r] \in {"approved", "fixed"}

\* The user pays for what he was given: a call is charged only if it was answered
\* 200 with a useful result, one recorded as failed was answered 200 with another,
\* and an answer goes unrecorded only if record_call itself failed.  Exceptions,
\* failing commits and refusals charge nothing.
ChargedAsAnswered ==
    \A r \in Metered : pc[r] = "done" =>
        /\ record[r] = "ok" => answer[r] = "200" /\ Useful(r)
        /\ record[r] = "failed" => answer[r] = "200" /\ ~Useful(r)
        /\ answer[r] = "200" /\ ~poisoned[r] => record[r] # "none"

\* The quota is looked at before a call and charged after it.  So it can be
\* overshot, but only by calls under way at the same time: never by more than
\* the most that ever were, less one.
OvershootIsOverlap ==
    peak > 0 => Cardinality(Charged \cup InFlight) <= Quota + peak - 1

\* The inductive invariant behind the two.
MeterInv ==
    /\ RequestsTypeOK
    /\ \A r \in Metered :
        /\ pc[r] # "done" => record[r] = "none"
        /\ pc[r] \notin {"ending", "done"} => staged[r] = "none" /\ ~poisoned[r]
        /\ pc[r] = "reviewed" => result[r] \in {"approved", "rejected"}
        /\ pc[r] \in {"finally", "ending"} =>
              /\ answer[r] \in {"200", "500"}
              /\ success[r] <=> answer[r] = "200" /\ Useful(r)
        /\ pc[r] = "ending" /\ ~poisoned[r] =>
              staged[r] = IF success[r] THEN "ok" ELSE "failed"
    /\ Cardinality(InFlight) <= peak
    /\ peak = 0 => Charged = {}
    /\ peak > 0 => Cardinality(Charged) + Cardinality(InFlight) <= Quota + peak - 1
    /\ ChargedAsAnswered

\* In a text whose markers open and close blocks in turn, the code is what stands in a
\* block that has a tag of the language; without such a one, in the first block, if that
\* has no tag.  If it has another, the pattern takes its end for a beginning: the code is
\* then the prose between the first block and the second, or all of the text if there is
\* no second.  What the blocks after these are tagged with makes no difference.
InTurn(text) ==
    /\ Len(text.tags) % 2 = 0
    /\ \A i \in DOMAIN text.tags : i % 2 = 0 => text.tags[i] = ""

TaggedBlockExtracted ==
    \A r \in Runs : pc[r] = "done" /\ InTurn(code[r].output) =>
        LET text == code[r].output
            tags == FenceTags(NormalizeLanguage(code[r].language))
            tagged == {i \in DOMAIN text.tags :
                          i % 2 = 1 /\ text.tags[i] \in {tags[1], tags[2]}} IN
        \/ \E i \in tagged : code[r].code = Plain(text.chunks[i + 1])
        \/ /\ tagged = {}
           /\ code[r].code = IF text.tags = <<>> THEN text
                             ELSE IF text.tags[1] = "" THEN Plain(text.chunks[2])
                             ELSE IF Len(text.tags) > 2 THEN Plain(text.chunks[3])
                             ELSE text

\* The verdict of a TypeScript or Rust run is about the code it stored, if that
\* was not cut: POST /pipeline/validate says the same of it.  A verdict given
\* without the sandbox is always a failure, so that it can only improve.
StoredVerdictHolds ==
    \A r \in Runs :
        /\ pc[r] = "done"
        /\ NormalizeLanguage(code[r].language) # "python"
        /\ code[r].stored = code[r].code
        =>
        LET again == ValidateAnswer(code[r].stored, code[r].language, TRUE) IN
        /\ code[r].passed => again = "valid"
        /\ code[r].reached /\ ~code[r].passed => again = "invalid"
============================================================================
