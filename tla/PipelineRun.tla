--------------------------- MODULE PipelineRun ---------------------------
(***************************************************************************)
(* The pipeline endpoints of the service: POST /pipeline/run on a task that *)
(* is already registered, POST /pipeline/run-inline and POST                *)
(* /pipeline/generate, which make a task of their own.  The module follows  *)
(* one handler per request from the first statement to the end of the       *)
(* get_db dependency that commits or rolls back, step by step wherever the  *)
(* coroutine may be suspended or may raise.                                 *)
(*                                                                         *)
(* The database is PostgreSQL at READ COMMITTED: a SELECT sees what is      *)
(* committed, an UPDATE takes the row's lock until the transaction ends.    *)
(* The session is SQLAlchemy's with autoflush off: a flush writes only the  *)
(* columns whose value differs from the one the session last saw.           *)
(***************************************************************************)
EXTENDS Naturals, FiniteSets

CONSTANTS
    RunReqs,        \* requests to POST /pipeline/run
    InlineReqs,     \* requests to POST /pipeline/run-inline
    GenReqs,        \* requests to POST /pipeline/generate
    AutoCommit,     \* the generate requests made with auto_commit=true
    Registered,     \* ids that POST /tasks may hand out
    Unsupported,    \* tasks whose language is not in SUPPORTED_LANGUAGES
    Codes,          \* the code an orchestrator may produce
    NoCode,         \* output_code IS NULL
    Nobody,         \* no request holds the lock
    UseRedis,       \* settings.redis_url is not empty
    Faults,         \* what may fail: "agent", "db", "redis", "git", "billing"
    BudgetAtStart,  \* this month's adk_monthly_budget row exists already
    MaxCrashes      \* bound on the process's crashes

Requests == RunReqs \cup InlineReqs \cup GenReqs

\* A task made by run_inline has a fresh uuid4 for its id: the request names it.
Tasks == Registered \cup InlineReqs \cup GenReqs

ASSUME RequestsAssumption ==
    /\ RunReqs \cap (InlineReqs \cup GenReqs) = {}
    /\ InlineReqs \cap GenReqs = {}
    /\ Registered \cap Requests = {}
    /\ Nobody \notin Requests
    /\ AutoCommit \subseteq GenReqs
    /\ Unsupported \subseteq Tasks
ASSUME DataAssumption ==
    /\ NoCode \notin Codes
    /\ UseRedis \in BOOLEAN
    /\ BudgetAtStart \in BOOLEAN
    /\ MaxCrashes \in Nat

VARIABLES
    row,        \* committed columns of software_code_tasks
    lock,       \* which request's transaction holds a task's row lock
    budget,     \* the month's budget row is committed
    durable,    \* kinds of rows each request has committed
    mon,        \* status of each task's snapshot in the pipeline monitor
    events,     \* requests whose code.generated event was published
    gitCommits, \* requests whose snippet was committed to git
    pc,         \* where each handler is
    target,     \* the task each handler runs
    base,       \* column values the session believes the database holds
    obj,        \* column values of the session's CodeTask object
    pending,    \* the task's row as the open transaction sees it
    staged,     \* kinds of rows added in the open transaction
    poisoned,   \* a statement has failed: no other will succeed before the rollback
    answer,     \* the status code the handler is going to answer with
    overtaken,  \* another run committed the task since this one loaded it
    crashes     \* crashes so far

db      == <<row, lock, budget, durable>>
outside == <<mon, events, gitCommits>>
session == <<target, base, obj, pending, staged, poisoned>>
vars    == <<db, outside, session, pc, answer, overtaken, crashes>>

Statuses == {"absent", "pending", "running", "completed", "failed"}
Verdicts == {"null", "pass", "fail"}
Row == [status : Statuses, code : Codes \cup {NoCode}, onto : Verdicts]
NoRow      == [status |-> "absent", code |-> NoCode, onto |-> "null"]
PendingRow == [status |-> "pending", code |-> NoCode, onto |-> "null"]

\* callOk and callFailed are the two kinds of BillingUsageRecord, callUnrecorded is no
\* row but the warning that is logged instead of one; execution is a row of the
\* knowledge base, newBudget the insertion of the month's budget.
Effects == {"review", "modelUsage", "newBudget", "execution",
            "callOk", "callFailed", "callUnrecorded"}

\* Inside run_task, its transaction open and its first flush done.
Running == {"running", "routed", "selected", "executing", "generated", "validating",
            "reviewed", "costed", "indexed", "published", "except"}
Leaving == {"returned", "finally", "commit", "abort"}
PCs == {"idle", "loaded", "done"} \cup Running \cup Leaving

---------------------------------------------------------------------------
(* Session and transaction *)

\* UPDATE sets the columns in which the object o differs from what was last seen.
Merge(seen, o, stored) ==
    [status |-> IF o.status # seen.status THEN o.status ELSE stored.status,
     code   |-> IF o.code # seen.code THEN o.code ELSE stored.code,
     onto   |-> IF o.onto # seen.onto THEN o.onto ELSE stored.onto]

\* The object becomes o and flush() sends the UPDATE, which waits for the row's
\* lock and keeps it; columns it does not set stay as the row has them by then.
Flush(r, o) ==
    LET t == target[r] IN
    /\ obj' = [obj EXCEPT ![r] = o]
    /\ base' = [base EXCEPT ![r] = o]
    /\ IF o = base[r]
         THEN UNCHANGED <<lock, pending>>
         ELSE /\ lock[t] \in {r, Nobody}
              /\ lock' = [lock EXCEPT ![t] = r]
              /\ pending' = [pending EXCEPT ![r] =
                    Merge(base[r], o, IF lock[t] = r THEN pending[r] ELSE row[t])]

\* A statement fails: PostgreSQL aborts the transaction, which lets go of its
\* lock at once; the handler may not notice before its next statement fails too.
AbortTransaction(r) ==
    /\ poisoned' = [poisoned EXCEPT ![r] = TRUE]
    /\ lock' = [lock EXCEPT ![target[r]] = IF @ = r THEN Nobody ELSE @]

\* An exception leaves run_task; generate's finally block still runs.
Raise(r, code) ==
    /\ pc' = [pc EXCEPT ![r] = IF r \in GenReqs THEN "finally" ELSE "abort"]
    /\ answer' = [answer EXCEPT ![r] = code]

\* An exception inside run_task's try block; a ValueError will mean 400.
Throw(r) ==
    /\ pc' = [pc EXCEPT ![r] = "except"]
    /\ \E code \in {"400", "500"} : answer' = [answer EXCEPT ![r] = code]

Goto(r, label) ==
    /\ pc' = [pc EXCEPT ![r] = label]
    /\ UNCHANGED answer

\* Mutant: sessions are not closed, their transactions keep the locks.
CloseSessionsLeakingLocks(over) ==
    /\ pc' = [r \in Requests |-> IF r \in over THEN "done" ELSE pc[r]]
    /\ UNCHANGED <<lock, base, obj, pending, staged, poisoned, target>>

\* The transactions end: with them go the locks and all that is not committed.
CloseSessions(over) ==
    /\ pc' = [r \in Requests |-> IF r \in over THEN "done" ELSE pc[r]]
    /\ lock' = [t \in Tasks |-> IF lock[t] \in over THEN Nobody ELSE lock[t]]
    /\ base' = [r \in Requests |-> IF r \in over THEN NoRow ELSE base[r]]
    /\ obj' = [r \in Requests |-> IF r \in over THEN NoRow ELSE obj[r]]
    /\ pending' = [r \in Requests |-> IF r \in over THEN NoRow ELSE pending[r]]
    /\ staged' = [r \in Requests |-> IF r \in over THEN {} ELSE staged[r]]
    /\ poisoned' = [r \in Requests |-> IF r \in over THEN FALSE ELSE poisoned[r]]
    /\ UNCHANGED target

---------------------------------------------------------------------------
Init ==
    /\ row = [t \in Tasks |-> NoRow]
    /\ lock = [t \in Tasks |-> Nobody]
    /\ budget = BudgetAtStart
    /\ durable = [r \in Requests |-> {}]
    /\ mon = [t \in Tasks |-> "none"]
    /\ events = {}
    /\ gitCommits = {}
    /\ pc = [r \in Requests |-> "idle"]
    /\ target \in [Requests -> Tasks]
    /\ \A r \in Requests : IF r \in RunReqs THEN target[r] \in Registered
                                            ELSE target[r] = r
    /\ base = [r \in Requests |-> NoRow]
    /\ obj = [r \in Requests |-> NoRow]
    /\ pending = [r \in Requests |-> NoRow]
    /\ staged = [r \in Requests |-> {}]
    /\ poisoned = [r \in Requests |-> FALSE]
    /\ answer = [r \in Requests |-> "none"]
    /\ overtaken = [r \in Requests |-> FALSE]
    /\ crashes = 0

---------------------------------------------------------------------------
(* POST /tasks *)

CreateTask(t) ==
    /\ t \in Registered
    /\ row[t] = NoRow
    /\ row' = [row EXCEPT ![t] = PendingRow]
    /\ UNCHANGED <<lock, budget, durable, outside, session, pc, answer, overtaken, crashes>>

---------------------------------------------------------------------------
(* The start of a handler *)

\* run_pipeline: SELECT the task; without one the answer is 404.
LoadTask(r) ==
    /\ r \in RunReqs
    /\ pc[r] = "idle"
    /\ LET stored == row[target[r]] IN
        \/ /\ stored = NoRow
           /\ Raise(r, "404")
           /\ UNCHANGED <<base, obj>>
        \/ /\ stored # NoRow
           /\ base' = [base EXCEPT ![r] = stored]
           /\ obj' = [obj EXCEPT ![r] = stored]
           /\ Goto(r, "loaded")
    /\ UNCHANGED <<db, outside, target, pending, staged, poisoned, overtaken, crashes>>

\* run_inline: INSERT a task of the request's own; flush() sends it at once.
InsertTask(r) ==
    /\ r \in InlineReqs \cup GenReqs
    /\ pc[r] = "idle"
    /\ Flush(r, PendingRow)
    /\ Goto(r, "loaded")
    /\ UNCHANGED <<row, budget, durable, outside, target, staged, poisoned, overtaken, crashes>>

\* Mutant: the status is set, but not flushed, so that no lock is taken.
SetRunningUnflushed(r) ==
    /\ pc[r] = "loaded"
    /\ obj' = [obj EXCEPT ![r].status = "running"]
    /\ pending' = [pending EXCEPT ![r] = IF r \in RunReqs THEN row[target[r]] ELSE @]
    /\ Goto(r, "running")
    /\ UNCHANGED <<db, outside, target, base, staged, poisoned, overtaken, crashes>>

\* run_task: the status becomes running and is flushed before anything else.
SetRunning(r) ==
    /\ pc[r] = "loaded"
    /\ Flush(r, [obj[r] EXCEPT !.status = "running"])
    /\ Goto(r, "running")
    /\ UNCHANGED <<row, budget, durable, outside, target, staged, poisoned, overtaken, crashes>>

\* A database error before the try block.
StartFails(r) ==
    /\ "db" \in Faults
    /\ pc[r] \in {"idle", "loaded"}
    /\ Raise(r, "500")
    /\ AbortTransaction(r)
    /\ UNCHANGED <<row, budget, durable, outside, target, base, obj, pending, staged,
                   overtaken, crashes>>

\* Still outside the try block: the language check, and the cost routing, whose
\* ontology may raise; a ValueError means 400.
CheckLanguage(r) ==
    /\ pc[r] = "running"
    /\ IF target[r] \in Unsupported
         THEN Raise(r, "400")
         ELSE \/ Goto(r, "routed")
              \/ "agent" \in Faults /\ \E code \in {"400", "500"} : Raise(r, code)
    /\ UNCHANGED <<db, outside, session, overtaken, crashes>>

\* The knowledge base's query may fail, as may the embedding service before it.
FindSimilar(r) ==
    \/ UNCHANGED <<lock, poisoned>>
    \/ "db" \in Faults /\ AbortTransaction(r)

\* Similar code is looked for; what this raises is swallowed, but an aborted
\* transaction stays aborted.
SearchKnowledge(r) ==
    /\ pc[r] = "routed"
    /\ FindSimilar(r)
    /\ Goto(r, "selected")
    /\ UNCHANGED <<row, budget, durable, outside, target, base, obj, pending, staged,
                   overtaken, crashes>>

---------------------------------------------------------------------------
(* run_task's try block *)

\* Consecutive mon.track calls leave the last one's status, or raise midway.
Track(r, statuses, last, next) ==
    /\ \/ /\ mon' = [mon EXCEPT ![target[r]] = last]
          /\ Goto(r, next)
       \/ /\ UseRedis /\ "redis" \in Faults
          /\ \E s \in statuses \cup {mon[target[r]]} : mon' = [mon EXCEPT ![target[r]] = s]
          /\ Throw(r)
    /\ UNCHANGED <<events, gitCommits>>

\* pipeline running, plan running, plan completed, generate running.
TrackEnqueue(r) ==
    /\ pc[r] = "selected"
    /\ Track(r, {"running", "completed"}, "running", "executing")
    /\ UNCHANGED <<db, session, overtaken, crashes>>

\* The orchestrator answers or raises.
Execute(r) ==
    /\ pc[r] = "executing"
    /\ \/ Goto(r, "generated")
       \/ "agent" \in Faults /\ Throw(r)
    /\ UNCHANGED <<db, outside, session, overtaken, crashes>>

\* generate completed, review running and completed, perhaps fix, ontology running.
TrackReview(r) ==
    /\ pc[r] = "generated"
    /\ Track(r, {"running", "completed"}, "running", "validating")
    /\ UNCHANGED <<db, session, overtaken, crashes>>

\* Mutant: a task whose code fails the ontology is failed itself.
ValidateByVerdict(r) ==
    /\ pc[r] = "validating"
    /\ ~poisoned[r]
    /\ \E code \in Codes \cup {NoCode}, verdict \in {"pass", "fail"} :
            Flush(r, [status |-> IF verdict = "pass" THEN "completed" ELSE "failed",
                      code |-> code, onto |-> verdict])
    /\ staged' = [staged EXCEPT ![r] = @ \cup {"review"}]
    /\ Goto(r, "reviewed")
    /\ UNCHANGED <<row, budget, durable, outside, target, poisoned, overtaken, crashes>>

\* The code, perhaps none, is validated; the task and its review are flushed.
Validate(r) ==
    /\ pc[r] = "validating"
    /\ ~poisoned[r]
    /\ \E code \in Codes \cup {NoCode}, verdict \in {"pass", "fail"} :
            Flush(r, [status |-> "completed", code |-> code, onto |-> verdict])
    /\ staged' = [staged EXCEPT ![r] = @ \cup {"review"}]
    /\ Goto(r, "reviewed")
    /\ UNCHANGED <<row, budget, durable, outside, target, poisoned, overtaken, crashes>>

\* The validator raises, or the flush does, in an aborted transaction always.
ValidateFails(r) ==
    /\ pc[r] = "validating"
    /\ \/ /\ "agent" \in Faults
          /\ UNCHANGED <<lock, poisoned>>
       \/ /\ poisoned[r] \/ "db" \in Faults
          /\ AbortTransaction(r)
    /\ Throw(r)
    /\ UNCHANGED <<row, budget, durable, outside, target, base, obj, pending, staged,
                   overtaken, crashes>>

\* record_usage adds a log row and, if SELECT finds no budget row for the month,
\* adds one; nothing is flushed. A failure is swallowed, the transaction not cured.
RecordUsage(r) ==
    /\ pc[r] = "reviewed"
    /\ \/ /\ staged' = [staged EXCEPT ![r] = @ \cup {"modelUsage"} \cup
                            (IF budget THEN {} ELSE {"newBudget"})]
          /\ UNCHANGED <<lock, poisoned>>
       \/ /\ "db" \in Faults
          /\ staged' = [staged EXCEPT ![r] = @ \cup {"modelUsage"}]
          /\ AbortTransaction(r)
    /\ Goto(r, "costed")
    /\ UNCHANGED <<row, budget, durable, outside, target, base, obj, pending,
                   overtaken, crashes>>

\* lat_ms is a local variable that run_task assigns only once it has published.
LatencyAssigned(r) == pc[r] \in {"published", "except"}

\* index_execution's arguments are evaluated, among them lat_ms; reading it
\* before its assignment raises, and the except clause swallows that.
IndexExecution(r) ==
    /\ pc[r] = "costed"
    /\ staged' = IF LatencyAssigned(r)
                   THEN [staged EXCEPT ![r] = @ \cup {"execution"}]
                   ELSE staged
    /\ Goto(r, "indexed")
    /\ UNCHANGED <<db, outside, target, base, obj, pending, poisoned, overtaken, crashes>>

\* The code.generated event, when Redis is configured; errors are swallowed.
PublishEvent(r) ==
    /\ pc[r] = "indexed"
    /\ \/ UseRedis /\ events' = events \cup {r}
       \/ (~UseRedis \/ "redis" \in Faults) /\ UNCHANGED events
    /\ Goto(r, "published")
    /\ UNCHANGED <<db, mon, gitCommits, session, overtaken, crashes>>

\* The ontology track and record_completion, by the verdict.
RecordCompletion(r) ==
    /\ pc[r] = "published"
    /\ LET verdict == IF obj[r].onto = "pass" THEN "completed" ELSE "failed" IN
        Track(r, {verdict}, verdict, "returned")
    /\ UNCHANGED <<db, session, overtaken, crashes>>

\* Mutant: the except clause forgets the monitor.
RecordFailureUnseen(r) ==
    /\ pc[r] = "except"
    /\ Raise(r, "500")
    /\ UNCHANGED <<db, outside, session, overtaken, crashes>>

\* The except clause: the failure is recorded in the monitor, errors of which
\* are swallowed; the task is flushed as failed; the exception is raised again.
RecordFailure(r) ==
    /\ pc[r] = "except"
    /\ \/ mon' = [mon EXCEPT ![target[r]] = "failed"]
       \/ UseRedis /\ "redis" \in Faults /\ UNCHANGED mon
    /\ \/ /\ ~poisoned[r]
          /\ Flush(r, [obj[r] EXCEPT !.status = "failed"])
          /\ Raise(r, answer[r])
          /\ UNCHANGED poisoned
       \/ /\ poisoned[r] \/ "db" \in Faults
          /\ Raise(r, "500")
          /\ AbortTransaction(r)
          /\ UNCHANGED <<base, obj, pending>>
    /\ UNCHANGED <<row, budget, durable, events, gitCommits, target, staged, overtaken, crashes>>

---------------------------------------------------------------------------
(* After run_task *)

\* run_task has returned. generate's auto_commit writes and commits the snippet
\* when there is code; its errors are swallowed.
Return(r) ==
    /\ pc[r] = "returned"
    /\ LET asked == r \in AutoCommit /\ obj[r].code # NoCode IN
        \/ asked /\ gitCommits' = gitCommits \cup {r}
        \/ (~asked \/ "git" \in Faults) /\ UNCHANGED gitCommits
    /\ answer' = [answer EXCEPT ![r] = "200"]
    /\ pc' = [pc EXCEPT ![r] = IF r \in GenReqs THEN "finally" ELSE "commit"]
    /\ UNCHANGED <<db, mon, events, session, overtaken, crashes>>

\* Mutant: the record is added within a savepoint, which alone is rolled back.
RecordCallInSavepoint(r) ==
    /\ pc[r] = "finally"
    /\ LET ok == answer[r] = "200" IN
        /\ \/ /\ ~poisoned[r]
              /\ staged' = [staged EXCEPT ![r] = @ \cup
                                {IF ok THEN "callOk" ELSE "callFailed"}]
           \/ /\ poisoned[r] \/ "db" \in Faults
              /\ UNCHANGED staged
        /\ Goto(r, IF ok THEN "commit" ELSE "abort")
    /\ UNCHANGED <<db, outside, target, base, obj, pending, poisoned, overtaken, crashes>>

\* generate's finally block: record_call, in the same session, errors swallowed; one
\* of the database aborts the transaction, another does not.
RecordCall(r) ==
    /\ pc[r] = "finally"
    /\ LET ok == answer[r] = "200" IN
        /\ \/ /\ ~poisoned[r]
              /\ staged' = [staged EXCEPT ![r] = @ \cup
                                {IF ok THEN "callOk" ELSE "callFailed"}]
              /\ UNCHANGED <<lock, poisoned>>
           \/ /\ "billing" \in Faults
              /\ staged' = [staged EXCEPT ![r] = @ \cup {"callUnrecorded"}]
              /\ UNCHANGED <<lock, poisoned>>
           \/ /\ poisoned[r] \/ "db" \in Faults
              /\ AbortTransaction(r)
              /\ UNCHANGED staged
        /\ Goto(r, IF ok THEN "commit" ELSE "abort")
    /\ UNCHANGED <<row, budget, durable, outside, target, base, obj, pending,
                   overtaken, crashes>>

---------------------------------------------------------------------------
(* The end of get_db *)

\* The INSERT of a budget row that another run has committed breaks the unique
\* index on year_month.
BudgetConflict(r) == "newBudget" \in staged[r] /\ budget

\* session.commit(): what is staged becomes durable at once.
Commit(r) ==
    /\ pc[r] = "commit"
    /\ ~poisoned[r]
    /\ ~BudgetConflict(r)
    /\ row' = [row EXCEPT ![target[r]] = pending[r]]
    /\ budget' = (budget \/ "newBudget" \in staged[r])
    /\ durable' = [durable EXCEPT ![r] = staged[r]]
    /\ overtaken' = [s \in Requests |->
                        \/ overtaken[s]
                        \/ pc[s] = "loaded" /\ s # r /\ target[s] = target[r]]
    /\ CloseSessions({r})
    /\ UNCHANGED <<outside, answer, crashes>>

\* Mutant: the answer has left before the commit raises.
CommitFailsAnswered(r) ==
    /\ pc[r] = "commit"
    /\ poisoned[r] \/ BudgetConflict(r) \/ "db" \in Faults
    /\ CloseSessions({r})
    /\ UNCHANGED <<row, budget, durable, outside, answer, overtaken, crashes>>

\* The commit raises after the handler has returned: rollback, and 500.
CommitFails(r) ==
    /\ pc[r] = "commit"
    /\ poisoned[r] \/ BudgetConflict(r) \/ "db" \in Faults
    /\ answer' = [answer EXCEPT ![r] = "500"]
    /\ CloseSessions({r})
    /\ UNCHANGED <<row, budget, durable, outside, overtaken, crashes>>

\* Mutant: get_db commits in a finally block.
RollbackCommits(r) ==
    /\ pc[r] = "abort"
    /\ IF lock[target[r]] = r
         THEN /\ row' = [row EXCEPT ![target[r]] = pending[r]]
              /\ durable' = [durable EXCEPT ![r] = staged[r]]
         ELSE UNCHANGED <<row, durable>>
    /\ CloseSessions({r})
    /\ UNCHANGED <<budget, outside, answer, overtaken, crashes>>

\* The handler raised an HTTPException into get_db: rollback.
Rollback(r) ==
    /\ pc[r] = "abort"
    /\ CloseSessions({r})
    /\ UNCHANGED <<row, budget, durable, outside, answer, overtaken, crashes>>

\* The process dies: the server rolls its transactions back, the in-memory
\* monitor is lost, Redis and git keep what they have.
Crash ==
    LET cut == {r \in Requests : pc[r] \notin {"idle", "done"}} IN
    /\ crashes < MaxCrashes
    /\ cut # {}
    /\ crashes' = crashes + 1
    /\ answer' = [r \in Requests |-> IF r \in cut THEN "lost" ELSE answer[r]]
    /\ mon' = IF UseRedis THEN mon ELSE [t \in Tasks |-> "none"]
    /\ CloseSessions(cut)
    /\ UNCHANGED <<row, budget, durable, events, gitCommits, overtaken>>

---------------------------------------------------------------------------
\* What the event loop resumes; nothing obliges the database to fail a request
\* that waits for a lock.
Progress(r) ==
    \/ LoadTask(r) \/ InsertTask(r) \/ SetRunning(r)
    \/ CheckLanguage(r) \/ SearchKnowledge(r) \/ TrackEnqueue(r) \/ Execute(r) \/ TrackReview(r)
    \/ Validate(r) \/ ValidateFails(r) \/ RecordUsage(r) \/ IndexExecution(r)
    \/ PublishEvent(r) \/ RecordCompletion(r) \/ RecordFailure(r)
    \/ Return(r) \/ RecordCall(r) \/ Commit(r) \/ CommitFails(r) \/ Rollback(r)

Step(r) == Progress(r) \/ StartFails(r)

\* Every request has been answered; the service waits for more.
Quiet ==
    /\ \A r \in Requests : pc[r] = "done"
    /\ UNCHANGED vars

Next ==
    \/ \E t \in Tasks : CreateTask(t)
    \/ \E r \in Requests : Step(r)
    \/ Crash
    \/ Quiet

Spec == Init /\ [][Next]_vars

\* The event loop runs every handler that can take a step.
FairSpec == Spec /\ \A r \in Requests : WF_vars(Progress(r))

---------------------------------------------------------------------------
TypeOK ==
    /\ row \in [Tasks -> Row]
    /\ lock \in [Tasks -> Requests \cup {Nobody}]
    /\ budget \in BOOLEAN
    /\ durable \in [Requests -> SUBSET Effects]
    /\ mon \in [Tasks -> {"none", "running", "completed", "failed"}]
    /\ events \subseteq Requests
    /\ gitCommits \subseteq AutoCommit
    /\ pc \in [Requests -> PCs]
    /\ target \in [Requests -> Tasks]
    /\ base \in [Requests -> Row]
    /\ obj \in [Requests -> Row]
    /\ pending \in [Requests -> Row]
    /\ staged \in [Requests -> SUBSET Effects]
    /\ poisoned \in [Requests -> BOOLEAN]
    /\ answer \in [Requests -> {"none", "200", "400", "404", "500", "lost"}]
    /\ overtaken \in [Requests -> BOOLEAN]
    /\ crashes \in 0 .. MaxCrashes

\* No other request ever reads a task as running or failed: run_task writes both
\* statuses, but only inside transactions that go on to completed or roll back.
\* (GET /tasks shows pending or completed; what runs is seen in the monitor only.)
CommittedSettled ==
    \A t \in Tasks : row[t].status \in {"absent", "pending", "completed"}

\* POST /run checks no status, and yet a task is never run by two requests at a
\* time: the status flushed first thing takes the row's lock until the end of
\* get_db, and no loaded task is running already, so the flush always writes.
\* (A run that goes on in an aborted transaction has lost its lock.)
OneRunPerTask ==
    \A r, s \in Requests :
        /\ \A q \in {r, s} : pc[q] \in Running \cup {"returned", "commit"} /\ ~poisoned[q]
        /\ target[r] = target[s]
        => r = s

\* What each handler knows of its transaction, from step to step: the inductive
\* invariant behind the properties above and below.  Between its first flush and
\* the end of get_db it holds the lock of its row; what it loaded is settled, so
\* that flush wrote; once validated, it has staged what a commit makes durable.
TargetInv(r) ==
    IF r \in RunReqs THEN target[r] \in Registered ELSE target[r] = r

Succeeding(r) ==
    \/ pc[r] \in {"reviewed", "costed", "indexed", "published", "returned", "commit"}
    \/ pc[r] = "finally" /\ answer[r] = "200"

LockInv(r) ==
    /\ (pc[r] \in Running \/ Succeeding(r)) /\ ~poisoned[r] => lock[target[r]] = r
    /\ \A t \in Tasks : lock[t] = r =>
            /\ target[r] = t
            /\ pc[r] \notin {"idle", "done"}
            /\ pc[r] = "loaded" => r \notin RunReqs

SessionInv(r) ==
    /\ poisoned[r] => pc[r] \notin {"idle", "loaded"}
    /\ pc[r] = "idle" =>
            /\ base[r] = NoRow
            /\ r \notin RunReqs => row[r] = NoRow
    /\ pc[r] = "loaded" =>
            /\ obj[r] = base[r]
            /\ obj[r].status \in {"pending", "completed"}
            /\ r \notin RunReqs => lock[r] = r /\ pending[r] = base[r]
            /\ r \in RunReqs /\ ~overtaken[r] => row[target[r]] = base[r]
    /\ pc[r] \in Running \ {"except"} \/ Succeeding(r) =>
            /\ obj[r] = base[r]
            /\ ~overtaken[r] => pending[r] = base[r]
            /\ obj[r].status = IF Succeeding(r) THEN "completed" ELSE "running"
    /\ Succeeding(r) =>
            /\ pending[r].status = "completed"
            /\ "review" \in staged[r]
            /\ pc[r] # "reviewed" => "modelUsage" \in staged[r]

AnswerInv(r) ==
    /\ pc[r] = "except" => answer[r] \in {"400", "500"}
    /\ pc[r] = "finally" => answer[r] \in {"200", "400", "500"} /\ r \in GenReqs
    /\ pc[r] = "commit" => answer[r] = "200"
    /\ pc[r] = "abort" => answer[r] \in {"400", "404", "500"}

HandlerInv ==
    /\ CommittedSettled
    /\ \A t \in Tasks : row[t].status = "absent" => row[t] = NoRow
    /\ \A r \in Requests : TargetInv(r) /\ LockInv(r) /\ SessionInv(r) /\ AnswerInv(r)

\* A task the monitor shows as running has a handler in run_task's try block, past
\* its first track: every way out of it, after every failure, leaves a final status.
\* (Unless Redis fails, or keeps what a crashed process last wrote.)
MonitorSettles ==
    "redis" \notin Faults /\ ~(UseRedis /\ MaxCrashes > 0) =>
        \A t \in Tasks : mon[t] = "running" =>
            \E r \in Requests :
                target[r] = t /\ pc[r] \in Running \ {"running", "routed", "selected"}

\* Billing follows the answer.  record_call's errors are swallowed; yet a generate
\* request is charged a success only if it was answered 200, and every one that was
\* answered 200 is, if record_call did not fail for a reason of its own: it shares
\* the session with the run, so that an error of the database in it, or one that the
\* run has swallowed before, fails the commit and with it the answer.
BilledAsAnswered ==
    \A r \in GenReqs : pc[r] = "done" =>
        /\ "callOk" \in durable[r] => answer[r] = "200"
        /\ answer[r] = "200" => durable[r] \cap {"callOk", "callUnrecorded"} # {}

\* A run that nobody overtook between its SELECT and its first flush leaves the
\* row with its own code and verdict, columns its flushes did not set included.
FreshRunOwnsRow ==
    [][\A r \in Requests : pc[r] = "commit" /\ ~overtaken[r] /\ durable'[r] # durable[r]
            => row'[target[r]] = obj[r]]_vars

\* The handlers implement the contract: an answer is given when get_db ends.
Contract == INSTANCE PipelineContract WITH
    answer <- [r \in Requests |-> IF pc[r] = "done" THEN answer[r] ELSE "none"]
ContractSpec == Contract!Spec

\* Every request is answered: locks are waited for, and no wait is for ever.
AllAnswered == \A r \in Requests : pc[r] # "idle" ~> pc[r] = "done"

---------------------------------------------------------------------------
(* What the repository says of the program, and the program does not do *)

\* models/adk_kb.py: the executions table is the history of the pipeline's runs.
ExecutionIndexed ==
    \A r \in Requests : durable[r] # {} => "execution" \in durable[r]

\* tests/test_billing.py: failed calls of generate are recorded too, for audit; here
\* those in which the agents have failed.
FailedCallIsRecorded ==
    \A r \in GenReqs : pc[r] = "done" /\ answer[r] = "500" => "callFailed" \in durable[r]

\* services/pipeline_runner.py: a failure to log the model usage is skipped.
UsageLogIsBestEffort ==
    \A r \in events : pc[r] = "done" => answer[r] # "500"
============================================================================
