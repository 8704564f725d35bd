----------------------- MODULE PipelineRun_proofs -----------------------
(***************************************************************************)
(* Proofs about PipelineRun, for every set of requests, tasks and codes and *)
(* every combination of faults.                                            *)
(***************************************************************************)
EXTENDS PipelineRun, TLAPS

\* What flush() may leave in the variables it touches.
LEMMA FlushType ==
    ASSUME TypeOK, NEW r \in Requests, NEW o \in Row, Flush(r, o)
    PROVE  /\ lock' \in [Tasks -> Requests \cup {Nobody}]
           /\ base' \in [Requests -> Row]
           /\ obj' \in [Requests -> Row]
           /\ pending' \in [Requests -> Row]
<1> DEFINE stored == IF lock[target[r]] = r THEN pending[r] ELSE row[target[r]]
<1>1. target[r] \in Tasks /\ base[r] \in Row /\ stored \in Row
  BY DEF TypeOK
<1>2. Merge(base[r], o, stored) \in Row
  BY <1>1 DEF Merge, Row
<1>3. obj' \in [Requests -> Row] /\ base' \in [Requests -> Row]
  BY DEF Flush, TypeOK
<1>4. CASE o = base[r]
  BY <1>3, <1>4 DEF Flush, TypeOK
<1>5. CASE o # base[r]
  <2>1. lock' = [lock EXCEPT ![target[r]] = r]
    BY <1>5 DEF Flush
  <2>2. pending' = [pending EXCEPT ![r] = Merge(base[r], o, stored)]
    BY <1>5 DEF Flush
  <2> QED  BY <1>2, <1>3, <2>1, <2>2 DEF TypeOK
<1> QED  BY <1>4, <1>5

\* An aborted transaction loses its lock, nobody else's, and stays poisoned.
LEMMA AbortFacts ==
    ASSUME TypeOK, NEW r \in Requests, AbortTransaction(r)
    PROVE  /\ lock' \in [Tasks -> Requests \cup {Nobody}]
           /\ poisoned' \in [Requests -> BOOLEAN]
           /\ poisoned'[r]
           /\ \A t \in Tasks : lock'[t] = r => lock[t] = r
           /\ \A q \in Requests \ {r} :
                    /\ poisoned'[q] = poisoned[q]
                    /\ \A t \in Tasks : lock'[t] = q <=> lock[t] = q
  BY RequestsAssumption DEF AbortTransaction, TypeOK

\* The end of a transaction resets what belongs to the session.
LEMMA CloseType ==
    ASSUME TypeOK, NEW over \in SUBSET Requests, CloseSessions(over)
    PROVE  /\ pc' \in [Requests -> PCs]
           /\ lock' \in [Tasks -> Requests \cup {Nobody}]
           /\ base' \in [Requests -> Row]
           /\ obj' \in [Requests -> Row]
           /\ pending' \in [Requests -> Row]
           /\ staged' \in [Requests -> SUBSET Effects]
           /\ poisoned' \in [Requests -> BOOLEAN]
           /\ target' \in [Requests -> Tasks]
<1>1. NoRow \in Row
  BY DEF NoRow, Row, Statuses, Verdicts
<1>2. "done" \in PCs
  BY DEF PCs
<1> QED  BY <1>1, <1>2 DEF TypeOK, CloseSessions

\* The rows of the handlers are rows.
LEMMA RowFacts ==
    /\ NoRow \in Row
    /\ PendingRow \in Row
    /\ \A v \in Row, s \in Statuses : [v EXCEPT !.status = s] \in Row
    /\ \A c \in Codes \cup {NoCode}, v \in Verdicts, s \in Statuses :
            [status |-> s, code |-> c, onto |-> v] \in Row
  BY DEF NoRow, PendingRow, Row, Statuses, Verdicts

\* The type invariant is inductive.
LEMMA TypeInit == ASSUME Init PROVE TypeOK
  BY RowFacts, RequestsAssumption, DataAssumption
     DEF Init, TypeOK, PCs, Effects, Tasks, Requests

LEMMA TypeStep == ASSUME TypeOK, [Next]_vars PROVE TypeOK'
<1> USE DEF TypeOK, db, outside, session
<1>1. CASE UNCHANGED vars
  BY <1>1 DEF vars
<1>2. ASSUME NEW t \in Tasks, CreateTask(t)  PROVE TypeOK'
  BY <1>2, RowFacts DEF CreateTask
<1>3. CASE Crash
  <2> DEFINE cut == {r \in Requests : pc[r] \notin {"idle", "done"}}
  <2>1. CloseSessions(cut)
    BY <1>3 DEF Crash
  <2>2. crashes' \in 0 .. MaxCrashes
    BY <1>3, DataAssumption DEF Crash
  <2>3. answer' \in [Requests -> {"none", "200", "400", "404", "500", "lost"}]
    BY <1>3 DEF Crash
  <2>4. mon' \in [Tasks -> {"none", "running", "completed", "failed"}]
    BY <1>3 DEF Crash
  <2> QED  BY <1>3, <2>1, <2>2, <2>3, <2>4, CloseType DEF Crash
<1>4. ASSUME NEW r \in Requests, Step(r)  PROVE TypeOK'
  <2> USE DEF Goto, Raise, Throw, PCs, Running, Leaving
  <2>1. CASE LoadTask(r)
    BY <2>1 DEF LoadTask
  <2>2. CASE InsertTask(r)
    BY <2>2, RowFacts, FlushType DEF InsertTask
  <2>3. CASE SetRunning(r)
    BY <2>3, RowFacts, FlushType DEF SetRunning, Statuses
  <2>4. CASE StartFails(r)
    BY <2>4, AbortFacts DEF StartFails
  <2>5. CASE CheckLanguage(r)
    BY <2>5 DEF CheckLanguage
  <2>21. CASE SearchKnowledge(r)
    BY <2>21, AbortFacts DEF SearchKnowledge, FindSimilar
  <2>6. CASE TrackEnqueue(r)
    BY <2>6 DEF TrackEnqueue, Track
  <2>7. CASE Execute(r)
    <3>1. UNCHANGED <<db, outside, session, overtaken, crashes>>
      BY <2>7 DEF Execute
    <3>2. pc' \in [Requests -> PCs]
      BY <2>7 DEF Execute
    <3>3. answer' \in [Requests -> {"none", "200", "400", "404", "500", "lost"}]
      BY <2>7 DEF Execute
    <3> QED  BY <3>1, <3>2, <3>3
  <2>8. CASE TrackReview(r)
    BY <2>8 DEF TrackReview, Track
  <2>9. CASE Validate(r)
    BY <2>9, RowFacts, FlushType DEF Validate, Statuses, Verdicts, Effects
  <2>10. CASE ValidateFails(r)
    BY <2>10, AbortFacts DEF ValidateFails
  <2>11. CASE RecordUsage(r)
    <3>1. staged[r] \cup {"modelUsage"} \in SUBSET Effects
      BY DEF Effects
    <3>2. staged[r] \cup {"modelUsage"} \cup {"newBudget"} \in SUBSET Effects
      BY DEF Effects
    <3>3. staged' \in [Requests -> SUBSET Effects]
      <4>1. CASE budget
        BY <2>11, <3>1, <4>1 DEF RecordUsage
      <4>2. CASE ~budget
        BY <2>11, <3>1, <3>2, <4>2 DEF RecordUsage
      <4> QED  BY <4>1, <4>2
    <3> QED  BY <2>11, <3>3, AbortFacts DEF RecordUsage
  <2>12. CASE IndexExecution(r)
    BY <2>12 DEF IndexExecution, Effects
  <2>13. CASE PublishEvent(r)
    BY <2>13 DEF PublishEvent
  <2>14. CASE RecordCompletion(r)
    BY <2>14 DEF RecordCompletion, Track
  <2>15. CASE RecordFailure(r)
    <3>1. [obj[r] EXCEPT !.status = "failed"] \in Row
      BY RowFacts DEF Statuses
    <3>2. /\ lock' \in [Tasks -> Requests \cup {Nobody}] /\ base' \in [Requests -> Row]
          /\ obj' \in [Requests -> Row] /\ pending' \in [Requests -> Row]
          /\ poisoned' \in [Requests -> BOOLEAN]
      <4>1. CASE Flush(r, [obj[r] EXCEPT !.status = "failed"]) /\ UNCHANGED poisoned
        BY <3>1, <4>1, FlushType
      <4>2. CASE AbortTransaction(r) /\ UNCHANGED <<base, obj, pending>>
        BY <4>2, AbortFacts
      <4> QED  BY <2>15, <4>1, <4>2 DEF RecordFailure
    <3>3. /\ mon' \in [Tasks -> {"none", "running", "completed", "failed"}]
          /\ pc' \in [Requests -> PCs]
          /\ answer' \in [Requests -> {"none", "200", "400", "404", "500", "lost"}]
      BY <2>15 DEF RecordFailure
    <3> QED  BY <2>15, <3>2, <3>3 DEF RecordFailure
  <2>16. CASE Return(r)
    BY <2>16 DEF Return
  <2>17. CASE RecordCall(r)
    <3>1. staged' \in [Requests -> SUBSET Effects]
      BY <2>17 DEF RecordCall, Effects
    <3>2. poisoned' \in [Requests -> BOOLEAN] /\ lock' \in [Tasks -> Requests \cup {Nobody}]
      BY <2>17, AbortFacts DEF RecordCall
    <3>3. pc' \in [Requests -> PCs] /\ answer' = answer
      BY <2>17 DEF RecordCall
    <3> QED  BY <2>17, <3>1, <3>2, <3>3 DEF RecordCall
  <2>18. CASE Commit(r)
    BY <2>18, CloseType DEF Commit
  <2>19. CASE CommitFails(r)
    BY <2>19, CloseType DEF CommitFails
  <2>20. CASE Rollback(r)
    BY <2>20, CloseType DEF Rollback
  <2> QED  BY <1>4, <2>1, <2>2, <2>3, <2>4, <2>5, <2>6, <2>7, <2>8, <2>9, <2>10,
              <2>11, <2>12, <2>13, <2>14, <2>15, <2>16, <2>17, <2>18, <2>19, <2>20,
              <2>21
           DEF Step, Progress
<1>5. CASE Quiet
  BY <1>5 DEF Quiet, vars
<1> QED  BY <1>1, <1>2, <1>3, <1>4, <1>5 DEF Next

\* Every variable keeps the type the code gives it, in all reachable states.
THEOREM TypeCorrect == Spec => []TypeOK
<1>1. Init => TypeOK
  BY TypeInit
<1>2. TypeOK /\ [Next]_vars => TypeOK'
  BY TypeStep
<1> QED  BY <1>1, <1>2, PTL DEF Spec

---------------------------------------------------------------------------
Good(q) == TargetInv(q) /\ LockInv(q) /\ SessionInv(q) /\ AnswerInv(q)

\* A step of another handler leaves q's invariant alone when it leaves q's own
\* variables and locks alone and either keeps q's row or marks q overtaken.
LEMMA OtherKept ==
    ASSUME TypeOK, NEW q \in Requests, Good(q),
           target' = target,
           pc'[q] = pc[q], base'[q] = base[q], obj'[q] = obj[q],
           pending'[q] = pending[q], staged'[q] = staged[q], answer'[q] = answer[q],
           poisoned'[q] = poisoned[q],
           overtaken[q] => overtaken'[q],
           \A t \in Tasks : lock'[t] = q <=> lock[t] = q,
           \/ row'[target[q]] = row[target[q]]
           \/ q \in RunReqs /\ (pc[q] = "loaded" => overtaken'[q])
    PROVE  Good(q)'
<1>1. target[q] \in Tasks /\ (q \notin RunReqs => target[q] = q)
  BY DEF TypeOK, Good, TargetInv
<1>2. Succeeding(q)' <=> Succeeding(q)
  BY DEF Succeeding
<1>3. TargetInv(q)' /\ AnswerInv(q)'
  BY DEF Good, TargetInv, AnswerInv
<1>4. LockInv(q)'
  BY <1>1, <1>2 DEF Good, LockInv
<1>5. SessionInv(q)'
  BY <1>1, <1>2 DEF Good, SessionInv
<1> QED  BY <1>3, <1>4, <1>5 DEF Good

\* flush() of handler r: the lock of its row is its own afterwards, no other
\* handler's locks or session change.
LEMMA FlushFacts ==
    ASSUME TypeOK, NEW r \in Requests, NEW o \in Row, Flush(r, o)
    PROVE  /\ obj'[r] = o /\ base'[r] = o
           /\ o # base[r] => /\ lock'[target[r]] = r
                             /\ lock[target[r]] \in {r, Nobody}
                             /\ pending'[r] = Merge(base[r], o,
                                    IF lock[target[r]] = r THEN pending[r] ELSE row[target[r]])
           /\ o = base[r] => lock' = lock /\ pending' = pending
           /\ \A t \in Tasks : lock'[t] = r <=> (lock[t] = r \/ (o # base[r] /\ t = target[r]))
           /\ \A q \in Requests \ {r} :
                    /\ obj'[q] = obj[q] /\ base'[q] = base[q] /\ pending'[q] = pending[q]
                    /\ \A t \in Tasks : lock'[t] = q <=> lock[t] = q
  BY RequestsAssumption DEF Flush, TypeOK

\* Merging over a row that agrees with what was last seen gives the object; the
\* status is in any case the object's, when the flush changes it.
LEMMA MergeFacts ==
    ASSUME NEW seen \in Row, NEW o \in Row, NEW stored \in Row
    PROVE  /\ stored = seen => Merge(seen, o, stored) = o
           /\ o.status # seen.status => Merge(seen, o, stored).status = o.status
           /\ Merge(seen, o, stored) \in Row
  BY DEF Merge, Row

\* The end of the transactions of the handlers in over, as the others see it.
LEMMA CloseFacts ==
    ASSUME TypeOK, NEW over \in SUBSET Requests, CloseSessions(over)
    PROVE  /\ target' = target
           /\ \A q \in Requests \ over :
                    /\ pc'[q] = pc[q] /\ base'[q] = base[q] /\ obj'[q] = obj[q]
                    /\ poisoned'[q] = poisoned[q]
                    /\ pending'[q] = pending[q] /\ staged'[q] = staged[q]
                    /\ \A t \in Tasks : lock'[t] = q <=> lock[t] = q
           /\ \A q \in over :
                    /\ pc'[q] = "done"
                    /\ \A t \in Tasks : lock'[t] # q
  BY RequestsAssumption DEF CloseSessions, TypeOK

\* A handler that is done has nothing left to keep but its target.
LEMMA DoneGood ==
    ASSUME NEW q \in Requests, TargetInv(q), target' = target, pc'[q] = "done",
           \A t \in Tasks : lock'[t] # q
    PROVE  Good(q)'
  BY DEF Good, TargetInv, LockInv, SessionInv, AnswerInv, Succeeding, Running

LEMMA HandlerInit == ASSUME Init PROVE HandlerInv
<1> USE RequestsAssumption DEF Init, Requests, Tasks
<1>1. CommittedSettled /\ \A t \in Tasks : row[t].status = "absent" => row[t] = NoRow
  BY DEF CommittedSettled, NoRow
<1>2. ASSUME NEW r \in Requests
      PROVE  TargetInv(r) /\ LockInv(r) /\ SessionInv(r) /\ AnswerInv(r)
  BY DEF TargetInv, LockInv, SessionInv, AnswerInv, Succeeding, Running
<1> QED  BY <1>1, <1>2 DEF HandlerInv

\* A handler's own step, one case per action.
LEMMA OwnStep ==
    ASSUME TypeOK, HandlerInv, NEW r \in Requests, Step(r)
    PROVE  Good(r)'
<1> USE DEF Good
<1>1. TargetInv(r) /\ LockInv(r) /\ SessionInv(r) /\ AnswerInv(r)
  BY DEF HandlerInv
<1>2. target[r] \in Tasks /\ base[r] \in Row /\ obj[r] \in Row /\ pending[r] \in Row
      /\ row[target[r]] \in Row /\ (r \notin RunReqs => target[r] = r)
  BY <1>1 DEF TypeOK, TargetInv
<1>3. target' = target => TargetInv(r)'
  BY <1>1 DEF TargetInv
<1> USE DEF Goto, Raise, Throw, Running, Succeeding
<1>4. CASE LoadTask(r)
  <2>1. row[target[r]] # NoRow => row[target[r]].status \in {"pending", "completed"}
    BY <1>2 DEF HandlerInv, CommittedSettled
  <2>2. TargetInv(r)' /\ LockInv(r)' /\ AnswerInv(r)'
    <3>1. /\ lock' = lock /\ target' = target
          /\ \/ pc'[r] = "loaded"
             \/ pc'[r] = "abort" /\ answer'[r] = "404"
      BY <1>4, RequestsAssumption DEF LoadTask, TypeOK, db
    <3>2. \A t \in Tasks : lock[t] # r
      BY <1>4, <1>1 DEF LoadTask, LockInv
    <3> QED  BY <1>3, <3>1, <3>2 DEF LockInv, AnswerInv
  <2>3. SessionInv(r)'
    BY <1>4, <1>1, <1>2, <2>1 DEF LoadTask, TypeOK, db, SessionInv
  <2> QED  BY <2>2, <2>3
<1>5. CASE InsertTask(r)
  <2>1. r \notin RunReqs /\ target[r] = r /\ target' = target /\ row' = row
    BY <1>5, <1>2, RequestsAssumption DEF InsertTask
  <2>2. base[r] = NoRow /\ row[r] = NoRow /\ lock[r] # r /\ PendingRow # NoRow
    BY <1>5, <1>1, <1>2, <2>1 DEF InsertTask, SessionInv, LockInv, PendingRow, NoRow
  <2>3. /\ obj'[r] = PendingRow /\ base'[r] = PendingRow /\ lock'[r] = r
        /\ pending'[r] = Merge(base[r], PendingRow, row[r])
        /\ \A t \in Tasks : lock'[t] = r => t = target[r]
    BY <1>5, <1>1, <1>2, <2>1, <2>2, RowFacts, FlushFacts DEF InsertTask, LockInv
  <2>4. pending'[r] = PendingRow
    BY <2>2, <2>3, RowFacts, MergeFacts
  <2>5. pc'[r] = "loaded" /\ answer' = answer /\ ~poisoned'[r]
    BY <1>1, <1>5 DEF InsertTask, SessionInv, TypeOK
  <2>6. PendingRow.status = "pending"
    BY DEF PendingRow
  <2>7. LockInv(r)' /\ AnswerInv(r)'
    BY <2>1, <2>3, <2>5 DEF LockInv, AnswerInv
  <2>8. SessionInv(r)'
    BY <2>1, <2>3, <2>4, <2>5, <2>6 DEF SessionInv
  <2> QED  BY <1>3, <2>1, <2>7, <2>8
<1>6. CASE SetRunning(r)
  <2> DEFINE o == [obj[r] EXCEPT !.status = "running"]
             stored == IF lock[target[r]] = r THEN pending[r] ELSE row[target[r]]
  <2>1. obj[r] = base[r] /\ obj[r].status \in {"pending", "completed"}
    BY <1>6, <1>1 DEF SetRunning, SessionInv
  <2>2. o \in Row /\ o.status = "running" /\ o # base[r] /\ stored \in Row
    <3>1. o \in Row /\ o.status = "running"
      BY <1>2, RowFacts DEF Row, Statuses
    <3>2. o # base[r]
      BY <2>1, <3>1
    <3>3. stored \in Row
      BY <1>2
    <3> QED  BY <3>1, <3>2, <3>3
  <2>3. /\ obj'[r] = o /\ base'[r] = o /\ lock'[target[r]] = r
        /\ pending'[r] = Merge(base[r], o, stored)
        /\ \A t \in Tasks : lock'[t] = r => t = target[r]
    <3> HIDE DEF o, stored
    <3>1. Flush(r, o)
      BY <1>6 DEF SetRunning, o
    <3> QED  BY <1>1, <1>2, <2>2, <3>1, FlushFacts DEF LockInv, stored
  <2>4. ~overtaken[r] => stored = base[r]
    BY <1>6, <1>1, <1>2 DEF SetRunning, SessionInv, LockInv
  <2>5. ~overtaken[r] => pending'[r] = o
    BY <1>2, <2>2, <2>3, <2>4, MergeFacts
  <2>6. pc'[r] = "running" /\ target' = target /\ overtaken' = overtaken /\ answer' = answer
    BY <1>6 DEF SetRunning, TypeOK
  <2>7. LockInv(r)' /\ AnswerInv(r)'
    BY <2>3, <2>6 DEF LockInv, AnswerInv
  <2>8. SessionInv(r)'
    <3> HIDE DEF o
    <3> QED  BY <2>2, <2>3, <2>5, <2>6 DEF SessionInv
  <2> QED  BY <1>3, <2>6, <2>7, <2>8
<1>7. CASE StartFails(r)
  BY <1>7, <1>1, <1>2, <1>3, AbortFacts
     DEF StartFails, TypeOK, outside, LockInv, SessionInv, AnswerInv
<1>8. CASE CheckLanguage(r)
  BY <1>8, <1>1, <1>2, <1>3
     DEF CheckLanguage, TypeOK, db, outside, session, LockInv, SessionInv, AnswerInv
<1>22. CASE SearchKnowledge(r)
  BY <1>22, <1>1, <1>2, <1>3, AbortFacts
     DEF SearchKnowledge, FindSimilar, TypeOK, outside, LockInv, SessionInv, AnswerInv
<1>9. CASE TrackEnqueue(r)
  BY <1>9, <1>1, <1>2, <1>3
     DEF TrackEnqueue, Track, TypeOK, db, session, LockInv, SessionInv, AnswerInv
<1>10. CASE Execute(r)
  BY <1>10, <1>1, <1>2, <1>3
     DEF Execute, TypeOK, db, outside, session, LockInv, SessionInv, AnswerInv
<1>11. CASE TrackReview(r)
  BY <1>11, <1>1, <1>2, <1>3
     DEF TrackReview, Track, TypeOK, db, session, LockInv, SessionInv, AnswerInv
<1>12. CASE Validate(r)
  <2>1. PICK code \in Codes \cup {NoCode}, verdict \in {"pass", "fail"} :
            Flush(r, [status |-> "completed", code |-> code, onto |-> verdict])
    BY <1>12 DEF Validate
  <2> DEFINE o == [status |-> "completed", code |-> code, onto |-> verdict]
  <2>2. o \in Row /\ o.status = "completed"
    BY RowFacts DEF Statuses, Verdicts
  <2>3. obj[r] = base[r] /\ obj[r].status = "running" /\ lock[target[r]] = r
        /\ (~overtaken[r] => pending[r] = base[r])
    BY <1>12, <1>1 DEF Validate, SessionInv, LockInv
  <2> HIDE DEF o
  <2>4. /\ obj'[r] = o /\ base'[r] = o /\ lock'[target[r]] = r
        /\ pending'[r] = Merge(base[r], o, pending[r])
        /\ \A t \in Tasks : lock'[t] = r => t = target[r]
    BY <1>1, <1>2, <2>1, <2>2, <2>3, FlushFacts DEF LockInv, o
  <2>5. pending'[r].status = "completed" /\ (~overtaken[r] => pending'[r] = o)
    BY <1>2, <2>2, <2>3, <2>4, MergeFacts
  <2>6. /\ pc'[r] = "reviewed" /\ target' = target /\ overtaken' = overtaken
        /\ answer' = answer /\ "review" \in staged'[r]
    BY <1>12 DEF Validate, TypeOK
  <2>7. LockInv(r)' /\ AnswerInv(r)'
    BY <2>4, <2>6 DEF LockInv, AnswerInv
  <2>8. SessionInv(r)'
    BY <2>2, <2>4, <2>5, <2>6 DEF SessionInv
  <2> QED  BY <1>3, <2>6, <2>7, <2>8
<1>13. CASE ValidateFails(r)
  BY <1>13, <1>1, <1>2, <1>3, AbortFacts
     DEF ValidateFails, TypeOK, outside, LockInv, SessionInv, AnswerInv
<1>14. CASE RecordUsage(r)
  BY <1>14, <1>1, <1>2, <1>3, AbortFacts
     DEF RecordUsage, TypeOK, outside, LockInv, SessionInv, AnswerInv
<1>15. CASE IndexExecution(r)
  BY <1>15, <1>1, <1>2, <1>3
     DEF IndexExecution, TypeOK, db, outside, LockInv, SessionInv, AnswerInv
<1>16. CASE PublishEvent(r)
  BY <1>16, <1>1, <1>2, <1>3
     DEF PublishEvent, TypeOK, db, session, LockInv, SessionInv, AnswerInv
<1>17. CASE RecordCompletion(r)
  BY <1>17, <1>1, <1>2, <1>3
     DEF RecordCompletion, Track, TypeOK, db, session, LockInv, SessionInv, AnswerInv
<1>18. CASE RecordFailure(r)
  <2>1. answer[r] \in {"400", "500"}
    BY <1>18, <1>1 DEF RecordFailure, AnswerInv
  <2>2. /\ pc'[r] = IF r \in GenReqs THEN "finally" ELSE "abort"
        /\ answer'[r] \in {"400", "500"} /\ target' = target
    BY <1>18, <2>1 DEF RecordFailure, TypeOK
  <2>3. \A t \in Tasks : lock'[t] = r => t = target[r]
    <3> DEFINE o == [obj[r] EXCEPT !.status = "failed"]
    <3>1. o \in Row
      BY <1>2, RowFacts DEF Statuses
    <3>2. CASE Flush(r, o)
      <4> HIDE DEF o
      <4> QED  BY <1>1, <3>1, <3>2, FlushFacts DEF LockInv
    <3>3. CASE AbortTransaction(r)
      BY <1>1, <3>3, AbortFacts DEF LockInv
    <3> QED  BY <1>18, <3>2, <3>3 DEF RecordFailure
  <2>4. LockInv(r)' /\ AnswerInv(r)'
    BY <2>2, <2>3 DEF LockInv, AnswerInv
  <2>5. SessionInv(r)'
    BY <2>2 DEF SessionInv
  <2> QED  BY <1>3, <2>2, <2>4, <2>5
<1>19. CASE Return(r)
  BY <1>19, <1>1, <1>2, <1>3
     DEF Return, TypeOK, db, session, LockInv, SessionInv, AnswerInv
<1>20. CASE RecordCall(r)
  BY <1>20, <1>1, <1>2, <1>3, AbortFacts
     DEF RecordCall, TypeOK, outside, LockInv, SessionInv, AnswerInv
<1>21. CASE Commit(r) \/ CommitFails(r) \/ Rollback(r)
  <2>1. CloseSessions({r})
    BY <1>21 DEF Commit, CommitFails, Rollback
  <2> QED  BY <1>1, <2>1, CloseFacts, DoneGood
<1> QED  BY <1>4, <1>5, <1>6, <1>7, <1>8, <1>9, <1>10, <1>11, <1>12, <1>13, <1>14,
            <1>15, <1>16, <1>17, <1>18, <1>19, <1>20, <1>21, <1>22 DEF Step, Progress

\* A handler's step as the other handlers see it.
LEMMA OthersStep ==
    ASSUME TypeOK, HandlerInv, NEW r \in Requests, Step(r), NEW q \in Requests \ {r}
    PROVE  Good(q)'
<1> USE DEF Goto, Raise, Throw
<1>1. Good(q) /\ q \in Requests /\ TargetInv(r)
  BY DEF HandlerInv, Good
<1>2. target[q] \in Tasks /\ target[r] \in Tasks /\ base[r] \in Row /\ obj[r] \in Row
  BY DEF TypeOK
<1>3. CASE InsertTask(r) \/ SetRunning(r) \/ Validate(r)
  <2>1. PICK o \in Row : Flush(r, o)
    BY <1>2, <1>3, RowFacts DEF InsertTask, SetRunning, Validate, Statuses, Verdicts
  <2>2. /\ target' = target /\ row' = row /\ overtaken' = overtaken
        /\ pc'[q] = pc[q] /\ staged'[q] = staged[q] /\ answer'[q] = answer[q]
        /\ poisoned'[q] = poisoned[q]
    BY <1>3 DEF InsertTask, SetRunning, Validate, TypeOK
  <2>3. /\ obj'[q] = obj[q] /\ base'[q] = base[q] /\ pending'[q] = pending[q]
        /\ \A t \in Tasks : lock'[t] = q <=> lock[t] = q
    BY <2>1, FlushFacts
  <2> QED  BY <1>1, <2>2, <2>3, OtherKept
<1>4. CASE RecordFailure(r)
  <2>1. /\ target' = target /\ row' = row /\ overtaken' = overtaken
        /\ pc'[q] = pc[q] /\ staged'[q] = staged[q] /\ answer'[q] = answer[q]
    BY <1>4 DEF RecordFailure, TypeOK
  <2>2. [obj[r] EXCEPT !.status = "failed"] \in Row
    BY <1>2, RowFacts DEF Statuses
  <2>3. /\ obj'[q] = obj[q] /\ base'[q] = base[q] /\ pending'[q] = pending[q]
        /\ poisoned'[q] = poisoned[q]
        /\ \A t \in Tasks : lock'[t] = q <=> lock[t] = q
    <3>1. CASE Flush(r, [obj[r] EXCEPT !.status = "failed"]) /\ UNCHANGED poisoned
      BY <2>2, <3>1, FlushFacts
    <3>2. CASE AbortTransaction(r) /\ UNCHANGED <<base, obj, pending>>
      BY <3>2, AbortFacts
    <3> QED  BY <1>4, <3>1, <3>2 DEF RecordFailure
  <2> QED  BY <1>1, <2>1, <2>3, OtherKept
<1>5. CASE CommitFails(r) \/ Rollback(r)
  <2>1. CloseSessions({r}) /\ answer'[q] = answer[q] /\ overtaken' = overtaken /\ row' = row
    BY <1>5 DEF CommitFails, Rollback, TypeOK
  <2> QED  BY <1>1, <2>1, CloseFacts, OtherKept
<1>6. CASE Commit(r)
  <2>1. CloseSessions({r}) /\ answer'[q] = answer[q]
    BY <1>6 DEF Commit, TypeOK
  <2>2. overtaken'[q] = (overtaken[q] \/ (pc[q] = "loaded" /\ target[q] = target[r]))
    BY <1>6 DEF Commit, TypeOK
  <2>3. target[q] # target[r] => row'[target[q]] = row[target[q]]
    BY <1>2, <1>6 DEF Commit, TypeOK
  <2>4. target[q] = target[r] => q \in RunReqs
    BY <1>1, RequestsAssumption DEF Good, TargetInv
  <2>5. /\ target' = target /\ pc'[q] = pc[q] /\ base'[q] = base[q] /\ obj'[q] = obj[q]
        /\ pending'[q] = pending[q] /\ staged'[q] = staged[q] /\ poisoned'[q] = poisoned[q]
        /\ \A t \in Tasks : lock'[t] = q <=> lock[t] = q
    BY <2>1, CloseFacts
  <2>6. \/ row'[target[q]] = row[target[q]]
        \/ q \in RunReqs /\ (pc[q] = "loaded" => overtaken'[q])
    BY <2>2, <2>3, <2>4
  <2>7. overtaken[q] => overtaken'[q]
    BY <2>2
  <2> QED  BY <1>1, <2>1, <2>5, <2>6, <2>7, OtherKept
<1>7. CASE LoadTask(r) \/ CheckLanguage(r) \/ TrackEnqueue(r) \/ Execute(r)
           \/ TrackReview(r) \/ IndexExecution(r) \/ PublishEvent(r)
           \/ RecordCompletion(r) \/ Return(r)
  <2>1. /\ target' = target /\ row' = row /\ lock' = lock /\ overtaken' = overtaken
        /\ pc'[q] = pc[q] /\ base'[q] = base[q] /\ obj'[q] = obj[q] /\ poisoned' = poisoned
        /\ pending'[q] = pending[q] /\ staged'[q] = staged[q] /\ answer'[q] = answer[q]
    BY <1>7 DEF LoadTask, CheckLanguage, TrackEnqueue, Execute, TrackReview, IndexExecution,
                PublishEvent, RecordCompletion, Return, Track, TypeOK, db, outside, session
  <2> QED  BY <1>1, <2>1, OtherKept
<1>8. CASE StartFails(r) \/ SearchKnowledge(r) \/ ValidateFails(r) \/ RecordUsage(r)
           \/ RecordCall(r)
  <2>1. /\ target' = target /\ row' = row /\ overtaken' = overtaken
        /\ pc'[q] = pc[q] /\ base'[q] = base[q] /\ obj'[q] = obj[q]
        /\ pending'[q] = pending[q] /\ staged'[q] = staged[q] /\ answer'[q] = answer[q]
    BY <1>8 DEF StartFails, SearchKnowledge, FindSimilar, ValidateFails, RecordUsage,
      RecordCall,
                TypeOK, outside
  <2>2. AbortTransaction(r) \/ UNCHANGED <<lock, poisoned>>
    BY <1>8 DEF StartFails, SearchKnowledge, FindSimilar, ValidateFails, RecordUsage,
      RecordCall
  <2>3. /\ poisoned'[q] = poisoned[q]
        /\ \A t \in Tasks : lock'[t] = q <=> lock[t] = q
    BY <2>2, AbortFacts
  <2> QED  BY <1>1, <2>1, <2>3, OtherKept
<1> QED  BY <1>3, <1>4, <1>5, <1>6, <1>7, <1>8 DEF Step, Progress

\* A handler writes nothing for good before it commits.
LEMMA OnlyCommits ==
    ASSUME [Next]_vars
    PROVE  \/ row' = row /\ durable' = durable
           \/ \E t \in Tasks : CreateTask(t) /\ durable' = durable
           \/ \E r \in Requests : Commit(r)
<1> DEFINE Kept == row' = row /\ durable' = durable
<1> USE DEF db
<1>1. ASSUME NEW r \in Requests, Step(r)
      PROVE  Kept \/ Commit(r)
  <2>1. CASE LoadTask(r) \/ InsertTask(r) \/ SetRunning(r) \/ CheckLanguage(r) \/ SearchKnowledge(r)
    BY <2>1 DEF LoadTask, InsertTask, SetRunning, CheckLanguage, SearchKnowledge
  <2>2. CASE TrackEnqueue(r) \/ Execute(r) \/ TrackReview(r) \/ Validate(r) \/ ValidateFails(r)
    BY <2>2 DEF TrackEnqueue, Execute, TrackReview, Validate, ValidateFails
  <2>3. CASE RecordUsage(r) \/ IndexExecution(r) \/ PublishEvent(r) \/ RecordCompletion(r)
    BY <2>3 DEF RecordUsage, IndexExecution, PublishEvent, RecordCompletion
  <2>4. CASE RecordFailure(r) \/ Return(r) \/ RecordCall(r)
    BY <2>4 DEF RecordFailure, Return, RecordCall
  <2>5. CASE CommitFails(r) \/ Rollback(r) \/ StartFails(r)
    BY <2>5 DEF CommitFails, Rollback, StartFails
  <2> QED  BY <1>1, <2>1, <2>2, <2>3, <2>4, <2>5 DEF Step, Progress
<1>2. ASSUME NEW t \in Tasks, CreateTask(t) PROVE durable' = durable
  BY <1>2 DEF CreateTask
<1>3. CASE Crash
  BY <1>3 DEF Crash
<1>4. CASE UNCHANGED vars
  BY <1>4 DEF vars
<1> QED  BY <1>1, <1>2, <1>3, <1>4 DEF Next, Quiet

\* Only a commit and POST /tasks change committed rows, to settled ones.
LEMMA RowsStep ==
    ASSUME TypeOK, HandlerInv, [Next]_vars
    PROVE  /\ CommittedSettled'
           /\ \A t \in Tasks : row'[t].status = "absent" => row'[t] = NoRow
<1>1. CASE row' = row
  BY <1>1 DEF HandlerInv, CommittedSettled
<1>2. CASE \E t \in Tasks : CreateTask(t)
  BY <1>2 DEF CreateTask, HandlerInv, CommittedSettled, PendingRow, TypeOK
<1>3. ASSUME NEW r \in Requests, Commit(r)
      PROVE  /\ CommittedSettled'
             /\ \A t \in Tasks : row'[t].status = "absent" => row'[t] = NoRow
  <2>1. pending[r].status = "completed"
    BY <1>3 DEF Commit, HandlerInv, SessionInv, Succeeding
  <2>2. row' = [row EXCEPT ![target[r]] = pending[r]]
    BY <1>3 DEF Commit
  <2> QED  BY <2>1, <2>2 DEF HandlerInv, CommittedSettled, TypeOK
<1>4. \/ row' = row
      \/ \E t \in Tasks : CreateTask(t)
      \/ \E r \in Requests : Commit(r)
  BY OnlyCommits
<1> QED  BY <1>1, <1>2, <1>3, <1>4

LEMMA HandlerStep == ASSUME TypeOK, HandlerInv, [Next]_vars PROVE HandlerInv'
<1>1. ASSUME NEW q \in Requests PROVE Good(q)'
  <2>1. Good(q)
    BY DEF HandlerInv, Good
  <2>2. ASSUME NEW r \in Requests, Step(r) PROVE Good(q)'
    BY <2>2, OwnStep, OthersStep
  <2>3. ASSUME NEW t \in Tasks, CreateTask(t) PROVE Good(q)'
    <3>1. row[t] = NoRow /\ t \in Registered /\ row' = [row EXCEPT ![t] = PendingRow]
      BY <2>3 DEF CreateTask
    <3>2. target[q] # t => row'[target[q]] = row[target[q]]
      BY <3>1 DEF TypeOK
    <3>3. target[q] = t => q \in RunReqs
      BY <2>1, <3>1, RequestsAssumption DEF Good, TargetInv
    <3>4. target[q] = t /\ pc[q] = "loaded" => overtaken[q]
      <4>1. NoRow.status = "absent"
        BY DEF NoRow
      <4> QED  BY <2>1, <3>1, <3>3, <4>1 DEF Good, SessionInv
    <3> QED  BY <2>1, <2>3, <3>2, <3>3, <3>4, OtherKept DEF CreateTask, session
  <2>4. CASE Crash
    <3> DEFINE cut == {r \in Requests : pc[r] \notin {"idle", "done"}}
    <3>1. CloseSessions(cut) /\ row' = row /\ overtaken' = overtaken
      BY <2>4 DEF Crash
    <3>2. CASE q \in cut
      <4> HIDE DEF cut
      <4>1. cut \in SUBSET Requests
        BY DEF cut
      <4> QED  BY <2>1, <3>1, <3>2, <4>1, CloseFacts, DoneGood DEF Good
    <3>3. CASE q \notin cut
      <4>1. answer'[q] = answer[q]
        BY <2>4, <3>3 DEF Crash
      <4> HIDE DEF cut
      <4>2. cut \in SUBSET Requests
        BY DEF cut
      <4> QED  BY <2>1, <3>1, <3>3, <4>1, <4>2, CloseFacts, OtherKept
    <3> QED  BY <3>2, <3>3
  <2>5. CASE UNCHANGED vars
    BY <2>1, <2>5, OtherKept DEF vars, db, session
  <2> QED  BY <2>2, <2>3, <2>4, <2>5 DEF Next, Quiet
<1> QED  BY <1>1, RowsStep DEF HandlerInv, Good

\* The handlers' inductive invariant.
THEOREM HandlersInvariant == Spec => [](TypeOK /\ HandlerInv)
<1>1. Init => TypeOK /\ HandlerInv
  BY TypeInit, HandlerInit
<1>2. TypeOK /\ HandlerInv /\ [Next]_vars => (TypeOK /\ HandlerInv)'
  BY TypeStep, HandlerStep
<1> QED  BY <1>1, <1>2, PTL DEF Spec

\* No committed task is running or failed, whatever fails or crashes.
THEOREM Settled == Spec => []CommittedSettled
<1>1. HandlerInv => CommittedSettled
  BY DEF HandlerInv
<1> QED  BY <1>1, HandlersInvariant, PTL

\* Two handlers never run the same task at a time.
THEOREM MutualExclusion == Spec => []OneRunPerTask
<1>1. HandlerInv => OneRunPerTask
  BY DEF HandlerInv, OneRunPerTask, LockInv, Succeeding
<1> QED  BY <1>1, HandlersInvariant, PTL

\* A commit by a handler nobody overtook leaves its own code and verdict.
THEOREM FreshRun == Spec => FreshRunOwnsRow
<1> DEFINE A == \A r \in Requests : pc[r] = "commit" /\ ~overtaken[r] /\ durable'[r] # durable[r]
                    => row'[target[r]] = obj[r]
<1>1. TypeOK /\ HandlerInv /\ [Next]_vars => A
  <2> SUFFICES ASSUME TypeOK, HandlerInv, [Next]_vars, NEW r \in Requests,
                      pc[r] = "commit", ~overtaken[r], durable'[r] # durable[r]
               PROVE  row'[target[r]] = obj[r]
    OBVIOUS
  <2>1. \E q \in Requests : Commit(q)
    BY OnlyCommits
  <2>2. Commit(r)
    <3>1. PICK q \in Requests : Commit(q)
      BY <2>1
    <3>2. q # r => durable'[r] = durable[r]
      BY <3>1 DEF Commit, TypeOK
    <3> QED  BY <3>1, <3>2
  <2>3. pending[r] = obj[r]
    BY DEF HandlerInv, SessionInv, Succeeding
  <2> QED  BY <2>2, <2>3 DEF Commit, TypeOK
<1>2. TypeOK /\ HandlerInv /\ [Next]_vars => [A]_vars
  BY <1>1
<1> QED  BY <1>2, HandlersInvariant, PTL DEF Spec, FreshRunOwnsRow

---------------------------------------------------------------------------
(* The monitor *)

\* A handler past its first track, whose snapshot may say running.
Tracked == Running \ {"running", "routed", "selected"}

\* The monitor's snapshots stay final while handlers come and go: the step that
\* takes a handler out of the try block is the one that writes a final status.
LEMMA MonitorStep ==
    ASSUME TypeOK, HandlerInv, MonitorSettles, [Next]_vars
    PROVE  MonitorSettles'
<1> SUFFICES ASSUME "redis" \notin Faults, ~(UseRedis /\ MaxCrashes > 0),
                    NEW t \in Tasks, mon'[t] = "running"
             PROVE  \E r \in Requests : target'[r] = t /\ pc'[r] \in Tracked
  BY DEF MonitorSettles, Tracked
<1> DEFINE Witness(r) == target[r] = t /\ pc[r] \in Tracked
<1>1. mon[t] = "running" => \E r \in Requests : Witness(r)
  BY DEF MonitorSettles, Tracked
<1>2. ASSUME NEW r \in Requests, Step(r)
      PROVE  \E w \in Requests : target'[w] = t /\ pc'[w] \in Tracked
  <2> USE DEF Goto, Raise, Throw, Tracked, Running
  <2>1. target' = target /\ \A q \in Requests \ {r} : pc'[q] = pc[q]
    <3>1. CASE Commit(r) \/ CommitFails(r) \/ Rollback(r)
      BY <3>1, CloseFacts DEF Commit, CommitFails, Rollback
    <3>2. CASE ~(Commit(r) \/ CommitFails(r) \/ Rollback(r))
      BY <1>2, <3>2 DEF Step, Progress, TypeOK, LoadTask, InsertTask, SetRunning, StartFails,
         CheckLanguage, SearchKnowledge, FindSimilar, TrackEnqueue, Track, Execute, TrackReview, Validate,
         ValidateFails,
         RecordUsage, IndexExecution, PublishEvent, RecordCompletion, RecordFailure,
         Return, RecordCall, session
    <3> QED  BY <3>1, <3>2
  <2>2. CASE TrackEnqueue(r) \/ TrackReview(r)
    <3>1. /\ mon' = [mon EXCEPT ![target[r]] = "running"]
          /\ pc'[r] \in {"executing", "validating"}
      BY <2>2 DEF TrackEnqueue, TrackReview, Track, TypeOK
    <3>2. CASE target[r] = t
      BY <2>1, <3>1, <3>2
    <3>3. CASE target[r] # t
      <4>1. mon[t] = "running"
        BY <3>1, <3>3 DEF TypeOK
      <4> QED  BY <1>1, <2>1, <3>3, <4>1
    <3> QED  BY <3>2, <3>3
  <2>3. CASE RecordCompletion(r) \/ RecordFailure(r)
    <3>1. \E s \in {"completed", "failed"} : mon' = [mon EXCEPT ![target[r]] = s]
      BY <2>3 DEF RecordCompletion, RecordFailure, Track
    <3>2. target[r] # t /\ mon[t] = "running"
      BY <3>1 DEF TypeOK
    <3> QED  BY <1>1, <2>1, <3>2
  <2>4. CASE Execute(r) \/ Validate(r) \/ ValidateFails(r) \/ RecordUsage(r)
             \/ IndexExecution(r) \/ PublishEvent(r)
    <3>1. mon' = mon /\ pc'[r] \in Tracked
      BY <2>4 DEF Execute, Validate, ValidateFails, RecordUsage, IndexExecution,
                  PublishEvent, outside, TypeOK
    <3> QED  BY <1>1, <2>1, <3>1
  <2>5. CASE LoadTask(r) \/ InsertTask(r) \/ SetRunning(r) \/ StartFails(r)
             \/ CheckLanguage(r) \/ SearchKnowledge(r) \/ Return(r) \/ RecordCall(r) \/ Commit(r)
             \/ CommitFails(r) \/ Rollback(r)
    <3>1. mon' = mon /\ pc[r] \notin Tracked
      BY <2>5 DEF LoadTask, InsertTask, SetRunning, StartFails, CheckLanguage,
                  SearchKnowledge, FindSimilar, Return,
                  RecordCall, Commit, CommitFails, Rollback, outside
    <3> QED  BY <1>1, <2>1, <3>1
  <2> QED  BY <1>2, <2>2, <2>3, <2>4, <2>5 DEF Step, Progress
<1>3. CASE Crash
  <2>1. ~UseRedis
    BY <1>3, DataAssumption DEF Crash, TypeOK
  <2> QED  BY <1>3, <2>1 DEF Crash
<1>4. ASSUME NEW u \in Tasks, CreateTask(u)
      PROVE  \E r \in Requests : target'[r] = t /\ pc'[r] \in Tracked
  BY <1>1, <1>4 DEF CreateTask, outside, session
<1>5. CASE UNCHANGED vars
  BY <1>1, <1>5 DEF vars, outside, session
<1> QED  BY <1>2, <1>3, <1>4, <1>5 DEF Next, Quiet

\* While Redis does not fail, no task is left running in the monitor.
THEOREM MonitorIsSettled == Spec => []MonitorSettles
<1>1. Init => MonitorSettles
  BY DEF Init, MonitorSettles
<1>2. TypeOK /\ HandlerInv /\ MonitorSettles /\ [Next]_vars => MonitorSettles'
  BY MonitorStep
<1> QED  BY <1>1, <1>2, HandlersInvariant, PTL DEF Spec

---------------------------------------------------------------------------
(* The contract *)

\* The answer a client has: none before get_db has ended.
Answered == [r \in Requests |-> IF pc[r] = "done" THEN answer[r] ELSE "none"]

\* Every step of a handler is a step of the contract, or none.
LEMMA ContractStep ==
    ASSUME TypeOK, HandlerInv, [Next]_vars
    PROVE  [Contract!Next]_(Contract!vars)
<1> USE DEF Contract!NoAnswer, Contract!Refusals, Contract!MustCommit
<1>1. ASSUME NEW t \in Tasks, CreateTask(t)  PROVE Contract!Create(t)
  <2>1. row[t] = NoRow /\ row' = [row EXCEPT ![t] = PendingRow]
    BY <1>1 DEF CreateTask
  <2>2. PendingRow = [NoRow EXCEPT !.status = "pending"] /\ NoRow.status = "absent"
    BY DEF NoRow, PendingRow
  <2>3. row' = [row EXCEPT ![t].status = "pending"]
    BY <2>1, <2>2
  <2>4. durable' = durable /\ Answered' = Answered
    BY <1>1 DEF CreateTask, Answered
  <2> QED  BY <2>1, <2>2, <2>3, <2>4 DEF Contract!Create, Answered
<1>2. ASSUME NEW r \in Requests, Commit(r)  PROVE Contract!Succeed(r)
  <2>1. /\ pending[r].status = "completed" /\ {"review", "modelUsage"} \subseteq staged[r]
        /\ answer[r] = "200" /\ pc[r] = "commit"
    BY <1>2 DEF Commit, HandlerInv, SessionInv, AnswerInv, Succeeding
  <2>2. \E kinds \in SUBSET Effects :
            /\ {"review", "modelUsage"} \subseteq kinds
            /\ durable' = [durable EXCEPT ![r] = kinds]
    BY <1>2, <2>1 DEF Commit, TypeOK
  <2>3. /\ target[r] \in Tasks
        /\ row'[target[r]].status = "completed"
        /\ \A u \in Tasks \ {target[r]} : row'[u] = row[u]
    BY <1>2, <2>1 DEF Commit, TypeOK
  <2>4. pc' = [q \in Requests |-> IF q = r THEN "done" ELSE pc[q]] /\ answer' = answer
    BY <1>2 DEF Commit, CloseSessions
  <2>5. Answered' = [Answered EXCEPT ![r] = "200"] /\ Answered[r] = "none"
    BY <2>1, <2>4 DEF Answered
  <2> QED  BY <2>2, <2>3, <2>5 DEF Contract!Succeed, Answered
<1>3. ASSUME NEW lost \in SUBSET Requests, row' = row, durable' = durable,
             \A r \in lost : Answered[r] = "none" /\ Answered'[r] \in {"400", "404", "500", "lost"},
             \A r \in Requests \ lost : Answered'[r] = Answered[r]
      PROVE  Contract!Refuse
  <2>1. \A r \in Requests : IF r \in lost THEN Answered'[r] \in {"400", "404", "500", "lost"}
                                         ELSE Answered'[r] = Answered[r]
    BY <1>3
  <2> QED  BY <1>3, <2>1 DEF Contract!Refuse, Answered
<1>4. ASSUME NEW r \in Requests, CommitFails(r) \/ Rollback(r)  PROVE Contract!Refuse
  <2>1. pc' = [q \in Requests |-> IF q = r THEN "done" ELSE pc[q]] /\ row' = row /\ durable' = durable
    BY <1>4 DEF CommitFails, Rollback, CloseSessions
  <2>2. pc[r] # "done" /\ answer'[r] \in {"400", "404", "500"}
        /\ \A q \in Requests \ {r} : answer'[q] = answer[q]
    BY <1>4 DEF CommitFails, Rollback, HandlerInv, AnswerInv, TypeOK
  <2>3. /\ Answered[r] = "none" /\ Answered'[r] \in {"400", "404", "500", "lost"}
        /\ \A q \in Requests \ {r} : Answered'[q] = Answered[q]
    BY <2>1, <2>2 DEF Answered
  <2> QED  BY <1>3, <2>1, <2>3
<1>5. CASE Crash
  <2> DEFINE cut == {r \in Requests : pc[r] \notin {"idle", "done"}}
  <2>1. /\ pc' = [q \in Requests |-> IF q \in cut THEN "done" ELSE pc[q]]
        /\ answer' = [r \in Requests |-> IF r \in cut THEN "lost" ELSE answer[r]]
        /\ row' = row /\ durable' = durable
    BY <1>5 DEF Crash, CloseSessions
  <2>2. /\ \A r \in cut : Answered[r] = "none" /\ Answered'[r] \in {"400", "404", "500", "lost"}
        /\ \A r \in Requests \ cut : Answered'[r] = Answered[r]
    BY <2>1 DEF Answered
  <2> HIDE DEF cut
  <2>3. cut \in SUBSET Requests
    BY DEF cut
  <2>4. PICK lost \in SUBSET Requests : lost = cut
    BY <2>3
  <2>5. Contract!Refuse
    BY <1>3, <2>1, <2>2, <2>4
  <2> QED  BY <2>5 DEF Contract!Next
<1>6. ASSUME NEW r \in Requests, Step(r), ~Commit(r), ~CommitFails(r), ~Rollback(r)
      PROVE  UNCHANGED <<row, durable, Answered>>
  <2>1. row' = row /\ durable' = durable
    BY <1>6 DEF Step, Progress, LoadTask, InsertTask, SetRunning, StartFails, CheckLanguage,
       SearchKnowledge, FindSimilar, TrackEnqueue, Execute, TrackReview, Validate, ValidateFails,
       RecordUsage,
       IndexExecution, PublishEvent, RecordCompletion, RecordFailure, Return, RecordCall, db
  <2>2. /\ pc[r] # "done" /\ pc'[r] # "done"
        /\ \A q \in Requests \ {r} : pc'[q] = pc[q] /\ answer'[q] = answer[q]
    BY <1>6 DEF Step, Progress, LoadTask, InsertTask, SetRunning, StartFails, CheckLanguage,
       SearchKnowledge, FindSimilar, TrackEnqueue, Execute, TrackReview, Validate, ValidateFails,
       RecordUsage,
       IndexExecution, PublishEvent, RecordCompletion, RecordFailure, Return, RecordCall,
       Track, Goto, Raise, Throw, TypeOK
  <2>3. Answered' = Answered
    BY <2>2 DEF Answered
  <2> QED  BY <2>1, <2>3
<1>7. CASE UNCHANGED vars
  BY <1>7 DEF vars, db, Contract!vars
<1> QED  BY <1>1, <1>2, <1>4, <1>5, <1>6, <1>7
         DEF Next, Step, Progress, Quiet, Contract!Next, Contract!vars, Answered

\* The handlers implement the contract: all of a request's rows with the answer
\* 200, none of them with any other.
THEOREM Implementation == Spec => ContractSpec
<1>1. Init => Contract!Init
  BY RequestsAssumption DEF Init, Contract!Init, Contract!NoAnswer, NoRow
<1>2. TypeOK /\ HandlerInv /\ [Next]_vars => [Contract!Next]_(Contract!vars)
  BY ContractStep
<1> QED  BY <1>1, <1>2, HandlersInvariant, PTL DEF Spec, ContractSpec, Contract!Spec

---------------------------------------------------------------------------
(* Billing *)

\* What the record of a success leaves: its row or, if it fails by itself, a warning.
OkRecords == {"callOk", "callUnrecorded"}

\* The record of a call is staged by the last step before the end of the session, and
\* durable if that end is a commit.
Billing(r) ==
    /\ pc[r] # "done" => "callOk" \notin durable[r]
    /\ pc[r] \notin {"commit", "abort", "done"} => "callOk" \notin staged[r]
    /\ pc[r] = "commit" /\ ~poisoned[r] => staged[r] \cap OkRecords # {}
    /\ pc[r] = "done" =>
            /\ "callOk" \in durable[r] => answer[r] = "200"
            /\ answer[r] = "200" => durable[r] \cap OkRecords # {}
BillInv == \A r \in GenReqs : Billing(r)

\* A step that leaves a handler's own variables alone leaves its billing alone.
LEMMA BillingKept ==
    ASSUME NEW q \in GenReqs, Billing(q), pc'[q] = pc[q], durable'[q] = durable[q],
           staged'[q] = staged[q], poisoned'[q] = poisoned[q], answer'[q] = answer[q]
    PROVE  Billing(q)'
  BY DEF Billing

\* What the handler itself does.
LEMMA OwnBilling ==
    ASSUME TypeOK, HandlerInv, NEW r \in GenReqs, Billing(r), Step(r)
    PROVE  Billing(r)'
<1>1. r \in Requests /\ r \notin RunReqs
  BY RequestsAssumption DEF Requests
<1> USE DEF Goto, Raise, Throw, Billing, OkRecords
<1>2. CASE InsertTask(r) \/ SetRunning(r) \/ StartFails(r) \/ CheckLanguage(r)
           \/ SearchKnowledge(r) \/ TrackEnqueue(r) \/ Execute(r) \/ TrackReview(r)
           \/ ValidateFails(r) \/ PublishEvent(r) \/ RecordCompletion(r) \/ RecordFailure(r)
           \/ Return(r)
  <2>1. /\ durable' = durable /\ staged' = staged
        /\ pc[r] \notin {"commit", "abort", "done"} /\ pc'[r] \notin {"commit", "abort", "done"}
    BY <1>1, <1>2 DEF InsertTask, SetRunning, StartFails, CheckLanguage, SearchKnowledge,
       TrackEnqueue, Track, Execute, TrackReview, ValidateFails, PublishEvent, RecordCompletion,
       RecordFailure, Return, TypeOK, db, session
  <2> QED  BY <2>1
<1>3. CASE Validate(r) \/ RecordUsage(r) \/ IndexExecution(r)
  <2>1. PICK added \in SUBSET {"review", "modelUsage", "newBudget", "execution"} :
            staged'[r] = staged[r] \cup added
    <3>1. CASE Validate(r)
      BY <1>1, <3>1 DEF Validate, TypeOK
    <3>2. CASE RecordUsage(r)
      <4>1. ASSUME NEW more \in SUBSET {"newBudget"},
                   staged' = [staged EXCEPT ![r] = @ \cup {"modelUsage"} \cup more]
            PROVE  \E added \in SUBSET {"review", "modelUsage", "newBudget", "execution"} :
                      staged'[r] = staged[r] \cup added
        <5>1. {"modelUsage"} \cup more \in SUBSET {"review", "modelUsage", "newBudget", "execution"}
          OBVIOUS
        <5>2. staged'[r] = staged[r] \cup ({"modelUsage"} \cup more)
          BY <1>1, <4>1 DEF TypeOK
        <5> QED  BY <5>1, <5>2
      <4>2. \E more \in SUBSET {"newBudget"} :
                staged' = [staged EXCEPT ![r] = @ \cup {"modelUsage"} \cup more]
        <5>1. CASE staged' = [staged EXCEPT ![r] = @ \cup {"modelUsage"} \cup
                                (IF budget THEN {} ELSE {"newBudget"})]
          BY <5>1
        <5>2. CASE staged' = [staged EXCEPT ![r] = @ \cup {"modelUsage"}]
          <6>1. staged' = [staged EXCEPT ![r] = @ \cup {"modelUsage"} \cup {}]
            BY <5>2
          <6> QED  BY <6>1
        <5> QED  BY <3>2, <5>1, <5>2 DEF RecordUsage
      <4> QED  BY <4>1, <4>2
    <3>3. CASE IndexExecution(r)
      <4>1. \E added \in SUBSET {"execution"} : staged'[r] = staged[r] \cup added
        <5>1. \/ staged'[r] = staged[r] \cup {"execution"}
              \/ staged'[r] = staged[r] \cup {}
          BY <1>1, <3>3 DEF IndexExecution, TypeOK
        <5> QED  BY <5>1
      <4> QED  BY <4>1
    <3> QED  BY <1>3, <3>1, <3>2, <3>3
  <2>2. /\ durable' = durable
        /\ pc[r] \notin {"commit", "abort", "done"} /\ pc'[r] \notin {"commit", "abort", "done"}
    BY <1>1, <1>3 DEF Validate, RecordUsage, IndexExecution, TypeOK, db
  <2> QED  BY <2>1, <2>2
<1>4. CASE RecordCall(r)
  <2>1. /\ pc[r] = "finally" /\ durable' = durable
        /\ pc'[r] = IF answer[r] = "200" THEN "commit" ELSE "abort"
    BY <1>1, <1>4 DEF RecordCall, TypeOK
  <2>2. pc'[r] = "commit" /\ ~poisoned'[r] =>
            \E kind \in OkRecords : staged'[r] = staged[r] \cup {kind}
    BY <1>1, <1>4, <2>1, AbortFacts DEF RecordCall, TypeOK
  <2> QED  BY <2>1, <2>2
<1>5. CASE Commit(r)
  <2>1. /\ pc[r] = "commit" /\ ~poisoned[r] /\ durable'[r] = staged[r] /\ answer'[r] = answer[r]
        /\ pc'[r] = "done"
    BY <1>1, <1>5 DEF Commit, CloseSessions, TypeOK
  <2>2. answer[r] = "200"
    BY <1>1, <2>1 DEF HandlerInv, AnswerInv
  <2> QED  BY <2>1, <2>2
<1>6. CASE CommitFails(r) \/ Rollback(r)
  <2>1. /\ pc[r] \in {"commit", "abort"} /\ durable'[r] = durable[r] /\ pc'[r] = "done"
        /\ \/ answer'[r] = "500"
           \/ pc[r] = "abort" /\ answer'[r] = answer[r]
    <3>1. pc'[r] = "done"
      BY <1>1, <1>6, CloseFacts DEF CommitFails, Rollback
    <3>2. CASE CommitFails(r)
      BY <1>1, <3>1, <3>2 DEF CommitFails, TypeOK
    <3>3. CASE Rollback(r)
      BY <1>1, <3>1, <3>3 DEF Rollback
    <3> QED  BY <1>6, <3>2, <3>3
  <2>2. pc[r] = "abort" => answer[r] # "200"
    BY <1>1 DEF HandlerInv, AnswerInv
  <2> QED  BY <2>1, <2>2
<1>7. ~LoadTask(r)
  BY <1>1 DEF LoadTask
<1> QED  BY <1>2, <1>3, <1>4, <1>5, <1>6, <1>7 DEF Step, Progress

\* What another handler does.
LEMMA OthersBilling ==
    ASSUME TypeOK, HandlerInv, NEW r \in Requests, Step(r), NEW q \in Requests \ {r}
    PROVE  /\ pc'[q] = pc[q] /\ durable'[q] = durable[q] /\ staged'[q] = staged[q]
           /\ poisoned'[q] = poisoned[q] /\ answer'[q] = answer[q]
<1> USE DEF Goto, Raise, Throw
<1>1. CASE Commit(r) \/ CommitFails(r) \/ Rollback(r)
  <2>1. CloseSessions({r}) /\ durable'[q] = durable[q] /\ answer'[q] = answer[q]
    BY <1>1 DEF Commit, CommitFails, Rollback, TypeOK
  <2> QED  BY <2>1, CloseFacts
<1>2. CASE ~(Commit(r) \/ CommitFails(r) \/ Rollback(r))
  <2>1. poisoned' = poisoned \/ AbortTransaction(r)
    BY <1>2 DEF Step, Progress, LoadTask, InsertTask, SetRunning, StartFails,
       CheckLanguage, SearchKnowledge, FindSimilar, TrackEnqueue, Execute, TrackReview, Validate,
       ValidateFails, RecordUsage, IndexExecution, PublishEvent, RecordCompletion, RecordFailure,
       Return, RecordCall, session
  <2>2. poisoned'[q] = poisoned[q]
    BY <2>1, AbortFacts
  <2>3. /\ pc'[q] = pc[q] /\ durable'[q] = durable[q] /\ staged'[q] = staged[q]
        /\ answer'[q] = answer[q]
    BY <1>2 DEF Step, Progress, TypeOK, LoadTask, InsertTask, SetRunning, StartFails,
       CheckLanguage, SearchKnowledge, FindSimilar, TrackEnqueue, Track, Execute, TrackReview,
       Validate, ValidateFails, RecordUsage, IndexExecution, PublishEvent, RecordCompletion,
       RecordFailure, Return, RecordCall, db, session
  <2> QED  BY <2>2, <2>3
<1> QED  BY <1>1, <1>2

LEMMA BillStep == ASSUME TypeOK, HandlerInv, BillInv, [Next]_vars PROVE BillInv'
<1> SUFFICES ASSUME NEW q \in GenReqs PROVE Billing(q)'
  BY DEF BillInv
<1>1. Billing(q) /\ q \in Requests
  BY DEF BillInv, Requests
<1>2. ASSUME NEW r \in Requests, Step(r) PROVE Billing(q)'
  BY <1>1, <1>2, OwnBilling, OthersBilling, BillingKept
<1>3. ASSUME NEW t \in Tasks, CreateTask(t) PROVE Billing(q)'
  BY <1>1, <1>3, BillingKept DEF CreateTask, session
<1>4. CASE Crash
  <2> DEFINE cut == {r \in Requests : pc[r] \notin {"idle", "done"}}
  <2>1. CloseSessions(cut) /\ cut \in SUBSET Requests /\ durable' = durable
        /\ answer' = [r \in Requests |-> IF r \in cut THEN "lost" ELSE answer[r]]
    BY <1>4 DEF Crash
  <2>2. q \in cut => pc[q] # "done"
    OBVIOUS
  <2> HIDE DEF cut
  <2>3. CASE q \in cut
    BY <1>1, <2>1, <2>2, <2>3, CloseFacts DEF Billing
  <2>4. CASE q \notin cut
    BY <1>1, <2>1, <2>4, CloseFacts, BillingKept
  <2> QED  BY <2>3, <2>4
<1>5. CASE UNCHANGED vars
  BY <1>1, <1>5, BillingKept DEF vars, db, session
<1> QED  BY <1>2, <1>3, <1>4, <1>5 DEF Next, Quiet

\* A generate request is charged a success only if it was answered 200, and each that
\* was answered 200 is charged, unless record_call alone has failed.  (What becomes of
\* the record of a failed one is not said here: it is rolled back with its session,
\* which a run shows.)
THEOREM BillingFollows == Spec => []BilledAsAnswered
<1>1. Init => BillInv
  BY DEF Init, BillInv, Billing, Requests
<1>2. TypeOK /\ HandlerInv /\ BillInv /\ [Next]_vars => BillInv'
  BY BillStep
<1>3. BillInv => BilledAsAnswered
  BY DEF BillInv, Billing, BilledAsAnswered, OkRecords
<1> QED  BY <1>1, <1>2, <1>3, HandlersInvariant, PTL DEF Spec

---------------------------------------------------------------------------
(* Why every wait ends *)

\* The next statement of r writes its row, which somebody else has locked.
WritesNext(r) ==
    \/ pc[r] = "idle" /\ r \notin RunReqs
    \/ pc[r] = "loaded"
    \/ pc[r] \in {"validating", "except"} /\ ~poisoned[r]
Waits(r) == WritesNext(r) /\ lock[target[r]] \notin {r, Nobody}

\* Who waits is about to start a run of a registered task and has locked nothing; who
\* holds the lock it waits for is in the middle of its own run and does not wait.
NoCircularWait ==
    \A r \in Requests : Waits(r) =>
        /\ pc[r] = "loaded" /\ r \in RunReqs
        /\ \A t \in Tasks : lock[t] # r
        /\ LET holder == lock[target[r]] IN
            /\ holder \in Requests /\ pc[holder] \notin {"idle", "loaded", "done"}
            /\ ~Waits(holder)

\* The row locks of overlapping runs can never be waited for in a circle, for any number
\* of requests: a run writes one row, and takes its lock before anything else.
THEOREM WaitsAreForWorkers == Spec => []NoCircularWait
<1>1. TypeOK /\ HandlerInv => NoCircularWait
  <2> SUFFICES ASSUME TypeOK, HandlerInv, NEW r \in Requests, Waits(r)
               PROVE  /\ pc[r] = "loaded" /\ r \in RunReqs
                      /\ \A t \in Tasks : lock[t] # r
                      /\ lock[target[r]] \in Requests
                      /\ pc[lock[target[r]]] \notin {"idle", "loaded", "done"}
                      /\ ~Waits(lock[target[r]])
    BY DEF NoCircularWait
  <2>1. /\ target[r] \in Tasks
        /\ lock[target[r]] \in Requests \ {r}
    BY DEF Waits, TypeOK
  <2>2. PICK s \in Requests \ {r} : lock[target[r]] = s
    BY <2>1
  <2>3. target[s] = target[r] /\ pc[s] \notin {"idle", "done"}
    BY <2>1, <2>2 DEF HandlerInv, LockInv
  <2>4. r \in RunReqs /\ s \in RunReqs
    BY <2>3, RequestsAssumption DEF HandlerInv, TargetInv, Requests
  <2>5. pc[s] # "loaded"
    BY <2>1, <2>2, <2>4 DEF HandlerInv, LockInv
  <2>6. pc[r] = "loaded"
    <3>1. pc[r] \in Running /\ ~poisoned[r] => lock[target[r]] = r
      BY DEF HandlerInv, LockInv
    <3> QED  BY <2>2, <2>4, <3>1 DEF Waits, WritesNext, Running
  <2>7. \A t \in Tasks : lock[t] # r
    BY <2>4, <2>6 DEF HandlerInv, LockInv
  <2>8. ~Waits(s)
    BY <2>2, <2>3 DEF Waits
  <2> QED  BY <2>1, <2>2, <2>3, <2>4, <2>5, <2>6, <2>7, <2>8
<1> QED  BY <1>1, HandlersInvariant, PTL

\* How far a handler has come.
Rank == [p \in PCs |->
    CASE p = "idle" -> 0           [] p = "loaded" -> 1        [] p = "running" -> 2
      [] p = "routed" -> 3         [] p = "selected" -> 4      [] p = "executing" -> 5
      [] p = "generated" -> 6      [] p = "validating" -> 7    [] p = "reviewed" -> 8
      [] p = "costed" -> 9         [] p = "indexed" -> 10      [] p = "published" -> 11
      [] p \in {"except", "returned"} -> 12                    [] p = "finally" -> 13
      [] p \in {"commit", "abort"} -> 14                       [] p = "done" -> 15]

LEMMA RankType == Rank \in [PCs -> 0 .. 15]
  BY DEF Rank, PCs, Running, Leaving

\* Every step of a handler takes it forward, and nothing takes it back: not a failure,
\* another request or a crash.  A request is therefore done after fifteen steps at most.
HandlersAdvance ==
    [][\A r \in Requests :
            /\ Rank[pc[r]] <= Rank[pc'[r]]
            /\ Step(r) => Rank[pc[r]] < Rank[pc'[r]]]_vars

LEMMA OwnAdvance ==
    ASSUME TypeOK, NEW r \in Requests, Step(r)
    PROVE  Rank[pc[r]] < Rank[pc'[r]]
<1> USE DEF Goto, Raise, Throw
<1> DEFINE To(p, s) == pc[r] = p /\ pc'[r] \in s
<1>1. \/ To("idle", {"loaded", "finally", "abort"}) \/ To("loaded", {"running", "finally", "abort"})
      \/ To("running", {"routed", "finally", "abort"}) \/ To("routed", {"selected"})
      \/ To("selected", {"executing", "except"}) \/ To("executing", {"generated", "except"})
      \/ To("generated", {"validating", "except"}) \/ To("validating", {"reviewed", "except"})
      \/ To("reviewed", {"costed"}) \/ To("costed", {"indexed"}) \/ To("indexed", {"published"})
      \/ To("published", {"returned", "except"}) \/ To("except", {"finally", "abort"})
      \/ To("returned", {"finally", "commit"}) \/ To("finally", {"commit", "abort"})
      \/ To("commit", {"done"}) \/ To("abort", {"done"})
  <2>1. CASE Commit(r) \/ CommitFails(r) \/ Rollback(r)
    <3>1. CloseSessions({r}) /\ pc[r] \in {"commit", "abort"}
      BY <2>1 DEF Commit, CommitFails, Rollback
    <3>2. pc'[r] = "done"
      BY <3>1 DEF CloseSessions
    <3> QED  BY <3>1, <3>2
  <2>2. CASE LoadTask(r) \/ InsertTask(r) \/ SetRunning(r) \/ StartFails(r)
    BY <2>2 DEF LoadTask, InsertTask, SetRunning, StartFails, TypeOK
  <2>3. CASE CheckLanguage(r) \/ SearchKnowledge(r) \/ TrackEnqueue(r) \/ Execute(r)
             \/ TrackReview(r)
    BY <2>3 DEF CheckLanguage, SearchKnowledge, TrackEnqueue, Track, Execute, TrackReview, TypeOK
  <2>4. CASE Validate(r) \/ ValidateFails(r) \/ RecordUsage(r) \/ IndexExecution(r)
             \/ PublishEvent(r) \/ RecordCompletion(r) \/ RecordFailure(r)
    BY <2>4 DEF Validate, ValidateFails, RecordUsage, IndexExecution, PublishEvent,
       RecordCompletion, Track, RecordFailure, TypeOK
  <2>5. CASE Return(r) \/ RecordCall(r)
    BY <2>5 DEF Return, RecordCall, TypeOK
  <2> QED  BY <2>1, <2>2, <2>3, <2>4, <2>5 DEF Step, Progress
<1>2. /\ Rank["idle"] = 0 /\ Rank["loaded"] = 1 /\ Rank["running"] = 2 /\ Rank["routed"] = 3
      /\ Rank["selected"] = 4 /\ Rank["executing"] = 5 /\ Rank["generated"] = 6
      /\ Rank["validating"] = 7 /\ Rank["reviewed"] = 8 /\ Rank["costed"] = 9
      /\ Rank["indexed"] = 10 /\ Rank["published"] = 11 /\ Rank["except"] = 12
      /\ Rank["returned"] = 12 /\ Rank["finally"] = 13 /\ Rank["commit"] = 14
      /\ Rank["abort"] = 14 /\ Rank["done"] = 15
  BY DEF Rank, PCs, Running, Leaving
<1> QED  BY <1>1, <1>2

THEOREM HandlersGoForward == Spec => HandlersAdvance
<1>1. ASSUME TypeOK, HandlerInv, [Next]_vars
      PROVE  [\A r \in Requests :
                  /\ Rank[pc[r]] <= Rank[pc'[r]]
                  /\ Step(r) => Rank[pc[r]] < Rank[pc'[r]]]_vars
  <2> SUFFICES ASSUME NEW r \in Requests
               PROVE  /\ Rank[pc[r]] <= Rank[pc'[r]]
                      /\ Step(r) => Rank[pc[r]] < Rank[pc'[r]]
    OBVIOUS
  <2>1. Step(r) => Rank[pc[r]] < Rank[pc'[r]]
    BY <1>1, OwnAdvance
  <2>2. /\ Rank[pc[r]] \in 0 .. 15 /\ Rank[pc'[r]] \in 0 .. 15
        /\ pc'[r] = "done" => Rank[pc'[r]] = 15
    <3>1. pc[r] \in PCs /\ pc'[r] \in PCs
      BY <1>1, TypeStep DEF TypeOK
    <3> QED  BY <3>1, RankType DEF Rank, PCs, Leaving
  <2>3. ASSUME NEW q \in Requests, Step(q), q # r
        PROVE  pc'[r] = pc[r]
    BY <1>1, <2>3, OthersBilling
  <2>4. CASE Crash
    <3>1. pc'[r] \in {"done", pc[r]}
      BY <2>4 DEF Crash, CloseSessions
    <3> QED  BY <2>1, <2>2, <3>1
  <2>5. CASE pc' = pc
    BY <2>1, <2>2, <2>5
  <2>6. pc' = pc \/ Crash \/ \E q \in Requests : Step(q)
    BY <1>1 DEF Next, CreateTask, Quiet, vars
  <2> QED  BY <2>1, <2>2, <2>3, <2>4, <2>5, <2>6
<1> QED  BY <1>1, TypeCorrect, HandlersInvariant, PTL DEF Spec, HandlersAdvance

---------------------------------------------------------------------------
(* What the run that violates ExecutionIndexed shows on two requests *)

\* No execution is ever added to a session, hence none is committed.
NeverIndexed == \A r \in Requests : "execution" \notin staged[r] \cup durable[r]

LEMMA IndexedStep == ASSUME TypeOK, NeverIndexed, [Next]_vars PROVE NeverIndexed'
<1> USE DEF NeverIndexed
<1>1. ASSUME NEW r \in Requests, Step(r)
      PROVE  NeverIndexed'
  <2> SUFFICES ASSUME NEW q \in Requests  PROVE "execution" \notin staged'[q] \cup durable'[q]
    OBVIOUS
  <2>1. CASE Commit(r) \/ CommitFails(r) \/ Rollback(r)
    BY <2>1 DEF Commit, CommitFails, Rollback, CloseSessions, TypeOK
  <2>2. CASE IndexExecution(r)
    BY <2>2 DEF IndexExecution, LatencyAssigned, db
  <2>3. CASE RecordUsage(r)
    <3>1. durable' = durable
      BY <2>3 DEF RecordUsage
    <3>2. "execution" \notin staged'[q]
      BY <2>3 DEF RecordUsage, TypeOK
    <3> QED  BY <3>1, <3>2
  <2>4. CASE Validate(r)
    BY <2>4 DEF Validate, TypeOK
  <2>5. CASE RecordCall(r)
    BY <2>5 DEF RecordCall, TypeOK
  <2>6. CASE staged' = staged /\ durable' = durable
    BY <2>6
  <2> QED  BY <1>1, <2>1, <2>2, <2>3, <2>4, <2>5, <2>6 DEF Step, Progress, LoadTask, InsertTask,
           SetRunning, StartFails, CheckLanguage, SearchKnowledge, TrackEnqueue, Execute,
           TrackReview, ValidateFails, PublishEvent, RecordCompletion, RecordFailure, Return,
           db, session
<1>2. CASE Crash
  BY <1>2 DEF Crash, CloseSessions
<1>3. CASE staged' = staged /\ durable' = durable
  BY <1>3
<1>4. (staged' = staged /\ durable' = durable) \/ Crash \/ \E r \in Requests : Step(r)
  BY DEF Next, CreateTask, Quiet, vars, db, session
<1> QED  BY <1>1, <1>2, <1>3, <1>4

\* Not just some run: whatever happens, no run at all comes into the history.
THEOREM NothingIsIndexed == Spec => [](\A r \in Requests : "execution" \notin durable[r])
<1>1. Init => NeverIndexed
  BY DEF Init, NeverIndexed
<1>2. TypeOK /\ NeverIndexed /\ [Next]_vars => NeverIndexed'
  BY IndexedStep
<1>3. NeverIndexed => \A r \in Requests : "execution" \notin durable[r]
  BY DEF NeverIndexed
<1> QED  BY <1>1, <1>2, <1>3, TypeCorrect, PTL DEF Spec

---------------------------------------------------------------------------
(* What the run that violates UsageLogIsBestEffort shows is the only such way *)

\* A request whose event is out and that is answered 500 has lost the race for the
\* month's budget row to another one.
LateRefusalIsRace ==
    \A r \in events : pc[r] = "done" /\ answer[r] = "500" =>
        \E s \in Requests \ {r} : "newBudget" \in durable[s]

Inserted(q) == "newBudget" \in durable[q]

\* While the database and Redis work, no transaction is aborted, a run whose event is out
\* goes on to its commit, and the budget row, if new, is that of one request.
Raced(q) ==
    /\ ~poisoned[q]
    /\ pc[q] # "done" => durable[q] = {}
    /\ "newBudget" \in staged[q] => ~BudgetAtStart
    /\ q \in events =>
        /\ pc[q] \in {"published", "returned", "finally", "commit", "done"}
        /\ pc[q] \in {"finally", "commit"} => answer[q] = "200"
        /\ pc[q] = "done" /\ answer[q] = "500" => \E s \in Requests \ {q} : Inserted(s)
BudgetInv ==
    /\ BudgetAtStart => budget
    /\ budget => BudgetAtStart \/ \E s \in Requests : Inserted(s)
RaceInv == BudgetInv /\ \A q \in Requests : Raced(q)

\* What the handler itself does.
LEMMA OwnRace ==
    ASSUME Faults \cap {"db", "redis"} = {}, TypeOK, RaceInv,
           NEW r \in Requests, Step(r)
    PROVE  /\ Raced(r)'
           /\ budget => budget'
           /\ budget' => budget \/ Inserted(r)'
           /\ Inserted(r) => Inserted(r)'
           /\ events' \ {r} = events \ {r}
<1>1. Raced(r) /\ BudgetInv
  BY DEF RaceInv
<1> USE DEF Goto, Raise, Throw
<1>2. CASE Commit(r)
  <2>1. /\ pc[r] = "commit" /\ durable[r] = {} /\ answer' = answer /\ events' = events
        /\ durable'[r] = staged[r] /\ budget' = (budget \/ "newBudget" \in staged[r])
    BY <1>1, <1>2 DEF Commit, Raced, TypeOK, outside
  <2>2. pc'[r] = "done" /\ ~poisoned'[r] /\ staged'[r] = {}
    BY <1>2 DEF Commit, CloseSessions
  <2>3. r \in events => answer[r] = "200"
    BY <1>1, <2>1 DEF Raced
  <2> QED  BY <2>1, <2>2, <2>3 DEF Raced, Inserted
<1>3. CASE CommitFails(r)
  <2>1. /\ pc[r] = "commit" /\ durable[r] = {} /\ durable' = durable /\ budget' = budget
        /\ events' = events /\ BudgetConflict(r)
    BY <1>1, <1>3 DEF CommitFails, Raced, outside
  <2>2. pc'[r] = "done" /\ ~poisoned'[r] /\ staged'[r] = {}
    BY <1>3 DEF CommitFails, CloseSessions
  <2>3. \E s \in Requests : Inserted(s)
    BY <1>1, <2>1 DEF BudgetConflict, Raced, BudgetInv
  <2>4. \E s \in Requests \ {r} : Inserted(s)
    BY <2>1, <2>3 DEF Inserted
  <2> QED  BY <2>1, <2>2, <2>4 DEF Raced, Inserted
<1>4. CASE Rollback(r)
  <2>1. /\ pc[r] = "abort" /\ durable' = durable /\ budget' = budget /\ events' = events
        /\ r \notin events
    BY <1>1, <1>4 DEF Rollback, Raced, outside
  <2>2. pc'[r] = "done" /\ ~poisoned'[r] /\ staged'[r] = {}
    BY <1>4 DEF Rollback, CloseSessions
  <2> QED  BY <2>1, <2>2 DEF Raced, Inserted
<1>5. ASSUME durable' = durable, budget' = budget, poisoned' = poisoned, events' = events,
             pc[r] # "done", pc'[r] # "done",
             "newBudget" \in staged'[r] => "newBudget" \in staged[r] \/ ~BudgetAtStart,
             r \in events =>
                \/ pc[r] = "published" /\ pc'[r] = "returned"
                \/ pc[r] = "returned" /\ pc'[r] \in {"finally", "commit"} /\ answer'[r] = "200"
                \/ pc[r] = "finally" /\ pc'[r] = "commit" /\ answer'[r] = answer[r]
      PROVE  /\ Raced(r)' /\ events' \ {r} = events \ {r} /\ budget' = budget
             /\ Inserted(r) => Inserted(r)'
  BY <1>1, <1>5 DEF Raced, Inserted
<1>6. CASE PublishEvent(r)
  BY <1>1, <1>6 DEF PublishEvent, Raced, Inserted, TypeOK, db, session
<1>7. CASE LoadTask(r) \/ InsertTask(r) \/ SetRunning(r) \/ CheckLanguage(r) \/ SearchKnowledge(r)
           \/ TrackEnqueue(r) \/ Execute(r) \/ TrackReview(r) \/ Validate(r) \/ ValidateFails(r)
           \/ IndexExecution(r) \/ RecordFailure(r)
  <2>1. /\ durable' = durable /\ budget' = budget /\ events' = events /\ poisoned' = poisoned
        /\ pc[r] \notin {"published", "returned", "finally", "commit", "done"}
    BY <1>1, <1>7 DEF LoadTask, InsertTask, SetRunning, CheckLanguage, SearchKnowledge, FindSimilar,
       TrackEnqueue, Track, Execute, TrackReview, Validate, ValidateFails, IndexExecution,
       RecordFailure, Raced, db, outside, session
  <2>2. "newBudget" \in staged'[r] => "newBudget" \in staged[r]
    <3>1. CASE Validate(r)
      BY <3>1 DEF Validate, TypeOK
    <3>2. CASE IndexExecution(r)
      BY <3>2 DEF IndexExecution, TypeOK
    <3>3. CASE staged' = staged
      BY <3>3
    <3> QED  BY <1>7, <3>1, <3>2, <3>3 DEF LoadTask, InsertTask, SetRunning, CheckLanguage,
       SearchKnowledge, TrackEnqueue, Execute, TrackReview, ValidateFails, RecordFailure, session
  <2>3. pc'[r] # "done"
    BY <1>7 DEF LoadTask, InsertTask, SetRunning, CheckLanguage, SearchKnowledge, TrackEnqueue, Track,
       Execute, TrackReview, Validate, ValidateFails, IndexExecution, RecordFailure, TypeOK
  <2>4. r \notin events
    BY <1>1, <2>1 DEF Raced
  <2> QED  BY <1>5, <2>1, <2>2, <2>3, <2>4
<1>8. CASE RecordUsage(r)
  <2>1. /\ durable' = durable /\ budget' = budget /\ events' = events /\ poisoned' = poisoned
        /\ pc[r] = "reviewed" /\ pc'[r] = "costed"
    BY <1>8 DEF RecordUsage, outside, TypeOK
  <2>2. staged' = [staged EXCEPT ![r] = @ \cup {"modelUsage"} \cup
                        (IF budget THEN {} ELSE {"newBudget"})]
    BY <1>8 DEF RecordUsage
  <2>3. "newBudget" \in staged'[r] => "newBudget" \in staged[r] \/ ~budget
    BY <2>2 DEF TypeOK
  <2>4. r \notin events /\ (~budget => ~BudgetAtStart)
    BY <1>1, <2>1 DEF Raced, BudgetInv
  <2> QED  BY <1>5, <2>1, <2>3, <2>4
<1>9. CASE RecordCompletion(r) \/ Return(r)
  <2>1. /\ durable' = durable /\ budget' = budget /\ events' = events /\ poisoned' = poisoned
        /\ staged' = staged
    BY <1>9 DEF RecordCompletion, Track, Return, db, session
  <2>2. \/ pc[r] = "published" /\ pc'[r] = "returned"
        \/ pc[r] = "returned" /\ pc'[r] \in {"finally", "commit"} /\ answer'[r] = "200"
    BY <1>9 DEF RecordCompletion, Track, Return, TypeOK
  <2> QED  BY <1>5, <2>1, <2>2
<1>10. CASE RecordCall(r)
  <2>1. /\ durable' = durable /\ budget' = budget /\ events' = events /\ poisoned' = poisoned
        /\ "newBudget" \in staged'[r] => "newBudget" \in staged[r]
    BY <1>1, <1>10 DEF RecordCall, Raced, outside, TypeOK
  <2>2. /\ pc[r] = "finally" /\ answer' = answer
        /\ pc'[r] = IF answer[r] = "200" THEN "commit" ELSE "abort"
    BY <1>10 DEF RecordCall, TypeOK
  <2>3. r \in events => answer[r] = "200"
    BY <1>1, <2>2 DEF Raced
  <2> QED  BY <1>5, <2>1, <2>2, <2>3
<1>11. ~StartFails(r)
  BY DEF StartFails
<1> QED  BY <1>2, <1>3, <1>4, <1>6, <1>7, <1>8, <1>9, <1>10, <1>11 DEF Step, Progress

LEMMA RaceStep ==
    ASSUME Faults \cap {"db", "redis"} = {}, TypeOK, HandlerInv, RaceInv, [Next]_vars
    PROVE  RaceInv'
<1>1. ASSUME NEW r \in Requests, Step(r)
      PROVE  RaceInv'
  <2>1. /\ Raced(r)'
        /\ budget => budget'
        /\ budget' => budget \/ Inserted(r)'
        /\ Inserted(r) => Inserted(r)'
        /\ events' \ {r} = events \ {r}
    BY <1>1, OwnRace
  <2>2. ASSUME NEW q \in Requests \ {r}
        PROVE  /\ pc'[q] = pc[q] /\ durable'[q] = durable[q] /\ staged'[q] = staged[q]
               /\ poisoned'[q] = poisoned[q] /\ answer'[q] = answer[q]
    BY <1>1, OthersBilling
  <2>3. \A s \in Requests : Inserted(s) => Inserted(s)'
    BY <2>1, <2>2 DEF Inserted
  <2>4. BudgetInv'
    BY <2>1, <2>3 DEF RaceInv, BudgetInv
  <2>5. ASSUME NEW q \in Requests \ {r}
        PROVE  Raced(q)'
    <3>1. Raced(q) /\ (q \in events' <=> q \in events)
      BY <2>1 DEF RaceInv
    <3> QED  BY <2>2, <2>3, <3>1 DEF Raced
  <2> QED  BY <2>1, <2>4, <2>5 DEF RaceInv
<1>2. CASE Crash
  <2> DEFINE cut == {r \in Requests : pc[r] \notin {"idle", "done"}}
  <2>1. /\ CloseSessions(cut) /\ durable' = durable /\ budget' = budget /\ events' = events
        /\ answer' = [r \in Requests |-> IF r \in cut THEN "lost" ELSE answer[r]]
    BY <1>2 DEF Crash
  <2>2. \A q \in Requests :
            /\ pc'[q] = IF q \in cut THEN "done" ELSE pc[q]
            /\ staged'[q] = IF q \in cut THEN {} ELSE staged[q]
            /\ poisoned'[q] = IF q \in cut THEN FALSE ELSE poisoned[q]
    BY <2>1 DEF CloseSessions
  <2> HIDE DEF cut
  <2>3. ASSUME NEW q \in Requests
        PROVE  Raced(q)'
    BY <2>1, <2>2 DEF RaceInv, Raced, Inserted
  <2> QED  BY <2>1, <2>3 DEF RaceInv, BudgetInv, Inserted
<1>3. CASE UNCHANGED <<budget, durable, events, pc, staged, poisoned, answer>>
  BY <1>3 DEF RaceInv, BudgetInv, Raced, Inserted
<1>4. \/ UNCHANGED <<budget, durable, events, pc, staged, poisoned, answer>>
      \/ Crash \/ \E r \in Requests : Step(r)
  BY DEF Next, CreateTask, Quiet, vars, db, outside, session
<1> QED  BY <1>1, <1>2, <1>3, <1>4

\* The race for the month's row is the only way in which, without a failure of database
\* or Redis, a published run can still be refused: at most one request wins it.
THEOREM OnlyTheBudgetRace ==
    ASSUME Faults \cap {"db", "redis"} = {}
    PROVE  Spec => []LateRefusalIsRace
<1>1. Init => RaceInv
  BY DEF Init, RaceInv, BudgetInv, Raced
<1>2. TypeOK /\ HandlerInv /\ RaceInv /\ [Next]_vars => RaceInv'
  BY RaceStep
<1>3. TypeOK /\ RaceInv => LateRefusalIsRace
  BY DEF TypeOK, RaceInv, Raced, LateRefusalIsRace, Inserted
<1> QED  BY <1>1, <1>2, <1>3, HandlersInvariant, PTL DEF Spec
============================================================================
