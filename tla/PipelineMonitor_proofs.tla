--------------------- MODULE PipelineMonitor_proofs ---------------------
(***************************************************************************)
(* Proofs about PipelineMonitor, for every finite set of runs, any tasks    *)
(* and clients, with Redis or without, whatever fails, expires or crashes;  *)
(* and, at the end, about the dashboard that reads beside it.               *)
(***************************************************************************)
EXTENDS MonitorDashboard, FiniteSetTheorems, SequenceTheorems, TLAPS

\* The types the counting argument needs.
Counts == [total : Nat, completed : Nat, failed : Nat]
CountType ==
    /\ stats \in [Days -> Counts]
    /\ cmd \in [Runs -> Commands]
    /\ verdict \in [Runs -> Settled]
    /\ day \in [Runs -> Days]
    /\ usage \in Nat /\ today \in Days

LEMMA StatsNat ==
    ASSUME CountType, NEW d \in Days
    PROVE  stats[d].total \in Nat /\ stats[d].completed \in Nat /\ stats[d].failed \in Nat
  BY DEF CountType, Counts

LEMMA DaysFacts == 0 \in Days /\ (CountType /\ today < MaxDays => today + 1 \in Days)
  BY MonitorAssumption DEF Days, CountType

\* The runs that wait to increment an outcome are finitely many.
LEMMA WaitingFinite ==
    ASSUME NEW d \in Days
    PROVE  IsFiniteSet(Waiting(d)) /\ Cardinality(Waiting(d)) \in Nat
<1>1. Waiting(d) \subseteq Runs /\ IsFiniteSet(Runs)
  BY MonitorAssumption DEF Waiting
<1>2. IsFiniteSet(Waiting(d))
  BY <1>1, FS_Subset
<1> QED  BY <1>2, FS_CardinalityType

\* A set that changes in one element only.
LEMMA OneMoves ==
    ASSUME NEW S, IsFiniteSet(S), NEW T, NEW r, S \ {r} = T \ {r}
    PROVE  Cardinality(T) = Cardinality(S)
                - (IF r \in S THEN 1 ELSE 0) + (IF r \in T THEN 1 ELSE 0)
<1>1. Cardinality(S) \in Nat
  BY FS_CardinalityType
<1>2. CASE r \in T
  <2>1. T = S \cup {r}
    BY <1>2
  <2>2. Cardinality(S \cup {r}) = IF r \in S THEN Cardinality(S) ELSE Cardinality(S) + 1
    BY FS_AddElement
  <2> QED  BY <1>1, <1>2, <2>1, <2>2
<1>3. CASE r \notin T
  <2>1. T = S \ {r}
    BY <1>3
  <2>2. Cardinality(S \ {r}) = IF r \in S THEN Cardinality(S) - 1 ELSE Cardinality(S)
    BY FS_RemoveElement
  <2> QED  BY <1>1, <1>3, <2>1, <2>2
<1> QED  BY <1>2, <1>3

\* Run r waits for day d's outcome with the command x, its key being that of day e.
Waits(x, e, d) == IF x = "outcome" /\ e = d THEN 1 ELSE 0

\* When run r goes from one command to another, its key perhaps to another day, it
\* leaves those that wait and joins those that wait then.
LEMMA WaitingMoves ==
    ASSUME CountType, NEW r \in Runs, NEW x \in Commands, NEW e \in Days, NEW d \in Days,
           cmd' = [cmd EXCEPT ![r] = x], day' = [day EXCEPT ![r] = e]
    PROVE  Cardinality(Waiting(d)') = Cardinality(Waiting(d))
                - Waits(cmd[r], day[r], d) + Waits(x, e, d)
<1>1. IsFiniteSet(Waiting(d))
  BY WaitingFinite
<1>2. Waiting(d) \ {r} = Waiting(d)' \ {r}
  BY DEF Waiting, CountType
<1>3. /\ r \in Waiting(d) <=> cmd[r] = "outcome" /\ day[r] = d
      /\ r \in Waiting(d)' <=> x = "outcome" /\ e = d
  BY DEF Waiting, CountType
<1>4. Cardinality(Waiting(d)') = Cardinality(Waiting(d))
        - (IF r \in Waiting(d) THEN 1 ELSE 0) + (IF r \in Waiting(d)' THEN 1 ELSE 0)
  BY <1>1, <1>2, OneMoves
<1> QED  BY <1>3, <1>4 DEF Waits

LEMMA CountInit == ASSUME Init PROVE CountType /\ CountInv
<1>1. NoCounts \in Counts
  BY DEF NoCounts, Counts
<1>2. CountType
  BY <1>1, DaysFacts DEF Init, CountType, Commands, Settled
<1>3. ASSUME NEW d \in Days
      PROVE  stats[d].completed + stats[d].failed + Cardinality(Waiting(d)) <= stats[d].total
  <2>1. Waiting(d) = {}
    BY DEF Init, Waiting
  <2>2. stats[d] = NoCounts
    BY DEF Init
  <2> QED  BY <2>1, <2>2, FS_EmptySet DEF NoCounts
<1> QED  BY <1>2, <1>3 DEF CountInv

\* Steps that leave the counters alone move at most one run, and to the command
\* "outcome" none.
LEMMA KeepCounts ==
    ASSUME CountType, CountInv, NEW r \in Runs, NEW x \in Commands \ {"outcome"}, NEW e \in Days,
           cmd' = [cmd EXCEPT ![r] = x], day' = [day EXCEPT ![r] = e], stats' = stats
    PROVE  CountInv'
<1> SUFFICES ASSUME NEW d \in Days
             PROVE  stats'[d].completed + stats'[d].failed + Cardinality(Waiting(d)') <= stats'[d].total
  BY DEF CountInv
<1>1. Cardinality(Waiting(d)') = Cardinality(Waiting(d)) - Waits(cmd[r], day[r], d) + Waits(x, e, d)
  BY WaitingMoves
<1> QED  BY <1>1, WaitingFinite, StatsNat DEF CountInv, Waits

\* A counter is incremented in one day's hash.
LEMMA Increment ==
    ASSUME CountType, NEW e \in Days, NEW f \in {"total", "completed", "failed"},
           stats' = [stats EXCEPT ![e][f] = @ + 1]
    PROVE  /\ stats' \in [Days -> Counts]
           /\ \A d \in Days : d # e => stats'[d] = stats[d]
           /\ stats'[e] = [stats[e] EXCEPT ![f] = @ + 1]
<1>1. stats[e] \in Counts /\ [stats[e] EXCEPT ![f] = @ + 1] \in Counts
  BY DEF CountType, Counts
<1> QED  BY <1>1 DEF CountType

\* A run's verdict is always one of the two, and its day one of those that have come.
LEMMA VerdictStep ==
    ASSUME CountType, NEW r \in Runs, RunStep(r)
    PROVE  /\ verdict' \in [Runs -> Settled]
           /\ \E e \in Days : day' = [day EXCEPT ![r] = e]
           /\ today' = today
<1> USE DEF CountType, Settled, store, counters, runVars, clientVars, env
<1> DEFINE Kept == /\ verdict' \in [Runs -> Settled]
                   /\ \E e \in Days : day' = [day EXCEPT ![r] = e]
<1>1. Raise(r) => Kept
  BY DaysFacts DEF Raise, Leave
<1>2. day' = day => \E e \in Days : day' = [day EXCEPT ![r] = e]
  <2>1. day[r] \in Days /\ day = [day EXCEPT ![r] = day[r]]
    OBVIOUS
  <2> QED  BY <2>1
<1>3. today' = today
  BY DEF RunStep, Execute, Validate, CommandFails, LoadSnapshot, PersistStatus,
     PersistActiveHint, Publish, IncrTotal, IncrOutcome, IncrModel, PushRecent, TrimRecent
<1>4. CASE Execute(r) \/ Validate(r) \/ CommandFails(r)
  BY <1>1, <1>2, <1>4 DEF Execute, Validate, CommandFails
<1>5. CASE LoadSnapshot(r)
  BY <1>2, <1>5 DEF LoadSnapshot
<1>6. CASE Publish(r)
  BY <1>2, <1>6 DEF Publish, AfterTrack, StartCounting
<1>7. ASSUME NEW next, Done(r, next)  PROVE Kept
  BY <1>1, <1>2, <1>7 DEF Done
<1>8. CASE PersistStatus(r) \/ PersistActiveHint(r) \/ IncrTotal(r) \/ IncrOutcome(r)
           \/ IncrModel(r) \/ PushRecent(r)
  BY <1>7, <1>8 DEF PersistStatus, PersistActiveHint, IncrTotal, IncrOutcome, IncrModel,
                    PushRecent
<1>9. CASE TrimRecent(r)
  BY <1>1, <1>9, DaysFacts DEF TrimRecent, Leave
<1> QED  BY <1>3, <1>4, <1>5, <1>6, <1>8, <1>9 DEF RunStep

\* What a step of a run does to the counters and to those that wait.
LEMMA RunCounts ==
    ASSUME CountType, CountInv, NEW r \in Runs, RunStep(r)
    PROVE  (CountType /\ CountInv)'
<1> USE DEF store, counters, runVars, clientVars
<1>0. PICK e \in Days : day' = [day EXCEPT ![r] = e]
  BY VerdictStep
<1>1. /\ verdict' \in [Runs -> Settled] /\ day' \in [Runs -> Days]
      /\ today' \in Days /\ usage' \in Nat
  <2>1. usage' \in {usage, usage + 1}
    BY DEF RunStep, Execute, Validate, CommandFails, LoadSnapshot, PersistStatus,
       PersistActiveHint, Publish, IncrTotal, IncrOutcome, IncrModel, PushRecent, TrimRecent
  <2> QED  BY <1>0, <2>1, VerdictStep DEF CountType
<1>2. CASE Execute(r) \/ Validate(r) \/ CommandFails(r)
  <2>1. stats' = stats
    BY <1>2 DEF Execute, Validate, CommandFails
  <2>2. cmd' = cmd \/ cmd' = [cmd EXCEPT ![r] = "get"]
    BY <1>2 DEF Execute, Validate, CommandFails, Raise
  <2>3. CASE cmd' = cmd
    <3>1. day' = day \/ Raise(r)
      BY <1>2 DEF Execute, Validate, CommandFails
    <3>2. CASE day' = day
      BY <1>1, <2>1, <2>3, <3>2 DEF CountType, CountInv, Waiting
    <3>3. CASE Raise(r)
      <4>1. cmd' = [cmd EXCEPT ![r] = "get"]
        BY <3>3 DEF Raise
      <4> QED  BY <1>0, <1>1, <2>1, <4>1, KeepCounts DEF CountType, Commands
    <3> QED  BY <3>1, <3>2, <3>3
  <2>4. CASE cmd' = [cmd EXCEPT ![r] = "get"]
    BY <1>0, <1>1, <2>1, <2>4, KeepCounts DEF CountType, Commands
  <2> QED  BY <2>2, <2>3, <2>4
<1>3. CASE LoadSnapshot(r) \/ PersistStatus(r) \/ PersistActiveHint(r) \/ Publish(r)
           \/ IncrModel(r) \/ PushRecent(r) \/ TrimRecent(r)
  <2>1. stats' = stats
    BY <1>3 DEF LoadSnapshot, PersistStatus, PersistActiveHint, Publish, IncrModel, PushRecent,
                TrimRecent
  <2>2. \E x \in Commands \ {"outcome"} : cmd' = [cmd EXCEPT ![r] = x]
    BY <1>3 DEF LoadSnapshot, PersistStatus, PersistActiveHint, Publish, IncrModel, PushRecent,
                TrimRecent, AfterTrack, StartCounting, Done, Raise, Commands
  <2> QED  BY <1>0, <1>1, <2>1, <2>2, KeepCounts DEF CountType
<1>4. CASE IncrTotal(r)
  <2>1. /\ stats' = [stats EXCEPT ![day[r]]["total"] = @ + 1] /\ cmd[r] = "total"
        /\ \/ cmd' = [cmd EXCEPT ![r] = "outcome"] /\ day' = day
           \/ cmd' = [cmd EXCEPT ![r] = "get"]
    BY <1>4 DEF IncrTotal, At, Done, Raise
  <2>2. /\ stats' \in [Days -> Counts]
        /\ \A d \in Days : d # day[r] => stats'[d] = stats[d]
        /\ stats'[day[r]] = [stats[day[r]] EXCEPT !["total"] = @ + 1]
    BY <2>1, Increment DEF CountType
  <2>3. PICK x \in {"outcome", "get"} :
            cmd' = [cmd EXCEPT ![r] = x] /\ (x = "outcome" => day' = day)
    BY <2>1
  <2>4. x \in Commands /\ cmd' \in [Runs -> Commands]
    BY <2>3 DEF CountType, Commands
  <2>5. ASSUME NEW d \in Days
        PROVE  stats'[d].completed + stats'[d].failed + Cardinality(Waiting(d)') <= stats'[d].total
    <3>1. Cardinality(Waiting(d)') = Cardinality(Waiting(d)) - Waits(cmd[r], day[r], d) + Waits(x, e, d)
      <4>1. /\ cmd' = [cmd EXCEPT ![r] = x] /\ x \in Commands
            /\ day' = [day EXCEPT ![r] = e] /\ e \in Days /\ CountType
        BY <1>0, <2>3, <2>4
      <4> QED  BY <4>1, WaitingMoves
    <3>2. Waits(cmd[r], day[r], d) = 0 /\ Waits(x, e, d) \in {0, 1}
      BY <2>1 DEF Waits
    <3>3. d # day[r] => Waits(x, e, d) = 0
      BY <1>0, <2>3 DEF Waits, CountType
    <3>4. /\ stats[d] \in Counts /\ Cardinality(Waiting(d)) \in Nat
          /\ stats[d].completed + stats[d].failed + Cardinality(Waiting(d)) <= stats[d].total
      BY WaitingFinite DEF CountInv, CountType
    <3>5. CASE d = day[r]
      <4>1. /\ stats'[d].completed = stats[d].completed /\ stats'[d].failed = stats[d].failed
            /\ stats'[d].total = stats[d].total + 1
        BY <2>2, <3>4, <3>5 DEF Counts
      <4> QED  BY <3>1, <3>2, <3>4, <4>1 DEF Counts
    <3>6. CASE d # day[r]
      BY <2>2, <3>1, <3>2, <3>3, <3>4, <3>6 DEF Counts
    <3> QED  BY <3>5, <3>6
  <2> QED  BY <1>1, <2>2, <2>4, <2>5 DEF CountType, CountInv
<1>5. CASE IncrOutcome(r)
  <2>1. /\ stats' = [stats EXCEPT ![day[r]][Outcome(r)] = @ + 1] /\ cmd[r] = "outcome"
        /\ Outcome(r) \in {"completed", "failed"}
    BY <1>5 DEF IncrOutcome, At, Outcome, CountType, Settled
  <2>2. /\ stats' \in [Days -> Counts]
        /\ \A d \in Days : d # day[r] => stats'[d] = stats[d]
        /\ stats'[day[r]] = [stats[day[r]] EXCEPT ![Outcome(r)] = @ + 1]
    BY <2>1, Increment DEF CountType
  <2>3. PICK x \in {"model", "get"} : cmd' = [cmd EXCEPT ![r] = x]
    BY <1>5 DEF IncrOutcome, Done, Raise
  <2>4. x \in Commands /\ cmd' \in [Runs -> Commands]
    BY <2>3 DEF CountType, Commands
  <2>5. ASSUME NEW d \in Days
        PROVE  stats'[d].completed + stats'[d].failed + Cardinality(Waiting(d)') <= stats'[d].total
    <3>1. Cardinality(Waiting(d)') = Cardinality(Waiting(d)) - Waits(cmd[r], day[r], d) + Waits(x, e, d)
      BY <1>0, <2>3, <2>4, WaitingMoves
    <3>2. Waits(cmd[r], day[r], d) = (IF d = day[r] THEN 1 ELSE 0) /\ Waits(x, e, d) = 0
      BY <2>1, <2>3 DEF Waits
    <3>3. /\ stats[d] \in Counts /\ Cardinality(Waiting(d)) \in Nat
          /\ stats[d].completed + stats[d].failed + Cardinality(Waiting(d)) <= stats[d].total
      BY WaitingFinite DEF CountInv, CountType
    <3>4. CASE d = day[r]
      <4>1. /\ stats'[d].completed + stats'[d].failed = stats[d].completed + stats[d].failed + 1
            /\ stats'[d].total = stats[d].total
        BY <2>1, <2>2, <3>3, <3>4 DEF Counts
      <4> QED  BY <3>1, <3>2, <3>3, <3>4, <4>1 DEF Counts
    <3>5. CASE d # day[r]
      BY <2>2, <3>1, <3>2, <3>3, <3>5 DEF Counts
    <3> QED  BY <3>4, <3>5
  <2> QED  BY <1>1, <2>2, <2>4, <2>5 DEF CountType, CountInv
<1> QED  BY <1>2, <1>3, <1>4, <1>5 DEF RunStep

LEMMA CountStep ==
    ASSUME CountType, CountInv, [Next]_vars
    PROVE  (CountType /\ CountInv)'
<1> USE DEF store, counters, runVars, clientVars, env
<1>1. ASSUME UNCHANGED <<stats, usage, cmd, verdict, day>>, today' \in Days
      PROVE  (CountType /\ CountInv)'
  BY <1>1 DEF CountType, CountInv, Waiting
<1>2. ASSUME NEW r \in Runs, Begin(r)
      PROVE  (CountType /\ CountInv)'
  BY <1>1, <1>2 DEF Begin, CountType
<1>3. ASSUME NEW r \in Runs, RunStep(r)
      PROVE  (CountType /\ CountInv)'
  BY <1>3, RunCounts
<1>4. CASE Crash
  <2>1. \/ stats' = stats
        \/ stats' = [d \in Days |-> NoCounts]
    BY <1>4 DEF Crash
  <2>2. NoCounts \in Counts
    BY DEF NoCounts, Counts
  <2>3. ASSUME NEW d \in Days
        PROVE  stats'[d].completed + stats'[d].failed + Cardinality(Waiting(d)') <= stats'[d].total
    <3>1. Waiting(d)' = {}
      BY <1>4 DEF Crash, Waiting
    <3>2. CASE stats' = stats
      BY <3>1, <3>2, FS_EmptySet, WaitingFinite, StatsNat DEF CountInv
    <3>3. CASE stats' = [f \in Days |-> NoCounts]
      BY <3>1, <3>3, FS_EmptySet DEF NoCounts
    <3> QED  BY <2>1, <3>2, <3>3
  <2>4. /\ cmd' \in [Runs -> Commands] /\ verdict' \in [Runs -> Settled]
        /\ day' \in [Runs -> Days] /\ today' = today /\ usage' \in {usage, 0}
    BY <1>4, DaysFacts DEF Crash, Commands, Settled
  <2>5. stats' \in [Days -> Counts]
    BY <2>1, <2>2 DEF CountType
  <2> QED  BY <2>3, <2>4, <2>5 DEF CountType, CountInv
<1>5. ASSUME NEW c \in Clients, GetStatus(c) \/ Subscribe(c) \/ Deliver(c) \/ Disconnect(c)
      PROVE  UNCHANGED <<stats, usage, cmd, verdict, day, today>>
  BY <1>5 DEF GetStatus, Subscribe, Deliver, Disconnect
<1>6. ASSUME NEW t \in Tasks, Expire(t)
      PROVE  UNCHANGED <<stats, usage, cmd, verdict, day, today>>
  BY <1>6 DEF Expire
<1>7. CASE NewDay
  BY <1>1, <1>7, DaysFacts DEF NewDay
<1>8. CASE UNCHANGED vars
  BY <1>1, <1>8 DEF vars, CountType
<1>9. ASSUME UNCHANGED <<stats, usage, cmd, verdict, day, today>>
      PROVE  (CountType /\ CountInv)'
  BY <1>1, <1>9 DEF CountType
<1> QED  BY <1>2, <1>3, <1>4, <1>5, <1>6, <1>7, <1>8, <1>9 DEF Next, Quiet

\* Each day's counters' inductive invariant holds for any number of concurrent runs,
\* and however many of them midnight overtakes while they count.
THEOREM Counting == Spec => []CountInv
<1>1. Init => CountType /\ CountInv
  BY CountInit
<1>2. CountType /\ CountInv /\ [Next]_vars => (CountType /\ CountInv)'
  BY CountStep
<1>3. Spec => [](CountType /\ CountInv)
  BY <1>1, <1>2, PTL DEF Spec
<1> QED  BY <1>3, PTL

\* No day's outcomes ever exceed its runs.
THEOREM RatesAreRates == Spec => []OutcomesWithinTotal
<1>1. Spec => [](CountType /\ CountInv)
  <2>1. Init => CountType /\ CountInv
    BY CountInit
  <2>2. CountType /\ CountInv /\ [Next]_vars => (CountType /\ CountInv)'
    BY CountStep
  <2> QED  BY <2>1, <2>2, PTL DEF Spec
<1>2. CountType /\ CountInv => OutcomesWithinTotal
  BY WaitingFinite, StatsNat DEF CountInv, OutcomesWithinTotal
<1> QED  BY <1>1, <1>2, PTL

---------------------------------------------------------------------------
(* Types, and where a run is among its monitor calls *)

Entries == [status : {"running", "completed", "failed"}, hint : NoHint .. 100, final : BOOLEAN]

LEMMA EntryType ==
    ASSUME NEW status \in {"running", "completed", "failed"}, NEW hint \in NoHint .. 100
    PROVE  Entry(status, hint) \in Entries
  BY DEF Entry, Entries

\* What concatenation does, for sequences of entries.
LEMMA ConcatEntries ==
    ASSUME NEW a \in Seq(Entries), NEW b \in Seq(Entries)
    PROVE  /\ a \o b \in Seq(Entries)
           /\ Len(a \o b) = Len(a) + Len(b)
           /\ \A i \in 1 .. Len(a) : (a \o b)[i] = a[i]
<1>1. a \o b \in Seq(Entries)
  BY ConcatProperties, Zenon
<1>2. Len(a \o b) = Len(a) + Len(b)
  BY ConcatProperties, Zenon
<1>3. ASSUME NEW i \in 1 .. Len(a) PROVE (a \o b)[i] = a[i]
  BY <1>3
<1> QED  BY <1>1, <1>2, <1>3

\* A run makes nine calls and record_completion, eleven if the code was fixed; the
\* except clause makes one.
LEMMA CallsShape ==
    ASSUME NEW r \in Runs, failing[r] \in BOOLEAN, loops[r] \in BOOLEAN, verdict[r] \in Settled
    PROVE  /\ Calls(r) \in Seq(Entries)
           /\ Len(Calls(r)) = IF failing[r] THEN 1 ELSE IF loops[r] THEN 11 ELSE 9
           /\ Len(Plan) = 4
           /\ Len(Review(loops[r])) = IF loops[r] THEN 6 ELSE 4
           /\ Plan \in Seq(Entries) /\ Review(loops[r]) \in Seq(Entries)
           /\ ~failing[r] => Calls(r)[4] = Entry("running", 30)
<1>1. /\ Entry("running", NoHint) \in Entries /\ Entry("running", 15) \in Entries
      /\ Entry("running", 30) \in Entries /\ Entry("running", 72) \in Entries
      /\ Entry("running", 82) \in Entries /\ Entry("running", 90) \in Entries
      /\ Entry("completed", NoHint) \in Entries /\ Entry("failed", NoHint) \in Entries
      /\ Entry(verdict[r], NoHint) \in Entries
  <2>1. {NoHint, 15, 30, 72, 82, 90} \subseteq NoHint .. 100
    BY DEF NoHint
  <2> QED  BY <2>1, EntryType DEF Settled
<1>2. Plan \in Seq(Entries) /\ Len(Plan) = 4 /\ Plan[4] = Entry("running", 30)
  BY <1>1 DEF Plan
<1>3. Review(loops[r]) \in Seq(Entries) /\ Len(Review(loops[r])) = IF loops[r] THEN 6 ELSE 4
  <2> DEFINE first == <<Entry("completed", NoHint), Entry("running", 72), Entry("completed", NoHint)>>
             fix   == IF loops[r] THEN <<Entry("running", 82), Entry("completed", NoHint)>> ELSE <<>>
             last  == <<Entry("running", 90)>>
  <2>1. first \in Seq(Entries) /\ Len(first) = 3
    BY <1>1
  <2>2. fix \in Seq(Entries) /\ Len(fix) = IF loops[r] THEN 2 ELSE 0
    BY <1>1
  <2>3. last \in Seq(Entries) /\ Len(last) = 1
    BY <1>1
  <2>4. Review(loops[r]) = first \o fix \o last
    BY DEF Review
  <2> HIDE DEF first, fix, last
  <2>5. first \o fix \in Seq(Entries) /\ Len(first \o fix) = Len(first) + Len(fix)
    BY <2>1, <2>2, ConcatEntries, Zenon
  <2>6. /\ (first \o fix) \o last \in Seq(Entries)
        /\ Len((first \o fix) \o last) = Len(first \o fix) + Len(last)
    BY <2>3, <2>5, ConcatEntries, Zenon
  <2>7. Len((first \o fix) \o last) = IF loops[r] THEN 6 ELSE 4
    <3>1. /\ Len((first \o fix) \o last) = Len(first \o fix) + Len(last)
          /\ Len(first \o fix) = Len(first) + Len(fix)
      BY <2>5, <2>6, Zenon
    <3>2. Len(first) = 3 /\ Len(fix) = (IF loops[r] THEN 2 ELSE 0) /\ Len(last) = 1
      BY <2>1, <2>2, <2>3, Zenon
    <3>. DEFINE a == Len((first \o fix) \o last)
                b == Len(first \o fix)
                c == Len(first)
                d == Len(fix)
                e == Len(last)
    <3>3. a = b + e /\ b = c + d /\ c = 3 /\ d = (IF loops[r] THEN 2 ELSE 0) /\ e = 1
      BY <3>1, <3>2, Zenon
    <3>. HIDE DEF a, b, c, d, e
    <3>4. a = IF loops[r] THEN 6 ELSE 4
      BY <3>3
    <3> QED  BY <3>4 DEF a
  <2> QED  BY <2>4, <2>6, <2>7
<1>4. CASE failing[r]
  BY <1>1, <1>2, <1>3, <1>4 DEF Calls
<1>5. CASE ~failing[r]
  <2> DEFINE review == Review(loops[r])
             last   == <<Entry(verdict[r], NoHint)>>
  <2>1. last \in Seq(Entries) /\ Len(last) = 1
    BY <1>1
  <2>2. Calls(r) = (Plan \o review) \o last
    BY <1>5 DEF Calls
  <2> HIDE DEF review, last
  <2>3. review \in Seq(Entries) /\ Len(review) = IF loops[r] THEN 6 ELSE 4
    BY <1>3 DEF review
  <2>4. /\ Plan \o review \in Seq(Entries) /\ Len(Plan \o review) = Len(Plan) + Len(review)
        /\ \A i \in 1 .. Len(Plan) : (Plan \o review)[i] = Plan[i]
    BY <1>2, <2>3, ConcatEntries, Zenon
  <2>5. /\ Calls(r) \in Seq(Entries) /\ Len(Calls(r)) = Len(Plan \o review) + Len(last)
        /\ \A i \in 1 .. Len(Plan \o review) : Calls(r)[i] = (Plan \o review)[i]
    <3>. DEFINE front == Plan \o review
    <3>1. front \in Seq(Entries)
      BY <2>4
    <3>. HIDE DEF front
    <3>2. /\ front \o last \in Seq(Entries)
          /\ Len(front \o last) = Len(front) + Len(last)
          /\ \A i \in 1 .. Len(front) : (front \o last)[i] = front[i]
      BY <2>1, <3>1, ConcatEntries, Zenon
    <3>3. Calls(r) = front \o last
      BY <2>2 DEF front
    <3> QED  BY <3>2, <3>3 DEF front
  <2>6. Len(Calls(r)) = 5 + Len(review)
    BY <1>2, <2>1, <2>3, <2>4, <2>5
  <2>7. Calls(r)[4] = Plan[4]
    BY <1>2, <2>3, <2>4, <2>5
  <2>8. Len(Calls(r)) = IF loops[r] THEN 11 ELSE 9
    BY <2>3, <2>6
  <2> QED  BY <1>2, <1>3, <1>5, <2>5, <2>7, <2>8, Zenon
<1> QED  BY <1>4, <1>5

\* Where a run can be: it has at most record_completion left after its track
\* calls, and the orchestrator works after the fourth of them.
RunType ==
    /\ state \in [Runs -> {"new", "tracking", "executing", "validating", "over"}]
    /\ failing \in [Runs -> BOOLEAN]
    /\ step \in [Runs -> 1 .. 12]
    /\ cmd \in [Runs -> Commands]
    /\ loc \in [Runs -> Snapshot]
    /\ loops \in [Runs -> BOOLEAN]
    /\ verdict \in [Runs -> Settled]
CallsMade(r) == IF failing[r] THEN 1 ELSE IF loops[r] THEN 11 ELSE 9
Place(r) ==
    /\ step[r] <= CallsMade(r) + 1
    /\ state[r] = "executing" => step[r] = 5 /\ ~failing[r]
    /\ state[r] # "tracking" => cmd[r] = "get"
StoreType ==
    /\ snap \in [Tasks -> Snapshot]
    /\ active \subseteq Tasks
    /\ recent \in Seq(Runs)
ClientType ==
    /\ client \in [Clients -> {"new", "greeted", "listening", "gone"}]
    /\ queue \in [Clients -> Seq(Snapshot)]
    /\ view \in [Clients -> Snapshot]
EnvType ==
    /\ crashes \in 0 .. MaxCrashes
    /\ lapsed \subseteq Tasks
StepInv ==
    /\ RunType /\ StoreType /\ ClientType /\ EnvType
    /\ \A r \in Runs : Place(r)

LEMMA MissingType == Missing \in Snapshot
  BY DEF Missing, Snapshot, Settled, NoHint

\* The entry of a call, and the snapshot it makes.
LEMMA CallType ==
    ASSUME RunType, NEW r \in Runs, Place(r)
    PROVE  /\ Call(r) \in Entries \cup [status : Settled, hint : {100}, final : {TRUE}]
           /\ Completing(r) <=> step[r] = CallsMade(r) + 1
<1>1. failing[r] \in BOOLEAN /\ loops[r] \in BOOLEAN /\ verdict[r] \in Settled /\ step[r] \in 1 .. 12
  BY DEF RunType
<1>2. Calls(r) \in Seq(Entries) /\ Len(Calls(r)) = CallsMade(r)
  BY <1>1, CallsShape DEF CallsMade
<1>3. Completing(r) <=> step[r] = CallsMade(r) + 1
  BY <1>2 DEF Completing
<1>4. CASE Completing(r)
  <2>1. Outcome(r) \in Settled
    BY <1>1 DEF Outcome, Settled
  <2> QED  BY <1>3, <1>4, <2>1 DEF Call
<1>5. CASE ~Completing(r)
  <2>1. step[r] \in 1 .. Len(Calls(r))
    BY <1>1, <1>2, <1>3, <1>5 DEF Place, CallsMade
  <2>2. Calls(r)[step[r]] \in Entries
    BY <1>2, <2>1
  <2> QED  BY <1>3, <1>5, <2>2 DEF Call
<1> QED  BY <1>4, <1>5

LEMMA UpdateType ==
    ASSUME NEW s \in Snapshot,
           NEW e \in Entries \cup [status : Settled, hint : {100}, final : {TRUE}]
    PROVE  Update(s, e) \in Snapshot
<1>1. /\ e.status \in {"pending", "running"} \cup Settled
      /\ e.hint \in NoHint .. 100 /\ e.final \in BOOLEAN
  <2>1. CASE e \in Entries
    BY <2>1 DEF Entries, Settled
  <2>2. CASE e \in [status : Settled, hint : {100}, final : {TRUE}]
    <3>1. e.status \in Settled /\ e.hint = 100 /\ e.final = TRUE
      BY <2>2
    <3>2. 100 \in NoHint .. 100
      BY DEF NoHint
    <3> QED  BY <3>1, <3>2
  <2> QED  BY <2>1, <2>2
<1>2. /\ s.n \in Nat /\ s.hint \in NoHint .. 100 /\ s.progress \in 0 .. 100
  BY DEF Snapshot
<1> DEFINE hint == IF e.hint = NoHint THEN s.hint ELSE e.hint
           progress == IF hint # NoHint THEN hint
                       ELSE IF e.status = "completed" THEN 100 ELSE s.progress
<1>3. hint \in NoHint .. 100
  BY <1>1, <1>2
<1>4. progress \in 0 .. 100
  BY <1>2, <1>3 DEF NoHint
<1>5. Update(s, e) = [n |-> s.n + 1, status |-> e.status, hint |-> hint,
                      progress |-> progress, final |-> e.final]
  BY DEF Update
<1> HIDE DEF hint, progress
<1> QED  BY <1>1, <1>2, <1>3, <1>4, <1>5 DEF Snapshot

\* What a run's step does to the runs' own variables: only its own entries change.
LEMMA RaiseTypes ==
    ASSUME RunType, NEW r \in Runs, Raise(r)
    PROVE  RunType' /\ Place(r)' /\ \A q \in Runs \ {r} : Place(q) => Place(q)'
<1>1. RunType'
  BY MissingType DEF RunType, Raise, Leave, Commands, Settled
<1>2. failing'[r] /\ step'[r] = 1 /\ state'[r] \in {"over", "tracking"} /\ cmd'[r] = "get"
  BY DEF Raise, Leave, RunType
<1>3. Place(r)'
  BY <1>2 DEF Place, CallsMade
<1>4. ASSUME NEW q \in Runs \ {r}, Place(q) PROVE Place(q)'
  BY <1>4 DEF Raise, Leave, RunType, Place, CallsMade
<1> QED  BY <1>1, <1>3, <1>4

LEMMA DoneTypes ==
    ASSUME RunType, NEW r \in Runs, NEW next \in Commands, Done(r, next), state[r] = "tracking",
           Place(r)
    PROVE  RunType' /\ Place(r)' /\ \A q \in Runs \ {r} : Place(q) => Place(q)'
<1>1. CASE Raise(r)
  BY <1>1, RaiseTypes
<1>2. CASE /\ cmd' = [cmd EXCEPT ![r] = next]
           /\ UNCHANGED <<state, failing, step, loc, loops, verdict>>
  BY <1>2 DEF RunType, Place, CallsMade
<1> QED  BY <1>1, <1>2 DEF Done

LEMMA RunStepTypes ==
    ASSUME StepInv, NEW r \in Runs, Begin(r) \/ RunStep(r)
    PROVE  RunType' /\ Place(r)' /\ \A q \in Runs \ {r} : Place(q) => Place(q)'
<1> USE DEF StepInv
<1>1. CASE Begin(r)
  BY <1>1 DEF Begin, RunType, Place, CallsMade
<1>2. CASE Execute(r)
  <2>1. CASE Raise(r)
    BY <2>1, RaiseTypes
  <2>2. CASE /\ \E more \in BOOLEAN : loops' = [loops EXCEPT ![r] = more]
             /\ state' = [state EXCEPT ![r] = "tracking"]
             /\ UNCHANGED <<failing, step, cmd, loc, verdict>>
    <3>1. state[r] = "executing" /\ step[r] = 5 /\ ~failing[r]
      BY <1>2 DEF Execute, Place
    <3>2. RunType'
      BY <2>2 DEF RunType
    <3>3. Place(r)'
      BY <2>2, <3>1 DEF RunType, Place, CallsMade
    <3>4. ASSUME NEW q \in Runs \ {r}, Place(q) PROVE Place(q)'
      BY <2>2, <3>4 DEF RunType, Place, CallsMade
    <3> QED  BY <3>2, <3>3, <3>4
  <2> QED  BY <1>2, <2>1, <2>2 DEF Execute
<1>3. CASE Validate(r)
  <2>1. CASE Raise(r)
    BY <2>1, RaiseTypes
  <2>2. CASE /\ \E v \in Settled : verdict' = [verdict EXCEPT ![r] = v]
             /\ state' = [state EXCEPT ![r] = "tracking"]
             /\ UNCHANGED <<failing, step, cmd, loc, loops>>
    BY <2>2 DEF RunType, Place, CallsMade
  <2> QED  BY <1>3, <2>1, <2>2 DEF Validate
<1>4. CASE CommandFails(r)
  BY <1>4, RaiseTypes DEF CommandFails
<1>5. CASE LoadSnapshot(r)
  <2>1. Update(snap[TaskOf[r]], Call(r)) \in Snapshot
    <3>1. TaskOf[r] \in Tasks
      BY MonitorAssumption
    <3>2. snap[TaskOf[r]] \in Snapshot
      BY <3>1 DEF StoreType
    <3>3. Call(r) \in Entries \cup [status : Settled, hint : {100}, final : {TRUE}]
      BY CallType
    <3> QED  BY <3>2, <3>3, UpdateType
  <2>2. /\ loc' = [loc EXCEPT ![r] = Update(snap[TaskOf[r]], Call(r))]
        /\ cmd' = [cmd EXCEPT ![r] = "setex"] /\ state[r] = "tracking"
        /\ UNCHANGED <<state, failing, step, loops, verdict>>
    BY <1>5 DEF LoadSnapshot, At
  <2> HIDE DEF StepInv
  <2>3. RunType'
    BY <2>1, <2>2 DEF RunType, Commands, StepInv
  <2>4. Place(r)' /\ \A q \in Runs \ {r} : Place(q) => Place(q)'
    BY <2>2 DEF RunType, Place, CallsMade, StepInv
  <2> QED  BY <2>3, <2>4
<1>6. CASE PersistStatus(r) \/ PersistActiveHint(r) \/ IncrTotal(r) \/ IncrOutcome(r)
           \/ IncrModel(r) \/ PushRecent(r)
  <2>1. \E next \in Commands : Done(r, next)
    BY <1>6 DEF PersistStatus, PersistActiveHint, IncrTotal, IncrOutcome, IncrModel,
                PushRecent, Commands
  <2>2. state[r] = "tracking"
    BY <1>6 DEF PersistStatus, PersistActiveHint, IncrTotal, IncrOutcome, IncrModel,
                PushRecent, At
  <2> QED  BY <2>1, <2>2, DoneTypes
<1>7. CASE Publish(r)
  <2>1. CASE Completing(r)
    <3>1. /\ cmd' = [cmd EXCEPT ![r] = "total"] /\ loc' = [loc EXCEPT ![r] = Missing]
          /\ state[r] = "tracking" /\ UNCHANGED <<state, step, failing, loops, verdict>>
      BY <1>7, <2>1 DEF Publish, StartCounting, At
    <3> QED  BY <3>1, MissingType DEF RunType, Place, CallsMade, Commands
  <2>2. CASE ~Completing(r)
    <3>1. AfterTrack(r) /\ loc' = [loc EXCEPT ![r] = Missing] /\ UNCHANGED <<failing, loops, verdict>>
      BY <1>7, <2>2 DEF Publish
    <3>2. step[r] <= CallsMade(r)
      <4>1. step[r] # CallsMade(r) + 1 /\ step[r] <= CallsMade(r) + 1
        BY <2>2, CallType DEF Place
      <4>2. step[r] \in 1 .. 12 /\ CallsMade(r) \in {1, 9, 11}
        BY DEF RunType, CallsMade
      <4> HIDE DEF StepInv
      <4> QED  BY <4>1, <4>2
    <3>3. /\ step' = [step EXCEPT ![r] = @ + 1] /\ cmd' = [cmd EXCEPT ![r] = "get"]
          /\ \E s \in {"tracking", "executing", "validating"} :
                 /\ state' = [state EXCEPT ![r] = s]
                 /\ s = "executing" => step[r] = 4 /\ ~failing[r]
      <4>1. failing[r] \in BOOLEAN /\ loops[r] \in BOOLEAN /\ verdict[r] \in Settled
        BY DEF RunType
      <4>2. Len(Plan) = 4
        BY <4>1, CallsShape
      <4> HIDE DEF StepInv
      <4> DEFINE new == CASE failing[r] -> "tracking"
                          [] step[r] = Len(Plan) -> "executing"
                          [] step[r] = Len(Plan) + Len(Review(loops[r])) -> "validating"
                          [] OTHER -> "tracking"
      <4>3. /\ step' = [step EXCEPT ![r] = @ + 1] /\ cmd' = [cmd EXCEPT ![r] = "get"]
            /\ state' = [state EXCEPT ![r] = new]
        BY <3>1 DEF AfterTrack
      <4>4. failing[r] => step[r] # 4 /\ step[r] # Len(Plan) + Len(Review(loops[r]))
        <5>1. failing[r] => step[r] <= 1
          BY <3>2 DEF CallsMade
        <5>2. Len(Plan) + Len(Review(loops[r])) \in {8, 10} /\ step[r] \in 1 .. 12
          <6>1. Len(Review(loops[r])) = IF loops[r] THEN 6 ELSE 4
            BY <4>1, CallsShape
          <6>2. step[r] \in 1 .. 12
            BY DEF RunType, StepInv
          <6> QED  BY <4>2, <6>1, <6>2
        <5> QED  BY <5>1, <5>2
      <4>5. new \in {"tracking", "executing", "validating"}
        OBVIOUS
      <4>6. new = "executing" => step[r] = 4 /\ ~failing[r]
        <5>1. CASE failing[r]
          BY <4>2, <4>4, <5>1
        <5>2. CASE ~failing[r] /\ step[r] = 4
          BY <5>2
        <5>3. CASE ~failing[r] /\ step[r] # 4
          BY <4>2, <5>3
        <5> QED  BY <5>1, <5>2, <5>3
      <4> HIDE DEF new
      <4> QED  BY <4>3, <4>5, <4>6
    <3> HIDE DEF StepInv
    <3>4. RunType'
      BY <3>1, <3>2, <3>3, MissingType DEF RunType, Commands, CallsMade, StepInv
    <3>5. Place(r)'
      BY <3>1, <3>2, <3>3 DEF RunType, Place, CallsMade, StepInv
    <3>6. ASSUME NEW q \in Runs \ {r}, Place(q) PROVE Place(q)'
      BY <3>1, <3>3, <3>6 DEF RunType, Place, CallsMade, StepInv
    <3> QED  BY <3>4, <3>5, <3>6
  <2> QED  BY <2>1, <2>2
<1>8. CASE TrimRecent(r)
  <2>1. CASE Raise(r)
    BY <2>1, RaiseTypes
  <2>2. CASE /\ state' = [state EXCEPT ![r] = "over"] /\ cmd' = [cmd EXCEPT ![r] = "get"]
             /\ Leave(r) /\ UNCHANGED <<failing, loc>>
    BY <2>2 DEF RunType, Place, CallsMade, Leave, Commands, Settled
  <2> QED  BY <1>8, <2>1, <2>2 DEF TrimRecent
<1> QED  BY <1>1, <1>2, <1>3, <1>4, <1>5, <1>6, <1>7, <1>8 DEF RunStep

LEMMA StepInvInit == ASSUME Init PROVE StepInv
<1>1. RunType
  BY MissingType DEF Init, RunType, Commands, Settled
<1>2. StoreType
  BY MissingType, MonitorAssumption DEF Init, StoreType
<1>3. ClientType
  BY MissingType DEF Init, ClientType
<1>4. EnvType
  BY MonitorAssumption DEF Init, EnvType
<1>5. \A r \in Runs : Place(r)
  BY DEF Init, Place, CallsMade
<1> QED  BY <1>1, <1>2, <1>3, <1>4, <1>5 DEF StepInv

\* What a run stores is well formed.
LEMMA RunStepStore ==
    ASSUME StepInv, NEW r \in Runs, Begin(r) \/ RunStep(r)
    PROVE  StoreType' /\ ClientType' /\ EnvType'
<1> USE DEF store, counters, clientVars, env
<1>1. TaskOf[r] \in Tasks
  BY MonitorAssumption
<1>2. RunType /\ StoreType /\ ClientType /\ EnvType
  BY DEF StepInv
<1>3. CASE UNCHANGED <<snap, active, recent, clientVars, env>>
  BY <1>2, <1>3 DEF StoreType, ClientType, EnvType
<1>4. CASE Begin(r) \/ Execute(r) \/ Validate(r) \/ CommandFails(r) \/ LoadSnapshot(r)
           \/ IncrTotal(r) \/ IncrOutcome(r) \/ IncrModel(r)
  BY <1>3, <1>4 DEF Begin, Execute, Validate, CommandFails, LoadSnapshot,
                    IncrTotal, IncrOutcome, IncrModel
<1>5. CASE PersistStatus(r)
  BY <1>1, <1>2, <1>5 DEF PersistStatus, StoreType, ClientType, EnvType, RunType
<1>6. CASE PersistActiveHint(r)
  BY <1>1, <1>2, <1>6 DEF PersistActiveHint, StoreType, ClientType, EnvType
<1>7. CASE Publish(r)
  <2>1. loc[r] \in Snapshot
    BY <1>2 DEF RunType
  <2>2. queue' \in [Clients -> Seq(Snapshot)]
    <3>1. ASSUME NEW c \in Clients
          PROVE  Append(queue[c], loc[r]) \in Seq(Snapshot) /\ queue[c] \in Seq(Snapshot)
      <4>1. queue[c] \in Seq(Snapshot)
        BY <1>2 DEF ClientType
      <4> QED  BY <2>1, <4>1, AppendProperties
    <3>2. \/ queue' = queue
          \/ queue' = [c \in Clients |-> IF client[c] = "listening" /\ TaskOf[c] = TaskOf[r]
                                           THEN Append(queue[c], loc[r]) ELSE queue[c]]
      BY <1>7 DEF Publish
    <3>3. queue \in [Clients -> Seq(Snapshot)]
      BY <1>2 DEF ClientType
    <3> QED  BY <3>1, <3>2, <3>3, Zenon
  <2> QED  BY <1>2, <1>7, <2>2 DEF Publish, StoreType, ClientType, EnvType
<1>8. CASE PushRecent(r)
  <2>1. recent' \in Seq(Runs)
    BY <1>2, <1>8 DEF PushRecent, StoreType
  <2> QED  BY <1>2, <1>8, <2>1 DEF PushRecent, StoreType, ClientType, EnvType
<1>9. CASE TrimRecent(r)
  <2>1. recent' \in Seq(Runs)
    <3> DEFINE few == IF Len(recent) < RecentCap THEN Len(recent) ELSE RecentCap
    <3>1. recent' = SubSeq(recent, 1, few)
      BY <1>9 DEF TrimRecent
    <3>2. recent \in Seq(Runs) /\ Len(recent) \in Nat
      BY <1>2 DEF StoreType
    <3>3. few \in 0 .. Len(recent)
      BY <3>2, MonitorAssumption
    <3>4. \A i \in 1 .. few : recent[i] \in Runs
      BY <3>2, <3>3
    <3> HIDE DEF few
    <3> QED  BY <3>1, <3>2, <3>3, <3>4, SubSeqProperties
  <2> QED  BY <1>2, <1>9, <2>1 DEF TrimRecent, StoreType, ClientType, EnvType
<1> QED  BY <1>4, <1>5, <1>6, <1>7, <1>8, <1>9 DEF RunStep

LEMMA StepInvStep == ASSUME StepInv, [Next]_vars PROVE StepInv'
<1> USE DEF store, counters, runVars, clientVars, env
<1>0. RunType /\ StoreType /\ ClientType /\ EnvType /\ \A r \in Runs : Place(r)
  BY DEF StepInv
<1>1. ASSUME NEW r \in Runs, Begin(r) \/ RunStep(r)
      PROVE  StepInv'
  <2>1. RunType' /\ Place(r)' /\ \A q \in Runs \ {r} : Place(q) => Place(q)'
    BY <1>1, RunStepTypes
  <2>2. StoreType' /\ ClientType' /\ EnvType'
    BY <1>1, RunStepStore
  <2> QED  BY <1>0, <2>1, <2>2 DEF StepInv
<1>2. ASSUME NEW c \in Clients, GetStatus(c) \/ Subscribe(c) \/ Deliver(c) \/ Disconnect(c)
      PROVE  StepInv'
  <2>1. UNCHANGED <<snap, active, recent, runVars, env>>
    BY <1>2 DEF GetStatus, Subscribe, Deliver, Disconnect
  <2>2. TaskOf[c] \in Tasks
    BY MonitorAssumption
  <2>3. ClientType'
    <3>1. CASE GetStatus(c)
      BY <1>0, <2>2, <3>1 DEF GetStatus, ClientType, StoreType
    <3>2. CASE Subscribe(c)
      BY <1>0, <3>2 DEF Subscribe, ClientType
    <3>3. CASE Deliver(c)
      <4>1. queue[c] \in Seq(Snapshot) /\ queue[c] # <<>>
        BY <1>0, <3>3 DEF Deliver, ClientType
      <4>2. Head(queue[c]) \in Snapshot /\ Tail(queue[c]) \in Seq(Snapshot)
        BY <4>1, HeadTailProperties
      <4> QED  BY <1>0, <3>3, <4>2 DEF Deliver, ClientType
    <3>4. CASE Disconnect(c)
      BY <1>0, <3>4 DEF Disconnect, ClientType
    <3> QED  BY <1>2, <3>1, <3>2, <3>3, <3>4
  <2>4. RunType' /\ StoreType' /\ EnvType' /\ \A r \in Runs : Place(r)'
    BY <1>0, <2>1 DEF RunType, StoreType, EnvType, Place, CallsMade
  <2> QED  BY <2>3, <2>4 DEF StepInv
<1>3. ASSUME NEW t \in Tasks, Expire(t)
      PROVE  StepInv'
  <2>1. UNCHANGED <<active, recent, runVars, clientVars, crashes>>
    BY <1>3 DEF Expire
  <2>2. RunType' /\ ClientType' /\ \A r \in Runs : Place(r)'
    BY <1>0, <2>1 DEF RunType, ClientType, Place, CallsMade
  <2>3. StoreType' /\ EnvType'
    BY <1>0, <1>3, MissingType DEF Expire, StoreType, EnvType
  <2> QED  BY <2>2, <2>3 DEF StepInv
<1>4. CASE Crash
  <2>1. RunType'
    BY <1>0, <1>4, MissingType DEF Crash, RunType, Commands, Settled, Live
  <2>2. StoreType'
    <3>1. CASE UseRedis
      BY <1>0, <1>4, <3>1 DEF Crash, StoreType
    <3>2. CASE ~UseRedis
      <4>1. snap' = [t \in Tasks |-> Missing] /\ active' = {} /\ recent' = <<>>
        BY <1>4, <3>2 DEF Crash
      <4>2. <<>> \in Seq(Runs)
        OBVIOUS
      <4> QED  BY <4>1, <4>2, MissingType DEF StoreType
    <3> QED  BY <3>1, <3>2
  <2>3. ClientType'
    BY <1>0, <1>4 DEF Crash, ClientType
  <2>4. EnvType'
    BY <1>0, <1>4, MonitorAssumption DEF Crash, EnvType
  <2>5. ASSUME NEW r \in Runs PROVE Place(r)'
    <3>1. step'[r] = 1 /\ cmd'[r] = "get" /\ ~failing'[r] /\ state'[r] \in {"new", "over"}
      BY <1>4 DEF Crash, Live
    <3> QED  BY <3>1 DEF Place, CallsMade
  <2> QED  BY <2>1, <2>2, <2>3, <2>4, <2>5 DEF StepInv
<1>5. CASE UNCHANGED vars \/ NewDay
  BY <1>0, <1>5 DEF vars, NewDay, StepInv, RunType, StoreType, ClientType, EnvType, Place, CallsMade
<1> QED  BY <1>1, <1>2, <1>3, <1>4, <1>5 DEF Next, Quiet

\* Type correctness; a run never has more than record_completion left after its
\* nine or eleven track calls, so no call of run_task's list is ever missing.
THEOREM TypeCorrect == Spec => []TypeOK
<1>1. Spec => [](CountType /\ CountInv)
  <2>1. Init => CountType /\ CountInv
    BY CountInit
  <2>2. CountType /\ CountInv /\ [Next]_vars => (CountType /\ CountInv)'
    BY CountStep
  <2> QED  BY <2>1, <2>2, PTL DEF Spec
<1>2. Spec => []StepInv
  <2>1. Init => StepInv
    BY StepInvInit
  <2>2. StepInv /\ [Next]_vars => StepInv'
    BY StepInvStep
  <2> QED  BY <2>1, <2>2, PTL DEF Spec
<1>3. CountType /\ StepInv => TypeOK
  BY DEF CountType, Counts, StepInv, RunType, StoreType, ClientType, EnvType, TypeOK
<1> QED  BY <1>1, <1>2, <1>3, PTL

---------------------------------------------------------------------------
(* A task the orchestrator works on is listed *)

\* Of the runs of one task at most one is alive.
Alone == \A r \in Runs : \A q \in Runs \ {r} : TaskOf[q] = TaskOf[r] => ~Live(q) \/ ~Live(r)

\* How much of the call under way has reached the store: what it has built comes
\* from what is stored and carries the call's status, from SETEX on it is what is stored, and from
\* SADD on the task is in the index; while the orchestrator works this is still so.
Reached(r) ==
    LET t == TaskOf[r] IN
    /\ state[r] = "tracking" /\ cmd[r] = "setex" => loc[r] = Update(snap[t], Call(r))
    /\ state[r] = "tracking" /\ cmd[r] \in {"setex", "sadd", "publish"} =>
         loc[r].status = Call(r).status /\ loc[r] # Missing
    /\ state[r] = "tracking" /\ cmd[r] \in {"sadd", "publish"} => snap[t] = loc[r]
    /\ state[r] = "tracking" /\ cmd[r] = "publish" /\ UseRedis => t \in active
    /\ state[r] = "executing" /\ snap[t] # Missing => Listed(t)
ListInv == Alone /\ \A r \in Runs : Reached(r)

\* What a step of run r leaves alone.
OnlyOf(r) ==
    /\ \A q \in Runs \ {r} :
           /\ state'[q] = state[q] /\ failing'[q] = failing[q] /\ step'[q] = step[q]
           /\ cmd'[q] = cmd[q] /\ loc'[q] = loc[q] /\ loops'[q] = loops[q]
           /\ verdict'[q] = verdict[q]
    /\ \A t \in Tasks \ {TaskOf[r]} : snap'[t] = snap[t]
    /\ active \subseteq active'

LEMMA RaiseOnlyOf ==
    ASSUME RunType, NEW r \in Runs, Raise(r), UNCHANGED <<snap, active>>
    PROVE  OnlyOf(r) /\ state'[r] \in {"over", "tracking"} /\ cmd'[r] = "get"
  BY DEF RunType, Raise, Leave, OnlyOf

LEMMA DoneOnlyOf ==
    ASSUME RunType, NEW r \in Runs, NEW next, Done(r, next),
           \A t \in Tasks \ {TaskOf[r]} : snap'[t] = snap[t], active \subseteq active'
    PROVE  OnlyOf(r)
  BY DEF RunType, Done, Raise, Leave, OnlyOf

LEMMA RunStepOnlyOf ==
    ASSUME RunType, StoreType, NEW r \in Runs, Begin(r) \/ RunStep(r)
    PROVE  OnlyOf(r)
<1> USE DEF store, counters, env, clientVars
<1>1. CASE Begin(r)
  BY <1>1 DEF Begin, RunType, OnlyOf
<1>2. CASE Execute(r)
  BY <1>2, RaiseOnlyOf DEF Execute, RunType, OnlyOf
<1>3. CASE Validate(r)
  BY <1>3, RaiseOnlyOf DEF Validate, RunType, OnlyOf
<1>4. CASE CommandFails(r)
  BY <1>4, RaiseOnlyOf DEF CommandFails
<1>5. CASE LoadSnapshot(r)
  BY <1>5 DEF LoadSnapshot, RunType, OnlyOf
<1>6. CASE PersistStatus(r)
  <2>1. \A t \in Tasks \ {TaskOf[r]} : snap'[t] = snap[t]
    BY <1>6 DEF PersistStatus, StoreType
  <2>2. active' = active /\ Done(r, "sadd")
    BY <1>6 DEF PersistStatus
  <2> QED  BY <2>1, <2>2, DoneOnlyOf
<1>7. CASE PersistActiveHint(r)
  <2>1. snap' = snap /\ active \subseteq active' /\ Done(r, "publish")
    BY <1>7 DEF PersistActiveHint
  <2> QED  BY <2>1, DoneOnlyOf
<1>8. CASE IncrTotal(r) \/ IncrOutcome(r) \/ IncrModel(r) \/ PushRecent(r)
  <2>1. snap' = snap /\ active' = active /\ \E next \in Commands : Done(r, next)
    BY <1>8 DEF IncrTotal, IncrOutcome, IncrModel, PushRecent, Commands
  <2> QED  BY <2>1, DoneOnlyOf
<1>9. CASE Publish(r)
  BY <1>9 DEF Publish, AfterTrack, StartCounting, RunType, OnlyOf
<1>10. CASE TrimRecent(r)
  BY <1>10, RaiseOnlyOf DEF TrimRecent, Leave, RunType, OnlyOf
<1> QED  BY <1>1, <1>2, <1>3, <1>4, <1>5, <1>6, <1>7, <1>8, <1>9, <1>10 DEF RunStep

\* A run that steps is alive, and nobody wakes up but by Begin.
LEMMA StepperLives ==
    ASSUME NEW r \in Runs, RunStep(r)
    PROVE  Live(r)
  BY DEF RunStep, Execute, Validate, CommandFails, LoadSnapshot, PersistStatus,
         PersistActiveHint, Publish, IncrTotal, IncrOutcome, IncrModel, PushRecent,
         TrimRecent, At, Live

LEMMA AloneStep ==
    ASSUME RunType, StoreType, Alone, ~DbFails, NEW r \in Runs, Begin(r) \/ RunStep(r)
    PROVE  Alone'
<1>1. \A q \in Runs \ {r} : Live(q)' <=> Live(q)
  BY RunStepOnlyOf DEF OnlyOf, Live
<1>2. CASE Begin(r)
  <2>1. \A q \in Runs \ {r} : TaskOf[q] = TaskOf[r] => ~Live(q)
    BY <1>2 DEF Begin
  <2> QED  BY <1>1, <2>1 DEF Alone
<1>3. CASE RunStep(r)
  BY <1>1, <1>3, StepperLives DEF Alone
<1> QED  BY <1>2, <1>3

\* The runs of other tasks, and the dead ones of this task, notice nothing.
LEMMA OthersReached ==
    ASSUME RunType, StoreType, Alone, ~DbFails, NEW r \in Runs, Begin(r) \/ RunStep(r),
           NEW q \in Runs \ {r}, Reached(q)
    PROVE  Reached(q)'
<1>1. OnlyOf(r)
  BY RunStepOnlyOf
<1>2. CASE TaskOf[q] = TaskOf[r]
  <2>1. ~Live(q)
    BY <1>2, StepperLives DEF Begin, Alone
  <2>2. state'[q] \in {"new", "over"}
    BY <1>1, <2>1 DEF OnlyOf, Live
  <2> QED  BY <2>2 DEF Reached
<1>3. CASE TaskOf[q] # TaskOf[r]
  <2>1. TaskOf[q] \in Tasks
    BY MonitorAssumption
  <2>2. snap'[TaskOf[q]] = snap[TaskOf[q]] /\ active \subseteq active'
    BY <1>1, <1>3, <2>1 DEF OnlyOf
  <2>3. /\ state'[q] = state[q] /\ failing'[q] = failing[q] /\ step'[q] = step[q]
        /\ cmd'[q] = cmd[q] /\ loc'[q] = loc[q] /\ loops'[q] = loops[q]
        /\ verdict'[q] = verdict[q]
    BY <1>1 DEF OnlyOf
  <2>4. Call(q)' = Call(q)
    BY <2>3 DEF Call, Completing, Outcome, Calls
  <2> QED  BY <2>2, <2>3, <2>4 DEF Reached, Listed
<1> QED  BY <1>2, <1>3

\* A command that has had its effect, or raised.
LEMMA DoneReached ==
    ASSUME RunType, NEW r \in Runs, NEW next \in Commands, Done(r, next),
           state[r] = "tracking",
           next \in {"sadd", "publish"} =>
               loc[r].status = Call(r).status /\ loc[r] # Missing /\ snap'[TaskOf[r]] = loc[r],
           next = "publish" /\ UseRedis => TaskOf[r] \in active',
           next # "setex"
    PROVE  Reached(r)'
<1>1. CASE Raise(r)
  <2>1. state'[r] \in {"over", "tracking"} /\ cmd'[r] = "get"
    BY <1>1 DEF Raise, RunType
  <2> QED  BY <2>1 DEF Reached
<1>2. CASE /\ cmd' = [cmd EXCEPT ![r] = next]
           /\ UNCHANGED <<state, failing, step, loc, loops, verdict>>
  <2>1. Call(r)' = Call(r)
    BY <1>2 DEF Call, Completing, Outcome, Calls
  <2>2. cmd'[r] = next /\ state'[r] = "tracking" /\ loc'[r] = loc[r]
    BY <1>2 DEF RunType
  <2> QED  BY <2>1, <2>2 DEF Reached
<1> QED  BY <1>1, <1>2 DEF Done

\* Nothing is asked of a run that has not loaded a snapshot.
LEMMA IdleReached ==
    ASSUME NEW r \in Runs, state'[r] # "executing",
           state'[r] = "tracking" => cmd'[r] \notin {"setex", "sadd", "publish"}
    PROVE  Reached(r)'
  BY DEF Reached

LEMMA RunStepReached ==
    ASSUME StepInv, NEW r \in Runs, Reached(r), Begin(r) \/ RunStep(r)
    PROVE  Reached(r)'
<1> USE DEF store, counters, clientVars, env
<1>0. RunType /\ StoreType /\ Place(r)
  BY DEF StepInv
<1>1. CASE Begin(r) \/ Execute(r) \/ Validate(r) \/ CommandFails(r)
  <2>1. state'[r] \in {"tracking", "over"} /\ cmd'[r] = "get"
    BY <1>0, <1>1 DEF Begin, Execute, Validate, CommandFails, Raise, RunType, Place
  <2> QED  BY <2>1, IdleReached
<1>2. CASE LoadSnapshot(r)
  <2>1. /\ loc' = [loc EXCEPT ![r] = Update(snap[TaskOf[r]], Call(r))]
        /\ cmd' = [cmd EXCEPT ![r] = "setex"] /\ state[r] = "tracking"
        /\ UNCHANGED <<snap, active, state, failing, step, loops, verdict>>
    BY <1>2 DEF LoadSnapshot, At
  <2>2. Call(r)' = Call(r)
    BY <2>1 DEF Call, Completing, Outcome, Calls
  <2>3. Update(snap[TaskOf[r]], Call(r)).status = Call(r).status
    BY DEF Update
  <2>4. Update(snap[TaskOf[r]], Call(r)) # Missing
    <3>1. TaskOf[r] \in Tasks
      BY MonitorAssumption
    <3>2. snap[TaskOf[r]].n \in Nat
      BY <1>0, <3>1 DEF StoreType, Snapshot
    <3>3. Update(snap[TaskOf[r]], Call(r)).n = snap[TaskOf[r]].n + 1
      BY DEF Update
    <3>4. Missing.n = 0
      BY DEF Missing
    <3> QED  BY <3>2, <3>3, <3>4
  <2>5. cmd'[r] = "setex" /\ state'[r] = "tracking" /\ loc'[r] = Update(snap[TaskOf[r]], Call(r))
    BY <1>0, <2>1 DEF RunType
  <2>6. Update(snap[TaskOf[r]], Call(r))' = Update(snap[TaskOf[r]], Call(r))
    BY <2>1, <2>2 DEF Update
  <2> QED  BY <2>2, <2>3, <2>4, <2>5, <2>6 DEF Reached
<1>3. CASE PersistStatus(r)
  <2>1. /\ state[r] = "tracking" /\ cmd[r] = "setex" /\ Done(r, "sadd")
        /\ snap' = [snap EXCEPT ![TaskOf[r]] = loc[r]]
    BY <1>3 DEF PersistStatus, At
  <2>2. snap'[TaskOf[r]] = loc[r]
    BY <1>0, <2>1, MonitorAssumption DEF StoreType
  <2>3. loc[r].status = Call(r).status /\ loc[r] # Missing
    BY <2>1 DEF Reached
  <2>4. "sadd" \in Commands
    BY DEF Commands
  <2> QED  BY <1>0, <2>1, <2>2, <2>3, <2>4, DoneReached
<1>4. CASE PersistActiveHint(r)
  <2>1. /\ state[r] = "tracking" /\ cmd[r] = "sadd" /\ Done(r, "publish") /\ snap' = snap
        /\ UseRedis => TaskOf[r] \in active'
    BY <1>4 DEF PersistActiveHint, At
  <2>2. loc[r].status = Call(r).status /\ loc[r] # Missing /\ snap[TaskOf[r]] = loc[r]
    BY <2>1 DEF Reached
  <2>3. "publish" \in Commands
    BY DEF Commands
  <2> QED  BY <1>0, <2>1, <2>2, <2>3, DoneReached
<1>5. CASE IncrTotal(r) \/ IncrOutcome(r) \/ IncrModel(r) \/ PushRecent(r)
  <2>1. /\ state[r] = "tracking"
        /\ \E next \in Commands \ {"setex", "sadd", "publish"} : Done(r, next)
    BY <1>5 DEF IncrTotal, IncrOutcome, IncrModel, PushRecent, At, Commands
  <2> QED  BY <1>0, <2>1, DoneReached
<1>6. CASE Publish(r)
  <2>1. state[r] = "tracking" /\ cmd[r] = "publish" /\ UNCHANGED <<snap, active>>
    BY <1>6 DEF Publish, At
  <2>2. CASE Completing(r)
    <3>1. cmd'[r] = "total" /\ state'[r] = "tracking"
      BY <1>0, <1>6, <2>1, <2>2 DEF Publish, StartCounting, RunType
    <3> QED  BY <3>1, IdleReached
  <2>3. CASE ~Completing(r)
    <3>1. AfterTrack(r)
      BY <1>6, <2>3 DEF Publish
    <3>2. cmd'[r] = "get"
      BY <1>0, <3>1 DEF AfterTrack, RunType
    <3>3. CASE state'[r] # "executing"
      BY <3>2, <3>3, IdleReached
    <3>4. CASE state'[r] = "executing"
      <4>1. Place(r)'
        BY <1>6, RunStepTypes DEF RunStep
      <4>2. ~failing[r] /\ step[r] = 4
        <5>1. step'[r] = 5 /\ ~failing'[r]
          BY <3>4, <4>1 DEF Place
        <5>2. step'[r] = step[r] + 1 /\ failing' = failing /\ step[r] \in 1 .. 12
          BY <1>0, <1>6, <3>1 DEF AfterTrack, Publish, RunType
        <5> QED  BY <5>1, <5>2
      <4>3. Call(r) = Entry("running", 30)
        <5>1. failing[r] \in BOOLEAN /\ loops[r] \in BOOLEAN /\ verdict[r] \in Settled
          BY <1>0 DEF RunType
        <5>2. Calls(r)[4] = Entry("running", 30)
          BY <4>2, <5>1, CallsShape
        <5> QED  BY <2>3, <4>2, <5>2 DEF Call
      <4>4. snap[TaskOf[r]] = loc[r] /\ loc[r].status = "running" /\ (UseRedis => TaskOf[r] \in active)
        BY <2>1, <4>3 DEF Reached, Entry
      <4>5. Listed(TaskOf[r])' \/ snap'[TaskOf[r]] = Missing
        BY <2>1, <4>4 DEF Listed, Settled
      <4> QED  BY <3>4, <4>5 DEF Reached
    <3> QED  BY <3>3, <3>4
  <2> QED  BY <2>2, <2>3
<1>7. CASE TrimRecent(r)
  <2>1. state'[r] \in {"tracking", "over"} /\ cmd'[r] = "get"
    BY <1>0, <1>7 DEF TrimRecent, Raise, RunType
  <2> QED  BY <2>1, IdleReached
<1> QED  BY <1>1, <1>2, <1>3, <1>4, <1>5, <1>6, <1>7 DEF RunStep

LEMMA ListInvInit == ASSUME Init PROVE ListInv
  BY DEF Init, ListInv, Alone, Live, Reached

LEMMA ListInvStep ==
    ASSUME ~DbFails, StepInv, ListInv, [Next]_vars
    PROVE  ListInv'
<1> USE DEF store, counters, runVars, clientVars, env
<1>0. RunType /\ StoreType /\ Alone /\ \A r \in Runs : Reached(r)
  BY DEF StepInv, ListInv
<1>1. ASSUME NEW r \in Runs, Begin(r) \/ RunStep(r)
      PROVE  ListInv'
  <2>1. Alone'
    BY <1>0, <1>1, AloneStep
  <2>2. Reached(r)'
    BY <1>0, <1>1, RunStepReached
  <2>3. \A q \in Runs \ {r} : Reached(q)'
    BY <1>0, <1>1, OthersReached
  <2> QED  BY <2>1, <2>2, <2>3 DEF ListInv
<1>2. ASSUME UNCHANGED <<snap, active, runVars>>
      PROVE  ListInv'
  <2>1. ASSUME NEW r \in Runs PROVE Reached(r)'
    <3>1. Call(r)' = Call(r)
      BY <1>2 DEF Call, Completing, Outcome, Calls
    <3> QED  BY <1>0, <1>2, <3>1 DEF Reached, Listed
  <2>2. Alone'
    BY <1>0, <1>2 DEF Alone, Live
  <2> QED  BY <2>1, <2>2 DEF ListInv
<1>3. ASSUME NEW c \in Clients, GetStatus(c) \/ Subscribe(c) \/ Deliver(c) \/ Disconnect(c)
      PROVE  ListInv'
  BY <1>2, <1>3 DEF GetStatus, Subscribe, Deliver, Disconnect
<1>4. ASSUME NEW t \in Tasks, Expire(t)
      PROVE  ListInv'
  <2>1. /\ \A r \in Runs : TaskOf[r] = t => state[r] # "tracking"
        /\ snap' = [snap EXCEPT ![t] = Missing]
        /\ UNCHANGED <<active, runVars>>
    BY <1>4 DEF Expire
  <2>2. ASSUME NEW r \in Runs PROVE Reached(r)'
    <3>1. Call(r)' = Call(r)
      BY <2>1 DEF Call, Completing, Outcome, Calls
    <3>2. TaskOf[r] \in Tasks
      BY MonitorAssumption
    <3>3. CASE TaskOf[r] = t
      <4>1. snap'[t] = Missing
        BY <1>0, <2>1 DEF StoreType
      <4> QED  BY <2>1, <3>3, <4>1 DEF Reached
    <3>4. CASE TaskOf[r] # t
      <4>1. snap'[TaskOf[r]] = snap[TaskOf[r]]
        BY <1>0, <2>1, <3>2, <3>4 DEF StoreType
      <4> QED  BY <1>0, <2>1, <3>1, <4>1 DEF Reached, Listed
    <3> QED  BY <3>3, <3>4
  <2>3. Alone'
    BY <1>0, <2>1 DEF Alone, Live
  <2> QED  BY <2>2, <2>3 DEF ListInv
<1>5. CASE Crash
  <2>1. \A r \in Runs : state'[r] \in {"new", "over"}
    BY <1>0, <1>5 DEF Crash, Live
  <2> QED  BY <2>1 DEF ListInv, Alone, Reached, Live
<1>6. CASE UNCHANGED vars \/ NewDay
  BY <1>2, <1>6 DEF vars, NewDay
<1> QED  BY <1>1, <1>2, <1>3, <1>4, <1>5, <1>6 DEF Next, Quiet

\* Unless transactions abort, a task the orchestrator works on is in the list of
\* active pipelines as long as its snapshot has not expired, for any number of
\* runs and tasks and whatever Redis does.
THEOREM WorkIsListed == Spec => []ExecutingIsListed
<1>1. CASE DbFails
  <2>1. ExecutingIsListed
    BY <1>1 DEF ExecutingIsListed
  <2> QED  BY <2>1, PTL
<1>2. CASE ~DbFails
  <2>1. Spec => []StepInv
    <3>1. Init => StepInv
      BY StepInvInit
    <3>2. StepInv /\ [Next]_vars => StepInv'
      BY StepInvStep
    <3> QED  BY <3>1, <3>2, PTL DEF Spec
  <2>2. Init => ListInv
    BY ListInvInit
  <2>3. StepInv /\ ListInv /\ [Next]_vars => ListInv'
    BY <1>2, ListInvStep
  <2>4. ListInv => ExecutingIsListed
    BY DEF ListInv, Reached, ExecutingIsListed
  <2> QED  BY <2>1, <2>2, <2>3, <2>4, PTL DEF Spec
<1> QED  BY <1>1, <1>2

---------------------------------------------------------------------------
(* How often a run is counted *)

\* The runs that have begun, those that may still increment total_runs in the
\* call or clause they are in, and those that may still get to the except clause.
Begun  == {r \in Runs : state[r] # "new"}
Owing  == {r \in Runs : Live(r) /\ cmd[r] \in {"get", "setex", "sadd", "publish", "total"}}
Trying == {r \in Runs : Live(r) /\ ~failing[r]}
Chances == IF RedisFails THEN Cardinality(Trying) ELSE 0
TotalInv ==
    \A d \in Days : stats[d].total + Cardinality(Owing) + Chances
                        <= IF RedisFails THEN 2 * Cardinality(Begun) ELSE Cardinality(Begun)

LEMMA RunSetsFinite ==
    /\ IsFiniteSet(Begun) /\ Cardinality(Begun) \in Nat
    /\ IsFiniteSet(Owing) /\ Cardinality(Owing) \in Nat
    /\ IsFiniteSet(Trying) /\ Cardinality(Trying) \in Nat
<1>1. IsFiniteSet(Runs)
  BY MonitorAssumption
<1>2. Begun \subseteq Runs /\ Owing \subseteq Runs /\ Trying \subseteq Runs
  BY DEF Begun, Owing, Trying
<1>3. IsFiniteSet(Begun) /\ IsFiniteSet(Owing) /\ IsFiniteSet(Trying)
  BY <1>1, <1>2, FS_Subset
<1> QED  BY <1>3, FS_CardinalityType

LEMMA TotalInvInit == ASSUME Init PROVE TotalInv
<1>1. Owing = {} /\ Trying = {} /\ \A d \in Days : stats[d].total = 0
  BY DEF Init, NoCounts, Owing, Trying, Live
<1>2. Cardinality({}) = 0
  BY FS_EmptySet
<1>3. Cardinality(Begun) \in Nat
  BY RunSetsFinite
<1> QED  BY <1>1, <1>2, <1>3 DEF TotalInv, Chances

\* What a step of run r adds to the counter, against what r may still add.
Owes(r)  == IF r \in Owing THEN 1 ELSE 0
Tries(r) == IF RedisFails /\ r \in Trying THEN 1 ELSE 0

LEMMA StepPays ==
    ASSUME CountType, StepInv, NEW r \in Runs, RunStep(r), NEW d \in Days
    PROVE  stats'[d].total + Owes(r)' + Tries(r)' <= stats[d].total + Owes(r) + Tries(r)
<1> USE DEF Owes, Tries
<1>0. /\ RunType /\ Place(r) /\ stats[d].total \in Nat /\ RedisFails \in BOOLEAN
      /\ failing[r] \in BOOLEAN
  BY StatsNat, MonitorAssumption DEF StepInv, RunType
<1>1. r \in Trying <=> Live(r) /\ ~failing[r]
  BY DEF Trying
<1>2. Live(r)
  BY StepperLives
<1>3. ASSUME Raise(r), RedisFails \/ r \in Owing
      PROVE  Owes(r)' + Tries(r)' <= (IF RedisFails THEN 0 ELSE Owes(r)) + Tries(r)
  <2>1. failing'[r] /\ state'[r] = IF failing[r] THEN "over" ELSE "tracking"
    BY <1>0, <1>3 DEF Raise, RunType
  <2>2. (r \notin Trying)'
    BY <2>1 DEF Trying
  <2>3. CASE failing[r]
    <3>1. (r \notin Owing)'
      BY <2>1, <2>3 DEF Owing, Live
    <3> QED  BY <2>2, <3>1
  <2>4. CASE ~failing[r]
    BY <1>1, <1>2, <1>3, <2>2, <2>4
  <2> QED  BY <2>3, <2>4
<1>4. ASSUME NEW next, Done(r, next), state[r] = "tracking",
             ~ Raise(r)
      PROVE  /\ Tries(r)' = Tries(r)
             /\ next \notin {"get", "setex", "sadd", "publish", "total"} => Owes(r)' = 0
  <2>1. cmd'[r] = next /\ state' = state /\ failing' = failing
    BY <1>0, <1>4 DEF Done, RunType
  <2> QED  BY <2>1 DEF Owing, Trying, Live
<1>5. Owes(r)' \in {0, 1} /\ Tries(r)' \in {0, 1} /\ Owes(r) \in {0, 1} /\ Tries(r) \in {0, 1}
  OBVIOUS
<1>6. CASE Execute(r) \/ Validate(r)
  <2>1. stats' = stats /\ state[r] \in {"executing", "validating"}
    BY <1>6 DEF Execute, Validate, store, counters
  <2>2. Owes(r) = 1
    BY <1>0, <2>1 DEF Owing, Live, Place
  <2>3. CASE Raise(r)
    BY <1>0, <1>3, <1>5, <2>1, <2>2, <2>3
  <2>4. CASE ~Raise(r)
    <3>1. failing' = failing
      BY <1>6, <2>4 DEF Execute, Validate
    <3>2. Tries(r)' <= Tries(r)
      BY <1>1, <1>2, <1>5, <3>1 DEF Trying
    <3> QED  BY <1>0, <1>5, <2>1, <2>2, <3>2
  <2> QED  BY <2>3, <2>4
<1>7. CASE CommandFails(r)
  BY <1>0, <1>3, <1>5, <1>7 DEF CommandFails, store, counters
<1>8. CASE LoadSnapshot(r) \/ Publish(r)
  <2>1. stats' = stats /\ failing' = failing /\ state[r] = "tracking" /\ cmd[r] \in {"get", "publish"}
    BY <1>8 DEF LoadSnapshot, Publish, At, store, counters
  <2>2. Owes(r) = 1
    BY <1>2, <2>1 DEF Owing
  <2>3. Tries(r)' <= Tries(r)
    BY <1>1, <1>2, <1>5, <2>1 DEF Trying
  <2> QED  BY <1>0, <1>5, <2>1, <2>2, <2>3
<1>9. CASE PersistStatus(r) \/ PersistActiveHint(r)
  <2>1. /\ stats' = stats /\ state[r] = "tracking" /\ cmd[r] \in {"setex", "sadd"}
        /\ \E next \in Commands : Done(r, next)
    BY <1>9 DEF PersistStatus, PersistActiveHint, At, Commands, counters
  <2>2. Owes(r) = 1
    BY <1>2, <2>1 DEF Owing
  <2>3. CASE Raise(r)
    BY <1>0, <1>3, <1>5, <2>1, <2>2, <2>3
  <2>4. CASE ~Raise(r)
    BY <1>0, <1>4, <1>5, <2>1, <2>2, <2>4
  <2> QED  BY <2>3, <2>4
<1>10. CASE IncrTotal(r)
  <2>1. /\ stats'[d].total <= stats[d].total + 1 /\ stats'[d].total \in Nat
        /\ state[r] = "tracking" /\ cmd[r] = "total" /\ Done(r, "outcome")
    <3>1. stats' = [stats EXCEPT ![day[r]]["total"] = @ + 1] /\ day[r] \in Days
      BY <1>10 DEF IncrTotal, CountType
    <3>2. /\ stats' \in [Days -> Counts]
          /\ \A e \in Days : e # day[r] => stats'[e] = stats[e]
          /\ stats'[day[r]] = [stats[day[r]] EXCEPT !["total"] = @ + 1]
      BY <3>1, Increment
    <3>3. stats[d] \in Counts /\ stats'[d] \in Counts
      BY <3>2 DEF CountType
    <3>4. stats'[d].total <= stats[d].total + 1
      BY <3>2, <3>3 DEF Counts
    <3> QED  BY <1>10, <3>3, <3>4 DEF IncrTotal, At, Counts
  <2>2. Owes(r) = 1
    BY <1>2, <2>1 DEF Owing
  <2>3. CASE Raise(r)
    <3>1. CASE RedisFails
      BY <1>0, <1>3, <1>5, <2>1, <2>2, <2>3, <3>1
    <3>2. CASE ~RedisFails
      <4>1. cmd'[r] = "outcome" /\ state' = state
        BY <1>0, <2>1, <3>2 DEF Done, RunType
      <4>2. Owes(r)' = 0 /\ Tries(r)' = 0
        BY <3>2, <4>1 DEF Owing
      <4> QED  BY <1>0, <1>5, <2>1, <2>2, <4>2
    <3> QED  BY <3>1, <3>2
  <2>4. CASE ~Raise(r)
    BY <1>0, <1>4, <1>5, <2>1, <2>2, <2>4
  <2> QED  BY <2>3, <2>4
<1>11. CASE IncrOutcome(r) \/ IncrModel(r) \/ PushRecent(r)
  <2>1. /\ stats'[d].total = stats[d].total /\ state[r] = "tracking"
        /\ \E next \in {"model", "lpush", "ltrim"} : Done(r, next)
    <3>1. CASE IncrOutcome(r)
      <4>1. Outcome(r) \in {"completed", "failed"}
        BY <1>0 DEF Outcome, RunType, Settled
      <4>2. stats' = [stats EXCEPT ![day[r]][Outcome(r)] = @ + 1] /\ day[r] \in Days
        BY <3>1 DEF IncrOutcome, CountType
      <4>3. /\ \A e \in Days : e # day[r] => stats'[e] = stats[e]
            /\ stats'[day[r]] = [stats[day[r]] EXCEPT ![Outcome(r)] = @ + 1]
        BY <4>1, <4>2, Increment
      <4>4. stats'[d].total = stats[d].total
        BY <4>1, <4>3 DEF CountType, Counts
      <4> QED  BY <3>1, <4>4 DEF IncrOutcome, At
    <3>2. CASE IncrModel(r) \/ PushRecent(r)
      BY <3>2 DEF IncrModel, PushRecent, At, counters
    <3> QED  BY <1>11, <3>1, <3>2
  <2>2. PICK next \in {"model", "lpush", "ltrim"} : Done(r, next)
    BY <2>1
  <2>3. CASE Raise(r) /\ RedisFails
    BY <1>0, <1>3, <1>5, <2>1, <2>3
  <2>4. CASE ~Raise(r) \/ ~RedisFails
    <3>1. cmd'[r] = next /\ state' = state /\ failing' = failing
      BY <1>0, <2>2, <2>4 DEF Done, RunType
    <3>2. Owes(r)' = 0 /\ Tries(r)' = Tries(r)
      BY <2>2, <3>1 DEF Owing, Trying, Live
    <3> QED  BY <1>0, <1>5, <2>1, <3>2
  <2> QED  BY <2>3, <2>4
<1>12. CASE TrimRecent(r)
  <2>1. stats' = stats
    BY <1>12 DEF TrimRecent, counters
  <2>2. CASE RedisFails /\ Raise(r)
    BY <1>0, <1>3, <1>5, <2>1, <2>2
  <2>3. CASE ~ (RedisFails /\ Raise(r))
    <3>1. state'[r] = "over"
      BY <1>0, <1>12, <2>3 DEF TrimRecent, RunType
    <3>2. Owes(r)' = 0 /\ Tries(r)' = 0
      BY <3>1 DEF Owing, Trying, Live
    <3> QED  BY <1>0, <1>5, <2>1, <3>2
  <2> QED  BY <2>2, <2>3
<1> QED  BY <1>6, <1>7, <1>8, <1>9, <1>10, <1>11, <1>12 DEF RunStep

\* What TotalInv says of one day.
TotalOn(d) == stats[d].total + Cardinality(Owing) + Chances
                <= IF RedisFails THEN 2 * Cardinality(Begun) ELSE Cardinality(Begun)

LEMMA TotalOnStep ==
    ASSUME CountType, CountType', StepInv, NEW d \in Days, TotalOn(d), [Next]_vars
    PROVE  TotalOn(d)'
<1> USE DEF store, counters, runVars, clientVars, env
<1>0. /\ Cardinality(Begun) \in Nat /\ Cardinality(Owing) \in Nat /\ Cardinality(Trying) \in Nat
      /\ IsFiniteSet(Begun) /\ IsFiniteSet(Owing) /\ IsFiniteSet(Trying)
      /\ stats[d].total \in Nat /\ stats'[d].total \in Nat /\ RedisFails \in BOOLEAN
  BY RunSetsFinite, StatsNat, MonitorAssumption DEF CountType, Counts
<1>1. ASSUME NEW r \in Runs, Begin(r) \/ RunStep(r)
      PROVE  TotalOn(d)'
  <2>1. OnlyOf(r)
    BY <1>1, RunStepOnlyOf DEF StepInv
  <2>2. /\ Begun \ {r} = Begun' \ {r} /\ Owing \ {r} = Owing' \ {r}
        /\ Trying \ {r} = Trying' \ {r}
    BY <2>1 DEF OnlyOf, Begun, Owing, Trying, Live
  <2>3. /\ Cardinality(Begun') = Cardinality(Begun)
               - (IF r \in Begun THEN 1 ELSE 0) + (IF r \in Begun' THEN 1 ELSE 0)
        /\ Cardinality(Owing') = Cardinality(Owing)
               - (IF r \in Owing THEN 1 ELSE 0) + (IF r \in Owing' THEN 1 ELSE 0)
        /\ Cardinality(Trying') = Cardinality(Trying)
               - (IF r \in Trying THEN 1 ELSE 0) + (IF r \in Trying' THEN 1 ELSE 0)
    BY <1>0, <2>2, OneMoves
  <2>4. CASE Begin(r)
    <3>1. state[r] = "new" /\ state'[r] = "tracking" /\ stats' = stats
      BY <2>4 DEF Begin, StepInv, RunType
    <3>2. r \notin Begun /\ r \in Begun' /\ r \notin Owing /\ r \notin Trying
      BY <3>1 DEF Begun, Owing, Trying, Live
    <3> QED  BY <1>0, <2>3, <3>1, <3>2 DEF TotalOn, Chances
  <2>5. CASE RunStep(r)
    <3>1. Live(r)
      BY <2>5, StepperLives
    <3>2. state'[r] # "new"
      BY <2>5, <3>1 DEF RunStep, Execute, Validate, CommandFails, LoadSnapshot, PersistStatus,
         PersistActiveHint, Publish, IncrTotal, IncrOutcome, IncrModel, PushRecent,
         TrimRecent, At, Live, Done, Raise, AfterTrack, StartCounting, StepInv, RunType
    <3>3. r \in Begun /\ r \in Begun'
      BY <3>1, <3>2 DEF Begun, Live
    <3>4. stats'[d].total + Owes(r)' + Tries(r)' <= stats[d].total + Owes(r) + Tries(r)
      BY <2>5, StepPays
    <3> QED  BY <1>0, <2>3, <3>3, <3>4 DEF TotalOn, Chances, Owes, Tries
  <2> QED  BY <1>1, <2>4, <2>5
<1>2. ASSUME UNCHANGED <<stats, state, failing, cmd>>
      PROVE  TotalOn(d)'
  <2>1. Begun' = Begun /\ Owing' = Owing /\ Trying' = Trying
    BY <1>2 DEF Begun, Owing, Trying, Live
  <2> QED  BY <1>2, <2>1 DEF TotalOn, Chances
<1>3. ASSUME NEW c \in Clients, GetStatus(c) \/ Subscribe(c) \/ Deliver(c) \/ Disconnect(c)
      PROVE  TotalOn(d)'
  BY <1>2, <1>3 DEF GetStatus, Subscribe, Deliver, Disconnect
<1>4. ASSUME NEW t \in Tasks, Expire(t)
      PROVE  TotalOn(d)'
  BY <1>2, <1>4 DEF Expire
<1>5. CASE Crash
  <2>1. Begun' = Begun /\ Owing' = {} /\ Trying' = {}
    BY <1>5 DEF Crash, Begun, Owing, Trying, Live
  <2>2. stats'[d].total <= stats[d].total
    BY <1>0, <1>5 DEF Crash, NoCounts
  <2>3. Cardinality({}) = 0
    BY FS_EmptySet
  <2> QED  BY <1>0, <2>1, <2>2, <2>3 DEF TotalOn, Chances
<1>6. CASE UNCHANGED vars \/ NewDay
  BY <1>2, <1>6 DEF vars, NewDay
<1> QED  BY <1>1, <1>2, <1>3, <1>4, <1>5, <1>6 DEF Next, Quiet

LEMMA TotalInvStep ==
    ASSUME CountType, CountType', StepInv, TotalInv, [Next]_vars
    PROVE  TotalInv'
<1>1. ASSUME NEW d \in Days PROVE TotalOn(d)'
  BY <1>1, TotalOnStep DEF TotalInv, TotalOn
<1> QED  BY <1>1 DEF TotalInv, TotalOn

\* No run is counted more than twice in a day's total, and more than once only
\* if Redis commands may raise.
THEOREM CountsAreFew == Spec => []CountedAtMostTwice
<1>1. Spec => [](CountType /\ CountInv)
  <2>1. Init => CountType /\ CountInv
    BY CountInit
  <2>2. CountType /\ CountInv /\ [Next]_vars => (CountType /\ CountInv)'
    BY CountStep
  <2> QED  BY <2>1, <2>2, PTL DEF Spec
<1>2. Spec => []StepInv
  <2>1. Init => StepInv
    BY StepInvInit
  <2>2. StepInv /\ [Next]_vars => StepInv'
    BY StepInvStep
  <2> QED  BY <2>1, <2>2, PTL DEF Spec
<1>3. Init => TotalInv
  BY TotalInvInit
<1>4. CountType /\ CountType' /\ StepInv /\ TotalInv /\ [Next]_vars => TotalInv'
  BY TotalInvStep
<1>5. CountType /\ TotalInv => CountedAtMostTwice
  <2>1. {r \in Runs : state[r] # "new"} = Begun
    BY DEF Begun
  <2>2. ASSUME CountType, TotalInv, NEW d \in Days
        PROVE  stats[d].total <= IF RedisFails THEN 2 * Cardinality(Begun) ELSE Cardinality(Begun)
    <3>1. /\ Cardinality(Begun) \in Nat /\ Cardinality(Owing) \in Nat
          /\ Cardinality(Trying) \in Nat /\ stats[d].total \in Nat /\ RedisFails \in BOOLEAN
      BY <2>2, RunSetsFinite, StatsNat, MonitorAssumption
    <3> QED  BY <2>2, <3>1 DEF TotalInv, Chances
  <2> QED  BY <2>1, <2>2 DEF CountedAtMostTwice
<1> QED  BY <1>1, <1>2, <1>3, <1>4, <1>5, PTL DEF Spec

---------------------------------------------------------------------------
(* The views of clients *)

\* What a client has been sent is no newer than what waits for it, in order, and
\* this no newer than what is stored.
Behind(c) ==
    LET s == snap[TaskOf[c]] IN
    /\ client[c] = "new" => view[c].n = 0
    /\ client[c] # "listening" => queue[c] = <<>>
    /\ client[c] \in {"greeted", "listening"} /\ TaskOf[c] \notin lapsed =>
         /\ view[c].n <= s.n
         /\ \A i \in 1 .. Len(queue[c]) : view[c].n <= queue[c][i].n /\ queue[c][i].n <= s.n
         /\ \A i, j \in 1 .. Len(queue[c]) : i <= j => queue[c][i].n <= queue[c][j].n
ViewInv == \A c \in Clients : Behind(c)

\* What is stored only grows while it does not expire and the process lives.
LEMMA SnapGrows ==
    ASSUME StepInv, NEW r \in Runs, Reached(r), Begin(r) \/ RunStep(r), NEW t \in Tasks
    PROVE  snap[t].n <= snap'[t].n
<1>1. snap[t].n \in Nat
  BY DEF StepInv, StoreType, Snapshot
<1>2. CASE snap' = snap
  BY <1>1, <1>2
<1>3. CASE PersistStatus(r)
  <2>1. /\ loc[r] = Update(snap[TaskOf[r]], Call(r))
        /\ snap' = [snap EXCEPT ![TaskOf[r]] = loc[r]]
    BY <1>3 DEF PersistStatus, At, Reached
  <2>2. CASE t = TaskOf[r]
    <3>1. snap'[t] = loc[r]
      BY <2>1, <2>2 DEF StepInv, StoreType
    <3>2. loc[r].n = snap[t].n + 1
      BY <2>1, <2>2 DEF Update
    <3> QED  BY <1>1, <3>1, <3>2
  <2>3. CASE t # TaskOf[r]
    BY <1>1, <2>1, <2>3 DEF StepInv, StoreType
  <2> QED  BY <2>2, <2>3
<1>4. PersistStatus(r) \/ snap' = snap
  BY DEF RunStep, Begin, Execute, Validate, CommandFails, LoadSnapshot, PersistActiveHint,
         Publish, IncrTotal, IncrOutcome, IncrModel, PushRecent, TrimRecent, store, counters
<1> QED  BY <1>2, <1>3, <1>4

LEMMA ViewInvInit == ASSUME Init PROVE ViewInv
  BY DEF Init, ViewInv, Behind, Missing

LEMMA RunKeepsViews ==
    ASSUME StepInv, ViewInv, NEW r \in Runs, Reached(r), Begin(r) \/ RunStep(r)
    PROVE  ViewInv'
<1> USE DEF store, counters, clientVars, env
<1> SUFFICES ASSUME NEW c \in Clients PROVE Behind(c)'
  BY DEF ViewInv
<1> DEFINE t == TaskOf[c]
<1>1. Behind(c)
  BY DEF ViewInv
<1>2. t \in Tasks /\ TaskOf[r] \in Tasks
  BY MonitorAssumption
<1>3. /\ snap[t].n \in Nat /\ view[c].n \in Nat /\ snap'[t].n \in Nat
      /\ snap[t].n <= snap'[t].n
  <2>1. StoreType'
    BY RunStepStore
  <2>2. snap[t] \in Snapshot /\ snap'[t] \in Snapshot /\ view[c] \in Snapshot
    BY <1>2, <2>1 DEF StepInv, StoreType, ClientType
  <2> QED  BY <1>2, <2>2, SnapGrows DEF Snapshot
<1>4. queue[c] \in Seq(Snapshot) /\ \A i \in 1 .. Len(queue[c]) : queue[c][i].n \in Nat
  <2>1. queue[c] \in Seq(Snapshot)
    BY DEF StepInv, ClientType
  <2>2. ASSUME NEW i \in 1 .. Len(queue[c]) PROVE queue[c][i].n \in Nat
    <3>1. queue[c][i] \in Snapshot
      BY <2>1
    <3> QED  BY <3>1 DEF Snapshot
  <2> QED  BY <2>1, <2>2
<1>5. CASE Publish(r)
  <2>1. /\ UNCHANGED <<snap, client, view, lapsed>> /\ cmd[r] = "publish" /\ state[r] = "tracking"
        /\ \/ queue' = [x \in Clients |-> IF client[x] = "listening" /\ TaskOf[x] = TaskOf[r]
                                          THEN Append(queue[x], loc[r]) ELSE queue[x]]
           \/ queue' = queue
    BY <1>5 DEF Publish, At
  <2>2. CASE queue'[c] = queue[c]
    BY <1>1, <2>1, <2>2 DEF Behind
  <2>3. CASE /\ queue'[c] = Append(queue[c], loc[r]) /\ client[c] = "listening"
             /\ TaskOf[c] = TaskOf[r]
    <3>1. loc[r] = snap[t]
      BY <2>1, <2>3 DEF Reached
    <3>2. /\ Len(queue'[c]) = Len(queue[c]) + 1 /\ Len(queue[c]) \in Nat
          /\ \A i \in 1 .. Len(queue[c]) : queue'[c][i] = queue[c][i]
          /\ queue'[c][Len(queue[c]) + 1] = snap[t]
      <4>1. loc[r] \in Snapshot
        BY DEF StepInv, RunType
      <4> QED  BY <1>4, <2>3, <3>1, <4>1, AppendProperties
    <3>3. ASSUME t \notin lapsed
          PROVE  /\ view[c].n <= snap[t].n
                 /\ \A i \in 1 .. Len(queue'[c]) :
                        view[c].n <= queue'[c][i].n /\ queue'[c][i].n <= snap[t].n
                 /\ \A i, j \in 1 .. Len(queue'[c]) : i <= j => queue'[c][i].n <= queue'[c][j].n
      <4>1. /\ view[c].n <= snap[t].n
            /\ \A i \in 1 .. Len(queue[c]) : view[c].n <= queue[c][i].n /\ queue[c][i].n <= snap[t].n
            /\ \A i, j \in 1 .. Len(queue[c]) : i <= j => queue[c][i].n <= queue[c][j].n
        BY <1>1, <2>3, <3>3 DEF Behind
      <4>2. \A i \in 1 .. Len(queue'[c]) : i \in 1 .. Len(queue[c]) \/ i = Len(queue[c]) + 1
        BY <3>2
      <4>3. ASSUME NEW i \in 1 .. Len(queue'[c])
            PROVE  view[c].n <= queue'[c][i].n /\ queue'[c][i].n <= snap[t].n
        <5>1. CASE i \in 1 .. Len(queue[c])
          BY <3>2, <4>1, <5>1
        <5>2. CASE i = Len(queue[c]) + 1
          BY <1>3, <3>2, <4>1, <5>2
        <5> QED  BY <4>2, <5>1, <5>2
      <4>4. ASSUME NEW i \in 1 .. Len(queue'[c]), NEW j \in 1 .. Len(queue'[c]), i <= j
            PROVE  queue'[c][i].n <= queue'[c][j].n
        <5>1. CASE j = Len(queue[c]) + 1
          BY <3>2, <4>3, <5>1
        <5>2. CASE j \in 1 .. Len(queue[c])
          <6>1. i \in 1 .. Len(queue[c])
            BY <3>2, <4>4, <5>2
          <6> QED  BY <3>2, <4>1, <4>4, <5>2, <6>1
        <5> QED  BY <4>2, <5>1, <5>2
      <4> QED  BY <4>1, <4>3, <4>4
    <3> QED  BY <2>1, <2>3, <3>3 DEF Behind
  <2>4. \/ queue'[c] = queue[c]
        \/ /\ queue'[c] = Append(queue[c], loc[r]) /\ client[c] = "listening"
           /\ TaskOf[c] = TaskOf[r]
    BY <2>1
  <2> QED  BY <2>2, <2>3, <2>4
<1>6. CASE UNCHANGED <<clientVars, env>>
  <2>1. ASSUME client[c] \in {"greeted", "listening"}, t \notin lapsed
        PROVE  view[c].n <= snap'[t].n /\ \A i \in 1 .. Len(queue[c]) : queue[c][i].n <= snap'[t].n
    BY <1>1, <1>3, <1>4, <2>1 DEF Behind
  <2> QED  BY <1>1, <1>6, <2>1 DEF Behind
<1>7. Publish(r) \/ UNCHANGED <<clientVars, env>>
  BY DEF RunStep, Begin, Execute, Validate, CommandFails, LoadSnapshot, PersistStatus,
         PersistActiveHint, IncrTotal, IncrOutcome, IncrModel, PushRecent, TrimRecent
<1> QED  BY <1>5, <1>6, <1>7

\* What a client's own steps do to its view.
LEMMA ClientKeepsView ==
    ASSUME StepInv, NEW c \in Clients, Behind(c),
           GetStatus(c) \/ Subscribe(c) \/ Deliver(c) \/ Disconnect(c)
    PROVE  Behind(c)' /\ (TaskOf[c] \notin lapsed => view'[c].n >= view[c].n)
<1> USE DEF store, counters, runVars, env
<1>1. ClientType /\ StoreType /\ TaskOf[c] \in Tasks
  BY MonitorAssumption DEF StepInv
<1>2. snap[TaskOf[c]].n \in Nat /\ view[c].n \in Nat /\ queue[c] \in Seq(Snapshot)
  <2>1. snap[TaskOf[c]] \in Snapshot /\ view[c] \in Snapshot
    BY <1>1 DEF ClientType, StoreType
  <2> QED  BY <1>1, <2>1 DEF Snapshot, ClientType
<1>3. CASE GetStatus(c)
  <2>1. /\ view'[c] = snap[TaskOf[c]] /\ client'[c] = "greeted" /\ queue' = queue
        /\ snap' = snap /\ lapsed' = lapsed /\ client[c] = "new"
    BY <1>1, <1>3 DEF GetStatus, ClientType
  <2>2. view[c].n = 0 /\ queue[c] = <<>>
    BY <2>1 DEF Behind
  <2> QED  BY <1>2, <2>1, <2>2 DEF Behind
<1>4. CASE Subscribe(c)
  <2>1. /\ client[c] = "greeted" /\ client'[c] = "listening"
        /\ UNCHANGED <<queue, view, snap, lapsed>>
    BY <1>1, <1>4 DEF Subscribe, ClientType
  <2> QED  BY <1>2, <2>1 DEF Behind
<1>5. CASE Deliver(c)
  <2>1. /\ client[c] = "listening" /\ queue[c] # <<>> /\ client' = client
        /\ view'[c] = Head(queue[c]) /\ queue'[c] = Tail(queue[c])
        /\ UNCHANGED <<snap, lapsed>>
    BY <1>1, <1>5 DEF Deliver, ClientType
  <2>2. /\ Len(queue[c]) \in Nat \ {0} /\ Head(queue[c]) = queue[c][1]
        /\ Len(Tail(queue[c])) = Len(queue[c]) - 1
        /\ \A i \in 1 .. Len(Tail(queue[c])) : Tail(queue[c])[i] = queue[c][i + 1]
    BY <1>2, <2>1, HeadTailProperties
  <2>3. ASSUME TaskOf[c] \notin lapsed
        PROVE  /\ view[c].n <= Head(queue[c]).n /\ Head(queue[c]).n <= snap[TaskOf[c]].n
               /\ \A i \in 1 .. Len(Tail(queue[c])) :
                      /\ Head(queue[c]).n <= Tail(queue[c])[i].n
                      /\ Tail(queue[c])[i].n <= snap[TaskOf[c]].n
               /\ \A i, j \in 1 .. Len(Tail(queue[c])) :
                      i <= j => Tail(queue[c])[i].n <= Tail(queue[c])[j].n
    <3>1. /\ \A i \in 1 .. Len(queue[c]) :
                 view[c].n <= queue[c][i].n /\ queue[c][i].n <= snap[TaskOf[c]].n
          /\ \A i, j \in 1 .. Len(queue[c]) : i <= j => queue[c][i].n <= queue[c][j].n
      BY <2>1, <2>3 DEF Behind
    <3>2. 1 \in 1 .. Len(queue[c])
      BY <2>2
    <3>3. \A i \in 1 .. Len(Tail(queue[c])) : i + 1 \in 1 .. Len(queue[c]) /\ 1 <= i + 1
      BY <2>2
    <3>4. ASSUME NEW i \in 1 .. Len(Tail(queue[c])), NEW j \in 1 .. Len(Tail(queue[c])), i <= j
          PROVE  Tail(queue[c])[i].n <= Tail(queue[c])[j].n
      <4>1. i + 1 <= j + 1
        BY <3>4
      <4> QED  BY <2>2, <3>1, <3>3, <4>1
    <3> QED  BY <2>2, <3>1, <3>2, <3>3, <3>4
  <2> QED  BY <1>2, <2>1, <2>3 DEF Behind
<1>6. CASE Disconnect(c)
  <2>1. client'[c] = "gone" /\ queue'[c] = <<>> /\ view' = view
    BY <1>1, <1>6 DEF Disconnect, ClientType
  <2> QED  BY <1>2, <2>1 DEF Behind
<1> QED  BY <1>3, <1>4, <1>5, <1>6

\* A client's step is no other's.
LEMMA OthersView ==
    ASSUME StepInv, NEW c \in Clients, GetStatus(c) \/ Subscribe(c) \/ Deliver(c) \/ Disconnect(c),
           NEW d \in Clients \ {c}, Behind(d)
    PROVE  Behind(d)' /\ view'[d] = view[d]
<1>1. /\ client'[d] = client[d] /\ queue'[d] = queue[d] /\ view'[d] = view[d]
      /\ snap' = snap /\ lapsed' = lapsed
  BY DEF GetStatus, Subscribe, Deliver, Disconnect, StepInv, ClientType, store, counters, runVars, env
<1> QED  BY <1>1 DEF Behind

LEMMA ViewInvStep ==
    ASSUME StepInv, \A r \in Runs : Reached(r), ViewInv, [Next]_vars
    PROVE  ViewInv'
<1> USE DEF store, counters, runVars, clientVars, env
<1>1. ASSUME NEW r \in Runs, Begin(r) \/ RunStep(r) PROVE ViewInv'
  BY <1>1, RunKeepsViews
<1>2. ASSUME NEW c \in Clients, GetStatus(c) \/ Subscribe(c) \/ Deliver(c) \/ Disconnect(c)
      PROVE  ViewInv'
  BY <1>2, ClientKeepsView, OthersView DEF ViewInv
<1>3. ASSUME NEW t \in Tasks, Expire(t) PROVE ViewInv'
  <2>1. /\ UNCHANGED clientVars /\ lapsed' = lapsed \cup {t}
        /\ snap' = [snap EXCEPT ![t] = Missing]
    BY <1>3 DEF Expire
  <2>2. ASSUME NEW c \in Clients PROVE Behind(c)'
    <3>1. CASE TaskOf[c] = t
      BY <2>1, <3>1 DEF ViewInv, Behind
    <3>2. CASE TaskOf[c] # t
      <4>1. snap'[TaskOf[c]] = snap[TaskOf[c]]
        BY <2>1, <3>2, MonitorAssumption DEF StepInv, StoreType
      <4> QED  BY <2>1, <3>2, <4>1 DEF ViewInv, Behind
    <3> QED  BY <3>1, <3>2
  <2> QED  BY <2>2 DEF ViewInv
<1>4. CASE Crash
  <2>1. ASSUME NEW c \in Clients PROVE Behind(c)'
    <3>1. /\ client'[c] = IF client[c] = "new" THEN "new" ELSE "gone"
          /\ queue'[c] = <<>> /\ view' = view
      BY <1>4 DEF Crash
    <3> QED  BY <3>1 DEF ViewInv, Behind
  <2> QED  BY <2>1 DEF ViewInv
<1>5. CASE UNCHANGED vars \/ NewDay
  BY <1>5 DEF vars, NewDay, ViewInv, Behind
<1> QED  BY <1>1, <1>2, <1>3, <1>4, <1>5 DEF Next, Quiet

\* No client's view ever goes back in time, as long as runs of its task do not
\* overlap, its snapshot does not expire and the process lives: for any number of
\* runs, one after the other, and of clients.
THEOREM ViewsGoForward == Spec => ViewNeverGoesBack
<1>1. Spec => []StepInv
  <2>1. Init => StepInv
    BY StepInvInit
  <2>2. StepInv /\ [Next]_vars => StepInv'
    BY StepInvStep
  <2> QED  BY <2>1, <2>2, PTL DEF Spec
<1> DEFINE Forward == ~DbFails /\ crashes' = crashes =>
                          \A c \in Clients : TaskOf[c] \notin lapsed' => view'[c].n >= view[c].n
<1>2. CASE DbFails
  <2>1. StepInv /\ [Next]_vars => [Forward]_vars
    BY <1>2
  <2> QED  BY <1>1, <2>1, PTL DEF Spec, ViewNeverGoesBack
<1>3. CASE ~DbFails
  <2>1. Init => ListInv /\ ViewInv
    BY ListInvInit, ViewInvInit
  <2>2. StepInv /\ ListInv /\ ViewInv /\ [Next]_vars => (ListInv /\ ViewInv)'
    BY <1>3, ListInvStep, ViewInvStep DEF ListInv
  <2>3. ASSUME StepInv, ViewInv, [Next]_vars
        PROVE  [Forward]_vars
    <3> SUFFICES ASSUME Next, crashes' = crashes, NEW c \in Clients, TaskOf[c] \notin lapsed'
                 PROVE  view'[c].n >= view[c].n
      BY <2>3
    <3>1. view[c].n \in Nat
      <4>1. view[c] \in Snapshot
        BY <2>3 DEF StepInv, ClientType
      <4> QED  BY <4>1 DEF Snapshot
    <3>2. CASE view' = view
      BY <3>1, <3>2
    <3>3. ASSUME NEW d \in Clients, GetStatus(d) \/ Subscribe(d) \/ Deliver(d) \/ Disconnect(d)
          PROVE  view'[c].n >= view[c].n
      <4>1. lapsed' = lapsed
        BY <3>3 DEF GetStatus, Subscribe, Deliver, Disconnect, env
      <4>2. CASE c = d
        BY <2>3, <3>3, <4>1, <4>2, ClientKeepsView DEF ViewInv
      <4>3. CASE c # d
        BY <2>3, <3>1, <3>3, <4>3, OthersView DEF ViewInv
      <4> QED  BY <4>2, <4>3
    <3> QED  BY <3>2, <3>3
             DEF Next, RunStep, Begin, Execute, Validate, CommandFails, LoadSnapshot,
                 PersistStatus, PersistActiveHint, Publish, IncrTotal, IncrOutcome, IncrModel,
                 PushRecent, TrimRecent, Expire, Crash, NewDay, Quiet, vars, clientVars
  <2> HIDE DEF Forward
  <2>4. StepInv /\ ViewInv /\ [Next]_vars => [Forward]_vars
    BY <2>3
  <2> QED  BY <1>1, <2>1, <2>2, <2>4, PTL DEF Spec, ViewNeverGoesBack, Forward
<1> QED  BY <1>2, <1>3

---------------------------------------------------------------------------
(* The progress that is stored *)

\* The hint of each of run_task's calls: 15, 30, 72, 82 if the code was fixed, 90.
HintAt(k, fixed) ==
    CASE k = 2 -> 15
      [] k = 4 -> 30
      [] k = 6 -> 72
      [] k = 8 -> IF fixed THEN 82 ELSE 90
      [] k = 10 /\ fixed -> 90
      [] OTHER -> NoHint

LEMMA SecondOfConcat ==
    ASSUME NEW a \in Seq(Entries), NEW b \in Seq(Entries), NEW i \in 1 .. Len(b)
    PROVE  (a \o b)[Len(a) + i] = b[i]
<1>1. Len(a) \in Nat /\ Len(b) \in Nat
  OBVIOUS
<1> QED  BY <1>1

LEMMA PlanHints ==
    /\ Plan[1].hint = NoHint /\ Plan[2].hint = 15 /\ Plan[3].hint = NoHint /\ Plan[4].hint = 30
    /\ Plan[1].status = "running"
  BY DEF Plan, Entry

LEMMA ReviewHints ==
    ASSUME NEW fixed \in BOOLEAN
    PROVE  /\ Review(fixed)[1].hint = NoHint /\ Review(fixed)[2].hint = 72
           /\ Review(fixed)[3].hint = NoHint
           /\ fixed => /\ Review(fixed)[4].hint = 82 /\ Review(fixed)[5].hint = NoHint
                       /\ Review(fixed)[6].hint = 90
           /\ ~fixed => Review(fixed)[4].hint = 90
<1>1. CASE fixed
  BY <1>1 DEF Review, Entry
<1>2. CASE ~fixed
  BY <1>2 DEF Review, Entry
<1> QED  BY <1>1, <1>2

LEMMA CallHints ==
    ASSUME RunType, NEW r \in Runs, Place(r), ~failing[r]
    PROVE  /\ Call(r).hint = IF step[r] = CallsMade(r) + 1 THEN 100 ELSE HintAt(step[r], loops[r])
           /\ step[r] = 1 => Call(r).status = "running"
<1>1. failing[r] \in BOOLEAN /\ loops[r] \in BOOLEAN /\ verdict[r] \in Settled /\ step[r] \in 1 .. 12
  BY DEF RunType
<1>2. Completing(r) <=> step[r] = CallsMade(r) + 1
  BY CallType
<1>3. CASE Completing(r)
  <2>1. Call(r).hint = 100 /\ step[r] # 1
    BY <1>2, <1>3 DEF Call, CallsMade
  <2> QED  BY <1>2, <1>3, <2>1
<1>4. CASE ~Completing(r)
  <2> DEFINE review == Review(loops[r])
             last   == <<Entry(verdict[r], NoHint)>>
             front  == Plan \o review
             k      == step[r]
  <2>1. /\ Plan \in Seq(Entries) /\ Len(Plan) = 4
        /\ review \in Seq(Entries) /\ Len(review) = IF loops[r] THEN 6 ELSE 4
    BY <1>1, CallsShape
  <2>2. last \in Seq(Entries) /\ Len(last) = 1 /\ last[1].hint = NoHint
    <3>1. Entry(verdict[r], NoHint) \in Entries
      BY <1>1, EntryType DEF Settled, NoHint
    <3> QED  BY <3>1 DEF Entry
  <2>3. Call(r) = (front \o last)[k]
    BY <1>4 DEF Call, Calls
  <2> HIDE DEF review, last, front
  <2>4. front \in Seq(Entries) /\ Len(front) = 4 + Len(review)
    <3>1. front \in Seq(Entries) /\ Len(front) = Len(Plan) + Len(review)
      BY <2>1, ConcatEntries, Zenon DEF front
    <3> QED  BY <2>1, <3>1
  <2>5. k \in 1 .. 4 => Call(r) = Plan[k]
    <3>1. ASSUME k \in 1 .. 4 PROVE (front \o last)[k] = front[k] /\ front[k] = Plan[k]
      <4>1. k \in 1 .. Len(front) /\ k \in 1 .. Len(Plan)
        BY <2>1, <2>4, <3>1
      <4> QED  BY <2>1, <2>2, <2>4, <4>1, ConcatEntries DEF front
    <3> QED  BY <2>3, <3>1
  <2>6. ASSUME NEW i \in 1 .. Len(review), k = 4 + i
        PROVE  Call(r) = review[i]
    <3>1. k \in 1 .. Len(front)
      BY <2>1, <2>4, <2>6
    <3>2. (front \o last)[k] = front[k]
      BY <2>2, <2>4, <3>1, ConcatEntries
    <3>3. front[k] = review[i]
      <4>1. front[Len(Plan) + i] = review[i]
        BY <2>1, SecondOfConcat, Zenon DEF front
      <4> QED  BY <2>1, <2>6, <4>1
    <3> QED  BY <2>3, <3>2, <3>3
  <2>7. k = Len(front) + 1 => Call(r) = last[1]
    <3>1. 1 \in 1 .. Len(last)
      BY <2>2
    <3>2. (front \o last)[Len(front) + 1] = last[1]
      BY <2>2, <2>4, <3>1, SecondOfConcat
    <3> QED  BY <2>3, <3>2
  <2>8. k \in 1 .. 11 /\ (~loops[r] => k \in 1 .. 9)
    BY <1>1, <1>2, <1>4 DEF Place, CallsMade
  <2>9. /\ review[1].hint = NoHint /\ review[2].hint = 72 /\ review[3].hint = NoHint
        /\ loops[r] => review[4].hint = 82 /\ review[5].hint = NoHint /\ review[6].hint = 90
        /\ ~loops[r] => review[4].hint = 90
    BY <1>1, ReviewHints DEF review
  <2>10. CASE k \in 1 .. 4
    <3>1. k = 1 \/ k = 2 \/ k = 3 \/ k = 4
      BY <2>10
    <3>2. Call(r) = Plan[k]
      BY <2>5, <2>10
    <3>3. Call(r).hint = HintAt(k, loops[r])
      BY <3>1, <3>2, PlanHints DEF HintAt
    <3> QED  BY <1>2, <1>4, <3>2, <3>3, PlanHints
  <2>11. CASE k \in 5 .. Len(front)
    <3>1. k - 4 \in 1 .. Len(review) /\ k = 4 + (k - 4)
      BY <2>1, <2>4, <2>8, <2>11
    <3>2. Call(r) = review[k - 4]
      BY <2>6, <3>1
    <3>3. k \in {5, 6, 7, 8} \/ (loops[r] /\ k \in {9, 10})
      BY <2>1, <2>4, <2>8, <2>11
    <3>4. Call(r).hint = HintAt(k, loops[r])
      <4>1. CASE k = 5
        BY <2>9, <3>2, <4>1 DEF HintAt
      <4>2. CASE k = 6
        BY <2>9, <3>2, <4>2 DEF HintAt
      <4>3. CASE k = 7
        BY <2>9, <3>2, <4>3 DEF HintAt
      <4>4. CASE k = 8
        BY <2>9, <3>2, <4>4 DEF HintAt
      <4>5. CASE loops[r] /\ k = 9
        BY <2>9, <3>2, <4>5 DEF HintAt
      <4>6. CASE loops[r] /\ k = 10
        BY <2>9, <3>2, <4>6 DEF HintAt
      <4> QED  BY <3>3, <4>1, <4>2, <4>3, <4>4, <4>5, <4>6
    <3> QED  BY <1>2, <1>4, <2>11, <3>4
  <2>12. CASE k = Len(front) + 1
    <3>1. k = IF loops[r] THEN 11 ELSE 9
      BY <2>1, <2>4, <2>12
    <3>2. HintAt(k, loops[r]) = NoHint
      BY <3>1 DEF HintAt
    <3> QED  BY <1>2, <1>4, <2>2, <2>7, <2>12, <3>1, <3>2
  <2>13. k \in 1 .. 4 \/ k \in 5 .. Len(front) \/ k = Len(front) + 1
    BY <2>1, <2>4, <2>8
  <2> QED  BY <2>10, <2>11, <2>12, <2>13
<1> QED  BY <1>3, <1>4

\* How many calls of the run are stored, and the highest hint stored by then.
Stored(r) == IF cmd[r] \in {"get", "setex"} THEN step[r] - 1 ELSE step[r]
Top(k) == IF k <= 3 THEN 15 ELSE IF k <= 5 THEN 30 ELSE IF k <= 7 THEN 72
          ELSE IF k <= 9 THEN 90 ELSE 100
Rerun(r) == \E q \in Runs \ {r} : TaskOf[q] = TaskOf[r] /\ state[q] = "over"

\* A run finds what its own calls have stored; before its second call, what an
\* earlier run left, or nothing.  The progress is the hint.
Climbing(r) ==
    LET t == TaskOf[r] IN
    Live(r) /\ ~failing[r] /\ t \notin lapsed =>
        /\ Stored(r) >= 2 => snap[t].hint # NoHint /\ snap[t].hint <= Top(Stored(r))
        /\ Stored(r) < 2 => snap[t].hint = NoHint \/ Rerun(r)
ProgressIsHint(s) == s.progress = IF s.hint = NoHint THEN 0 ELSE s.hint
Even(t) ==
    t \notin lapsed =>
        /\ ProgressIsHint(snap[t])
        /\ (\A r \in Runs : TaskOf[r] = t => state[r] = "new") => snap[t].hint = NoHint
ProgInv ==
    /\ \A r \in Runs : Climbing(r) /\ (state[r] = "new" => step[r] = 1)
    /\ \A t \in Tasks : Even(t)

\* After its second call, each of a run's hints is above those before.
LEMMA HintsClimb ==
    ASSUME RunType, NEW r \in Runs, Place(r)
    PROVE  /\ failing[r] => Call(r).hint = 100 \/ (Call(r).hint = NoHint /\ Call(r).status = "failed")
           /\ ~failing[r] =>
                /\ step[r] = 1 => Call(r).hint = NoHint /\ Call(r).status = "running"
                /\ step[r] = 2 => Call(r).hint = 15
                /\ step[r] >= 3 => /\ Top(step[r] - 1) <= Top(step[r])
                                   /\ Call(r).hint # NoHint => /\ Top(step[r] - 1) <= Call(r).hint
                                                               /\ Call(r).hint <= Top(step[r])
<1>1. failing[r] \in BOOLEAN /\ loops[r] \in BOOLEAN /\ step[r] \in 1 .. 12
  BY DEF RunType
<1>2. CASE failing[r]
  <2>1. Completing(r) \/ step[r] = 1
    <3>1. CallsMade(r) = 1
      BY <1>2 DEF CallsMade
    <3>2. step[r] <= CallsMade(r) + 1 /\ (Completing(r) <=> step[r] = CallsMade(r) + 1)
      BY CallType DEF Place
    <3> QED  BY <1>1, <3>1, <3>2
  <2>2. CASE Completing(r)
    <3>1. Call(r).hint = 100
      BY <2>2 DEF Call
    <3> QED  BY <1>2, <3>1
  <2>3. CASE ~Completing(r) /\ step[r] = 1
    BY <1>2, <2>3 DEF Call, Calls, Entry
  <2> QED  BY <1>2, <2>1, <2>2, <2>3
<1>3. CASE ~failing[r]
  <2>1. /\ Call(r).hint = IF step[r] = CallsMade(r) + 1 THEN 100 ELSE HintAt(step[r], loops[r])
        /\ step[r] = 1 => Call(r).status = "running"
    BY <1>3, CallHints
  <2>2. CallsMade(r) = IF loops[r] THEN 11 ELSE 9
    BY <1>3 DEF CallsMade
  <2>3. step[r] <= CallsMade(r) + 1
    BY DEF Place
  <2> DEFINE k == step[r]  h == Call(r).hint
  <2>4. /\ k \in 1 .. 12 /\ loops[r] \in BOOLEAN
        /\ k <= (IF loops[r] THEN 11 ELSE 9) + 1
        /\ h = IF k = (IF loops[r] THEN 11 ELSE 9) + 1 THEN 100 ELSE HintAt(k, loops[r])
    BY <1>1, <2>1, <2>2, <2>3
  <2>5. k = 1 => Call(r).status = "running"
    BY <2>1
  <2> HIDE DEF k, h
  <2>6. k >= 3 => Top(k - 1) <= Top(k)
    BY <2>4 DEF Top
  <2>7. (k = 1 => h = NoHint) /\ (k = 2 => h = 15)
    BY <2>4 DEF HintAt
  <2>8. k >= 3 /\ h # NoHint => Top(k - 1) <= h /\ h <= Top(k)
    BY <2>4 DEF HintAt, Top
  <2> QED  BY <1>3, <2>5, <2>6, <2>7, <2>8 DEF k, h
<1> QED  BY <1>2, <1>3

\* What SETEX makes of the progress.
LEMMA PersistClimbs ==
    ASSUME StepInv, NEW r \in Runs, Reached(r), ProgInv, PersistStatus(r), TaskOf[r] \notin lapsed
    PROVE  /\ ProgressIsHint(snap'[TaskOf[r]])
           /\ ~failing[r] /\ step[r] >= 2 =>
                snap'[TaskOf[r]].hint # NoHint /\ snap'[TaskOf[r]].hint <= Top(step[r])
           /\ ~failing[r] /\ step[r] < 2 => snap'[TaskOf[r]].hint = NoHint \/ Rerun(r)
           /\ snap'[TaskOf[r]].progress < snap[TaskOf[r]].progress =>
                ~failing[r] /\ step[r] = 2 /\ Rerun(r)
<1> DEFINE s == snap[TaskOf[r]]  u == snap'[TaskOf[r]]  e == Call(r)  k == step[r]
<1>1. RunType /\ StoreType /\ Place(r) /\ TaskOf[r] \in Tasks
  BY MonitorAssumption DEF StepInv
<1>2. state[r] = "tracking" /\ cmd[r] = "setex" /\ snap' = [snap EXCEPT ![TaskOf[r]] = loc[r]]
  BY DEF PersistStatus, At
<1>3. u = Update(s, e)
  <2>1. snap'[TaskOf[r]] = loc[r]
    BY <1>1, <1>2 DEF StoreType
  <2> QED  BY <1>2, <2>1 DEF Reached
<1>4. s \in Snapshot
  BY <1>1 DEF StoreType
<1>5. s.hint \in NoHint .. 100 /\ s.progress \in 0 .. 100 /\ k \in 1 .. 12 /\ failing[r] \in BOOLEAN
  BY <1>1, <1>4 DEF Snapshot, RunType
<1>6. e.hint \in NoHint .. 100
  <2>1. e \in Entries \cup [status : Settled, hint : {100}, final : {TRUE}]
    BY <1>1, CallType
  <2>2. 100 \in NoHint .. 100
    BY DEF NoHint
  <2> HIDE DEF e
  <2> QED  BY <2>1, <2>2 DEF Entries
<1>7. /\ u.hint = IF e.hint = NoHint THEN s.hint ELSE e.hint
      /\ u.progress = IF u.hint # NoHint THEN u.hint
                      ELSE IF e.status = "completed" THEN 100 ELSE s.progress
  BY <1>3 DEF Update
<1>8. ProgressIsHint(s)
  BY <1>1 DEF ProgInv, Even
<1>9. ~failing[r] => /\ k - 1 >= 2 => s.hint # NoHint /\ s.hint <= Top(k - 1)
                     /\ k - 1 < 2 => s.hint = NoHint \/ Rerun(r)
  BY <1>2 DEF ProgInv, Climbing, Live, Stored
<1>10. /\ failing[r] => e.hint = 100 \/ (e.hint = NoHint /\ e.status = "failed")
       /\ ~failing[r] =>
            /\ k = 1 => e.hint = NoHint /\ e.status = "running"
            /\ k = 2 => e.hint = 15
            /\ k >= 3 => /\ Top(k - 1) <= Top(k)
                         /\ e.hint # NoHint => Top(k - 1) <= e.hint /\ e.hint <= Top(k)
  BY <1>1, HintsClimb
<1>11. Top(k) \in Int /\ Top(k - 1) \in Int /\ Top(2) = 15
  BY DEF Top
<1> HIDE DEF s, u, e, k
<1>12. CASE failing[r]
  BY <1>5, <1>6, <1>7, <1>8, <1>10, <1>12 DEF ProgressIsHint, NoHint, s, u, k
<1>13. CASE ~failing[r] /\ k = 1
  BY <1>5, <1>6, <1>7, <1>8, <1>9, <1>10, <1>13 DEF ProgressIsHint, NoHint, s, u, k
<1>14. CASE ~failing[r] /\ k = 2
  <2>1. u.hint = 15 /\ u.progress = 15 /\ Top(k) = 15
    BY <1>7, <1>10, <1>11, <1>14 DEF NoHint
  <2>2. s.progress > 15 => Rerun(r)
    BY <1>5, <1>8, <1>9, <1>14 DEF ProgressIsHint, NoHint
  <2> QED  BY <1>5, <1>14, <2>1, <2>2 DEF ProgressIsHint, NoHint, s, u, k
<1>15. CASE ~failing[r] /\ k >= 3
  <2>1. s.hint # NoHint /\ s.hint <= Top(k - 1) /\ Top(k - 1) <= Top(k)
    BY <1>5, <1>9, <1>10, <1>15
  <2>2. u.hint # NoHint /\ u.hint <= Top(k) /\ s.hint <= u.hint /\ u.progress = u.hint
        /\ u.hint \in NoHint .. 100
    BY <1>5, <1>6, <1>7, <1>10, <1>11, <1>15, <2>1
  <2>3. s.progress = s.hint
    BY <1>8, <2>1 DEF ProgressIsHint
  <2>4. ProgressIsHint(u) /\ ~(u.progress < s.progress)
    BY <1>5, <2>2, <2>3 DEF ProgressIsHint
  <2>5. ~failing[r] /\ ~(k < 2)
    BY <1>5, <1>15
  <2> QED  BY <2>2, <2>4, <2>5 DEF s, u, k
<1>16. k = 1 \/ k = 2 \/ k >= 3
  BY <1>5
<1> QED  BY <1>12, <1>13, <1>14, <1>15, <1>16

\* Only SETEX stores: otherwise a run has stored as many calls as before, or fails.
LEMMA SameStored ==
    ASSUME StepInv, NEW r \in Runs, Begin(r) \/ RunStep(r)
    PROVE  /\ lapsed' = lapsed /\ crashes' = crashes /\ state'[r] # "new"
           /\ snap' = snap \/ PersistStatus(r)
           /\ RunStep(r) /\ ~PersistStatus(r) /\ Live(r)' /\ ~failing'[r] =>
                ~failing[r] /\ Stored(r)' = Stored(r)
           /\ PersistStatus(r) /\ ~failing'[r] => ~failing[r] /\ Stored(r)' = step[r]
           /\ Begin(r) => Stored(r)' = step[r] - 1 /\ failing' = failing
<1> USE DEF store, counters, env
<1>1. RunType /\ Place(r) /\ step[r] \in 1 .. 12
  BY DEF StepInv, RunType
<1>2. ASSUME Raise(r) PROVE failing'[r] /\ state'[r] # "new"
  BY <1>1, <1>2 DEF Raise, RunType
<1>3. CASE Begin(r)
  <2>1. /\ state'[r] = "tracking" /\ cmd[r] = "get" /\ UNCHANGED <<step, cmd, failing>>
        /\ UNCHANGED <<snap, env>> /\ state[r] = "new"
    BY <1>1, <1>3 DEF Begin, RunType, Place
  <2> QED  BY <2>1 DEF Stored, RunStep, Execute, Validate, CommandFails, LoadSnapshot,
             PersistStatus, PersistActiveHint, Publish, IncrTotal, IncrOutcome, IncrModel,
             PushRecent, TrimRecent, At
<1>4. CASE Execute(r) \/ Validate(r)
  <2>1. UNCHANGED <<snap, env>>
    BY <1>4 DEF Execute, Validate
  <2>2. Raise(r) \/ (state'[r] = "tracking" /\ UNCHANGED <<failing, step, cmd>>)
    BY <1>1, <1>4 DEF Execute, Validate, RunType
  <2>3. state[r] # "new" /\ ~PersistStatus(r) /\ ~Begin(r)
    BY <1>4 DEF Execute, Validate, PersistStatus, At, Begin
  <2> QED  BY <1>2, <2>1, <2>2, <2>3 DEF Stored
<1>5. CASE CommandFails(r)
  <2>1. UNCHANGED <<snap, env>> /\ Raise(r) /\ state[r] = "tracking"
    BY <1>5 DEF CommandFails
  <2> QED  BY <1>2, <2>1 DEF Begin
<1>6. CASE LoadSnapshot(r)
  <2>1. /\ UNCHANGED <<snap, env, state, failing, step>> /\ cmd[r] = "get"
        /\ cmd'[r] = "setex" /\ state[r] = "tracking"
    BY <1>1, <1>6 DEF LoadSnapshot, At, RunType
  <2> QED  BY <2>1 DEF Stored, Begin, PersistStatus, At
<1>7. CASE PersistStatus(r)
  <2>1. /\ lapsed' = lapsed /\ crashes' = crashes /\ Done(r, "sadd") /\ state[r] = "tracking"
    BY <1>7 DEF PersistStatus, At
  <2>2. Raise(r) \/ (cmd'[r] = "sadd" /\ UNCHANGED <<state, failing, step>>)
    BY <1>1, <2>1 DEF Done, RunType
  <2> QED  BY <1>2, <1>7, <2>1, <2>2 DEF Stored, Begin
<1>8. CASE PersistActiveHint(r) \/ IncrTotal(r) \/ IncrOutcome(r) \/ IncrModel(r) \/ PushRecent(r)
  <2>1. /\ UNCHANGED <<snap, env>> /\ state[r] = "tracking"
        /\ cmd[r] \notin {"get", "setex"}
        /\ \E next \in Commands \ {"get", "setex"} : Done(r, next)
    BY <1>8 DEF PersistActiveHint, IncrTotal, IncrOutcome, IncrModel, PushRecent, At, Commands
  <2>2. \/ Raise(r)
        \/ cmd'[r] \notin {"get", "setex"} /\ UNCHANGED <<state, failing, step>>
    BY <1>1, <2>1 DEF Done, RunType
  <2> QED  BY <1>2, <2>1, <2>2 DEF Stored, Begin, PersistStatus, At
<1>9. CASE Publish(r)
  <2>1. /\ UNCHANGED <<snap, env, failing>> /\ state[r] = "tracking" /\ cmd[r] = "publish"
    BY <1>9 DEF Publish, At
  <2>2. CASE Completing(r)
    <3>1. cmd'[r] = "total" /\ UNCHANGED <<state, step>>
      BY <1>1, <1>9, <2>2 DEF Publish, StartCounting, RunType
    <3> QED  BY <2>1, <3>1 DEF Stored, Begin, PersistStatus, At
  <2>3. CASE ~Completing(r)
    <3>1. AfterTrack(r)
      BY <1>9, <2>3 DEF Publish
    <3>2. cmd'[r] = "get" /\ step'[r] = step[r] + 1
      BY <1>1, <3>1 DEF AfterTrack, RunType
    <3>3. state'[r] # "new"
      BY <1>1, <3>1 DEF AfterTrack, RunType
    <3> QED  BY <1>1, <2>1, <3>2, <3>3 DEF Stored, Begin, PersistStatus, At
  <2> QED  BY <2>2, <2>3
<1>10. CASE TrimRecent(r)
  <2>1. UNCHANGED <<snap, env>> /\ state[r] = "tracking" /\ cmd[r] = "ltrim"
    BY <1>10 DEF TrimRecent, At
  <2>2. Raise(r) \/ state'[r] = "over"
    BY <1>1, <1>10 DEF TrimRecent, RunType
  <2> QED  BY <1>2, <2>1, <2>2 DEF Live, Begin, PersistStatus, At
<1> QED  BY <1>3, <1>4, <1>5, <1>6, <1>7, <1>8, <1>9, <1>10 DEF RunStep

LEMMA RunKeepsProgress ==
    ASSUME ~DbFails, StepInv, ListInv, ProgInv, NEW r \in Runs, Begin(r) \/ RunStep(r)
    PROVE  ProgInv'
<1> DEFINE t == TaskOf[r]
<1>1. RunType /\ StoreType /\ Alone /\ Reached(r) /\ t \in Tasks /\ step[r] \in 1 .. 12
  BY MonitorAssumption DEF StepInv, ListInv, RunType
<1>2. /\ OnlyOf(r) /\ lapsed' = lapsed /\ state'[r] # "new"
      /\ snap' = snap \/ PersistStatus(r)
  BY <1>1, RunStepOnlyOf, SameStored
<1>3. ASSUME NEW q \in Runs \ {r} PROVE Climbing(q)' /\ (state'[q] = "new" => step'[q] = 1)
  <2>1. /\ state'[q] = state[q] /\ failing'[q] = failing[q] /\ step'[q] = step[q]
        /\ cmd'[q] = cmd[q]
    BY <1>2 DEF OnlyOf
  <2>2. CASE TaskOf[q] = t
    <3>1. ~Live(q)
      BY <1>1, <2>2, StepperLives DEF Begin, Alone
    <3> QED  BY <2>1, <3>1 DEF Climbing, Live, ProgInv
  <2>3. CASE TaskOf[q] # t
    <3>1. TaskOf[q] \in Tasks
      BY MonitorAssumption
    <3>2. snap'[TaskOf[q]] = snap[TaskOf[q]]
      BY <1>2, <2>3, <3>1 DEF OnlyOf
    <3>3. Rerun(q) => Rerun(q)'
      BY <1>2, <2>3 DEF Rerun, OnlyOf
    <3> QED  BY <1>2, <2>1, <3>2, <3>3 DEF Climbing, Live, Stored, ProgInv
  <2> QED  BY <2>2, <2>3
<1>4. Climbing(r)'
  <2>1. Rerun(r) => Rerun(r)'
    BY <1>2 DEF Rerun, OnlyOf
  <2>2. CASE Begin(r)
    <3>1. state[r] = "new" /\ \A q \in Runs \ {r} : TaskOf[q] = t => ~Live(q)
      BY <2>2 DEF Begin
    <3>2. snap' = snap /\ Stored(r)' = 0
      <4>1. Stored(r)' = step[r] - 1
        BY <2>2, SameStored
      <4> QED  BY <2>2, <3>1, <4>1 DEF ProgInv, Begin, store, counters
    <3>3. Rerun(r) \/ \A q \in Runs : TaskOf[q] = t => state[q] = "new"
      BY <3>1 DEF Rerun, Live
    <3>4. t \notin lapsed => snap[t].hint = NoHint \/ Rerun(r)
      BY <1>1, <3>3 DEF ProgInv, Even
    <3> QED  BY <1>2, <2>1, <3>2, <3>4 DEF Climbing
  <2>3. CASE RunStep(r) /\ ~PersistStatus(r)
    <3>1. Live(r)' /\ ~failing'[r] => ~failing[r] /\ Stored(r)' = Stored(r)
      BY <2>3, SameStored
    <3> QED  BY <1>2, <2>1, <2>3, <3>1, StepperLives DEF Climbing, ProgInv
  <2>4. CASE PersistStatus(r)
    <3>1. ~failing'[r] => ~failing[r] /\ Stored(r)' = step[r]
      BY <2>4, SameStored
    <3> QED  BY <1>1, <1>2, <2>1, <2>4, <3>1, PersistClimbs DEF Climbing
  <2> QED  BY <2>2, <2>3, <2>4
<1>5. ASSUME NEW u \in Tasks PROVE Even(u)'
  <2>1. CASE u = t
    <3>1. u \notin lapsed => ProgressIsHint(snap'[u])
      BY <1>1, <1>2, <2>1, PersistClimbs DEF ProgInv, Even
    <3> QED  BY <1>2, <2>1, <3>1 DEF Even, ProgressIsHint
  <2>2. CASE u # t
    <3>1. snap'[u] = snap[u] /\ \A q \in Runs : TaskOf[q] = u => state'[q] = state[q]
      BY <1>2, <2>2 DEF OnlyOf
    <3> QED  BY <1>2, <3>1 DEF ProgInv, Even, ProgressIsHint
  <2> QED  BY <2>1, <2>2
<1> QED  BY <1>2, <1>3, <1>4, <1>5 DEF ProgInv

LEMMA ProgInvInit == ASSUME Init PROVE ProgInv
<1>1. \A t \in Tasks : snap[t] = Missing
  BY DEF Init
<1>2. \A r \in Runs : state[r] = "new" /\ step[r] = 1
  BY DEF Init
<1> QED  BY <1>1, <1>2 DEF ProgInv, Climbing, Live, Even, ProgressIsHint, Missing

LEMMA ProgInvStep ==
    ASSUME ~DbFails, StepInv, ListInv, ProgInv, [Next]_vars
    PROVE  ProgInv'
<1> USE DEF store, counters, runVars, clientVars, env
<1>1. ASSUME NEW r \in Runs, Begin(r) \/ RunStep(r) PROVE ProgInv'
  BY <1>1, RunKeepsProgress
<1>2. ASSUME UNCHANGED <<snap, runVars, lapsed>> PROVE ProgInv'
  BY <1>2 DEF ProgInv, Climbing, Live, Stored, Rerun, Even, ProgressIsHint
<1>3. ASSUME NEW c \in Clients, GetStatus(c) \/ Subscribe(c) \/ Deliver(c) \/ Disconnect(c)
      PROVE  ProgInv'
  BY <1>2, <1>3 DEF GetStatus, Subscribe, Deliver, Disconnect
<1>4. ASSUME NEW t \in Tasks, Expire(t) PROVE ProgInv'
  <2>1. /\ UNCHANGED runVars /\ lapsed' = lapsed \cup {t}
        /\ \A u \in Tasks \ {t} : snap'[u] = snap[u]
    BY <1>4 DEF Expire, StepInv, StoreType
  <2>2. ASSUME NEW r \in Runs PROVE Climbing(r)' /\ (state'[r] = "new" => step'[r] = 1)
    <3>1. TaskOf[r] \in Tasks
      BY MonitorAssumption
    <3> QED  BY <2>1, <3>1 DEF ProgInv, Climbing, Live, Stored, Rerun
  <2>3. ASSUME NEW u \in Tasks PROVE Even(u)'
    BY <2>1 DEF ProgInv, Even, ProgressIsHint
  <2> QED  BY <2>2, <2>3 DEF ProgInv
<1>5. CASE Crash
  <2>1. /\ \A r \in Runs : /\ state'[r] \in {"new", "over"} /\ step'[r] = 1
                           /\ state'[r] = "new" => state[r] = "new"
        /\ lapsed' = lapsed
    BY <1>5 DEF Crash, StepInv, RunType, Live
  <2>2. snap' = snap \/ \A t \in Tasks : snap'[t] = Missing
    BY <1>5 DEF Crash
  <2>3. ASSUME NEW t \in Tasks PROVE Even(t)'
    <3>1. CASE snap' = snap
      BY <2>1, <3>1 DEF ProgInv, Even, ProgressIsHint
    <3>2. CASE snap'[t] = Missing
      BY <3>2 DEF Even, ProgressIsHint, Missing
    <3> QED  BY <2>2, <3>1, <3>2
  <2> QED  BY <2>1, <2>3 DEF ProgInv, Climbing, Live
<1>6. CASE UNCHANGED vars \/ NewDay
  BY <1>2, <1>6 DEF vars, NewDay
<1> QED  BY <1>1, <1>3, <1>4, <1>5, <1>6 DEF Next, Quiet

\* Unless transactions abort, a task's progress falls only when a later run of it
\* starts over, in its second call: for any number of runs, whatever Redis does,
\* as long as the snapshot does not expire and the process lives.
THEOREM ProgressClimbs == Spec => ProgressFallsOnRerunOnly
<1>1. Spec => []StepInv
  <2>1. Init => StepInv
    BY StepInvInit
  <2>2. StepInv /\ [Next]_vars => StepInv'
    BY StepInvStep
  <2> QED  BY <2>1, <2>2, PTL DEF Spec
<1> DEFINE Climbs ==
        ~DbFails /\ crashes' = crashes =>
            \A t \in Tasks \ lapsed' : snap'[t].progress < snap[t].progress =>
                \E r, q \in Runs : /\ TaskOf[r] = t /\ TaskOf[q] = t /\ q # r
                                   /\ state[q] = "over" /\ step[r] = 2 /\ ~failing[r]
<1>2. CASE DbFails
  <2>1. StepInv /\ [Next]_vars => [Climbs]_vars
    BY <1>2
  <2> QED  BY <1>1, <2>1, PTL DEF Spec, ProgressFallsOnRerunOnly
<1>3. CASE ~DbFails
  <2>1. Init => ListInv /\ ProgInv
    BY ListInvInit, ProgInvInit
  <2>2. StepInv /\ ListInv /\ ProgInv /\ [Next]_vars => (ListInv /\ ProgInv)'
    BY <1>3, ListInvStep, ProgInvStep
  <2>3. ASSUME StepInv, ListInv, ProgInv, [Next]_vars
        PROVE  [Climbs]_vars
    <3> SUFFICES ASSUME Next, crashes' = crashes, NEW t \in Tasks, t \notin lapsed',
                        snap'[t].progress < snap[t].progress
                 PROVE  \E r, q \in Runs : /\ TaskOf[r] = t /\ TaskOf[q] = t /\ q # r
                                           /\ state[q] = "over" /\ step[r] = 2 /\ ~failing[r]
      BY <2>3
    <3>1. ~(snap'[t] = snap[t])
      <4>1. snap[t].progress \in 0 .. 100
        BY <2>3 DEF StepInv, StoreType, Snapshot
      <4> QED  BY <4>1
    <3>2. ASSUME NEW r \in Runs, Begin(r) \/ RunStep(r)
          PROVE  TaskOf[r] = t /\ ~failing[r] /\ step[r] = 2 /\ Rerun(r)
      <4>1. RunType /\ StoreType /\ Reached(r)
        BY <2>3 DEF StepInv, ListInv
      <4>2. OnlyOf(r) /\ lapsed' = lapsed /\ (snap' = snap \/ PersistStatus(r))
        BY <2>3, <3>2, <4>1, RunStepOnlyOf, SameStored
      <4>3. TaskOf[r] = t /\ PersistStatus(r)
        BY <3>1, <4>2 DEF OnlyOf
      <4> QED  BY <2>3, <4>1, <4>2, <4>3, PersistClimbs
    <3>3. ASSUME NEW u \in Tasks, Expire(u) PROVE FALSE
      <4>1. u # t
        BY <3>3 DEF Expire
      <4> QED  BY <2>3, <3>1, <3>3, <4>1 DEF Expire, StepInv, StoreType
    <3>4. ASSUME Crash PROVE FALSE
      BY <2>3, <3>4 DEF Crash, StepInv, EnvType
    <3>5. \E r \in Runs : Begin(r) \/ RunStep(r)
      BY <3>1, <3>3, <3>4 DEF Next, GetStatus, Subscribe, Deliver, Disconnect, NewDay, Quiet, vars,
         store, counters
    <3> QED  BY <3>2, <3>5 DEF Rerun
  <2> HIDE DEF Climbs
  <2>4. StepInv /\ ListInv /\ ProgInv /\ [Next]_vars => [Climbs]_vars
    BY <2>3
  <2> QED  BY <1>1, <2>1, <2>2, <2>4, PTL DEF Spec, ProgressFallsOnRerunOnly, Climbs
<1> QED  BY <1>2, <1>3

---------------------------------------------------------------------------
(* MonitorDashboard.  Little of the monitor is used: that nothing leaves the index of *)
(* active tasks unless the process dies.                                              *)


\* The index grows only.
LEMMA IndexGrows ==
    ASSUME Next, crashes' = crashes, active \subseteq Tasks, crashes \in Int
    PROVE  active \subseteq active'
<1> USE DEF store, counters, runVars, clientVars, env
<1>1. ASSUME NEW r \in Runs, Begin(r) \/ RunStep(r)
      PROVE  active \subseteq active'
  BY <1>1 DEF Begin, RunStep, Execute, Validate, CommandFails, LoadSnapshot, PersistStatus,
      PersistActiveHint, Publish, IncrTotal, IncrOutcome, IncrModel, PushRecent, TrimRecent
<1>2. ASSUME NEW c \in Clients, GetStatus(c) \/ Subscribe(c) \/ Deliver(c) \/ Disconnect(c)
      PROVE  active \subseteq active'
  BY <1>2 DEF GetStatus, Subscribe, Deliver, Disconnect
<1>3. ASSUME NEW t \in Tasks, Expire(t)
      PROVE  active \subseteq active'
  BY <1>3 DEF Expire
<1>4. ~Crash
  BY DEF Crash
<1>5. CASE Quiet \/ NewDay
  BY <1>5 DEF Quiet, NewDay, vars
<1> QED  BY <1>1, <1>2, <1>3, <1>4, <1>5 DEF Next

\* What the lemma wants to know of the monitor, invariant by itself.
IndexType == active \subseteq Tasks /\ crashes \in Nat

LEMMA IndexTypeStep ==
    ASSUME IndexType, [Next]_vars
    PROVE  IndexType'
<1> USE DEF store, counters, runVars, clientVars, env, IndexType
<1>1. ASSUME NEW r \in Runs, Begin(r) \/ RunStep(r)
      PROVE  IndexType'
  BY <1>1, MonitorAssumption DEF Begin, RunStep, Execute, Validate, CommandFails, LoadSnapshot,
      PersistStatus, PersistActiveHint, Publish, IncrTotal, IncrOutcome, IncrModel, PushRecent,
      TrimRecent
<1>2. ASSUME NEW c \in Clients, GetStatus(c) \/ Subscribe(c) \/ Deliver(c) \/ Disconnect(c)
      PROVE  IndexType'
  BY <1>2 DEF GetStatus, Subscribe, Deliver, Disconnect
<1>3. ASSUME NEW t \in Tasks, Expire(t)
      PROVE  IndexType'
  BY <1>3 DEF Expire
<1>4. CASE Crash
  BY <1>4 DEF Crash
<1>5. CASE Quiet \/ NewDay \/ UNCHANGED vars
  BY <1>5 DEF Quiet, NewDay, vars
<1> QED  BY <1>1, <1>2, <1>3, <1>4, <1>5 DEF Next

RequestInv == IndexType /\ DashboardInv

LEMMA DashboardStart == DashboardInit => RequestInv
<1> SUFFICES ASSUME DashboardInit  PROVE RequestInv
  OBVIOUS
<1>1. IndexType
  BY MonitorAssumption DEF DashboardInit, Init, IndexType
<1> QED  BY <1>1 DEF DashboardInit, RequestInv, DashboardInv, Reading, Shown

LEMMA RequestKeeps ==
    ASSUME RequestInv, RequestStep
    PROVE  RequestInv'
<1> USE DEF RequestInv, DashboardInv, Reading, Shown, request, watch
<1>1. UNCHANGED vars /\ UNCHANGED <<snap, active, crashes>>
  BY DEF RequestStep, Ask, ReadIndex, TestExists, LoadStatus, Cut, ShowStatus, Answer,
         ReadFails, Close, vars, store, counters, env
<1>2. IndexType' /\ ListedNow' = ListedNow
  BY <1>1 DEF IndexType, ListedNow, Listed
<1>3. CASE Ask
  BY <1>1, <1>2, <1>3 DEF Ask
<1>4. CASE ReadIndex
  BY <1>1, <1>2, <1>4 DEF ReadIndex
<1>5. ASSUME NEW t \in Tasks, TestExists(t)
      PROVE  RequestInv'
  BY <1>1, <1>2, <1>5 DEF TestExists
<1>6. ASSUME NEW t \in Tasks, LoadStatus(t)
      PROVE  RequestInv'
  <2>1. t \in current /\ current' = {} /\ UNCHANGED <<reader, left, shown, sometime>>
        /\ kept' \in {kept, kept \cup {t}}
    BY <1>6 DEF LoadStatus
  <2>2. ASSUME Reading, kept' = kept \cup {t}, kept' # kept
        PROVE  t \in sometime
    <3>1. CASE snap[t] = Missing
      BY <2>1, <2>2, <3>1
    <3>2. CASE snap[t] # Missing
      <4>1. snap[t].status \notin Settled
        BY <1>6, <2>2 DEF LoadStatus
      <4>2. t \in active
        BY <2>1, <2>2
      <4> QED  BY <2>2, <3>2, <4>1, <4>2 DEF ListedNow, Listed
    <3> QED  BY <3>1, <3>2
  <2> QED  BY <1>1, <1>2, <2>1, <2>2
<1>7. CASE Cut
  BY <1>1, <1>2, <1>7 DEF Cut
<1>8. ASSUME NEW t \in Tasks, ShowStatus(t)
      PROVE  RequestInv'
  BY <1>1, <1>2, <1>8 DEF ShowStatus
<1>9. CASE Answer \/ ReadFails \/ Close
  BY <1>1, <1>2, <1>9 DEF Answer, ReadFails, Close
<1> QED  BY <1>3, <1>4, <1>5, <1>6, <1>7, <1>8, <1>9 DEF RequestStep

LEMMA MonitorKeeps ==
    ASSUME RequestInv, MonitorStep
    PROVE  RequestInv'
<1> USE DEF RequestInv, Reading, Shown, watch
<1>1. IndexType'
  BY IndexTypeStep DEF MonitorStep
<1>2. CASE ~Reading
  BY <1>1, <1>2 DEF MonitorStep, DashboardInv
<1>3. CASE Reading /\ crashes' # crashes
  BY <1>1, <1>3 DEF MonitorStep, DashboardInv
<1>4. CASE Reading /\ crashes' = crashes
  <2>1. active \subseteq active'
    BY <1>4, IndexGrows DEF MonitorStep, IndexType
  <2>2. /\ UNCHANGED <<reader, left, current, kept, shown>>
        /\ sometime' = sometime \cup ListedNow' \cup RunOut
    BY <1>4 DEF MonitorStep
  <2>3. ASSUME NEW t \in current, snap'[t] = Missing
        PROVE  t \in sometime'
    BY <1>4, <2>2, <2>3 DEF RunOut, DashboardInv, IndexType
  <2> QED  BY <1>1, <1>4, <2>1, <2>2, <2>3 DEF DashboardInv
<1> QED  BY <1>2, <1>3, <1>4

\* What a request knows of the tasks it has looked at is invariant.
THEOREM DashboardInvariant == DashboardSpec => []DashboardInv
<1>1. RequestInv /\ [DashboardNext]_allVars => RequestInv'
  <2> SUFFICES ASSUME RequestInv, [DashboardNext]_allVars  PROVE RequestInv'
    OBVIOUS
  <2>1. CASE UNCHANGED allVars
    BY <2>1 DEF allVars, vars, store, counters, env, request, watch, RequestInv, IndexType, DashboardInv,
                Reading, Shown, ListedNow, Listed
  <2> QED  BY <2>1, RequestKeeps, MonitorKeeps DEF DashboardNext
<1>2. DashboardSpec => []RequestInv
  BY <1>1, DashboardStart, PTL DEF DashboardSpec
<1> QED  BY <1>2, PTL DEF RequestInv

\* Whatever is shown as active was active at some moment of the request, or ran out.
THEOREM DashboardShowsActive == DashboardSpec => []ShownWasActive
<1>1. DashboardInv => ShownWasActive
  BY DEF DashboardInv, ShownWasActive
<1> QED  BY <1>1, DashboardInvariant, PTL

\* Where a task is that has been listed all the time: still to be looked at, found,
\* or kept, and in the end shown; unless others fill the answer.
Passing ==
    /\ current = {} \/ \E t \in Tasks : current = {t}
    /\ Reading => throughout \subseteq ListedNow
    /\ reader = "list" => throughout \subseteq left \cup current \cup kept
    /\ reader \in {"idle", "index", "list"} => shown = {}
    /\ reader \in {"show", "answered"} =>
          throughout \subseteq kept \cup Shown \/ Cardinality(kept \cup Shown) = ActiveLimit
    /\ reader = "answered" => kept = {}
    /\ reader # "idle" => UseRedis

LEMMA RequestPasses ==
    ASSUME Passing, RequestStep
    PROVE  Passing'
<1> USE DEF Passing, Reading, request, watch
<1>1. UNCHANGED <<snap, active>>
  BY DEF RequestStep, Ask, ReadIndex, TestExists, LoadStatus, Cut, ShowStatus, Answer,
         ReadFails, Close, vars, store, counters
<1>2. ListedNow' = ListedNow
  BY <1>1 DEF ListedNow, Listed
<1>3. CASE Ask
  BY <1>2, <1>3 DEF Ask, Shown
<1>4. CASE ReadIndex
  <2>1. ListedNow \subseteq active
    BY <1>4 DEF ListedNow, Listed, ReadIndex
  <2> QED  BY <1>2, <1>4, <2>1 DEF ReadIndex, Shown
<1>5. ASSUME NEW t \in Tasks, TestExists(t)
      PROVE  Passing'
  <2>1. t \in throughout => snap[t] # Missing
    BY <1>5 DEF TestExists, ListedNow, Listed
  <2> QED  BY <1>2, <1>5, <2>1 DEF TestExists, Shown
<1>6. ASSUME NEW t \in Tasks, LoadStatus(t)
      PROVE  Passing'
  <2>1. /\ current = {t} /\ current' = {}
        /\ UNCHANGED <<reader, left, shown, throughout>>
        /\ kept' = IF snap[t].status \in Settled THEN kept ELSE kept \cup {t}
    BY <1>6 DEF LoadStatus
  <2>2. Reading /\ t \in throughout => snap[t].status \notin Settled
    BY DEF ListedNow, Listed
  <2>3. reader = "list"
    BY <1>6 DEF LoadStatus
  <2> QED  BY <1>2, <2>1, <2>2, <2>3 DEF Shown
<1>7. CASE Cut
  <2>1. /\ reader = "list" /\ left = {} /\ current = {} /\ shown = {}
        /\ reader' = "show" /\ UNCHANGED <<left, current, shown, throughout>>
        /\ kept' = kept \/ Cardinality(kept') = ActiveLimit
    BY <1>7 DEF Cut
  <2>2. kept' \cup Shown' = kept'
    BY <2>1 DEF Shown
  <2> QED  BY <1>2, <2>1, <2>2
<1>8. ASSUME NEW t \in Tasks, ShowStatus(t)
      PROVE  Passing'
  <2>1. /\ reader = "show" /\ t \in kept /\ kept' = kept \ {t}
        /\ shown' = shown \cup {<<t, snap[t].status>>}
        /\ UNCHANGED <<reader, left, current, throughout>>
    BY <1>8 DEF ShowStatus
  <2>2. Shown' = Shown \cup {t}
    <3>1. ASSUME NEW x PROVE x \in Shown' <=> x \in Shown \cup {t}
      <4>1. <<t, snap[t].status>>[1] = t
        OBVIOUS
      <4> QED  BY <2>1, <4>1, Zenon DEF Shown
    <3> QED  BY <3>1
  <2>3. kept' \cup Shown' = kept \cup Shown
    BY <2>1, <2>2
  <2> QED  BY <1>2, <2>1, <2>3
<1>9. CASE Answer \/ ReadFails \/ Close
  BY <1>2, <1>9 DEF Answer, ReadFails, Close, Shown
<1> QED  BY <1>3, <1>4, <1>5, <1>6, <1>7, <1>8, <1>9 DEF RequestStep

LEMMA MonitorPasses ==
    ASSUME Passing, MonitorStep
    PROVE  Passing'
<1> USE DEF Passing, Reading, Shown, watch
<1>1. UNCHANGED <<left, current, kept, shown>>
  BY DEF MonitorStep
<1>2. CASE ~Reading
  <2>1. reader' = reader /\ throughout' = throughout
    BY <1>2 DEF MonitorStep
  <2> QED  BY <1>1, <1>2, <2>1
<1>3. CASE Reading
  <2>1. reader' \in {reader, "failed"} /\ throughout' = throughout \cap ListedNow'
    BY <1>3 DEF MonitorStep
  <2> QED  BY <1>1, <1>3, <2>1
<1> QED  BY <1>2, <1>3

\* A task that is active all along is shown, whatever else happens meanwhile, unless
\* the answer is full.
THEOREM DashboardMissesNothing == DashboardSpec => []ActiveIsShown
<1>1. DashboardInit => Passing
  BY DEF DashboardInit, Passing, Reading
<1>2. Passing /\ [DashboardNext]_allVars => Passing'
  <2> SUFFICES ASSUME Passing, [DashboardNext]_allVars  PROVE Passing'
    OBVIOUS
  <2>1. CASE UNCHANGED allVars
    BY <2>1 DEF allVars, vars, store, counters, request, watch, Passing, Reading, Shown, ListedNow, Listed
  <2> QED  BY <2>1, RequestPasses, MonitorPasses DEF DashboardNext
<1>3. Passing => ActiveIsShown
  BY DEF Passing, ActiveIsShown
<1> QED  BY <1>1, <1>2, <1>3, PTL DEF DashboardSpec

---------------------------------------------------------------------------
(* The end is on its way.  What TLC checks under fairness as ListenerSeesEnd has a part  *)
(* that needs none: the end of a run is not lost between the run and who listens.        *)

EndOwed(c) ==
    \/ EndStillToCome(TaskOf[c])
    \/ \E i \in 1 .. Len(queue[c]) : queue[c][i].final

\* While Redis works, a client that listens and is owed the end of a run is sent it, stays
\* owed it, or is gone: the last snapshot of a run is in its queue before the run stops
\* owing it, and nothing is taken out of a queue but to be sent.
EndIsNeverDropped ==
    [][~RedisFails => \A c \in Clients : client[c] = "listening" /\ EndOwed(c) =>
            \/ client'[c] = "gone"
            \/ view'[c].final
            \/ client'[c] = "listening" /\ EndOwed(c)']_vars

\* What a call carries to the store and the channel: its status, and whether it is the
\* last; only the last goes on to the counters.
Carries(r) ==
    /\ state[r] \in {"executing", "validating"} => ~failing[r]
    /\ state[r] = "tracking" /\ cmd[r] \in {"setex", "sadd", "publish"} =>
         loc[r].final = Call(r).final /\ loc[r].status = Call(r).status
    /\ cmd[r] \in {"total", "outcome", "model", "lpush", "ltrim"} => Completing(r)
CarryInv == \A r \in Runs : Carries(r)

LEMMA CarryStep ==
    ASSUME StepInv, CarryInv, [Next]_vars
    PROVE  CarryInv'
<1> USE DEF store, counters, clientVars, env
<1>1. ASSUME NEW r \in Runs, Begin(r) \/ RunStep(r), NEW q \in Runs \ {r}
      PROVE  Carries(q)'
  <2>1. /\ state'[q] = state[q] /\ failing'[q] = failing[q] /\ step'[q] = step[q]
        /\ cmd'[q] = cmd[q] /\ loc'[q] = loc[q] /\ loops'[q] = loops[q]
        /\ verdict'[q] = verdict[q]
    BY <1>1, RunStepOnlyOf DEF OnlyOf, StepInv
  <2>2. Call(q)' = Call(q) /\ (Completing(q)' <=> Completing(q))
    BY <2>1 DEF Call, Calls, Completing, Outcome
  <2> QED  BY <2>1, <2>2 DEF CarryInv, Carries
<1>2. ASSUME NEW r \in Runs, Begin(r) \/ RunStep(r)
      PROVE  Carries(r)'
  <2>1. RunType /\ Place(r) /\ Carries(r)
    BY DEF StepInv, CarryInv
  <2>2. ASSUME Raise(r)  PROVE Carries(r)'
    BY <2>1, <2>2 DEF Raise, Leave, RunType, Carries
  <2>3. ASSUME NEW next \in {"sadd", "publish"}, Done(r, next), cmd[r] \in {"setex", "sadd"},
               state[r] = "tracking"
        PROVE  Carries(r)'
    <3>1. CASE UNCHANGED <<state, failing, step, loc, loops, verdict>> /\ cmd' = [cmd EXCEPT ![r] = next]
      <4>1. Call(r)' = Call(r) /\ (Completing(r)' <=> Completing(r))
        BY <3>1 DEF Call, Calls, Completing, Outcome
      <4> QED  BY <2>1, <2>3, <3>1, <4>1 DEF Carries, RunType
    <3> QED  BY <2>2, <2>3, <3>1 DEF Done
  <2>4. ASSUME NEW next \in {"outcome", "model", "lpush", "ltrim"}, Done(r, next),
               cmd[r] \in {"total", "outcome", "model", "lpush"}, state[r] = "tracking"
        PROVE  Carries(r)'
    <3>1. CASE UNCHANGED <<state, failing, step, loc, loops, verdict>> /\ cmd' = [cmd EXCEPT ![r] = next]
      <4>1. Completing(r) /\ (Completing(r)' <=> Completing(r))
        BY <2>1, <2>4, <3>1 DEF Calls, Completing, Carries
      <4> QED  BY <2>1, <2>4, <3>1, <4>1 DEF Carries, RunType
    <3> QED  BY <2>2, <2>4, <3>1 DEF Done
  <2>5. CASE Begin(r)
    BY <2>1, <2>5 DEF Begin, Carries, Place, RunType
  <2>6. CASE Execute(r) \/ Validate(r)
    <3>1. CASE Raise(r)
      BY <2>2, <3>1
    <3>2. CASE ~Raise(r)
      BY <2>1, <2>6, <3>2 DEF Execute, Validate, Carries, Place, RunType
    <3> QED  BY <3>1, <3>2
  <2>7. CASE CommandFails(r)
    BY <2>2, <2>7 DEF CommandFails
  <2>8. CASE LoadSnapshot(r)
    <3>1. /\ UNCHANGED <<state, failing, step, loops, verdict>> /\ state[r] = "tracking"
          /\ loc'[r] = Update(snap[TaskOf[r]], Call(r))
      BY <2>1, <2>8 DEF LoadSnapshot, At, RunType
    <3>2. Call(r)' = Call(r) /\ cmd'[r] = "setex"
      BY <2>1, <2>8, <3>1 DEF LoadSnapshot, Call, Calls, Completing, Outcome, RunType
    <3>3. loc'[r].final = Call(r).final /\ loc'[r].status = Call(r).status
      BY <3>1 DEF Update
    <3> QED  BY <2>1, <3>1, <3>2, <3>3 DEF Carries
  <2>9. CASE PersistStatus(r) \/ PersistActiveHint(r)
    BY <2>3, <2>9 DEF PersistStatus, PersistActiveHint, At
  <2>10. CASE Publish(r)
    <3>1. CASE Completing(r)
      <4>1. Completing(r)'
        BY <2>10, <3>1 DEF Publish, StartCounting, Completing, Calls
      <4> QED  BY <2>1, <2>10, <3>1, <4>1 DEF Publish, StartCounting, At, Carries, RunType
    <3>2. CASE ~Completing(r)
      <4>1. failing' = failing /\ cmd'[r] = "get" /\ AfterTrack(r)
        BY <2>1, <2>10, <3>2 DEF Publish, AfterTrack, RunType
      <4>2. CASE ~failing[r]
        BY <4>1, <4>2 DEF Carries
      <4>3. CASE failing[r]
        <5>1. Len(Plan) = 4 /\ Len(Plan) + Len(Review(loops[r])) \in {8, 10} /\ step[r] <= 2
          <6>1. Len(Plan) = 4 /\ Len(Review(loops[r])) = IF loops[r] THEN 6 ELSE 4
            BY <2>1, CallsShape DEF RunType
          <6>2. step[r] <= 2
            BY <2>1, <4>3 DEF Place, CallsMade
          <6> QED  BY <6>1, <6>2
        <5>2. step[r] # Len(Plan) /\ step[r] # Len(Plan) + Len(Review(loops[r]))
          BY <2>1, <5>1 DEF RunType
        <5>3. state'[r] = "tracking"
          BY <2>1, <4>1, <4>3, <5>2 DEF AfterTrack, RunType
        <5> QED  BY <4>1, <5>3 DEF Carries
      <4> QED  BY <4>2, <4>3
    <3> QED  BY <3>1, <3>2
  <2>11. CASE IncrTotal(r) \/ IncrOutcome(r) \/ IncrModel(r) \/ PushRecent(r)
    BY <2>4, <2>11 DEF IncrTotal, IncrOutcome, IncrModel, PushRecent, At
  <2>12. CASE TrimRecent(r)
    BY <2>1, <2>2, <2>12 DEF TrimRecent, Leave, Carries, RunType
  <2> QED  BY <1>2, <2>5, <2>6, <2>7, <2>8, <2>9, <2>10, <2>11, <2>12 DEF RunStep
<1>3. CASE UNCHANGED runVars
  <2>1. ASSUME NEW r \in Runs  PROVE Carries(r)'
    <3>1. Call(r)' = Call(r) /\ (Completing(r)' <=> Completing(r))
      BY <1>3 DEF Call, Calls, Completing, Outcome, runVars
    <3> QED  BY <1>3, <3>1 DEF CarryInv, Carries, runVars
  <2> QED  BY <2>1 DEF CarryInv
<1>4. CASE Crash
  <2>1. \A r \in Runs : state'[r] \in {"new", "over"} /\ cmd'[r] = "get"
    BY <1>4 DEF Crash, Live, StepInv, RunType
  <2> QED  BY <2>1 DEF CarryInv, Carries
<1>5. \/ \E r \in Runs : Begin(r) \/ RunStep(r)
      \/ Crash \/ UNCHANGED runVars
  BY DEF Next, GetStatus, Subscribe, Deliver, Disconnect, Expire, NewDay, Quiet, vars
<1> QED  BY <1>1, <1>2, <1>3, <1>4, <1>5 DEF CarryInv

\* A run that is to bring the end brings it a step nearer, or to those who listen.
LEMMA EndStaysOwed ==
    ASSUME StepInv, CarryInv, ~RedisFails, NEW c \in Clients, client[c] = "listening",
           NEW r \in Runs, Begin(r) \/ RunStep(r), EndOwed(c)
    PROVE  client'[c] = "listening" /\ EndOwed(c)'
<1> USE DEF store, counters, clientVars, env
<1>1. client' = client /\ RunType /\ Place(r) /\ Carries(r) /\ queue[c] \in Seq(Snapshot)
  BY DEF Begin, RunStep, Execute, Validate, CommandFails, LoadSnapshot, PersistStatus,
     PersistActiveHint, Publish, IncrTotal, IncrOutcome, IncrModel, PushRecent, TrimRecent,
     StepInv, CarryInv, ClientType
<1> DEFINE ToTell(q) == Live(q) /\ cmd[q] \in {"get", "setex", "sadd", "publish"}
           Queued == \E i \in 1 .. Len(queue[c]) : queue[c][i].final
<1>2. queue'[c] = queue[c] \/ (Publish(r) /\ queue'[c] = Append(queue[c], loc[r]))
  BY DEF Begin, RunStep, Execute, Validate, CommandFails, LoadSnapshot, PersistStatus,
     PersistActiveHint, Publish, IncrTotal, IncrOutcome, IncrModel, PushRecent, TrimRecent
<1>3. CASE Queued
  <2>1. PICK i \in 1 .. Len(queue[c]) : queue[c][i].final
    BY <1>3
  <2>2. i \in 1 .. Len(queue'[c]) /\ queue'[c][i].final
    <3>1. CASE queue'[c] = queue[c]
      BY <2>1, <3>1
    <3>2. CASE queue'[c] = Append(queue[c], loc[r])
      <4>1. loc[r] \in Snapshot
        BY <1>1 DEF RunType
      <4> QED  BY <1>1, <2>1, <3>2, <4>1, AppendProperties
    <3> QED  BY <1>2, <3>1, <3>2
  <2> QED  BY <1>1, <2>2 DEF EndOwed
<1>4. ASSUME NEW q \in Runs \ {r}, TaskOf[q] = TaskOf[c], ToTell(q)
      PROVE  EndStillToCome(TaskOf[c])'
  <2>1. state'[q] = state[q] /\ cmd'[q] = cmd[q]
    BY <1>1, RunStepOnlyOf DEF OnlyOf, StepInv
  <2> QED  BY <1>4, <2>1 DEF EndStillToCome, Live
<1>5. ASSUME TaskOf[r] = TaskOf[c], ToTell(r)
      PROVE  EndOwed(c)'
  <2>1. CASE Publish(r) /\ Completing(r)
    <3>1. loc[r].final /\ loc[r] \in Snapshot
      BY <1>1, <2>1 DEF Publish, At, Carries, Call, RunType
    <3>2. queue'[c] = Append(queue[c], loc[r])
      BY <1>5, <2>1 DEF Publish
    <3>3. Len(queue'[c]) \in 1 .. Len(queue'[c]) /\ queue'[c][Len(queue'[c])] = loc[r]
      BY <1>1, <3>1, <3>2, AppendProperties
    <3> QED  BY <3>1, <3>3 DEF EndOwed
  <2>2. ASSUME ~(Publish(r) /\ Completing(r))
        PROVE  ToTell(r)'
    <3>1. Live(r)' /\ cmd'[r] \in {"get", "setex", "sadd", "publish"}
      <4>1. CASE Raise(r) /\ state[r] \in {"executing", "validating"}
        BY <1>1, <4>1 DEF Raise, RunType, Carries, Live
      <4>2. CASE Begin(r) \/ ((Execute(r) \/ Validate(r)) /\ ~Raise(r))
        BY <1>1, <1>5, <4>2 DEF Begin, Execute, Validate, RunType, Live
      <4>3. CASE LoadSnapshot(r)
        BY <1>1, <4>3 DEF LoadSnapshot, At, RunType, Live
      <4>4. CASE PersistStatus(r) \/ PersistActiveHint(r)
        BY <1>1, <4>4 DEF PersistStatus, PersistActiveHint, At, Done, RunType, Live
      <4>5. CASE Publish(r)
        BY <1>1, <2>2, <4>5 DEF Publish, AfterTrack, RunType, Live
      <4>6. ~(CommandFails(r) \/ IncrTotal(r) \/ IncrOutcome(r) \/ IncrModel(r)
              \/ PushRecent(r) \/ TrimRecent(r))
        BY <1>5 DEF CommandFails, IncrTotal, IncrOutcome, IncrModel, PushRecent, TrimRecent, At
      <4>7. Execute(r) => state[r] = "executing"
        BY DEF Execute
      <4>8. Validate(r) => state[r] = "validating"
        BY DEF Validate
      <4> QED  BY <4>1, <4>2, <4>3, <4>4, <4>5, <4>6, <4>7, <4>8 DEF RunStep
    <3> QED  BY <3>1
  <2> QED  BY <1>5, <2>1, <2>2 DEF EndOwed, EndStillToCome
<1>6. CASE ~Queued
  <2>1. PICK q \in Runs : TaskOf[q] = TaskOf[c] /\ ToTell(q)
    BY <1>6 DEF EndOwed, EndStillToCome
  <2> QED  BY <1>1, <1>4, <1>5, <2>1 DEF EndOwed
<1> QED  BY <1>3, <1>6

\* A client is sent what waits for it in turn, the end included.
LEMMA DeliverKeepsEnd ==
    ASSUME StepInv, NEW c \in Clients, Deliver(c), EndOwed(c)
    PROVE  view'[c].final \/ (client' = client /\ EndOwed(c)')
<1>1. /\ queue[c] \in Seq(Snapshot) /\ queue[c] # <<>> /\ client' = client
      /\ view'[c] = Head(queue[c]) /\ queue'[c] = Tail(queue[c])
  BY DEF Deliver, StepInv, ClientType
<1>2. EndStillToCome(TaskOf[c])' <=> EndStillToCome(TaskOf[c])
  BY DEF Deliver, EndStillToCome, Live, runVars
<1>3. ASSUME NEW i \in 1 .. Len(queue[c]), queue[c][i].final
      PROVE  view'[c].final \/ \E j \in 1 .. Len(queue'[c]) : queue'[c][j].final
  <2>1. /\ Len(queue[c]) \in Nat \ {0} /\ Head(queue[c]) = queue[c][1]
        /\ Len(Tail(queue[c])) = Len(queue[c]) - 1
        /\ \A j \in 1 .. Len(Tail(queue[c])) : Tail(queue[c])[j] = queue[c][j + 1]
    BY <1>1, HeadTailProperties
  <2>2. CASE i = 1
    BY <1>1, <1>3, <2>1, <2>2
  <2>3. CASE i # 1
    <3>1. i - 1 \in 1 .. Len(Tail(queue[c])) /\ (i - 1) + 1 = i
      BY <2>1, <2>3
    <3> QED  BY <1>1, <1>3, <2>1, <3>1
  <2> QED  BY <2>2, <2>3
<1> QED  BY <1>1, <1>2, <1>3 DEF EndOwed

\* A listener is not done out of the end of a run, by any interleaving of its run with
\* others and with clients, nor by a snapshot that expires; a crash disconnects it.
THEOREM ListenersAreSentTheEnd == Spec => EndIsNeverDropped
<1>1. Init => StepInv /\ CarryInv
  <2>1. Init => CarryInv
    BY DEF Init, CarryInv, Carries
  <2> QED  BY <2>1, StepInvInit
<1>2. StepInv /\ CarryInv /\ [Next]_vars => (StepInv /\ CarryInv)'
  BY StepInvStep, CarryStep
<1>3. ASSUME StepInv, CarryInv, [Next]_vars
      PROVE  [~RedisFails => \A c \in Clients : client[c] = "listening" /\ EndOwed(c) =>
                    \/ client'[c] = "gone"
                    \/ view'[c].final
                    \/ client'[c] = "listening" /\ EndOwed(c)']_vars
  <2> SUFFICES ASSUME Next, ~RedisFails, NEW c \in Clients, client[c] = "listening", EndOwed(c)
               PROVE  \/ client'[c] = "gone"
                      \/ view'[c].final
                      \/ client'[c] = "listening" /\ EndOwed(c)'
    BY <1>3
  <2> USE DEF store, counters, runVars, clientVars, env
  <2>1. ASSUME NEW r \in Runs, Begin(r) \/ RunStep(r)
        PROVE  client'[c] = "listening" /\ EndOwed(c)'
    BY <1>3, <2>1, EndStaysOwed
  <2>2. CASE Deliver(c)
    BY <1>3, <2>2, DeliverKeepsEnd
  <2>3. CASE Disconnect(c) \/ Crash
    BY <1>3, <2>3 DEF Disconnect, Crash, StepInv, ClientType
  <2>4. ASSUME queue'[c] = queue[c], client'[c] = client[c], UNCHANGED runVars
        PROVE  client'[c] = "listening" /\ EndOwed(c)'
    BY <2>4 DEF EndOwed, EndStillToCome, Live
  <2>5. ASSUME NEW d \in Clients, GetStatus(d) \/ Subscribe(d) \/ Deliver(d) \/ Disconnect(d)
        PROVE  \/ queue'[c] = queue[c] /\ client'[c] = client[c] /\ UNCHANGED runVars
               \/ Deliver(c) \/ Disconnect(c)
    BY <1>3, <2>5 DEF GetStatus, Subscribe, Deliver, Disconnect, StepInv, ClientType
  <2>6. (\E t \in Tasks : Expire(t)) \/ NewDay \/ Quiet =>
            queue' = queue /\ client' = client /\ UNCHANGED runVars
    BY DEF Expire, NewDay, Quiet, vars
  <2> QED  BY <2>1, <2>2, <2>3, <2>4, <2>5, <2>6 DEF Next
<1> QED  BY <1>1, <1>2, <1>3, PTL DEF Spec, EndIsNeverDropped

---------------------------------------------------------------------------
(* Nothing is listed whose runs are over *)

\* The run has still to store its record_completion.
OwesStore(r) == Live(r) /\ (~Completing(r) \/ cmd[r] \in {"get", "setex"})

Unsettled(t) == snap[t] # Missing /\ snap[t].status \notin Settled

\* What is stored as unsettled will be settled by a run of the task that is alive.
OwedInv == \A t \in Tasks : Unsettled(t) => \E r \in Runs : TaskOf[r] = t /\ OwesStore(r)

\* What the step of a run does to what runs owe.
LEMMA RunOwes ==
    ASSUME StepInv, CarryInv, ~RedisFails, NEW r \in Runs, Begin(r) \/ RunStep(r)
    PROVE  /\ OwesStore(r) => OwesStore(r)' \/ (PersistStatus(r) /\ Completing(r))
           /\ PersistStatus(r) => Completing(r) \/ OwesStore(r)'
           /\ ~PersistStatus(r) => snap' = snap
           /\ PersistStatus(r) => /\ snap' = [snap EXCEPT ![TaskOf[r]] = loc[r]]
                                  /\ Completing(r) => loc[r].status \in Settled
<1> USE DEF store, counters, clientVars, env
<1>1. RunType /\ Place(r) /\ Carries(r)
  BY DEF StepInv, CarryInv
<1>2. ASSUME Raise(r), state[r] \in {"executing", "validating"}
      PROVE  OwesStore(r)'
  BY <1>1, <1>2 DEF Raise, RunType, Carries, OwesStore, Live
<1>3. ASSUME UNCHANGED <<failing, step, loops, verdict>>
      PROVE  Completing(r)' <=> Completing(r)
  BY <1>3 DEF Completing, Calls
<1>4. CASE PersistStatus(r)
  <2>1. /\ snap' = [snap EXCEPT ![TaskOf[r]] = loc[r]] /\ state[r] = "tracking" /\ cmd[r] = "setex"
        /\ UNCHANGED <<state, failing, step, loops, verdict>>
    BY <1>4 DEF PersistStatus, At, Done
  <2>2. Completing(r) => loc[r].status \in Settled
    BY <1>1, <2>1 DEF Carries, Call, Outcome, RunType, Settled
  <2>3. ~Completing(r) => OwesStore(r)'
    BY <1>3, <2>1 DEF OwesStore, Live
  <2> QED  BY <1>4, <2>1, <2>2, <2>3
<1>5. CASE ~PersistStatus(r)
  <2>1. snap' = snap
    BY <1>5 DEF RunStep, Begin, Execute, Validate, CommandFails, LoadSnapshot, PersistActiveHint,
       Publish, IncrTotal, IncrOutcome, IncrModel, PushRecent, TrimRecent
  <2>2. ASSUME OwesStore(r)
        PROVE  OwesStore(r)'
    <3>1. CASE Begin(r)
      BY <2>2, <3>1 DEF Begin, OwesStore, Live
    <3>2. CASE Execute(r) \/ Validate(r)
      <4>1. state[r] \in {"executing", "validating"}
        BY <3>2 DEF Execute, Validate
      <4>2. CASE Raise(r)
        BY <1>2, <4>1, <4>2
      <4>3. CASE ~Raise(r)
        <5>1. state'[r] = "tracking" /\ cmd' = cmd
          BY <1>1, <3>2, <4>3 DEF Execute, Validate, RunType
        <5>2. cmd[r] = "get"
          BY <1>1, <4>1 DEF Place
        <5> QED  BY <5>1, <5>2 DEF OwesStore, Live
      <4> QED  BY <4>2, <4>3
    <3>3. CASE LoadSnapshot(r)
      BY <1>1, <3>3 DEF LoadSnapshot, At, RunType, OwesStore, Live
    <3>4. CASE PersistActiveHint(r)
      <4>1. ~Completing(r) /\ UNCHANGED <<state, failing, step, loops, verdict>>
        BY <2>2, <3>4 DEF PersistActiveHint, At, Done, OwesStore
      <4> QED  BY <1>3, <2>2, <4>1 DEF OwesStore, Live
    <3>5. CASE Publish(r)
      <4>1. ~Completing(r) /\ AfterTrack(r)
        BY <2>2, <3>5 DEF Publish, At, OwesStore
      <4>2. cmd'[r] = "get" /\ state'[r] \in {"tracking", "executing", "validating"}
        BY <1>1, <4>1 DEF AfterTrack, RunType
      <4> QED  BY <4>2 DEF OwesStore, Live
    <3>6. ASSUME cmd[r] \in {"total", "outcome", "model", "lpush", "ltrim"}, state[r] = "tracking"
          PROVE  Completing(r)
      BY <1>1, <3>6 DEF Carries
    <3>7. ~(CommandFails(r) \/ IncrTotal(r) \/ IncrOutcome(r) \/ IncrModel(r)
            \/ PushRecent(r) \/ TrimRecent(r))
      BY <2>2, <3>6 DEF CommandFails, IncrTotal, IncrOutcome, IncrModel, PushRecent, TrimRecent,
         At, OwesStore
    <3> QED  BY <1>5, <3>1, <3>2, <3>3, <3>4, <3>5, <3>7 DEF RunStep
  <2> QED  BY <1>5, <2>1, <2>2
<1> QED  BY <1>4, <1>5

LEMMA OwedStep ==
    ASSUME ~RedisFails, UseRedis => MaxCrashes = 0, StepInv, CarryInv, OwedInv, [Next]_vars
    PROVE  OwedInv'
<1> USE DEF store, counters, clientVars, env
<1>1. ASSUME NEW r \in Runs, Begin(r) \/ RunStep(r)
      PROVE  OwedInv'
  <2> SUFFICES ASSUME NEW t \in Tasks, Unsettled(t)'
               PROVE  \E q \in Runs : TaskOf[q] = t /\ OwesStore(q)'
    BY DEF OwedInv
  <2>1. ASSUME NEW q \in Runs \ {r}, OwesStore(q)
        PROVE  OwesStore(q)'
    <3>1. /\ state'[q] = state[q] /\ failing'[q] = failing[q] /\ step'[q] = step[q]
          /\ cmd'[q] = cmd[q] /\ loops'[q] = loops[q] /\ verdict'[q] = verdict[q]
      BY <1>1, RunStepOnlyOf DEF OnlyOf, StepInv
    <3> QED  BY <2>1, <3>1 DEF OwesStore, Live, Completing, Calls
  <2>2. CASE PersistStatus(r) /\ TaskOf[r] = t
    <3>1. snap'[t] = loc[r] /\ (Completing(r) => loc[r].status \in Settled)
      BY <1>1, <2>2, RunOwes DEF StepInv, StoreType
    <3>2. ~Completing(r)
      BY <3>1 DEF Unsettled
    <3> QED  BY <1>1, <2>2, <3>2, RunOwes
  <2>3. CASE ~(PersistStatus(r) /\ TaskOf[r] = t)
    <3>1. snap'[t] = snap[t]
      BY <1>1, <2>3, RunOwes DEF StepInv, StoreType
    <3>2. PICK q \in Runs : TaskOf[q] = t /\ OwesStore(q)
      BY <3>1 DEF OwedInv, Unsettled
    <3>3. OwesStore(q)'
      BY <1>1, <2>1, <2>3, <3>2, RunOwes
    <3> QED  BY <3>2, <3>3
  <2> QED  BY <2>2, <2>3
<1>2. ASSUME NEW t \in Tasks, Expire(t)
      PROVE  OwedInv'
  <2>1. snap' = [snap EXCEPT ![t] = Missing] /\ UNCHANGED runVars
    BY <1>2 DEF Expire
  <2>2. \A u \in Tasks : Unsettled(u)' => Unsettled(u)
    BY <2>1 DEF Unsettled, StepInv, StoreType
  <2>3. \A r \in Runs : OwesStore(r) => OwesStore(r)'
    BY <2>1 DEF OwesStore, Live, Completing, Calls, runVars
  <2> QED  BY <2>2, <2>3 DEF OwedInv
<1>3. CASE Crash
  <2>1. snap' = [t \in Tasks |-> Missing]
    BY <1>3, MonitorAssumption DEF Crash, StepInv, EnvType
  <2> QED  BY <2>1 DEF OwedInv, Unsettled
<1>4. CASE snap' = snap /\ UNCHANGED runVars
  BY <1>4 DEF OwedInv, Unsettled, OwesStore, Live, Completing, Calls, runVars
<1>5. \/ \E r \in Runs : Begin(r) \/ RunStep(r)
      \/ \E t \in Tasks : Expire(t)
      \/ Crash \/ (snap' = snap /\ UNCHANGED runVars)
  BY DEF Next, GetStatus, Subscribe, Deliver, Disconnect, NewDay, Quiet, vars
<1> QED  BY <1>1, <1>2, <1>3, <1>4, <1>5

\* Whatever the interleaving of the runs of a task, overlapping ones included: when the
\* last of them is over, the task is not listed.  A failing Redis, or a crash that Redis
\* survives, is the only thing that leaves a task in the list, for its TTL to take off.
OverIsUnlisted ==
    \A t \in Tasks : (\A r \in Runs : TaskOf[r] = t => state[r] = "over") => ~Listed(t)

THEOREM OverMeansUnlisted ==
    ASSUME ~RedisFails, UseRedis => MaxCrashes = 0
    PROVE  Spec => []OverIsUnlisted
<1>1. Init => StepInv /\ CarryInv /\ OwedInv
  <2>1. Init => CarryInv /\ OwedInv
    BY DEF Init, CarryInv, Carries, OwedInv, Unsettled
  <2> QED  BY <2>1, StepInvInit
<1>2. StepInv /\ CarryInv /\ OwedInv /\ [Next]_vars => (StepInv /\ CarryInv /\ OwedInv)'
  BY StepInvStep, CarryStep, OwedStep
<1>3. OwedInv => OverIsUnlisted
  BY DEF OwedInv, OverIsUnlisted, Unsettled, Listed, OwesStore, Live
<1> QED  BY <1>1, <1>2, <1>3, PTL DEF Spec

\* So ListingEnds needs fairness only where Redis may fail or outlive a crash.
THEOREM ListingsEnd ==
    ASSUME ~RedisFails, UseRedis => MaxCrashes = 0
    PROVE  Spec => ListingEnds
<1>1. (IF RedisFails \/ (UseRedis /\ MaxCrashes > 0) THEN Expiring ELSE Tasks) = Tasks
  BY MonitorAssumption
<1>2. ASSUME NEW CONSTANT t \in Tasks
      PROVE  Spec => ((\A r \in Runs : TaskOf[r] = t => state[r] = "over") ~> ~Listed(t))
  <2>1. OverIsUnlisted => ((\A r \in Runs : TaskOf[r] = t => state[r] = "over") => ~Listed(t))
    BY DEF OverIsUnlisted
  <2> QED  BY <2>1, OverMeansUnlisted, PTL
<1> QED  BY <1>1, <1>2 DEF ListingEnds
==========================================================================
