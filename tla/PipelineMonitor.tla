------------------------- MODULE PipelineMonitor -------------------------
(***************************************************************************)
(* services/pipeline_monitor.py as run_task drives it: per-task snapshots   *)
(* with a one-hour TTL, the index of active tasks, each day's counters, the *)
(* recent runs, and the WebSocket clients that follow a task.  With Redis   *)
(* every command is a suspension point, so runs and clients interleave      *)
(* between any two commands and any command may raise; without Redis a call *)
(* runs from its first statement to its last without giving way.            *)
(*                                                                         *)
(* Runs of one task do not overlap as long as their transactions are alive  *)
(* (OneRunPerTask in PipelineRun); with DbFails they do.                    *)
(***************************************************************************)
EXTENDS Integers, Sequences, FiniteSets

CONSTANTS
    Runs,           \* calls of run_task
    Clients,        \* WebSocket connections
    Tasks,          \* task ids
    TaskOf,         \* the task of each run and of each client
    UseRedis,       \* settings.redis_url is not empty
    RedisFails,     \* Redis commands may raise
    DbFails,        \* an aborted transaction may let the next run of a task begin
    Expiring,       \* tasks whose snapshot's TTL may run out
    Stale,          \* tasks that earlier lives of the service left in the index
    RecentCap,      \* runs kept by _push_recent
    MaxCrashes,     \* bound on the process's crashes
    MaxDays         \* bound on the midnights (UTC) that pass

Days == 0 .. MaxDays

ASSUME MonitorAssumption ==
    /\ Runs \cap Clients = {}
    /\ TaskOf \in [Runs \cup Clients -> Tasks]
    /\ {UseRedis, RedisFails, DbFails} \subseteq BOOLEAN
    /\ IsFiniteSet(Runs)
    /\ RedisFails => UseRedis
    /\ Stale \cup Expiring \subseteq (IF UseRedis THEN Tasks ELSE {})
    /\ RecentCap \in Nat \ {0}
    /\ {MaxCrashes, MaxDays} \subseteq Nat

VARIABLES
    snap,       \* snap[t]: what is stored under the task's status key
    active,     \* the set ACTIVE_INDEX
    stats,      \* stats[d]: the counters total_runs, success and failed of day d
    usage,      \* the calls per model, one hash for all days
    recent,     \* the list RECENT_RUNS, latest first
    state,      \* state[r]: what run r is doing
    failing,    \* failing[r]: run r is in run_task's except clause
    step,       \* step[r]: which monitor call is next or under way
    cmd,        \* cmd[r]: the next command of the monitor call under way
    loc,        \* loc[r]: the snapshot the call under way has built
    loops,      \* loops[r]: the orchestrator needed more than one iteration
    verdict,    \* verdict[r]: completed if the ontology passed, else failed
    day,        \* day[r]: the day whose key the counting under way has taken
    client,     \* client[c]: how far iter_ws_messages has come
    queue,      \* queue[c]: messages published and not yet sent to c
    view,       \* view[c]: the last snapshot c was sent
    crashes,    \* crashes so far
    today,      \* what day it is
    lapsed      \* history: tasks of which a snapshot has expired

runVars    == <<state, failing, step, cmd, loc, loops, verdict, day>>
clientVars == <<client, queue, view>>
counters   == <<stats, usage>>
store      == <<snap, active, counters, recent>>
env        == <<crashes, today, lapsed>>
vars       == <<store, runVars, clientVars, env>>

---------------------------------------------------------------------------
(* Snapshots *)

NoHint == -1
Settled == {"completed", "failed"}
Commands == {"get", "setex", "sadd", "publish", "total", "outcome", "model", "lpush", "ltrim"}

\* n is the number of events; final that the phase is "complete".
Snapshot == [n : Nat, status : {"pending", "running"} \cup Settled,
             hint : NoHint .. 100, progress : 0 .. 100, final : BOOLEAN]
\* What _load_snapshot makes of a missing key; no stored snapshot has n = 0.
Missing == [n |-> 0, status |-> "pending", hint |-> NoHint, progress |-> 0, final |-> FALSE]

\* Mutant: a call without a hint does not keep the last one.
UpdateForgetting(s, entry) ==
    [n        |-> s.n + 1,
     status   |-> entry.status,
     hint     |-> entry.hint,
     progress |-> IF entry.hint # NoHint THEN entry.hint
                  ELSE IF entry.status = "completed" THEN 100 ELSE s.progress,
     final    |-> entry.final]

\* A track call: the hint stays in the metadata until another replaces it, and
\* as long as there is one it is the progress.
Update(s, entry) ==
    LET hint == IF entry.hint = NoHint THEN s.hint ELSE entry.hint IN
    [n        |-> s.n + 1,
     status   |-> entry.status,
     hint     |-> hint,
     progress |-> IF hint # NoHint THEN hint
                  ELSE IF entry.status = "completed" THEN 100 ELSE s.progress,
     final    |-> entry.final]

Entry(status, hint) == [status |-> status, hint |-> hint, final |-> FALSE]

\* Mutant: the generation is announced only once it is over.
PlanSilent == <<Entry("running", NoHint), Entry("running", 15), Entry("completed", NoHint)>>

\* run_task's track calls up to the orchestrator, and up to the validation.
Plan == <<Entry("running", NoHint), Entry("running", 15),
          Entry("completed", NoHint), Entry("running", 30)>>
Review(fixed) ==
    <<Entry("completed", NoHint), Entry("running", 72), Entry("completed", NoHint)>>
    \o (IF fixed THEN <<Entry("running", 82), Entry("completed", NoHint)>> ELSE <<>>)
    \o <<Entry("running", 90)>>

Calls(r) ==
    IF failing[r] THEN <<Entry("failed", NoHint)>>
                  ELSE Plan \o Review(loops[r]) \o <<Entry(verdict[r], NoHint)>>

\* The last call is record_completion.
Completing(r) == step[r] = Len(Calls(r)) + 1
Outcome(r) == IF failing[r] THEN "failed" ELSE verdict[r]
Call(r) == IF Completing(r) THEN [status |-> Outcome(r), hint |-> 100, final |-> TRUE]
                            ELSE Calls(r)[step[r]]

\* The hash of a day on which nothing was counted yet.
NoCounts == [total |-> 0, completed |-> 0, failed |-> 0]

---------------------------------------------------------------------------
Init ==
    /\ snap = [t \in Tasks |-> Missing]
    /\ active = Stale
    /\ stats = [d \in Days |-> NoCounts]
    /\ usage = 0
    /\ recent = <<>>
    /\ state = [r \in Runs |-> "new"]
    /\ failing = [r \in Runs |-> FALSE]
    /\ step = [r \in Runs |-> 1]
    /\ cmd = [r \in Runs |-> "get"]
    /\ loc = [r \in Runs |-> Missing]
    /\ loops = [r \in Runs |-> FALSE]
    /\ verdict = [r \in Runs |-> "completed"]
    /\ day = [r \in Runs |-> 0]
    /\ client = [c \in Clients |-> "new"]
    /\ queue = [c \in Clients |-> <<>>]
    /\ view = [c \in Clients |-> Missing]
    /\ crashes = 0
    /\ today = 0
    /\ lapsed = {}

\* Without Redis no other coroutine runs while a monitor call is under way.
Turn(r) == UseRedis \/ \A q \in Runs \ {r} : cmd[q] = "get"
LoopFree == UseRedis \/ \A q \in Runs : cmd[q] = "get"

Live(r) == state[r] \notin {"new", "over"}

---------------------------------------------------------------------------
(* run_task between its monitor calls *)

Begin(r) ==
    /\ LoopFree
    /\ state[r] = "new"
    /\ DbFails \/ \A q \in Runs \ {r} : TaskOf[q] = TaskOf[r] => ~Live(q)
    /\ state' = [state EXCEPT ![r] = "tracking"]
    /\ UNCHANGED <<store, failing, step, cmd, loc, loops, verdict, day, clientVars, env>>

\* The try block is left: what it has found out is not used any more.
Leave(r) ==
    /\ step' = [step EXCEPT ![r] = 1]
    /\ loops' = [loops EXCEPT ![r] = FALSE]
    /\ verdict' = [verdict EXCEPT ![r] = "completed"]
    /\ day' = [day EXCEPT ![r] = 0]

\* Mutant: recording the failure is retried until it succeeds.
RaiseRetrying(r) ==
    /\ failing' = [failing EXCEPT ![r] = TRUE]
    /\ state' = [state EXCEPT ![r] = "tracking"]
    /\ cmd' = [cmd EXCEPT ![r] = "get"]
    /\ loc' = [loc EXCEPT ![r] = Missing]
    /\ Leave(r)

\* Into the except clause, or out of it: there errors are swallowed.
Raise(r) ==
    /\ failing' = [failing EXCEPT ![r] = TRUE]
    /\ state' = [state EXCEPT ![r] = IF failing[r] THEN "over" ELSE "tracking"]
    /\ cmd' = [cmd EXCEPT ![r] = "get"]
    /\ loc' = [loc EXCEPT ![r] = Missing]
    /\ Leave(r)

\* The orchestrator answers, after one iteration or more, or raises.
Execute(r) ==
    /\ LoopFree
    /\ state[r] = "executing"
    /\ \/ /\ \E more \in BOOLEAN : loops' = [loops EXCEPT ![r] = more]
          /\ state' = [state EXCEPT ![r] = "tracking"]
          /\ UNCHANGED <<failing, step, cmd, loc, verdict, day>>
       \/ Raise(r)
    /\ UNCHANGED <<store, clientVars, env>>

\* The validators answer, or something up to the publication raises.
Validate(r) ==
    /\ LoopFree
    /\ state[r] = "validating"
    /\ \/ /\ \E v \in Settled : verdict' = [verdict EXCEPT ![r] = v]
          /\ state' = [state EXCEPT ![r] = "tracking"]
          /\ UNCHANGED <<failing, step, cmd, loc, loops, day>>
       \/ Raise(r)
    /\ UNCHANGED <<store, clientVars, env>>

---------------------------------------------------------------------------
(* The commands of track and record_completion *)

\* A command has had its effect: the call goes on, or the client raises.
Done(r, next) ==
    \/ /\ cmd' = [cmd EXCEPT ![r] = next]
       /\ UNCHANGED <<state, failing, step, loc, loops, verdict, day>>
    \/ /\ RedisFails
       /\ Raise(r)

At(r, command) ==
    /\ Turn(r)
    /\ state[r] = "tracking"
    /\ cmd[r] = command

\* A command raises without any effect; PUBLISH errors are caught at once.
CommandFails(r) ==
    /\ RedisFails
    /\ state[r] = "tracking"
    /\ cmd[r] # "publish"
    /\ Raise(r)
    /\ UNCHANGED <<store, clientVars, env>>

\* GET, and the snapshot is brought up to date in memory.
LoadSnapshot(r) ==
    /\ At(r, "get")
    /\ loc' = [loc EXCEPT ![r] = Update(snap[TaskOf[r]], Call(r))]
    /\ cmd' = [cmd EXCEPT ![r] = "setex"]
    /\ UNCHANGED <<store, state, failing, step, loops, verdict, day, clientVars, env>>

\* SETEX stores what was built, whatever the key holds by now.
PersistStatus(r) ==
    /\ At(r, "setex")
    /\ snap' = [snap EXCEPT ![TaskOf[r]] = loc[r]]
    /\ Done(r, "sadd")
    /\ UNCHANGED <<active, counters, recent, clientVars, env>>

\* SADD to the active index, never undone; nothing without Redis.
PersistActiveHint(r) ==
    /\ At(r, "sadd")
    /\ active' = IF UseRedis THEN active \cup {TaskOf[r]} ELSE active
    /\ Done(r, "publish")
    /\ UNCHANGED <<snap, counters, recent, clientVars, env>>

\* What run_task does once a track call has returned.
AfterTrack(r) ==
    /\ step' = [step EXCEPT ![r] = @ + 1]
    /\ cmd' = [cmd EXCEPT ![r] = "get"]
    /\ state' = [state EXCEPT ![r] =
            CASE failing[r] -> "tracking"
              [] step[r] = Len(Plan) -> "executing"
              [] step[r] = Len(Plan) + Len(Review(loops[r])) -> "validating"
              [] OTHER -> "tracking"]
    /\ UNCHANGED day

\* record_completion has published: the key of the day is made once, for all counters.
StartCounting(r) ==
    /\ cmd' = [cmd EXCEPT ![r] = "total"]
    /\ day' = [day EXCEPT ![r] = today]
    /\ UNCHANGED <<state, step>>

\* Mutant: record_completion stores its snapshot and publishes nothing.
PublishTracksOnly(r) ==
    /\ At(r, "publish")
    /\ queue' = [c \in Clients |->
                    IF client[c] = "listening" /\ TaskOf[c] = TaskOf[r] /\ ~Completing(r)
                      THEN Append(queue[c], loc[r]) ELSE queue[c]]
    /\ loc' = [loc EXCEPT ![r] = Missing]
    /\ IF Completing(r) THEN StartCounting(r) ELSE AfterTrack(r)
    /\ UNCHANGED <<store, failing, loops, verdict, client, view, env>>

\* PUBLISH reaches the clients that listen by now, or its error is swallowed.
Publish(r) ==
    /\ At(r, "publish")
    /\ \/ queue' = [c \in Clients |->
                        IF client[c] = "listening" /\ TaskOf[c] = TaskOf[r]
                          THEN Append(queue[c], loc[r]) ELSE queue[c]]
       \/ RedisFails /\ UNCHANGED queue
    /\ loc' = [loc EXCEPT ![r] = Missing]
    /\ IF Completing(r) THEN StartCounting(r) ELSE AfterTrack(r)
    /\ UNCHANGED <<store, failing, loops, verdict, client, view, env>>

\* _incr_day_stats: HINCRBY total_runs, then the outcome's field, both of the day
\* whose key was made before; then the model's, of a key that belongs to no day.
IncrTotal(r) ==
    /\ At(r, "total")
    /\ stats' = [stats EXCEPT ![day[r]].total = @ + 1]
    /\ Done(r, "outcome")
    /\ UNCHANGED <<snap, active, usage, recent, clientVars, env>>

\* Mutant: every command makes the day's key anew.
IncrOutcomeToday(r) ==
    /\ At(r, "outcome")
    /\ stats' = [stats EXCEPT ![today][Outcome(r)] = @ + 1]
    /\ Done(r, "model")
    /\ UNCHANGED <<snap, active, usage, recent, clientVars, env>>

IncrOutcome(r) ==
    /\ At(r, "outcome")
    /\ stats' = [stats EXCEPT ![day[r]][Outcome(r)] = @ + 1]
    /\ Done(r, "model")
    /\ UNCHANGED <<snap, active, usage, recent, clientVars, env>>

IncrModel(r) ==
    /\ At(r, "model")
    /\ usage' = usage + 1
    /\ Done(r, "lpush")
    /\ UNCHANGED <<snap, active, stats, recent, clientVars, env>>

\* _push_recent: LPUSH, then LTRIM; the memory list keeps its own bound.
PushRecent(r) ==
    /\ At(r, "lpush")
    /\ recent' = <<r>> \o recent
    /\ Done(r, "ltrim")
    /\ UNCHANGED <<snap, active, counters, clientVars, env>>

TrimRecent(r) ==
    /\ At(r, "ltrim")
    /\ recent' = SubSeq(recent, 1, IF Len(recent) < RecentCap THEN Len(recent) ELSE RecentCap)
    /\ \/ /\ state' = [state EXCEPT ![r] = "over"]
          /\ cmd' = [cmd EXCEPT ![r] = "get"]
          /\ Leave(r)
          /\ UNCHANGED <<failing, loc>>
       \/ RedisFails /\ Raise(r)
    /\ UNCHANGED <<snap, active, counters, clientVars, env>>

---------------------------------------------------------------------------
(* A WebSocket client: iter_ws_messages *)

\* The snapshot of the moment is sent first ...
GetStatus(c) ==
    /\ LoopFree
    /\ client[c] = "new"
    /\ view' = [view EXCEPT ![c] = snap[TaskOf[c]]]
    /\ client' = [client EXCEPT ![c] = "greeted"]
    /\ UNCHANGED <<store, runVars, queue, env>>

\* ... and only when that is done does the channel's subscription begin.
Subscribe(c) ==
    /\ LoopFree
    /\ client[c] = "greeted"
    /\ client' = [client EXCEPT ![c] = "listening"]
    /\ UNCHANGED <<store, runVars, queue, view, env>>

\* Mutant: the latest message is sent first.
DeliverLatest(c) ==
    /\ LoopFree
    /\ client[c] = "listening"
    /\ queue[c] # <<>>
    /\ view' = [view EXCEPT ![c] = queue[c][Len(queue[c])]]
    /\ queue' = [queue EXCEPT ![c] = SubSeq(@, 1, Len(@) - 1)]
    /\ UNCHANGED <<store, runVars, client, env>>

Deliver(c) ==
    /\ LoopFree
    /\ client[c] = "listening"
    /\ queue[c] # <<>>
    /\ view' = [view EXCEPT ![c] = Head(queue[c])]
    /\ queue' = [queue EXCEPT ![c] = Tail(queue[c])]
    /\ UNCHANGED <<store, runVars, client, env>>

Disconnect(c) ==
    /\ LoopFree
    /\ client[c] \in {"greeted", "listening"}
    /\ client' = [client EXCEPT ![c] = "gone"]
    /\ queue' = [queue EXCEPT ![c] = <<>>]
    /\ UNCHANGED <<store, runVars, view, env>>

---------------------------------------------------------------------------
(* The environment *)

\* The TTL of a snapshot runs out: an hour without a monitor call on the task,
\* whose runs are over or wait for agents.
Expire(t) ==
    /\ t \in Expiring
    /\ snap[t] # Missing
    /\ \A r \in Runs : TaskOf[r] = t => state[r] # "tracking"
    /\ snap' = [snap EXCEPT ![t] = Missing]
    /\ lapsed' = lapsed \cup {t}
    /\ UNCHANGED <<active, counters, recent, runVars, clientVars, crashes, today>>

\* Midnight.  The hashes of the days before are not read any more.
NewDay ==
    /\ today < MaxDays
    /\ today' = today + 1
    /\ UNCHANGED <<store, runVars, clientVars, crashes, lapsed>>

\* The process dies; Redis keeps what it has, memory does not.
Crash ==
    /\ crashes < MaxCrashes
    /\ \E r \in Runs : Live(r)
    /\ crashes' = crashes + 1
    /\ state' = [r \in Runs |-> IF Live(r) THEN "over" ELSE state[r]]
    /\ failing' = [r \in Runs |-> FALSE]
    /\ step' = [r \in Runs |-> 1]
    /\ cmd' = [r \in Runs |-> "get"]
    /\ loc' = [r \in Runs |-> Missing]
    /\ loops' = [r \in Runs |-> FALSE]
    /\ verdict' = [r \in Runs |-> "completed"]
    /\ day' = [r \in Runs |-> 0]
    /\ client' = [c \in Clients |-> IF client[c] = "new" THEN "new" ELSE "gone"]
    /\ queue' = [c \in Clients |-> <<>>]
    /\ IF UseRedis
         THEN UNCHANGED store
         ELSE /\ snap' = [t \in Tasks |-> Missing]
              /\ active' = {}
              /\ stats' = [d \in Days |-> NoCounts]
              /\ usage' = 0
              /\ recent' = <<>>
    /\ UNCHANGED <<view, today, lapsed>>

RunStep(r) ==
    \/ Execute(r) \/ Validate(r) \/ CommandFails(r)
    \/ LoadSnapshot(r) \/ PersistStatus(r) \/ PersistActiveHint(r) \/ Publish(r)
    \/ IncrTotal(r) \/ IncrOutcome(r) \/ IncrModel(r) \/ PushRecent(r) \/ TrimRecent(r)

\* All runs are over and all messages sent; clients may stay for ever.
Quiet ==
    /\ \A r \in Runs : state[r] = "over"
    /\ \A c \in Clients : client[c] \in {"listening", "gone"} /\ queue[c] = <<>>
    /\ UNCHANGED vars

Next ==
    \/ \E r \in Runs : Begin(r) \/ RunStep(r)
    \/ \E c \in Clients : GetStatus(c) \/ Subscribe(c) \/ Deliver(c) \/ Disconnect(c)
    \/ \E t \in Tasks : Expire(t)
    \/ NewDay
    \/ Crash
    \/ Quiet

Spec == Init /\ [][Next]_vars

\* A run that has begun goes on (the agents answer or raise), a client's
\* generator is resumed, and a TTL runs out; nobody has to call or hang up.
Fairness ==
    /\ \A r \in Runs : WF_vars(RunStep(r))
    /\ \A c \in Clients : WF_vars(Subscribe(c)) /\ WF_vars(Deliver(c))
    /\ \A t \in Tasks : WF_vars(Expire(t))

FairSpec == Spec /\ Fairness

---------------------------------------------------------------------------
TypeOK ==
    /\ snap \in [Tasks -> Snapshot]
    /\ active \subseteq Tasks
    /\ stats \in [Days -> [total : Nat, completed : Nat, failed : Nat]]
    /\ usage \in Nat
    /\ recent \in Seq(Runs)
    /\ state \in [Runs -> {"new", "tracking", "executing", "validating", "over"}]
    /\ failing \in [Runs -> BOOLEAN]
    /\ step \in [Runs -> 1 .. 12]
    /\ cmd \in [Runs -> Commands]
    /\ loc \in [Runs -> Snapshot]
    /\ loops \in [Runs -> BOOLEAN]
    /\ verdict \in [Runs -> Settled]
    /\ day \in [Runs -> Days]
    /\ client \in [Clients -> {"new", "greeted", "listening", "gone"}]
    /\ queue \in [Clients -> Seq(Snapshot)]
    /\ view \in [Clients -> Snapshot]
    /\ crashes \in 0 .. MaxCrashes
    /\ today \in Days
    /\ lapsed \subseteq Tasks

\* Mutant: the snapshots are not looked at.
ListedByIndex(t) == UseRedis => t \in active

\* What GET /monitor/active lists: in the index, the key alive, not settled.
Listed(t) ==
    /\ UseRedis => t \in active
    /\ snap[t] # Missing
    /\ snap[t].status \notin Settled

\* The dashboard's success rate is a rate, on every day: total_runs is incremented
\* before the outcome's own counter and under the same day's key, so that neither an
\* interleaving nor a failed command, a crash or a midnight in between ever leaves a
\* day with more outcomes than runs.
OutcomesWithinTotal ==
    \A d \in Days : stats[d].completed + stats[d].failed <= stats[d].total

\* The inductive invariant behind it: every run that waits to increment a day's
\* outcome has already incremented its total.
Waiting(d) == {r \in Runs : cmd[r] = "outcome" /\ day[r] = d}
CountInv ==
    \A d \in Days :
        stats[d].completed + stats[d].failed + Cardinality(Waiting(d)) <= stats[d].total

\* A run is counted once on a day; twice only when record_completion itself failed
\* midway and the except clause recorded the run again, never more often.
CountedAtMostTwice ==
    LET begun == Cardinality({r \in Runs : state[r] # "new"}) IN
    \A d \in Days : stats[d].total <= IF RedisFails THEN 2 * begun ELSE begun

\* While the orchestrator works on a task, which is most of a run, the task is in
\* the list of active pipelines, unless its snapshot has expired or an
\* overlapping run has settled it meanwhile.
ExecutingIsListed ==
    ~DbFails => \A r \in Runs :
        state[r] = "executing" /\ snap[TaskOf[r]] # Missing => Listed(TaskOf[r])

\* The view of a WebSocket client never goes back in time, although its first
\* message is read from the store and the later ones come from the channel: as
\* long as runs of the task do not overlap, and no snapshot of it has expired.
ViewNeverGoesBack ==
    [][~DbFails /\ crashes' = crashes =>
        \A c \in Clients : TaskOf[c] \notin lapsed' => view'[c].n >= view[c].n]_vars

\* The progress of a stored snapshot falls only when a later run of the same task
\* starts over, in its second track call; a first run's never does.
ProgressFallsOnRerunOnly ==
    [][~DbFails /\ crashes' = crashes =>
        \A t \in Tasks \ lapsed' : snap'[t].progress < snap[t].progress =>
            \E r, q \in Runs : /\ TaskOf[r] = t /\ TaskOf[q] = t /\ q # r
                               /\ state[q] = "over" /\ step[r] = 2 /\ ~failing[r]]_vars

\* A client that listens before a run's last snapshot is published is sent it,
\* unless it leaves or a crash cuts it off.
EndStillToCome(t) ==
    \E r \in Runs : /\ TaskOf[r] = t /\ Live(r)
                    /\ cmd[r] \in {"get", "setex", "sadd", "publish"}
ListenerSeesEnd ==
    ~RedisFails => \A c \in Clients :
        client[c] = "listening" /\ EndStillToCome(TaskOf[c])
            ~> client[c] = "gone" \/ view[c].final

\* No task is listed as active for ever once its runs are over, though nothing is
\* ever removed from the index: a settled status or the TTL takes it off.
ListingEnds ==
    \A t \in IF RedisFails \/ (UseRedis /\ MaxCrashes > 0) THEN Expiring ELSE Tasks :
        (\A r \in Runs : TaskOf[r] = t => state[r] = "over") ~> ~Listed(t)

==========================================================================
