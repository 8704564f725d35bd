------------------------- MODULE MonitorDashboard -------------------------
(***************************************************************************)
(* GET /monitor/active and GET /dashboard beside the runs and the clients   *)
(* of PipelineMonitor: get_active_task_ids reads the index, asks of each    *)
(* member whether its snapshot exists, and reads it to see its status; what *)
(* is kept is then read again for its summary.  Each of these is a Redis    *)
(* command of its own, so that the store may change, and snapshots run out, *)
(* between any two of them.  (Without Redis nothing comes in between, and   *)
(* requests are left out.)  Requests come one after the other: they leave   *)
(* nothing behind.  The sums and counters of the dashboard are those of     *)
(* OutcomesWithinTotal, each read by one command, and left out here.        *)
(***************************************************************************)
EXTENDS PipelineMonitor

CONSTANT ActiveLimit    \* active_limit of get_dashboard_bundle

ASSUME DashboardAssumption == ActiveLimit \in Nat \ {0}

VARIABLES
    reader,     \* where the request is
    left,       \* members of the index not yet looked at
    current,    \* the one that EXISTS has just found, if any
    kept,       \* the ids found active
    shown,      \* the summaries: pairs of an id and a status
    throughout, \* history: tasks listed at every moment since the request began
    sometime    \* history: tasks listed at some moment, or whose snapshot ran out

request == <<reader, left, current, kept, shown>>
watch == <<throughout, sometime>>
allVars == <<vars, request, watch>>

ListedNow == {t \in Tasks : Listed(t)}
Reading == reader \notin {"idle", "answered", "failed"}

DashboardInit ==
    /\ Init
    /\ reader = "idle"
    /\ left = {} /\ current = {} /\ kept = {} /\ shown = {}
    /\ throughout = {} /\ sometime = {}

---------------------------------------------------------------------------
(* The request *)

Ask ==
    /\ UseRedis
    /\ reader = "idle"
    /\ reader' = "index"
    /\ throughout' = ListedNow /\ sometime' = ListedNow
    /\ UNCHANGED <<vars, left, current, kept, shown>>

\* Mutant: the limit is applied to the index, not to what is active.
ReadIndexLimited ==
    /\ reader = "index"
    /\ \E some \in SUBSET active :
        /\ Cardinality(some) <= ActiveLimit
        /\ Cardinality(some) = ActiveLimit \/ some = active
        /\ left' = some
    /\ reader' = "list"
    /\ UNCHANGED <<vars, current, kept, shown, watch>>

\* SMEMBERS
ReadIndex ==
    /\ reader = "index"
    /\ left' = active
    /\ reader' = "list"
    /\ UNCHANGED <<vars, current, kept, shown, watch>>

\* EXISTS, for any member: the index is a set.
TestExists(t) ==
    /\ reader = "list"
    /\ t \in left /\ current = {}
    /\ left' = left \ {t}
    /\ current' = IF snap[t] # Missing THEN {t} ELSE {}
    /\ UNCHANGED <<vars, reader, kept, shown, watch>>

\* Mutant: that the snapshot exists is enough.
LoadExisting(t) ==
    /\ reader = "list"
    /\ t \in current
    /\ current' = {}
    /\ kept' = kept \cup {t}
    /\ UNCHANGED <<vars, reader, left, shown, watch>>

\* GET: whatever is not settled is active, a snapshot that has just run out too.
LoadStatus(t) ==
    /\ reader = "list"
    /\ t \in current
    /\ current' = {}
    /\ kept' = IF snap[t].status \in Settled THEN kept ELSE kept \cup {t}
    /\ UNCHANGED <<vars, reader, left, shown, watch>>

\* The dashboard shows no more than active_limit of them, /monitor/active all.
Cut ==
    /\ reader = "list"
    /\ left = {} /\ current = {}
    /\ \/ UNCHANGED kept
       \/ /\ Cardinality(kept) > ActiveLimit
          /\ \E some \in SUBSET kept : Cardinality(some) = ActiveLimit /\ kept' = some
    /\ reader' = "show"
    /\ UNCHANGED <<vars, left, current, shown, watch>>

\* GET again, and this time whatever is found is shown.
ShowStatus(t) ==
    /\ reader = "show"
    /\ t \in kept
    /\ kept' = kept \ {t}
    /\ shown' = shown \cup {<<t, snap[t].status>>}
    /\ UNCHANGED <<vars, reader, left, current, watch>>

Answer ==
    /\ reader = "show"
    /\ kept = {}
    /\ reader' = "answered"
    /\ UNCHANGED <<vars, left, current, kept, shown, watch>>

\* A command raises, on the connection the request has opened for itself.
ReadFails ==
    /\ Reading
    /\ reader' = "failed"
    /\ UNCHANGED <<vars, left, current, kept, shown, watch>>

\* Nothing of a request is left when it is over, and another may come.
Close ==
    /\ reader \in {"answered", "failed"}
    /\ reader' = "idle"
    /\ left' = {} /\ current' = {} /\ kept' = {} /\ shown' = {}
    /\ throughout' = {} /\ sometime' = {}
    /\ UNCHANGED vars

\* The tasks whose snapshot goes missing in a step.
RunOut == {t \in Tasks : snap[t] # Missing /\ snap'[t] = Missing}

\* The monitor moves on while the request reads; a crash cuts the request off.
MonitorStep ==
    /\ Next
    /\ reader' = IF Reading /\ crashes' # crashes THEN "failed" ELSE reader
    /\ IF Reading
         THEN /\ throughout' = throughout \cap ListedNow'
              /\ sometime' = sometime \cup ListedNow' \cup RunOut
         ELSE UNCHANGED watch
    /\ UNCHANGED <<left, current, kept, shown>>

RequestStep ==
    \/ Ask \/ ReadIndex \/ Cut \/ Answer \/ ReadFails \/ Close
    \/ \E t \in Tasks : TestExists(t) \/ LoadStatus(t) \/ ShowStatus(t)

DashboardNext == RequestStep \/ MonitorStep

DashboardSpec == DashboardInit /\ [][DashboardNext]_allVars

---------------------------------------------------------------------------
Shown == {s[1] : s \in shown}

\* Nothing is shown as an active pipeline that was not active at any moment of the
\* request, except one whose snapshot ran out meanwhile and so counts as pending.
ShownWasActive == reader = "answered" => Shown \subseteq sometime

\* The inductive invariant behind it: whatever EXISTS has found is in sometime if it
\* has run out since, and whatever has been kept or shown is there already.
DashboardInv ==
    /\ reader \in {"idle", "index", "list", "show", "answered", "failed"}
    /\ reader = "idle" => left = {} /\ current = {} /\ kept = {} /\ shown = {}
    /\ Reading => /\ left \cup current \subseteq active
                  /\ ListedNow \subseteq sometime
                  /\ \A t \in current : snap[t] = Missing => t \in sometime
                  /\ kept \subseteq sometime
    /\ Reading \/ reader = "answered" => Shown \subseteq sometime

\* A pipeline that is active during the whole request is shown, however many ids
\* the index has gathered: unless active_limit others that were active are.
ActiveIsShown ==
    reader = "answered" => throughout \subseteq Shown \/ Cardinality(Shown) = ActiveLimit
==========================================================================
