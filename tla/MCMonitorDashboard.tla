------------------------ MODULE MCMonitorDashboard ------------------------
(* Instances of MonitorDashboard for TLC. *)
EXTENDS MonitorDashboard, TLC

CONSTANTS r1, c1, t1, t2

OneRun    == {r1}
OneClient == {c1}
TwoTasks  == {t1, t2}
\* In the index from an earlier life of the service.
StaleTask == {t2}
RunTask   == [x \in Runs \cup Clients |-> t1]

\* Readers change nothing that is shared, so that a behaviour with the request and
\* one with the client show what a behaviour with both would: not both at once.
Alone == \A c \in Clients : client[c] = "new"

MCNext ==
    \/ Alone /\ Ask
    \/ ReadIndex \/ Cut \/ Answer \/ ReadFails \/ Close
    \/ \E t \in Tasks : TestExists(t) \/ LoadStatus(t) \/ ShowStatus(t)
    \/ MonitorStep /\ (reader = "idle" \/ Alone')

MCSpec == DashboardInit /\ [][MCNext]_allVars /\ Fairness
==========================================================================
