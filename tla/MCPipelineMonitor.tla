------------------------ MODULE MCPipelineMonitor ------------------------
(* Instances of PipelineMonitor for TLC. *)
EXTENDS PipelineMonitor, TLC

CONSTANTS r1, r2, t1, t2

TwoRuns   == {r1, r2}
NoClient  == {}
TwoTasks  == {t1, t2}

\* A run of its own task each.
OwnTask   == [r \in Runs |-> IF r = r2 THEN t2 ELSE t1]

\* Which run is which does not matter, if its task goes with it.
Exchange == {f \in Permutations({r1, r2, t1, t2}) :
                \A r \in TwoRuns : f[r] \in TwoRuns /\ f[OwnTask[r]] = OwnTask[f[r]]}

\* There is no client here, and no snapshot expires: MCMonitorDashboard has both.
MCNext ==
    \/ \E r \in Runs : Begin(r) \/ RunStep(r)
    \/ NewDay
    \/ Crash
    \/ Quiet

MCSpec == Init /\ [][MCNext]_vars
==========================================================================
