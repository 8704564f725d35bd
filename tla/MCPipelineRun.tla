-------------------------- MODULE MCPipelineRun --------------------------
(* Instances of PipelineRun for TLC. *)
EXTENDS PipelineRun, TLC

CONSTANTS r1, r2, g1, i1, t1, t2, c1

TwoRuns     == {r1, r2}
OneGenerate == {g1}
OneInline   == {i1}
OneTask     == {t1}
OtherTask   == {t2}
TwoTasks    == {t1, t2}
OneCode     == {c1}
None        == {}
AllFaults   == {"agent", "db", "redis", "git"}
LocalFaults == {"agent", "db", "git", "billing"}
AgentFaults == {"agent"}
==========================================================================
