------------------------- MODULE PipelineContract -------------------------
(***************************************************************************)
(* What the pipeline endpoints promise about the database, with no session, *)
(* lock, monitor or agent in sight: a request is answered once; one that is *)
(* answered 200 has made all of its rows durable in that same instant; one  *)
(* that is answered anything else has made none.                           *)
(***************************************************************************)
CONSTANTS
    Requests,       \* the HTTP requests
    Tasks,          \* the ids of software_code_tasks
    Effects         \* the kinds of rows a request may add

VARIABLES
    row,            \* row[t]: the committed columns of task t
    durable,        \* durable[r]: the kinds of rows r has committed
    answer          \* answer[r]: the status code r was answered with

vars == <<row, durable, answer>>

NoAnswer == "none"
Refusals == {"400", "404", "500", "lost"}

\* Every run that commits leaves its review and its model usage log.
MustCommit == {"review", "modelUsage"}

Init ==
    /\ \A t \in Tasks : row[t].status \in {"absent", "pending"}
    /\ durable = [r \in Requests |-> {}]
    /\ answer = [r \in Requests |-> NoAnswer]

\* POST /tasks: a new task is pending.
Create(t) ==
    /\ row[t].status = "absent"
    /\ row' = [row EXCEPT ![t].status = "pending"]
    /\ UNCHANGED <<durable, answer>>

\* A run is answered 200 in the step that makes its rows durable.
Succeed(r) ==
    /\ answer[r] = NoAnswer
    /\ answer' = [answer EXCEPT ![r] = "200"]
    /\ \E kinds \in SUBSET Effects :
            /\ MustCommit \subseteq kinds
            /\ durable' = [durable EXCEPT ![r] = kinds]
    /\ \E t \in Tasks :
            /\ row'[t].status = "completed"
            /\ \A u \in Tasks \ {t} : row'[u] = row[u]

\* Refused requests, one by one or all those a crash cuts off, leave no row.
Refuse ==
    /\ \E lost \in SUBSET Requests :
            /\ \A r \in lost : answer[r] = NoAnswer
            /\ \A r \in Requests :
                    IF r \in lost THEN answer'[r] \in Refusals
                                  ELSE answer'[r] = answer[r]
    /\ UNCHANGED <<row, durable>>

Next ==
    \/ \E t \in Tasks : Create(t)
    \/ \E r \in Requests : Succeed(r)
    \/ Refuse

Spec == Init /\ [][Next]_vars
============================================================================
