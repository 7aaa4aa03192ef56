------------------------------ MODULE TaskRuns ------------------------------
(***************************************************************************)
(* What the scheduler promises of a task table, without threads, contexts  *)
(* or queues: a row has at most one run, a run that starts waits for the   *)
(* rows before it, and every run that is dispatched ends.                  *)
(***************************************************************************)
CONSTANTS Rows,    \* the rows of the table
          Before   \* row -> the rows of the lower phases of its group

VARIABLE run       \* row -> the state of its run

Init == run = [r \in Rows |-> "idle"]

Dispatch(r) ==
    /\ run[r] = "idle"
    /\ run' = [run EXCEPT ![r] = "pending"]

Start(r) ==
    /\ run[r] = "pending"
    /\ \A b \in Before[r] : run[b] = "idle"
    /\ run' = [run EXCEPT ![r] = "executing"]

\* Refused by a full or stopped pool, or aborted by shutdown.
Abandon(r) ==
    /\ run[r] = "pending"
    /\ run' = [run EXCEPT ![r] = "idle"]

Finish(r) ==
    /\ run[r] = "executing"
    /\ run' = [run EXCEPT ![r] = "idle"]

Next == \E r \in Rows : Dispatch(r) \/ Start(r) \/ Abandon(r) \/ Finish(r)

Spec == Init /\ [][Next]_run

\* A pending run is started or given up, an executing one finishes.
Fairness == \A r \in Rows : WF_run(Start(r) \/ Abandon(r)) /\ WF_run(Finish(r))

FairSpec == Spec /\ Fairness
=============================================================================
