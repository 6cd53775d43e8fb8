------------------------------- MODULE DagSaga -------------------------------
(***************************************************************************)
(* A DAG as a saga: the refinement mapping from Dag to Saga.               *)
(***************************************************************************)
EXTENDS Dag

\* Where a DAG is as a saga.
Phase ==
  CASE dag.state \in Terminal \cup {"none"} -> dag.state
    [] dag.state \notin Terminal /\ chain # <<>> -> "undoing"
    [] OTHER -> "performing"

\* What is to be undone, and which positions of it are.
Plan == [i \in 1..Len(chain) |-> Original[chain[i]]]

Undone == {i \in 1..Len(chain) : job[chain[i]] \in {"succeeded", "skipped"}}

Left == IF chain = <<>> THEN {} ELSE late

Promise == INSTANCE Saga WITH
  Work <- Tasks, phase <- Phase, log <- done, plan <- Plan, undone <- Undone, stragglers <- Left

\* The DAG implements Saga: whatever sweeps, retries and operators do, there is at
\* most one chain, it is what had been completed when it was made, newest first, it
\* is worked off in that order, and there is no way back to performing.
ImplementsSaga == Promise!Spec
=============================================================================
