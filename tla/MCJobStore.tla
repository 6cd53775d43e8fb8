----------------------------- MODULE MCJobStore -----------------------------
(***************************************************************************)
(* A finite instance of JobStore.                                           *)
(***************************************************************************)
EXTENDS FakeStore, TLC

CONSTANTS j1, w1, w2, t1, t2

\* Rows without a snooze budget, and rows that can snooze twice within it.
MCSnoozeBudgets == {-1, 2}

\* One worker's kind overrides the producer's default budget, the other's does not.
MCKindBudget == (w1 :> 0) @@ (w2 :> 2)
=============================================================================
