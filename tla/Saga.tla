---------------------------------- MODULE Saga ----------------------------------
(***************************************************************************)
(* What a DAG with compensations promises: work is performed, and either   *)
(* it all ends well or, once and for all, the work that can be undone is   *)
(* undone in the reverse order of its completion, one piece after the      *)
(* other.  Work that was under way when that began may still end, and is   *)
(* not undone.                                                             *)
(***************************************************************************)
EXTENDS Naturals, Sequences

CONSTANT Work

VARIABLES
  phase,      \* "none", "performing", "undoing", "succeeded", "failed", "cancelled"
  log,        \* what was performed and can be undone, in the order of completion
  plan,       \* what is to be undone, in that order
  undone,     \* the positions of plan that are done
  stragglers  \* what was under way when the plan was made

vars == <<phase, log, plan, undone, stragglers>>

Init ==
  /\ phase = "none"
  /\ log = <<>> /\ plan = <<>>
  /\ undone = {} /\ stragglers = {}

Begin ==
  /\ phase = "none"
  /\ phase' = "performing"
  /\ UNCHANGED <<log, plan, undone, stragglers>>

\* One or more pieces are completed at once; behind the plan, stragglers only.
Perform ==
  /\ phase # "none"
  /\ log' \in Seq(Work) /\ Len(log') > Len(log)
  /\ \A i \in 1..Len(log) : log'[i] = log[i]
  /\ plan # <<>> => \A i \in (Len(log) + 1)..Len(log') : log'[i] \in stragglers
  /\ UNCHANGED <<phase, plan, undone, stragglers>>

GiveUp ==
  /\ phase = "performing"
  /\ log # <<>>
  /\ phase' = "undoing"
  /\ plan' = [i \in 1..Len(log) |-> log[Len(log) - i + 1]]
  /\ stragglers' \subseteq Work
  /\ UNCHANGED <<log, undone>>

\* Also behind the end: what was being undone when a saga was cancelled may end.
Undo(i) ==
  /\ i \notin undone /\ \A j \in 1..(i - 1) : j \in undone
  /\ undone' = undone \cup {i}
  /\ UNCHANGED <<phase, log, plan, stragglers>>

\* The plan of a saga that failed may not have been carried out.
End(state) ==
  /\ phase \in {"performing", "undoing"}
  /\ phase = "undoing" => state # "succeeded"
  /\ phase' = state
  /\ UNCHANGED <<log, plan, undone, stragglers>>

Forget ==
  /\ phase \in {"succeeded", "failed", "cancelled"}
  /\ phase' = "none"
  /\ log' = <<>> /\ plan' = <<>>
  /\ undone' = {} /\ stragglers' = {}

Next ==
  \/ Begin \/ Perform \/ GiveUp \/ Forget
  \/ \E i \in 1..Len(plan) : Undo(i)
  \/ \E state \in {"succeeded", "failed", "cancelled"} : End(state)

Spec == Init /\ [][Next]_vars
=============================================================================
