------------------------------- MODULE FakeWac -------------------------------
(***************************************************************************)
(* The in-memory WorkflowStore of internal/drivertest/fake_wac.go, "the    *)
(* behavioral oracle the workflow runtime is developed and conformance-    *)
(* tested against".  Every method runs under one mutex, so it is a         *)
(* function from the store it finds to the store it leaves.                *)
(***************************************************************************)
EXTENDS Workflow

Store == [exec |-> exec, history |-> history, inbox |-> inbox, tasks |-> tasks, ops |-> ops]

FakeTerminal(S) == S.exec \in {"succeeded", "failed", "cancelled"}

\* scheduleTaskLocked
FakeScheduleTask(S, when) == [S EXCEPT !.tasks[when] = @ + 1]

FakeStart(S) ==
    IF S.exec # "none" THEN S
    ELSE FakeScheduleTask([S EXCEPT !.exec = "running",
                           !.history = <<[type |-> "WorkflowStarted", key |-> 0]>>], "pending")

\* Mutant: AppendHistory that dedupes by execution key alone.
FakeAppendByKey(S, type, key) ==
    IF type \in Outcomes /\ \E i \in DOMAIN S.history : S.history[i].key = key
    THEN S ELSE [S EXCEPT !.history = Append(@, [type |-> type, key |-> key])]

\* AppendHistory: operationResultTypes with a key are looked up first.
FakeAppend(S, type, key) ==
    LET found == \E i \in DOMAIN S.history : S.history[i].type = type /\ S.history[i].key = key
    IN IF type \in Outcomes /\ key # 0 /\ found THEN S
       ELSE [S EXCEPT !.history = Append(@, [type |-> type, key |-> key])]

FakeSignal(S, m) ==
    LET T == [S EXCEPT !.inbox = @ \cup {m},
                       !.history = Append(@, [type |-> "SignalReceived", key |-> 0])]
    IN IF S.exec = "none" \/ m \in S.inbox THEN S
       ELSE IF FakeTerminal(S) THEN T ELSE FakeScheduleTask(T, "pending")

\* CompleteWorkflow and FailWorkflow
FakeFinish(S, over) == IF S.exec = "none" THEN S ELSE [S EXCEPT !.exec = over]

FakeCancel(S) ==
    IF S.exec = "none" \/ FakeTerminal(S) THEN S ELSE [S EXCEPT !.exec = "cancelled"]

FakeSuspend(S) ==
    IF S.exec = "none" \/ FakeTerminal(S) THEN S ELSE [S EXCEPT !.exec = "suspended"]

FakeResume(S) == IF S.exec # "suspended" THEN S ELSE [S EXCEPT !.exec = "running"]

FakeScheduleOperation(S, key) ==
    LET live == {i \in DOMAIN S.ops : S.ops[i].key = key
                   /\ S.ops[i].state \in {"pending", "scheduled", "active", "uncertain"}}
    IN IF S.exec = "none" \/ live # {} THEN S
       ELSE [S EXCEPT !.ops = Append(@, [key |-> key, state |-> "pending"])]

FakeMarkUncertain(S, i) ==
    LET T == [S EXCEPT !.ops[i].state = "uncertain"]
    IN IF S.exec = "none" \/ FakeTerminal(S) THEN T ELSE [T EXCEPT !.exec = "suspended"]

\* ResolveUncertain makes the execution running whatever its state was.
FakeResolve(S, i, decision) ==
    LET state == CASE decision = "complete" -> "succeeded"
                   [] decision = "fail" -> "dead"
                   [] decision = "retry" -> "pending"
    IN IF S.ops[i].state # "uncertain" \/ S.exec = "none" THEN S
       ELSE [S EXCEPT !.ops[i].state = state, !.exec = "running"]

FakeVacuum(S) ==
    IF ~FakeTerminal(S) THEN S
    ELSE [exec |-> "none", history |-> <<>>, inbox |-> {}, ops |-> <<>>,
          tasks |-> [pending |-> 0, scheduled |-> 0, active |-> 0]]

\* hasLiveWorkflowJobLocked
FakeHasLiveJob(S) ==
    \/ \E s \in DOMAIN S.tasks : S.tasks[s] > 0
    \/ \E i \in DOMAIN S.ops : S.ops[i].state \in {"pending", "scheduled", "active", "uncertain"}

FakeListStalled(S) == S.exec = "running" /\ ~FakeHasLiveJob(S)

\* The fake and the PostgreSQL driver do the same: every call, made in any state
\* the system reaches, leaves the same executions, history, signals and jobs in
\* both, and the reconciler is shown the same executions.  ResolveUncertain is
\* compared while the execution is not over; the fake revives one that is.
FakeWacAgrees ==
    [][/\ FakeListStalled(Store) = ListStalledWorkflows
       /\ StartWorkflow => Store' = FakeStart(Store)
       /\ VacuumWorkflows => Store' = FakeVacuum(Store)
       /\ \A m \in Messages : SignalWorkflow(m) => Store' = FakeSignal(Store, m)
       /\ Cancel => Store' = FakeCancel(Store)
       /\ Suspend => Store' = FakeSuspend(Store)
       /\ Resume => Store' = FakeResume(Store)
       /\ AppendResolution => Store' = FakeAppend(Store, admin.type, admin.key)
       /\ EnqueueAfterVerb => Store' = FakeScheduleTask(Store, "pending")
       /\ exec \notin isTerminalWorkflowState =>
            \A i \in DOMAIN ops, d \in {"complete", "fail", "retry"} :
                ResolveUncertain(i, d) => Store' = FakeResolve(Store, i, d)
       /\ \A w \in Workers :
            /\ StartTimer(w) => Store' = FakeAppend(Store, "TimerStarted", 0)
            /\ RefuseOperation(w) => Store' = FakeAppend(Store, "OperationFailed", 0)
            /\ Schedule(w) =>
                 Store' = FakeScheduleOperation(Store, NextSeq(pass[w].ctx.decisions))
            /\ Finish(w) =>
                 Store' = FakeFinish(Store, IF Decided(w, "failed") THEN "failed" ELSE "succeeded")
            /\ MarkUncertain(w) => Store' = FakeMarkUncertain(Store, pass[w].op)
            /\ AppendOutcome(w) =>
                 \E e \in {"done", "failed"} :
                    Store' = FakeAppend(Store, EventOf[e], ops[pass[w].op].key)
       ]_vars
=============================================================================
