-------------------------------- MODULE FakeDag --------------------------------
(***************************************************************************)
(* The in-memory DAGStore of internal/drivertest/fake_dag.go, "the         *)
(* behavioral oracle the workflow runtime is developed and                 *)
(* conformance-tested against".  Its calls hold one mutex, so each is a    *)
(* function of the state it finds; they are given here as such functions   *)
(* and compared with the statements of Dag.                                *)
(***************************************************************************)
EXTENDS Dag, SequencesExt

\* One record of Fake.dags with its jobs and signals.
Store ==
  [state |-> dag.state, cancelRequested |-> dag.cancel_requested, job |-> job, due |-> due,
   completed |-> done, links |-> chain, signals |-> inbox, consumed |-> consumed]

FakeTerminal(f) == f.state \in {"succeeded", "failed", "cancelled"}

FakeInsertDAGTask(k) ==
  CASE def.deps[k] # {} -> "blocked"
    [] def.deps[k] = {} /\ def.kind[k] = "$sleep" -> "scheduled"
    [] def.deps[k] = {} /\ def.kind[k] = "$signal" -> "waiting"
    [] OTHER -> "pending"

FakeCreateDAG(f) ==
  [f EXCEPT !.state = "running",
            !.job = [k \in Keys |-> IF k \in def.tasks THEN FakeInsertDAGTask(k) ELSE "none"]]

FakeSucceed(f, S) ==
  [f EXCEPT !.job = [k \in Keys |-> IF k \in S THEN "succeeded" ELSE f.job[k]],
            !.due = @ \ S,
            !.completed = @ \o SetToSeq(S \cap def.undo)]

\* Tasks a signal can be delivered to: SignalName is the key of the task.
FakeIsSignal(f, k) == KindOf(k) = "$signal" /\ f.job[k] = "waiting"

FakeIsSleep(f, k) == KindOf(k) = "$sleep" /\ f.job[k] = "scheduled"

FakeWake(f, k) ==
  IF FakeIsSignal(f, k) THEN FakeSucceed(f, {k}) ELSE [f EXCEPT !.due = @ \cup {k}]

FakeSignal(f, m) ==
  LET g == [f EXCEPT !.signals = Append(@, m)]  k == Target[m] IN
  IF FakeIsSignal(g, k) \/ FakeIsSleep(g, k)
  THEN [FakeWake(g, k) EXCEPT !.consumed = @ \cup {m}]
  ELSE g

\* The unconsumed signals of a name, oldest first.
FakeUnconsumed(f, k) == SelectSeq(f.signals, LAMBDA m : m \notin f.consumed /\ Target[m] = k)

\* Mutant: the newest signal wins.
FakeNewestSignal(f, k) == Last(FakeUnconsumed(f, k))

FakeOldestSignal(f, k) == Head(FakeUnconsumed(f, k))

FakeDeliverBufferedSignals(f) ==
  LET ready == {k \in Tasks : /\ FakeIsSignal(f, k) \/ FakeIsSleep(f, k)
                              /\ FakeUnconsumed(f, k) # <<>>}
      woken == FoldLeft(FakeWake, f, SetToSeq(ready))
  IN IF f.state \in {"running", "compensating"}
     THEN [woken EXCEPT !.consumed = @ \cup {FakeOldestSignal(f, k) : k \in ready}]
     ELSE f

\* w.deps, which the links of a compensation chain extend.
FakeDeps(f, k) ==
  IF k \in Tasks THEN def.deps[k]
  ELSE {f.links[i] : i \in {n \in 1..(Len(f.links) - 1) : f.links[n + 1] = k}}

FakeDepsSatisfied(f, k) ==
  \A d \in FakeDeps(f, k) :
    /\ f.job[d] \in {"succeeded", "skipped", "dead", "cancelled"}
    /\ f.job[d] \in {"dead", "cancelled"} => k \in def.ignore

FakePromoteUnblocked(f) ==
  [f EXCEPT !.job =
     [k \in Keys |->
        CASE \/ f.job[k] # "blocked" \/ f.state \notin {"running", "compensating"}
             \/ ~FakeDepsSatisfied(f, k) -> f.job[k]
          [] KindOf(k) = "$signal" -> "waiting"
          [] KindOf(k) = "$sleep" -> "scheduled"
          [] OTHER -> "pending"]]

FakeCompleteDueSleeps(f) ==
  IF f.state = "running" THEN FakeSucceed(f, {k \in f.due : FakeIsSleep(f, k)}) ELSE f

\* ignoredByAllDependentsLocked
FakeIgnoredByAll(f, k) ==
  LET dependents == {d \in def.tasks \cup Comps : k \in FakeDeps(f, d)} IN
  /\ dependents # {}
  /\ \A d \in dependents : f.job[d] # "none" /\ d \in def.ignore

FakeTriggering(f) == {k \in Keys : f.job[k] = "dead" /\ ~FakeIgnoredByAll(f, k)}

FakeCancelRemaining(f) ==
  [f EXCEPT !.job = [k \in Keys |->
                       IF f.job[k] \in {"pending", "scheduled", "blocked", "waiting", "paused"}
                       THEN "cancelled" ELSE f.job[k]],
            !.due = {}]

FakeComps(f) == {k \in Comps : f.job[k] # "none"}

FakeInsertCompensations(f) ==
  LET candidates == SelectSeq(Reverse(f.completed), LAMBDA k : f.job[k] = "succeeded")
      links == [i \in 1..Len(candidates) |-> CHOOSE k \in Comps : Original[k] = candidates[i]]
  IN IF FakeComps(f) # {} THEN f
     ELSE [f EXCEPT !.links = links,
                    !.job = [k \in Keys |->
                               IF k \notin ToSet(links) THEN f.job[k]
                               ELSE IF k = Head(links) THEN "pending" ELSE "blocked"]]

FakeCompensate(f) ==
  LET g == FakeInsertCompensations(FakeCancelRemaining(f)) IN
  [g EXCEPT !.state = IF FakeComps(g) = {} THEN "failed" ELSE "compensating"]

FakeApplyFailurePolicy(f) ==
  CASE f.state # "running" \/ FakeTriggering(f) = {} -> f
    [] f.state = "running" /\ FakeTriggering(f) # {} /\ def.policy = "suspend" ->
         [f EXCEPT !.state = "suspended"]
    [] OTHER -> FakeCompensate(f)

\* CompleteDAGs of a running DAG.
FakeCompleteRunning(f) ==
  LET tasks == {k \in Keys : f.job[k] # "none"}
      deadKeys == {k \in tasks : f.job[k] = "dead"}
  IN IF \/ tasks = {}
        \/ \E k \in tasks : f.job[k] \notin {"succeeded", "skipped", "dead"}
        \/ \E k \in deadKeys : ~FakeIgnoredByAll(f, k)
     THEN f
     ELSE [f EXCEPT !.state = IF deadKeys = {} THEN "succeeded" ELSE "failed"]

\* And of a compensating one.
FakeCompleteCompensating(f) ==
  LET states == {f.job[k] : k \in FakeComps(f)} IN
  CASE states = {} -> f
    [] "dead" \in states /\ ~f.cancelRequested -> [f EXCEPT !.state = "suspended"]
    [] states # {} /\ states \subseteq {"succeeded", "cancelled", "dead"}
         /\ ("dead" \in states => f.cancelRequested) ->
         [f EXCEPT !.state = IF f.cancelRequested THEN "cancelled" ELSE "failed"]
    [] OTHER -> f

FakeCompleteDAGs(f) ==
  CASE f.state = "running" -> FakeCompleteRunning(f)
    [] f.state = "compensating" -> FakeCompleteCompensating(f)
    [] OTHER -> f

\* Settle calls on an active task, as on any job; AckTaskResult among them.
FakeSettle(f, k, state) ==
  IF state = "succeeded" THEN FakeSucceed(f, {k}) ELSE [f EXCEPT !.job[k] = state]

FakeRetryDAG(f) ==
  LET hasComps == FakeComps(f) # {}
      reset == {k \in Keys : f.job[k] = "dead" /\ (hasComps => k \in Comps)}
      resumed == {k \in Keys : f.job[k] = "paused"}
  IN IF FakeTerminal(f) THEN f
     ELSE [f EXCEPT
            !.job = [k \in Keys |->
                       CASE k \in reset \/ (k \in resumed /\ k \in f.due) -> "pending"
                         [] k \in resumed /\ k \notin f.due -> "scheduled"
                         [] OTHER -> f.job[k]],
            !.due = @ \ resumed,
            !.state = CASE @ \notin {"suspended", "paused"} -> @
                        [] @ \in {"suspended", "paused"} /\ hasComps -> "compensating"
                        [] OTHER -> "running"]

FakePauseDAG(f) ==
  LET held == {k \in Keys : f.job[k] \in {"pending", "scheduled"}} IN
  IF f.state # "running" THEN f
  ELSE [f EXCEPT !.state = "paused",
                 !.job = [k \in Keys |-> IF k \in held THEN "paused" ELSE f.job[k]],
                 !.due = @ \cup {k \in held : f.job[k] = "pending"}]

FakeCompensateDAG(f) ==
  IF f.state \in {"running", "suspended", "paused"} THEN FakeCompensate(f) ELSE f

FakeCancelDAG(f) ==
  IF FakeTerminal(f) THEN f
  ELSE [FakeCancelRemaining(f) EXCEPT
          !.cancelRequested = TRUE,
          !.state = IF @ = "compensating" THEN @ ELSE "cancelled"]

\* The record, its jobs and its signals are removed.
FakeVacuumDAGs(f) ==
  IF ~FakeTerminal(f) THEN f
  ELSE [state |-> "none", cancelRequested |-> FALSE, job |-> NoRows, due |-> {},
        completed |-> <<>>, links |-> <<>>, signals |-> <<>>, consumed |-> {}]

-----------------------------------------------------------------------------
\* A scheduler statement whose snapshot is still what it would read now.
Alone(s) ==
  CASE sweep[s].op = "promote" -> sweep[s].seen = Promotable
    [] sweep[s].op = "signals" -> sweep[s].seen = Deliverable
    [] sweep[s].op = "sleeps" -> sweep[s].seen = DueSleeps
    [] sweep[s].op = "policy" -> dag.state = "running" /\ Triggering # {}
    [] sweep[s].op = "complete" -> sweep[s].seen = {Verdict} /\ Verdict # "none"
    [] sweep[s].op = "settling" -> dag.state = "compensating" /\ Unwound /\ Verdict = "none"
    [] OTHER -> FALSE

FakeSweep(f, op) ==
  CASE op = "promote" -> FakePromoteUnblocked(f)
    [] op = "signals" -> FakeDeliverBufferedSignals(f)
    [] op = "sleeps" -> FakeCompleteDueSleeps(f)
    [] op = "policy" -> FakeApplyFailurePolicy(f)
    [] OTHER -> FakeCompleteDAGs(f)

\* The oracle and PostgreSQL agree: in every state that is reachable, with all its
\* races, each call of the fake would have the effect that the transaction of
\* dag_store.go has, and each scheduler call the effect of a statement that nothing
\* came in between.  Tests of the runtime on the fake are tests of the driver.
FakeAgrees ==
  [][/\ CreateDAG => Store' = FakeCreateDAG(Store)
     /\ RetryDAG => Store' = FakeRetryDAG(Store)
     /\ PauseDAG => Store' = FakePauseDAG(Store)
     /\ CompensateDAG => Store' = FakeCompensateDAG(Store)
     /\ CancelDAG => Store' = FakeCancelDAG(Store)
     /\ VacuumDAGs => Store' = FakeVacuumDAGs(Store)
     /\ \A m \in Messages : Signal(m) => Store' = FakeSignal(Store, m)
     /\ \A k \in Keys : Settle(k) => Store' = FakeSettle(Store, k, job'[k])
     /\ \A s \in Schedulers :
          Writes(s) /\ Alone(s) => Store' = FakeSweep(Store, sweep[s].op)]_vars
=============================================================================
