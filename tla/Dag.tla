---------------------------------- MODULE Dag ----------------------------------
(***************************************************************************)
(* One DAG of the dag runtime: its header, tasks, edges and signal inbox   *)
(* (dag_store.go), the scheduler loops of every instance (dag/worker.go),  *)
(* the workers that run its tasks and the operators of dag/manager.go.     *)
(*                                                                         *)
(* A scheduler statement reads a snapshot without locks and then writes    *)
(* the rows it found.  PostgreSQL looks again at a row that changed in     *)
(* between, but only at that row: what the statement saw of other rows may *)
(* be stale.  So a statement is two steps, Reads and Writes, and sweep     *)
(* keeps what was seen.  Verbs lock the header first and are one step.     *)
(*                                                                         *)
(* A scheduler pass makes five calls in order, but each may fail and the   *)
(* pass goes on, so any call may be the next one to take effect.  Tasks    *)
(* are rows of JobStore: leases, budgets and fencing are its subject, and  *)
(* here a lease simply ends in one of the ways its owner or the reaper     *)
(* can end it.                                                             *)
(***************************************************************************)
EXTENDS Integers, Sequences, FiniteSets, Functions

CONSTANTS
  Tasks,       \* keys that definitions use
  Comps,       \* the keys comp:<key>
  Original,    \* the <key> of each of them
  Definitions, \* what clients pass to Run, valid or not
  Schedulers,  \* scheduler loops, one per instance
  Messages,    \* signals, by message id
  Target,      \* the name a message is sent to, a task's key
  Outcomes,    \* how leases end, a subset of LeaseEnds
  Verbs        \* what operators and retention do, a subset of AllVerbs

Keys == Tasks \cup Comps

\* Reschedule and Snooze make a row scheduled; Release and a reap, pending.
LeaseEnds == {"succeeded", "skipped", "dead", "scheduled", "pending"}

AllVerbs == {"retry", "pause", "compensate", "cancel", "runNow", "signal", "vacuum"}

ASSUME KeysAssumption == Tasks \cap Comps = {} /\ Original \in Injection(Comps, Tasks)

ASSUME InputAssumption ==
  /\ Target \in [Messages -> Tasks]
  /\ Outcomes \subseteq LeaseEnds /\ Verbs \subseteq AllVerbs

\* What Run's builder can pass: finitely many tasks, and compensations for tasks
\* with a comp:<key> only.
ASSUME DefinitionsAssumption ==
  /\ IsFiniteSet(Tasks)
  /\ \A d \in Definitions :
       /\ d.tasks \subseteq Tasks /\ d.ignore \subseteq Tasks
       /\ \A k \in Tasks : d.deps[k] \subseteq Tasks
       /\ d.undo \subseteq {Original[c] : c \in Comps}

VARIABLES
  dag,      \* the header of azync_dags: state, cancel_requested
  def,      \* the definition it was created from: azync_dag_deps and the tasks' columns
  job,      \* per key: the state of its row, "none" without a row
  due,      \* rows that are scheduled or paused with run_at <= now()
  done,     \* tasks that declare a compensation and succeeded, by completed_at
  chain,    \* compensations in the order of their edges
  late,     \* tasks that were leased when the others were cancelled
  inbox,    \* azync_dag_signals in the order of created_at
  consumed, \* the messages in it that are marked consumed
  sweep     \* per scheduler: the statement under way and what it saw

rows == <<job, due, done, chain, late>>
signals == <<inbox, consumed>>
vars == <<dag, def, rows, signals, sweep>>

DAGStates == {"none", "running", "suspended", "compensating", "paused",
              "succeeded", "failed", "cancelled"}

Terminal == {"succeeded", "failed", "cancelled"}

JobStates == {"none", "blocked", "pending", "scheduled", "waiting", "active",
              "paused", "succeeded", "skipped", "dead", "cancelled"}

Sweeps == {"idle", "promote", "signals", "sleeps", "policy", "complete",
           "settle", "settling"}

NoSweep == [op |-> "idle", seen |-> {}]

TypeOK ==
  /\ dag \in [state : DAGStates, cancel_requested : BOOLEAN]
  /\ def \in Definitions
  /\ job \in [Keys -> JobStates]
  /\ due \subseteq {k \in Keys : job[k] \in {"scheduled", "paused"}}
  /\ done \in Seq(Tasks) /\ chain \in Seq(Comps) /\ late \subseteq Tasks
  /\ inbox \in Seq(Messages) /\ consumed \subseteq Range(inbox)
  /\ sweep \in [Schedulers -> [op : Sweeps, seen : SUBSET (Keys \cup (Tasks \X Messages) \cup DAGStates)]]

NoRows == [k \in Keys |-> "none"]

Init ==
  /\ dag = [state |-> "none", cancel_requested |-> FALSE]
  /\ def \in Definitions
  /\ job = NoRows
  /\ due = {} /\ done = <<>> /\ chain = <<>> /\ late = {}
  /\ inbox = <<>> /\ consumed = {}
  /\ sweep = [s \in Schedulers |-> NoSweep]

-----------------------------------------------------------------------------
(* Definitions.                                                            *)

\* Rounds of Kahn's algorithm: the tasks whose dependencies earlier rounds resolved.
Resolved(d) ==
  LET after[n \in Nat] ==
        IF n = 0 THEN {}
        ELSE {k \in d.tasks : d.deps[k] \subseteq after[n - 1]}
  IN after[Cardinality(d.tasks)]

\* Mutant: cycles are not looked for.
ValidateNames(d) == d.tasks # {} /\ \A k \in d.tasks : d.deps[k] \subseteq d.tasks

\* The rules of validate that the model can tell apart: there are tasks, edges lead
\* to tasks, and there is no cycle.
Validate(d) ==
  /\ d.tasks # {}
  /\ \A k \in d.tasks : d.deps[k] \subseteq d.tasks
  /\ Resolved(d) = d.tasks

KindOf(k) == IF k \in Tasks THEN def.kind[k] ELSE "handler"

\* The state a task has once nothing blocks it.
Runnable(k) ==
  CASE KindOf(k) = "$signal" -> "waiting"
    [] KindOf(k) = "$sleep" -> "scheduled"
    [] OTHER -> "pending"

InitialTaskState(k) == IF def.deps[k] # {} THEN "blocked" ELSE Runnable(k)

\* Client.Run: an invalid definition is refused before the store is called.
CreateDAG ==
  /\ dag.state = "none"
  /\ Validate(def)
  /\ dag' = [state |-> "running", cancel_requested |-> FALSE]
  /\ job' = [k \in Keys |-> IF k \in def.tasks THEN InitialTaskState(k) ELSE "none"]
  /\ UNCHANGED <<def, due, done, chain, late, signals, sweep>>

\* The edges of azync_dag_deps: the declared ones, and each compensation's to the
\* one before it in the chain.
DepsOf(k) ==
  IF k \in Tasks THEN def.deps[k]
  ELSE {chain[i - 1] : i \in {n \in 2..Len(chain) : chain[n] = k}}

Dependents(k) == {d \in def.tasks \cup Comps : k \in DepsOf(d)}

Ignores(k) == k \in def.ignore

-----------------------------------------------------------------------------
(* Workers and time.                                                       *)

\* completed_at is now(), so completions are kept in their order, those of one
\* statement in any.
Completed(S) ==
  LET new == {k \in S : k \in def.undo} IN
  done \o CHOOSE q \in [1..Cardinality(new) -> new] : IsInjective(q)

\* No worker serves the kinds $sleep and $signal.
DequeueBatch(k) ==
  /\ job[k] = "pending" /\ KindOf(k) = "handler"
  /\ job' = [job EXCEPT ![k] = "active"]
  /\ UNCHANGED <<dag, def, due, done, chain, late, signals, sweep>>

\* AckTaskResult, Skip, Dead, Reschedule, Snooze, Release or ReapExpired.
Settle(k) ==
  /\ job[k] = "active"
  /\ \E state \in Outcomes :
       /\ job' = [job EXCEPT ![k] = state]
       /\ done' = IF state = "succeeded" THEN Completed({k}) ELSE done
  /\ UNCHANGED <<dag, def, due, chain, late, signals, sweep>>

PromoteDue(k) ==
  /\ job[k] = "scheduled" /\ k \in due /\ KindOf(k) = "handler"
  /\ job' = [job EXCEPT ![k] = "pending"]
  /\ due' = due \ {k}
  /\ UNCHANGED <<dag, def, done, chain, late, signals, sweep>>

Tick(k) ==
  /\ job[k] \in {"scheduled", "paused"} /\ k \notin due
  /\ due' = due \cup {k}
  /\ UNCHANGED <<dag, def, job, done, chain, late, signals, sweep>>

-----------------------------------------------------------------------------
(* The scheduler's statements.                                             *)

Sees(s, op, seen) ==
  /\ sweep[s] = NoSweep
  /\ sweep' = [sweep EXCEPT ![s] = [op |-> op, seen |-> seen]]
  /\ UNCHANGED <<dag, def, rows, signals>>

Ends(s) == sweep' = [sweep EXCEPT ![s] = NoSweep]

\* Mutant: a dead dependency is as good as a finished one.
SatisfiedByAny(k, d) == job[d] \in {"succeeded", "skipped", "dead", "cancelled"}

Satisfied(k, d) ==
  \/ job[d] \in {"succeeded", "skipped"}
  \/ Ignores(k) /\ job[d] \in {"dead", "cancelled"}

Promotable ==
  {k \in Keys : /\ job[k] = "blocked" /\ dag.state \in {"running", "compensating"}
                /\ \A d \in DepsOf(k) : Satisfied(k, d)}

PromoteReads(s) ==
  /\ Promotable # {}
  /\ Sees(s, "promote", Promotable)

Promoted(S) == [k \in Keys |-> IF k \in S THEN Runnable(k) ELSE job[k]]

\* Mutant: the statement does not look at the rows again.
PromoteBlind(s) ==
  /\ sweep[s].op = "promote"
  /\ job' = Promoted(sweep[s].seen)
  /\ Ends(s)
  /\ UNCHANGED <<dag, def, due, done, chain, late, signals>>

PromoteWrites(s) ==
  /\ sweep[s].op = "promote"
  /\ job' = Promoted({k \in sweep[s].seen : job[k] = "blocked"})
  /\ Ends(s)
  /\ UNCHANGED <<dag, def, due, done, chain, late, signals>>

\* Tasks a signal of their name does something for.
Waits(k) == KindOf(k) = "$signal" /\ job[k] = "waiting"

Sleeps(k) == KindOf(k) = "$sleep" /\ job[k] = "scheduled"

Buffered(k) == {i \in 1..Len(inbox) : inbox[i] \notin consumed /\ Target[inbox[i]] = k}

\* Per task the oldest signal of its name that is not consumed.
Deliverable ==
  {p \in Tasks \X Range(inbox) :
     /\ dag.state \in {"running", "compensating"}
     /\ Waits(p[1]) \/ Sleeps(p[1])
     /\ \E i \in Buffered(p[1]) : inbox[i] = p[2] /\ \A j \in Buffered(p[1]) : i <= j}

DeliverReads(s) ==
  /\ Deliverable # {}
  /\ Sees(s, "signals", Deliverable)

\* Signals M reach tasks S: a $signal succeeds, a $sleep becomes due.
Deliver(S, M) ==
  LET woken == {k \in S : Waits(k)} IN
  /\ job' = [k \in Keys |-> IF k \in woken THEN "succeeded" ELSE job[k]]
  /\ done' = Completed(woken)
  /\ due' = due \cup {k \in S : Sleeps(k)}
  /\ consumed' = consumed \cup M

\* Mutant: the inbox is marked whether or not the task was still waiting.
DeliverAnyway(s) ==
  /\ sweep[s].op = "signals"
  /\ LET tasks == {p[1] : p \in sweep[s].seen} IN
     Deliver({k \in tasks : Waits(k) \/ Sleeps(k)}, {p[2] : p \in sweep[s].seen})
  /\ Ends(s)
  /\ UNCHANGED <<dag, def, chain, late, inbox>>

DeliverWrites(s) ==
  /\ sweep[s].op = "signals"
  /\ LET taken == {p \in sweep[s].seen : Waits(p[1]) \/ Sleeps(p[1])} IN
     Deliver({p[1] : p \in taken}, {p[2] : p \in taken})
  /\ Ends(s)
  /\ UNCHANGED <<dag, def, chain, late, inbox>>

DueSleeps == {k \in due : Sleeps(k) /\ dag.state = "running"}

SleepsReads(s) ==
  /\ DueSleeps # {}
  /\ Sees(s, "sleeps", DueSleeps)

SleepsWrites(s) ==
  /\ sweep[s].op = "sleeps"
  /\ LET over == {k \in sweep[s].seen : Sleeps(k) /\ k \in due} IN
     /\ job' = [k \in Keys |-> IF k \in over THEN "succeeded" ELSE job[k]]
     /\ due' = due \ over
     /\ done' = Completed(over)
  /\ Ends(s)
  /\ UNCHANGED <<dag, def, chain, late, signals>>

\* A dead task triggers unless it has dependents and all of them tolerate it.
Triggering ==
  {k \in Keys : /\ job[k] = "dead"
                /\ \/ Dependents(k) = {}
                   \/ \E d \in Dependents(k) : ~Ignores(d) \/ job[d] = "none"}

PolicyReads(s) ==
  /\ dag.state = "running" /\ Triggering # {}
  /\ Sees(s, "policy", {})

Remaining == {"pending", "scheduled", "blocked", "waiting", "paused"}

\* Mutant: oldest completion first.
CompensationsForward == [i \in 1..Len(done) |-> CHOOSE c \in Comps : Original[c] = done[i]]

\* The candidates, newest completion first.
Compensations ==
  [i \in 1..Len(done) |-> CHOOSE c \in Comps : Original[c] = done[Len(done) - i + 1]]

HasComps == \E c \in Comps : job[c] # "none"

\* cancelRemainingTasks and insertCompensations: a chain is inserted once, its head
\* pending and the rest blocked on their predecessors.
Unwind ==
  LET cancelled == [k \in Keys |-> IF job[k] \in Remaining THEN "cancelled" ELSE job[k]]
      links == IF HasComps THEN chain ELSE Compensations
  IN
  /\ chain' = links
  /\ job' = [k \in Keys |->
               IF HasComps \/ k \notin Range(links) THEN cancelled[k]
               ELSE IF k = links[1] THEN "pending" ELSE "blocked"]
  /\ due' = {}
  /\ late' = IF HasComps THEN late ELSE {k \in Tasks : job[k] = "active"}
  /\ dag' = [dag EXCEPT !.state = IF links = <<>> THEN "failed" ELSE "compensating"]
  /\ UNCHANGED <<def, done, signals>>

\* The header is looked at again under its lock; the dead tasks are not.
PolicyWrites(s) ==
  /\ sweep[s].op = "policy"
  /\ Ends(s)
  /\ CASE dag.state # "running" -> UNCHANGED <<dag, def, rows, signals>>
       [] dag.state = "running" /\ def.policy = "suspend" ->
            dag' = [dag EXCEPT !.state = "suspended"] /\ UNCHANGED <<def, rows, signals>>
       [] OTHER -> Unwind

Present == {k \in Keys : job[k] # "none"}

AllIn(S, states) == \A k \in S : job[k] \in states

\* Mutant: a dead task that all dependents tolerate does not count as a failure.
VerdictTolerant ==
  CASE dag.state = "running" /\ Present # {} /\ AllIn(Present, {"succeeded", "skipped", "dead"})
         /\ Triggering = {} -> "succeeded"
    [] dag.state = "compensating" /\ ~dag.cancel_requested /\ ~AllIn(Comps, JobStates \ {"dead"}) ->
         "suspended"
    [] OTHER -> "none"

\* The first three statements of CompleteDAGs, at most one of which finds the DAG.
Verdict ==
  CASE dag.state = "running" /\ Present # {} /\ AllIn(Present, {"succeeded", "skipped"}) ->
         "succeeded"
    [] dag.state = "running" /\ AllIn(Present, {"succeeded", "skipped", "dead"})
         /\ ~AllIn(Present, {"succeeded", "skipped"}) /\ Triggering = {} -> "failed"
    [] dag.state = "compensating" /\ ~dag.cancel_requested /\ ~AllIn(Comps, JobStates \ {"dead"}) ->
         "suspended"
    [] OTHER -> "none"

CompleteReads(s) ==
  /\ Verdict # "none" \/ dag.state = "compensating"
  /\ Sees(s, "complete", {Verdict})

\* The state of the header from which a verdict is reached.
From(verdict) ==
  IF verdict = "suspended"
  THEN dag.state = "compensating" /\ ~dag.cancel_requested
  ELSE dag.state = "running" /\ verdict # "none"

\* The fourth statement follows in the same transaction, with a snapshot of its own.
CompleteWrites(s) ==
  /\ sweep[s].op = "complete"
  /\ \E verdict \in sweep[s].seen :
       dag' = IF From(verdict) THEN [dag EXCEPT !.state = verdict] ELSE dag
  /\ sweep' = [sweep EXCEPT ![s] = [op |-> "settle", seen |-> {}]]
  /\ UNCHANGED <<def, rows, signals>>

Unwound == HasComps /\ AllIn(Comps \cap Present, {"succeeded", "cancelled", "dead"})

SettleReads(s) ==
  /\ sweep[s].op = "settle"
  /\ sweep' = [sweep EXCEPT ![s] =
                 IF dag.state = "compensating" /\ Unwound
                 THEN [op |-> "settling", seen |-> {}] ELSE NoSweep]
  /\ UNCHANGED <<dag, def, rows, signals>>

SettleWrites(s) ==
  /\ sweep[s].op = "settling"
  /\ dag' = IF dag.state = "compensating"
            THEN [dag EXCEPT !.state = IF dag.cancel_requested THEN "cancelled" ELSE "failed"]
            ELSE dag
  /\ Ends(s)
  /\ UNCHANGED <<def, rows, signals>>

-----------------------------------------------------------------------------
(* Clients and operators.                                                  *)

\* The dedupe index drops a message id that is in the inbox.  The header's state
\* matters only in that it must not be terminal.  A name that no task has is
\* buffered for ever and left out.
Signal(m) ==
  LET k == Target[m]  hit == {t \in {k} : Waits(t) \/ Sleeps(t)} IN
  /\ "signal" \in Verbs
  /\ dag.state \notin Terminal \cup {"none"}
  /\ k \in def.tasks /\ m \notin Range(inbox)
  /\ inbox' = Append(inbox, m)
  /\ Deliver(hit, IF hit = {} THEN {} ELSE {m})
  /\ UNCHANGED <<dag, def, chain, late, sweep>>

Live == dag.state \notin Terminal \cup {"none"}

Revives(k) == job[k] = "dead" /\ (HasComps => k \in Comps)

RetryDAG ==
  /\ "retry" \in Verbs /\ Live
  /\ job' = [k \in Keys |->
               CASE Revives(k) -> "pending"
                 [] job[k] = "paused" -> IF k \in due THEN "pending" ELSE "scheduled"
                 [] OTHER -> job[k]]
  /\ due' = {k \in due : job[k] = "scheduled"}
  /\ dag' = IF dag.state \in {"suspended", "paused"}
            THEN [dag EXCEPT !.state = IF HasComps THEN "compensating" ELSE "running"]
            ELSE dag
  /\ UNCHANGED <<def, done, chain, late, signals, sweep>>

PauseDAG ==
  LET held == {k \in Keys : job[k] \in {"pending", "scheduled"}} IN
  /\ "pause" \in Verbs
  /\ dag.state = "running"
  /\ dag' = [dag EXCEPT !.state = "paused"]
  /\ job' = [k \in Keys |-> IF k \in held THEN "paused" ELSE job[k]]
  /\ due' = due \cup {k \in held : job[k] = "pending"}
  /\ UNCHANGED <<def, done, chain, late, signals, sweep>>

CompensateDAG ==
  /\ "compensate" \in Verbs
  /\ dag.state \in {"running", "suspended", "paused"}
  /\ Unwind
  /\ UNCHANGED sweep

CancelDAG ==
  /\ "cancel" \in Verbs /\ Live
  /\ dag' = [state |-> IF dag.state = "compensating" THEN dag.state ELSE "cancelled",
             cancel_requested |-> TRUE]
  /\ job' = [k \in Keys |-> IF job[k] \in Remaining THEN "cancelled" ELSE job[k]]
  /\ due' = {}
  /\ UNCHANGED <<def, done, chain, late, signals, sweep>>

\* Manager.RunNow: Store.RunNow on the task's row, whatever its kind.
RunNow(k) ==
  /\ "runNow" \in Verbs
  /\ job[k] = "scheduled"
  /\ job' = [job EXCEPT ![k] = "pending"]
  /\ due' = due \ {k}
  /\ UNCHANGED <<dag, def, done, chain, late, signals, sweep>>

\* The foreign keys cascade; another DAG may be created in its place.
VacuumDAGs ==
  /\ "vacuum" \in Verbs
  /\ dag.state \in Terminal
  /\ dag' = [state |-> "none", cancel_requested |-> FALSE]
  /\ def' \in Definitions
  /\ job' = NoRows
  /\ due' = {} /\ done' = <<>> /\ chain' = <<>> /\ late' = {}
  /\ inbox' = <<>> /\ consumed' = {}
  /\ sweep' = [s \in Schedulers |-> NoSweep]

-----------------------------------------------------------------------------
Reads(s) ==
  \/ PromoteReads(s) \/ DeliverReads(s) \/ SleepsReads(s) \/ PolicyReads(s)
  \/ CompleteReads(s)

Writes(s) ==
  \/ PromoteWrites(s) \/ DeliverWrites(s) \/ SleepsWrites(s) \/ PolicyWrites(s)
  \/ CompleteWrites(s) \/ SettleReads(s) \/ SettleWrites(s)

Verb == RetryDAG \/ PauseDAG \/ CompensateDAG \/ CancelDAG

Next ==
  \/ CreateDAG \/ VacuumDAGs \/ Verb
  \/ \E s \in Schedulers : Reads(s) \/ Writes(s)
  \/ \E k \in Keys :
       \/ DequeueBatch(k) \/ Settle(k) \/ PromoteDue(k) \/ Tick(k)
       \/ RunNow(k)
  \/ \E m \in Messages : Signal(m)

Spec == Init /\ [][Next]_vars

\* The engine's VacuumDead, when DeadRetention is set: unlike VacuumCompleted it
\* does not spare the rows of DAGs.
VacuumDead(k) ==
  /\ job[k] = "dead"
  /\ job' = [job EXCEPT ![k] = "none"]
  /\ UNCHANGED <<dag, def, due, done, chain, late, signals, sweep>>

\* The system with DeadRetention set.
DeadRetentionSpec == Init /\ [][Next \/ \E k \in Keys : VacuumDead(k)]_vars
-----------------------------------------------------------------------------
(* Safety.                                                                 *)

\* A task that tolerates no dead dependency is never runnable, run or finished
\* before all its dependencies succeeded or were skipped, whichever snapshots,
\* retries, pauses and signals came in between; and a compensation never starts
\* before the one ahead of it in the chain is done.
DepsRespected ==
  \A k \in (def.tasks \ def.ignore) \cup Comps :
    job[k] \notin {"none", "blocked", "cancelled"} =>
      \A d \in DepsOf(k) : job[d] \in {"succeeded", "skipped"}

\* driver/dag.go: "DAGSucceeded is the terminal state of a workflow whose tasks all
\* succeeded", skipped ones included.
SucceededMeansDone ==
  dag.state = "succeeded" =>
    chain = <<>> /\ \A k \in def.tasks : job[k] \in {"succeeded", "skipped"}

\* Once there is a compensation chain, the only original tasks that are still to
\* run are those that were leased at the time, and only they can have succeeded
\* without a compensation ("an accepted v1 limitation").  No retry, signal, timer
\* or stale promotion brings another one back.
OnlyStragglersEscape ==
  chain # <<>> =>
    /\ dag.state \in {"compensating", "suspended", "failed", "cancelled"}
    /\ \A k \in def.tasks \ late :
         /\ job[k] \in {"succeeded", "skipped", "dead", "cancelled"}
         /\ k \in def.undo /\ job[k] = "succeeded" => \E c \in Range(chain) : Original[c] = k

\* A signal is consumed for its task or stays in the inbox: a $signal task has
\* succeeded exactly when one message of its name is marked consumed, though
\* Signal and the sweeps of several schedulers may all try to deliver to it.
SignalOnce ==
  \A k \in def.tasks : KindOf(k) = "$signal" =>
    Cardinality({m \in consumed : Target[m] = k}) = IF job[k] = "succeeded" THEN 1 ELSE 0

-----------------------------------------------------------------------------
(* Liveness.  Schedulers tick: while there is something to find, a pass    *)
(* that finds it comes, and a statement that began ends.  Time passes,     *)
(* workers lease what is pending and their leases end.                     *)

Finds(s) ==
  \/ PromoteReads(s) \/ DeliverReads(s) \/ SleepsReads(s) \/ PolicyReads(s)
  \/ CompleteReads(s) /\ (Verdict # "none" \/ Unwound)

Progress(k) == Tick(k) \/ PromoteDue(k) \/ DequeueBatch(k) \/ Settle(k)

Fairness ==
  /\ \A s \in Schedulers : WF_vars(Writes(s))
  /\ SF_vars(\E s \in Schedulers : Finds(s))
  /\ \A k \in Keys : WF_vars(Progress(k))

FairSpec == Spec /\ Fairness

\* From some time on operators leave the DAG alone, and no task is tried again:
\* that retries come to an end is JobStore's JobsEnd.
Undisturbed ==
  <>[][/\ ~Verb
       /\ \A k \in Keys : ~RunNow(k) /\ (job[k] = "active" => job'[k] \notin {"pending", "scheduled"})]_vars

\* A task waits for a message nobody has sent.
AwaitsClient == \E k \in def.tasks : Waits(k) /\ Buffered(k) = {}

\* A timer that RunNow or RetryDAG made pending: no worker serves its kind and
\* CompleteDueSleeps looks for scheduled ones.
TimerStranded == \E k \in def.tasks : KindOf(k) = "$sleep" /\ job[k] = "pending"

\* A compensation that its handler skipped, which completeCompensatingSettleSQL
\* does not count as terminal.
SkippedCompensation == \E c \in Comps : job[c] = "skipped"

\* A DAG that is left alone comes to an end, or to a state in which it is an
\* operator's or a client's turn; the two states named above are the only others.
\* No order of sweeps, stale reads or failures leaves it hanging.
DagSettles ==
  Undisturbed =>
    (dag.state \in {"running", "compensating"} ~>
       \/ dag.state \notin {"running", "compensating"}
       \/ AwaitsClient \/ TimerStranded \/ SkippedCompensation)
=============================================================================
