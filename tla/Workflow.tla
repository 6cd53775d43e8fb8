------------------------------ MODULE Workflow ------------------------------
(***************************************************************************)
(* Workflow-as-code: one execution of a workflow function that is replayed *)
(* over its durable history by workers (workflow/worker.go), schedules     *)
(* operations that other passes run (workflow/operation.go), and is driven *)
(* by clients, operators and the reconciler over the store                 *)
(* (driver/azyncpgx/workflow_store.go).  Every store call is one action;   *)
(* what a worker holds between two calls is in pass.                       *)
(*                                                                         *)
(* A workflow function is the sequence of the primitives it calls:         *)
(*   "op"       ExecuteOperation, whose error the function returns         *)
(*   "unknown"  ExecuteOperation of an operation no worker registered      *)
(*   "sleep"    Select(Sleep(d))                                           *)
(*   "signal"   Select(WaitSignal(n))                                      *)
(*   "race"     Select(WaitSignal(n), Sleep(d))                            *)
(*   "panic"    none: the function panics                                  *)
(***************************************************************************)
EXTENDS Naturals, FiniteSets, Sequences, SequencesExt

CONSTANTS Workers,      \* concurrent passes, of one process or of several
          Programs,     \* the workflow functions considered
          Messages,     \* message ids of the signals clients send
          Endings,      \* how operation handlers may end
          Incidents,    \* sets of faults and operator calls that may occur together
          MaxTasks      \* bound: operators resume while fewer tasks exist

VARIABLES program,      \* the registered function
          incidents,    \* what may happen in this behaviour
          exec,         \* azync_workflow_executions.state, "none" if no row
          history,      \* azync_workflow_history; event_seq is the index
          inbox,        \* azync_workflow_signals: message ids delivered
          due,          \* sequence numbers of the timers whose FireAt passed
          tasks,        \* workflow-task jobs, by state
          ops,          \* operation jobs: [key, state]
          pass,         \* what each worker is doing
          admin,        \* the call of Manager in progress
          stalled       \* reconcileOnce has listed the execution

vars == <<program, incidents, exec, history, inbox, due, tasks, ops, pass, admin,
          stalled>>

AllEndings == {"done", "failed", "retry", "uncertain"}
AllVerbs == {"cancel", "suspend", "resume", "resolve", "vacuum"}
AllFaults == {"release", "replay", "record", "append", "reply", "outcome", "wake",
              "crash"}

ASSUME WorkflowAssumption ==
    /\ Endings \subseteq AllEndings
    /\ Incidents \subseteq SUBSET (AllVerbs \cup AllFaults)
    /\ MaxTasks \in Nat
    /\ \A p \in Programs : p \in Seq({"op", "unknown", "sleep", "signal", "race", "panic"})

isTerminalWorkflowState == {"succeeded", "failed", "cancelled"}
LiveJob == {"pending", "scheduled", "active", "uncertain"}
Outcomes == {"OperationCompleted", "OperationFailed"}
DecisionTypes == Outcomes \cup {"OperationScheduled", "TimerStarted", "TimerFired"}

Idle == [pc |-> "idle"]
NoCall == [pc |-> "idle"]

---------------------------------------------------------------------------
(* One replay pass as a function of what ListHistory returned.             *)

\* Mutant: splitHistory that hands signals to the cursor like any other event.
splitTogether(h) ==
    [decisions |-> SelectSeq([i \in DOMAIN h |-> [seq |-> i, type |-> h[i].type]],
                             LAMBDA e : e.type \in DecisionTypes \cup {"SignalReceived"}),
     signals |-> Cardinality({i \in DOMAIN h : h[i].type = "SignalReceived"})]

\* The decisions the cursor walks, and the signals probed out of band.
splitHistory(h) ==
    [decisions |-> SelectSeq([i \in DOMAIN h |-> [seq |-> i, type |-> h[i].type]],
                             LAMBDA e : e.type \in DecisionTypes),
     signals |-> Cardinality({i \in DOMAIN h : h[i].type = "SignalReceived"})]

\* wfContext: the two views of history and the time captured once per pass.
Context(h, now) ==
    [decisions |-> splitHistory(h).decisions, signals |-> splitHistory(h).signals, now |-> now]

NextSeq(d) == IF d = <<>> THEN 1 ELSE Last(d).seq + 1

\* The cursor: the type of the event at index i, or "none" past the end.
Peek(c, i) == IF i \in DOMAIN c.decisions THEN c.decisions[i].type ELSE "none"

Ended(r, n, type) ==
    [r EXCEPT !.idx = @ + n, !.status = IF type = "OperationFailed" THEN "failed" ELSE "go"]

ExecuteOperation(c, r, fresh) ==
    LET here == Peek(c, r.idx)
        next == Peek(c, r.idx + 1) IN
    CASE here \in Outcomes -> Ended(r, 1, here)
      [] here = "OperationScheduled" /\ next \in Outcomes -> Ended(r, 2, next)
      [] here = "OperationScheduled" /\ next \notin Outcomes ->
            [r EXCEPT !.status = "parkOperation"]
      [] here = "none" -> [r EXCEPT !.status = fresh]
      [] OTHER -> [r EXCEPT !.status = "error"]

\* Sleep: ready says whether its future is, status "go" that nothing must be
\* recorded first.
probeSleep(c, r) ==
    LET here == Peek(c, r.idx)
        next == Peek(c, r.idx + 1) IN
    CASE here = "none" -> [r EXCEPT !.status = "startTimer"]
      [] here \notin {"none", "TimerStarted"} -> [r EXCEPT !.status = "error"]
      [] here = "TimerStarted" /\ next = "TimerFired" -> [r EXCEPT !.idx = @ + 2, !.ready = TRUE]
      [] here = "TimerStarted" /\ next = "none" ->
            IF c.decisions[r.idx].seq \in c.now
            THEN [r EXCEPT !.status = "fireTimer"]
            ELSE [r EXCEPT !.idx = @ + 1, !.ready = FALSE]
      [] OTHER -> [r EXCEPT !.status = "error"]

\* WaitSignal takes the first signal this pass has not matched yet.
probeSignal(c, r) ==
    IF r.used < c.signals THEN [r EXCEPT !.used = @ + 1, !.ready = TRUE]
                          ELSE [r EXCEPT !.ready = FALSE]

\* Select returns when a future is ready and parks otherwise, to be woken at
\* the timer's deadline if there is a timer.
Select(r, ready, timer) ==
    CASE r.status # "go" -> r
      [] r.status = "go" /\ ready -> r
      [] OTHER -> [r EXCEPT !.status = IF timer THEN "parkTimer" ELSE "parkSignal"]

\* The primitive at step r.step.  A status other than "go" stops the function at
\* this step, before whatever it asks for.
Call(c, r) ==
    LET step == program[r.step]
        woken == probeSignal(c, r)
        slept == probeSleep(c, r)
        both == probeSleep(c, woken) IN
    CASE step = "op" -> ExecuteOperation(c, r, "schedule")
      [] step = "unknown" -> ExecuteOperation(c, r, "refuse")
      [] step = "signal" -> Select(woken, woken.ready, FALSE)
      [] step = "sleep" -> Select(slept, slept.ready, TRUE)
      [] step = "race" -> IF both.status # "go" THEN [r EXCEPT !.status = both.status]
                          ELSE Select(both, woken.ready \/ both.ready, TRUE)
      [] step = "panic" -> [r EXCEPT !.status = "panic"]

Beginning == [step |-> 1, idx |-> 1, used |-> 0, ready |-> FALSE, status |-> "go"]

\* runWorkflow: the function from r on, until it returns or needs the store.
runWorkflow(c, r) ==
    LET after[k \in (r.step - 1)..Len(program)] ==
            CASE k < r.step -> r
              [] k >= r.step /\ after[k - 1].status # "go" -> after[k - 1]
              [] OTHER -> Call(c, [after[k - 1] EXCEPT !.step = k])
        end == after[Len(program)]
    IN IF end.status = "go" THEN [end EXCEPT !.status = "completed"] ELSE end

---------------------------------------------------------------------------
(* The store's statements.                                                 *)

Recorded(h, type, key) == Append(h, [type |-> type, key |-> key])

\* AppendHistory: an outcome of an execution key is recorded once per type.
AppendHistory(h, type, key) ==
    IF type \in Outcomes /\ key > 0 /\ \E i \in DOMAIN h : h[i] = [type |-> type, key |-> key]
    THEN h
    ELSE Recorded(h, type, key)

Scheduled(t, when) == [t EXCEPT ![when] = @ + 1]

\* Mutant: ScheduleOperation that always inserts.
ScheduledAgain(o, key) == Append(o, [key |-> key, state |-> "pending"])

\* ScheduleOperation returns the live job of the execution key if there is one
\* (the unique index decides the race of two inserters).
ScheduleOperation(o, key) ==
    IF \E i \in DOMAIN o : o[i].key = key /\ o[i].state \in LiveJob
    THEN o
    ELSE Append(o, [key |-> key, state |-> "pending"])

\* Mutant: a settled operation counts as a live job.
StalledWithoutJobs ==
    /\ exec = "running" /\ ops = <<>>
    /\ \A s \in {"pending", "scheduled", "active"} : tasks[s] = 0

\* ListStalledWorkflows: running, and no live job of either kind.
ListStalledWorkflows ==
    /\ exec = "running"
    /\ \A s \in {"pending", "scheduled", "active"} : tasks[s] = 0
    /\ \A i \in DOMAIN ops : ops[i].state \notin LiveJob

\* Every task row is gone or settled.
NoTasks == [pending |-> 0, scheduled |-> 0, active |-> 0]

Init ==
    /\ program \in Programs /\ incidents \in Incidents
    /\ exec = "none" /\ history = <<>> /\ inbox = {} /\ due = {}
    /\ tasks = NoTasks
    /\ ops = <<>>
    /\ pass = [w \in Workers |-> Idle]
    /\ admin = NoCall
    /\ stalled = FALSE

---------------------------------------------------------------------------
(* Clients.                                                                *)

\* Client.Start: header, WorkflowStarted and the first task in one transaction.
StartWorkflow ==
    /\ exec = "none"
    /\ exec' = "running"
    /\ history' = <<[type |-> "WorkflowStarted", key |-> 0]>>
    /\ tasks' = Scheduled(tasks, "pending")
    /\ UNCHANGED <<program, incidents, inbox, due, ops, pass, admin, stalled>>

\* Mutant: a signal wakes nobody.
SignalQuietly(m) ==
    /\ exec # "none" /\ m \notin inbox
    /\ inbox' = inbox \cup {m}
    /\ history' = Recorded(history, "SignalReceived", 0)
    /\ UNCHANGED <<program, incidents, exec, due, tasks, ops, pass, admin, stalled>>

\* Client.Signal: inbox row, history record and wake-up in one transaction; a
\* message id already delivered changes nothing.
SignalWorkflow(m) ==
    /\ exec # "none" /\ m \notin inbox
    /\ inbox' = inbox \cup {m}
    /\ history' = Recorded(history, "SignalReceived", 0)
    /\ tasks' = IF exec \in isTerminalWorkflowState THEN tasks ELSE Scheduled(tasks, "pending")
    /\ UNCHANGED <<program, incidents, exec, due, ops, pass, admin, stalled>>

---------------------------------------------------------------------------
(* A pass over a workflow task: processJob.                                *)

At(w, pc) == pass[w].pc = pc

Goto(w, to) == pass' = [pass EXCEPT ![w] = to]

\* The task row of this pass is settled into state s ("gone" for Ack and Dead).
Settled(s) ==
    LET freed == [tasks EXCEPT !.active = @ - 1]
    IN tasks' = IF s = "gone" THEN freed ELSE Scheduled(freed, s)

\* dequeueWorkflows leases one task.
DequeueWorkflow(w) ==
    /\ At(w, "idle") /\ tasks.pending > 0
    /\ tasks' = [tasks EXCEPT !.pending = @ - 1, !.active = @ + 1]
    /\ Goto(w, [pc |-> "get"])
    /\ UNCHANGED <<program, incidents, exec, history, inbox, due, ops, admin, stalled>>

\* GetWorkflowExecution: a task of an execution that is over, suspended or
\* deleted is settled without a replay.
GetWorkflowExecution(w) ==
    /\ At(w, "get")
    /\ IF exec = "running"
       THEN Goto(w, [pc |-> "list"]) /\ UNCHANGED tasks
       ELSE Goto(w, Idle) /\ Settled("gone")
    /\ UNCHANGED <<program, incidents, exec, history, inbox, due, ops, admin, stalled>>

\* The function runs from r on against context c until it needs the store.
Replay(w, c, r) == Goto(w, [pc |-> "replay", ctx |-> c, run |-> runWorkflow(c, r)])

ListHistory(w) ==
    /\ At(w, "list")
    /\ Replay(w, Context(history, due), Beginning)
    /\ UNCHANGED <<program, incidents, exec, history, inbox, due, tasks, ops, admin, stalled>>

Decided(w, status) == At(w, "replay") /\ pass[w].run.status = status

\* wfContext.record: the event is appended durably and to the pass's view.
Record(w, type, key) ==
    /\ history' = AppendHistory(history, type, key)
    /\ Replay(w, [pass[w].ctx EXCEPT !.decisions = Append(@, [seq |-> Len(history'), type |-> type])],
              [pass[w].run EXCEPT !.status = "go"])
    /\ UNCHANGED <<program, incidents, exec, inbox, due, tasks, ops, admin, stalled>>

StartTimer(w) == Decided(w, "startTimer") /\ Record(w, "TimerStarted", 0)

FireTimer(w) == Decided(w, "fireTimer") /\ Record(w, "TimerFired", 0)

\* ExecuteOperation of an operation that is not registered.
RefuseOperation(w) == Decided(w, "refuse") /\ Record(w, "OperationFailed", 0)

\* ExecuteOperation, first half: the job, under the key of the next decision.
Schedule(w) ==
    /\ Decided(w, "schedule")
    /\ LET key == NextSeq(pass[w].ctx.decisions) IN
       /\ ops' = ScheduleOperation(ops, key)
       /\ Goto(w, [pc |-> "scheduled", ctx |-> pass[w].ctx, run |-> pass[w].run, key |-> key])
    /\ UNCHANGED <<program, incidents, exec, history, inbox, due, tasks, admin, stalled>>

\* ExecuteOperation, second half: the history event, then park.
RecordScheduled(w) ==
    /\ At(w, "scheduled")
    /\ Record(w, "OperationScheduled", pass[w].key)

\* CompleteWorkflow and FailWorkflow, which have no guard on the state.
Finish(w) ==
    /\ Decided(w, "completed") \/ Decided(w, "failed")
    /\ LET over == IF Decided(w, "completed") THEN "succeeded" ELSE "failed" IN
       /\ exec' = IF exec = "none" THEN exec ELSE over
       /\ Goto(w, [pc |-> "terminal", state |-> over])
    /\ UNCHANGED <<program, incidents, history, inbox, due, tasks, ops, admin, stalled>>

\* recordTerminal, best effort.
RecordTerminal(w) ==
    /\ At(w, "terminal")
    /\ history' = Recorded(history, IF pass[w].state = "succeeded" THEN "WorkflowCompleted"
                                                                   ELSE "WorkflowFailed", 0)
    /\ Goto(w, [pc |-> "ack"])
    /\ UNCHANGED <<program, incidents, exec, inbox, due, tasks, ops, admin, stalled>>

\* A timer park schedules its wake-up before the task is acknowledged.
ParkTimer(w) ==
    /\ Decided(w, "parkTimer")
    /\ tasks' = Scheduled(tasks, "scheduled")
    /\ Goto(w, [pc |-> "ack"])
    /\ UNCHANGED <<program, incidents, exec, history, inbox, due, ops, admin, stalled>>

\* Ack: after a park with nothing to schedule, or at the end of a pass.
Ack(w) ==
    /\ Decided(w, "parkOperation") \/ Decided(w, "parkSignal") \/ At(w, "ack")
    /\ Settled("gone")
    /\ Goto(w, Idle)
    /\ UNCHANGED <<program, incidents, exec, history, inbox, due, ops, admin, stalled>>

\* settleReplayError, from the status error or from a store error that the
\* primitives turn into a panic: retry later, or Dead and then SuspendWorkflow.
ReplayFailed(w) ==
    /\ \/ Settled("scheduled") /\ Goto(w, Idle)
       \/ Settled("gone") /\ Goto(w, [pc |-> "suspend"])
    /\ UNCHANGED <<program, incidents, exec, history, inbox, due, ops, admin, stalled>>

SettleReplayError(w) ==
    /\ At(w, "replay") /\ pass[w].run.status \in {"error", "panic"}
    /\ ReplayFailed(w)

SuspendAfterReplay(w) ==
    /\ At(w, "suspend")
    /\ exec' = IF exec \in {"running", "suspended"} THEN "suspended" ELSE exec
    /\ Goto(w, Idle)
    /\ UNCHANGED <<program, incidents, history, inbox, due, tasks, ops, admin, stalled>>

---------------------------------------------------------------------------
(* A pass over an operation job: processOperationJob.                      *)

SetOp(i, s) == ops' = [ops EXCEPT ![i].state = s]

DequeueOperation(w, i) ==
    /\ At(w, "idle") /\ ops[i].state = "pending"
    /\ SetOp(i, "active")
    /\ Goto(w, [pc |-> "run", op |-> i])
    /\ UNCHANGED <<program, incidents, exec, history, inbox, due, tasks, admin, stalled>>

\* Reschedule after an error within the budget, or Snooze.
RetryOperation(w) ==
    /\ At(w, "run") /\ "retry" \in Endings
    /\ SetOp(pass[w].op, "scheduled")
    /\ Goto(w, Idle)
    /\ UNCHANGED <<program, incidents, exec, history, inbox, due, tasks, admin, stalled>>

\* MarkUncertain: one statement, which moves the job whatever the execution is.
MarkUncertain(w) ==
    /\ At(w, "run") /\ "uncertain" \in Endings
    /\ SetOp(pass[w].op, "uncertain")
    /\ exec' = IF exec \in {"running", "suspended"} THEN "suspended" ELSE exec
    /\ Goto(w, Idle)
    /\ UNCHANGED <<program, incidents, history, inbox, due, tasks, admin, stalled>>

EventOf == [done |-> "OperationCompleted", failed |-> "OperationFailed"]

\* Mutant: the executor wakes the workflow and records no outcome.
WakeFirst(w) ==
    /\ At(w, "run")
    /\ \E e \in Endings \cap {"done", "failed"} :
        /\ tasks' = Scheduled(tasks, "pending")
        /\ Goto(w, [pc |-> "settle", op |-> pass[w].op, ending |-> e])
    /\ UNCHANGED <<program, incidents, exec, history, inbox, due, ops, admin, stalled>>

\* The outcome goes to history before the job is settled: Completed for a
\* result or Skip, Failed for Abort, an exhausted budget or an unknown handler.
AppendOutcome(w) ==
    /\ At(w, "run")
    /\ \E e \in Endings \cap {"done", "failed"} :
        /\ history' = AppendHistory(history, EventOf[e], ops[pass[w].op].key)
        /\ Goto(w, [pc |-> "settle", op |-> pass[w].op, ending |-> e])
    /\ UNCHANGED <<program, incidents, exec, inbox, due, tasks, ops, admin, stalled>>

\* Ack, Skip or Dead of the operation job.
SettleOperation(w) ==
    /\ At(w, "settle")
    /\ SetOp(pass[w].op, IF pass[w].ending = "done" THEN "succeeded" ELSE "dead")
    /\ Goto(w, [pc |-> "wake"])
    /\ UNCHANGED <<program, incidents, exec, history, inbox, due, tasks, admin, stalled>>

wakeWorkflow(w) ==
    /\ At(w, "wake")
    /\ tasks' = Scheduled(tasks, "pending")
    /\ Goto(w, Idle)
    /\ UNCHANGED <<program, incidents, exec, history, inbox, due, ops, admin, stalled>>

---------------------------------------------------------------------------
(* What can go wrong in a pass.                                            *)

\* A store call of processJob fails and the task is released.
FailedCall(w) ==
    /\ "release" \in incidents
    /\ \/ At(w, "get") \/ At(w, "list")
       \/ \E s \in {"completed", "failed", "parkTimer"} : Decided(w, s)
    /\ Settled("pending")
    /\ Goto(w, Idle)
    /\ UNCHANGED <<program, incidents, exec, history, inbox, due, ops, admin, stalled>>

\* A store call of a primitive fails; the pass ends as a replay error.
FailedPrimitive(w) ==
    /\ \/ "record" \in incidents /\ At(w, "scheduled")
       \/ "replay" \in incidents /\ \E s \in {"startTimer", "fireTimer", "refuse", "schedule"} : Decided(w, s)
    /\ ReplayFailed(w)

\* AppendHistory of a result fails, perhaps after its commit, and the job is
\* released to run again.
FailedAppend(w) ==
    /\ At(w, "run") /\ "done" \in Endings
    /\ \/ "append" \in incidents /\ UNCHANGED history
       \/ /\ "reply" \in incidents
          /\ history' = AppendHistory(history, EventOf.done, ops[pass[w].op].key)
    /\ SetOp(pass[w].op, "pending")
    /\ Goto(w, Idle)
    /\ UNCHANGED <<program, incidents, exec, inbox, due, tasks, admin, stalled>>

\* wakeWorkflow fails, or the process ends just before it.
FailedWake(w) ==
    /\ "wake" \in incidents /\ At(w, "wake")
    /\ Goto(w, Idle)
    /\ UNCHANGED <<program, incidents, exec, history, inbox, due, tasks, ops, admin, stalled>>

\* appendOpFailed only logs its error: the job is settled as dead and the workflow
\* woken although history has no outcome.
FailedOutcome(w) ==
    /\ "outcome" \in incidents /\ At(w, "run") /\ "failed" \in Endings
    /\ Goto(w, [pc |-> "settle", op |-> pass[w].op, ending |-> "failed"])
    /\ UNCHANGED <<program, incidents, exec, history, inbox, due, tasks, ops, admin, stalled>>

Fault(w) ==
    \/ FailedCall(w) \/ FailedPrimitive(w) \/ FailedAppend(w) \/ FailedOutcome(w)
    \/ FailedWake(w)

---------------------------------------------------------------------------
(* Operators: Manager.                                                     *)

Cancel ==
    /\ "cancel" \in incidents /\ exec \in {"running", "suspended"}
    /\ exec' = "cancelled"
    /\ UNCHANGED <<program, incidents, history, inbox, due, tasks, ops, pass, admin, stalled>>

Suspend ==
    /\ "suspend" \in incidents /\ exec = "running"
    /\ exec' = "suspended"
    /\ UNCHANGED <<program, incidents, history, inbox, due, tasks, ops, pass, admin, stalled>>

\* Resume, first call: the state.
Resume ==
    /\ "resume" \in incidents /\ exec = "suspended" /\ admin = NoCall
    /\ tasks.pending + tasks.scheduled < MaxTasks
    /\ exec' = "running"
    /\ admin' = [pc |-> "enqueue"]
    /\ UNCHANGED <<program, incidents, history, inbox, due, tasks, ops, pass, stalled>>

\* ResolveUncertain: the job is settled or requeued and the execution resumed
\* in one transaction; complete and fail go on to history.
ResolveUncertain(i, decision) ==
    /\ "resolve" \in incidents /\ admin = NoCall /\ ops[i].state = "uncertain"
    /\ SetOp(i, [complete |-> "succeeded", fail |-> "dead", retry |-> "pending"][decision])
    /\ exec' = IF exec = "suspended" THEN "running" ELSE exec
    /\ admin' = IF decision = "retry" THEN NoCall
                ELSE [pc |-> "append", key |-> ops[i].key,
                      type |-> IF decision = "complete" THEN "OperationCompleted"
                                                        ELSE "OperationFailed"]
    /\ UNCHANGED <<program, incidents, history, inbox, due, tasks, pass, stalled>>

AppendResolution ==
    /\ admin.pc = "append"
    /\ history' = AppendHistory(history, admin.type, admin.key)
    /\ admin' = [pc |-> "enqueue"]
    /\ UNCHANGED <<program, incidents, exec, inbox, due, tasks, ops, pass, stalled>>

\* enqueueWorkflowTask, the last call of Resume and of ResolveUncertain.
EnqueueAfterVerb ==
    /\ admin.pc = "enqueue"
    /\ tasks' = Scheduled(tasks, "pending")
    /\ admin' = NoCall
    /\ UNCHANGED <<program, incidents, exec, history, inbox, due, ops, pass, stalled>>

---------------------------------------------------------------------------
(* Background.                                                             *)

\* reconcileOnce: the list, then a task for what was listed.
ReconcileLists ==
    /\ ListStalledWorkflows /\ ~stalled
    /\ stalled' = TRUE
    /\ UNCHANGED <<program, incidents, exec, history, inbox, due, tasks, ops, pass, admin>>

ReconcileEnqueues ==
    /\ stalled /\ stalled' = FALSE
    /\ tasks' = IF exec = "none" THEN tasks ELSE Scheduled(tasks, "pending")
    /\ UNCHANGED <<program, incidents, exec, history, inbox, due, ops, pass, admin>>

\* PromoteDue at the start of processNext.
PromoteTask ==
    /\ tasks.scheduled > 0
    /\ tasks' = [tasks EXCEPT !.scheduled = @ - 1, !.pending = @ + 1]
    /\ UNCHANGED <<program, incidents, exec, history, inbox, due, ops, pass, admin, stalled>>

PromoteOperation(i) ==
    /\ ops[i].state = "scheduled"
    /\ SetOp(i, "pending")
    /\ UNCHANGED <<program, incidents, exec, history, inbox, due, tasks, pass, admin, stalled>>

\* The FireAt of a started timer passes.
Tick(i) ==
    /\ history[i].type = "TimerStarted" /\ i \notin due
    /\ due' = due \cup {i}
    /\ UNCHANGED <<program, incidents, exec, history, inbox, tasks, ops, pass, admin, stalled>>

\* VacuumWorkflows, after a retention that outlives every pass and call.
VacuumWorkflows ==
    /\ "vacuum" \in incidents /\ exec \in isTerminalWorkflowState
    /\ admin = NoCall /\ \A w \in Workers : At(w, "idle")
    /\ exec' = "none" /\ history' = <<>> /\ inbox' = {} /\ due' = {}
    /\ tasks' = NoTasks /\ ops' = <<>>
    /\ UNCHANGED <<program, incidents, pass, admin, stalled>>

---------------------------------------------------------------------------
TaskStep(w) ==
    \/ GetWorkflowExecution(w) \/ ListHistory(w) \/ StartTimer(w) \/ FireTimer(w)
    \/ RefuseOperation(w) \/ Schedule(w) \/ RecordScheduled(w) \/ Finish(w)
    \/ RecordTerminal(w) \/ ParkTimer(w) \/ Ack(w) \/ SettleReplayError(w)
    \/ SuspendAfterReplay(w)

OperationStep(w) == AppendOutcome(w) \/ SettleOperation(w) \/ wakeWorkflow(w)

Processes(w) ==
    \/ DequeueWorkflow(w)
    \/ \E i \in DOMAIN ops : DequeueOperation(w, i)
    \/ TaskStep(w) \/ OperationStep(w)

Operator ==
    \/ Cancel \/ Suspend \/ Resume
    \/ \E i \in DOMAIN ops, d \in {"complete", "fail", "retry"} : ResolveUncertain(i, d)

PromoteDue == PromoteTask \/ \E i \in DOMAIN ops : PromoteOperation(i)

TimePasses == \E i \in DOMAIN history : Tick(i)

Next ==
    \/ StartWorkflow \/ VacuumWorkflows
    \/ \E m \in Messages : SignalWorkflow(m)
    \/ \E w \in Workers : Processes(w) \/ RetryOperation(w) \/ MarkUncertain(w) \/ Fault(w)
    \/ Operator \/ AppendResolution \/ EnqueueAfterVerb
    \/ ReconcileLists \/ ReconcileEnqueues \/ PromoteDue \/ TimePasses

Spec == Init /\ [][Next]_vars

\* The process dies, or a pass is abandoned at the end of the drain: its job
\* stays active.  Nothing calls ReapExpired for this source.
Crash(w) ==
    /\ "crash" \in incidents /\ ~At(w, "idle")
    /\ Goto(w, Idle)
    /\ UNCHANGED <<program, incidents, exec, history, inbox, due, tasks, ops, admin, stalled>>

\* Poll loops and tickers run, due rows are promoted, time passes, and a call of
\* Manager that was begun goes on.
Fairness ==
    /\ \A w \in Workers : WF_vars(Processes(w))
    /\ WF_vars(PromoteDue) /\ WF_vars(TimePasses)
    /\ WF_vars(AppendResolution \/ EnqueueAfterVerb)
    /\ WF_vars(ReconcileLists \/ ReconcileEnqueues)

FairSpec == Spec /\ Fairness

\* The same system with workers that may die.
CrashSpec == Init /\ [][Next \/ \E w \in Workers : Crash(w)]_vars /\ Fairness

---------------------------------------------------------------------------
(* Properties.                                                             *)

\* What the function would do on the history as it is now.
Now == runWorkflow(Context(history, due), Beginning).status

\* Somebody will look at the execution: a task is waiting or running, an operation
\* has not settled and will wake it, or a call in progress is about to schedule a
\* task or to suspend the execution.
Attended ==
    \/ \E s \in {"pending", "scheduled", "active"} : tasks[s] > 0
    \/ \E i \in DOMAIN ops : ops[i].state \in LiveJob
    \/ \E w \in Workers : At(w, "settle") \/ At(w, "wake") \/ At(w, "suspend")
    \/ admin # NoCall \/ stalled

\* A deterministic function is never refused by its own history: the decisions
\* recorded by earlier passes, executors and operators are always those the
\* cursor of runWorkflow expects.  (An operation that runs again after the reply of
\* AppendHistory was lost may record a second outcome, of the other type.)
ReplayFits == exec # "none" /\ "reply" \notin incidents => Now # "error"

\* ExecuteOperation starts one job for each call of the function, however often
\* the function is replayed and whatever call failed in between.
OperationOnce ==
    Len(ops) <= Len(SelectSeq(program, LAMBDA s : s = "op"))

\* No wake-up is lost: a running execution that does not wait for a signal is
\* attended (SignalWorkflow, the executor of operations, Manager.Resume,
\* Manager.ResolveUncertain and timer parks each schedule a task).
\* Where the executor's own wake-up fails, or its outcome is not recorded, only the
\* reconciler finds the execution.
WakePending ==
    exec = "running" /\ incidents \cap {"wake", "outcome"} = {} /\ Now # "parkSignal"
        => Attended

\* ExecuteOperation parks only on an operation that can still end: while the
\* function waits, its job is not settled, or the settlement of an operator is on
\* its way to history.  An outcome that appendOpFailed could not record breaks
\* this for good: no later step records it.
ParkedOnLiveOperation ==
    exec = "running" /\ Now = "parkOperation" /\ "outcome" \notin incidents =>
        admin # NoCall \/ \E i \in DOMAIN ops : ops[i].state \in LiveJob

\* A task or operation is active and no pass holds it.
Orphaned ==
    \/ tasks.active > Cardinality({w \in Workers : pass[w].pc \in
            {"get", "list", "replay", "scheduled", "terminal", "ack"}})
    \/ \E i \in DOMAIN ops : ops[i].state = "active"
          /\ \A w \in Workers : pass[w].pc \notin {"run", "settle"} \/ pass[w].op # i

\* A lease whose holder died is recovered: a task or operation that is active
\* does not stay so for ever without a pass that holds it (the comment on
\* Worker.Start's drain relies on the lease reaper for this).
LeaseRecovered == Orphaned ~> ~Orphaned

\* From some time on nothing fails, no operator intervenes and operations end.
Undisturbed ==
    <>[][~(Operator \/ VacuumWorkflows
           \/ \E w \in Workers : Fault(w) \/ RetryOperation(w))]_vars

\* An execution that is left alone ends, is suspended for an operator, or waits
\* for a signal or for the resolution of an uncertain operation; it never hangs
\* with work undone, also after a lost wake-up.  (A function that panics or
\* is refused by its history is suspended when the attempts of its task are used
\* up; one whose operation's
\* failure was not recorded is woken by the reconciler again and again.)
WorkflowSettles ==
    Undisturbed =>
        (exec = "running" ~> \/ exec # "running" \/ Now \in {"parkSignal", "panic", "error"}
                             \/ \E i \in DOMAIN ops : ops[i].state = "uncertain"
                             \/ "outcome" \in incidents /\ Now = "parkOperation")
=============================================================================
