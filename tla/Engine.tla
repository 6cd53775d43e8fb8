-------------------------------- MODULE Engine --------------------------------
(***************************************************************************)
(* One Engine of internal/engine: Start with its setup, drain and grace    *)
(* period (engine.go), a fetchLoop per kind (fetcher.go) with the two      *)
(* semaphores that bound what it may lease, and the executor goroutines    *)
(* that give the slots back (executor.go).  Settlements are JobStore's     *)
(* subject; here a job is pending, leased, or done, and only counted.      *)
(*                                                                         *)
(* Every receive, send and check of shared state is a step of its own.     *)
(* A select that can take several branches takes any of them: acquire may  *)
(* succeed although ctx has ended.                                         *)
(***************************************************************************)
EXTENDS Integers, FiniteSets

CONSTANTS
  Kinds,          \* the registered kinds
  Callers,        \* goroutines that call Start
  Concurrency,    \* Kind.Concurrency
  MaxConcurrency, \* Settings.MaxConcurrency, the capacity of semGlobal
  FetchBatchSize,
  Work,           \* bound: how many jobs of a kind there are
  Scenarios       \* what may go wrong together: sets of Troubles

Troubles == {"setup",   \* notifier.Wake fails
             "wake",    \* a notification is lost
             "silent",  \* a job becomes pending without one (PromoteDue, a reap)
             "dequeue"} \* DequeueBatch fails, possibly after its commit

ASSUME KindsAssumption == IsFiniteSet(Kinds)

ASSUME CapacityAssumption ==
  /\ Concurrency \in [Kinds -> Nat \ {0}]
  /\ MaxConcurrency \in Nat \ {0} /\ FetchBatchSize \in Nat \ {0}
  /\ Work \in [Kinds -> Nat]

ASSUME TroubleAssumption == Scenarios \subseteq SUBSET Troubles

VARIABLES
  trouble,   \* what may go wrong, one of Scenarios; it never changes
  start,     \* per caller: where its Start call is
  started, ready, done,
  stopping,  \* ctx has ended
  loop,      \* per kind: where its fetchLoop is
  maintenance, \* where the maintenanceLoop is
  slots,     \* per kind: the loop's slots variable
  batch,     \* per kind: the jobs DequeueBatch returned
  semKind, semGlobal,
  running,   \* per kind: executor goroutines
  unborn, pending, orphaned,  \* per kind: jobs to come, to fetch, leased by nobody
  notified,  \* per kind: a notification is on its way
  wake       \* per kind: the channel with a buffer of one

gates == <<started, ready, done>>
fetching == <<loop, slots, batch, semKind, semGlobal>>
backlog == <<unborn, pending, orphaned>>
waking == <<notified, wake>>

vars == <<trouble, start, gates, stopping, maintenance, fetching, running, backlog, waking>>

StartSteps == {"idle", "setup", "failing", "failed", "running", "draining", "grace",
               "stopped", "abandoned"}

LoopSteps == {"off", "head", "kind", "global", "more", "moreGlobal", "dequeue",
              "dispatch", "idle", "ended"}

TypeOK ==
  /\ trouble \in Scenarios
  /\ start \in [Callers -> StartSteps]
  /\ started \in BOOLEAN /\ ready \in BOOLEAN /\ done \in BOOLEAN /\ stopping \in BOOLEAN
  /\ loop \in [Kinds -> LoopSteps] /\ maintenance \in {"off", "on", "ended"}
  /\ slots \in [Kinds -> Nat] /\ batch \in [Kinds -> Nat]
  /\ semKind \in [Kinds -> Nat] /\ semGlobal \in Int
  /\ running \in [Kinds -> Nat]
  /\ unborn \in [Kinds -> Nat] /\ pending \in [Kinds -> Nat] /\ orphaned \in [Kinds -> Nat]
  /\ notified \in [Kinds -> BOOLEAN] /\ wake \in [Kinds -> BOOLEAN]

None == [k \in Kinds |-> 0]

Init ==
  /\ trouble \in Scenarios
  /\ start = [c \in Callers |-> "idle"]
  /\ started = FALSE /\ ready = FALSE /\ done = FALSE /\ stopping = FALSE
  /\ loop = [k \in Kinds |-> "off"] /\ maintenance = "off"
  /\ slots = None /\ batch = None /\ semKind = None /\ semGlobal = 0
  /\ running = None
  /\ unborn = Work /\ pending = None /\ orphaned = None
  /\ notified = [k \in Kinds |-> FALSE] /\ wake = [k \in Kinds |-> FALSE]

\* The sum of f over the kinds: the number of its units, each the i-th of a kind.
Units(f) == UNION {{k} \X (1..f[k]) : k \in Kinds}

Total(f) == Cardinality(Units(f))

-----------------------------------------------------------------------------
(* Start.                                                                  *)

\* The compare-and-swap on started, which a second call loses; a failed call may
\* be repeated.  The winner makes semGlobal anew.
Start(c) ==
  /\ start[c] \in {"idle", "failed"}
  /\ IF started
     THEN /\ start' = [start EXCEPT ![c] = "failed"]
          /\ ready' = TRUE
          /\ UNCHANGED <<started, done, fetching>>
     ELSE /\ start' = [start EXCEPT ![c] = "setup"]
          /\ started' = TRUE
          /\ semGlobal' = 0
          /\ UNCHANGED <<ready, done, loop, slots, batch, semKind>>
  /\ UNCHANGED <<stopping, maintenance, running, backlog, waking>>

\* The loops are spawned, each with a semKind of its own.
SetupDone(c) ==
  /\ start[c] = "setup"
  /\ start' = [start EXCEPT ![c] = "running"]
  /\ ready' = TRUE
  /\ loop' = [k \in Kinds |-> "head"] /\ maintenance' = "on"
  /\ semKind' = None
  /\ UNCHANGED <<started, done, stopping, slots, batch, semGlobal, running, backlog, waking>>

SetupFails(c) ==
  /\ "setup" \in trouble
  /\ start[c] = "setup"
  /\ start' = [start EXCEPT ![c] = "failing"]
  /\ started' = FALSE /\ ready' = TRUE
  /\ UNCHANGED <<done, stopping, maintenance, fetching, running, backlog, waking>>

\* Mutant: started is reset when the failed call returns.
FailedReturnResets(c) ==
  /\ start[c] = "failing"
  /\ start' = [start EXCEPT ![c] = "failed"]
  /\ done' = TRUE /\ started' = FALSE
  /\ UNCHANGED <<ready, stopping, maintenance, fetching, running, backlog, waking>>

\* The deferred resolveDone of the failed call; another Start may be under way.
FailedReturn(c) ==
  /\ start[c] = "failing"
  /\ start' = [start EXCEPT ![c] = "failed"]
  /\ done' = TRUE
  /\ UNCHANGED <<started, ready, stopping, maintenance, fetching, running, backlog, waking>>

\* The caller ends ctx.
Stop ==
  /\ ~stopping
  /\ stopping' = TRUE
  /\ UNCHANGED <<start, gates, maintenance, fetching, running, backlog, waking>>

LoopsEnded == maintenance = "ended" /\ \A k \in Kinds : loop[k] = "ended"

\* Mutant: the executors are waited for before the loops have ended.
DrainEarly(c) ==
  /\ start[c] = "running"
  /\ stopping
  /\ start' = [start EXCEPT ![c] = "draining"]
  /\ UNCHANGED <<gates, stopping, maintenance, fetching, running, backlog, waking>>

\* <-ctx.Done(), then loops.Wait().
Drain(c) ==
  /\ start[c] = "running"
  /\ stopping
  /\ LoopsEnded
  /\ start' = [start EXCEPT ![c] = "draining"]
  /\ UNCHANGED <<gates, stopping, maintenance, fetching, running, backlog, waking>>

\* inflight.Wait() came back, within either wait.
Drained(c) ==
  /\ start[c] \in {"draining", "grace"}
  /\ \A k \in Kinds : running[k] = 0
  /\ start' = [start EXCEPT ![c] = "stopped"]
  /\ done' = TRUE
  /\ UNCHANGED <<started, ready, stopping, maintenance, fetching, running, backlog, waking>>

\* ShutdownDrain is over: handlers are cancelled, which they may ignore.
DrainTimeout(c) ==
  /\ start[c] = "draining"
  /\ start' = [start EXCEPT ![c] = "grace"]
  /\ UNCHANGED <<gates, stopping, maintenance, fetching, running, backlog, waking>>

\* finalDrainGrace is over: the handlers still running are left to the reaper.
Abandon(c) ==
  /\ start[c] = "grace"
  /\ start' = [start EXCEPT ![c] = "abandoned"]
  /\ done' = TRUE
  /\ UNCHANGED <<started, ready, stopping, maintenance, fetching, running, backlog, waking>>

\* maintenanceLoop returns at <-ctx.Done(); its calls are JobStore's steps.
MaintenanceEnds ==
  /\ maintenance = "on" /\ stopping
  /\ maintenance' = "ended"
  /\ UNCHANGED <<start, gates, stopping, fetching, running, backlog, waking>>

-----------------------------------------------------------------------------
(* fetchLoop.                                                              *)

Goto(k, step) == loop' = [loop EXCEPT ![k] = step]

\* What no fetch loop touches.
Elsewhere == <<start, gates, stopping, maintenance, unborn, notified>>

\* for ctx.Err() == nil
Head(k) ==
  /\ loop[k] = "head"
  /\ Goto(k, IF stopping THEN "ended" ELSE "kind")
  /\ UNCHANGED <<slots, batch, semKind, semGlobal, pending, orphaned, wake, running, Elsewhere>>

AcquireKind(k) ==
  /\ loop[k] = "kind" /\ semKind[k] < Concurrency[k]
  /\ semKind' = [semKind EXCEPT ![k] = @ + 1]
  /\ Goto(k, "global")
  /\ UNCHANGED <<slots, batch, semGlobal, pending, orphaned, wake, running, Elsewhere>>

AcquireGlobal(k) ==
  /\ loop[k] = "global" /\ semGlobal < MaxConcurrency
  /\ semGlobal' = semGlobal + 1
  /\ slots' = [slots EXCEPT ![k] = 1]
  /\ Goto(k, "more")
  /\ UNCHANGED <<batch, semKind, pending, orphaned, wake, running, Elsewhere>>

\* Mutant: the wait for a global slot ignores ctx.
AcquireEndsKind(k) ==
  /\ loop[k] = "kind" /\ stopping
  /\ Goto(k, "ended")
  /\ UNCHANGED <<slots, batch, semKind, semGlobal, pending, orphaned, wake, running, Elsewhere>>

\* An acquire that ctx interrupts; a kind slot already taken goes back.
AcquireEnds(k) ==
  /\ loop[k] \in {"kind", "global"} /\ stopping
  /\ semKind' = IF loop[k] = "global" THEN [semKind EXCEPT ![k] = @ - 1] ELSE semKind
  /\ Goto(k, "ended")
  /\ UNCHANGED <<slots, batch, semGlobal, pending, orphaned, wake, running, Elsewhere>>

Least(m, n) == IF m < n THEN m ELSE n

\* slots < maxBatch && semKind.tryAcquire()
TryKind(k) ==
  /\ loop[k] = "more"
  /\ IF slots[k] < Least(FetchBatchSize, Concurrency[k]) /\ semKind[k] < Concurrency[k]
     THEN semKind' = [semKind EXCEPT ![k] = @ + 1] /\ Goto(k, "moreGlobal")
     ELSE UNCHANGED semKind /\ Goto(k, "dequeue")
  /\ UNCHANGED <<slots, batch, semGlobal, pending, orphaned, wake, running, Elsewhere>>

\* Mutant: the kind slot is kept when there is no global one.
TryGlobalLeaks(k) ==
  /\ loop[k] = "moreGlobal"
  /\ IF semGlobal < MaxConcurrency
     THEN /\ semGlobal' = semGlobal + 1
          /\ slots' = [slots EXCEPT ![k] = @ + 1]
          /\ Goto(k, "more")
     ELSE Goto(k, "dequeue") /\ UNCHANGED <<semGlobal, slots>>
  /\ UNCHANGED <<batch, semKind, pending, orphaned, wake, running, Elsewhere>>

TryGlobal(k) ==
  /\ loop[k] = "moreGlobal"
  /\ IF semGlobal < MaxConcurrency
     THEN /\ semGlobal' = semGlobal + 1
          /\ slots' = [slots EXCEPT ![k] = @ + 1]
          /\ Goto(k, "more")
          /\ UNCHANGED semKind
     ELSE /\ semKind' = [semKind EXCEPT ![k] = @ - 1]
          /\ Goto(k, "dequeue")
          /\ UNCHANGED <<semGlobal, slots>>
  /\ UNCHANGED <<batch, pending, orphaned, wake, running, Elsewhere>>

DequeueBatch(k) ==
  /\ loop[k] = "dequeue"
  /\ LET n == Least(slots[k], pending[k]) IN
     /\ batch' = [batch EXCEPT ![k] = n]
     /\ pending' = [pending EXCEPT ![k] = @ - n]
  /\ Goto(k, "dispatch")
  /\ UNCHANGED <<slots, semKind, semGlobal, orphaned, wake, running, Elsewhere>>

\* The call fails: the connection is lost, or ctx ends while the statement runs.
\* The statement is its own transaction and may have committed.
DequeueFails(k) ==
  /\ loop[k] = "dequeue"
  /\ "dequeue" \in trouble \/ stopping
  /\ \E n \in {0, Least(slots[k], pending[k])} :
       /\ pending' = [pending EXCEPT ![k] = @ - n]
       /\ orphaned' = [orphaned EXCEPT ![k] = @ + n]
  /\ batch' = [batch EXCEPT ![k] = 0]
  /\ Goto(k, "dispatch")
  /\ UNCHANGED <<slots, semKind, semGlobal, wake, running, Elsewhere>>

\* Unused capacity is released, every job gets an executor goroutine.
Dispatch(k) ==
  /\ loop[k] = "dispatch"
  /\ semKind' = [semKind EXCEPT ![k] = @ - (slots[k] - batch[k])]
  /\ semGlobal' = semGlobal - (slots[k] - batch[k])
  /\ running' = [running EXCEPT ![k] = @ + batch[k]]
  /\ slots' = [slots EXCEPT ![k] = 0] /\ batch' = [batch EXCEPT ![k] = 0]
  /\ Goto(k, IF batch[k] > 0 THEN "head" ELSE "idle")
  /\ UNCHANGED <<pending, orphaned, wake, Elsewhere>>

\* The idle select: ctx.Done(), the wake channel, the poll timer.
IdleEnds(k) ==
  /\ loop[k] = "idle" /\ stopping
  /\ Goto(k, "ended")
  /\ UNCHANGED <<slots, batch, semKind, semGlobal, pending, orphaned, wake, running, Elsewhere>>

Woken(k) ==
  /\ loop[k] = "idle" /\ wake[k]
  /\ wake' = [wake EXCEPT ![k] = FALSE]
  /\ Goto(k, "head")
  /\ UNCHANGED <<slots, batch, semKind, semGlobal, pending, orphaned, running, Elsewhere>>

\* Mutant: no poll fallback.
PollWhenWoken(k) ==
  /\ loop[k] = "idle" /\ wake[k]
  /\ Goto(k, "head")
  /\ UNCHANGED <<slots, batch, semKind, semGlobal, pending, orphaned, wake, running, Elsewhere>>

Poll(k) ==
  /\ loop[k] = "idle"
  /\ Goto(k, "head")
  /\ UNCHANGED <<slots, batch, semKind, semGlobal, pending, orphaned, wake, running, Elsewhere>>

LoopStep(k) ==
  \/ Head(k) \/ AcquireKind(k) \/ AcquireGlobal(k) \/ AcquireEnds(k) \/ TryKind(k)
  \/ TryGlobal(k) \/ DequeueBatch(k) \/ DequeueFails(k) \/ Dispatch(k)
  \/ IdleEnds(k) \/ Woken(k) \/ Poll(k)

-----------------------------------------------------------------------------
(* Executors, jobs and notifications.                                      *)

\* execute returns: its deferred release gives both slots back.
Execute(k) ==
  /\ running[k] > 0
  /\ running' = [running EXCEPT ![k] = @ - 1]
  /\ semKind' = [semKind EXCEPT ![k] = @ - 1]
  /\ semGlobal' = semGlobal - 1
  /\ UNCHANGED <<start, gates, stopping, maintenance, loop, slots, batch, backlog, waking>>

Subscribed == \E c \in Callers : start[c] = "running"

\* A job becomes pending, with a notification after the commit unless it is a
\* scheduled job that PromoteDue moved or the notification is lost.
Arrive(k) ==
  /\ unborn[k] > 0
  /\ unborn' = [unborn EXCEPT ![k] = @ - 1]
  /\ pending' = [pending EXCEPT ![k] = @ + 1]
  /\ \/ notified' = [notified EXCEPT ![k] = Subscribed]
     \/ trouble \cap {"wake", "silent"} # {} /\ UNCHANGED notified
  /\ UNCHANGED <<start, gates, stopping, maintenance, fetching, running, orphaned, wake>>

\* A lease that nobody renews expires; some instance's reaper takes it back.
ReapExpired(k) ==
  /\ orphaned[k] > 0
  /\ orphaned' = [orphaned EXCEPT ![k] = @ - 1]
  /\ pending' = [pending EXCEPT ![k] = @ + 1]
  /\ UNCHANGED <<start, gates, stopping, maintenance, fetching, running, unborn, waking>>

\* Mutant: a channel without a buffer.
ForwardUnbuffered(k) ==
  /\ notified[k]
  /\ notified' = [notified EXCEPT ![k] = FALSE]
  /\ wake' = [wake EXCEPT ![k] = loop[k] = "idle"]
  /\ UNCHANGED <<start, gates, stopping, maintenance, fetching, running, backlog>>

\* The goroutine that Start spawns over the Wake channel: a send that does not
\* block, into a buffer of one.
ForwardWake(k) ==
  /\ notified[k]
  /\ notified' = [notified EXCEPT ![k] = FALSE]
  /\ wake' = [wake EXCEPT ![k] = TRUE]
  /\ UNCHANGED <<start, gates, stopping, maintenance, fetching, running, backlog>>

Step ==
  \/ \E c \in Callers :
       \/ Start(c) \/ SetupDone(c) \/ SetupFails(c) \/ FailedReturn(c)
       \/ Drain(c) \/ Drained(c) \/ DrainTimeout(c) \/ Abandon(c)
  \/ Stop \/ MaintenanceEnds
  \/ \E k \in Kinds : LoopStep(k) \/ Execute(k) \/ Arrive(k) \/ ReapExpired(k) \/ ForwardWake(k)

Calm(A) == A /\ UNCHANGED trouble

Next == Calm(Step)

Spec == Init /\ [][Next]_vars

-----------------------------------------------------------------------------
(* Safety.                                                                 *)

\* What a fetch loop holds of each semaphore at its present step.
HeldKind(k) ==
  CASE loop[k] = "global" -> 1
    [] loop[k] = "moreGlobal" -> slots[k] + 1
    [] OTHER -> slots[k]

\* What a kind has taken of its own semaphore is with its executors and its loop.
KindSlots ==
  \A k \in Kinds : /\ semKind[k] = running[k] + HeldKind(k)
                   /\ semKind[k] <= Concurrency[k]
                   /\ batch[k] <= slots[k]

\* No slot leaks and none is freed twice, on any path through acquire, the
\* opportunistic grabs, a failed fetch, shutdown and a retried Start: each
\* semaphore counts exactly the executors and what the loops hold, within the
\* kind's and the engine's limit, and "a leased job always has an executor slot".
SlotsAccounted ==
  /\ KindSlots
  /\ semGlobal = Total(running) + Total(slots)
  /\ semGlobal <= MaxConcurrency

\* One Start call gets past the compare-and-swap at a time, also when calls that
\* failed in setup are repeated, and loops run for it alone.
OneStart ==
  /\ \A b, c \in Callers :
       {start[b], start[c]} \cap {"idle", "failing", "failed"} = {} => b = c
  /\ (\E k \in Kinds : loop[k] # "off") => started

\* Once Start waits for the executors no executor is started any more, so that
\* inflight.Wait() cannot miss one: when Start has returned without giving up,
\* nothing runs and no loop holds a leased job.
NothingAfterDrain ==
  \A c \in Callers :
    /\ start[c] \in {"draining", "grace", "stopped", "abandoned"} =>
         \A k \in Kinds : slots[k] = 0 /\ batch[k] = 0
    /\ start[c] = "stopped" => \A k \in Kinds : running[k] = 0

\* While notifications are sent and arrive and fetches succeed, an idle loop never
\* sleeps on a pending job: the buffer keeps a wake that comes between the empty
\* fetch and the select.
NoLostWake ==
  trouble \subseteq {"setup"} => \A k \in Kinds :
    loop[k] = "idle" /\ pending[k] > 0 /\ ~stopping => notified[k] \/ wake[k]

-----------------------------------------------------------------------------
(* Liveness.  Goroutines run, timers fire.  A goroutine blocked on a full  *)
(* channel is served in turn.  A backend does not fail for ever.           *)

\* Handlers may hang, so nothing is assumed of the semaphores.
LiveSpec ==
  /\ Spec /\ WF_vars(Calm(MaintenanceEnds))
  /\ \A k \in Kinds : WF_vars(Calm(LoopStep(k)))
  /\ \A c \in Callers :
       /\ WF_vars(Calm(SetupDone(c) \/ SetupFails(c))) /\ WF_vars(Calm(FailedReturn(c)))
       /\ WF_vars(Calm(Drain(c)))
       /\ WF_vars(Calm(Drained(c) \/ DrainTimeout(c))) /\ WF_vars(Calm(Drained(c) \/ Abandon(c)))

\* Handlers return, leases of nobody expire.
Served ==
  \A k \in Kinds :
    /\ SF_vars(Calm(AcquireKind(k))) /\ SF_vars(Calm(AcquireGlobal(k)))
    /\ SF_vars(Calm(pending[k] > 0 /\ DequeueBatch(k)))
    /\ WF_vars(Calm(Execute(k))) /\ WF_vars(Calm(ReapExpired(k)))

\* After ctx has ended Start returns, whatever the handlers do and wherever the
\* loops were: the drain budget and the grace period bound its waits.
StartReturns ==
  \A c \in Callers : stopping /\ start[c] \in {"setup", "failing", "running", "draining", "grace"}
    ~> start[c] \in {"failed", "stopped", "abandoned"}

\* Every pending job of a served kind is fetched, also when its notification is
\* lost, other kinds compete for the global slots and fetches fail.
JobsFetched ==
  Served => \A k \in Kinds : loop[k] \notin {"off", "ended"} /\ pending[k] + orphaned[k] > 0
    ~> pending[k] + orphaned[k] = 0 \/ stopping
=============================================================================
