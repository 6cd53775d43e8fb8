------------------------------- MODULE JobStore -------------------------------
(***************************************************************************)
(* The life of a row of azync_jobs: the statements of the PostgreSQL       *)
(* driver (store_jobs.go, store_maintenance.go, store_admin.go) and the    *)
(* executor goroutines that call them (internal/engine/executor.go).       *)
(* Every driver call is one statement or one short transaction on the rows *)
(* it locks, so every call is one step here; what interleaves is the calls *)
(* of executors, of the maintenance loops of every instance and of         *)
(* operators, and the passing of time.                                     *)
(*                                                                         *)
(* Timestamps are kept relative to the backend's now(): run_at,            *)
(* lease_until and deadline_at hold the time still to go, and Tick lowers  *)
(* them.  A timestamp in the past is kept at the least value that the code *)
(* can tell apart: 0 for `run_at <= now()` and `now() >= deadline_at`, -1  *)
(* for `lease_until < now()`.  So the model has no clock to bound.         *)
(***************************************************************************)
EXTENDS Integers, FiniteSets

CONSTANTS
  Jobs,          \* row slots of azync_jobs; a deleted row's slot is free again
  Workers,       \* executor goroutines, of any number of processes
  Tokens,        \* lease tokens (gen_random_uuid)
  NULL,          \* SQL NULL for ids and tokens
  LeaseTTL,      \* Settings.LeaseTTL
  MaxReaps,      \* Settings.MaxReaps
  MaxDelay,      \* the longest delay of an enqueue, a retry or a snooze
  AttemptBudgets,\* retry budgets that producers ask for
  KindBudget,    \* per worker: its kind's budget, 0 when MaxAttemptsSet is false
  SnoozeBudgets, \* snooze budgets that rows are created with, -1 for none
  Outcomes,      \* what handlers do, a subset of HandlerOutcomes
  Verbs          \* which operator verbs are used, a subset of AdminVerbs

HandlerOutcomes == {"ack", "retry", "abort", "snooze", "skip", "release", "lost"}

AdminVerbs == {"retry", "runNow", "archive", "pause", "resume", "delete", "vacuum"}

ASSUME LeaseAssumption == LeaseTTL \in Nat \ {0} /\ MaxReaps \in Nat \ {0}

ASSUME BudgetAssumption ==
  /\ MaxDelay \in Nat \ {0}
  /\ AttemptBudgets \subseteq Nat \ {0}
  /\ KindBudget \in [Workers -> Nat]
  /\ SnoozeBudgets \subseteq (Nat \ {0}) \cup {-1}

ASSUME NullAssumption == NULL \notin Jobs \cup Tokens

ASSUME ChoiceAssumption == Outcomes \subseteq HandlerOutcomes /\ Verbs \subseteq AdminVerbs

VARIABLES
  jobs,  \* the table: one record per slot
  exec   \* what each executor holds: the driver.Job it was handed, or Idle

vars == <<jobs, exec>>

States == {"absent", "pending", "scheduled", "active", "paused",
           "succeeded", "dead", "skipped"}

Waiting == {"pending", "scheduled", "paused"}

\* recorded is the number of azync_job_attempts rows written for the job since
\* it was inserted or last revived by RetryJob.
Row == [state : States, run_at : Nat, lease_until : Int,
        lease_token : Tokens \cup {NULL}, attempt : Nat, max_attempts : Nat,
        max_attempts_explicit : BOOLEAN, reap_count : Nat,
        snooze_budget : Int, deadline_at : Int, recorded : Nat]

Absent == [state |-> "absent", run_at |-> 0, lease_until |-> -1,
           lease_token |-> NULL, attempt |-> 0, max_attempts |-> 0,
           max_attempts_explicit |-> FALSE, reap_count |-> 0,
           snooze_budget |-> -1, deadline_at |-> -1, recorded |-> 0]

Execution == [id : Jobs \cup {NULL}, lease_token : Tokens \cup {NULL},
              attempt : Nat, max_attempts : Nat, renewing : BOOLEAN]

Idle == [id |-> NULL, lease_token |-> NULL, attempt |-> 0, max_attempts |-> 0,
         renewing |-> FALSE]

Busy(w) == exec[w].id # NULL

\* The fence of every settlement: WHERE id = $1 AND state = 'active' AND
\* lease_token = $2.
Owns(w, j) ==
  /\ exec[w].id = j
  /\ jobs[j].state = "active"
  /\ jobs[j].lease_token = exec[w].lease_token

\* gen_random_uuid: a token that no row and no executor knows.
Fresh(t) ==
  /\ \A j \in Jobs : jobs[j].lease_token # t
  /\ \A w \in Workers : exec[w].lease_token # t

TypeOK ==
  /\ jobs \in [Jobs -> Row]
  /\ exec \in [Workers -> Execution]

Init ==
  /\ jobs = [j \in Jobs |-> Absent]
  /\ exec = [w \in Workers |-> Idle]

-----------------------------------------------------------------------------
(* Producer and fetch.                                                     *)

\* A row becomes scheduled when its run_at is in the future, pending otherwise.
Inserted(delay, max, explicit, budget) ==
  [Absent EXCEPT !.state = IF delay > 0 THEN "scheduled" ELSE "pending",
                 !.run_at = delay, !.max_attempts = max,
                 !.max_attempts_explicit = explicit, !.snooze_budget = budget]

Enqueue(j) ==
  /\ jobs[j].state = "absent"
  /\ \E delay \in 0..MaxDelay, max \in AttemptBudgets, explicit \in BOOLEAN,
        budget \in SnoozeBudgets :
       jobs' = [jobs EXCEPT ![j] = Inserted(delay, max, explicit, budget)]
  /\ UNCHANGED exec

\* The retry budget is resolved by the first lease and pinned from then on.
ResolvedBudget(w, row) ==
  IF row.max_attempts_explicit \/ KindBudget[w] = 0 THEN row.max_attempts ELSE KindBudget[w]

Leased(row, t, max) ==
  [row EXCEPT !.state = "active", !.lease_until = LeaseTTL, !.lease_token = t,
              !.max_attempts = max, !.max_attempts_explicit = TRUE,
              !.attempt = @ + 1]

DequeueBatch(w, j) ==
  /\ ~Busy(w)
  /\ jobs[j].state = "pending"
  /\ jobs[j].run_at = 0
  /\ \E t \in Tokens :
       /\ Fresh(t)
       /\ LET max == ResolvedBudget(w, jobs[j]) IN
          /\ jobs' = [jobs EXCEPT ![j] = Leased(@, t, max)]
          /\ exec' = [exec EXCEPT ![w] = [id |-> j, lease_token |-> t,
                                          attempt |-> jobs[j].attempt + 1,
                                          max_attempts |-> max,
                                          renewing |-> TRUE]]

-----------------------------------------------------------------------------
(* Settlement, fenced by the lease token.                                  *)

Unleased(row, state) ==
  [row EXCEPT !.state = state, !.lease_until = -1, !.lease_token = NULL]

HandBack(row) == IF row.attempt > 0 THEN row.attempt - 1 ELSE 0

Succeeded(row) == Unleased(row, "succeeded")

Skipped(row) == Unleased(row, "skipped")

Died(row) == [Unleased(row, "dead") EXCEPT !.recorded = @ + 1]

Rescheduled(row, delay) ==
  [Unleased(row, "scheduled") EXCEPT !.run_at = delay, !.recorded = @ + 1]

\* Mutant: a release keeps the charge.
ReleasedCharged(row) == [Unleased(row, "pending") EXCEPT !.run_at = 0]

Released(row) ==
  [Unleased(row, "pending") EXCEPT !.run_at = 0, !.attempt = HandBack(row)]

\* Mutant: the deadline is stamped and never enforced.
SnoozedNoDeadline(row, delay) ==
  [Unleased(row, "scheduled") EXCEPT
     !.run_at = delay,
     !.attempt = HandBack(row),
     !.deadline_at = IF @ = -1 THEN row.snooze_budget ELSE @]

\* The first snooze of a budgeted row stamps its deadline; one past the stamped
\* deadline dead-letters the row.
Snoozed(row, delay) ==
  IF row.deadline_at = 0
  THEN Died(row)
  ELSE [Unleased(row, "scheduled") EXCEPT
          !.run_at = delay,
          !.attempt = HandBack(row),
          !.deadline_at = IF @ = -1 THEN row.snooze_budget ELSE @]

\* A settlement lands when the executor still owns the row and is a no-op
\* (a not-found error, logged) when it does not; the executor is done either way.
Settle(w, row) ==
  /\ LET j == exec[w].id IN
     jobs' = IF Owns(w, j) THEN [jobs EXCEPT ![j] = row] ELSE jobs
  /\ exec' = [exec EXCEPT ![w] = Idle]

Ack(w) ==
  /\ Busy(w) /\ "ack" \in Outcomes
  /\ Settle(w, Succeeded(jobs[exec[w].id]))

\* Mutant: one attempt too many.
ExhaustedLate(w) == exec[w].attempt > exec[w].max_attempts

\* settleFailure, case by case: a snooze first, then skip, abort, exhaustion
\* and retry.  Exhaustion is judged on the executor's own copy of the row.
Exhausted(w) == exec[w].attempt >= exec[w].max_attempts

Snooze(w) ==
  /\ Busy(w) /\ "snooze" \in Outcomes
  /\ \E delay \in 0..MaxDelay : Settle(w, Snoozed(jobs[exec[w].id], delay))

Skip(w) ==
  /\ Busy(w) /\ "skip" \in Outcomes
  /\ Settle(w, Skipped(jobs[exec[w].id]))

Dead(w) ==
  /\ Busy(w)
  /\ \/ "abort" \in Outcomes
     \/ "retry" \in Outcomes /\ Exhausted(w)
  /\ Settle(w, Died(jobs[exec[w].id]))

\* The delay of a retry is positive: the classified one, or Backoff's.
Reschedule(w) ==
  /\ Busy(w) /\ "retry" \in Outcomes
  /\ ~Exhausted(w)
  /\ \E delay \in 1..MaxDelay : Settle(w, Rescheduled(jobs[exec[w].id], delay))

\* The workflow worker returns a task it will not run, on drain for instance.
Release(w) ==
  /\ Busy(w) /\ "release" \in Outcomes
  /\ Settle(w, Released(jobs[exec[w].id]))

\* The settlement never reaches the backend: the process died, or the call failed.
Lost(w) ==
  /\ Busy(w) /\ "lost" \in Outcomes
  /\ exec' = [exec EXCEPT ![w] = Idle]
  /\ UNCHANGED jobs

\* Mutant: the renewal does not end with the handler's context.
ExtendLeaseForever(w) ==
  /\ Busy(w) /\ Owns(w, exec[w].id)
  /\ jobs' = [jobs EXCEPT ![exec[w].id].lease_until = LeaseTTL]
  /\ UNCHANGED exec

\* renewLease, every LeaseTTL/2; the goroutine ends when the call fails, which
\* it does when the lease is gone.
ExtendLease(w) ==
  /\ exec[w].renewing
  /\ LET j == exec[w].id IN
     IF Owns(w, j)
     THEN /\ jobs' = [jobs EXCEPT ![j].lease_until = LeaseTTL]
          /\ UNCHANGED exec
     ELSE /\ exec' = [exec EXCEPT ![w].renewing = FALSE]
          /\ UNCHANGED jobs

\* The kind's timeout, or a failed ExtendLease, cancels the handler's context
\* and with it the renewal; a handler that ignores its context runs on.
StopRenewing(w) ==
  /\ exec[w].renewing
  /\ exec' = [exec EXCEPT ![w].renewing = FALSE]
  /\ UNCHANGED jobs

-----------------------------------------------------------------------------
(* Maintenance, run by every instance.                                     *)

PromoteDue(j) ==
  /\ jobs[j].state = "scheduled"
  /\ jobs[j].run_at = 0
  /\ jobs' = [jobs EXCEPT ![j].state = "pending"]
  /\ UNCHANGED exec

\* Mutant: one reap too many.
ReapedLate(row) ==
  LET counted == [row EXCEPT !.reap_count = @ + 1] IN
  IF row.reap_count + 1 > MaxReaps THEN Died(counted) ELSE Unleased(counted, "pending")

Reaped(row) ==
  LET counted == [row EXCEPT !.reap_count = @ + 1] IN
  IF row.reap_count + 1 >= MaxReaps THEN Died(counted) ELSE Unleased(counted, "pending")

\* Mutant: leases are taken back before they expire.
ReapUnexpired(j) ==
  /\ jobs[j].state = "active"
  /\ jobs' = [jobs EXCEPT ![j] = Reaped(@)]
  /\ UNCHANGED exec

ReapExpired(j) ==
  /\ jobs[j].state = "active"
  /\ jobs[j].lease_until < 0
  /\ jobs' = [jobs EXCEPT ![j] = Reaped(@)]
  /\ UNCHANGED exec

\* VacuumCompleted and VacuumDead; how old a row must be is left open.
Vacuum(j) ==
  /\ "vacuum" \in Verbs
  /\ jobs[j].state \in {"succeeded", "dead"}
  /\ jobs' = [jobs EXCEPT ![j] = Absent]
  /\ UNCHANGED exec

Down(n, least) == IF n > least THEN n - 1 ELSE n

Aged(row) ==
  [row EXCEPT !.run_at = Down(@, 0), !.lease_until = Down(@, -1),
              !.deadline_at = Down(@, 0)]

Tick ==
  /\ jobs' = [j \in Jobs |-> Aged(jobs[j])]
  /\ UNCHANGED exec

-----------------------------------------------------------------------------
(* Operator verbs.                                                         *)

Revived(row) ==
  [row EXCEPT !.state = "pending", !.run_at = 0, !.attempt = 0, !.reap_count = 0,
              !.deadline_at = -1, !.recorded = 0]

RetryJob(j) ==
  /\ "retry" \in Verbs
  /\ jobs[j].state = "dead"
  /\ jobs' = [jobs EXCEPT ![j] = Revived(@)]
  /\ UNCHANGED exec

RunNow(j) ==
  /\ "runNow" \in Verbs
  /\ jobs[j].state = "scheduled"
  /\ jobs' = [jobs EXCEPT ![j].state = "pending", ![j].run_at = 0]
  /\ UNCHANGED exec

ArchiveJob(j) ==
  /\ "archive" \in Verbs
  /\ jobs[j].state \in {"pending", "scheduled"}
  /\ jobs' = [jobs EXCEPT ![j].state = "dead", ![j].lease_until = -1]
  /\ UNCHANGED exec

\* Mutant: an active job can be paused.
PauseActive(j) ==
  /\ "pause" \in Verbs
  /\ jobs[j].state \in {"pending", "scheduled", "active"}
  /\ jobs' = [jobs EXCEPT ![j].state = "paused"]
  /\ UNCHANGED exec

PauseJob(j) ==
  /\ "pause" \in Verbs
  /\ jobs[j].state \in {"pending", "scheduled"}
  /\ jobs' = [jobs EXCEPT ![j].state = "paused"]
  /\ UNCHANGED exec

ResumeJob(j) ==
  /\ "resume" \in Verbs
  /\ jobs[j].state = "paused"
  /\ jobs' = [jobs EXCEPT ![j].state = IF jobs[j].run_at = 0 THEN "pending" ELSE "scheduled"]
  /\ UNCHANGED exec

\* DeleteJob names the state it expects, any state; NukeAll takes every row.
DeleteJob(j) ==
  /\ "delete" \in Verbs
  /\ jobs[j].state # "absent"
  /\ jobs' = [jobs EXCEPT ![j] = Absent]
  /\ UNCHANGED exec

-----------------------------------------------------------------------------
ExecutorStep(w) ==
  \/ Ack(w) \/ Snooze(w) \/ Skip(w) \/ Dead(w) \/ Reschedule(w) \/ Release(w)
  \/ Lost(w) \/ ExtendLease(w) \/ StopRenewing(w)
  \/ \E j \in Jobs : DequeueBatch(w, j)

StoreStep(j) ==
  \/ Enqueue(j) \/ PromoteDue(j) \/ ReapExpired(j) \/ Vacuum(j)
  \/ RetryJob(j) \/ RunNow(j) \/ ArchiveJob(j) \/ PauseJob(j) \/ ResumeJob(j)
  \/ DeleteJob(j)

Next ==
  \/ \E w \in Workers : ExecutorStep(w)
  \/ \E j \in Jobs : StoreStep(j)
  \/ Tick

Spec == Init /\ [][Next]_vars
-----------------------------------------------------------------------------
(* Safety.                                                                 *)

\* A lease token stands on a row exactly while the row is active, and never on
\* two rows: every way out of 'active' clears it and every lease mints a new one.
LeaseDiscipline ==
  /\ \A j \in Jobs : jobs[j].state = "active" <=> jobs[j].lease_token # NULL
  /\ \A i, j \in Jobs :
       i # j /\ jobs[i].lease_token # NULL => jobs[i].lease_token # jobs[j].lease_token

\* A row has at most one executor that may settle it, and that executor's copy
\* of the row, taken when it was leased, still agrees with the row on what
\* settleFailure decides by: the attempt and the retry budget.
OwnerCopyCurrent ==
  \A j \in Jobs, w \in Workers : Owns(w, j) =>
    /\ exec[w].attempt = jobs[j].attempt
    /\ exec[w].max_attempts = jobs[j].max_attempts
    /\ \A v \in Workers : Owns(v, j) => v = w

\* The attempt counter is exact: it is the failures on record plus the leases
\* the reaper took back, plus one for the lease in progress.  Snooze and Release
\* hand back what their lease charged, and the floor at zero never hides a
\* missing charge.
AttemptAccounting ==
  \A j \in Jobs :
    /\ jobs[j].state \in Waiting => jobs[j].attempt = jobs[j].recorded + jobs[j].reap_count
    /\ jobs[j].state = "active" => jobs[j].attempt = jobs[j].recorded + jobs[j].reap_count + 1

\* The retry budget bounds the runs a job is charged for.  A run that ends in a
\* reaped lease is charged to attempt and escapes the check of settleFailure, so
\* the bound is the retry budget plus the reaps, and the reaps stay below MaxReaps
\* while the job lives.
RunsBounded ==
  \A j \in Jobs : jobs[j].state \in Waiting \cup {"active"} =>
    /\ jobs[j].attempt <= jobs[j].max_attempts + jobs[j].reap_count
    /\ jobs[j].reap_count < MaxReaps

\* A pending row is due.  DequeueBatch asks for run_at <= now() and only
\* PromoteDue looks at the clock for scheduled rows, so a pending row with a
\* run_at ahead would wait for nobody.
PendingIsDue == \A j \in Jobs : jobs[j].state = "pending" => jobs[j].run_at = 0

\* The bookkeeping that the properties above rest on.  Within a row: a lease
\* pins the budget and finds the row due, an unpinned row has no failure on
\* record, and a live row has failed fewer times than its budget allows.
RowConsistent(row) ==
  /\ row.state = "active" <=> row.lease_token # NULL
  /\ row.state \in {"pending", "active"} => row.run_at = 0
  /\ row.state = "active" => row.max_attempts_explicit
  /\ ~row.max_attempts_explicit => row.recorded = 0
  /\ IF row.state = "absent" THEN ~row.max_attempts_explicit ELSE row.max_attempts > 0
  /\ row.state \in Waiting => row.attempt = row.recorded + row.reap_count
  /\ row.state = "active" => row.attempt = row.recorded + row.reap_count + 1
  /\ row.state \in Waiting \cup {"active"} =>
       row.recorded < row.max_attempts /\ row.reap_count < MaxReaps

\* Rows are consistent; a token is on one row and with one executor at most; and
\* an executor whose token is on a row has that row and its current counters.
Consistent ==
  /\ \A j \in Jobs : RowConsistent(jobs[j])
  /\ \A i, j \in Jobs :
       jobs[i].lease_token = jobs[j].lease_token /\ jobs[i].lease_token # NULL => i = j
  /\ \A v, w \in Workers :
       exec[v].lease_token = exec[w].lease_token /\ exec[v].lease_token # NULL => v = w
  /\ \A w \in Workers : exec[w].id = NULL <=> exec[w].lease_token = NULL
  /\ \A w \in Workers : exec[w].renewing => exec[w].id # NULL
  /\ \A w \in Workers, j \in Jobs :
       exec[w].lease_token = jobs[j].lease_token /\ jobs[j].lease_token # NULL =>
         /\ exec[w].id = j
         /\ exec[w].attempt = jobs[j].attempt
         /\ exec[w].max_attempts = jobs[j].max_attempts

-----------------------------------------------------------------------------
(* What a step may never do.                                               *)

\* A lease ends by a call of the executor that holds its token, by the reaper
\* once it has expired, or with the row.  An executor whose lease was taken over
\* cannot end the new one, however late its call arrives.
LeaseEndsByOwner ==
  [][\A j \in Jobs :
       jobs[j].state = "active" /\ jobs'[j].lease_token # jobs[j].lease_token =>
         \/ \E w \in Workers : Owns(w, j) /\ exec'[w] = Idle
         \/ jobs[j].lease_until < 0
         \/ jobs'[j] = Absent]_vars

\* Workers with other defaults cannot move a budget that was set explicitly or
\* resolved by an earlier lease.
BudgetPinned ==
  [][\A j \in Jobs :
       jobs[j].max_attempts_explicit /\ jobs'[j].state # "absent" =>
         /\ jobs'[j].max_attempts = jobs[j].max_attempts
         /\ jobs'[j].max_attempts_explicit]_vars

-----------------------------------------------------------------------------
(* Liveness.  Time passes; the maintenance loop of some instance runs; a   *)
(* kind has a timeout, which ends the renewal even when the handler hangs. *)

LeaseFairness ==
  /\ WF_vars(Tick)
  /\ \A j \in Jobs : WF_vars(ReapExpired(j))
  /\ \A w \in Workers : WF_vars(StopRenewing(w))

\* Handlers return, and fetch loops reach every pending row: it is ordered by
\* run_at, so a row cannot be overtaken for ever.
Returns(w) ==
  Ack(w) \/ Snooze(w) \/ Skip(w) \/ Dead(w) \/ Reschedule(w) \/ Release(w) \/ Lost(w)

HandlerFairness ==
  /\ \A j \in Jobs : WF_vars(PromoteDue(j)) /\ SF_vars(\E w \in Workers : DequeueBatch(w, j))
  /\ \A w \in Workers : WF_vars(Returns(w))

LeaseSpec == Spec /\ LeaseFairness

\* No lease lasts for ever, even if no handler ever returns.
LeaseEnds ==
  \A j \in Jobs, t \in Tokens : jobs[j].lease_token = t ~> jobs[j].lease_token # t

\* From some time on, no operator pauses a job and no handler releases one.
Undisturbed ==
  <>[][\A j \in Jobs, w \in Workers : ~PauseJob(j) /\ ~Release(w)]_vars

\* A job with a snooze budget comes to an end, is deleted or stays paused, whatever
\* its handlers do when they return and however often workers crash: failures use
\* up max_attempts, crashes use up MaxReaps and snoozes run into the deadline.
JobsEnd ==
  HandlerFairness /\ Undisturbed =>
    \A j \in Jobs :
      jobs[j].snooze_budget # -1 ~>
        jobs[j].state \in {"succeeded", "dead", "skipped", "paused", "absent"}

-----------------------------------------------------------------------------
(* The promise of the table, as an abstract specification.                 *)

Phase(state) ==
  CASE state = "absent" -> "none"
    [] state \in Waiting -> "waiting"
    [] state = "active" -> "running"
    [] state \in {"succeeded", "skipped"} -> "done"
    [] state = "dead" -> "failed"

LifeOf(row) ==
  [phase |-> Phase(row.state), holder |-> row.lease_token, spent |-> row.attempt,
   limit |-> row.max_attempts + MaxReaps - 1, pinned |-> row.max_attempts_explicit]

life == [j \in Jobs |-> LifeOf(jobs[j])]

Lifecycle == INSTANCE JobLifecycle WITH Jobs <- Jobs, Tokens <- Tokens, NULL <- NULL, life <- life

\* Every behaviour of the table is one of JobLifecycle.
ImplementsLifecycle == Lifecycle!Spec
=============================================================================
