------------------------------ MODULE FakeStore ------------------------------
(***************************************************************************)
(* The in-memory job store of internal/drivertest/fake.go, which the       *)
(* runtimes are tested against.  Every method runs under one mutex; what   *)
(* one does to a job is a function from the row it finds to the row it     *)
(* leaves, the same row when it returns a not-found error.  A zero time is *)
(* -1, uuid.Nil is NULL, as in JobStore.                                   *)
(***************************************************************************)
EXTENDS JobStore

\* enqueueLocked, behind its deduplication.
FakeEnqueue(row, delay, max, explicit, budget) ==
  IF row.state # "absent" THEN row
  ELSE [row EXCEPT !.state = IF delay > 0 THEN "scheduled" ELSE "pending",
                   !.run_at = delay, !.max_attempts = max,
                   !.max_attempts_explicit = explicit, !.snooze_budget = budget]

\* DequeueBatch, with OverrideDefault when the kind has a budget.
FakeDequeue(row, default, token) ==
  IF row.state # "pending" \/ row.run_at > 0 THEN row
  ELSE [row EXCEPT !.attempt = @ + 1,
                   !.max_attempts = IF ~row.max_attempts_explicit /\ default # 0
                                    THEN default ELSE @,
                   !.max_attempts_explicit = TRUE,
                   !.state = "active", !.lease_token = token, !.lease_until = LeaseTTL]

\* settle: the token owns an active row.
settle(row, token) == row.state = "active" /\ row.lease_token = token

Cleared(row, state) == [row EXCEPT !.state = state, !.lease_token = NULL, !.lease_until = -1]

\* recordAttempt
Noted(row) == [row EXCEPT !.recorded = @ + 1]

FakeAck(row, token) == IF settle(row, token) THEN Cleared(row, "succeeded") ELSE row

FakeReschedule(row, token, delay) ==
  IF settle(row, token) THEN Noted([Cleared(row, "scheduled") EXCEPT !.run_at = delay]) ELSE row

FakeDead(row, token) == IF settle(row, token) THEN Noted(Cleared(row, "dead")) ELSE row

FakeSkip(row, token) == IF settle(row, token) THEN Cleared(row, "skipped") ELSE row

\* max(j.Attempt-1, 0)
OneLess(n) == IF n - 1 > 0 THEN n - 1 ELSE 0

FakeRelease(row, token) ==
  IF settle(row, token)
  THEN [Cleared(row, "pending") EXCEPT !.attempt = OneLess(@), !.run_at = 0]
  ELSE row

\* Mutant: every snooze of a budgeted job stamps the deadline.
FakeSnoozeStamps(row, token, delay) ==
  IF ~settle(row, token) THEN row
  ELSE IF row.deadline_at = 0 THEN Noted(Cleared(row, "dead"))
  ELSE [Cleared(row, "scheduled") EXCEPT
          !.deadline_at = IF row.snooze_budget > 0 THEN row.snooze_budget ELSE @,
          !.run_at = delay, !.attempt = OneLess(@)]

FakeSnooze(row, token, delay) ==
  IF ~settle(row, token) THEN row
  ELSE IF row.deadline_at = 0 THEN Noted(Cleared(row, "dead"))
  ELSE [Cleared(row, "scheduled") EXCEPT
          !.deadline_at = IF @ = -1 /\ row.snooze_budget > 0 THEN row.snooze_budget ELSE @,
          !.run_at = delay, !.attempt = OneLess(@)]

FakeExtendLease(row, token) ==
  IF settle(row, token) THEN [row EXCEPT !.lease_until = LeaseTTL] ELSE row

FakePromote(row) ==
  IF row.state = "scheduled" /\ row.run_at <= 0 THEN [row EXCEPT !.state = "pending"] ELSE row

FakeReap(row) ==
  IF row.state # "active" \/ row.lease_until >= 0 THEN row
  ELSE LET counted == [row EXCEPT !.reap_count = @ + 1] IN
       IF counted.reap_count >= MaxReaps
       THEN Noted(Cleared(counted, "dead")) ELSE Cleared(counted, "pending")

\* VacuumCompleted and VacuumDead.
FakeVacuum(row) == IF row.state \in {"succeeded", "dead"} THEN Absent ELSE row

\* RetryJob, with resetToPending.  The attempts stay, and count no more.
FakeRetry(row) ==
  IF row.state # "dead" THEN row
  ELSE [row EXCEPT !.state = "pending", !.run_at = 0, !.attempt = 0, !.reap_count = 0,
                   !.deadline_at = -1, !.recorded = 0]

FakeArchive(row) ==
  IF row.state \notin {"pending", "scheduled"} THEN row
  ELSE [row EXCEPT !.state = "dead", !.lease_until = -1]

FakePause(row) ==
  IF row.state \notin {"pending", "scheduled"} THEN row ELSE [row EXCEPT !.state = "paused"]

FakeResume(row) ==
  IF row.state # "paused" THEN row
  ELSE [row EXCEPT !.state = IF row.run_at > 0 THEN "scheduled" ELSE "pending"]

FakeRunNow(row) ==
  IF row.state # "scheduled" THEN row ELSE [row EXCEPT !.state = "pending", !.run_at = 0]

\* DeleteJob, DeleteAll and NukeAll.
FakeDelete(row, state) == IF row.state = state THEN Absent ELSE row

-----------------------------------------------------------------------------

\* The fake and the PostgreSQL driver do the same to a row: every call, made in any
\* state the system reaches and with a current or a stale lease, leaves the same
\* row in both, and the sweeps and verbs find the same rows to act on.
FakeStoreAgrees ==
  [][/\ \A w \in Workers :
          LET e == exec[w]
              Gives(row) == Busy(w) => jobs'[e.id] = row IN
          /\ Ack(w) => Gives(FakeAck(jobs[e.id], e.lease_token))
          /\ Skip(w) => Gives(FakeSkip(jobs[e.id], e.lease_token))
          /\ Dead(w) => Gives(FakeDead(jobs[e.id], e.lease_token))
          /\ Release(w) => Gives(FakeRelease(jobs[e.id], e.lease_token))
          /\ ExtendLease(w) => Gives(FakeExtendLease(jobs[e.id], e.lease_token))
          /\ Reschedule(w) => \E d \in 1..MaxDelay :
                                 Gives(FakeReschedule(jobs[e.id], e.lease_token, d))
          /\ Snooze(w) => \E d \in 0..MaxDelay : Gives(FakeSnooze(jobs[e.id], e.lease_token, d))
     /\ \A w \in Workers, j \in Jobs :
          DequeueBatch(w, j) => \E t \in Tokens :
             /\ jobs'[j] = FakeDequeue(jobs[j], KindBudget[w], t)
             /\ exec'[w].attempt = jobs'[j].attempt
             /\ exec'[w].max_attempts = jobs'[j].max_attempts
     /\ \A j \in Jobs :
          /\ Enqueue(j) => \E d \in 0..MaxDelay, m \in AttemptBudgets, x \in BOOLEAN,
                              b \in SnoozeBudgets : jobs'[j] = FakeEnqueue(jobs[j], d, m, x, b)
          /\ PromoteDue(j) => jobs'[j] = FakePromote(jobs[j])
          /\ ReapExpired(j) => jobs'[j] = FakeReap(jobs[j])
          /\ Vacuum(j) => jobs'[j] = FakeVacuum(jobs[j])
          /\ RetryJob(j) => jobs'[j] = FakeRetry(jobs[j])
          /\ RunNow(j) => jobs'[j] = FakeRunNow(jobs[j])
          /\ ArchiveJob(j) => jobs'[j] = FakeArchive(jobs[j])
          /\ PauseJob(j) => jobs'[j] = FakePause(jobs[j])
          /\ ResumeJob(j) => jobs'[j] = FakeResume(jobs[j])
          /\ DeleteJob(j) => jobs'[j] = FakeDelete(jobs[j], jobs[j].state)
     /\ \A j \in Jobs :
          /\ ENABLED PromoteDue(j) <=> FakePromote(jobs[j]) # jobs[j]
          /\ ENABLED ReapExpired(j) <=> FakeReap(jobs[j]) # jobs[j]
          /\ "vacuum" \in Verbs => (ENABLED Vacuum(j) <=> FakeVacuum(jobs[j]) # jobs[j])
          /\ "retry" \in Verbs => (ENABLED RetryJob(j) <=> FakeRetry(jobs[j]) # jobs[j])
          /\ "runNow" \in Verbs => (ENABLED RunNow(j) <=> FakeRunNow(jobs[j]) # jobs[j])
          /\ "archive" \in Verbs => (ENABLED ArchiveJob(j) <=> FakeArchive(jobs[j]) # jobs[j])
          /\ "pause" \in Verbs => (ENABLED PauseJob(j) <=> FakePause(jobs[j]) # jobs[j])
          /\ "resume" \in Verbs => (ENABLED ResumeJob(j) <=> FakeResume(jobs[j]) # jobs[j])
     ]_vars
=============================================================================
