---------------------------- MODULE JobStoreProofs ----------------------------
(***************************************************************************)
(* JobStore, proved for any number of rows, executors and tokens, and any  *)
(* lease length, delays and budgets.                                       *)
(*                                                                         *)
(* The inductive invariant is TypeOK and Consistent.  Most steps change    *)
(* one row, so the proof has three parts: the row each operation writes is *)
(* consistent (the Row lemmas); a step that takes the lease off one row,   *)
(* or leaves leases and counters alone, preserves what relates rows to     *)
(* executors (the Step lemmas); and every action is such a step.           *)
(***************************************************************************)
EXTENDS JobStore, TLAPS

Inv == TypeOK /\ Consistent

\* Rows as the invariant wants them.
GoodRow(row) == row \in Row /\ RowConsistent(row)

-----------------------------------------------------------------------------
(* The rows that operations write.                                         *)

\* Updating a field of a row with a value of the field's type gives a row.
LEMMA FieldUpdates ==
  /\ \A row \in Row, s \in States : [row EXCEPT !.state = s] \in Row
  /\ \A row \in Row, n \in Nat : [row EXCEPT !.run_at = n] \in Row
  /\ \A row \in Row, n \in Int : [row EXCEPT !.lease_until = n] \in Row
  /\ \A row \in Row, t \in Tokens \cup {NULL} : [row EXCEPT !.lease_token = t] \in Row
  /\ \A row \in Row, n \in Nat : [row EXCEPT !.attempt = n] \in Row
  /\ \A row \in Row, n \in Nat : [row EXCEPT !.max_attempts = n] \in Row
  /\ \A row \in Row, b \in BOOLEAN : [row EXCEPT !.max_attempts_explicit = b] \in Row
  /\ \A row \in Row, n \in Nat : [row EXCEPT !.reap_count = n] \in Row
  /\ \A row \in Row, n \in Int : [row EXCEPT !.snooze_budget = n] \in Row
  /\ \A row \in Row, n \in Int : [row EXCEPT !.deadline_at = n] \in Row
  /\ \A row \in Row, n \in Nat : [row EXCEPT !.recorded = n] \in Row
<1>1. \A row \in Row, s \in States : [row EXCEPT !.state = s] \in Row
  BY DEF Row
<1>2. \A row \in Row, n \in Nat : [row EXCEPT !.run_at = n] \in Row
  BY DEF Row
<1>3. \A row \in Row, n \in Int : [row EXCEPT !.lease_until = n] \in Row
  BY DEF Row
<1>4. \A row \in Row, t \in Tokens \cup {NULL} : [row EXCEPT !.lease_token = t] \in Row
  BY DEF Row
<1>5. \A row \in Row, n \in Nat : [row EXCEPT !.attempt = n] \in Row
  BY DEF Row
<1>6. \A row \in Row, n \in Nat : [row EXCEPT !.max_attempts = n] \in Row
  BY DEF Row
<1>7. \A row \in Row, b \in BOOLEAN : [row EXCEPT !.max_attempts_explicit = b] \in Row
  BY DEF Row
<1>8. \A row \in Row, n \in Nat : [row EXCEPT !.reap_count = n] \in Row
  BY DEF Row
<1>9. \A row \in Row, n \in Int : [row EXCEPT !.snooze_budget = n] \in Row
  BY DEF Row
<1>10. \A row \in Row, n \in Int : [row EXCEPT !.deadline_at = n] \in Row
  BY DEF Row
<1>11. \A row \in Row, n \in Nat : [row EXCEPT !.recorded = n] \in Row
  BY DEF Row
<1> QED BY <1>1, <1>2, <1>3, <1>4, <1>5, <1>6, <1>7, <1>8, <1>9, <1>10, <1>11

\* What Unleased clears and what it keeps.
LEMMA UnleasedRow ==
  ASSUME NEW row \in Row, NEW s \in States
  PROVE  LET new == Unleased(row, s) IN
         /\ new \in Row
         /\ new.state = s /\ new.lease_token = NULL
         /\ new.run_at = row.run_at /\ new.attempt = row.attempt
         /\ new.max_attempts = row.max_attempts
         /\ new.max_attempts_explicit = row.max_attempts_explicit
         /\ new.reap_count = row.reap_count /\ new.recorded = row.recorded
         /\ new.deadline_at = row.deadline_at /\ new.snooze_budget = row.snooze_budget
<1> DEFINE new == Unleased(row, s)
<1>1. -1 \in Int /\ NULL \in Tokens \cup {NULL}
  OBVIOUS
<1>2. new \in Row
  BY FieldUpdates, <1>1, Zenon DEF Unleased
<1>3. new.state = s /\ new.lease_token = NULL
  BY DEF Unleased, Row
<1>4. /\ new.run_at = row.run_at /\ new.attempt = row.attempt
      /\ new.max_attempts = row.max_attempts
      /\ new.max_attempts_explicit = row.max_attempts_explicit
  BY DEF Unleased, Row
<1>5. /\ new.reap_count = row.reap_count /\ new.recorded = row.recorded
      /\ new.deadline_at = row.deadline_at /\ new.snooze_budget = row.snooze_budget
  BY DEF Unleased, Row
<1> QED BY <1>2, <1>3, <1>4, <1>5

\* Ack and Skip leave a good row without a lease.
LEMMA FinishedRow ==
  ASSUME NEW row, GoodRow(row), row.state = "active"
  PROVE  /\ GoodRow(Succeeded(row)) /\ Succeeded(row).lease_token = NULL
         /\ GoodRow(Skipped(row)) /\ Skipped(row).lease_token = NULL
<1>1. ASSUME NEW s \in {"succeeded", "skipped"}
      PROVE  GoodRow(Unleased(row, s)) /\ Unleased(row, s).lease_token = NULL
  BY UnleasedRow, NullAssumption DEF GoodRow, RowConsistent, States, Waiting
<1> QED BY <1>1 DEF Succeeded, Skipped

\* Dead leaves a good row without a lease, whatever the counters of a pinned row.
LEMMA DiedRow ==
  ASSUME NEW row \in Row, row.max_attempts_explicit, row.max_attempts > 0
  PROVE  GoodRow(Died(row)) /\ Died(row).lease_token = NULL
<1> DEFINE u == Unleased(row, "dead")
<1>1. /\ u \in Row /\ u.state = "dead" /\ u.lease_token = NULL
      /\ u.max_attempts_explicit /\ u.max_attempts > 0
  BY UnleasedRow DEF States
<1> HIDE DEF u
<1>2. Died(row) = [u EXCEPT !.recorded = u.recorded + 1]
  BY DEF Died, u
<1>3. Died(row) \in Row
  BY <1>1, <1>2 DEF Row
<1>4. RowConsistent(Died(row)) /\ Died(row).lease_token = NULL
  BY <1>1, <1>2 DEF RowConsistent, Row, Waiting
<1> QED BY <1>3, <1>4 DEF GoodRow

\* Reschedule: a failure is recorded only while the budget has room for it.
LEMMA RescheduledRow ==
  ASSUME NEW row, GoodRow(row), row.state = "active", row.attempt < row.max_attempts,
         NEW delay \in Nat
  PROVE  GoodRow(Rescheduled(row, delay)) /\ Rescheduled(row, delay).lease_token = NULL
<1> DEFINE u == Unleased(row, "scheduled")
           new == Rescheduled(row, delay)
<1>1. /\ u \in Row /\ u.state = "scheduled" /\ u.lease_token = NULL
      /\ u.max_attempts_explicit /\ u.max_attempts = row.max_attempts
      /\ u.attempt = row.attempt /\ u.reap_count = row.reap_count
      /\ u.recorded = row.recorded
  BY UnleasedRow DEF GoodRow, RowConsistent, States
<1> HIDE DEF u
<1>2. new = [[u EXCEPT !.run_at = delay] EXCEPT !.recorded = u.recorded + 1]
  BY <1>1 DEF Rescheduled, u, Row
<1> HIDE DEF new
<1>3. u.recorded + 1 \in Nat
  BY <1>1 DEF Row
<1>4. new \in Row
  BY FieldUpdates, <1>1, <1>2, <1>3, Zenon
<1>5. /\ new.state = "scheduled" /\ new.lease_token = NULL /\ new.max_attempts_explicit
      /\ new.max_attempts = row.max_attempts /\ new.attempt = row.attempt
      /\ new.reap_count = row.reap_count /\ new.recorded = row.recorded + 1
  BY <1>1, <1>2 DEF Row
<1>6. /\ row.attempt \in Nat /\ row.max_attempts \in Nat /\ row.recorded \in Nat
      /\ row.reap_count \in Nat
  BY DEF GoodRow, Row
<1>7. RowConsistent(new)
  BY <1>5, <1>6 DEF GoodRow, RowConsistent, Waiting
<1> QED BY <1>4, <1>5, <1>7 DEF GoodRow, new

\* HandBack undoes the charge of the lease exactly.
LEMMA HandedBack ==
  ASSUME NEW row, GoodRow(row), row.state = "active"
  PROVE  HandBack(row) \in Nat /\ HandBack(row) = row.recorded + row.reap_count
  BY DEF GoodRow, RowConsistent, Row, HandBack

\* Release gives back a pending row that was charged for nothing.
LEMMA ReleasedRow ==
  ASSUME NEW row, GoodRow(row), row.state = "active"
  PROVE  GoodRow(Released(row)) /\ Released(row).lease_token = NULL
<1> DEFINE u == Unleased(row, "pending")
           new == Released(row)
<1>1. /\ u \in Row /\ u.state = "pending" /\ u.lease_token = NULL
      /\ u.max_attempts_explicit /\ u.max_attempts = row.max_attempts
      /\ u.reap_count = row.reap_count /\ u.recorded = row.recorded
  BY UnleasedRow DEF GoodRow, RowConsistent, States
<1> HIDE DEF u
<1>2. new = [[u EXCEPT !.run_at = 0] EXCEPT !.attempt = HandBack(row)]
  BY DEF Released, u
<1> HIDE DEF new
<1>3. new \in Row
  BY FieldUpdates, HandedBack, 0 \in Nat, <1>1, <1>2, Zenon
<1>4. /\ new.state = "pending" /\ new.lease_token = NULL /\ new.max_attempts_explicit
      /\ new.max_attempts = row.max_attempts /\ new.attempt = HandBack(row)
      /\ new.reap_count = row.reap_count /\ new.recorded = row.recorded
      /\ new.run_at = 0
  BY <1>1, <1>2 DEF Row
<1>5. RowConsistent(new)
  BY <1>4, HandedBack DEF GoodRow, RowConsistent, Waiting
<1> QED BY <1>3, <1>4, <1>5 DEF GoodRow, new

\* Snooze parks the row free of charge, or dead-letters it at its deadline.
LEMMA SnoozedRow ==
  ASSUME NEW row, GoodRow(row), row.state = "active", NEW delay \in Nat
  PROVE  GoodRow(Snoozed(row, delay)) /\ Snoozed(row, delay).lease_token = NULL
<1>1. CASE row.deadline_at = 0
  BY <1>1, DiedRow DEF Snoozed, GoodRow, RowConsistent
<1>2. CASE row.deadline_at # 0
  <2> DEFINE u == Unleased(row, "scheduled")
             new == Snoozed(row, delay)
             deadline == IF u.deadline_at = -1 THEN row.snooze_budget ELSE u.deadline_at
  <2>1. /\ u \in Row /\ u.state = "scheduled" /\ u.lease_token = NULL
        /\ u.max_attempts_explicit /\ u.max_attempts = row.max_attempts
        /\ u.reap_count = row.reap_count /\ u.recorded = row.recorded
    BY UnleasedRow DEF GoodRow, RowConsistent, States
  <2>2. deadline \in Int
    BY UnleasedRow DEF GoodRow, Row, States
  <2> HIDE DEF u
  <2>3. new = [[[u EXCEPT !.run_at = delay] EXCEPT !.attempt = HandBack(row)]
                  EXCEPT !.deadline_at = deadline]
    BY <1>2, <2>1 DEF Snoozed, u, Row
  <2> HIDE DEF deadline, new
  <2>4. new \in Row
    BY FieldUpdates, HandedBack, <2>1, <2>2, <2>3, Zenon
  <2>5. /\ new.state = "scheduled" /\ new.lease_token = NULL /\ new.max_attempts_explicit
        /\ new.max_attempts = row.max_attempts /\ new.attempt = HandBack(row)
        /\ new.reap_count = row.reap_count /\ new.recorded = row.recorded
    BY <2>1, <2>3 DEF Row
  <2>6. RowConsistent(new)
    BY <2>5, HandedBack DEF GoodRow, RowConsistent, Waiting
  <2> QED BY <2>4, <2>5, <2>6 DEF GoodRow, new
<1> QED BY <1>1, <1>2

\* ReapExpired: one reap more, and the charge of the lost lease stays.
LEMMA ReapedRow ==
  ASSUME NEW row, GoodRow(row), row.state = "active"
  PROVE  GoodRow(Reaped(row)) /\ Reaped(row).lease_token = NULL
<1> DEFINE counted == [row EXCEPT !.reap_count = row.reap_count + 1]
<1>1. row \in Row /\ RowConsistent(row)
  BY DEF GoodRow
<1>2. /\ row.attempt \in Nat /\ row.max_attempts \in Nat /\ row.recorded \in Nat
      /\ row.reap_count \in Nat /\ MaxReaps \in Nat
  BY <1>1, LeaseAssumption DEF Row
<1>3. counted \in Row
  BY FieldUpdates, <1>1, <1>2, row.reap_count + 1 \in Nat
<1>4. /\ counted.max_attempts_explicit /\ counted.max_attempts = row.max_attempts
      /\ counted.max_attempts > 0 /\ counted.attempt = row.attempt
      /\ counted.recorded = row.recorded /\ counted.reap_count = row.reap_count + 1
      /\ counted.run_at = 0
  BY <1>1 DEF Row, RowConsistent
<1>5. Reaped(row) = IF row.reap_count + 1 >= MaxReaps
                    THEN Died(counted) ELSE Unleased(counted, "pending")
  BY DEF Reaped
<1> HIDE DEF counted
<1>6. CASE row.reap_count + 1 >= MaxReaps
  BY <1>3, <1>4, <1>5, <1>6, DiedRow
<1>7. CASE ~(row.reap_count + 1 >= MaxReaps)
  <2> DEFINE new == Unleased(counted, "pending")
  <2>1. /\ new \in Row /\ new.state = "pending" /\ new.lease_token = NULL
        /\ new.max_attempts_explicit /\ new.max_attempts = row.max_attempts
        /\ new.attempt = row.attempt /\ new.recorded = row.recorded
        /\ new.reap_count = row.reap_count + 1 /\ new.run_at = 0
    BY <1>3, <1>4, UnleasedRow DEF States
  <2> HIDE DEF new
  <2>2. RowConsistent(new)
    BY <1>1, <1>2, <1>7, <2>1 DEF RowConsistent, Waiting
  <2> QED BY <1>5, <1>7, <2>1, <2>2 DEF GoodRow, new
<1> QED BY <1>6, <1>7

\* DequeueBatch: the lease charges one attempt and pins a positive budget.  Only a
\* row that never failed can have its budget replaced.
LEMMA LeasedRow ==
  ASSUME NEW row, GoodRow(row), row.state = "pending", NEW t \in Tokens,
         NEW w \in Workers
  PROVE  LET max == ResolvedBudget(w, row)
             new == Leased(row, t, max)
         IN  /\ GoodRow(new) /\ max \in Nat
             /\ new.lease_token = t /\ new.attempt = row.attempt + 1
             /\ new.max_attempts = max
<1> DEFINE max == ResolvedBudget(w, row)
           new == Leased(row, t, max)
<1>1. row \in Row /\ RowConsistent(row)
  BY DEF GoodRow
<1>2. /\ row.attempt \in Nat /\ row.max_attempts \in Nat /\ row.recorded \in Nat
      /\ row.reap_count \in Nat /\ row.max_attempts_explicit \in BOOLEAN
      /\ KindBudget[w] \in Nat
  BY <1>1, BudgetAssumption DEF Row
<1>3. /\ max \in Nat /\ max > 0
      /\ row.max_attempts_explicit => max = row.max_attempts
      /\ row.recorded < max
  BY <1>1, <1>2 DEF ResolvedBudget, RowConsistent, Waiting
<1> HIDE DEF max
<1>4. /\ LeaseTTL \in Int /\ t \in Tokens \cup {NULL} /\ TRUE \in BOOLEAN
      /\ row.attempt + 1 \in Nat /\ "active" \in States
  BY <1>2, LeaseAssumption DEF States
<1>5. new \in Row
  BY FieldUpdates, <1>1, <1>3, <1>4, Zenon DEF Leased
<1>6. /\ new.state = "active" /\ new.lease_token = t /\ new.attempt = row.attempt + 1
      /\ new.max_attempts = max /\ new.max_attempts_explicit
      /\ new.recorded = row.recorded /\ new.reap_count = row.reap_count
      /\ new.run_at = row.run_at
  BY <1>1 DEF Leased, Row
<1> HIDE DEF new
<1>7. t # NULL
  BY NullAssumption
<1>8. RowConsistent(new)
  BY <1>1, <1>2, <1>3, <1>6, <1>7 DEF RowConsistent, Waiting
<1> QED BY <1>3, <1>5, <1>6, <1>8 DEF GoodRow, new, max

\* Tick: time changes nothing that the invariant reads, except that due rows
\* stay due.
LEMMA AgedRow ==
  ASSUME NEW row, GoodRow(row)
  PROVE  LET new == Aged(row) IN
         /\ GoodRow(new)
         /\ new.lease_token = row.lease_token /\ new.attempt = row.attempt
         /\ new.max_attempts = row.max_attempts
<1> DEFINE new == Aged(row)
<1>1. row \in Row /\ RowConsistent(row)
  BY DEF GoodRow
<1>2. /\ row.run_at \in Nat /\ row.lease_until \in Int /\ row.deadline_at \in Int
      /\ Down(row.run_at, 0) \in Nat /\ Down(row.lease_until, -1) \in Int
      /\ Down(row.deadline_at, 0) \in Int
      /\ row.run_at = 0 => Down(row.run_at, 0) = 0
  BY <1>1 DEF Row, Down
<1>3. new = [[[row EXCEPT !.run_at = Down(row.run_at, 0)]
                EXCEPT !.lease_until = Down(row.lease_until, -1)]
                EXCEPT !.deadline_at = Down(row.deadline_at, 0)]
  BY <1>1 DEF Aged, Row
<1> HIDE DEF new
<1>4. new \in Row
  BY FieldUpdates, <1>1, <1>2, <1>3, Zenon
<1>5. /\ new.state = row.state /\ new.lease_token = row.lease_token
      /\ new.attempt = row.attempt /\ new.max_attempts = row.max_attempts
      /\ new.max_attempts_explicit = row.max_attempts_explicit
      /\ new.recorded = row.recorded /\ new.reap_count = row.reap_count
      /\ row.run_at = 0 => new.run_at = 0
  BY <1>1, <1>2, <1>3 DEF Row
<1>6. RowConsistent(new)
  BY <1>1, <1>5 DEF RowConsistent
<1> QED BY <1>4, <1>5, <1>6 DEF GoodRow, new

\* RetryJob starts a dead row afresh, its budget kept.
LEMMA RevivedRow ==
  ASSUME NEW row, GoodRow(row), row.state = "dead"
  PROVE  GoodRow(Revived(row)) /\ Revived(row).lease_token = NULL
<1> DEFINE new == Revived(row)
<1>1. row \in Row /\ RowConsistent(row) /\ row.lease_token = NULL
  BY DEF GoodRow, RowConsistent
<1>2. 0 \in Nat /\ -1 \in Int /\ "pending" \in States
  BY DEF States
<1>3. new \in Row
  BY FieldUpdates, <1>1, <1>2, Zenon DEF Revived
<1>4. /\ new.state = "pending" /\ new.lease_token = NULL /\ new.run_at = 0
      /\ new.attempt = 0 /\ new.max_attempts = row.max_attempts
      /\ new.recorded = 0 /\ new.reap_count = 0
  BY <1>1 DEF Revived, Row
<1> HIDE DEF new
<1>5. RowConsistent(new)
  BY <1>1, <1>4, LeaseAssumption DEF RowConsistent, Waiting
<1> QED BY <1>3, <1>4, <1>5 DEF GoodRow, new

\* A free slot is a good row, and so is what Enqueue makes of it.
LEMMA AbsentRow == GoodRow(Absent) /\ Absent.lease_token = NULL
  BY DEF GoodRow, Absent, Row, RowConsistent, States, Waiting

LEMMA InsertedRow ==
  ASSUME NEW delay \in Nat, NEW max \in Nat, max > 0, NEW explicit \in BOOLEAN,
         NEW budget \in Int
  PROVE  LET new == Inserted(delay, max, explicit, budget) IN
         GoodRow(new) /\ new.lease_token = NULL
<1> DEFINE new == Inserted(delay, max, explicit, budget)
           state == IF delay > 0 THEN "scheduled" ELSE "pending"
<1>1. Absent \in Row
  BY AbsentRow DEF GoodRow
<1>2. state \in States
  BY DEF States
<1>3. new = [[[[[Absent EXCEPT !.state = state] EXCEPT !.run_at = delay]
                EXCEPT !.max_attempts = max] EXCEPT !.max_attempts_explicit = explicit]
                EXCEPT !.snooze_budget = budget]
  BY DEF Inserted
<1>4. new \in Row
  <2> HIDE DEF new, state
  <2> QED BY FieldUpdates, <1>1, <1>2, <1>3, Zenon
<1>5. /\ new.state = state /\ new.run_at = delay /\ new.lease_token = NULL
      /\ new.attempt = 0 /\ new.max_attempts = max /\ new.recorded = 0
      /\ new.reap_count = 0
  BY DEF Inserted, Absent
<1> HIDE DEF new
<1>6. RowConsistent(new)
  BY <1>5, LeaseAssumption DEF RowConsistent, Waiting
<1> QED BY <1>4, <1>5, <1>6 DEF GoodRow, new

\* PromoteDue, PauseJob, ResumeJob and ArchiveJob move a waiting row; run_at only
\* changes, to now, in RunNow.
LEMMA MovedRow ==
  ASSUME NEW row, GoodRow(row), row.state \in Waiting,
         NEW s \in Waiting \cup {"dead"}, s = "pending" => row.run_at = 0
  PROVE  LET new == [row EXCEPT !.state = s] IN
         GoodRow(new) /\ new.lease_token = NULL
<1> DEFINE new == [row EXCEPT !.state = s]
<1>1. row \in Row /\ RowConsistent(row) /\ row.lease_token = NULL
  BY DEF GoodRow, RowConsistent, Waiting
<1>2. s \in States
  BY DEF States, Waiting
<1>3. new \in Row
  BY FieldUpdates, <1>1, <1>2, Zenon
<1>4. /\ new.state = s /\ new.lease_token = NULL /\ new.run_at = row.run_at
      /\ new.attempt = row.attempt /\ new.max_attempts = row.max_attempts
      /\ new.max_attempts_explicit = row.max_attempts_explicit
      /\ new.recorded = row.recorded /\ new.reap_count = row.reap_count
  BY <1>1 DEF Row
<1> HIDE DEF new
<1>5. RowConsistent(new)
  BY <1>1, <1>4 DEF RowConsistent, Waiting
<1> QED BY <1>3, <1>4, <1>5 DEF GoodRow, new

\* Setting run_at to now, or clearing lease_until, of a row keeps it good.
LEMMA RetimedRow ==
  ASSUME NEW row, GoodRow(row)
  PROVE  /\ GoodRow([row EXCEPT !.run_at = 0])
         /\ [row EXCEPT !.run_at = 0].lease_token = row.lease_token
         /\ [row EXCEPT !.run_at = 0].state = row.state
         /\ [row EXCEPT !.run_at = 0].run_at = 0
         /\ \A n \in Int : /\ GoodRow([row EXCEPT !.lease_until = n])
                           /\ [row EXCEPT !.lease_until = n].lease_token = row.lease_token
                           /\ [row EXCEPT !.lease_until = n].attempt = row.attempt
                           /\ [row EXCEPT !.lease_until = n].max_attempts = row.max_attempts
<1>1. row \in Row /\ RowConsistent(row)
  BY DEF GoodRow
<1>2. [row EXCEPT !.run_at = 0] \in Row
  BY FieldUpdates, <1>1, 0 \in Nat
<1>3. /\ RowConsistent([row EXCEPT !.run_at = 0])
      /\ [row EXCEPT !.run_at = 0].lease_token = row.lease_token
      /\ [row EXCEPT !.run_at = 0].state = row.state
      /\ [row EXCEPT !.run_at = 0].run_at = 0
  BY <1>1 DEF RowConsistent, Row
<1>4. ASSUME NEW n \in Int
      PROVE  /\ [row EXCEPT !.lease_until = n] \in Row
             /\ RowConsistent([row EXCEPT !.lease_until = n])
             /\ [row EXCEPT !.lease_until = n].lease_token = row.lease_token
             /\ [row EXCEPT !.lease_until = n].attempt = row.attempt
             /\ [row EXCEPT !.lease_until = n].max_attempts = row.max_attempts
  BY <1>1 DEF RowConsistent, Row
<1> QED BY <1>2, <1>3, <1>4 DEF GoodRow

-----------------------------------------------------------------------------
(* Steps.                                                                  *)

LEMMA IdleExecution == Idle \in Execution
  BY DEF Idle, Execution

\* Freeing an executor preserves the invariant, whatever it held.
LEMMA IdleStep ==
  ASSUME Inv, NEW w \in Workers, exec' = [exec EXCEPT ![w] = Idle], UNCHANGED jobs
  PROVE  Inv'
<1>1. TypeOK'
  BY IdleExecution DEF Inv, TypeOK
<1>2. \A v \in Workers : exec'[v] = IF v = w THEN Idle ELSE exec[v]
  BY DEF Inv, TypeOK
<1>3. Idle.id = NULL /\ Idle.lease_token = NULL /\ Idle.renewing = FALSE
  BY DEF Idle
<1>4. Consistent'
  BY <1>2, <1>3 DEF Inv, Consistent
<1> QED BY <1>1, <1>4 DEF Inv

\* Writing a good row that has no lease preserves the invariant: its token, if it
\* had one, was on no other row.
LEMMA UnleaseStep ==
  ASSUME Inv, NEW j \in Jobs, NEW row, GoodRow(row), row.lease_token = NULL,
         jobs' = [jobs EXCEPT ![j] = row], UNCHANGED exec
  PROVE  Inv'
<1>1. TypeOK'
  BY DEF Inv, TypeOK, GoodRow
<1>2. \A i \in Jobs : jobs'[i] = IF i = j THEN row ELSE jobs[i]
  BY DEF Inv, TypeOK
<1>3. Consistent'
  BY <1>2 DEF Inv, Consistent, GoodRow
<1> QED BY <1>1, <1>3 DEF Inv

\* So does writing good rows that keep their tokens and counters.
LEMMA KeepStep ==
  ASSUME Inv, NEW new, new \in [Jobs -> Row], jobs' = new, UNCHANGED exec,
         \A i \in Jobs : /\ GoodRow(new[i])
                         /\ new[i].lease_token = jobs[i].lease_token
                         /\ new[i].attempt = jobs[i].attempt
                         /\ new[i].max_attempts = jobs[i].max_attempts
  PROVE  Inv'
<1>1. TypeOK'
  BY DEF Inv, TypeOK
<1>2. Consistent'
  BY DEF Inv, Consistent, GoodRow
<1> QED BY <1>1, <1>2 DEF Inv

\* The rows of a state that satisfies the invariant.
LEMMA InvRows == ASSUME Inv, NEW j \in Jobs PROVE GoodRow(jobs[j])
  BY DEF Inv, TypeOK, Consistent, GoodRow

\* A settlement preserves the invariant if the row it would write is good.
LEMMA SettleStep ==
  ASSUME Inv, NEW w \in Workers, Busy(w), NEW row, Settle(w, row),
         Owns(w, exec[w].id) => GoodRow(row) /\ row.lease_token = NULL
  PROVE  Inv'
<1> DEFINE j == exec[w].id
<1>1. j \in Jobs
  BY DEF Inv, TypeOK, Execution, Busy
<1>2. CASE ~Owns(w, j)
  BY <1>2, IdleStep, Zenon DEF Settle
<1>3. CASE Owns(w, j)
  <2>1. jobs' = [jobs EXCEPT ![j] = row] /\ exec' = [exec EXCEPT ![w] = Idle]
    BY <1>3 DEF Settle
  <2>2. GoodRow(row) /\ row.lease_token = NULL
    BY <1>3
  <2> HIDE DEF j
  <2>3. TypeOK'
    BY <1>1, <2>1, <2>2, IdleExecution DEF Inv, TypeOK, GoodRow
  <2>4. \A i \in Jobs : jobs'[i] = IF i = j THEN row ELSE jobs[i]
    BY <2>1 DEF Inv, TypeOK
  <2>5. \A v \in Workers : exec'[v] = IF v = w THEN Idle ELSE exec[v]
    BY <2>1 DEF Inv, TypeOK
  <2>6. Idle.id = NULL /\ Idle.lease_token = NULL /\ Idle.renewing = FALSE
    BY DEF Idle
  <2>7. Consistent'
    BY <2>2, <2>4, <2>5, <2>6 DEF Inv, Consistent, GoodRow
  <2> QED BY <2>3, <2>7 DEF Inv
<1> QED BY <1>2, <1>3

\* DequeueBatch puts one fresh token on one row and with one executor.
LEMMA LeaseStep ==
  ASSUME Inv, NEW w \in Workers, NEW j \in Jobs, DequeueBatch(w, j)
  PROVE  Inv'
<1>1. PICK t \in Tokens :
        /\ Fresh(t)
        /\ jobs' = [jobs EXCEPT ![j] = Leased(jobs[j], t, ResolvedBudget(w, jobs[j]))]
        /\ exec' = [exec EXCEPT ![w] = [id |-> j, lease_token |-> t,
                                        attempt |-> jobs[j].attempt + 1,
                                        max_attempts |-> ResolvedBudget(w, jobs[j]),
                                        renewing |-> TRUE]]
  BY Zenon DEF DequeueBatch, Inv, TypeOK
<1> DEFINE max == ResolvedBudget(w, jobs[j])
           row == Leased(jobs[j], t, max)
           copy == [id |-> j, lease_token |-> t, attempt |-> jobs[j].attempt + 1,
                    max_attempts |-> max, renewing |-> TRUE]
<1>2. /\ GoodRow(row) /\ max \in Nat /\ row.lease_token = t
      /\ row.attempt = jobs[j].attempt + 1 /\ row.max_attempts = max
  BY InvRows, LeasedRow DEF DequeueBatch
<1>3. jobs[j].attempt + 1 \in Nat
  BY DEF Inv, TypeOK, Row
<1>4. copy \in Execution
  BY <1>2, <1>3 DEF Execution
<1>5. /\ copy.id = j /\ copy.lease_token = t /\ copy.attempt = row.attempt
      /\ copy.max_attempts = row.max_attempts /\ copy.renewing
  BY <1>2
<1>6. jobs' = [jobs EXCEPT ![j] = row] /\ exec' = [exec EXCEPT ![w] = copy]
  BY <1>1
<1>7. t # NULL /\ j # NULL
  BY NullAssumption
<1> HIDE DEF max, row, copy
<1>8. TypeOK'
  BY <1>2, <1>4, <1>6 DEF Inv, TypeOK, GoodRow
<1>9. \A i \in Jobs : jobs'[i] = IF i = j THEN row ELSE jobs[i]
  BY <1>6 DEF Inv, TypeOK
<1>10. \A v \in Workers : exec'[v] = IF v = w THEN copy ELSE exec[v]
  BY <1>6 DEF Inv, TypeOK
<1>11. Consistent'
  BY <1>1, <1>2, <1>5, <1>7, <1>9, <1>10 DEF Inv, Consistent, GoodRow, Fresh
<1> QED BY <1>8, <1>11 DEF Inv

\* Ending the renewal changes nothing the invariant relates to rows.
LEMMA RenewalStep ==
  ASSUME Inv, NEW w \in Workers, exec[w].renewing,
         exec' = [exec EXCEPT ![w].renewing = FALSE], UNCHANGED jobs
  PROVE  Inv'
<1> DEFINE copy == [exec[w] EXCEPT !.renewing = FALSE]
<1>1. exec[w] \in Execution
  BY DEF Inv, TypeOK
<1>2. /\ copy \in Execution /\ copy.id = exec[w].id
      /\ copy.lease_token = exec[w].lease_token /\ copy.attempt = exec[w].attempt
      /\ copy.max_attempts = exec[w].max_attempts /\ copy.renewing = FALSE
  BY <1>1, Zenon DEF Execution
<1>3. exec' = [exec EXCEPT ![w] = copy]
  BY DEF Inv, TypeOK
<1> HIDE DEF copy
<1>4. TypeOK'
  BY <1>2, <1>3, Zenon DEF Inv, TypeOK
<1>5. \A v \in Workers : exec'[v] = IF v = w THEN copy ELSE exec[v]
  BY <1>3, Zenon DEF Inv, TypeOK
<1>6. Consistent'
  BY <1>2, <1>5 DEF Inv, Consistent
<1> QED BY <1>4, <1>6 DEF Inv

\* An executor that owns a row settles an active row whose counters it knows.
LEMMA OwnedRow ==
  ASSUME Inv, NEW w \in Workers, Busy(w), Owns(w, exec[w].id)
  PROVE  LET row == jobs[exec[w].id] IN
         /\ GoodRow(row) /\ row.state = "active"
         /\ row.attempt = exec[w].attempt /\ row.max_attempts = exec[w].max_attempts
<1>1. exec[w].id \in Jobs
  BY DEF Inv, TypeOK, Execution, Busy
<1>2. GoodRow(jobs[exec[w].id])
  BY <1>1, InvRows
<1> QED BY <1>1, <1>2 DEF Inv, Consistent, Owns, GoodRow, RowConsistent

\* What executors do preserves the invariant.
LEMMA ExecutorPreserves ==
  ASSUME Inv, NEW w \in Workers, ExecutorStep(w)
  PROVE  Inv'
<1> DEFINE row == jobs[exec[w].id]
<1>1. CASE Ack(w)
  BY <1>1, SettleStep, OwnedRow, FinishedRow DEF Ack
<1>2. CASE Snooze(w)
  <2>1. PICK delay \in 0..MaxDelay : Settle(w, Snoozed(row, delay))
    BY <1>2 DEF Snooze
  <2>2. delay \in Nat
    BY BudgetAssumption
  <2> QED BY <1>2, <2>1, <2>2, SettleStep, OwnedRow, SnoozedRow DEF Snooze
<1>3. CASE Skip(w)
  BY <1>3, SettleStep, OwnedRow, FinishedRow DEF Skip
<1>4. CASE Dead(w)
  <2>1. Owns(w, exec[w].id) => GoodRow(Died(row)) /\ Died(row).lease_token = NULL
    BY <1>4, OwnedRow, DiedRow, Zenon DEF Dead, GoodRow, RowConsistent
  <2> QED BY <1>4, <2>1, SettleStep DEF Dead
<1>5. CASE Reschedule(w)
  <2>1. PICK delay \in 1..MaxDelay : Settle(w, Rescheduled(row, delay))
    BY <1>5 DEF Reschedule
  <2>2. delay \in Nat
    BY BudgetAssumption
  <2>3. Owns(w, exec[w].id) => row.attempt < row.max_attempts
    <3> SUFFICES ASSUME Owns(w, exec[w].id) PROVE row.attempt < row.max_attempts
      OBVIOUS
    <3>1. Busy(w) /\ ~(exec[w].attempt >= exec[w].max_attempts)
      BY <1>5 DEF Reschedule, Exhausted
    <3>2. GoodRow(row) /\ row.attempt = exec[w].attempt /\ row.max_attempts = exec[w].max_attempts
      BY <3>1, OwnedRow
    <3>3. row.attempt \in Nat /\ row.max_attempts \in Nat
      BY <3>2 DEF GoodRow, Row
    <3> HIDE DEF row
    <3> QED BY <3>1, <3>2, <3>3
  <2> QED BY <1>5, <2>1, <2>2, <2>3, SettleStep, OwnedRow, RescheduledRow DEF Reschedule
<1>6. CASE Release(w)
  BY <1>6, SettleStep, OwnedRow, ReleasedRow DEF Release
<1>7. CASE Lost(w)
  BY <1>7, IdleStep, Zenon DEF Lost
<1>8. CASE ExtendLease(w)
  <2> DEFINE j == exec[w].id
  <2>1. CASE ~Owns(w, j)
    BY <1>8, <2>1, RenewalStep DEF ExtendLease
  <2>2. CASE Owns(w, j)
    <3>1. j \in Jobs /\ GoodRow(jobs[j])
      BY <1>8, InvRows DEF ExtendLease, Inv, TypeOK, Consistent, Execution
    <3>2. LeaseTTL \in Int
      BY LeaseAssumption
    <3> DEFINE renewed == [jobs[j] EXCEPT !.lease_until = LeaseTTL]
               new == [jobs EXCEPT ![j] = renewed]
    <3>3. /\ GoodRow(renewed) /\ renewed.lease_token = jobs[j].lease_token
          /\ renewed.attempt = jobs[j].attempt
          /\ renewed.max_attempts = jobs[j].max_attempts
      BY <3>1, <3>2, RetimedRow, Zenon
    <3>4. jobs' = new /\ UNCHANGED exec
      BY <1>8, <2>2, <3>1 DEF ExtendLease, Inv, TypeOK
    <3> HIDE DEF renewed, j
    <3>5. /\ new \in [Jobs -> Row]
          /\ \A i \in Jobs : new[i] = IF i = j THEN renewed ELSE jobs[i]
      BY <3>1, <3>3 DEF Inv, TypeOK, GoodRow
    <3> HIDE DEF new
    <3>6. \A i \in Jobs : /\ GoodRow(new[i])
                          /\ new[i].lease_token = jobs[i].lease_token
                          /\ new[i].attempt = jobs[i].attempt
                          /\ new[i].max_attempts = jobs[i].max_attempts
      BY <3>3, <3>5, InvRows
    <3> QED BY <3>4, <3>5, <3>6, KeepStep
  <2> QED BY <2>1, <2>2
<1>9. CASE StopRenewing(w)
  BY <1>9, RenewalStep, Zenon DEF StopRenewing
<1>10. CASE \E j \in Jobs : DequeueBatch(w, j)
  BY <1>10, LeaseStep
<1> QED BY <1>1, <1>2, <1>3, <1>4, <1>5, <1>6, <1>7, <1>8, <1>9, <1>10 DEF ExecutorStep

\* What the maintenance loops, producers and operators do preserves it.
LEMMA StorePreserves ==
  ASSUME Inv, NEW j \in Jobs, StoreStep(j)
  PROVE  Inv'
<1> DEFINE row == jobs[j]
<1>1. GoodRow(row) /\ row \in Row
  BY InvRows DEF GoodRow
<1>2. CASE Enqueue(j)
  <2>1. PICK delay \in 0..MaxDelay, max \in AttemptBudgets, explicit \in BOOLEAN,
             budget \in SnoozeBudgets :
          jobs' = [jobs EXCEPT ![j] = Inserted(delay, max, explicit, budget)]
    BY <1>2, Zenon DEF Enqueue
  <2>2. delay \in Nat /\ max \in Nat /\ max > 0 /\ budget \in Int
    BY BudgetAssumption
  <2> QED BY <1>2, <2>1, <2>2, InsertedRow, UnleaseStep, Zenon DEF Enqueue
<1>3. CASE PromoteDue(j)
  <2>1. jobs' = [jobs EXCEPT ![j] = [row EXCEPT !.state = "pending"]] /\ UNCHANGED exec
    BY <1>3 DEF PromoteDue, Inv, TypeOK
  <2> QED BY <1>1, <1>3, <2>1, MovedRow, UnleaseStep, Zenon DEF PromoteDue, Waiting
<1>4. CASE ReapExpired(j)
  BY <1>1, <1>4, ReapedRow, UnleaseStep, Zenon DEF ReapExpired
<1>5. CASE Vacuum(j)
  BY <1>5, AbsentRow, UnleaseStep, Zenon DEF Vacuum
<1>6. CASE RetryJob(j)
  BY <1>1, <1>6, RevivedRow, UnleaseStep, Zenon DEF RetryJob
<1>7. CASE RunNow(j)
  <2> DEFINE due == [row EXCEPT !.run_at = 0]
             new == [due EXCEPT !.state = "pending"]
  <2>1. jobs' = [jobs EXCEPT ![j] = new] /\ UNCHANGED exec
    BY <1>1, <1>7, Zenon DEF RunNow, Inv, TypeOK, Row
  <2>2. GoodRow(due) /\ due.state = "scheduled" /\ due.run_at = 0
    BY <1>1, <1>7, RetimedRow DEF RunNow
  <2> HIDE DEF due
  <2>3. GoodRow(new) /\ new.lease_token = NULL
    BY <2>2, MovedRow, Zenon DEF Waiting
  <2> QED BY <2>1, <2>3, UnleaseStep, Zenon
<1>8. CASE ArchiveJob(j)
  <2> DEFINE dead == [row EXCEPT !.state = "dead"]
             new == [dead EXCEPT !.lease_until = -1]
  <2>1. jobs' = [jobs EXCEPT ![j] = new] /\ UNCHANGED exec
    BY <1>1, <1>8, Zenon DEF ArchiveJob, Inv, TypeOK, Row
  <2>2. GoodRow(dead) /\ dead.lease_token = NULL
    BY <1>1, <1>8, MovedRow, Zenon DEF ArchiveJob, Waiting
  <2> HIDE DEF dead
  <2>3. GoodRow(new) /\ new.lease_token = NULL
    BY <2>2, RetimedRow, -1 \in Int, Zenon
  <2> QED BY <2>1, <2>3, UnleaseStep, Zenon
<1>9. CASE PauseJob(j)
  <2>1. jobs' = [jobs EXCEPT ![j] = [row EXCEPT !.state = "paused"]] /\ UNCHANGED exec
    BY <1>9 DEF PauseJob, Inv, TypeOK
  <2> QED BY <1>1, <1>9, <2>1, MovedRow, UnleaseStep, Zenon DEF PauseJob, Waiting
<1>10. CASE ResumeJob(j)
  <2> DEFINE s == IF row.run_at = 0 THEN "pending" ELSE "scheduled"
  <2>1. jobs' = [jobs EXCEPT ![j] = [row EXCEPT !.state = s]] /\ UNCHANGED exec
    BY <1>10 DEF ResumeJob, Inv, TypeOK
  <2>2. s \in Waiting /\ (s = "pending" => row.run_at = 0)
    BY DEF Waiting
  <2>3. row.state \in Waiting
    BY <1>10 DEF ResumeJob, Waiting
  <2> HIDE DEF s
  <2>4. LET new == [row EXCEPT !.state = s] IN GoodRow(new) /\ new.lease_token = NULL
    BY <1>1, <2>2, <2>3, MovedRow
  <2> QED BY <2>1, <2>4, UnleaseStep, Zenon
<1>11. CASE DeleteJob(j)
  BY <1>11, AbsentRow, UnleaseStep, Zenon DEF DeleteJob
<1> QED BY <1>2, <1>3, <1>4, <1>5, <1>6, <1>7, <1>8, <1>9, <1>10, <1>11 DEF StoreStep

\* So does time.
LEMMA TickPreserves == ASSUME Inv, Tick PROVE Inv'
<1> DEFINE new == [j \in Jobs |-> Aged(jobs[j])]
<1>1. \A j \in Jobs : /\ GoodRow(Aged(jobs[j]))
                      /\ Aged(jobs[j]).lease_token = jobs[j].lease_token
                      /\ Aged(jobs[j]).attempt = jobs[j].attempt
                      /\ Aged(jobs[j]).max_attempts = jobs[j].max_attempts
  BY InvRows, AgedRow
<1>2. new \in [Jobs -> Row]
  BY <1>1 DEF GoodRow
<1>3. \A j \in Jobs : new[j] = Aged(jobs[j])
  OBVIOUS
<1>4. jobs' = new /\ UNCHANGED exec
  BY DEF Tick
<1> HIDE DEF new
<1> QED BY <1>1, <1>2, <1>3, <1>4, KeepStep

\* The invariant holds at the start and is kept by every step.
THEOREM Invariance == Spec => []Inv
<1>1. Init => Inv
  <2> SUFFICES ASSUME Init PROVE Inv
    OBVIOUS
  <2>1. TypeOK
    BY AbsentRow, IdleExecution DEF Init, TypeOK, GoodRow
  <2>2. \A j \in Jobs : RowConsistent(jobs[j]) /\ jobs[j].lease_token = NULL
    BY AbsentRow DEF Init, GoodRow
  <2>3. \A w \in Workers :
          exec[w].id = NULL /\ exec[w].lease_token = NULL /\ exec[w].renewing = FALSE
    BY DEF Init, Idle
  <2> QED BY <2>1, <2>2, <2>3 DEF Inv, Consistent
<1>2. Inv /\ [Next]_vars => Inv'
  <2> SUFFICES ASSUME Inv, [Next]_vars PROVE Inv'
    OBVIOUS
  <2>1. CASE Next
    BY <2>1, ExecutorPreserves, StorePreserves, TickPreserves DEF Next
  <2>2. CASE UNCHANGED vars
    BY <2>2 DEF vars, Inv, TypeOK, Consistent
  <2> QED BY <2>1, <2>2
<1> QED BY <1>1, <1>2, PTL DEF Spec

\* Rows, leases, executors' copies and counters belong together as Consistent says,
\* for any rows, executors, tokens and budgets.
THEOREM TableConsistent == Spec => []Consistent
<1>1. Inv => Consistent
  BY DEF Inv
<1> QED BY <1>1, Invariance, PTL

\* Rows and executors always have the types of their Go structs.
THEOREM TypeCorrect == Spec => []TypeOK
<1>1. Inv => TypeOK
  BY DEF Inv
<1> QED BY <1>1, Invariance, PTL

\* Lease tokens fence: one per active row, none on any other row, none on two.
THEOREM LeasesDisciplined == Spec => []LeaseDiscipline
<1>1. Inv => LeaseDiscipline
  BY DEF Inv, Consistent, RowConsistent, LeaseDiscipline
<1> QED BY <1>1, Invariance, PTL

\* What settleFailure decides by is what the row says, for the one executor whose
\* settlement can land.
THEOREM OwnerIsCurrent == Spec => []OwnerCopyCurrent
<1>1. Inv => OwnerCopyCurrent
  <2> SUFFICES ASSUME Inv, NEW j \in Jobs, NEW w \in Workers, Owns(w, j)
               PROVE  /\ exec[w].attempt = jobs[j].attempt
                      /\ exec[w].max_attempts = jobs[j].max_attempts
                      /\ \A v \in Workers : Owns(v, j) => v = w
    BY DEF OwnerCopyCurrent
  <2>1. jobs[j].lease_token # NULL /\ exec[w].lease_token = jobs[j].lease_token
    BY DEF Inv, Consistent, RowConsistent, Owns
  <2>2. \A v \in Workers : Owns(v, j) => exec[v].lease_token = jobs[j].lease_token
    BY DEF Owns
  <2> QED BY <2>1, <2>2 DEF Inv, Consistent
<1> QED BY <1>1, Invariance, PTL

\* The attempt counter is exactly the failures and reaps on record, plus the lease
\* in progress.
THEOREM AttemptsAccounted == Spec => []AttemptAccounting
<1>1. Inv => AttemptAccounting
  BY DEF Inv, Consistent, RowConsistent, AttemptAccounting
<1> QED BY <1>1, Invariance, PTL

\* The retry budget and MaxReaps bound the runs of a job.
THEOREM RunsAreBounded == Spec => []RunsBounded
<1>1. Inv => RunsBounded
  <2> SUFFICES ASSUME Inv, NEW j \in Jobs, jobs[j].state \in Waiting \cup {"active"}
               PROVE  /\ jobs[j].attempt <= jobs[j].max_attempts + jobs[j].reap_count
                      /\ jobs[j].reap_count < MaxReaps
    BY DEF RunsBounded
  <2>1. /\ jobs[j].attempt \in Nat /\ jobs[j].max_attempts \in Nat
        /\ jobs[j].recorded \in Nat /\ jobs[j].reap_count \in Nat
    BY InvRows DEF GoodRow, Row
  <2> QED BY <2>1, InvRows DEF GoodRow, RowConsistent
<1> QED BY <1>1, Invariance, PTL

\* A pending row waits for a worker and never for the clock.
THEOREM PendingRowsDue == Spec => []PendingIsDue
<1>1. Inv => PendingIsDue
  BY DEF Inv, Consistent, RowConsistent, PendingIsDue
<1> QED BY <1>1, Invariance, PTL

-----------------------------------------------------------------------------
(* What a step may never do.                                               *)

\* A settlement touches no row but the one its executor owns.
LEMMA SettleTouches ==
  ASSUME Inv, NEW w \in Workers, Busy(w), NEW row, Settle(w, row),
         NEW j \in Jobs, jobs'[j] # jobs[j]
  PROVE  Owns(w, j) /\ exec'[w] = Idle
<1>1. exec[w].id \in Jobs
  BY DEF Inv, TypeOK, Execution, Busy
<1>2. exec'[w] = Idle
  BY DEF Settle, Inv, TypeOK
<1>3. Owns(w, exec[w].id) /\ j = exec[w].id
  BY <1>1 DEF Settle, Inv, TypeOK
<1> QED BY <1>2, <1>3

\* A step that takes a lease away is one of the three that may.
LEMMA LeaseEndsStep ==
  ASSUME Inv, Next, NEW j \in Jobs, jobs[j].state = "active",
         jobs'[j].lease_token # jobs[j].lease_token
  PROVE  \/ \E w \in Workers : Owns(w, j) /\ exec'[w] = Idle
         \/ jobs[j].lease_until < 0
         \/ jobs'[j] = Absent
<1>1. ASSUME NEW w \in Workers, ExecutorStep(w)
      PROVE  Owns(w, j) /\ exec'[w] = Idle
  <2>1. CASE \E row : Busy(w) /\ Settle(w, row)
    BY <2>1, SettleTouches
  <2>2. CASE Lost(w) \/ StopRenewing(w)
    BY <2>2 DEF Lost, StopRenewing
  <2>3. CASE ExtendLease(w)
    BY <2>3 DEF ExtendLease, Inv, TypeOK, Row
  <2>4. CASE \E i \in Jobs : DequeueBatch(w, i)
    BY <2>4 DEF DequeueBatch, Inv, TypeOK
  <2>5. \/ \E row : Busy(w) /\ Settle(w, row)
        \/ Lost(w) \/ StopRenewing(w) \/ ExtendLease(w)
        \/ \E i \in Jobs : DequeueBatch(w, i)
    BY <1>1, Zenon DEF ExecutorStep, Ack, Snooze, Skip, Dead, Reschedule, Release
  <2> QED BY <2>1, <2>2, <2>3, <2>4, <2>5
<1>2. ASSUME NEW i \in Jobs, StoreStep(i)
      PROVE  jobs[j].lease_until < 0 \/ jobs'[j] = Absent
  <2>1. CASE i # j
    <3>1. jobs'[j] = jobs[j]
      BY <1>2, <2>1 DEF StoreStep, Inv, TypeOK, Enqueue, PromoteDue, ReapExpired, Vacuum,
         RetryJob, RunNow, ArchiveJob, PauseJob, ResumeJob, DeleteJob
    <3> QED BY <3>1
  <2>2. CASE i = j
    BY <1>2, <2>2 DEF StoreStep, Inv, TypeOK, Enqueue, PromoteDue, ReapExpired, Vacuum,
       RetryJob, RunNow, ArchiveJob, PauseJob, ResumeJob, DeleteJob
  <2> QED BY <2>1, <2>2
<1>3. ~Tick
  <2>1. Aged(jobs[j]).lease_token = jobs[j].lease_token
    BY InvRows, AgedRow
  <2> QED BY <2>1 DEF Tick
<1> QED BY <1>1, <1>2, <1>3 DEF Next

\* An executor whose lease was taken over never ends the lease that replaced it.
THEOREM LeasesEndByOwner == Spec => LeaseEndsByOwner
<1>1. Inv /\ [Next]_vars =>
        [\A j \in Jobs :
           jobs[j].state = "active" /\ jobs'[j].lease_token # jobs[j].lease_token =>
             \/ \E w \in Workers : Owns(w, j) /\ exec'[w] = Idle
             \/ jobs[j].lease_until < 0
             \/ jobs'[j] = Absent]_vars
  BY LeaseEndsStep
<1> QED BY <1>1, Invariance, PTL DEF Spec, LeaseEndsByOwner

\* What the lifecycle sees of a row an executor has settled.
LEMMA SettledLife ==
  ASSUME NEW row, GoodRow(row), row.state = "active", NEW delay \in Nat,
         NEW new \in {Succeeded(row), Skipped(row), Died(row), Rescheduled(row, delay),
                      Released(row), Snoozed(row, delay)}
  PROVE  /\ new.state \in {"succeeded", "skipped", "dead", "scheduled", "pending"}
         /\ new.state \in {"scheduled", "pending"} =>
              new.attempt \in {row.attempt, row.attempt - 1}
         /\ new.state \in {"succeeded", "skipped", "dead"} => new.attempt = row.attempt
         /\ new.max_attempts = row.max_attempts /\ new.lease_token = NULL
         /\ new.max_attempts_explicit = row.max_attempts_explicit
<1>1. row \in Row /\ HandBack(row) = row.attempt - 1
  BY HandedBack DEF GoodRow, RowConsistent, Row
<1>2. ASSUME NEW s \in States
      PROVE  LET u == Unleased(row, s) IN
             /\ u \in Row /\ u.state = s /\ u.attempt = row.attempt
             /\ u.max_attempts = row.max_attempts /\ u.lease_token = NULL
             /\ u.max_attempts_explicit = row.max_attempts_explicit
  BY <1>1, UnleasedRow
<1>3. {"succeeded", "skipped", "dead", "scheduled", "pending"} \subseteq States
  BY DEF States
<1>4. CASE new = Succeeded(row) \/ new = Skipped(row)
  BY <1>2, <1>3, <1>4 DEF Succeeded, Skipped
<1>5. /\ Died(row).state = "dead" /\ Died(row).attempt = row.attempt
      /\ Died(row).max_attempts = row.max_attempts /\ Died(row).lease_token = NULL
      /\ Died(row).max_attempts_explicit = row.max_attempts_explicit
  <2> DEFINE u == Unleased(row, "dead")
  <2>1. /\ u \in Row /\ u.state = "dead" /\ u.attempt = row.attempt
        /\ u.max_attempts = row.max_attempts /\ u.lease_token = NULL
        /\ u.max_attempts_explicit = row.max_attempts_explicit
    BY <1>2, <1>3
  <2> HIDE DEF u
  <2>2. Died(row) = [u EXCEPT !.recorded = u.recorded + 1]
    BY DEF Died, u
  <2> QED BY <2>1, <2>2 DEF Row
<1>6. CASE new = Died(row)
  BY <1>5, <1>6
<1>7. CASE new = Rescheduled(row, delay)
  <2> DEFINE u == Unleased(row, "scheduled")
  <2>1. /\ u \in Row /\ u.state = "scheduled" /\ u.attempt = row.attempt
        /\ u.max_attempts = row.max_attempts /\ u.lease_token = NULL
        /\ u.max_attempts_explicit = row.max_attempts_explicit
    BY <1>2, <1>3
  <2>2. new = [u EXCEPT !.run_at = delay, !.recorded = @ + 1]
    BY <1>7 DEF Rescheduled
  <2> HIDE DEF u
  <2> QED BY <2>1, <2>2 DEF Row
<1>8. CASE new = Released(row)
  <2> DEFINE u == Unleased(row, "pending")
  <2>1. /\ u \in Row /\ u.state = "pending" /\ u.attempt = row.attempt
        /\ u.max_attempts = row.max_attempts /\ u.lease_token = NULL
        /\ u.max_attempts_explicit = row.max_attempts_explicit
    BY <1>2, <1>3
  <2>2. new = [u EXCEPT !.run_at = 0, !.attempt = HandBack(row)]
    BY <1>8 DEF Released
  <2> HIDE DEF u
  <2> QED BY <1>1, <2>1, <2>2 DEF Row
<1>9. CASE new = Snoozed(row, delay)
  <2>1. CASE row.deadline_at = 0
    BY <1>5, <1>9, <2>1 DEF Snoozed
  <2>2. CASE row.deadline_at # 0
    <3> DEFINE u == Unleased(row, "scheduled")
    <3>1. /\ u \in Row /\ u.state = "scheduled" /\ u.attempt = row.attempt
          /\ u.max_attempts = row.max_attempts /\ u.lease_token = NULL
          /\ u.max_attempts_explicit = row.max_attempts_explicit
      BY <1>2, <1>3
    <3>2. new = [u EXCEPT !.run_at = delay, !.attempt = HandBack(row),
                          !.deadline_at = IF @ = -1 THEN row.snooze_budget ELSE @]
      BY <1>9, <2>2 DEF Snoozed
    <3> HIDE DEF u
    <3> QED BY <1>1, <3>1, <3>2 DEF Row
  <2> QED BY <2>1, <2>2
<1> QED BY <1>4, <1>6, <1>7, <1>8, <1>9

\* Reaped rows keep their budget and the charge of the lost run.
LEMMA ReapedLife ==
  ASSUME NEW row, GoodRow(row)
  PROVE  LET new == Reaped(row) IN
         /\ new.state \in {"dead", "pending"} /\ new.attempt = row.attempt
         /\ new.max_attempts = row.max_attempts /\ new.lease_token = NULL
         /\ new.max_attempts_explicit = row.max_attempts_explicit
<1> DEFINE counted == [row EXCEPT !.reap_count = row.reap_count + 1]
<1>1. row \in Row /\ row.reap_count + 1 \in Nat
  BY DEF GoodRow, Row
<1>2. counted \in Row
  BY FieldUpdates, <1>1
<1>3. /\ counted.attempt = row.attempt /\ counted.max_attempts = row.max_attempts
      /\ counted.max_attempts_explicit = row.max_attempts_explicit
  BY <1>1 DEF Row
<1>4. Reaped(row) = Died(counted) \/ Reaped(row) = Unleased(counted, "pending")
  BY DEF Reaped
<1> HIDE DEF counted
<1>5. ASSUME NEW s \in {"dead", "pending"}
      PROVE  LET u == Unleased(counted, s) IN
             /\ u \in Row /\ u.state = s /\ u.attempt = row.attempt
             /\ u.max_attempts = row.max_attempts /\ u.lease_token = NULL
             /\ u.max_attempts_explicit = row.max_attempts_explicit
  BY <1>2, <1>3, UnleasedRow DEF States
<1> DEFINE u == Unleased(counted, "dead")
<1>6. Died(counted) = [u EXCEPT !.recorded = u.recorded + 1]
  BY DEF Died
<1>7. /\ u \in Row /\ u.state = "dead" /\ u.attempt = row.attempt
      /\ u.max_attempts = row.max_attempts /\ u.lease_token = NULL
      /\ u.max_attempts_explicit = row.max_attempts_explicit
  BY <1>5
<1> HIDE DEF u
<1>8. /\ Died(counted).state = "dead" /\ Died(counted).attempt = row.attempt
      /\ Died(counted).max_attempts = row.max_attempts /\ Died(counted).lease_token = NULL
      /\ Died(counted).max_attempts_explicit = row.max_attempts_explicit
  BY <1>6, <1>7 DEF Row
<1> QED BY <1>4, <1>5, <1>8

\* The effect of a settlement on the table.
LEMMA SettleEffect ==
  ASSUME Inv, NEW w \in Workers,
         Ack(w) \/ Snooze(w) \/ Skip(w) \/ Dead(w) \/ Reschedule(w) \/ Release(w)
  PROVE  \/ UNCHANGED jobs
         \/ \E j \in Jobs, delay \in Nat :
              /\ GoodRow(jobs[j]) /\ jobs[j].state = "active"
              /\ \E new \in {Succeeded(jobs[j]), Skipped(jobs[j]), Died(jobs[j]),
                             Rescheduled(jobs[j], delay), Released(jobs[j]),
                             Snoozed(jobs[j], delay)} :
                   jobs' = [jobs EXCEPT ![j] = new]
<1> DEFINE j == exec[w].id
           row == jobs[j]
<1>1. Busy(w) /\ j \in Jobs
  BY DEF Ack, Snooze, Skip, Dead, Reschedule, Release, Inv, TypeOK, Execution, Busy
<1>2. 0 \in Nat /\ 0..MaxDelay \subseteq Nat /\ 1..MaxDelay \subseteq Nat
  BY BudgetAssumption
<1>3. PICK delay \in Nat :
        \E new \in {Succeeded(row), Skipped(row), Died(row), Rescheduled(row, delay),
                    Released(row), Snoozed(row, delay)} : Settle(w, new)
  BY <1>2 DEF Ack, Snooze, Skip, Dead, Reschedule, Release
<1>4. CASE ~Owns(w, j)
  BY <1>4, <1>3 DEF Settle
<1>5. CASE Owns(w, j)
  <2>1. GoodRow(row) /\ row.state = "active"
    BY <1>1, <1>5, InvRows DEF Owns
  <2> QED BY <1>1, <1>3, <1>5, <2>1, Zenon DEF Settle
<1> QED BY <1>4, <1>5

\* A step leaves a pinned budget alone.
LEMMA BudgetStep ==
  ASSUME Inv, Next, NEW j \in Jobs, jobs[j].max_attempts_explicit,
         jobs'[j].state # "absent"
  PROVE  jobs'[j].max_attempts = jobs[j].max_attempts /\ jobs'[j].max_attempts_explicit
<1> DEFINE row == jobs[j]
<1>1. GoodRow(row) /\ row \in Row
  BY InvRows DEF GoodRow
<1>2. CASE jobs'[j] = jobs[j]
  BY <1>2
<1>3. ASSUME NEW w \in Workers, ExecutorStep(w), jobs'[j] # jobs[j]
      PROVE  jobs'[j].max_attempts = row.max_attempts /\ jobs'[j].max_attempts_explicit
  <2>1. CASE Ack(w) \/ Snooze(w) \/ Skip(w) \/ Dead(w) \/ Reschedule(w) \/ Release(w)
    <3>1. PICK i \in Jobs, delay \in Nat :
            /\ GoodRow(jobs[i]) /\ jobs[i].state = "active"
            /\ \E new \in {Succeeded(jobs[i]), Skipped(jobs[i]), Died(jobs[i]),
                           Rescheduled(jobs[i], delay), Released(jobs[i]),
                           Snoozed(jobs[i], delay)} :
                 jobs' = [jobs EXCEPT ![i] = new]
      BY <1>3, <2>1, SettleEffect
    <3>2. i = j
      BY <1>3, <3>1 DEF Inv, TypeOK
    <3>3. jobs'[j] \in {Succeeded(row), Skipped(row), Died(row), Rescheduled(row, delay),
                        Released(row), Snoozed(row, delay)}
      BY <3>1, <3>2 DEF Inv, TypeOK
    <3> QED BY <3>1, <3>2, <3>3, SettledLife
  <2>2. CASE Lost(w) \/ StopRenewing(w)
    BY <1>3, <2>2 DEF Lost, StopRenewing
  <2>3. CASE ExtendLease(w)
    BY <1>1, <2>3 DEF ExtendLease, Inv, TypeOK, Row
  <2>4. CASE \E i \in Jobs : DequeueBatch(w, i)
    <3>1. DequeueBatch(w, j)
      BY <1>3, <2>4, Zenon DEF DequeueBatch, Inv, TypeOK
    <3>2. PICK t \in Tokens : jobs'[j] = Leased(row, t, ResolvedBudget(w, row))
      BY <3>1 DEF DequeueBatch, Inv, TypeOK
    <3>3. ResolvedBudget(w, row) = row.max_attempts
      BY DEF ResolvedBudget
    <3> QED BY <1>1, <3>2, <3>3 DEF Leased, Row
  <2> QED BY <1>3, <2>1, <2>2, <2>3, <2>4 DEF ExecutorStep
<1>4. ASSUME NEW i \in Jobs, StoreStep(i), jobs'[j] # jobs[j]
      PROVE  jobs'[j].max_attempts = row.max_attempts /\ jobs'[j].max_attempts_explicit
  <2>1. i = j
    BY <1>4 DEF StoreStep, Inv, TypeOK, Enqueue, PromoteDue, ReapExpired, Vacuum,
       RetryJob, RunNow, ArchiveJob, PauseJob, ResumeJob, DeleteJob
  <2>2. CASE Enqueue(j)
    BY <1>1, <2>2 DEF Enqueue, Inv, TypeOK, Consistent, RowConsistent
  <2>3. CASE ReapExpired(j)
    BY <1>1, <2>3, ReapedLife DEF ReapExpired, Inv, TypeOK
  <2>4. CASE Vacuum(j) \/ DeleteJob(j)
    BY <2>4 DEF Vacuum, DeleteJob, Inv, TypeOK, Absent
  <2>5. CASE RetryJob(j)
    BY <1>1, <2>5 DEF RetryJob, Inv, TypeOK, Revived, Row
  <2>6. CASE PromoteDue(j) \/ RunNow(j) \/ ArchiveJob(j) \/ PauseJob(j) \/ ResumeJob(j)
    BY <1>1, <2>6 DEF PromoteDue, RunNow, ArchiveJob, PauseJob, ResumeJob, Inv, TypeOK, Row
  <2> QED BY <1>4, <2>1, <2>2, <2>3, <2>4, <2>5, <2>6 DEF StoreStep
<1>5. CASE Tick
  BY <1>1, <1>5, Zenon DEF Tick, Aged, Row
<1> QED BY <1>2, <1>3, <1>4, <1>5 DEF Next

\* Workers with other defaults never move a budget once it is pinned.
THEOREM BudgetsPinned == Spec => BudgetPinned
<1>1. Inv /\ [Next]_vars =>
        [\A j \in Jobs :
           jobs[j].max_attempts_explicit /\ jobs'[j].state # "absent" =>
             /\ jobs'[j].max_attempts = jobs[j].max_attempts
             /\ jobs'[j].max_attempts_explicit]_vars
  BY BudgetStep
<1> QED BY <1>1, Invariance, PTL DEF Spec, BudgetPinned

-----------------------------------------------------------------------------
(* The job table implements JobLifecycle: under the mapping `life` of      *)
(* JobStore, initial states map to initial states and every step of the    *)
(* table is a step of the lifecycle of one job, or none.                   *)


\* The lifecycle's view of a good row.
LEMMA LifeFields ==
  ASSUME NEW row, GoodRow(row)
  PROVE  LET l == LifeOf(row) IN
         /\ l \in Lifecycle!Life
         /\ l.phase = Phase(row.state) /\ l.holder = row.lease_token
         /\ l.spent = row.attempt /\ l.limit = row.max_attempts + MaxReaps - 1
         /\ l.pinned = row.max_attempts_explicit
<1>1. /\ row.state \in States /\ row.lease_token \in Tokens \cup {NULL}
      /\ row.attempt \in Nat /\ row.max_attempts \in Nat
      /\ row.max_attempts_explicit \in BOOLEAN
  BY DEF GoodRow, Row
<1>2. row.max_attempts + MaxReaps - 1 \in Nat
  BY <1>1, LeaseAssumption
<1>3. Phase(row.state) \in Lifecycle!Phases
  BY <1>1 DEF Phase, States, Waiting, Lifecycle!Phases
<1> QED BY <1>1, <1>2, <1>3 DEF LifeOf, Lifecycle!Life

\* The phases of the states.
LEMMA Phases ==
  /\ Phase("absent") = "none"
  /\ \A s \in Waiting : Phase(s) = "waiting"
  /\ Phase("active") = "running"
  /\ \A s \in {"succeeded", "skipped"} : Phase(s) = "done"
  /\ Phase("dead") = "failed"
  BY DEF Phase, Waiting

\* Two rows with the same lifecycle fields are the same to the lifecycle.
LEMMA SameLife ==
  ASSUME NEW row, NEW new, Phase(new.state) = Phase(row.state),
         new.lease_token = row.lease_token, new.attempt = row.attempt,
         new.max_attempts = row.max_attempts,
         new.max_attempts_explicit = row.max_attempts_explicit
  PROVE  LifeOf(new) = LifeOf(row)
  BY DEF LifeOf

\* A step that writes one row changes one life.
LEMMA LifeChange ==
  ASSUME Inv, NEW j \in Jobs, NEW new, jobs' = [jobs EXCEPT ![j] = new]
  PROVE  /\ life' = [life EXCEPT ![j] = LifeOf(new)]
         /\ life[j] = LifeOf(jobs[j]) /\ life'[j] = LifeOf(new)
  BY Zenon DEF life, Inv, TypeOK

\* The initial table is an initial state of the lifecycle.
LEMMA InitLife == Init => Lifecycle!Init
<1> SUFFICES ASSUME Init PROVE Lifecycle!Init
  OBVIOUS
<1>1. GoodRow(Absent) /\ Absent.state = "absent" /\ Absent.lease_token = NULL
  BY AbsentRow DEF Absent
<1>2. life = [j \in Jobs |-> LifeOf(Absent)]
  BY DEF Init, life
<1>3. /\ LifeOf(Absent) \in Lifecycle!Life /\ LifeOf(Absent).phase = "none"
      /\ LifeOf(Absent).holder = NULL
  BY <1>1, LifeFields, Phases
<1> QED BY <1>2, <1>3 DEF Lifecycle!Init

\* Writing a row that the lifecycle cannot tell from the old one is a stutter.
LEMMA StutterLife ==
  ASSUME Inv, NEW j \in Jobs, NEW new, jobs' = [jobs EXCEPT ![j] = new],
         LifeOf(new) = LifeOf(jobs[j])
  PROVE  UNCHANGED life
  BY DEF life, Inv, TypeOK

\* Writing a row with the old budget, seen by the lifecycle.
LEMMA BecomesLife ==
  ASSUME Inv, NEW j \in Jobs, NEW new, jobs' = [jobs EXCEPT ![j] = new],
         new.max_attempts = jobs[j].max_attempts,
         new.max_attempts_explicit = jobs[j].max_attempts_explicit
  PROVE  Lifecycle!Becomes(j, Phase(new.state), new.lease_token, new.attempt)
<1>1. life' = [life EXCEPT ![j] = LifeOf(new)] /\ life[j] = LifeOf(jobs[j])
  BY LifeChange, Zenon
<1>2. LifeOf(new) = [phase |-> Phase(new.state), holder |-> new.lease_token,
                     spent |-> new.attempt, limit |-> life[j].limit,
                     pinned |-> life[j].pinned]
  BY <1>1 DEF LifeOf
<1> QED BY <1>1, <1>2 DEF Lifecycle!Becomes

\* Ends of a run, and of a job.
LEMMA EndLife ==
  ASSUME Inv, NEW j \in Jobs, NEW new, jobs' = [jobs EXCEPT ![j] = new],
         jobs[j].state = "active", new.lease_token = NULL,
         new.state \in {"succeeded", "skipped", "dead", "scheduled", "pending"},
         new.state \in {"scheduled", "pending"} =>
           new.attempt \in {jobs[j].attempt, jobs[j].attempt - 1},
         new.state \in {"succeeded", "skipped", "dead"} => new.attempt = jobs[j].attempt,
         new.max_attempts = jobs[j].max_attempts,
         new.max_attempts_explicit = jobs[j].max_attempts_explicit
  PROVE  Lifecycle!Next
<1>1. /\ life[j].phase = "running" /\ life[j].spent = jobs[j].attempt
      /\ Lifecycle!Becomes(j, Phase(new.state), NULL, new.attempt)
  <2>1. life[j] = LifeOf(jobs[j])
    BY LifeChange, Zenon
  <2>2. Lifecycle!Becomes(j, Phase(new.state), new.lease_token, new.attempt)
    BY BecomesLife, Zenon
  <2> QED BY <2>1, <2>2, Phases DEF LifeOf
<1>2. CASE new.state \in {"scheduled", "pending"}
  <2>1. Lifecycle!Yield(j)
    BY <1>1, <1>2, Phases DEF Lifecycle!Yield, Waiting
  <2> QED BY <2>1 DEF Lifecycle!Next
<1>3. CASE new.state \in {"succeeded", "skipped"}
  <2>1. Lifecycle!Finish(j)
    BY <1>1, <1>3, Phases DEF Lifecycle!Finish
  <2> QED BY <2>1 DEF Lifecycle!Next
<1>4. CASE new.state = "dead"
  <2>1. Lifecycle!Fail(j)
    BY <1>1, <1>4, Phases DEF Lifecycle!Fail
  <2> QED BY <2>1 DEF Lifecycle!Next
<1> QED BY <1>2, <1>3, <1>4

\* DequeueBatch grants the job: the token is nobody's and the budget has room.
LEMMA GrantLife ==
  ASSUME Inv, NEW w \in Workers, NEW j \in Jobs, DequeueBatch(w, j)
  PROVE  Lifecycle!Grant(j)
<1> DEFINE row == jobs[j]
           max == ResolvedBudget(w, row)
<1>1. PICK t \in Tokens : Fresh(t) /\ jobs' = [jobs EXCEPT ![j] = Leased(row, t, max)]
  BY Zenon DEF DequeueBatch, Inv, TypeOK
<1> DEFINE new == Leased(row, t, max)
<1>2. GoodRow(row) /\ row.state = "pending" /\ t # NULL
  BY InvRows, NullAssumption DEF DequeueBatch
<1>3. /\ GoodRow(new) /\ new.lease_token = t /\ new.attempt = row.attempt + 1
      /\ new.max_attempts = max
  BY <1>2, LeasedRow
<1>4. /\ new.state = "active" /\ new.max_attempts_explicit = TRUE
      /\ new.reap_count = row.reap_count /\ new.recorded = row.recorded
  BY <1>2 DEF Leased, GoodRow, Row
<1>5. row.max_attempts_explicit => max = row.max_attempts
  BY DEF ResolvedBudget
<1>6. /\ row.attempt \in Nat /\ row.recorded \in Nat /\ row.reap_count \in Nat
      /\ max \in Nat /\ MaxReaps \in Nat
  BY <1>2, <1>3, LeaseAssumption DEF GoodRow, Row
<1>7. /\ life' = [life EXCEPT ![j] = LifeOf(new)]
      /\ life[j] = LifeOf(row) /\ life'[j] = LifeOf(new)
  BY <1>1, LifeChange, Zenon
<1> HIDE DEF new, max
<1>8. row.attempt < max + MaxReaps - 1
  <2>1. row.attempt = row.recorded + row.reap_count /\ row.reap_count < MaxReaps
    BY <1>2 DEF GoodRow, RowConsistent, Waiting
  <2>2. row.recorded < max
    BY <1>3, <1>4 DEF GoodRow, RowConsistent, Waiting
  <2> QED BY <1>6, <2>1, <2>2
<1>9. /\ LifeOf(new) \in Lifecycle!Life
      /\ LifeOf(new).phase = "running" /\ LifeOf(new).holder = t
      /\ LifeOf(new).spent = row.attempt + 1 /\ LifeOf(new).limit = max + MaxReaps - 1
      /\ LifeOf(new).pinned = TRUE
  BY <1>3, <1>4, LifeFields, Phases
<1>10. /\ LifeOf(row).phase = "waiting" /\ LifeOf(row).spent = row.attempt
       /\ LifeOf(row).limit = row.max_attempts + MaxReaps - 1
       /\ LifeOf(row).pinned = row.max_attempts_explicit
  BY <1>2, LifeFields, Phases DEF Waiting
<1>11. \A i \in Jobs : life[i].holder # t
  BY <1>1 DEF Fresh, life, LifeOf
<1>12. Lifecycle!Only(j)
  BY <1>7, <1>9, Zenon DEF Lifecycle!Only
<1>13. life[j].pinned => life'[j].limit = life[j].limit
  BY <1>5, <1>7, <1>9, <1>10
<1>14. /\ life[j].phase = "waiting" /\ life'[j].phase = "running"
       /\ life'[j].holder # NULL /\ life'[j].pinned = TRUE
       /\ life[j].spent < life'[j].limit /\ life'[j].spent = life[j].spent + 1
  BY <1>2, <1>7, <1>8, <1>9, <1>10
<1>15. \A i \in Jobs : life[i].holder # life'[j].holder
  BY <1>7, <1>9, <1>11
<1> QED BY <1>12, <1>13, <1>14, <1>15 DEF Lifecycle!Grant

\* Executors' steps.
LEMMA ExecutorLife ==
  ASSUME Inv, NEW w \in Workers, ExecutorStep(w)
  PROVE  Lifecycle!Next \/ UNCHANGED life
<1>1. CASE Ack(w) \/ Snooze(w) \/ Skip(w) \/ Dead(w) \/ Reschedule(w) \/ Release(w)
  <2>1. CASE UNCHANGED jobs
    BY <2>1 DEF life
  <2>2. CASE ~UNCHANGED jobs
    <3>1. PICK j \in Jobs, delay \in Nat :
            /\ GoodRow(jobs[j]) /\ jobs[j].state = "active"
            /\ \E new \in {Succeeded(jobs[j]), Skipped(jobs[j]), Died(jobs[j]),
                           Rescheduled(jobs[j], delay), Released(jobs[j]),
                           Snoozed(jobs[j], delay)} :
                 jobs' = [jobs EXCEPT ![j] = new]
      BY <1>1, <2>2, SettleEffect
    <3>2. PICK new \in {Succeeded(jobs[j]), Skipped(jobs[j]), Died(jobs[j]),
                        Rescheduled(jobs[j], delay), Released(jobs[j]),
                        Snoozed(jobs[j], delay)} :
            jobs' = [jobs EXCEPT ![j] = new]
      BY <3>1, Zenon
    <3>3. /\ new.state \in {"succeeded", "skipped", "dead", "scheduled", "pending"}
          /\ new.state \in {"scheduled", "pending"} =>
               new.attempt \in {jobs[j].attempt, jobs[j].attempt - 1}
          /\ new.state \in {"succeeded", "skipped", "dead"} =>
               new.attempt = jobs[j].attempt
          /\ new.max_attempts = jobs[j].max_attempts /\ new.lease_token = NULL
          /\ new.max_attempts_explicit = jobs[j].max_attempts_explicit
      BY <3>1, <3>2, SettledLife
    <3> QED BY <3>1, <3>2, <3>3, EndLife, Zenon
  <2> QED BY <2>1, <2>2
<1>2. CASE Lost(w) \/ StopRenewing(w)
  BY <1>2 DEF Lost, StopRenewing, life
<1>3. CASE ExtendLease(w)
  <2> DEFINE j == exec[w].id
             new == [jobs[j] EXCEPT !.lease_until = LeaseTTL]
  <2>1. CASE ~Owns(w, j)
    BY <1>3, <2>1 DEF ExtendLease, life
  <2>2. CASE Owns(w, j)
    <3>1. j \in Jobs /\ jobs[j] \in Row
      BY <1>3 DEF ExtendLease, Inv, TypeOK, Consistent, Execution
    <3>2. jobs' = [jobs EXCEPT ![j] = new]
      BY <1>3, <2>2, <3>1 DEF ExtendLease, Inv, TypeOK
    <3>3. /\ new.state = jobs[j].state /\ new.lease_token = jobs[j].lease_token
          /\ new.attempt = jobs[j].attempt /\ new.max_attempts = jobs[j].max_attempts
          /\ new.max_attempts_explicit = jobs[j].max_attempts_explicit
      BY <3>1 DEF Row
    <3> HIDE DEF new, j
    <3>4. LifeOf(new) = LifeOf(jobs[j])
      BY <3>3, SameLife
    <3> QED BY <3>1, <3>2, <3>4, StutterLife, Zenon
  <2> QED BY <2>1, <2>2
<1>4. CASE \E j \in Jobs : DequeueBatch(w, j)
  BY <1>4, GrantLife DEF Lifecycle!Next
<1> QED BY <1>1, <1>2, <1>3, <1>4 DEF ExecutorStep

\* A row freed, whoever freed it.
LEMMA ForgetLife ==
  ASSUME Inv, NEW j \in Jobs, jobs' = [jobs EXCEPT ![j] = Absent]
  PROVE  Lifecycle!Next
<1>1. life' = [life EXCEPT ![j] = LifeOf(Absent)] /\ life'[j] = LifeOf(Absent)
  BY LifeChange, Zenon
<1>2. Absent.state = "absent"
  BY DEF Absent
<1>3. /\ LifeOf(Absent) \in Lifecycle!Life /\ LifeOf(Absent).phase = "none"
      /\ LifeOf(Absent).holder = NULL
  BY <1>2, AbsentRow, LifeFields, Phases
<1>4. Lifecycle!Forget(j)
  BY <1>1, <1>3, Zenon DEF Lifecycle!Forget, Lifecycle!Only
<1> QED BY <1>4 DEF Lifecycle!Next

\* Moving a waiting row among the waiting states is a stutter, archiving it fails it.
LEMMA MovedLife ==
  ASSUME Inv, NEW j \in Jobs, NEW new, jobs' = [jobs EXCEPT ![j] = new],
         jobs[j].state \in Waiting, new.state \in Waiting \cup {"dead"},
         new.lease_token = jobs[j].lease_token, new.attempt = jobs[j].attempt,
         new.max_attempts = jobs[j].max_attempts,
         new.max_attempts_explicit = jobs[j].max_attempts_explicit
  PROVE  Lifecycle!Next \/ UNCHANGED life
<1>1. CASE new.state \in Waiting
  <2>1. LifeOf(new) = LifeOf(jobs[j])
    BY <1>1, Phases, SameLife
  <2> QED BY <2>1, StutterLife, Zenon
<1>2. CASE new.state = "dead"
  <2>1. GoodRow(jobs[j]) /\ jobs[j].lease_token = NULL
    BY InvRows DEF GoodRow, RowConsistent, Waiting
  <2>2. Lifecycle!Becomes(j, Phase(new.state), new.lease_token, new.attempt)
    BY BecomesLife, Zenon
  <2>3. life[j] = LifeOf(jobs[j])
    BY LifeChange, Zenon
  <2>4. life[j].phase = "waiting" /\ life[j].spent = new.attempt
    BY <2>3, Phases DEF LifeOf
  <2>5. Lifecycle!Becomes(j, "failed", NULL, life[j].spent)
    BY <1>2, <2>1, <2>2, <2>4, Phases
  <2>6. Lifecycle!Fail(j)
    BY <2>4, <2>5 DEF Lifecycle!Fail
  <2> QED BY <2>6 DEF Lifecycle!Next
<1> QED BY <1>1, <1>2

\* Steps of producers, maintenance and operators.
LEMMA StoreLife ==
  ASSUME Inv, NEW j \in Jobs, StoreStep(j)
  PROVE  Lifecycle!Next \/ UNCHANGED life
<1> DEFINE row == jobs[j]
<1>1. GoodRow(row) /\ row \in Row
  BY InvRows DEF GoodRow
<1>2. CASE Enqueue(j)
  <2>1. PICK delay \in 0..MaxDelay, max \in AttemptBudgets, explicit \in BOOLEAN,
             budget \in SnoozeBudgets :
          jobs' = [jobs EXCEPT ![j] = Inserted(delay, max, explicit, budget)]
    BY <1>2, Zenon DEF Enqueue
  <2> DEFINE new == Inserted(delay, max, explicit, budget)
  <2>2. delay \in Nat /\ max \in Nat /\ max > 0 /\ budget \in Int
    BY BudgetAssumption
  <2>3. GoodRow(new) /\ new.lease_token = NULL
    BY <2>2, InsertedRow
  <2>4. new.state \in Waiting /\ new.attempt = 0
    BY DEF Inserted, Absent, Waiting
  <2>5. /\ life' = [life EXCEPT ![j] = LifeOf(new)]
        /\ life[j] = LifeOf(row) /\ life'[j] = LifeOf(new)
    BY <2>1, LifeChange, Zenon
  <2> HIDE DEF new
  <2>6. /\ LifeOf(new) \in Lifecycle!Life /\ LifeOf(new).phase = "waiting"
        /\ LifeOf(new).holder = NULL /\ LifeOf(new).spent = 0
    BY <2>3, <2>4, LifeFields, Phases
  <2>7. LifeOf(row).phase = "none"
    BY <1>1, <1>2, LifeFields, Phases DEF Enqueue
  <2>8. Lifecycle!Submit(j)
    BY <2>5, <2>6, <2>7, Zenon DEF Lifecycle!Submit, Lifecycle!Only
  <2> QED BY <2>8 DEF Lifecycle!Next
<1>3. CASE ReapExpired(j)
  <2> DEFINE new == Reaped(row)
  <2>1. jobs' = [jobs EXCEPT ![j] = new] /\ row.state = "active"
    BY <1>3 DEF ReapExpired
  <2>2. /\ new.state \in {"dead", "pending"} /\ new.attempt = row.attempt
        /\ new.max_attempts = row.max_attempts /\ new.lease_token = NULL
        /\ new.max_attempts_explicit = row.max_attempts_explicit
    BY <1>1, ReapedLife
  <2> HIDE DEF new
  <2> QED BY <2>1, <2>2, EndLife, Zenon
<1>4. CASE Vacuum(j) \/ DeleteJob(j)
  BY <1>4, ForgetLife DEF Vacuum, DeleteJob
<1>5. CASE RetryJob(j)
  <2> DEFINE new == Revived(row)
  <2>1. jobs' = [jobs EXCEPT ![j] = new] /\ row.state = "dead"
    BY <1>5 DEF RetryJob
  <2>2. /\ new.state = "pending" /\ new.attempt = 0
        /\ new.max_attempts = row.max_attempts
        /\ new.max_attempts_explicit = row.max_attempts_explicit
    BY <1>1 DEF Revived, Row
  <2>3. new.lease_token = NULL
    BY <1>1, <2>1, RevivedRow
  <2> HIDE DEF new
  <2>4. Lifecycle!Becomes(j, Phase(new.state), new.lease_token, new.attempt)
    BY <2>1, <2>2, BecomesLife, Zenon
  <2>5. Lifecycle!Becomes(j, "waiting", NULL, 0)
    BY <2>2, <2>3, <2>4, Phases DEF Waiting
  <2>6. life[j].phase = "failed"
    <3>1. life[j] = LifeOf(row)
      BY <2>1, LifeChange, Zenon
    <3> QED BY <2>1, <3>1, Phases DEF LifeOf
  <2>7. Lifecycle!Revive(j)
    BY <2>5, <2>6 DEF Lifecycle!Revive
  <2> QED BY <2>7 DEF Lifecycle!Next
<1>6. CASE PromoteDue(j) \/ RunNow(j) \/ ArchiveJob(j) \/ PauseJob(j) \/ ResumeJob(j)
  <2> DEFINE s == IF row.run_at = 0 THEN "pending" ELSE "scheduled"
  <2>1. row.state \in Waiting
    BY <1>6 DEF PromoteDue, RunNow, ArchiveJob, PauseJob, ResumeJob, Waiting
  <2>2. PICK new \in {[row EXCEPT !.state = "pending"],
                      [[row EXCEPT !.state = "pending"] EXCEPT !.run_at = 0],
                      [[row EXCEPT !.state = "dead"] EXCEPT !.lease_until = -1],
                      [row EXCEPT !.state = "paused"],
                      [row EXCEPT !.state = s]} :
          jobs' = [jobs EXCEPT ![j] = new]
    BY <1>1, <1>6, Zenon DEF PromoteDue, RunNow, ArchiveJob, PauseJob, ResumeJob, Inv, TypeOK, Row
  <2>3. /\ new.state \in Waiting \cup {"dead"} /\ new.lease_token = row.lease_token
        /\ new.attempt = row.attempt /\ new.max_attempts = row.max_attempts
        /\ new.max_attempts_explicit = row.max_attempts_explicit
    BY <1>1, <2>2, Zenon DEF Waiting, Row
  <2> QED BY <2>1, <2>2, <2>3, MovedLife, Zenon
<1> QED BY <1>2, <1>3, <1>4, <1>5, <1>6 DEF StoreStep

\* Time is invisible to the lifecycle.
LEMMA TickLife == ASSUME Inv, Tick PROVE UNCHANGED life
<1>1. ASSUME NEW j \in Jobs PROVE LifeOf(Aged(jobs[j])) = LifeOf(jobs[j])
  <2> DEFINE row == jobs[j]
             new == Aged(row)
  <2>1. row \in Row
    BY DEF Inv, TypeOK
  <2>2. /\ new.state = row.state /\ new.lease_token = row.lease_token
        /\ new.attempt = row.attempt /\ new.max_attempts = row.max_attempts
        /\ new.max_attempts_explicit = row.max_attempts_explicit
    BY <2>1 DEF Aged, Row
  <2> HIDE DEF new
  <2>3. LifeOf(new) = LifeOf(row)
    BY <2>2, SameLife
  <2> QED BY <2>3 DEF new
<1> QED BY <1>1 DEF Tick, life

\* The job table keeps the promise of JobLifecycle: one holder at a time, runs
\* within the limit, a limit that does not move once pinned.
THEOREM Refinement == Spec => ImplementsLifecycle
<1>1. Inv /\ [Next]_vars => [Lifecycle!Next]_life
  <2> SUFFICES ASSUME Inv, [Next]_vars PROVE Lifecycle!Next \/ UNCHANGED life
    OBVIOUS
  <2>1. CASE Next
    BY <2>1, ExecutorLife, StoreLife, TickLife DEF Next
  <2>2. CASE UNCHANGED vars
    BY <2>2 DEF vars, life
  <2> QED BY <2>1, <2>2
<1> QED BY <1>1, InitLife, Invariance, PTL DEF Spec, ImplementsLifecycle, Lifecycle!Spec
=============================================================================
