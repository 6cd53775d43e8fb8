-------------------------------- MODULE Dedupe --------------------------------
(***************************************************************************)
(* Enqueueing with a key: the transactions of Enqueue and EnqueueTx        *)
(* (store_jobs.go), which race each other, the workers that run the jobs   *)
(* and the operators that revive them.                                     *)
(*                                                                         *)
(* Three modes.  "live": the unique index on idempotency_key rejects a     *)
(* second live job.  "window": a claim in azync_idempotency_keys rejects   *)
(* the key for TTL as well.  "coalesce": the enqueue is dropped when a job *)
(* with the key has not started, by a check that is no index.              *)
(*                                                                         *)
(* A transaction is steps: begin, the claim statement, the insert          *)
(* statement, commit or rollback.  Its now() is the time it began.  What   *)
(* it wrote is unseen until it commits; a statement that meets another's   *)
(* uncommitted claim, or uncommitted key in the unique index, waits.       *)
(* Times are relative to the present, as in JobStore.                      *)
(***************************************************************************)
EXTENDS Integers, FiniteSets

CONSTANTS
  Jobs,      \* row slots
  Producers, \* one transaction at a time each
  Keys,
  NULL,
  TTL,       \* IdempotencyTTL of the "window" mode
  MaxOpen,   \* bound: the longest time a transaction stays open
  Modes,     \* a subset of {"live", "window", "coalesce"}
  Endings    \* how handlers end, a subset of {"succeeded", "dead", "skipped"}

ASSUME TimeAssumption == TTL \in Nat \ {0} /\ MaxOpen \in Nat

ASSUME KeyAssumption == NULL \notin Producers \cup Keys

ASSUME ModeAssumption ==
  /\ Modes \subseteq {"live", "window", "coalesce"}
  /\ Endings \subseteq {"succeeded", "dead", "skipped"}

ASSUME FiniteAssumption == IsFiniteSet(Jobs) /\ IsFiniteSet(Producers)

VARIABLES
  rows,    \* azync_jobs: state, key, mode, and the transaction not yet committed
  claims,  \* azync_idempotency_keys, and what an open transaction would undo
  tx,      \* the transactions
  owed,    \* keys with a coalesced enqueue that returned and whose data no run saw
  window   \* per key: what is left of the window of the job accepted last

vars == <<rows, claims, tx, owed, window>>

RowStates == {"absent", "pending", "active", "succeeded", "dead", "skipped"}

\* The predicate of azync_jobs_idempotency_idx.
Live == {"pending", "active", "skipped"}

Long == -MaxOpen - 1  \* so long ago that no open transaction can tell

NoRow == [state |-> "absent", key |-> NULL, mode |-> NULL, by |-> NULL]

NoTx == [pc |-> "idle", key |-> NULL, mode |-> NULL, age |-> 0, seen |-> FALSE]

Row == [state : RowStates, key : Keys \cup {NULL}, mode : Modes \cup {NULL},
        by : Producers \cup {NULL}]

ClaimRow == [expires : Long..TTL, by : Producers \cup {NULL}, undo : Long..TTL]

Transaction ==
  [pc : {"idle", "open", "claimed", "inserted", "dropped"}, key : Keys \cup {NULL},
   mode : Modes \cup {NULL}, age : 0..MaxOpen, seen : BOOLEAN]

TypeOK ==
  /\ rows \in [Jobs -> Row]
  /\ claims \in [Keys -> ClaimRow]
  /\ tx \in [Producers -> Transaction]
  /\ owed \subseteq Keys
  /\ window \in [Keys -> -1..TTL]

Init ==
  /\ rows = [j \in Jobs |-> NoRow]
  /\ claims = [k \in Keys |-> [expires |-> Long, by |-> NULL, undo |-> Long]]
  /\ tx = [p \in Producers |-> NoTx]
  /\ owed = {}
  /\ window = [k \in Keys |-> -1]

Committed(j) == rows[j].state # "absent" /\ rows[j].by = NULL

\* Rows of the unique index with key k, committed or not.
Indexed(k) ==
  {j \in Jobs : rows[j].key = k /\ rows[j].mode # "coalesce" /\ rows[j].state \in Live}

-----------------------------------------------------------------------------
(* Producers.                                                              *)

\* There is a free slot for every open transaction.  A table has no such bound.
Room ==
  Cardinality({p \in Producers : tx[p].pc # "idle"}) <
    Cardinality({j \in Jobs : rows[j].state = "absent"})

Begin(p) ==
  /\ tx[p].pc = "idle" /\ Room
  /\ \E k \in Keys, m \in Modes :
       tx' = [tx EXCEPT ![p] = [NoTx EXCEPT !.pc = "open", !.key = k, !.mode = m]]
  /\ UNCHANGED <<rows, claims, owed, window>>

\* Mutant: a claim is taken over at the moment it expires, not after.
ClaimEarly(p) ==
  LET k == tx[p].key  now == -tx[p].age IN
  /\ tx[p].pc = "open" /\ tx[p].mode = "window"
  /\ claims[k].by = NULL
  /\ claims[k].expires <= now
  /\ claims' = [claims EXCEPT ![k] = [expires |-> now + TTL, by |-> p,
                                      undo |-> claims[k].expires]]
  /\ tx' = [tx EXCEPT ![p].pc = "claimed"]
  /\ UNCHANGED <<rows, owed, window>>

\* enqueueClaimSQL: an unexpired claim is a duplicate, an expired one is taken over.
Claim(p) ==
  LET k == tx[p].key  now == -tx[p].age IN
  /\ tx[p].pc = "open" /\ tx[p].mode = "window"
  /\ claims[k].by = NULL
  /\ IF claims[k].expires < now
     THEN /\ claims' = [claims EXCEPT ![k] = [expires |-> now + TTL, by |-> p,
                                              undo |-> claims[k].expires]]
          /\ tx' = [tx EXCEPT ![p].pc = "claimed"]
     ELSE /\ tx' = [tx EXCEPT ![p].pc = "dropped"]
          /\ UNCHANGED claims
  /\ UNCHANGED <<rows, owed, window>>

\* Mutant: a job that has started coalesces as well.
DuplicateOfActive(p) ==
  IF tx[p].mode = "coalesce"
  THEN \E j \in Jobs : /\ Committed(j) /\ rows[j].mode = "coalesce"
                       /\ rows[j].key = tx[p].key /\ rows[j].state \in {"pending", "active"}
  ELSE Indexed(tx[p].key) # {}

\* Whether enqueueInsertSQL returns no row: ON CONFLICT DO NOTHING, or NOT EXISTS.
Duplicate(p) ==
  IF tx[p].mode = "coalesce"
  THEN \E j \in Jobs : /\ Committed(j) /\ rows[j].mode = "coalesce"
                       /\ rows[j].key = tx[p].key /\ rows[j].state = "pending"
  ELSE Indexed(tx[p].key) # {}

\* A new row has no history, so any slot will do.
FreeSlot == CHOOSE j \in Jobs : rows[j].state = "absent"

Insert(p) ==
  /\ tx[p].pc = IF tx[p].mode = "window" THEN "claimed" ELSE "open"
  /\ tx[p].mode # "coalesce" => \A j \in Indexed(tx[p].key) : rows[j].by = NULL
  /\ IF Duplicate(p)
     THEN /\ tx' = [tx EXCEPT ![p].pc = "dropped"]
          /\ UNCHANGED rows
     ELSE /\ rows' = [rows EXCEPT ![FreeSlot] = [state |-> "pending", key |-> tx[p].key,
                                                 mode |-> tx[p].mode, by |-> p]]
          /\ tx' = [tx EXCEPT ![p].pc = "inserted"]
  /\ UNCHANGED <<claims, owed, window>>

Later(n, m) == IF n > m THEN n ELSE m

\* Mutant: the claim stays locked after the commit.
CommitKeepsClaim(p) ==
  /\ tx[p].pc \in {"inserted", "dropped"}
  /\ rows' = [j \in Jobs |-> IF rows[j].by = p THEN [rows[j] EXCEPT !.by = NULL] ELSE rows[j]]
  /\ tx' = [tx EXCEPT ![p] = NoTx]
  /\ UNCHANGED <<claims, owed, window>>

\* Enqueue's caller had its data committed before the call, and a run that started
\* since has seen it.  owed says nothing of EnqueueTx, whose data becomes visible
\* only now.
Commit(p) ==
  LET k == tx[p].key IN
  /\ tx[p].pc \in {"inserted", "dropped"}
  /\ rows' = [j \in Jobs |-> IF rows[j].by = p THEN [rows[j] EXCEPT !.by = NULL] ELSE rows[j]]
  /\ claims' = IF claims[k].by = p
               THEN [claims EXCEPT ![k] = [@ EXCEPT !.by = NULL, !.undo = Long]]
               ELSE claims
  /\ window' = IF tx[p].pc = "inserted" /\ tx[p].mode = "window"
               THEN [window EXCEPT ![k] = Later(TTL - tx[p].age, -1)]
               ELSE window
  /\ owed' = IF tx[p].mode = "coalesce" /\ ~tx[p].seen
             THEN owed \cup {k} ELSE owed
  /\ tx' = [tx EXCEPT ![p] = NoTx]

\* A failed statement, a cancelled context or the caller's own choice.
Rollback(p) ==
  /\ tx[p].pc # "idle"
  /\ rows' = [j \in Jobs |-> IF rows[j].by = p THEN NoRow ELSE rows[j]]
  /\ claims' = [k \in Keys |->
                  IF claims[k].by = p
                  THEN [expires |-> claims[k].undo, by |-> NULL, undo |-> Long]
                  ELSE claims[k]]
  /\ tx' = [tx EXCEPT ![p] = NoTx]
  /\ UNCHANGED <<owed, window>>

-----------------------------------------------------------------------------
(* Workers, maintenance, operators and time.                               *)

\* A run sees all the data that is visible when it starts.
DequeueBatch(j) ==
  LET looks(k) == rows[j].mode = "coalesce" /\ rows[j].key = k IN
  /\ Committed(j) /\ rows[j].state = "pending"
  /\ rows' = [rows EXCEPT ![j].state = "active"]
  /\ owed' = {k \in owed : ~looks(k)}
  /\ tx' = [p \in Producers |->
              IF looks(tx[p].key) THEN [tx[p] EXCEPT !.seen = TRUE] ELSE tx[p]]
  /\ UNCHANGED <<claims, window>>

\* A handler ends its job, or fails and is tried again.
Settle(j) ==
  /\ rows[j].state = "active"
  /\ \E s \in Endings \cup {"pending"} : rows' = [rows EXCEPT ![j].state = s]
  /\ UNCHANGED <<claims, tx, owed, window>>

\* Mutant: a revived row does not enter the index.
RevivableAlways(j) == TRUE

\* A revived row enters the unique index again: it must not meet a live row with
\* its key, and waits for one that is not committed.
Revivable(j) == rows[j].mode = "coalesce" \/ Indexed(rows[j].key) = {}

RetryJob(j) ==
  /\ rows[j].state = "dead" /\ Revivable(j)
  /\ rows' = [rows EXCEPT ![j].state = "pending"]
  /\ UNCHANGED <<claims, tx, owed, window>>

DeadJobs == {j \in Jobs : rows[j].state = "dead"}

\* One statement per batch: a row that violates the index fails the whole batch.
RetryAllDead ==
  /\ DeadJobs # {}
  /\ \A j \in DeadJobs : Revivable(j)
  /\ \A i, j \in DeadJobs :
       i # j /\ rows[i].key = rows[j].key => "coalesce" \in {rows[i].mode, rows[j].mode}
  /\ rows' = [j \in Jobs |->
                IF j \in DeadJobs THEN [rows[j] EXCEPT !.state = "pending"] ELSE rows[j]]
  /\ UNCHANGED <<claims, tx, owed, window>>

\* VacuumCompleted and VacuumDead.
Vacuum(j) ==
  /\ rows[j].state \in {"succeeded", "dead"}
  /\ rows' = [rows EXCEPT ![j] = NoRow]
  /\ UNCHANGED <<claims, tx, owed, window>>

\* The vacuum's own now() is the present.
VacuumIdempotency(k) ==
  /\ claims[k].by = NULL /\ claims[k].expires < 0
  /\ claims' = [claims EXCEPT ![k].expires = Long]
  /\ UNCHANGED <<rows, tx, owed, window>>

Tick ==
  /\ \A p \in Producers : tx[p].pc # "idle" => tx[p].age < MaxOpen
  /\ tx' = [p \in Producers |->
              IF tx[p].pc = "idle" THEN tx[p] ELSE [tx[p] EXCEPT !.age = @ + 1]]
  /\ claims' = [k \in Keys |-> [claims[k] EXCEPT !.expires = Later(@ - 1, Long),
                                                !.undo = Later(@ - 1, Long)]]
  /\ window' = [k \in Keys |-> Later(window[k] - 1, -1)]
  /\ UNCHANGED <<rows, owed>>

Next ==
  \/ \E p \in Producers : Begin(p) \/ Claim(p) \/ Insert(p) \/ Commit(p) \/ Rollback(p)
  \/ \E j \in Jobs : DequeueBatch(j) \/ Settle(j) \/ RetryJob(j) \/ Vacuum(j)
  \/ \E k \in Keys : VacuumIdempotency(k)
  \/ RetryAllDead \/ Tick

Spec == Init /\ [][Next]_vars
-----------------------------------------------------------------------------
(* Properties.                                                             *)

\* A key has one live job at most, committed or about to be, whatever enqueues,
\* retries of dead jobs and settlements race.
OneLiveJob == \A k \in Keys : Cardinality(Indexed(k)) <= 1

\* IdempotencyKeyTTL accepts no second job while the window of the job accepted
\* before is open, though a window is counted from the start of a transaction
\* that may commit much later, and VacuumIdempotency removes claims meanwhile.
OncePerWindow ==
  [][\A p \in Producers :
       /\ tx[p].pc = "inserted" /\ tx[p].mode = "window"
       /\ \E j \in Jobs : rows[j].by = p /\ rows'[j] = [rows[j] EXCEPT !.by = NULL]
       => window[tx[p].key] < 0]_vars

\* queue.CoalesceKey: an enqueue that returned, dropped or not, has a job that has
\* not started yet, or a run has started since its data became visible.  "A
\* redundant run, never a missed one".
SignalHasJob ==
  \A k \in owed : \E j \in Jobs :
    Committed(j) /\ rows[j].mode = "coalesce" /\ rows[j].key = k /\ rows[j].state = "pending"

\* Statements end: the locks they wait for are released, and PostgreSQL grants
\* them in turn.
Fairness == \A p \in Producers : SF_vars(Claim(p) \/ Insert(p) \/ Commit(p))

FairSpec == Spec /\ Fairness

\* Every enqueue returns: no two transactions wait for each other's keys.
EnqueueReturns == \A p \in Producers : tx[p].pc # "idle" ~> tx[p].pc = "idle"
=============================================================================
