--------------------------------- MODULE Outbox --------------------------------
(***************************************************************************)
(* The outbox (outbox.go): writes captured in transactions of one database *)
(* and forwarded to the store of another by any number of Drain calls.     *)
(*                                                                         *)
(* The two databases share no transaction.  Forwarding a row commits in    *)
(* the target at once; its removal commits with the drain, later or never. *)
(***************************************************************************)
EXTENDS Integers, FiniteSets

CONSTANTS
  Items,        \* writes, by the id the runtime gave them
  KindOf,       \* of each: "event", "job", "dag", or "bad": it does not decode
  Drains,       \* concurrent callers of Drain
  Limit,        \* rows that one Drain reads
  Targets       \* of {"full", "noDAG", "forgetful"}: what the target is like

VARIABLES
  target,   \* a DAGStore or not; with a retention shorter than a drain or not
  app,      \* per item: the caller's transaction, "none", "open", "committed" or "aborted"
  seq,      \* per item: seq of its row in azync_outbox, assigned at the insert
  state,    \* per item: its row, "none", "live", "quarantined" or "removed"
  drain,    \* per drain: pc, claimed rows still to forward, to remove, to quarantine
  held,     \* ids the target has
  stored,   \* times the target stored each item, 2 for twice or more
  answered  \* items the target stored or refused as duplicates of a key

outboxVars == <<target, app, seq, state, drain, held, stored, answered>>

Idle == [pc |-> "idle", batch |-> {}, done |-> {}, bad |-> {}]

OutboxInit ==
  /\ target \in Targets
  /\ app = [i \in Items |-> "none"]
  /\ seq = [i \in Items |-> 0]
  /\ state = [i \in Items |-> "none"]
  /\ drain = [d \in Drains |-> Idle]
  /\ held = {}
  /\ stored = [i \in Items |-> 0]
  /\ answered = {}

\* capture: PublishTx, EnqueueTx or CreateDAGTx of an outbox store, as the write
\* of item i in its caller's transaction.
capture(i) ==
  /\ app[i] = "none"
  /\ app' = [app EXCEPT ![i] = "open"]
  /\ seq' = [seq EXCEPT ![i] = 1 + Cardinality({j \in Items : app[j] # "none"})]
  /\ UNCHANGED <<target, state, drain, held, stored, answered>>

Commit(i) ==
  /\ app[i] = "open"
  /\ app' = [app EXCEPT ![i] = "committed"]
  /\ state' = [state EXCEPT ![i] = "live"]
  /\ UNCHANGED <<target, seq, drain, held, stored, answered>>

Abort(i) ==
  /\ app[i] = "open"
  /\ app' = [app EXCEPT ![i] = "aborted"]
  /\ UNCHANGED <<target, seq, state, drain, held, stored, answered>>

\* Rows locked by a drain until its transaction ends.
Locked == UNION {drain[d].batch \cup drain[d].done \cup drain[d].bad : d \in Drains}

\* FOR UPDATE SKIP LOCKED.
Claimable == {i \in Items : state[i] = "live" /\ i \notin Locked}

\* ORDER BY seq LIMIT: as many as the limit allows, the first ones.
claim(d) ==
  /\ drain[d].pc = "idle"
  /\ \E batch \in SUBSET Claimable :
       /\ batch # {} /\ Cardinality(batch) <= Limit
       /\ batch = Claimable \/ Cardinality(batch) = Limit
       /\ \A i \in batch, j \in Claimable \ batch : seq[i] < seq[j]
       /\ drain' = [drain EXCEPT ![d] = [Idle EXCEPT !.pc = "forward", !.batch = batch]]
  /\ UNCHANGED <<target, app, seq, state, held, stored, answered>>

\* Row i is the one that drain d is at.
At(d, i) ==
  /\ drain[d].pc = "forward" /\ i \in drain[d].batch
  /\ \A j \in drain[d].batch : seq[i] <= seq[j]

Supported(i) == KindOf[i] # "dag" \/ target # "noDAG"

\* Row i has reached the target, or can never reach it, and the batch goes on.
Removed(d, i) ==
  [drain[d] EXCEPT !.batch = drain[d].batch \ {i}, !.done = drain[d].done \cup {i}]
SetAside(d, i) ==
  [drain[d] EXCEPT !.batch = drain[d].batch \ {i}, !.bad = drain[d].bad \cup {i}]

\* The batch ends before its last row.
Cut(d) == [drain[d] EXCEPT !.pc = "commit", !.batch = {}]

\* Mutant: the target does not look whether it has the id.
StoreBlindly(i) ==
  /\ held' = held \cup {i}
  /\ stored' = [stored EXCEPT ![i] = IF @ = 0 THEN 1 ELSE 2]
  /\ answered' = answered \cup {i}

\* Publish, Enqueue or CreateDAG of the target: an id it has is ErrAlreadyExists,
\* a job or a DAG may be a duplicate of a key, else the item is stored.
Store(i) ==
  \/ /\ i \in held
     /\ UNCHANGED <<held, stored, answered>>
  \/ /\ i \notin held /\ KindOf[i] # "event"
     /\ answered' = answered \cup {i}
     /\ UNCHANGED <<held, stored>>
  \/ /\ i \notin held
     /\ held' = held \cup {i}
     /\ stored' = [stored EXCEPT ![i] = IF @ = 0 THEN 1 ELSE 2]
     /\ answered' = answered \cup {i}

\* forward: the target has the row now, or had it, or refused it as a duplicate.
forward(d, i) ==
  /\ At(d, i) /\ KindOf[i] # "bad" /\ Supported(i)
  /\ Store(i)
  /\ drain' = [drain EXCEPT ![d] = Removed(d, i)]
  /\ UNCHANGED <<target, app, seq, state>>

\* Mutant: a row that does not decode is an error like any other.
StopAtBadRow(d, i) ==
  /\ At(d, i) /\ KindOf[i] = "bad"
  /\ drain' = [drain EXCEPT ![d] = Cut(d)]
  /\ UNCHANGED <<target, app, seq, state, held, stored, answered>>

\* undecodableRowError: no retry will ever forward it.
quarantine(d, i) ==
  /\ At(d, i) /\ KindOf[i] = "bad"
  /\ drain' = [drain EXCEPT ![d] = SetAside(d, i)]
  /\ UNCHANGED <<target, app, seq, state, held, stored, answered>>

\* Mutant: the row at which the batch stopped is deleted with the others.
StopRemoves(d, i) ==
  /\ At(d, i) /\ KindOf[i] # "bad"
  /\ drain' = [drain EXCEPT ![d] = [Removed(d, i) EXCEPT !.pc = "commit", !.batch = {}]]
  /\ \/ Supported(i) /\ Store(i)
     \/ UNCHANGED <<held, stored, answered>>
  /\ UNCHANGED <<target, app, seq, state>>

\* Any other error stops the batch, whether or not the target committed: the row
\* and the rest of the batch stay.
stop(d, i) ==
  /\ At(d, i) /\ KindOf[i] # "bad"
  /\ drain' = [drain EXCEPT ![d] = Cut(d)]
  /\ \/ Supported(i) /\ Store(i)
     \/ UNCHANGED <<held, stored, answered>>
  /\ UNCHANGED <<target, app, seq, state>>

\* The batch is through.
endBatch(d) ==
  /\ drain[d].pc = "forward" /\ drain[d].batch = {}
  /\ drain' = [drain EXCEPT ![d].pc = "commit"]
  /\ UNCHANGED <<target, app, seq, state, held, stored, answered>>

\* The drain's transaction commits its deletes and quarantines.
commit(d) ==
  /\ drain[d].pc = "commit"
  /\ state' = [i \in Items |-> IF i \in drain[d].done THEN "removed"
                               ELSE IF i \in drain[d].bad THEN "quarantined" ELSE state[i]]
  /\ drain' = [drain EXCEPT ![d] = Idle]
  /\ UNCHANGED <<target, app, seq, held, stored, answered>>

\* The transaction is rolled back: the process dies, a statement on db or the
\* commit fails.  The target keeps what it was given.
rollback(d) ==
  /\ drain[d].pc # "idle"
  /\ drain' = [drain EXCEPT ![d] = Idle]
  /\ UNCHANGED <<target, app, seq, state, held, stored, answered>>

\* Somebody clears quarantined_at.
Requeue(i) ==
  /\ state[i] = "quarantined"
  /\ state' = [state EXCEPT ![i] = "live"]
  /\ UNCHANGED <<target, app, seq, drain, held, stored, answered>>

\* The target's retention removes what it was given.
Forget(i) ==
  /\ target = "forgetful" /\ i \in held
  /\ held' = held \ {i}
  /\ UNCHANGED <<target, app, seq, state, drain, stored, answered>>

Drain(d) ==
  \/ claim(d) \/ endBatch(d) \/ commit(d)
  \/ \E i \in Items : forward(d, i) \/ quarantine(d, i) \/ stop(d, i)

OutboxNext ==
  \/ \E i \in Items : capture(i) \/ Commit(i) \/ Abort(i) \/ Requeue(i) \/ Forget(i)
  \/ \E d \in Drains : Drain(d) \/ rollback(d)

OutboxSpec == OutboxInit /\ [][OutboxNext]_outboxVars

-------------------------------------------------------------------------------

\* outbox.go, "Forwarding is at-least-once and never duplicates": while the target
\* keeps what it was given, it stores a captured write at most once, though
\* drains run side by side, die between forwarding and removing, and lose
\* answers.
NeverTwice == target # "forgetful" => \A i \in Items : stored[i] <= 1

\* A write is forwarded only if its transaction committed, its row is removed only
\* after the target answered for it, and set aside only if it does not decode.
NothingLost ==
  \A i \in Items :
    /\ i \in answered => app[i] = "committed"
    /\ state[i] = "removed" => i \in answered
    /\ state[i] = "quarantined" => KindOf[i] = "bad"
    /\ app[i] = "committed" => state[i] # "none"

\* Drain is called again and again, and the target is not down for ever.
OutboxFairness ==
  \A d \in Drains :
    /\ WF_outboxVars(claim(d) \/ endBatch(d) \/ commit(d) \/ \E i \in Items : quarantine(d, i))
    /\ SF_outboxVars(\E i \in Items : forward(d, i))

\* A rollback that is not the commit of nothing.
Undone(d) ==
  rollback(d) /\ (drain[d].pc = "forward" \/ drain[d].done \cup drain[d].bad # {})

\* From some time on drains commit, and nobody puts back rows that were set aside.
Undisturbed == <>[][(\A i \in Items : ~Requeue(i)) /\ \A d \in Drains : ~Undone(d)]_outboxVars

\* A committed row leaves the outbox: none waits behind a row that never
\* decodes.  The target takes every kind.
OutboxEmpties ==
  target # "noDAG" /\ Undisturbed =>
    \A i \in Items : app[i] = "committed" ~> state[i] \in {"removed", "quarantined"}
===============================================================================
