--------------------------------- MODULE Events --------------------------------
(***************************************************************************)
(* The event ledger, its subscribers and deliveries (store_events.go and   *)
(* the event runtime), for events of one type.                             *)
(*                                                                         *)
(* A delivery is a row of JobStore; here it is leased and settled without  *)
(* its budget.  Retain is one DELETE whose subquery reads a snapshot; the  *)
(* foreign key then removes whatever deliveries there are by that time, so *)
(* it is two steps.  A delivery that is inserted or revived in between     *)
(* locks no more than the event's key, which does not make the DELETE look *)
(* again.                                                                  *)
(***************************************************************************)
EXTENDS FiniteSets

CONSTANTS
  Ids,          \* events
  Subscribers

VARIABLES
  subs,     \* azync_subscribers: names registered for the type
  ledger,   \* per event: "none", "new", "old" (before the cutoff) or "retained"
  job,      \* per delivery: the state of its row, "none" without one
  owed,     \* per event: the subscribers at its publish
  served,   \* per event: subscribers whose delivery has ended or was drained
  sweep,    \* events that the Retain under way will delete
  draining  \* states that DrainSubscriber has yet to delete, per subscriber

eventsVars == <<subs, ledger, job, owed, served, sweep, draining>>

\* Deliveries of a publish, and of a replay of it.
Deliveries == Ids \X Subscribers \X {"publish", "replay"}
Of(e) == {d \in Deliveries : d[1] = e}

\* Of the states none, pending, scheduled, active, succeeded and dead; the event
\* runtime never pauses a delivery.
Terminal == {"none", "succeeded", "dead"}

EventsInit ==
  /\ subs = {}
  /\ ledger = [e \in Ids |-> "none"]
  /\ job = [d \in Deliveries |-> "none"]
  /\ owed = [e \in Ids |-> {}]
  /\ served = [e \in Ids |-> {}]
  /\ sweep = {}
  /\ draining = [s \in Subscribers |-> {}]

InLedger(e) == ledger[e] \in {"new", "old"}

\* RegisterSubscriber: by Publisher.Register, or by the Start of a worker.  A name
\* that is there already is left as it is, and so is one that is not by the next.
RegisterSubscriber(s) ==
  /\ s \notin subs
  /\ subs' = subs \cup {s}
  /\ UNCHANGED <<ledger, job, owed, served, sweep, draining>>

DeleteSubscriber(s) ==
  /\ s \in subs
  /\ subs' = subs \ {s}
  /\ UNCHANGED <<ledger, job, owed, served, sweep, draining>>

\* Publish: the event, and a delivery for each subscriber there is.
Publish(e) ==
  /\ ledger[e] = "none"
  /\ ledger' = [ledger EXCEPT ![e] = "new"]
  /\ job' = [d \in Deliveries |-> IF d[1] = e /\ d[2] \in subs /\ d[3] = "publish"
                                  THEN "pending" ELSE job[d]]
  /\ owed' = [owed EXCEPT ![e] = subs]
  /\ UNCHANGED <<subs, served, sweep, draining>>

\* Replay of one event: fresh deliveries for today's subscribers, or for the one
\* that the filter names.  One replay of a delivery is followed at a time.
Replay(e, to) ==
  /\ InLedger(e) /\ to \cap subs # {}
  /\ \A s \in to \cap subs : job[<<e, s, "replay">>] = "none"
  /\ job' = [d \in Deliveries |-> IF d[1] = e /\ d[2] \in to \cap subs /\ d[3] = "replay"
                                  THEN "pending" ELSE job[d]]
  /\ UNCHANGED <<subs, ledger, owed, served, sweep, draining>>

\* What the lease of a delivery ends in; a handler without a binding for the
\* type, or whose payload does not decode, makes it dead.
Attempt(d) ==
  /\ \/ /\ job[d] = "pending"
        /\ job' = [job EXCEPT ![d] = "active"]
        /\ UNCHANGED served
     \/ /\ job[d] = "active"
        /\ \E s \in {"succeeded", "dead"} : job' = [job EXCEPT ![d] = s]
        /\ served' = [served EXCEPT ![d[1]] = @ \cup {d[2]}]
     \/ /\ job[d] = "active"
        /\ job' = [job EXCEPT ![d] = "scheduled"]
        /\ UNCHANGED served
     \/ /\ job[d] = "scheduled"
        /\ job' = [job EXCEPT ![d] = "pending"]
        /\ UNCHANGED served
  /\ UNCHANGED <<subs, ledger, owed, sweep, draining>>

\* Manager.Retry and RetryDead.
Retry(d) ==
  /\ job[d] = "dead"
  /\ job' = [job EXCEPT ![d] = "pending"]
  /\ UNCHANGED <<subs, ledger, owed, served, sweep, draining>>

\* Retention of completed and dead jobs.
Vacuum(d) ==
  /\ job[d] \in {"succeeded", "dead"}
  /\ job' = [job EXCEPT ![d] = "none"]
  /\ UNCHANGED <<subs, ledger, owed, served, sweep, draining>>

\* DrainSubscriber: a DeleteAll for each state, one after another.
DrainSubscriber(s) ==
  /\ draining[s] = {}
  /\ draining' = [draining EXCEPT ![s] = {"pending", "scheduled"}]
  /\ UNCHANGED <<subs, ledger, job, owed, served, sweep>>

DeleteAll(s) ==
  /\ draining[s] # {}
  /\ LET state == IF "pending" \in draining[s] THEN "pending" ELSE "scheduled"
         gone == {d \in Deliveries : d[2] = s /\ job[d] = state} IN
     /\ job' = [d \in Deliveries |-> IF d \in gone THEN "none" ELSE job[d]]
     /\ served' = [e \in Ids |-> served[e] \cup {d[2] : d \in gone \cap Of(e)}]
     /\ draining' = [draining EXCEPT ![s] = @ \ {state}]
  /\ UNCHANGED <<subs, ledger, owed, sweep>>

\* Time passes: the event is older than the ledger's retention.
Age(e) ==
  /\ ledger[e] = "new"
  /\ ledger' = [ledger EXCEPT ![e] = "old"]
  /\ UNCHANGED <<subs, job, owed, served, sweep, draining>>

\* Mutant: only leased deliveries hold an event back.
RetainableIdle(e) == ledger[e] = "old" /\ \A d \in Of(e) : job[d] # "active"

\* Old, and without a delivery that is not succeeded or dead.
Retainable(e) == ledger[e] = "old" /\ \A d \in Of(e) : job[d] \in Terminal

\* The subquery of retainSQL, at most a batch.
RetainReads ==
  /\ sweep = {}
  /\ \E batch \in SUBSET {e \in Ids : Retainable(e)} :
       batch # {} /\ sweep' = batch
  /\ UNCHANGED <<subs, ledger, job, owed, served, draining>>

\* The DELETE, and the cascade to deliveries.
RetainWrites ==
  /\ sweep # {}
  /\ ledger' = [e \in Ids |-> IF e \in sweep THEN "retained" ELSE ledger[e]]
  /\ job' = [d \in Deliveries |-> IF d[1] \in sweep THEN "none" ELSE job[d]]
  /\ sweep' = {}
  /\ UNCHANGED <<subs, owed, served, draining>>

EventsNext ==
  \/ \E s \in Subscribers : \/ RegisterSubscriber(s) \/ DeleteSubscriber(s)
                            \/ DrainSubscriber(s) \/ DeleteAll(s)
  \/ \E e \in Ids : Publish(e) \/ Age(e) \/ \E to \in {Subscribers} \cup {{s} : s \in Subscribers} : Replay(e, to)
  \/ \E d \in Deliveries : Attempt(d) \/ Retry(d) \/ Vacuum(d)
  \/ RetainReads \/ RetainWrites

EventsSpec == EventsInit /\ [][EventsNext]_eventsVars

-------------------------------------------------------------------------------

\* Retention, though it races replays, retries and drains, never removes an event
\* that one of the subscribers of its publish has not been served yet.
RetainedServed == \A e \in Ids : ledger[e] = "retained" => owed[e] \subseteq served[e]

\* store_events.go, at retainSQL: "Events with any non-terminal delivery are
\* skipped so the cascade never wipes in-flight work."
CascadeSparesWork ==
  [][\A d \in Deliveries : ledger[d[1]] # ledger'[d[1]] /\ ledger'[d[1]] = "retained" =>
       job[d] \in Terminal]_eventsVars
===============================================================================
