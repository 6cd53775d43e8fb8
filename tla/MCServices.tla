----------------------------- MODULE MCServices -----------------------------
(* Instances of Cron, Outbox, Events and Listener for TLC.  They share no   *)
(* state, so a behaviour is one of any of them and the others stand still.  *)
EXTENDS Cron, Outbox, Events, Listener

CONSTANTS a, b, Parts

VARIABLE part

\* A row that does not decode and a DAG.
KindOfRow == [i \in {a, b} |-> IF i = a THEN "bad" ELSE "dag"]

vars == <<part, cronVars, outboxVars, eventsVars, listenerVars>>

Init ==
  /\ part \in Parts /\ CronInit /\ OutboxInit /\ EventsInit /\ ListenerInit
  /\ part # "cron" => elector = "lease"
  /\ part # "outbox" => target = "full"

CronStep == part = "cron" /\ CronNext /\ UNCHANGED <<part, outboxVars, eventsVars, listenerVars>>
OutboxStep == part = "outbox" /\ OutboxNext /\ UNCHANGED <<part, cronVars, eventsVars, listenerVars>>
EventsStep == part = "events" /\ EventsNext /\ UNCHANGED <<part, cronVars, outboxVars, listenerVars>>
ListenerStep == part = "listener" /\ ListenerNext /\ UNCHANGED <<part, cronVars, outboxVars, eventsVars>>

Next == CronStep \/ OutboxStep \/ EventsStep \/ ListenerStep

Spec == Init /\ [][Next]_vars

\* Outbox.Drain: a committed row leaves the outbox, whatever does not decode
\* before it, when drains go on.
OutboxLive == part = "outbox" => (OutboxFairness => OutboxEmpties)

\* deliverLocked and Watch: a consumer that is behind refetches, when goroutines
\* run and what it watches keeps changing.
ListenerLive == part = "listener" => (ListenerFairness => GapCloses)
=============================================================================
