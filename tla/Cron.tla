---------------------------------- MODULE Cron ---------------------------------
(***************************************************************************)
(* One cron entry of the queue runtime (queue/cron.go) on several          *)
(* instances, and the leadership they compete for (leader.go).             *)
(*                                                                         *)
(* Leadership is a session-scoped advisory lock: when the session dies the *)
(* lock is free at once, and the instance learns of it from Valid at its   *)
(* next tick.  A tick is the check or the acquisition, then one Enqueue    *)
(* after another, so another instance may lead before the tick is over.    *)
(* Enqueue with a window is one step here; Dedupe shows why it may be.     *)
(***************************************************************************)
EXTENDS Integers, FiniteSetsExt

CONSTANTS
  Instances,    \* workers with the entry registered
  Electors,     \* of {"lease", "plain"}: what the driver implements
  Occurrences,  \* times at which the schedule fires
  Window,       \* cronOccurrenceWindow
  Horizon       \* bound on now

ASSUME Schedule == Horizon \in Nat /\ Window \in Nat /\ Occurrences \subseteq 1..Horizon

Never == Horizon + 1
None == -1

VARIABLES
  elector,  \* LeaseElector, or LeaderElector alone
  now,
  lock,     \* the instance whose session holds the advisory lock, or None
  cron,     \* per instance: pc, the lease, e.next (0 is the zero time), the tick's now
  claims,   \* azync_idempotency_keys: when the key was claimed, None without a row
  fired,    \* jobs inserted for each occurrence
  counted   \* per instance: the time of its first acquisition

cronVars == <<elector, now, lock, cron, claims, fired, counted>>

\* cron.Schedule.Next: the first occurrence after t.
ScheduleNext(t) == Min({o \in Occurrences : o > t} \cup {Never})

\* Mutant: the key is made of the time of the tick.
KeyByTick(i, o) == cron[i].at

\* The key of an occurrence is made of the occurrence's own time.
cronOccurrenceKey(i, o) == o

Stopped == [pc |-> "idle", lease |-> "nil", next |-> 0, at |-> 0]

CronInit ==
  /\ elector \in Electors
  /\ now = 0 /\ lock = None
  /\ cron = [i \in Instances |-> Stopped]
  /\ claims = [o \in 0..Never |-> None]
  /\ fired = [o \in Occurrences |-> 0]
  /\ counted = [i \in Instances |-> Never]

\* lease.Valid pings the session that holds the lock; a plain elector's lease is
\* always valid.
Valid(i) == cron[i].lease = "held" /\ (elector = "plain" \/ lock = i)

\* A tick of the leader.
TickLeads(i) ==
  /\ cron[i].pc = "idle" /\ Valid(i)
  /\ cron' = [cron EXCEPT ![i].pc = "fire", ![i].at = now]
  /\ UNCHANGED <<elector, now, lock, claims, fired, counted>>

\* e.next of a leader that re-acquires is kept; the first one counts from now.
NextOnAcquire(i) == IF cron[i].next = 0 THEN ScheduleNext(now) ELSE cron[i].next

\* A tick without a valid lease that takes the lock, which is free.
TickAcquires(i) ==
  /\ cron[i].pc = "idle" /\ ~Valid(i)
  /\ lock = None
  /\ lock' = i
  /\ cron' = [cron EXCEPT ![i] = [pc |-> "fire", lease |-> "held",
                                  next |-> NextOnAcquire(i), at |-> now]]
  /\ counted' = [counted EXCEPT ![i] = IF cron[i].next = 0 THEN now ELSE @]
  /\ UNCHANGED <<elector, now, claims, fired>>

\* A tick that finds the lease lost and does not get another: another instance
\* leads, or the attempt failed.
TickYields(i) ==
  /\ cron[i].pc = "idle" /\ cron[i].lease = "held" /\ ~Valid(i)
  /\ cron' = [cron EXCEPT ![i].lease = "nil"]
  /\ UNCHANGED <<elector, now, lock, claims, fired, counted>>

Due(i) == cron[i].pc = "fire" /\ cron[i].next <= cron[i].at

\* Enqueue with IdempotencyKeyTTL: no second job while the claim lasts.
Enqueue(k, o) ==
  IF claims[k] # None /\ now <= claims[k] + Window
  THEN UNCHANGED <<claims, fired>>
  ELSE /\ claims' = [claims EXCEPT ![k] = now]
       /\ fired' = [fired EXCEPT ![o] = @ + 1]

\* One round of the inner loop.
Fire(i) ==
  /\ Due(i)
  /\ Enqueue(cronOccurrenceKey(i, cron[i].next), cron[i].next)
  /\ cron' = [cron EXCEPT ![i].next = ScheduleNext(@)]
  /\ UNCHANGED <<elector, now, lock, counted>>

\* Mutant: the loop goes on with the next occurrence after an error.
FireGoesOn(i) ==
  /\ Due(i)
  /\ cron' = [cron EXCEPT ![i].next = ScheduleNext(@)]
  /\ UNCHANGED <<elector, now, lock, claims, fired, counted>>

\* Enqueue returns an error, whether or not its transaction committed: the
\* occurrence is tried again at the next tick.
FireFails(i) ==
  /\ Due(i)
  /\ cron' = [cron EXCEPT ![i].pc = "idle"]
  /\ \/ Enqueue(cronOccurrenceKey(i, cron[i].next), cron[i].next)
     \/ UNCHANGED <<claims, fired>>
  /\ UNCHANGED <<elector, now, lock, counted>>

\* Nothing more is due at the time of the tick.
TickEnds(i) ==
  /\ cron[i].pc = "fire" /\ ~Due(i)
  /\ cron' = [cron EXCEPT ![i].pc = "idle"]
  /\ UNCHANGED <<elector, now, lock, claims, fired, counted>>

\* The session that holds the lock dies, with or without its process.
LoseSession ==
  /\ lock # None
  /\ lock' = None
  /\ UNCHANGED <<elector, now, cron, claims, fired, counted>>

\* The worker stops: ctx ends, the lease is released, and what the loop knew is
\* gone.  It may be started again as a new process.
Stop(i) ==
  /\ cron[i] # Stopped
  /\ cron' = [cron EXCEPT ![i] = Stopped]
  /\ counted' = [counted EXCEPT ![i] = Never]
  /\ lock' = IF lock = i THEN None ELSE lock
  /\ UNCHANGED <<elector, now, claims, fired>>

Tick ==
  /\ now < Horizon
  /\ now' = now + 1
  /\ UNCHANGED <<elector, lock, cron, claims, fired, counted>>

CronNext ==
  \/ \E i \in Instances : \/ TickLeads(i) \/ TickAcquires(i) \/ TickYields(i)
                          \/ Fire(i) \/ FireFails(i) \/ TickEnds(i) \/ Stop(i)
  \/ LoseSession
  \/ Tick

CronSpec == CronInit /\ [][CronNext]_cronVars

-------------------------------------------------------------------------------

\* cron.go, "even two transient leaders produce exactly one job per occurrence":
\* until the window that opens at the occurrence is over, at most one job was
\* inserted for it, whoever led and however often a tick was repeated.
FiredOnce == \A o \in Occurrences : now <= o + Window => fired[o] <= 1

\* An error of Enqueue, a lost lease or a re-acquisition skips nothing: what an
\* instance has passed since it first led was fired, by it or by another.
NothingSkipped ==
  \A i \in Instances, o \in Occurrences :
    counted[i] < o /\ o < cron[i].next => fired[o] > 0
===============================================================================
