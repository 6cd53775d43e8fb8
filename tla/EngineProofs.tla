---------------------------- MODULE EngineProofs ----------------------------
(***************************************************************************)
(* Proofs about one Engine, for any kinds, callers of Start, capacities    *)
(* and troubles.                                                           *)
(*                                                                         *)
(* Calls orders the calls of Start: one is past the compare-and-swap, no   *)
(* loop runs before its setup is done, and none does once it drains.       *)
(* Steps says what a loop holds at each step.  Wakes follows a pending job *)
(* from the fetch that missed it to the select.  GlobalSlots, a sum over   *)
(* the kinds, is preserved on top of these: a step changes the slots or    *)
(* the executors of one kind (TotalChange).                                *)
(***************************************************************************)
EXTENDS Engine, FiniteSetTheorems, TLAPS

Past(c) == start[c] \notin {"idle", "failing", "failed"}

Calls ==
  /\ \A b, c \in Callers : Past(b) /\ Past(c) => b = c
  /\ \A c \in Callers : Past(c) => started
  /\ \A k \in Kinds : ~started => loop[k] = "off"
  /\ \A c \in Callers : start[c] = "setup" => \A k \in Kinds : loop[k] = "off"
  /\ \A c \in Callers : start[c] \in {"draining", "grace", "stopped", "abandoned"} =>
       \A k \in Kinds : loop[k] = "ended"
  /\ \A c \in Callers : start[c] = "stopped" => \A k \in Kinds : running[k] = 0
  /\ \A k \in Kinds : loop[k] \notin {"off", "ended"} => Subscribed

Steps ==
  \A k \in Kinds :
    /\ loop[k] \in {"off", "head", "kind", "global", "idle", "ended"} => slots[k] = 0
    /\ loop[k] \in {"more", "moreGlobal", "dequeue", "dispatch"} => slots[k] > 0
    /\ loop[k] # "dispatch" => batch[k] = 0
    /\ loop[k] = "off" => running[k] = 0

Wakes ==
  trouble \subseteq {"setup"} /\ ~stopping => \A k \in Kinds :
    /\ orphaned[k] = 0
    /\ loop[k] = "idle" \/ (loop[k] = "dispatch" /\ batch[k] = 0) =>
         pending[k] = 0 \/ notified[k] \/ wake[k]

Inv == TypeOK /\ Calls /\ Steps /\ KindSlots /\ Wakes

-----------------------------------------------------------------------------
(* The calls of Start.                                                     *)

\* Start, its setup, drain and grace period: they touch no slot but when the
\* loops are off.
LEMMA CallersPreserve ==
  ASSUME Inv, NEW c \in Callers, UNCHANGED trouble,
         \/ Start(c) \/ SetupDone(c) \/ SetupFails(c) \/ FailedReturn(c)
         \/ Drain(c) \/ Drained(c) \/ DrainTimeout(c) \/ Abandon(c)
  PROVE  Inv'
<1> USE CapacityAssumption DEF Inv, TypeOK, Calls, Steps, KindSlots, Wakes, Past, Subscribed,
      HeldKind, StartSteps, fetching, gates, backlog, waking
<1>1. CASE Start(c)
  <2>1. CASE started
    BY <1>1, <2>1 DEF Start
  <2>2. CASE ~started
    BY <1>1, <2>2 DEF Start
  <2> QED
    BY <2>1, <2>2
<1>2. CASE SetupDone(c)
  BY <1>2 DEF SetupDone, None, LoopSteps
<1>3. CASE SetupFails(c)
  BY <1>3, Zenon DEF SetupFails
<1>4. CASE FailedReturn(c)
  BY <1>4 DEF FailedReturn
<1>5. CASE Drain(c)
  BY <1>5 DEF Drain, LoopsEnded
<1>6. CASE Drained(c)
  BY <1>6 DEF Drained
<1>7. CASE DrainTimeout(c)
  BY <1>7 DEF DrainTimeout
<1>8. CASE Abandon(c)
  BY <1>8 DEF Abandon
<1> QED
  BY <1>1, <1>2, <1>3, <1>4, <1>5, <1>6, <1>7, <1>8, Zenon

-----------------------------------------------------------------------------
(* fetchLoop.                                                              *)

\* Every step of a loop accounts for the slots it takes and gives back, and a loop
\* goes idle after a fetch that saw no pending job.
LEMMA LoopsPreserve ==
  ASSUME Inv, NEW k \in Kinds, LoopStep(k), UNCHANGED trouble
  PROVE  Inv'
<1> USE CapacityAssumption DEF Inv, TypeOK, Calls, Steps, KindSlots, Wakes, Past, Subscribed,
      HeldKind, LoopSteps, Goto, Elsewhere, gates
<1>1. CASE Head(k)
  BY <1>1 DEF Head
<1>2. CASE AcquireKind(k)
  BY <1>2 DEF AcquireKind
<1>3. CASE AcquireGlobal(k)
  BY <1>3 DEF AcquireGlobal
<1>4. CASE AcquireEnds(k)
  BY <1>4 DEF AcquireEnds
<1>5. CASE TryKind(k)
  BY <1>5 DEF TryKind, Least
<1>6. CASE TryGlobal(k)
  BY <1>6 DEF TryGlobal
<1>7. CASE DequeueBatch(k)
  BY <1>7 DEF DequeueBatch, Least
<1>8. CASE DequeueFails(k)
  BY <1>8 DEF DequeueFails, Least
<1>9. CASE Dispatch(k)
  BY <1>9 DEF Dispatch
<1>10. CASE IdleEnds(k)
  BY <1>10 DEF IdleEnds
<1>11. CASE Woken(k)
  BY <1>11 DEF Woken
<1>12. CASE Poll(k)
  BY <1>12 DEF Poll
<1> QED
  BY <1>1, <1>2, <1>3, <1>4, <1>5, <1>6, <1>7, <1>8, <1>9, <1>10, <1>11, <1>12, Zenon DEF LoopStep

-----------------------------------------------------------------------------
(* Everything else, and the theorems.                                      *)

\* Executors, arriving jobs, the reaper and the notifications.
LEMMA JobsPreserve ==
  ASSUME Inv, NEW k \in Kinds, UNCHANGED trouble,
         Execute(k) \/ Arrive(k) \/ ReapExpired(k) \/ ForwardWake(k)
  PROVE  Inv'
<1> USE CapacityAssumption DEF Inv, TypeOK, Calls, Steps, KindSlots, Wakes, Past, Subscribed,
      HeldKind, fetching, gates, backlog, waking
<1>1. CASE Execute(k)
  BY <1>1 DEF Execute
<1>2. CASE Arrive(k)
  <2>1. notified' \in [Kinds -> BOOLEAN] /\ \A l \in Kinds \ {k} : notified'[l] = notified[l]
    <3>1. Subscribed \in BOOLEAN
      BY Zenon DEF Subscribed
    <3> HIDE DEF Subscribed
    <3>2. CASE notified' = [notified EXCEPT ![k] = Subscribed]
      BY <3>1, <3>2
    <3>3. CASE UNCHANGED notified
      BY <3>3
    <3> QED
      BY <1>2, <3>2, <3>3 DEF Arrive
  <2>2. trouble \subseteq {"setup"} /\ loop[k] \notin {"off", "ended"} => notified'[k]
    <3> HIDE DEF Subscribed
    <3>1. ASSUME trouble \subseteq {"setup"}, Subscribed PROVE notified'[k]
      BY <1>2, <3>1, Zenon DEF Arrive
    <3> QED
      BY <3>1
  <2>3. /\ unborn' \in [Kinds -> Nat] /\ pending' \in [Kinds -> Nat]
        /\ \A l \in Kinds \ {k} : pending'[l] = pending[l]
    BY <1>2 DEF Arrive
  <2>4. UNCHANGED <<start, started, ready, done, stopping, maintenance, loop, slots, batch, semKind,
                    semGlobal, running, orphaned, wake>>
    BY <1>2 DEF Arrive
  <2>5. Wakes'
    BY <2>1, <2>2, <2>3, <2>4
  <2> QED
    BY <2>1, <2>3, <2>4, <2>5
<1>3. CASE ReapExpired(k)
  BY <1>3 DEF ReapExpired
<1>4. CASE ForwardWake(k)
  BY <1>4 DEF ForwardWake
<1> QED
  BY <1>1, <1>2, <1>3, <1>4

\* The inductive invariant of the engine.
THEOREM EngineInvariance == Spec => []Inv
<1> USE CapacityAssumption
<1>1. Init => Inv
  <2> SUFFICES ASSUME Init PROVE Inv
    OBVIOUS
  <2>1. TypeOK
    <3>1. None \in [Kinds -> Nat] /\ 0 \in Int
      BY DEF None
    <3>2. /\ start \in [Callers -> StartSteps] /\ loop \in [Kinds -> LoopSteps]
          /\ notified \in [Kinds -> BOOLEAN] /\ wake \in [Kinds -> BOOLEAN]
      BY Zenon DEF Init, StartSteps, LoopSteps
    <3> QED
      BY <3>1, <3>2, Zenon DEF Init, TypeOK
  <2>2. Calls
    BY DEF Init, Calls, Past
  <2>3. Steps /\ KindSlots
    BY DEF Init, None, Steps, KindSlots, HeldKind
  <2>4. Wakes
    BY DEF Init, None, Wakes
  <2> QED
    BY <2>1, <2>2, <2>3, <2>4 DEF Inv
<1>2. Inv /\ [Next]_vars => Inv'
  <2> SUFFICES ASSUME Inv, [Next]_vars PROVE Inv'
    OBVIOUS
  <2>1. CASE Stop /\ UNCHANGED trouble
    BY <2>1 DEF Stop, Inv, TypeOK, Calls, Steps, KindSlots, Wakes, Past, Subscribed, HeldKind,
      fetching, gates, backlog, waking
  <2>2. CASE MaintenanceEnds /\ UNCHANGED trouble
    BY <2>2 DEF MaintenanceEnds, Inv, TypeOK, Calls, Steps, KindSlots, Wakes, Past, Subscribed,
      HeldKind, fetching, gates, backlog, waking
  <2>3. CASE UNCHANGED vars
    BY <2>3 DEF vars, Inv, TypeOK, Calls, Steps, KindSlots, Wakes, Past, Subscribed, HeldKind,
      fetching, gates, backlog, waking
  <2> QED
    BY <2>1, <2>2, <2>3, CallersPreserve, LoopsPreserve, JobsPreserve DEF Next, Calm, Step
<1> QED
  BY <1>1, <1>2, PTL DEF Spec

-----------------------------------------------------------------------------
(* The global semaphore.                                                   *)

\* A kind that counts n has n units.
LEMMA UnitsOfKind ==
  ASSUME NEW k, NEW n \in Nat
  PROVE  IsFiniteSet({k} \X (1..n)) /\ Cardinality({k} \X (1..n)) = n
<1>1. IsFiniteSet(1..n) /\ Cardinality(1..n) = n
  BY FS_Interval
<1>2. IsFiniteSet({k}) /\ Cardinality({k}) = 1
  BY FS_Singleton
<1>3. /\ IsFiniteSet({k} \X (1..n))
      /\ Cardinality({k} \X (1..n)) = Cardinality({k}) * Cardinality(1..n)
  BY <1>1, <1>2, FS_Product
<1> QED
  BY <1>1, <1>2, <1>3

\* The units of a count over some of the kinds.
LEMMA UnitsFinite ==
  ASSUME NEW f \in [Kinds -> Nat], NEW K \in SUBSET Kinds
  PROVE  IsFiniteSet(UNION {{k} \X (1..f[k]) : k \in K})
<1> DEFINE img == [k \in K |-> {k} \X (1..f[k])]
<1>1. IsFiniteSet(K)
  BY KindsAssumption, FS_Subset
<1>2. img \in Surjection(K, {{k} \X (1..f[k]) : k \in K})
  BY Zenon DEF Surjection
<1>3. IsFiniteSet({{k} \X (1..f[k]) : k \in K})
  BY <1>1, <1>2, FS_Surjection
<1>4. \A k \in K : IsFiniteSet({k} \X (1..f[k]))
  BY UnitsOfKind, Zenon
<1> QED
  BY <1>3, <1>4, FS_UNION, Zenon

\* Total is a sum: it follows the change of one kind's count.
LEMMA TotalChange ==
  ASSUME NEW f \in [Kinds -> Nat], NEW k \in Kinds, NEW m \in Nat
  PROVE  /\ Total(f) \in Nat /\ Total(f) >= f[k]
         /\ Total([f EXCEPT ![k] = m]) = (Total(f) - f[k]) + m
<1> DEFINE rest == UNION {{j} \X (1..f[j]) : j \in Kinds \ {k}}
           mine(n) == {k} \X (1..n)
<1>1. IsFiniteSet(rest) /\ Cardinality(rest) \in Nat
  BY UnitsFinite, FS_CardinalityType, Zenon
<1>2. ASSUME NEW n \in Nat
      PROVE  /\ IsFiniteSet(mine(n)) /\ Cardinality(mine(n)) = n
             /\ IsFiniteSet(rest \cup mine(n)) /\ Cardinality(rest \cup mine(n)) = Cardinality(rest) + n
  <2>1. IsFiniteSet(mine(n)) /\ Cardinality(mine(n)) = n
    BY UnitsOfKind
  <2>2. Cardinality(rest \cap mine(n)) = 0
    <3>1. rest \cap mine(n) = {}
      OBVIOUS
    <3> QED
      BY <3>1, FS_EmptySet
  <2>3. /\ IsFiniteSet(rest \cup mine(n))
        /\ Cardinality(rest \cup mine(n)) = Cardinality(rest) + Cardinality(mine(n)) - Cardinality(rest \cap mine(n))
    BY <1>1, <2>1, FS_Union
  <2> QED
    BY <1>1, <2>1, <2>2, <2>3
<1>3. Units(f) = rest \cup mine(f[k])
  BY DEF Units
<1>4. Units([f EXCEPT ![k] = m]) = rest \cup mine(m)
  BY DEF Units
<1> HIDE DEF rest, mine
<1>5. Total(f) = Cardinality(rest) + f[k]
  BY <1>2, <1>3, Zenon DEF Total
<1>6. Total([f EXCEPT ![k] = m]) = Cardinality(rest) + m
  BY <1>2, <1>4, Zenon DEF Total
<1> QED
  BY <1>1, <1>5, <1>6

\* Nothing held, nothing counted.
LEMMA TotalNone ==
  ASSUME NEW f \in [Kinds -> Nat], \A k \in Kinds : f[k] = 0
  PROVE  Total(f) = 0
<1>1. Units(f) = {}
  BY DEF Units
<1> QED
  BY <1>1, FS_EmptySet DEF Total

\* A semaphore of g units in all that executors r and loops s hold.
Balanced(g, r, s) ==
  /\ g = Total(r) + Total(s)
  /\ g <= MaxConcurrency

GlobalSlots == Balanced(semGlobal, running, slots)

\* Taking, giving back and handing over units of one kind.
LEMMA BalanceKept ==
  ASSUME NEW r \in [Kinds -> Nat], NEW s \in [Kinds -> Nat], NEW g \in Int, Balanced(g, r, s),
         NEW k \in Kinds, NEW i \in Nat, NEW j \in Nat,
         g + (i - r[k]) + (j - s[k]) <= MaxConcurrency
  PROVE  Balanced(g + (i - r[k]) + (j - s[k]), [r EXCEPT ![k] = i], [s EXCEPT ![k] = j])
<1>1. Total(r) \in Nat /\ Total([r EXCEPT ![k] = i]) = (Total(r) - r[k]) + i
  BY TotalChange, Zenon
<1>2. Total(s) \in Nat /\ Total([s EXCEPT ![k] = j]) = (Total(s) - s[k]) + j
  BY TotalChange, Zenon
<1> QED
  BY <1>1, <1>2 DEF Balanced

\* semGlobal: every path through acquire, the opportunistic grabs, a failed fetch,
\* the release of unused capacity, the executors' release and a retried Start
\* keeps its count exact.
LEMMA GlobalPreserved ==
  ASSUME Inv, GlobalSlots, [Next]_vars
  PROVE  GlobalSlots'
<1> USE CapacityAssumption
<1>0. /\ running \in [Kinds -> Nat] /\ slots \in [Kinds -> Nat] /\ batch \in [Kinds -> Nat]
      /\ semGlobal \in Int /\ semGlobal <= MaxConcurrency
      /\ Balanced(semGlobal, running, slots)
  BY DEF Inv, TypeOK, GlobalSlots, Balanced
<1>a. ASSUME NEW k \in Kinds, NEW i \in Nat, NEW j \in Nat,
             running' = [running EXCEPT ![k] = i], slots' = [slots EXCEPT ![k] = j],
             semGlobal' = semGlobal + (i - running[k]) + (j - slots[k]),
             semGlobal' <= MaxConcurrency
      PROVE  GlobalSlots'
  <2>1. Balanced(semGlobal + (i - running[k]) + (j - slots[k]),
                 [running EXCEPT ![k] = i], [slots EXCEPT ![k] = j])
    BY <1>0, <1>a, BalanceKept, Zenon
  <2> QED
    BY <1>a, <2>1 DEF GlobalSlots
<1>1. CASE UNCHANGED <<semGlobal, running, slots>>
  BY <1>1 DEF GlobalSlots
<1>2. ASSUME NEW c \in Callers, Start(c), ~started PROVE GlobalSlots'
  <2>1. \A k \in Kinds : slots[k] = 0 /\ running[k] = 0
    BY <1>2 DEF Inv, Calls, Steps
  <2>2. Total(running) = 0 /\ Total(slots) = 0
    BY <1>0, <2>1, TotalNone
  <2>3. semGlobal' = 0 /\ running' = running /\ slots' = slots
    BY <1>2 DEF Start
  <2> QED
    BY <2>2, <2>3 DEF GlobalSlots, Balanced
<1>3. ASSUME NEW k \in Kinds, AcquireGlobal(k) PROVE GlobalSlots'
  <2>1. slots[k] = 0
    BY <1>3 DEF AcquireGlobal, Inv, Steps
  <2>2. /\ semGlobal < MaxConcurrency /\ semGlobal' = semGlobal + 1
        /\ slots' = [slots EXCEPT ![k] = 1] /\ running' = [running EXCEPT ![k] = running[k]]
    BY <1>0, <1>3 DEF AcquireGlobal
  <2>3. /\ running[k] \in Nat /\ 1 \in Nat /\ semGlobal' <= MaxConcurrency
        /\ semGlobal' = semGlobal + (running[k] - running[k]) + (1 - slots[k])
    BY <1>0, <2>1, <2>2
  <2> QED
    BY <1>a, <2>2, <2>3, Zenon
<1>4. ASSUME NEW k \in Kinds, TryGlobal(k) PROVE GlobalSlots'
  <2>1. CASE semGlobal < MaxConcurrency
    <3>1. /\ semGlobal' = semGlobal + 1 /\ running' = [running EXCEPT ![k] = running[k]]
          /\ slots' = [slots EXCEPT ![k] = slots[k] + 1]
      BY <1>0, <1>4, <2>1 DEF TryGlobal
    <3>2. PICK j \in Nat : j = slots[k] + 1
      BY <1>0
    <3>3. /\ running[k] \in Nat /\ semGlobal' <= MaxConcurrency
          /\ semGlobal' = semGlobal + (running[k] - running[k]) + (j - slots[k])
          /\ slots' = [slots EXCEPT ![k] = j]
      BY <1>0, <2>1, <3>1, <3>2
    <3> QED
      BY <1>a, <3>1, <3>3, Zenon
  <2>2. CASE ~(semGlobal < MaxConcurrency)
    BY <1>1, <1>4, <2>2 DEF TryGlobal
  <2> QED
    BY <2>1, <2>2
<1>5. ASSUME NEW k \in Kinds, Dispatch(k) PROVE GlobalSlots'
  <2>1. batch[k] <= slots[k]
    BY DEF Inv, KindSlots
  <2>2. /\ semGlobal' = semGlobal - (slots[k] - batch[k])
        /\ running' = [running EXCEPT ![k] = running[k] + batch[k]]
        /\ slots' = [slots EXCEPT ![k] = 0]
    BY <1>5 DEF Dispatch
  <2>3. PICK i \in Nat : i = running[k] + batch[k]
    BY <1>0
  <2>4. /\ 0 \in Nat /\ semGlobal' <= MaxConcurrency
        /\ semGlobal' = semGlobal + (i - running[k]) + (0 - slots[k])
        /\ running' = [running EXCEPT ![k] = i]
    BY <1>0, <2>1, <2>2, <2>3
  <2> QED
    BY <1>a, <2>2, <2>4, Zenon
<1>6. ASSUME NEW k \in Kinds, Execute(k) PROVE GlobalSlots'
  <2>1. /\ semGlobal' = semGlobal - 1 /\ slots' = [slots EXCEPT ![k] = slots[k]]
        /\ running[k] > 0 /\ running' = [running EXCEPT ![k] = running[k] - 1]
    BY <1>0, <1>6 DEF Execute
  <2>2. /\ running[k] - 1 \in Nat /\ slots[k] \in Nat /\ semGlobal' <= MaxConcurrency
        /\ semGlobal' = semGlobal + (running[k] - 1 - running[k]) + (slots[k] - slots[k])
    BY <1>0, <2>1
  <2> QED
    BY <1>a, <2>1, <2>2, Zenon
<1>7. ASSUME NEW c \in Callers,
             \/ Start(c) \/ SetupDone(c) \/ SetupFails(c) \/ FailedReturn(c)
             \/ Drain(c) \/ Drained(c) \/ DrainTimeout(c) \/ Abandon(c)
      PROVE  GlobalSlots'
  BY <1>1, <1>2, <1>7, Zenon DEF Start, SetupDone, SetupFails, FailedReturn, Drain, Drained, DrainTimeout,
    Abandon, fetching
<1>8. ASSUME NEW k \in Kinds, LoopStep(k) PROVE GlobalSlots'
  BY <1>1, <1>3, <1>4, <1>5, <1>8 DEF LoopStep, Head, AcquireKind, AcquireEnds, TryKind,
    DequeueBatch, DequeueFails, IdleEnds, Woken, Poll
<1>9. ASSUME NEW k \in Kinds, Arrive(k) \/ ReapExpired(k) \/ ForwardWake(k) PROVE GlobalSlots'
  BY <1>1, <1>9 DEF Arrive, ReapExpired, ForwardWake, fetching
<1>10. CASE Stop \/ MaintenanceEnds \/ UNCHANGED vars
  BY <1>1, <1>10 DEF Stop, MaintenanceEnds, vars, fetching
<1> QED
  BY <1>6, <1>7, <1>8, <1>9, <1>10 DEF Next, Calm, Step

\* Start's compare-and-swap admits one call at a time, retries after a failed
\* setup included, and the loops run for that call alone.
THEOREM OneCallStarts == Spec => []OneStart
<1>1. Inv => OneStart
  BY Zenon DEF Inv, Calls, Past, OneStart
<1> QED
  BY <1>1, EngineInvariance, PTL

\* Both semaphores: acquire, the opportunistic grabs, the release of unused capacity
\* and the executor's deferred release balance on every path, for any kinds.
THEOREM SlotsBalance == Spec => []SlotsAccounted
<1>1. Init => GlobalSlots
  <2> SUFFICES ASSUME Init PROVE GlobalSlots
    OBVIOUS
  <2>1. None \in [Kinds -> Nat] /\ \A k \in Kinds : None[k] = 0
    BY DEF None
  <2>2. Total(None) = 0
    BY <2>1, TotalNone
  <2> QED
    BY <2>2, CapacityAssumption DEF Init, GlobalSlots, Balanced
<1>2. Inv /\ GlobalSlots => SlotsAccounted
  BY DEF Inv, GlobalSlots, Balanced, SlotsAccounted
<1> QED
  BY <1>1, <1>2, EngineInvariance, GlobalPreserved, PTL DEF Spec

\* The drain of Start: loops.Wait() comes before inflight.Wait(), so no executor is
\* started that it could miss.
THEOREM DrainIsFinal == Spec => []NothingAfterDrain
<1>1. Inv => NothingAfterDrain
  BY DEF Inv, Calls, Steps, NothingAfterDrain
<1> QED
  BY <1>1, EngineInvariance, PTL

\* The wake channel's buffer of one: a wake between an empty fetch and the select
\* is kept.
THEOREM NoWakeLost == Spec => []NoLostWake
<1>1. Inv => NoLostWake
  BY DEF Inv, TypeOK, Wakes, NoLostWake
<1> QED
  BY <1>1, EngineInvariance, PTL
=============================================================================
