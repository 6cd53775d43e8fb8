----------------------------- MODULE ServicesProofs -----------------------------
(***************************************************************************)
(* What the services around the job store promise: cronLoop for any        *)
(* instances, schedule and window; Outbox for any writes, drains and       *)
(* limit; Retain for any events and subscribers; a subscription for        *)
(* buffers of any size but zero.  Each part has its inductive invariant.   *)
(***************************************************************************)
EXTENDS Cron, Outbox, Events, Listener, TLAPS, WellFoundedInduction

-------------------------------------------------------------------------------
(* Cron. *)

\* The least-number principle.
LEMMA LeastNumber ==
  ASSUME NEW S \in SUBSET Nat, S # {}
  PROVE  \E x \in S : \A y \in S : x <= y
<1>1. PICK R : /\ IsWellFoundedOn(R, Nat)
               /\ R = {ss \in Nat \X Nat : ss[1] < ss[2]}
  BY NatLessThanWellFounded, Zenon DEF OpToRel
<1>2. PICK x \in S : \A y \in S : ~(<<y, x>> \in R)
  BY <1>1, WFMin, Zenon
<1>3. \A u, v \in Nat : u < v => <<u, v>> \in R
  BY <1>1
<1>4. \A y \in S : x <= y
  <2> TAKE y \in S
  <2>1. x \in Nat /\ y \in Nat
    OBVIOUS
  <2>2. ~(y < x)
    BY <1>2, <1>3, <2>1, Zenon
  <2> QED
    BY <2>1, <2>2
<1> QED
  BY <1>4

\* cron.Schedule.Next is an occurrence, and there is none before it.
LEMMA NextOccurrence ==
  ASSUME NEW t \in 0..Never
  PROVE  /\ ScheduleNext(t) \in Occurrences \cup {Never} /\ ScheduleNext(t) \in Nat
         /\ \A o \in Occurrences : t < o => ScheduleNext(t) <= o
<1> USE Schedule
<1> DEFINE later == {o \in Occurrences : o > t} \cup {Never}
<1>1. later \in SUBSET Nat /\ later # {}
  <2>1. Never \in Nat /\ Occurrences \subseteq Nat
    BY DEF Never
  <2> QED
    BY <2>1, Zenon
<1>2. PICK x \in later : \A y \in later : x <= y
  BY <1>1, LeastNumber, Zenon
<1>3. ScheduleNext(t) \in later /\ \A y \in later : ScheduleNext(t) <= y
  BY <1>2, Zenon DEF ScheduleNext, Min
<1> QED
  BY <1>1, <1>3

\* Where an instance of the loop can be.
LoopState == [pc : {"idle", "fire"}, lease : {"nil", "held"}, next : {0} \cup Occurrences \cup {Never},
         at : 0..Horizon]

CronTypeOK ==
  /\ now \in 0..Horizon
  /\ cron \in [Instances -> LoopState]
  /\ claims \in [0..Never -> {None} \cup 0..Horizon]
  /\ fired \in [Occurrences -> Nat]
  /\ counted \in [Instances -> 0..Never]

\* A leader has a next time, and its tick began in the past.
TickSound ==
  \A i \in Instances :
    /\ cron[i].at <= now
    /\ cron[i].pc = "fire" \/ cron[i].lease = "held" => cron[i].next # 0
    /\ cron[i].next = 0 => counted[i] = Never

\* Jobs come with a claim of their occurrence, which is not older than it.
ClaimsSound ==
  \A o \in Occurrences :
    /\ claims[o] # None <=> fired[o] > 0
    /\ claims[o] # None => o <= claims[o] /\ claims[o] <= now

CronInv == CronTypeOK /\ TickSound /\ ClaimsSound /\ FiredOnce /\ NothingSkipped

\* An occurrence that is due is enqueued under a key of its own, once in a window.
LEMMA EnqueueSound ==
  ASSUME CronInv, NEW o \in Occurrences, o <= now, Enqueue(cronOccurrenceKey(0, o), o),
         UNCHANGED now
  PROVE  /\ claims' \in [0..Never -> {None} \cup 0..Horizon]
         /\ fired' \in [Occurrences -> Nat]
         /\ ClaimsSound' /\ FiredOnce'
         /\ fired'[o] > 0
         /\ \A p \in Occurrences : fired'[p] >= fired[p]
<1> USE Schedule
<1>1. o \in 0..Never /\ o \in Int /\ \A p \in Occurrences : p \in 0..Never
  BY DEF Never
<1>2. CASE claims[o] # None /\ now <= claims[o] + Window
  BY <1>1, <1>2 DEF Enqueue, cronOccurrenceKey, CronInv, CronTypeOK, ClaimsSound, FiredOnce, None
<1>3. CASE ~(claims[o] # None /\ now <= claims[o] + Window)
  <2>1. /\ claims' = [claims EXCEPT ![o] = now]
        /\ fired' = [fired EXCEPT ![o] = @ + 1]
    BY <1>3 DEF Enqueue, cronOccurrenceKey
  <2>2. /\ fired \in [Occurrences -> Nat] /\ claims \in [0..Never -> {None} \cup 0..Horizon]
        /\ now \in 0..Horizon
    BY DEF CronInv, CronTypeOK
  <2>3. /\ claims'[o] = now /\ fired'[o] = fired[o] + 1 /\ fired[o] \in Nat
        /\ \A p \in Occurrences \ {o} : claims'[p] = claims[p] /\ fired'[p] = fired[p]
    BY <1>1, <2>1, <2>2
  <2>4. /\ claims' \in [0..Never -> {None} \cup 0..Horizon]
        /\ fired' \in [Occurrences -> Nat]
    BY <1>1, <2>1, <2>2
  <2>5. now # None
    BY <2>2 DEF None
  <2>6. ClaimsSound'
    <3>1. now' = now
      OBVIOUS
    <3> QED
      BY <2>2, <2>3, <2>5, <3>1 DEF CronInv, ClaimsSound
  <2>7. FiredOnce'
    <3>1. /\ claims[o] # None => o <= claims[o] /\ claims[o] \in Int
          /\ claims[o] = None => ~(fired[o] > 0)
      BY <1>1, <2>2 DEF CronInv, ClaimsSound
    <3>2. now <= o + Window => fired[o] = 0
      BY <1>1, <1>3, <2>2, <2>3, <3>1
    <3>3. now' = now
      OBVIOUS
    <3> QED
      BY <2>3, <3>2, <3>3 DEF CronInv, FiredOnce
  <2> QED
    BY <2>2, <2>3, <2>4, <2>6, <2>7
<1> QED
  BY <1>2, <1>3

\* A step that leaves instance i at x, and its next time where it was or at an
\* occurrence with nothing unfired before it.
LEMMA LoopStep ==
  ASSUME CronInv, NEW i \in Instances, NEW x \in LoopState,
         cron' = [cron EXCEPT ![i] = x], UNCHANGED now,
         x.at <= now, x.pc = "fire" \/ x.lease = "held" => x.next # 0,
         counted' \in [Instances -> 0..Never],
         \A j \in Instances \ {i} : counted'[j] = counted[j],
         x.next = 0 => counted'[i] = Never,
         fired' \in [Occurrences -> Nat],
         \A p \in Occurrences : fired'[p] >= fired[p],
         \A p \in Occurrences : counted'[i] < p /\ p < x.next => fired'[p] > 0
  PROVE  cron' \in [Instances -> LoopState] /\ TickSound' /\ NothingSkipped'
<1>1. cron' \in [Instances -> LoopState] /\ cron'[i] = x /\ \A j \in Instances \ {i} : cron'[j] = cron[j]
  BY DEF CronInv, CronTypeOK
<1>2. TickSound'
  BY <1>1 DEF CronInv, TickSound
<1>3. NothingSkipped'
  BY <1>1 DEF CronInv, CronTypeOK, NothingSkipped
<1> QED
  BY <1>1, <1>2, <1>3

\* No tick, error, loss of leadership, stop or passing of time breaks it.
THEOREM CronInvariance == CronSpec => []CronInv
<1> USE Schedule
<1>0. /\ Horizon \in Nat /\ Never \in Nat /\ Occurrences \subseteq 0..Never /\ 0 \in 0..Horizon
      /\ \A t \in 0..Horizon : t \in 0..Never /\ t < Never /\ t \in Int
      /\ \A o \in Occurrences : o \in 1..Horizon /\ o \in Int /\ o # 0 /\ o < Never
  BY DEF Never
<1>1. CronInit => CronInv
  BY <1>0 DEF CronInit, Stopped, CronInv, CronTypeOK, LoopState, TickSound, ClaimsSound, FiredOnce, NothingSkipped,
              None
<1>2. CronInv /\ [CronNext]_cronVars => CronInv'
  <2> SUFFICES ASSUME CronInv, [CronNext]_cronVars PROVE CronInv'
    OBVIOUS
  <2>0. ASSUME NEW i \in Instances
        PROVE  /\ cron[i] \in LoopState
               /\ cron[i].pc \in {"idle", "fire"} /\ cron[i].next \in {0} \cup Occurrences \cup {Never}
               /\ cron[i].at \in 0..Horizon /\ cron[i].at <= now
               /\ cron[i].pc = "fire" \/ cron[i].lease = "held" => cron[i].next # 0
               /\ cron[i].next = 0 => counted[i] = Never
               /\ counted[i] \in 0..Never /\ now \in 0..Horizon
               /\ \A p \in Occurrences : counted[i] < p /\ p < cron[i].next => fired[p] > 0
    BY DEF CronInv, CronTypeOK, LoopState, TickSound, NothingSkipped
  <2>00. now \in Int /\ now <= now
    BY <1>0 DEF CronInv, CronTypeOK
  <2>1. ASSUME NEW i \in Instances, TickLeads(i) \/ TickYields(i) \/ TickEnds(i) PROVE CronInv'
    <3>1. ASSUME NEW x \in LoopState, cron' = [cron EXCEPT ![i] = x], x.next = cron[i].next,
                 x.at <= now, x.pc = "fire" \/ x.lease = "held" => x.next # 0,
                 UNCHANGED <<now, claims, fired, counted>>
          PROVE  CronInv'
      <4>1. /\ counted' \in [Instances -> 0..Never] /\ fired' \in [Occurrences -> Nat]
            /\ \A p \in Occurrences : fired'[p] >= fired[p]
            /\ \A p \in Occurrences : counted'[i] < p /\ p < x.next => fired'[p] > 0
            /\ x.next = 0 => counted'[i] = Never
        BY <2>0, <3>1 DEF CronInv, CronTypeOK
      <4>2. cron' \in [Instances -> LoopState] /\ TickSound' /\ NothingSkipped'
        BY <3>1, <4>1, LoopStep, Zenon
      <4> QED
        BY <3>1, <4>2 DEF CronInv, CronTypeOK, ClaimsSound, FiredOnce
    <3>2. CASE TickLeads(i)
      <4> DEFINE x == [cron[i] EXCEPT !.pc = "fire", !.at = now]
      <4>1. x \in LoopState /\ x.next = cron[i].next /\ x.at = now
        BY <2>0, Zenon DEF LoopState
      <4>2. cron[i].next # 0
        <5>1. cron[i].lease = "held"
          BY <3>2 DEF TickLeads, Valid
        <5> QED
          BY <2>0, <5>1
      <4>3. cron' = [cron EXCEPT ![i] = x] /\ UNCHANGED <<now, claims, fired, counted>>
        BY <3>2, Zenon DEF TickLeads
      <4> HIDE DEF x
      <4> QED
        BY <2>00, <3>1, <4>1, <4>2, <4>3, Zenon
    <3>3. CASE TickYields(i)
      <4> DEFINE x == [cron[i] EXCEPT !.lease = "nil"]
      <4>1. x \in LoopState /\ x.next = cron[i].next /\ x.at = cron[i].at /\ x.pc = cron[i].pc /\ x.lease = "nil"
        BY <2>0 DEF LoopState
      <4>2. cron' = [cron EXCEPT ![i] = x] /\ UNCHANGED <<now, claims, fired, counted>>
        BY <3>3 DEF TickYields
      <4> HIDE DEF x
      <4> QED
        BY <2>0, <3>1, <4>1, <4>2, Zenon
    <3>4. CASE TickEnds(i)
      <4> DEFINE x == [cron[i] EXCEPT !.pc = "idle"]
      <4>1. x \in LoopState /\ x.next = cron[i].next /\ x.at = cron[i].at /\ x.pc = "idle"
            /\ x.lease = cron[i].lease
        BY <2>0 DEF LoopState
      <4>2. cron' = [cron EXCEPT ![i] = x] /\ UNCHANGED <<now, claims, fired, counted>>
        BY <3>4 DEF TickEnds
      <4> HIDE DEF x
      <4> QED
        BY <2>0, <3>1, <4>1, <4>2, Zenon
    <3> QED
      BY <2>1, <3>2, <3>3, <3>4
  <2>2. ASSUME NEW i \in Instances, TickAcquires(i) PROVE CronInv'
    <3> DEFINE x == [pc |-> "fire", lease |-> "held", next |-> NextOnAcquire(i), at |-> now]
    <3>1. /\ ScheduleNext(now) \in Occurrences \cup {Never} /\ ScheduleNext(now) \in Nat
          /\ \A o \in Occurrences : now < o => ScheduleNext(now) <= o
      BY <1>0, <2>0, NextOccurrence
    <3>2. /\ cron' = [cron EXCEPT ![i] = x]
          /\ counted' = [counted EXCEPT ![i] = IF cron[i].next = 0 THEN now ELSE @]
          /\ UNCHANGED <<now, claims, fired>>
      BY <2>2 DEF TickAcquires
    <3>3. /\ NextOnAcquire(i) \in Occurrences \cup {Never}
          /\ NextOnAcquire(i) # 0
      BY <1>0, <2>0, <3>1 DEF NextOnAcquire
    <3>4. x \in LoopState /\ x.at = now /\ x.next = NextOnAcquire(i)
      BY <2>0, <3>3 DEF LoopState
    <3>5. /\ counted' \in [Instances -> 0..Never]
          /\ \A j \in Instances \ {i} : counted'[j] = counted[j]
          /\ counted'[i] = IF cron[i].next = 0 THEN now ELSE counted[i]
      BY <1>0, <2>0, <3>2, Zenon DEF CronInv, CronTypeOK
    <3>6. \A p \in Occurrences : counted'[i] < p /\ p < x.next => fired'[p] > 0
      <4>1. CASE cron[i].next = 0
        <5>1. counted'[i] = now /\ x.next = ScheduleNext(now)
          BY <3>4, <3>5, <4>1 DEF NextOnAcquire
        <5> QED
          <6> SUFFICES ASSUME NEW p \in Occurrences, now < p, p < ScheduleNext(now) PROVE FALSE
            BY <5>1
          <6>1. p \in Int /\ ScheduleNext(now) \in Int /\ ScheduleNext(now) <= p
            BY <1>0, <3>1
          <6> QED
            BY <6>1
      <4>2. CASE cron[i].next # 0
        BY <2>0, <3>2, <3>4, <3>5, <4>2 DEF NextOnAcquire
      <4> QED
        BY <4>1, <4>2
    <3>7. \A p \in Occurrences : fired'[p] >= fired[p]
      BY <3>2 DEF CronInv, CronTypeOK
    <3> HIDE DEF x
    <3>8. cron' \in [Instances -> LoopState] /\ TickSound' /\ NothingSkipped'
      BY <2>00, <3>2, <3>3, <3>4, <3>5, <3>6, <3>7, LoopStep, Zenon DEF CronInv, CronTypeOK
    <3> QED
      BY <3>2, <3>5, <3>8 DEF CronInv, CronTypeOK, ClaimsSound, FiredOnce
  <2>3. ASSUME NEW i \in Instances, Due(i)
        PROVE  cron[i].next \in Occurrences /\ cron[i].next <= now
    <3>1. /\ cron[i].next \in {0} \cup Occurrences \cup {Never} /\ cron[i].next # 0
          /\ cron[i].at \in 0..Horizon /\ cron[i].at <= now /\ now \in 0..Horizon
          /\ cron[i].next <= cron[i].at
      BY <2>3, <2>0 DEF Due
    <3>2. cron[i].next # Never
      BY <3>1 DEF Never
    <3>3. cron[i].next \in Occurrences /\ cron[i].next \in Int
      BY <1>0, <3>1, <3>2, Zenon
    <3> QED
      BY <3>1, <3>3
  <2>4. ASSUME NEW i \in Instances, Fire(i) PROVE CronInv'
    <3> DEFINE o == cron[i].next
               x == [cron[i] EXCEPT !.next = ScheduleNext(o)]
    <3>1. /\ o \in Occurrences /\ o <= now
          /\ Enqueue(cronOccurrenceKey(0, o), o)
          /\ cron' = [cron EXCEPT ![i] = x]
          /\ UNCHANGED <<now, counted>>
      BY <2>4, <2>3 DEF Fire, cronOccurrenceKey, Due
    <3>2. /\ ScheduleNext(o) \in Occurrences \cup {Never} /\ ScheduleNext(o) \in Nat
          /\ \A p \in Occurrences : o < p => ScheduleNext(o) <= p
      BY <1>0, <3>1, NextOccurrence
    <3>3. /\ claims' \in [0..Never -> {None} \cup 0..Horizon]
          /\ fired' \in [Occurrences -> Nat]
          /\ ClaimsSound' /\ FiredOnce'
          /\ fired'[o] > 0
          /\ \A p \in Occurrences : fired'[p] >= fired[p]
      BY <3>1, EnqueueSound
    <3>4. x \in LoopState /\ x.at = cron[i].at /\ x.next = ScheduleNext(o) /\ x.next # 0
      BY <1>0, <2>0, <3>2 DEF LoopState
    <3>5. \A p \in Occurrences : counted'[i] < p /\ p < x.next => fired'[p] > 0
      <4> SUFFICES ASSUME NEW p \in Occurrences, counted[i] < p, p < ScheduleNext(o)
                   PROVE  fired'[p] > 0
        BY <3>1, <3>4
      <4>1. p \in Int /\ o \in Int /\ fired[p] \in Nat /\ fired'[p] \in Nat /\ fired'[p] >= fired[p]
        BY <1>0, <3>1, <3>3 DEF CronInv, CronTypeOK
      <4>2. ~(o < p)
        BY <3>2, <4>1
      <4>3. CASE p = o
        BY <3>3, <4>3
      <4>4. CASE p < o
        BY <2>0, <4>1, <4>4
      <4> QED
        BY <4>1, <4>2, <4>3, <4>4
    <3> HIDE DEF x
    <3> QED
      BY <2>0, <3>1, <3>3, <3>4, <3>5, LoopStep, Zenon DEF CronInv, CronTypeOK
  <2>5. ASSUME NEW i \in Instances, FireFails(i) PROVE CronInv'
    <3> DEFINE o == cron[i].next
               x == [cron[i] EXCEPT !.pc = "idle"]
    <3>1. /\ o \in Occurrences /\ o <= now
          /\ Enqueue(cronOccurrenceKey(0, o), o) \/ UNCHANGED <<claims, fired>>
          /\ cron' = [cron EXCEPT ![i] = x]
          /\ UNCHANGED <<now, counted>>
      BY <2>5, <2>3 DEF FireFails, cronOccurrenceKey, Due
    <3>2. /\ claims' \in [0..Never -> {None} \cup 0..Horizon]
          /\ fired' \in [Occurrences -> Nat]
          /\ ClaimsSound' /\ FiredOnce'
          /\ \A p \in Occurrences : fired'[p] >= fired[p]
      <4>1. CASE UNCHANGED <<claims, fired>>
        BY <3>1, <4>1 DEF CronInv, CronTypeOK, ClaimsSound, FiredOnce
      <4>2. CASE Enqueue(cronOccurrenceKey(0, o), o)
        BY <3>1, <4>2, EnqueueSound
      <4> QED
        BY <3>1, <4>1, <4>2
    <3>3. x \in LoopState /\ x.at = cron[i].at /\ x.next = o /\ x.pc = "idle"
          /\ x.lease = cron[i].lease
      BY <2>0 DEF LoopState
    <3>4. \A p \in Occurrences : counted'[i] < p /\ p < x.next => fired'[p] > 0
      BY <1>0, <2>0, <3>1, <3>2, <3>3 DEF CronInv, CronTypeOK
    <3> HIDE DEF x
    <3> QED
      BY <2>0, <3>1, <3>2, <3>3, <3>4, LoopStep, Zenon DEF CronInv, CronTypeOK
  <2> USE <1>0 DEF CronInv, CronTypeOK, LoopState, TickSound
  <2>6. ASSUME NEW i \in Instances, Stop(i) PROVE CronInv'
    BY <2>6 DEF Stop, Stopped, ClaimsSound, FiredOnce, NothingSkipped, Never
  <2>7. CASE LoseSession
    BY <2>7 DEF LoseSession, ClaimsSound, FiredOnce, NothingSkipped
  <2>8. CASE Tick
    BY <2>8 DEF Tick, ClaimsSound, FiredOnce, NothingSkipped
  <2>9. CASE UNCHANGED cronVars
    BY <2>9 DEF cronVars, ClaimsSound, FiredOnce, NothingSkipped
  <2> QED
    BY <2>1, <2>2, <2>4, <2>5, <2>6, <2>7, <2>8, <2>9, Zenon DEF CronNext
<1> QED
  BY <1>1, <1>2, PTL DEF CronSpec

\* cronLoop, "even two transient leaders produce exactly one job per occurrence",
\* as long as the window of cronOccurrenceKey lasts.
THEOREM OneJobPerOccurrence == CronSpec => []FiredOnce
  BY CronInvariance, PTL DEF CronInv

\* cronLoop passes no occurrence that nobody enqueued.
THEOREM NoOccurrenceSkipped == CronSpec => []NothingSkipped
  BY CronInvariance, PTL DEF CronInv

-------------------------------------------------------------------------------
(* Outbox. *)

DrainRecord == [pc : {"idle", "forward", "commit"}, batch : SUBSET Items,
                done : SUBSET Items, bad : SUBSET Items]

OutboxTypeOK ==
  /\ app \in [Items -> {"none", "open", "committed", "aborted"}]
  /\ state \in [Items -> {"none", "live", "quarantined", "removed"}]
  /\ drain \in [Drains -> DrainRecord]
  /\ held \subseteq Items /\ answered \subseteq Items
  /\ stored \in [Items -> 0..2]

\* What a drain holds was committed by its caller; what it will remove, the target
\* has answered for; and what it will set aside does not decode.
DrainSound ==
  \A d \in Drains :
    /\ \A i \in drain[d].batch \cup drain[d].done \cup drain[d].bad : app[i] = "committed"
    /\ drain[d].done \subseteq answered
    /\ \A i \in drain[d].bad : KindOf[i] = "bad"

\* Only rows of committed transactions are seen.
RowsCommitted == \A i \in Items : app[i] = "committed" <=> state[i] # "none"

\* What the target has it stored, and it stores nothing that it has.
TargetSound ==
  /\ held \subseteq answered
  /\ target # "forgetful" =>
       \A i \in Items : stored[i] <= 1 /\ (stored[i] = 1 => i \in held)

OutboxInv == OutboxTypeOK /\ DrainSound /\ RowsCommitted /\ TargetSound /\ NothingLost

\* Store answers for the row, and keeps what TargetSound says.
LEMMA StoreSound ==
  ASSUME OutboxInv, NEW i \in Items, app[i] = "committed", Store(i), target' = target
  PROVE  /\ held' \subseteq Items /\ answered' \subseteq Items
         /\ stored' \in [Items -> 0..2]
         /\ TargetSound'
         /\ answered' = answered \cup {i}
  BY DEF OutboxInv, OutboxTypeOK, TargetSound, Store

\* What is in a drain after a row or an error.
LEMMA DrainFields ==
  ASSUME OutboxTypeOK, NEW d \in Drains, NEW i \in Items
  PROVE  /\ Removed(d, i) \in DrainRecord
         /\ Removed(d, i).batch \subseteq drain[d].batch
         /\ Removed(d, i).done = drain[d].done \cup {i}
         /\ Removed(d, i).bad = drain[d].bad
         /\ SetAside(d, i) \in DrainRecord
         /\ SetAside(d, i).batch \subseteq drain[d].batch
         /\ SetAside(d, i).done = drain[d].done
         /\ SetAside(d, i).bad = drain[d].bad \cup {i}
         /\ Cut(d) \in DrainRecord
         /\ Cut(d).batch = {} /\ Cut(d).done = drain[d].done /\ Cut(d).bad = drain[d].bad
  BY Zenon DEF OutboxTypeOK, DrainRecord, Removed, SetAside, Cut

\* No step of a caller, a drain or the target breaks it.
THEOREM OutboxInvariance == OutboxSpec => []OutboxInv
<1>1. OutboxInit => OutboxInv
  BY DEF OutboxInit, Idle, DrainRecord, OutboxInv, OutboxTypeOK, DrainSound, RowsCommitted, TargetSound, NothingLost
<1>2. OutboxInv /\ [OutboxNext]_outboxVars => OutboxInv'
  <2> SUFFICES ASSUME OutboxInv, [OutboxNext]_outboxVars PROVE OutboxInv'
    OBVIOUS
  <2> USE DEF OutboxInv
  <2>1. ASSUME NEW i \in Items, capture(i) PROVE OutboxInv'
    BY <2>1 DEF capture, OutboxTypeOK, DrainSound, RowsCommitted, TargetSound, NothingLost
  <2>2. ASSUME NEW i \in Items, Commit(i) PROVE OutboxInv'
    BY <2>2 DEF Commit, OutboxTypeOK, DrainSound, RowsCommitted, TargetSound, NothingLost
  <2>3. ASSUME NEW i \in Items, Abort(i) PROVE OutboxInv'
    BY <2>3 DEF Abort, OutboxTypeOK, DrainSound, RowsCommitted, TargetSound, NothingLost
  <2>4. ASSUME NEW i \in Items, Requeue(i) PROVE OutboxInv'
    BY <2>4 DEF Requeue, OutboxTypeOK, DrainSound, RowsCommitted, TargetSound, NothingLost
  <2>5. ASSUME NEW i \in Items, Forget(i) PROVE OutboxInv'
    BY <2>5 DEF Forget, OutboxTypeOK, DrainSound, RowsCommitted, TargetSound, NothingLost
  <2>6. ASSUME NEW d \in Drains, claim(d) PROVE OutboxInv'
    <3>1. PICK batch \in SUBSET Claimable :
            drain' = [drain EXCEPT ![d] = [Idle EXCEPT !.pc = "forward", !.batch = batch]]
      BY <2>6, Zenon DEF claim
    <3> DEFINE new == [Idle EXCEPT !.pc = "forward", !.batch = batch]
    <3>2. new \in DrainRecord /\ new.batch = batch /\ new.done = {} /\ new.bad = {}
      BY Zenon DEF Idle, DrainRecord, Claimable
    <3>3. \A i \in batch : app[i] = "committed"
      BY DEF Claimable, RowsCommitted
    <3>4. UNCHANGED <<target, app, state, held, stored, answered>>
      BY <2>6 DEF claim
    <3> QED
      BY <3>1, <3>2, <3>3, <3>4 DEF OutboxTypeOK, DrainSound, RowsCommitted, TargetSound, NothingLost
  <2>7. ASSUME NEW d \in Drains, NEW i \in Items, forward(d, i) PROVE OutboxInv'
    <3>1. app[i] = "committed"
      BY <2>7 DEF forward, At, DrainSound
    <3>2. Store(i) /\ UNCHANGED <<target, app, seq, state>> /\ drain' = [drain EXCEPT ![d] = Removed(d, i)]
      BY <2>7 DEF forward
    <3>3. /\ held' \subseteq Items /\ answered' = answered \cup {i} /\ stored' \in [Items -> 0..2]
          /\ TargetSound'
      BY <3>1, <3>2, StoreSound
    <3>4. OutboxTypeOK'
      BY <3>2, <3>3, DrainFields DEF OutboxTypeOK
    <3>5. DrainSound'
      BY <3>1, <3>2, <3>3, DrainFields DEF OutboxTypeOK, DrainSound
    <3> QED
      BY <3>1, <3>2, <3>3, <3>4, <3>5 DEF RowsCommitted, NothingLost
  <2>8. ASSUME NEW d \in Drains, NEW i \in Items, quarantine(d, i) PROVE OutboxInv'
    BY <2>8, DrainFields
      DEF quarantine, At, OutboxTypeOK, DrainSound, RowsCommitted, TargetSound, NothingLost
  <2>9. ASSUME NEW d \in Drains, NEW i \in Items, stop(d, i) PROVE OutboxInv'
    <3>1. app[i] = "committed"
      BY <2>9 DEF stop, At, DrainSound
    <3>2. /\ UNCHANGED <<target, app, seq, state>>
          /\ drain' = [drain EXCEPT ![d] = Cut(d)]
      BY <2>9 DEF stop
    <3>3. CASE Store(i)
      <4>1. /\ held' \subseteq Items /\ answered' = answered \cup {i} /\ stored' \in [Items -> 0..2]
            /\ TargetSound'
        BY <3>1, <3>2, <3>3, StoreSound
      <4>2. OutboxTypeOK'
        BY <3>2, <4>1, DrainFields DEF OutboxTypeOK
      <4>3. DrainSound'
        BY <3>1, <3>2, <4>1, DrainFields DEF OutboxTypeOK, DrainSound
      <4> QED
        BY <3>1, <3>2, <4>1, <4>2, <4>3 DEF RowsCommitted, NothingLost
    <3>4. CASE UNCHANGED <<held, stored, answered>>
      BY <3>2, <3>4, DrainFields DEF OutboxTypeOK, DrainSound, RowsCommitted, TargetSound, NothingLost
    <3> QED
      BY <2>9, <3>3, <3>4 DEF stop
  <2>10. ASSUME NEW d \in Drains, endBatch(d) PROVE OutboxInv'
    BY <2>10 DEF endBatch, DrainRecord, OutboxTypeOK, DrainSound, RowsCommitted, TargetSound, NothingLost
  <2>11. ASSUME NEW d \in Drains, commit(d) PROVE OutboxInv'
    BY <2>11 DEF commit, Idle, DrainRecord, OutboxTypeOK, DrainSound, RowsCommitted, TargetSound, NothingLost
  <2>12. ASSUME NEW d \in Drains, rollback(d) PROVE OutboxInv'
    BY <2>12 DEF rollback, Idle, DrainRecord, OutboxTypeOK, DrainSound, RowsCommitted, TargetSound, NothingLost
  <2>13. CASE UNCHANGED outboxVars
    BY <2>13 DEF outboxVars, OutboxTypeOK, DrainSound, RowsCommitted, TargetSound, NothingLost
  <2> QED
    BY <2>1, <2>2, <2>3, <2>4, <2>5, <2>6, <2>7, <2>8, <2>9, <2>10, <2>11, <2>12, <2>13
      DEF OutboxNext, Drain
<1> QED
  BY <1>1, <1>2, PTL DEF OutboxSpec

\* Outbox.Drain never removes a row that the target has not answered for, never
\* forwards what its caller did not commit, and sets aside only what does not
\* decode, whatever drains race, stop or roll back.
THEOREM NoWriteLost == OutboxSpec => []NothingLost
  BY OutboxInvariance, PTL DEF OutboxInv

\* A target that keeps what it was given stores each write at most once.
THEOREM NoWriteTwice == OutboxSpec => []NeverTwice
<1>1. OutboxInv => NeverTwice
  BY DEF OutboxInv, TargetSound, NeverTwice
<1> QED
  BY <1>1, OutboxInvariance, PTL

-------------------------------------------------------------------------------
(* Events. *)

EventsTypeOK ==
  /\ subs \subseteq Subscribers
  /\ ledger \in [Ids -> {"none", "new", "old", "retained"}]
  /\ job \in [Deliveries -> {"none", "pending", "scheduled", "active", "succeeded", "dead"}]
  /\ owed \in [Ids -> SUBSET Subscribers] /\ served \in [Ids -> SUBSET Subscribers]
  /\ sweep \subseteq Ids
  /\ draining \in [Subscribers -> SUBSET {"pending", "scheduled"}]

\* A subscriber that has not been served has its delivery of the publish, on the
\* way, as long as Retain has not removed the event.
DeliveryUnderWay ==
  \A e \in Ids : InLedger(e) =>
    \A s \in owed[e] \ served[e] : job[<<e, s, "publish">>] \notin Terminal

\* What Retain has read, though deliveries have been revived or made since, was
\* served when it read it, and that does not change.
SweepServed == \A e \in sweep : InLedger(e) /\ owed[e] \subseteq served[e]

Unpublished == \A e \in Ids : ledger[e] = "none" => owed[e] = {}

EventsInv == EventsTypeOK /\ DeliveryUnderWay /\ SweepServed /\ Unpublished /\ RetainedServed

\* No step of a publisher, a worker, an operator or the maintenance breaks it.
THEOREM EventsInvariance == EventsSpec => []EventsInv
<1>1. EventsInit => EventsInv
  BY DEF EventsInit, EventsInv, EventsTypeOK, DeliveryUnderWay, SweepServed, Unpublished, RetainedServed, InLedger
<1>2. EventsInv /\ [EventsNext]_eventsVars => EventsInv'
  <2> SUFFICES ASSUME EventsInv, [EventsNext]_eventsVars PROVE EventsInv'
    OBVIOUS
  <2>0. \A e \in Ids, s \in Subscribers : <<e, s, "publish">> \in Deliveries
    BY DEF Deliveries
  <2> USE DEF EventsInv, EventsTypeOK, DeliveryUnderWay, SweepServed, Unpublished, RetainedServed, InLedger
  <2>1. ASSUME NEW s \in Subscribers, RegisterSubscriber(s) \/ DeleteSubscriber(s) PROVE EventsInv'
    BY <2>1 DEF RegisterSubscriber, DeleteSubscriber
  <2>2. ASSUME NEW s \in Subscribers, DrainSubscriber(s) PROVE EventsInv'
    BY <2>2 DEF DrainSubscriber
  <2>3. ASSUME NEW s \in Subscribers, DeleteAll(s) PROVE EventsInv'
    <3> DEFINE which == IF "pending" \in draining[s] THEN "pending" ELSE "scheduled"
               gone == {d \in Deliveries : d[2] = s /\ job[d] = which}
    <3>1. /\ job' = [d \in Deliveries |-> IF d \in gone THEN "none" ELSE job[d]]
          /\ served' = [e \in Ids |-> served[e] \cup {d[2] : d \in gone \cap Of(e)}]
          /\ draining' = [draining EXCEPT ![s] = @ \ {which}]
          /\ UNCHANGED <<subs, ledger, owed, sweep>>
      BY <2>3, Zenon DEF DeleteAll
    <3>2. EventsTypeOK'
      BY <3>1 DEF Of, Deliveries
    <3>3. ASSUME NEW e \in Ids, InLedger(e), NEW r \in owed[e] \ served'[e]
          PROVE  job'[<<e, r, "publish">>] \notin Terminal
      <4> DEFINE p == <<e, r, "publish">>
      <4>1. p \in Deliveries /\ p[1] = e /\ p[2] = r
        BY <3>3, <2>0
      <4>2. p \notin gone
        BY <4>1, <3>1, <3>3 DEF Of
      <4> QED
        BY <4>1, <4>2, <3>1, <3>3
    <3> QED
      BY <3>1, <3>2, <3>3, Zenon
  <2>4. ASSUME NEW e \in Ids, Publish(e) PROVE EventsInv'
    BY <2>4, <2>0 DEF Publish, Deliveries, Terminal
  <2>5. ASSUME NEW e \in Ids, Age(e) PROVE EventsInv'
    BY <2>5 DEF Age
  <2>6. ASSUME NEW e \in Ids, NEW to, Replay(e, to) PROVE EventsInv'
    BY <2>6, <2>0 DEF Replay, Deliveries, Terminal
  <2>7. ASSUME NEW d \in Deliveries, Attempt(d) PROVE EventsInv'
    <3>1. CASE job[d] = "active" /\ \E r \in {"succeeded", "dead"} : job' = [job EXCEPT ![d] = r]
               /\ served' = [served EXCEPT ![d[1]] = @ \cup {d[2]}]
               /\ UNCHANGED <<subs, ledger, owed, draining, sweep>>
      BY <2>0, <3>1 DEF Deliveries, Terminal
    <3>2. CASE job[d] \notin Terminal /\ UNCHANGED <<served, subs, ledger, owed, draining, sweep>>
               /\ \E r \in {"active", "scheduled", "pending"} : job' = [job EXCEPT ![d] = r]
      BY <2>0, <3>2 DEF Terminal
    <3> QED
      BY <2>7, <3>1, <3>2, Zenon DEF Attempt, Terminal
  <2>8. ASSUME NEW d \in Deliveries, Retry(d) \/ Vacuum(d) PROVE EventsInv'
    BY <2>8, <2>0 DEF Retry, Vacuum, Terminal
  <2>9. CASE RetainReads
    <3>1. ASSUME NEW e \in Ids, Retainable(e) PROVE InLedger(e) /\ owed[e] \subseteq served[e]
      BY <3>1, <2>0, Zenon DEF Retainable, Of
    <3>2. /\ sweep' \subseteq {e \in Ids : Retainable(e)}
          /\ UNCHANGED <<subs, ledger, job, owed, served, draining>>
      BY <2>9 DEF RetainReads
    <3> QED
      BY <3>1, <3>2
  <2>10. CASE RetainWrites
    BY <2>10, <2>0 DEF RetainWrites, Terminal
  <2>11. CASE UNCHANGED eventsVars
    BY <2>11 DEF eventsVars
  <2> QED
    BY <2>1, <2>2, <2>3, <2>4, <2>5, <2>6, <2>7, <2>8, <2>9, <2>10, <2>11, Zenon DEF EventsNext
<1> QED
  BY <1>1, <1>2, PTL DEF EventsSpec

\* Store.Retain never removes an event before each of its subscribers was served,
\* though its reading and its deleting are apart and deliveries change between.
THEOREM NoneRetainedUnserved == EventsSpec => []RetainedServed
  BY EventsInvariance, PTL DEF EventsInv

-------------------------------------------------------------------------------
(* Listener. *)

Hints == {"match", "other", "reset"}

ListenerTypeOK ==
  /\ loop \in {"off", "backoff", "listening", "live", "lost"}
  /\ wire \in Seq(Hints) /\ src \in Seq(Hints) /\ out \in Seq(Hints)
  /\ connected \in BOOLEAN /\ overflowed \in BOOLEAN /\ pending \in BOOLEAN /\ stale \in BOOLEAN
  /\ sub \in {"none", "open", "closed"}

\* The flag follows the connection.
FlagSound == (loop = "live" => connected) /\ (connected => loop \in {"live", "lost"})

\* Before the consumer has received anything: the reset is next in the channel that
\* Watch returned, or next in the subscriber's, or still to come with the
\* connection, and nothing can come before it.
Opening ==
  \/ out # <<>> /\ Head(out) = "reset"
  \/ out = <<>> /\ ~pending /\ src # <<>> /\ Head(src) = "reset"
  \/ out = <<>> /\ ~pending /\ src = <<>> /\ ~overflowed /\ (sub = "open" => ~connected)

ListenerInv == 
  /\ ListenerTypeOK /\ FlagSound
  /\ first = "nothing" => Opening
  /\ sub = "none" => src = <<>> /\ out = <<>> /\ ~overflowed /\ ~pending
  /\ FirstIsReset /\ GapAnnounced

\* deliverLocked drops the hint and raises the flag, or sends it after the reset
\* that a flag owes.
LEMMA DeliverCases ==
  ASSUME ListenerTypeOK, NEW v \in Hints, Deliver(v), sub = "open"
  PROVE  \/ src' = src /\ overflowed' = TRUE /\ src # <<>>
         \/ src' = Append(src, "reset") /\ overflowed' = TRUE
         \/ src' = Append(src, v) /\ overflowed' = FALSE /\ overflowed = FALSE
         \/ src' = Append(Append(src, "reset"), v) /\ overflowed' = FALSE /\ overflowed = TRUE
<1> USE Buffers
<1>1. /\ src' = deliverLocked(v)[1] /\ overflowed' = deliverLocked(v)[2]
  BY Zenon DEF Deliver
<1>2. CASE overflowed = TRUE
  <2>1. deliverLocked(v) =
          IF Len(Append(src, "reset")) > SrcBuffer THEN <<src, TRUE>>
          ELSE IF Len(Append(src, "reset")) = SrcBuffer THEN <<Append(src, "reset"), TRUE>>
          ELSE <<Append(Append(src, "reset"), v), FALSE>>
    BY <1>2, Zenon DEF deliverLocked
  <2> QED
    BY <1>1, <1>2, <2>1 DEF ListenerTypeOK, Hints
<1>3. CASE overflowed = FALSE
  <2>1. deliverLocked(v) =
          IF Len(src) > SrcBuffer THEN <<src, TRUE>>
          ELSE IF Len(src) = SrcBuffer THEN <<src, TRUE>> ELSE <<Append(src, v), FALSE>>
    BY <1>3, Zenon DEF deliverLocked
  <2> QED
    BY <1>1, <1>3, <2>1 DEF ListenerTypeOK, Hints
<1> QED
  BY <1>2, <1>3, Zenon DEF ListenerTypeOK

\* Watch keeps its flag up, or sends the hint after the reset that the flag owes.
LEMMA ForwardCases ==
  ASSUME ListenerTypeOK, Watch
  PROVE  /\ src # <<>> /\ src' = Tail(src) /\ Head(src) \in Hints
         /\ UNCHANGED <<listening, sub, overflowed, first, stale>>
         /\ \/ Head(src) = "other" /\ out' = out /\ pending' = pending
            \/ Head(src) # "other" /\ out' = out /\ pending' = TRUE /\ out # <<>>
            \/ out' = Append(out, "reset") /\ pending' = TRUE /\ pending = TRUE
            \/ Head(src) # "other" /\ out' = Append(out, Head(src)) /\ pending' = FALSE
            \/ /\ Head(src) # "other" /\ out' = Append(Append(out, "reset"), Head(src))
               /\ pending' = FALSE /\ pending = TRUE
<1> USE Buffers
<1> DEFINE c == Head(src)
<1>1. /\ src # <<>> /\ src' = Tail(src)
      /\ out' = Forward(c)[1] /\ pending' = Forward(c)[2]
      /\ UNCHANGED <<listening, sub, overflowed, first, stale>>
  BY Zenon DEF Watch
<1>2. c \in Hints
  BY <1>1 DEF ListenerTypeOK
<1>3. CASE c = "other"
  <2>1. Forward(c) = <<out, pending>>
    BY <1>3, Zenon DEF Forward
  <2> QED
    BY <1>1, <1>2, <1>3, <2>1
<1>4. CASE c # "other" /\ pending = TRUE /\ c # "reset"
  <2>1. Forward(c) =
          IF Len(Append(out, "reset")) >= OutBuffer
          THEN IF Len(Append(out, "reset")) > OutBuffer THEN <<out, TRUE>>
               ELSE <<Append(out, "reset"), TRUE>>
          ELSE <<Append(Append(out, "reset"), c), FALSE>>
    BY <1>4, Zenon DEF Forward
  <2> HIDE DEF c
  <2>2. \/ out' = out /\ pending' = TRUE /\ out # <<>>
        \/ out' = Append(out, "reset") /\ pending' = TRUE
        \/ out' = Append(Append(out, "reset"), c) /\ pending' = FALSE
    BY <1>1, <1>2, <2>1 DEF ListenerTypeOK, Hints
  <2> QED
    BY <1>1, <1>2, <1>4, <2>2, Zenon DEF c
<1>5. CASE c # "other" /\ (pending = FALSE \/ c = "reset")
  <2>1. Forward(c) =
          IF Len(out) >= OutBuffer
          THEN IF Len(out) > OutBuffer THEN <<out, TRUE>> ELSE <<out, TRUE>>
          ELSE <<Append(out, c), FALSE>>
    BY <1>5, Zenon DEF Forward
  <2> HIDE DEF c
  <2>2. \/ out' = out /\ pending' = TRUE /\ out # <<>>
        \/ out' = Append(out, c) /\ pending' = FALSE
    BY <1>1, <1>2, <2>1 DEF ListenerTypeOK, Hints
  <2> QED
    BY <1>1, <1>2, <1>5, <2>2, Zenon DEF c
<1> QED
  BY <1>2, <1>3, <1>4, <1>5, Zenon DEF ListenerTypeOK

\* A channel tells what is sent on it until it is received.
LEMMA Channel ==
  ASSUME NEW s \in Seq(Hints)
  PROVE  /\ ~Tells(<<>>)
         /\ \A h \in Hints :
              /\ Append(s, h) \in Seq(Hints) /\ Append(s, h) # <<>>
              /\ Head(Append(s, h)) = IF s = <<>> THEN h ELSE Head(s)
              /\ Tells(Append(s, h)) <=> (Tells(s) \/ h # "other")
         /\ s # <<>> => Tail(s) \in Seq(Hints)
         /\ s # <<>> /\ Tells(s) => Tells(Tail(s)) \/ Head(s) # "other"
<1>1. ~Tells(<<>>)
  BY DEF Tells
<1>2. ASSUME NEW h \in Hints
      PROVE  /\ Append(s, h) \in Seq(Hints) /\ Append(s, h) # <<>>
             /\ Head(Append(s, h)) = IF s = <<>> THEN h ELSE Head(s)
  <2>1. Append(s, h) \in Seq(Hints) /\ Len(Append(s, h)) = Len(s) + 1 /\ Len(s) \in Nat
    OBVIOUS
  <2>2. CASE s = <<>>
    BY <2>2
  <2>3. CASE s # <<>>
    BY <2>3
  <2> QED
    BY <2>1, <2>2, <2>3
<1>3. ASSUME NEW h \in Hints
      PROVE  Tells(Append(s, h)) <=> (Tells(s) \/ h # "other")
  <2>1. /\ DOMAIN Append(s, h) = 1..(Len(s) + 1) /\ DOMAIN s = 1..Len(s) /\ Len(s) \in Nat
        /\ \A k \in 1..Len(s) : Append(s, h)[k] = s[k]
        /\ Append(s, h)[Len(s) + 1] = h
    OBVIOUS
  <2> QED
    BY <2>1 DEF Tells
<1>4. ASSUME s # <<>>
      PROVE  /\ Tail(s) \in Seq(Hints)
             /\ Tells(s) => Tells(Tail(s)) \/ Head(s) # "other"
  <2>1. /\ DOMAIN Tail(s) = 1..(Len(s) - 1) /\ DOMAIN s = 1..Len(s) /\ Len(s) \in Nat
        /\ \A k \in 1..(Len(s) - 1) : Tail(s)[k] = s[k + 1]
        /\ Head(s) = s[1] /\ Tail(s) \in Seq(Hints)
    BY <1>4
  <2>2. ASSUME NEW k \in DOMAIN s, s[k] # "other", k # 1 PROVE Tells(Tail(s))
    <3>1. k - 1 \in DOMAIN Tail(s) /\ Tail(s)[k - 1] = s[k]
      BY <2>1, <2>2
    <3> QED
      BY <2>2, <3>1 DEF Tells
  <2> QED
    BY <2>1, <2>2 DEF Tells
<1> QED
  BY <1>1, <1>2, <1>3, <1>4

\* No step of the connection, the subscription or the consumer breaks it.
THEOREM ListenerInvariance == ListenerSpec => []ListenerInv
<1>1. ListenerInit => ListenerInv
  <2>1. <<>> \in Seq(Hints)
    OBVIOUS
  <2> QED
    BY <2>1, Zenon DEF ListenerInit, ListenerInv, ListenerTypeOK, FlagSound, Opening, FirstIsReset, GapAnnounced
<1>2. ListenerInv /\ [ListenerNext]_listenerVars => ListenerInv'
  <2> SUFFICES ASSUME ListenerInv, [ListenerNext]_listenerVars PROVE ListenerInv'
    OBVIOUS
  <2> USE DEF ListenerInv, FirstIsReset, FlagSound, listening, watching
  <2>1. ASSUME NEW hint \in {"match", "other"}, Change(hint) PROVE ListenerInv'
    <3>1. Append(wire, hint) \in Seq(Hints) /\ (Tells(Append(wire, hint)) <=> (Tells(wire) \/ hint # "other"))
      BY Channel DEF ListenerTypeOK, Hints
    <3> QED
      BY <2>1, <3>1 DEF Change, ListenerTypeOK, Opening, GapAnnounced
  <2>2. CASE subscribe
    <3>1. <<"reset">> \in Seq(Hints) /\ Tells(<<"reset">>) /\ Head(<<"reset">>) = "reset" /\ <<"reset">> # <<>>
      BY DEF Tells, Hints
    <3> QED
      BY <2>2, <3>1 DEF subscribe, ListenerTypeOK, Opening, GapAnnounced
  <2>3. CASE removeSubscriber
    BY <2>3 DEF removeSubscriber, ListenerTypeOK, Opening, GapAnnounced
  <2>4. CASE listenOnce \/ OtherSubscribes
    <3>1. <<>> \in Seq(Hints)
      OBVIOUS
    <3>2. /\ wire' \in Seq(Hints) /\ loop' \in {"listening", "backoff"}
          /\ loop \in {"off", "backoff"}
          /\ UNCHANGED <<connected, sub, src, overflowed, out, pending, first, stale>>
      BY <2>4, <3>1, Zenon DEF listenOnce, OtherSubscribes, ListenerTypeOK
    <3> QED
      BY <3>2 DEF ListenerTypeOK, Opening, GapAnnounced
  <2>5. CASE LoseConnection \/ markDisconnected
    <3>1. <<>> \in Seq(Hints)
      OBVIOUS
    <3>2. /\ wire' \in Seq(Hints) /\ loop' \in {"lost", "backoff"}
          /\ loop' = "backoff" => connected' = FALSE
          /\ loop' = "lost" => connected' = connected /\ loop \in {"listening", "live"}
          /\ UNCHANGED <<sub, src, overflowed, out, pending, first, stale>>
      BY <2>5, <3>1, Zenon DEF LoseConnection, markDisconnected, ListenerTypeOK
    <3>3. connected' => connected
      BY <3>2, Zenon
    <3>4. ListenerTypeOK' /\ FlagSound'
      BY <3>2, Zenon DEF ListenerTypeOK
    <3>5. Opening => Opening'
      BY <3>2, <3>3 DEF Opening
    <3>6. GapAnnounced'
      BY <3>2 DEF GapAnnounced
    <3> QED
      BY <3>2, <3>4, <3>5, <3>6
  <2>6. ASSUME NEW v \in Hints, Deliver(v), loop' = "live", connected' = TRUE,
               wire' \in Seq(Hints), UNCHANGED <<sub, out, pending, first, stale>>,
               loop = "live" \/ v = "reset",
               sub = "open" /\ stale /\ ~Tells(src) /\ ~Tells(out) /\ ~overflowed /\ ~pending =>
                 v # "other" \/ Tells(wire')
        PROVE  ListenerInv'
    <3>1. CASE sub # "open"
      <4>1. UNCHANGED <<src, overflowed>>
        BY <2>6, <3>1, Zenon DEF Deliver
      <4>2. ListenerTypeOK' /\ FlagSound'
        BY <2>6, <4>1 DEF ListenerTypeOK
      <4>3. Opening => Opening'
        BY <2>6, <3>1, <4>1 DEF Opening
      <4>4. GapAnnounced'
        BY <2>6, <3>1 DEF GapAnnounced
      <4> QED
        BY <2>6, <4>1, <4>2, <4>3, <4>4
    <3>2. CASE sub = "open"
      <4> DEFINE a == Append(src, "reset")
      <4>1. \/ src' = src /\ overflowed' = TRUE /\ src # <<>>
            \/ src' = a /\ overflowed' = TRUE
            \/ src' = Append(src, v) /\ overflowed' = FALSE /\ overflowed = FALSE
            \/ src' = Append(a, v) /\ overflowed' = FALSE /\ overflowed = TRUE
        BY <2>6, <3>2, DeliverCases, Zenon
      <4>2. /\ a \in Seq(Hints) /\ a # <<>> /\ Tells(a)
            /\ Head(a) = IF src = <<>> THEN "reset" ELSE Head(src)
        BY Channel DEF ListenerTypeOK, Hints
      <4>3. /\ Append(src, v) \in Seq(Hints) /\ Append(src, v) # <<>>
            /\ Tells(Append(src, v)) <=> (Tells(src) \/ v # "other")
            /\ Head(Append(src, v)) = IF src = <<>> THEN v ELSE Head(src)
        BY <2>6, Channel DEF ListenerTypeOK
      <4>4. /\ Append(a, v) \in Seq(Hints) /\ Append(a, v) # <<>> /\ Tells(Append(a, v))
            /\ Head(Append(a, v)) = Head(a)
        BY <2>6, <4>2, Channel, Zenon
      <4> HIDE DEF a
      <4>5. ListenerTypeOK' /\ FlagSound'
        BY <2>6, <4>1, <4>2, <4>3, <4>4, Zenon DEF ListenerTypeOK
      <4>6. src' # <<>>
        BY <4>1, <4>2, <4>3, <4>4
      <4>7. src # <<>> => Head(src') = Head(src)
        BY <4>1, <4>2, <4>3, <4>4
      <4>8. src = <<>> /\ v = "reset" => Head(src') = "reset"
        BY <4>1, <4>2, <4>3, <4>4
      <4>9. Opening => Opening'
        BY <2>6, <3>2, <4>6, <4>7, <4>8 DEF Opening
      <4>10. GapAnnounced'
        BY <2>6, <3>2, <4>1, <4>2, <4>3, <4>4, Zenon DEF GapAnnounced
      <4> QED
        BY <2>6, <3>2, <4>5, <4>9, <4>10
    <3> QED
      BY <3>1, <3>2
  <2>7. CASE markConnectedAndReset
    BY <2>6, <2>7 DEF markConnectedAndReset, ListenerTypeOK, Hints
  <2>8. CASE broadcast
    <3>1. Head(wire) \in Hints /\ Tail(wire) \in Seq(Hints)
      BY <2>8 DEF broadcast, ListenerTypeOK
    <3>2. Tells(wire) => Tells(Tail(wire)) \/ Head(wire) # "other"
      BY <2>8, Channel DEF broadcast, ListenerTypeOK
    <3>3. /\ loop = "live" /\ Deliver(Head(wire)) /\ wire' = Tail(wire)
          /\ UNCHANGED <<loop, connected, sub, out, pending, first, stale>>
      BY <2>8 DEF broadcast
    <3>4. connected' = TRUE
      BY <3>3 DEF ListenerTypeOK
    <3>5. sub = "open" /\ stale /\ ~Tells(src) /\ ~Tells(out) /\ ~overflowed /\ ~pending =>
                 Head(wire) # "other" \/ Tells(wire')
      BY <3>2, <3>3, Zenon DEF GapAnnounced
    <3> QED
      BY <2>6, <3>1, <3>3, <3>4, <3>5
  <2>11. CASE Watch
    <3> DEFINE a == Append(out, "reset")
               c == Head(src)
    <3>1. /\ src # <<>> /\ src' = Tail(src) /\ c \in Hints
          /\ UNCHANGED <<loop, wire, connected, sub, overflowed, first, stale>>
          /\ \/ c = "other" /\ out' = out /\ pending' = pending
             \/ c # "other" /\ out' = out /\ pending' = TRUE /\ out # <<>>
             \/ out' = a /\ pending' = TRUE /\ pending = TRUE
             \/ c # "other" /\ out' = Append(out, c) /\ pending' = FALSE
             \/ c # "other" /\ out' = Append(a, c) /\ pending' = FALSE /\ pending = TRUE
      BY <2>11, ForwardCases, Zenon
    <3>2. src' \in Seq(Hints) /\ (Tells(src) => Tells(src') \/ c # "other")
      BY <3>1, Channel DEF ListenerTypeOK
    <3>3. /\ a \in Seq(Hints) /\ a # <<>> /\ Tells(a)
          /\ Head(a) = IF out = <<>> THEN "reset" ELSE Head(out)
      BY Channel DEF ListenerTypeOK, Hints
    <3>4. /\ Append(out, c) \in Seq(Hints) /\ Append(out, c) # <<>>
          /\ Tells(Append(out, c)) <=> (Tells(out) \/ c # "other")
          /\ Head(Append(out, c)) = IF out = <<>> THEN c ELSE Head(out)
      BY <3>1, Channel, Zenon DEF ListenerTypeOK
    <3>5. /\ Append(a, c) \in Seq(Hints) /\ Append(a, c) # <<>> /\ Tells(Append(a, c))
          /\ Head(Append(a, c)) = Head(a)
      BY <3>1, <3>3, Channel, Zenon
    <3> HIDE DEF a, c
    <3>6. ListenerTypeOK' /\ FlagSound'
      BY <3>1, <3>2, <3>3, <3>4, <3>5, Zenon DEF ListenerTypeOK
    <3>7. ASSUME Opening PROVE Opening'
      <4>1. CASE out # <<>> /\ Head(out) = "reset"
        BY <3>1, <3>3, <3>4, <3>5, <4>1, Zenon DEF Opening
      <4>2. CASE out = <<>> /\ ~pending /\ src # <<>> /\ c = "reset"
        BY <3>1, <3>3, <3>4, <3>5, <4>2 DEF Opening
      <4> QED
        BY <3>1, <3>7, <4>1, <4>2 DEF Opening, c
    <3>8. GapAnnounced'
      <4>1. CASE c = "other" /\ out' = out /\ pending' = pending
        BY <3>1, <3>2, <4>1 DEF GapAnnounced
      <4>2. CASE pending' = TRUE \/ Tells(out')
        BY <4>2 DEF GapAnnounced
      <4> QED
        BY <3>1, <3>3, <3>4, <3>5, <4>1, <4>2, Zenon
    <3> QED
      BY <3>1, <3>6, <3>7, <3>8
  <2>9. CASE Consume
    <3>1. Tail(out) \in Seq(Hints)
      BY <2>9, Channel DEF Consume, ListenerTypeOK
    <3> QED
      BY <2>9, <3>1, Zenon DEF Consume, ListenerTypeOK, Opening, GapAnnounced
  <2>10. CASE UNCHANGED listenerVars
    BY <2>10 DEF listenerVars, ListenerTypeOK, Opening, GapAnnounced
  <2> QED
    BY <2>1, <2>2, <2>3, <2>4, <2>5, <2>6, <2>7, <2>8, <2>9, <2>10, <2>11, Zenon DEF ListenerNext, Loop
<1> QED
  BY <1>1, <1>2, PTL DEF ListenerSpec

\* listener.subscribe and markConnectedAndReset: the first hint on every
\* subscription is a reset, whenever it is opened and however slow the consumer.
THEOREM ResetComesFirst == ListenerSpec => []FirstIsReset
  BY ListenerInvariance, PTL DEF ListenerInv

\* deliverLocked, Watch and the reconnect leave no gap without an announcement.
THEOREM NoSilentGap == ListenerSpec => []GapAnnounced
  BY ListenerInvariance, PTL DEF ListenerInv
===============================================================================
