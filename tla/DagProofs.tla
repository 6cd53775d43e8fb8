------------------------------ MODULE DagProofs ------------------------------
(***************************************************************************)
(* The safety of a DAG, proved for any definitions of any size, any number *)
(* of schedulers and any signals.                                          *)
(*                                                                         *)
(* What makes stale snapshots harmless is that a task that succeeded or    *)
(* was skipped stays so: a dependency that a sweep saw satisfied still is  *)
(* when the sweep writes.  Snapshots says this of every sweep under way;   *)
(* Rows, Header and Log say which rows there are, which header goes        *)
(* with a compensation chain, and that the completions are on record.      *)
(* Signalled, on top of these, pairs the messages that are marked consumed *)
(* with the $signal tasks that succeeded.                                  *)
(***************************************************************************)
EXTENDS Dag, TLAPS, FiniteSetTheorems

Finished == {"succeeded", "skipped"}

Over == {"succeeded", "skipped", "dead", "cancelled"}

Begun == JobStates \ {"none", "blocked", "cancelled"}

Ready(k) == k \in def.ignore \/ \A d \in DepsOf(k) : job[d] \in Finished

Ordered == \A k \in Keys : job[k] \in Begun => Ready(k)

Rows ==
  /\ dag.state = "none" => \A k \in Keys : job[k] = "none"
  /\ dag.state # "none" => \A k \in Tasks : job[k] # "none" <=> k \in def.tasks
  /\ HasComps <=> chain # <<>>

Header ==
  /\ chain # <<>> => dag.state \in {"compensating", "suspended", "failed", "cancelled"}
  /\ dag.state = "compensating" => chain # <<>>
  /\ dag.state = "succeeded" => \A k \in def.tasks : job[k] \in Finished

Log ==
  /\ IsInjective(done)
  /\ \A k \in Tasks : k \in Range(done) <=> k \in def.undo /\ job[k] = "succeeded"

Stragglers ==
  chain # <<>> => \A k \in def.tasks \ late :
    /\ job[k] \in Over
    /\ k \in def.undo /\ job[k] = "succeeded" => \E c \in Range(chain) : Original[c] = k

Snapshot(s) ==
  /\ sweep[s].op = "promote" => \A k \in sweep[s].seen : k \in Keys /\ job[k] # "none" /\ Ready(k)
  /\ sweep[s].op = "signals" => sweep[s].seen \subseteq Tasks \X Range(inbox)
  /\ sweep[s].op = "sleeps" => sweep[s].seen \subseteq Keys
  /\ sweep[s].op = "complete" => sweep[s].seen \subseteq {"succeeded", "failed", "suspended", "none"}
  /\ sweep[s].op = "complete" /\ "succeeded" \in sweep[s].seen =>
       \A k \in def.tasks : job[k] \in Finished

Snapshots == \A s \in Schedulers : Snapshot(s)

Inv == TypeOK /\ Ordered /\ Rows /\ Header /\ Log /\ Stragglers /\ Snapshots

-----------------------------------------------------------------------------
(* Sequences of completions and compensations.                             *)

\* The rows of one statement, in some order.
Listed(S) == CHOOSE q \in [1..Cardinality(S) -> S] : IsInjective(q)

\* Listed lists a finite set.
LEMMA Listing ==
  ASSUME NEW S, IsFiniteSet(S)
  PROVE  Listed(S) \in Seq(S) /\ IsInjective(Listed(S)) /\ Range(Listed(S)) = S
<1> DEFINE n == Cardinality(S)  q == Listed(S)
<1>1. n \in Nat /\ ExistsBijection(1..n, S)
  BY FS_CardinalityType
<1>2. PICK f \in [1..n -> S] : IsInjective(f)
  BY <1>1 DEF ExistsBijection, Bijection, Injection
<1>3. q \in [1..n -> S] /\ IsInjective(q)
  BY <1>2 DEF Listed
<1>4. Cardinality(1..n) = n
  BY <1>1, FS_Interval
<1>5. q \in Surjection(1..n, S)
  BY <1>3, <1>4, FS_Injection, Zenon DEF Injection
<1>6. q \in Seq(S) /\ DOMAIN q = 1..n
  BY <1>1, <1>3
<1> QED
  BY <1>3, <1>5, <1>6 DEF Surjection, Range

\* Two lists without a common element are a list together.
LEMMA Joined ==
  ASSUME NEW T, NEW p \in Seq(T), NEW q \in Seq(T), IsInjective(p), IsInjective(q),
         Range(p) \cap Range(q) = {}
  PROVE  /\ p \o q \in Seq(T) /\ IsInjective(p \o q)
         /\ Range(p \o q) = Range(p) \cup Range(q)
<1> DEFINE r == p \o q  m == Len(p)  n == Len(q)
<1>1. /\ r \in Seq(T) /\ Len(r) = m + n /\ m \in Nat /\ n \in Nat
      /\ \A i \in 1..(m + n) : r[i] = IF i <= m THEN p[i] ELSE q[i - m]
  OBVIOUS
<1>2. DOMAIN r = 1..(m + n) /\ DOMAIN p = 1..m /\ DOMAIN q = 1..n
  BY <1>1
<1> HIDE DEF r, m, n
<1>3. ASSUME NEW i \in 1..m PROVE i \in 1..(m + n) /\ r[i] = p[i]
  BY <1>1
<1>4. ASSUME NEW i \in 1..n PROVE m + i \in 1..(m + n) /\ r[m + i] = q[i]
  <2>1. m + i \in 1..(m + n) /\ ~(m + i <= m) /\ (m + i) - m = i
    BY <1>1
  <2> QED
    BY <1>1, <2>1
<1>5. ASSUME NEW i \in 1..(m + n), i \notin 1..m PROVE i - m \in 1..n /\ r[i] = q[i - m]
  <2>1. i - m \in 1..n /\ ~(i <= m)
    BY <1>1, <1>5
  <2> QED
    BY <1>1, <2>1
<1>6. Range(r) = Range(p) \cup Range(q)
  <2>1. ASSUME NEW x \in Range(r) PROVE x \in Range(p) \cup Range(q)
    <3>1. PICK i \in 1..(m + n) : r[i] = x
      BY <1>2 DEF Range
    <3>2. CASE i \in 1..m
      BY <1>2, <1>3, <3>1, <3>2 DEF Range
    <3>3. CASE i \notin 1..m
      BY <1>2, <1>5, <3>1, <3>3 DEF Range
    <3> QED
      BY <3>2, <3>3
  <2>2. ASSUME NEW x \in Range(p) PROVE x \in Range(r)
    BY <1>2, <1>3 DEF Range
  <2>3. ASSUME NEW x \in Range(q) PROVE x \in Range(r)
    <3>1. PICK i \in 1..n : q[i] = x
      BY <1>2 DEF Range
    <3> QED
      BY <1>2, <1>4, <3>1 DEF Range
  <2> QED
    BY <2>1, <2>2, <2>3
<1>7. ASSUME NEW i \in 1..(m + n), NEW j \in 1..(m + n), r[i] = r[j] PROVE i = j
  <2>1. CASE i \in 1..m /\ j \in 1..m
    BY <1>2, <1>3, <1>7, <2>1 DEF IsInjective
  <2>2. CASE i \notin 1..m /\ j \notin 1..m
    <3>1. /\ i - m \in 1..n /\ r[i] = q[i - m]
          /\ j - m \in 1..n /\ r[j] = q[j - m]
      BY <1>5, <2>2
    <3>2. i - m = j - m
      BY <1>2, <1>7, <3>1, Zenon DEF IsInjective
    <3> QED
      BY <1>1, <3>2
  <2>3. CASE i \in 1..m /\ j \notin 1..m
    BY <1>2, <1>3, <1>5, <1>7, <2>3, Zenon DEF Range
  <2>4. CASE i \notin 1..m /\ j \in 1..m
    BY <1>2, <1>3, <1>5, <1>7, <2>4, Zenon DEF Range
  <2> QED
    BY <2>1, <2>2, <2>3, <2>4
<1> QED
  BY <1>1, <1>2, <1>6, <1>7, Zenon DEF r, IsInjective

\* completed_at: the rows that succeed are added to the completions.
LEMMA CompletedSound ==
  ASSUME TypeOK, Log, NEW S \in SUBSET Keys, \A k \in S : job[k] # "succeeded"
  PROVE  /\ Completed(S) \in Seq(Tasks) /\ IsInjective(Completed(S))
         /\ \A k \in Tasks : k \in Range(Completed(S)) <=> k \in Range(done) \/ k \in S \cap def.undo
<1> DEFINE U == {k \in S : k \in def.undo}
<1>1. U \in SUBSET Tasks
  <2>1. def.undo \subseteq Tasks
    BY DefinitionsAssumption, KeysAssumption DEF TypeOK, Injection
  <2> QED
    BY <2>1
<1>2. IsFiniteSet(U)
  BY <1>1, FS_Subset, DefinitionsAssumption
<1>3. Listed(U) \in Seq(Tasks) /\ IsInjective(Listed(U)) /\ Range(Listed(U)) = U
  <2>1. Listed(U) \in Seq(U) /\ IsInjective(Listed(U)) /\ Range(Listed(U)) = U
    BY <1>2, Listing, Zenon
  <2> HIDE DEF U
  <2> QED
    BY <1>1, <2>1
<1>4. done \in Seq(Tasks) /\ IsInjective(done) /\ Range(done) \cap U = {}
  BY <1>1 DEF TypeOK, Log
<1>5. Completed(S) = done \o Listed(U)
  BY DEF Completed, Listed
<1> HIDE DEF U
<1>6. /\ Completed(S) \in Seq(Tasks) /\ IsInjective(Completed(S))
      /\ Range(Completed(S)) = Range(done) \cup U
  BY <1>3, <1>4, <1>5, Joined
<1> QED
  BY <1>6 DEF U

\* insertCompensations: one compensation for each completion, newest first.
LEMMA ChainSound ==
  ASSUME TypeOK, Log
  PROVE  /\ Compensations \in Seq(Comps) /\ IsInjective(Compensations)
         /\ \A k \in Range(done) : \E c \in Range(Compensations) : Original[c] = k
         /\ \A i \in 1..Len(done) : Original[Compensations[i]] = done[Len(done) - i + 1]
<1> DEFINE n == Len(done)  q == Compensations
<1>1. n \in Nat /\ DOMAIN done = 1..n /\ \A i \in 1..n : done[i] \in Tasks
  BY DEF TypeOK
<1>2. ASSUME NEW i \in 1..n PROVE done[i] \in {Original[c] : c \in Comps}
  <2>1. done[i] \in Range(done) /\ done[i] \in Tasks
    BY <1>1 DEF Range
  <2>2. done[i] \in def.undo
    BY <2>1 DEF Log
  <2>3. def.undo \subseteq {Original[c] : c \in Comps}
    BY DefinitionsAssumption, Zenon DEF TypeOK
  <2> QED
    BY <2>2, <2>3
<1>3. \A i \in 1..n : (n - i) + 1 \in 1..n
  BY <1>1
<1>4. ASSUME NEW i \in 1..n PROVE q[i] \in Comps /\ Original[q[i]] = done[(n - i) + 1]
  <2>1. q[i] = CHOOSE c \in Comps : Original[c] = done[(n - i) + 1]
    BY <1>3 DEF Compensations
  <2>2. \E c \in Comps : Original[c] = done[(n - i) + 1]
    BY <1>2, <1>3
  <2> QED
    BY <2>1, <2>2
<1>5. DOMAIN q = 1..n /\ q = [i \in 1..n |-> q[i]]
  BY DEF Compensations
<1> HIDE DEF q
<1>6. q \in Seq(Comps)
  <2>1. q \in [1..n -> Comps]
    BY <1>4, <1>5
  <2> QED
    BY <1>1, <2>1
<1>7. IsInjective(q)
  <2> SUFFICES ASSUME NEW i \in 1..n, NEW j \in 1..n, q[i] = q[j] PROVE i = j
    BY <1>5 DEF IsInjective
  <2>1. done[(n - i) + 1] = done[(n - j) + 1]
    BY <1>4
  <2>2. (n - i) + 1 = (n - j) + 1
    BY <1>1, <1>3, <2>1 DEF Log, IsInjective
  <2> QED
    BY <1>1, <2>2
<1>8. ASSUME NEW k \in Range(done) PROVE \E c \in Range(q) : Original[c] = k
  <2>1. PICK i \in 1..n : done[i] = k
    BY <1>1 DEF Range
  <2>2. (n - i) + 1 \in 1..n /\ (n - ((n - i) + 1)) + 1 = i
    BY <1>1
  <2>3. Original[q[(n - i) + 1]] = k
    BY <1>4, <2>1, <2>2
  <2> QED
    BY <1>5, <2>2, <2>3 DEF Range
<1> QED
  BY <1>4, <1>6, <1>7, <1>8 DEF q

-----------------------------------------------------------------------------
(* Steps that work on the rows there are.                                  *)

\* What such a step may do to them.
Keeps ==
  /\ def' = def /\ chain' = chain /\ (chain # <<>> => late' = late)
  /\ \A k \in Keys :
       /\ job'[k] = "none" <=> job[k] = "none"
       /\ job[k] \in Finished => job'[k] = job[k]
       /\ job'[k] \in Begun => job[k] \in Begun \/ Ready(k)
       /\ k \in Tasks /\ chain # <<>> /\ job[k] \in Over => job'[k] = job[k]

\* Rows S succeed, and no other.
Succeed(S) ==
  /\ S \in SUBSET Keys /\ \A k \in S : job[k] # "succeeded"
  /\ \A k \in Keys : job'[k] = "succeeded" <=> job[k] = "succeeded" \/ k \in S
  /\ done' = Completed(S) \/ (S = {} /\ done' = done)

\* The sweeps under way stay or end.
SweepsEnd ==
  /\ \A s \in Schedulers : sweep'[s] = sweep[s] \/ sweep'[s] = NoSweep
  /\ Range(inbox) \subseteq Range(inbox')

\* What is ready stays ready.
LEMMA ReadyStays ==
  ASSUME Inv, Keeps, NEW k \in Keys, Ready(k)
  PROVE  Ready(k)'
<1>1. DepsOf(k)' = DepsOf(k)
  BY DEF Keeps, DepsOf
<1>2. DepsOf(k) \subseteq Keys
  <2>1. CASE k \in Tasks
    BY <2>1, DefinitionsAssumption DEF DepsOf, Inv, TypeOK, Keys
  <2>2. CASE k \notin Tasks
    BY <2>2 DEF DepsOf, Inv, TypeOK, Keys
  <2> QED
    BY <2>1, <2>2
<1> QED
  BY <1>1, <1>2 DEF Ready, Keeps, Finished

\* So the order of tasks, the rows, the stragglers and the snapshots are kept.
LEMMA KeepsSound ==
  ASSUME Inv, Keeps, SweepsEnd, TypeOK', dag'.state = "none" <=> dag.state = "none"
  PROVE  Ordered' /\ Rows' /\ Stragglers' /\ Snapshots'
<1>1. Ordered'
  BY ReadyStays DEF Inv, Ordered, Keeps
<1>2. HasComps' <=> HasComps
  BY DEF Keeps, HasComps, Keys
<1>3. Rows'
  <2>1. def' = def /\ chain' = chain /\ \A k \in Keys : job'[k] = "none" <=> job[k] = "none"
    BY DEF Keeps
  <2> HIDE DEF HasComps
  <2> QED
    BY <1>2, <2>1 DEF Inv, Rows, Keys
<1>4. Stragglers'
  <2>1. def.tasks \subseteq Tasks
    BY DefinitionsAssumption DEF Inv, TypeOK
  <2> QED
    BY <2>1 DEF Inv, Stragglers, Keeps, Keys
<1>5. Snapshots'
  <2>1. ASSUME NEW s \in Schedulers, sweep'[s] = NoSweep PROVE Snapshot(s)'
    BY <2>1 DEF Snapshot, NoSweep
  <2>2. ASSUME NEW s \in Schedulers, sweep'[s] = sweep[s] PROVE Snapshot(s)'
    <3>1. Snapshot(s) /\ def.tasks \subseteq Keys
      BY DefinitionsAssumption DEF Inv, TypeOK, Snapshots, Keys
    <3>2. \A k \in Keys : Ready(k) => Ready(k)'
      BY ReadyStays
    <3>3. /\ def' = def /\ Range(inbox) \subseteq Range(inbox')
          /\ \A k \in Keys : /\ job'[k] = "none" <=> job[k] = "none"
                             /\ job[k] \in Finished => job'[k] = job[k]
      BY DEF Keeps, SweepsEnd
    <3>4. sweep[s].op = "promote" => \A k \in sweep[s].seen : k \in Keys /\ job'[k] # "none" /\ Ready(k)'
      <4> SUFFICES ASSUME sweep[s].op = "promote", NEW k \in sweep[s].seen
                   PROVE  k \in Keys /\ job'[k] # "none" /\ Ready(k)'
        BY Zenon
      <4>1. k \in Keys /\ job[k] # "none" /\ Ready(k)
        BY <3>1, Zenon DEF Snapshot
      <4> QED
        BY <3>3, <4>1, ReadyStays
    <3>5. sweep[s].op = "signals" => sweep[s].seen \subseteq Tasks \X Range(inbox')
      BY <3>1, <3>3 DEF Snapshot
    <3>6. sweep[s].op = "complete" /\ "succeeded" \in sweep[s].seen =>
            \A k \in def.tasks : job'[k] \in Finished
      <4> SUFFICES ASSUME sweep[s].op = "complete", "succeeded" \in sweep[s].seen, NEW k \in def.tasks
                   PROVE  job'[k] \in Finished
        OBVIOUS
      <4>1. job[k] \in Finished /\ k \in Keys
        BY <3>1, Zenon DEF Snapshot
      <4> QED
        BY <3>3, <4>1
    <3> QED
      BY <2>2, <3>1, <3>3, <3>4, <3>5, <3>6 DEF Snapshot
  <2> QED
    BY <2>1, <2>2 DEF SweepsEnd, Snapshots
<1> QED
  BY <1>1, <1>3, <1>4, <1>5

\* And so are the completions.
LEMMA SucceedSound ==
  ASSUME Inv, NEW S, Succeed(S), def' = def
  PROVE  Log' /\ done' \in Seq(Tasks)
<1>1. CASE S = {} /\ done' = done
  BY <1>1 DEF Inv, TypeOK, Log, Succeed, Keys
<1>2. CASE done' = Completed(S)
  <2>1. done' = Completed(S)
    BY <1>2
  <2>2. /\ Completed(S) \in Seq(Tasks) /\ IsInjective(Completed(S))
        /\ \A k \in Tasks : k \in Range(Completed(S)) <=> k \in Range(done) \/ k \in S \cap def.undo
    BY CompletedSound DEF Inv, Succeed
  <2>3. \A k \in Tasks : job'[k] = "succeeded" <=> job[k] = "succeeded" \/ k \in S
    BY DEF Succeed, Keys
  <2>4. \A k \in Tasks : k \in Range(done) <=> k \in def.undo /\ job[k] = "succeeded"
    BY DEF Inv, Log
  <2>5. IsInjective(done') /\ done' \in Seq(Tasks)
    BY <2>1, <2>2
  <2>6. \A k \in Tasks : k \in Range(done') <=> k \in def'.undo /\ job'[k] = "succeeded"
    BY <2>1, <2>2, <2>3, <2>4
  <2> QED
    BY <2>5, <2>6 DEF Log
<1> QED
  BY <1>1, <1>2 DEF Succeed

\* A step on rows that may also move the header.
LEMMA HeaderStep ==
  ASSUME Inv, Keeps, SweepsEnd, TypeOK', dag'.state = "none" <=> dag.state = "none", Header',
         NEW S, Succeed(S)
  PROVE  Inv'
  BY KeepsSound, SucceedSound DEF Inv, Keeps

\* A step that leaves the header alone.
LEMMA RowsStep ==
  ASSUME Inv, Keeps, SweepsEnd, TypeOK', dag' = dag, NEW S, Succeed(S)
  PROVE  Inv'
<1>1. def.tasks \subseteq Keys
  BY DefinitionsAssumption DEF Inv, TypeOK, Keys
<1>2. Header'
  BY <1>1 DEF Inv, Header, Keeps
<1> QED
  BY <1>2, HeaderStep

\* DequeueBatch, the settlements, PromoteDue, RunNow and time.
LEMMA WorkersPreserve ==
  ASSUME Inv, NEW k \in Keys,
         DequeueBatch(k) \/ Settle(k) \/ PromoteDue(k) \/ RunNow(k) \/ Tick(k)
  PROVE  Inv'
<1>0. /\ SweepsEnd /\ dag' = dag /\ sweep' = sweep /\ UNCHANGED <<def, chain, late, inbox, consumed>>
  BY DEF DequeueBatch, Settle, PromoteDue, RunNow, Tick, SweepsEnd, signals
<1>1. PICK state \in JobStates : job' = [job EXCEPT ![k] = state] /\ state \notin {"none", "blocked", "cancelled"}
  <2>1. CASE Tick(k)
    <3>1. job' = [job EXCEPT ![k] = job[k]] /\ job[k] \in JobStates
      BY <2>1 DEF Tick, Inv, TypeOK
    <3> QED
      BY <2>1, <3>1, Zenon DEF Tick
  <2>2. CASE Settle(k)
    BY <2>2, InputAssumption, Zenon DEF Settle, LeaseEnds, JobStates
  <2> QED
    BY <2>1, <2>2 DEF DequeueBatch, PromoteDue, RunNow, JobStates
<1>2. job[k] \in Begun /\ job[k] \notin Over
  BY DEF DequeueBatch, Settle, PromoteDue, RunNow, Tick, Begun, Over, JobStates
<1>3. Keeps
  BY <1>0, <1>1, <1>2 DEF Keeps, Finished, Over, Begun, Inv, TypeOK
<1>4. job' \in [Keys -> JobStates] /\ \A i \in Keys \ {k} : job'[i] = job[i]
  BY <1>1 DEF Inv, TypeOK
<1>5. \E S : Succeed(S)
  <2>1. CASE Settle(k) /\ job'[k] = "succeeded"
    <3>1. done' = Completed({k})
      BY <1>1, <2>1, Zenon DEF Settle, Inv, TypeOK
    <3>2. Succeed({k})
      BY <1>2, <1>4, <2>1, <3>1 DEF Succeed, Over
    <3> QED
      BY <3>2
  <2>2. CASE ~(Settle(k) /\ job'[k] = "succeeded")
    <3>1. done' = done /\ job'[k] # "succeeded"
      BY <2>2, Zenon DEF DequeueBatch, Settle, PromoteDue, RunNow, Tick, Inv, TypeOK
    <3>2. Succeed({})
      BY <1>2, <1>4, <3>1 DEF Succeed, Over
    <3> QED
      BY <3>2
  <2> QED
    BY <2>1, <2>2
<1>6. due' \subseteq {i \in Keys : job'[i] \in {"scheduled", "paused"}}
  BY <1>4 DEF DequeueBatch, Settle, PromoteDue, RunNow, Tick, Inv, TypeOK
<1>7. TypeOK'
  <2>1. done' \in Seq(Tasks)
    BY <1>0, <1>5, SucceedSound
  <2> QED
    BY <1>0, <1>4, <1>6, <2>1 DEF Inv, TypeOK
<1> QED
  BY <1>0, <1>3, <1>5, <1>7, RowsStep

\* A sweep that ends keeps the type of sweep.
LEMMA EndsType ==
  ASSUME Inv, NEW s \in Schedulers, Ends(s)
  PROVE  /\ sweep' \in [Schedulers -> [op : Sweeps, seen : SUBSET (Keys \cup (Tasks \X Messages) \cup DAGStates)]]
         /\ \A t \in Schedulers : sweep'[t] = sweep[t] \/ sweep'[t] = NoSweep
<1>1. NoSweep \in [op : Sweeps, seen : SUBSET (Keys \cup (Tasks \X Messages) \cup DAGStates)]
  BY DEF NoSweep, Sweeps
<1> QED
  BY <1>1 DEF Ends, Inv, TypeOK

\* PromoteReadyTasks, with a snapshot that may be old.
LEMMA PromotePreserves ==
  ASSUME Inv, NEW s \in Schedulers, PromoteWrites(s)
  PROVE  Inv'
<1> DEFINE P == {k \in sweep[s].seen : job[k] = "blocked"}
<1>0. /\ UNCHANGED <<dag, def, due, done, chain, late, inbox, consumed>> /\ Ends(s)
      /\ job' = [k \in Keys |-> IF k \in P THEN Runnable(k) ELSE job[k]]
  BY DEF PromoteWrites, Promoted, signals
<1>1. \A k \in Keys : Runnable(k) \in {"waiting", "scheduled", "pending"}
  BY DEF Runnable
<1>2. \A k \in P : k \in Keys /\ job[k] = "blocked" /\ Ready(k)
  BY DEF PromoteWrites, Inv, Snapshots, Snapshot
<1> HIDE DEF P
<1>3. Keeps
  BY <1>0, <1>1, <1>2 DEF Keeps, Finished, Over, Begun, JobStates, Inv, TypeOK
<1>4. Succeed({})
  BY <1>0, <1>1, <1>2 DEF Succeed
<1>5. TypeOK'
  <2>1. job' \in [Keys -> JobStates]
    BY <1>0, <1>1 DEF Inv, TypeOK, JobStates
  <2>2. due' \subseteq {i \in Keys : job'[i] \in {"scheduled", "paused"}}
    BY <1>0, <1>2 DEF Inv, TypeOK
  <2> QED
    BY <1>0, <2>1, <2>2, EndsType, Zenon DEF Inv, TypeOK
<1>6. SweepsEnd
  BY <1>0, EndsType DEF SweepsEnd
<1> QED
  BY <1>0, <1>3, <1>4, <1>5, <1>6, RowsStep

\* Signals that reach their tasks, at once or from the inbox.
LEMMA DeliverPreserves ==
  ASSUME Inv, NEW S \in SUBSET Tasks, NEW M, Deliver(S, M), UNCHANGED <<dag, def, chain, late>>,
         SweepsEnd, inbox' \in Seq(Messages), M \subseteq Range(inbox'),
         sweep' \in [Schedulers -> [op : Sweeps, seen : SUBSET (Keys \cup (Tasks \X Messages) \cup DAGStates)]]
  PROVE  Inv'
<1> DEFINE W == {k \in S : Waits(k)}
<1>0. /\ job' = [k \in Keys |-> IF k \in W THEN "succeeded" ELSE job[k]]
      /\ done' = Completed(W) /\ due' = due \cup {k \in S : Sleeps(k)}
      /\ consumed' = consumed \cup M
  BY DEF Deliver
<1>1. W \in SUBSET Keys /\ \A k \in W : job[k] = "waiting"
  BY DEF Waits, Keys
<1>2. \A k \in S : Sleeps(k) => k \in Keys /\ job[k] = "scheduled"
  BY DEF Sleeps, Keys
<1> HIDE DEF W
<1>3. Keeps
  BY <1>0, <1>1 DEF Keeps, Finished, Over, Begun, JobStates, Inv, TypeOK
<1>4. Succeed(W)
  BY <1>0, <1>1 DEF Succeed
<1>5. TypeOK'
  <2>1. job' \in [Keys -> JobStates]
    BY <1>0 DEF Inv, TypeOK, JobStates
  <2>2. due' \subseteq {i \in Keys : job'[i] \in {"scheduled", "paused"}}
    BY <1>0, <1>1, <1>2 DEF Inv, TypeOK
  <2>3. done' \in Seq(Tasks)
    BY <1>4, SucceedSound
  <2>4. consumed' \subseteq Range(inbox')
    BY <1>0 DEF SweepsEnd, Inv, TypeOK
  <2> QED
    BY <2>1, <2>2, <2>3, <2>4 DEF Inv, TypeOK
<1> QED
  BY <1>3, <1>4, <1>5, RowsStep

\* DeliverSignals and Signal.
LEMMA SignalsPreserve ==
  ASSUME Inv, (\E s \in Schedulers : DeliverWrites(s)) \/ (\E m \in Messages : Signal(m))
  PROVE  Inv'
<1>1. ASSUME NEW s \in Schedulers, DeliverWrites(s) PROVE Inv'
  <2> DEFINE taken == {p \in sweep[s].seen : Waits(p[1]) \/ Sleeps(p[1])}
             S == {p[1] : p \in taken}
             M == {p[2] : p \in taken}
  <2>1. Deliver(S, M) /\ Ends(s) /\ UNCHANGED <<dag, def, chain, late, inbox>>
    BY <1>1 DEF DeliverWrites
  <2>2. sweep[s].seen \subseteq Tasks \X Range(inbox)
    BY <1>1 DEF DeliverWrites, Inv, Snapshots, Snapshot
  <2>3. S \in SUBSET Tasks /\ M \subseteq Range(inbox')
    BY <2>1, <2>2
  <2>4. SweepsEnd /\ inbox' \in Seq(Messages)
    BY <2>1, EndsType DEF SweepsEnd, Inv, TypeOK
  <2> HIDE DEF S, M
  <2> QED
    BY <2>1, <2>3, <2>4, EndsType, DeliverPreserves
<1>2. ASSUME NEW m \in Messages, Signal(m) PROVE Inv'
  <2> DEFINE S == {t \in {Target[m]} : Waits(t) \/ Sleeps(t)}
             M == IF S = {} THEN {} ELSE {m}
  <2>1. Deliver(S, M) /\ inbox' = Append(inbox, m) /\ UNCHANGED <<dag, def, chain, late, sweep>>
    BY <1>2 DEF Signal
  <2>2. S \in SUBSET Tasks /\ M \subseteq {m}
    BY InputAssumption
  <2>3. inbox' \in Seq(Messages) /\ Range(inbox) \cup {m} \subseteq Range(inbox')
    <3>1. /\ inbox \in Seq(Messages) /\ inbox' \in Seq(Messages) /\ Len(inbox) \in Nat
          /\ Len(inbox') = Len(inbox) + 1 /\ inbox'[Len(inbox) + 1] = m
          /\ \A i \in 1..Len(inbox) : inbox'[i] = inbox[i]
      BY <2>1 DEF Inv, TypeOK
    <3>2. DOMAIN inbox = 1..Len(inbox) /\ DOMAIN inbox' = 1..(Len(inbox) + 1)
      BY <3>1
    <3>3. m \in Range(inbox')
      BY <3>1, <3>2 DEF Range
    <3>4. ASSUME NEW i \in 1..Len(inbox) PROVE inbox[i] \in Range(inbox')
      BY <3>1, <3>2 DEF Range
    <3> QED
      BY <3>1, <3>2, <3>3, <3>4 DEF Range
  <2>4. SweepsEnd
    BY <2>1, <2>3 DEF SweepsEnd
  <2>5. M \subseteq Range(inbox')
    BY <2>2, <2>3
  <2>6. sweep' \in [Schedulers -> [op : Sweeps, seen : SUBSET (Keys \cup (Tasks \X Messages) \cup DAGStates)]]
    BY <2>1 DEF Inv, TypeOK
  <2> HIDE DEF S, M
  <2> QED
    BY <2>1, <2>2, <2>3, <2>4, <2>5, <2>6, DeliverPreserves
<1> QED
  BY <1>1, <1>2

\* CompleteDueSleeps.
LEMMA SleepsPreserve ==
  ASSUME Inv, NEW s \in Schedulers, SleepsWrites(s)
  PROVE  Inv'
<1> DEFINE O == {k \in sweep[s].seen : Sleeps(k) /\ k \in due}
<1>0. /\ job' = [k \in Keys |-> IF k \in O THEN "succeeded" ELSE job[k]]
      /\ done' = Completed(O) /\ due' = due \ O /\ Ends(s)
      /\ UNCHANGED <<dag, def, chain, late, inbox, consumed>>
  BY DEF SleepsWrites, signals
<1>1. O \in SUBSET Keys /\ \A k \in O : job[k] = "scheduled"
  BY DEF SleepsWrites, Sleeps, Inv, Snapshots, Snapshot
<1> HIDE DEF O
<1>2. Keeps
  BY <1>0, <1>1 DEF Keeps, Finished, Over, Begun, JobStates, Inv, TypeOK
<1>3. Succeed(O)
  BY <1>0, <1>1 DEF Succeed
<1>4. TypeOK'
  <2>1. job' \in [Keys -> JobStates]
    BY <1>0 DEF Inv, TypeOK, JobStates
  <2>2. due' \subseteq {i \in Keys : job'[i] \in {"scheduled", "paused"}}
    BY <1>0, <1>1 DEF Inv, TypeOK
  <2>3. done' \in Seq(Tasks)
    BY <1>0, <1>3, SucceedSound
  <2> QED
    BY <1>0, <2>1, <2>2, <2>3, EndsType DEF Inv, TypeOK
<1>5. SweepsEnd
  BY <1>0, EndsType DEF SweepsEnd
<1> QED
  BY <1>0, <1>2, <1>3, <1>4, <1>5, RowsStep

-----------------------------------------------------------------------------
(* Verbs.                                                                  *)

\* RetryDAG, PauseDAG and CancelDAG.
LEMMA VerbsPreserve ==
  ASSUME Inv, RetryDAG \/ PauseDAG \/ CancelDAG
  PROVE  Inv'
<1>0. /\ UNCHANGED <<def, done, chain, late, inbox, consumed, sweep>> /\ SweepsEnd
      /\ dag.state # "none"
  BY DEF RetryDAG, PauseDAG, CancelDAG, SweepsEnd, signals, Live, Terminal
<1>t. def.tasks \subseteq Keys /\ Tasks \cap Comps = {} /\ Tasks \subseteq Keys
  BY DefinitionsAssumption, KeysAssumption DEF Inv, TypeOK, Keys
<1>1. CASE RetryDAG
  <2>1. job' = [k \in Keys |->
               CASE Revives(k) -> "pending"
                 [] job[k] = "paused" -> IF k \in due THEN "pending" ELSE "scheduled"
                 [] OTHER -> job[k]]
    BY <1>1 DEF RetryDAG
  <2>2. \A k \in Keys : /\ job[k] \notin {"dead", "paused"} => job'[k] = job[k]
                        /\ job[k] \in {"dead", "paused"} => job'[k] \in {"pending", "scheduled", "dead"}
                        /\ k \in Tasks /\ HasComps /\ job[k] = "dead" => job'[k] = "dead"
    BY <1>t, <2>1 DEF Revives
  <2>3. HasComps <=> chain # <<>>
    BY DEF Inv, Rows
  <2>4. Keeps
    BY <1>0, <2>2, <2>3 DEF Keeps, Finished, Over, Begun, JobStates, Inv, TypeOK
  <2>5. Succeed({})
    BY <1>0, <2>2 DEF Succeed
  <2>6. due' = {k \in due : job[k] = "scheduled"}
    BY <1>1 DEF RetryDAG
  <2>7. /\ dag' \in [state : DAGStates, cancel_requested : BOOLEAN]
        /\ \/ dag' = dag
           \/ dag'.state = "compensating" /\ HasComps
           \/ dag'.state = "running" /\ ~HasComps
    BY <1>1, Zenon DEF RetryDAG, Inv, TypeOK, DAGStates
  <2>8. TypeOK'
    BY <1>0, <2>1, <2>2, <2>6, <2>7, Zenon DEF Inv, TypeOK, JobStates
  <2>9. Header'
    BY <1>0, <1>t, <2>2, <2>3, <2>7 DEF Inv, Header, Finished
  <2>10. dag'.state # "none"
    BY <1>0, <2>7
  <2> QED
    BY <1>0, <2>4, <2>5, <2>8, <2>9, <2>10, HeaderStep
<1>2. CASE PauseDAG
  <2>1. /\ job' = [k \in Keys |-> IF job[k] \in {"pending", "scheduled"} THEN "paused" ELSE job[k]]
        /\ due' = due \cup {k \in Keys : job[k] = "pending"}
        /\ dag' = [dag EXCEPT !.state = "paused"] /\ dag.state = "running"
    BY <1>2 DEF PauseDAG
  <2>2. Keeps
    BY <1>0, <2>1 DEF Keeps, Finished, Over, Begun, JobStates, Inv, TypeOK
  <2>3. Succeed({})
    BY <1>0, <2>1 DEF Succeed
  <2>4. TypeOK'
    BY <1>0, <2>1, Zenon DEF Inv, TypeOK, JobStates, DAGStates
  <2>5. dag'.state = "paused"
    BY <2>1 DEF Inv, TypeOK
  <2>6. Header'
    BY <1>0, <2>1, <2>5 DEF Inv, Header
  <2> QED
    BY <1>0, <2>2, <2>3, <2>4, <2>5, <2>6, HeaderStep
<1>3. CASE CancelDAG
  <2>1. /\ job' = [k \in Keys |-> IF job[k] \in Remaining THEN "cancelled" ELSE job[k]]
        /\ due' = {}
        /\ dag' = [state |-> IF dag.state = "compensating" THEN dag.state ELSE "cancelled",
                   cancel_requested |-> TRUE]
    BY <1>3 DEF CancelDAG
  <2>2. Keeps
    BY <1>0, <2>1 DEF Keeps, Finished, Over, Begun, JobStates, Inv, TypeOK, Remaining
  <2>3. Succeed({})
    BY <1>0, <2>1 DEF Succeed, Remaining
  <2>4. TypeOK'
    BY <1>0, <2>1 DEF Inv, TypeOK, JobStates, DAGStates
  <2>5. dag'.state = dag.state \/ dag'.state = "cancelled"
    BY <2>1
  <2>6. Header'
    BY <1>0, <1>t, <2>1 DEF Inv, Header, Finished, Remaining
  <2> QED
    BY <1>0, <2>2, <2>3, <2>4, <2>5, <2>6, HeaderStep
<1> QED
  BY <1>1, <1>2, <1>3

-----------------------------------------------------------------------------
(* Statements that read, or write the header alone.                        *)

\* A sweep that has not moved saw what is still there.
LEMMA SnapshotStays ==
  ASSUME UNCHANGED <<def, job, chain, inbox>>, NEW s \in Schedulers, Snapshot(s),
         sweep'[s] = sweep[s]
  PROVE  Snapshot(s)'
  BY DEF Snapshot, Ready, DepsOf

LEMMA HeaderPreserves ==
  ASSUME Inv, UNCHANGED <<def, rows, signals>>, NEW s \in Schedulers, NEW now,
         sweep' = [sweep EXCEPT ![s] = now],
         now \in [op : Sweeps, seen : SUBSET (Keys \cup (Tasks \X Messages) \cup DAGStates)],
         dag' \in [state : DAGStates, cancel_requested : BOOLEAN],
         dag'.state = "none" <=> dag.state = "none", Header', Snapshot(s)'
  PROVE  Inv'
<1>0. UNCHANGED <<def, job, due, done, chain, late, inbox, consumed>>
  BY DEF rows, signals
<1>1. sweep' \in [Schedulers -> [op : Sweeps, seen : SUBSET (Keys \cup (Tasks \X Messages) \cup DAGStates)]]
  BY DEF Inv, TypeOK
<1>2. TypeOK'
  BY <1>0, <1>1 DEF Inv, TypeOK
<1>3. ASSUME NEW t \in Schedulers PROVE Snapshot(t)'
  <2>1. CASE t # s
    <3>1. sweep'[t] = sweep[t]
      BY <2>1 DEF Inv, TypeOK
    <3>2. Snapshot(t)
      BY DEF Inv, Snapshots
    <3> QED
      BY <1>0, <3>1, <3>2, SnapshotStays
  <2> QED
    BY <2>1
<1>4. Ordered'
  BY <1>0 DEF Inv, Ordered, Ready, DepsOf
<1>5. Rows' /\ Log' /\ Stragglers'
  BY <1>0 DEF Inv, Rows, HasComps, Log, Stragglers
<1> QED
  BY <1>2, <1>3, <1>4, <1>5 DEF Inv, Snapshots

\* The reading halves of the sweeps.
LEMMA ReadsPreserve ==
  ASSUME Inv, NEW s \in Schedulers, Reads(s)
  PROVE  Inv'
<1>0. ASSUME NEW op \in Sweeps, NEW seen \in SUBSET (Keys \cup (Tasks \X Messages) \cup DAGStates),
             Sees(s, op, seen), Snapshot(s)'
      PROVE  Inv'
  <2> DEFINE now == [op |-> op, seen |-> seen]
  <2>1. /\ sweep' = [sweep EXCEPT ![s] = now] /\ UNCHANGED <<dag, def, rows, signals>>
        /\ now \in [op : Sweeps, seen : SUBSET (Keys \cup (Tasks \X Messages) \cup DAGStates)]
    BY <1>0 DEF Sees
  <2>2. dag' \in [state : DAGStates, cancel_requested : BOOLEAN] /\ Header'
    BY <2>1 DEF Inv, TypeOK, Header, rows
  <2> HIDE DEF now
  <2> QED
    BY <1>0, <2>1, <2>2, HeaderPreserves, Zenon
<1>1. ASSUME NEW op, NEW seen, Sees(s, op, seen)
      PROVE  sweep'[s].op = op /\ sweep'[s].seen = seen /\ UNCHANGED <<def, job, chain, inbox>>
  BY <1>1 DEF Sees, Inv, TypeOK, rows, signals
<1>2. CASE PromoteReads(s)
  <2>1. Sees(s, "promote", Promotable)
    BY <1>2 DEF PromoteReads
  <2>2. ASSUME NEW k \in Promotable PROVE k \in Keys /\ job[k] # "none" /\ Ready(k)
    BY DEF Promotable, Satisfied, Ignores, Ready, Finished
  <2>3. ASSUME NEW k \in Promotable PROVE k \in Keys /\ job'[k] # "none" /\ Ready(k)'
    BY <1>1, <2>1, <2>2 DEF Ready, DepsOf
  <2>4. Snapshot(s)'
    BY <1>1, <2>1, <2>3 DEF Snapshot
  <2> QED
    BY <1>0, <2>1, <2>2, <2>4 DEF Sweeps
<1>3. CASE DeliverReads(s)
  <2>1. Sees(s, "signals", Deliverable)
    BY <1>3 DEF DeliverReads
  <2>2. Deliverable \subseteq Tasks \X Range(inbox)
    BY DEF Deliverable
  <2>3. Snapshot(s)'
    BY <1>1, <2>1, <2>2 DEF Snapshot
  <2>4. Range(inbox) \subseteq Messages
    BY DEF Inv, TypeOK, Range
  <2>5. Deliverable \subseteq Tasks \X Messages
    BY <2>2, <2>4
  <2> QED
    BY <1>0, <2>1, <2>3, <2>5 DEF Sweeps
<1>4. CASE SleepsReads(s)
  <2>1. Sees(s, "sleeps", DueSleeps) /\ DueSleeps \subseteq Keys
    BY <1>4 DEF SleepsReads, DueSleeps, Inv, TypeOK
  <2>2. Snapshot(s)'
    BY <1>1, <2>1 DEF Snapshot
  <2> QED
    BY <1>0, <2>1, <2>2 DEF Sweeps
<1>5. CASE PolicyReads(s)
  <2>1. Sees(s, "policy", {})
    BY <1>5 DEF PolicyReads
  <2>2. Snapshot(s)'
    BY <1>1, <2>1 DEF Snapshot
  <2> QED
    BY <1>0, <2>1, <2>2 DEF Sweeps
<1>6. CASE CompleteReads(s)
  <2>1. Sees(s, "complete", {Verdict}) /\ Verdict \in {"succeeded", "failed", "suspended", "none"}
    BY <1>6 DEF CompleteReads, Verdict
  <2>2. Verdict = "succeeded" => \A k \in def.tasks : job[k] \in Finished
    <3>1. Verdict = "succeeded" => dag.state = "running" /\ AllIn(Present, {"succeeded", "skipped"})
      BY DEF Verdict
    <3>2. dag.state = "running" => def.tasks \subseteq Present
      BY DefinitionsAssumption DEF Inv, TypeOK, Rows, Present, Keys
    <3> QED
      BY <3>1, <3>2 DEF AllIn, Finished
  <2>3. Snapshot(s)'
    BY <1>1, <2>1, <2>2 DEF Snapshot
  <2>4. {Verdict} \subseteq DAGStates
    BY <2>1 DEF DAGStates
  <2> QED
    BY <1>0, <2>1, <2>3, <2>4 DEF Sweeps
<1> QED
  BY <1>2, <1>3, <1>4, <1>5, <1>6 DEF Reads

\* CompleteDAGs.
LEMMA CompletePreserves ==
  ASSUME Inv, NEW s \in Schedulers, CompleteWrites(s) \/ SettleReads(s) \/ SettleWrites(s)
  PROVE  Inv'
<1>0. UNCHANGED <<def, rows, signals>> /\ UNCHANGED <<job, chain>>
  BY DEF CompleteWrites, SettleReads, SettleWrites, rows
<1>1. PICK now \in {NoSweep, [op |-> "settle", seen |-> {}], [op |-> "settling", seen |-> {}]} :
        sweep' = [sweep EXCEPT ![s] = now]
  BY DEF CompleteWrites, SettleReads, SettleWrites, Ends
<1>2. /\ now \in [op : Sweeps, seen : SUBSET (Keys \cup (Tasks \X Messages) \cup DAGStates)]
      /\ now.op \in {"idle", "settle", "settling"}
  BY DEF NoSweep, Sweeps
<1>3. Snapshot(s)'
  BY <1>1, <1>2 DEF Snapshot, Inv, TypeOK
<1>4. /\ dag' \in [state : DAGStates, cancel_requested : BOOLEAN]
      /\ dag'.state = "none" <=> dag.state = "none"
      /\ Header'
  <2>1. CASE CompleteWrites(s)
    <3>1. PICK verdict \in sweep[s].seen :
            dag' = IF From(verdict) THEN [dag EXCEPT !.state = verdict] ELSE dag
      BY <2>1 DEF CompleteWrites
    <3>2. /\ verdict \in {"succeeded", "failed", "suspended", "none"}
          /\ verdict = "succeeded" => \A k \in def.tasks : job[k] \in Finished
      BY <2>1 DEF CompleteWrites, Inv, Snapshots, Snapshot
    <3>3. CASE From(verdict)
      <4>1. /\ dag' \in [state : DAGStates, cancel_requested : BOOLEAN] /\ dag'.state = verdict
            /\ verdict = "suspended" => dag.state = "compensating"
            /\ verdict \in {"succeeded", "failed"} => dag.state = "running"
            /\ verdict # "none" /\ dag.state # "none"
        BY <3>1, <3>2, <3>3, Zenon DEF From, Inv, TypeOK, DAGStates
      <4> QED
        BY <1>0, <3>2, <4>1 DEF Inv, Header
    <3>4. CASE ~From(verdict)
      BY <1>0, <3>1, <3>4 DEF Inv, TypeOK, Header
    <3> QED
      BY <3>3, <3>4
  <2>2. CASE SettleReads(s)
    BY <1>0, <2>2 DEF SettleReads, Inv, TypeOK, Header
  <2>3. CASE SettleWrites(s)
    <3>1. CASE dag.state = "compensating"
      <4>1. dag' \in [state : DAGStates, cancel_requested : BOOLEAN] /\ dag'.state \in {"cancelled", "failed"}
        BY <2>3, <3>1 DEF SettleWrites, Inv, TypeOK, DAGStates
      <4> QED
        BY <1>0, <3>1, <4>1 DEF Inv, Header
    <3>2. CASE dag.state # "compensating"
      BY <1>0, <2>3, <3>2 DEF SettleWrites, Inv, TypeOK, Header
    <3> QED
      BY <3>1, <3>2
  <2> QED
    BY <2>1, <2>2, <2>3
<1> QED
  BY <1>0, <1>1, <1>2, <1>3, <1>4, HeaderPreserves, Zenon

-----------------------------------------------------------------------------
(* Giving up, and the first and last step of a DAG.                        *)

\* insertCompensations makes the one chain there is.
LEMMA ChainStep ==
  ASSUME Inv, Unwind, ~HasComps, Compensations # <<>>, dag.state # "none",
         \A s \in Schedulers : sweep'[s] = sweep[s] \/ sweep'[s] = NoSweep,
         sweep' \in [Schedulers -> [op : Sweeps, seen : SUBSET (Keys \cup (Tasks \X Messages) \cup DAGStates)]]
  PROVE  Inv'
<1> DEFINE q == Compensations
<1>0. /\ chain' = q /\ due' = {} /\ late' = {k \in Tasks : job[k] = "active"}
      /\ dag' = [dag EXCEPT !.state = "compensating"]
      /\ UNCHANGED <<def, done, inbox, consumed>>
      /\ job' = [k \in Keys |-> IF k \notin Range(q)
                               THEN IF job[k] \in Remaining THEN "cancelled" ELSE job[k]
                               ELSE IF k = q[1] THEN "pending" ELSE "blocked"]
  BY DEF Unwind, signals
<1>1. /\ q \in Seq(Comps) /\ IsInjective(q)
      /\ \A k \in Range(done) : \E c \in Range(q) : Original[c] = k
  BY ChainSound DEF Inv
<1> HIDE DEF q
<1>2. Len(q) \in Nat /\ DOMAIN q = 1..Len(q) /\ 1 \in DOMAIN q /\ Range(q) \subseteq Comps
  BY <1>1 DEF Range, q
<1>3. q[1] \in Range(q) /\ q[1] \in Comps /\ \A n \in 2..Len(q) : q[n] # q[1]
  BY <1>1, <1>2 DEF Range, IsInjective
<1>4. /\ Tasks \cap Comps = {} /\ Keys = Tasks \cup Comps /\ def.tasks \subseteq Tasks
      /\ \A c \in Comps : job[c] = "none"
  BY KeysAssumption, DefinitionsAssumption DEF Inv, TypeOK, HasComps, Keys
<1>5. \A k \in Tasks : job'[k] = IF job[k] \in Remaining THEN "cancelled" ELSE job[k]
  BY <1>0, <1>2, <1>4
<1>6. \A c \in Comps : job'[c] \in {"none", "pending", "blocked"} /\ (job'[c] = "pending" => c = q[1])
  BY <1>0, <1>4 DEF Remaining
<1>7. job'[q[1]] = "pending"
  BY <1>0, <1>3, <1>4
<1>8. dag' \in [state : DAGStates, cancel_requested : BOOLEAN] /\ dag'.state = "compensating"
  BY <1>0 DEF Inv, TypeOK, DAGStates
<1>9. TypeOK'
  <2>1. job' \in [Keys -> JobStates]
    BY <1>0 DEF Inv, TypeOK, JobStates
  <2> QED
    BY <1>0, <1>1, <1>8, <2>1 DEF Inv, TypeOK
<1>10. ASSUME NEW k \in Tasks, Ready(k) PROVE Ready(k)'
  <2>1. DepsOf(k)' = DepsOf(k) /\ DepsOf(k) \subseteq Tasks
    BY <1>0, DefinitionsAssumption DEF DepsOf, Inv, TypeOK
  <2> QED
    BY <1>0, <1>5, <1>10, <2>1 DEF Ready, Finished, Remaining
<1>11. ASSUME NEW c, c = q[1] PROVE Ready(c)'
  <2>1. c \notin Tasks
    BY <1>3, <1>4, <1>11
  <2>2. {n \in 2..Len(q) : q[n] = c} = {}
    BY <1>3, <1>11
  <2>3. DepsOf(c)' = {}
    BY <1>0, <2>1, <2>2 DEF DepsOf
  <2> QED
    BY <2>3 DEF Ready
<1>12. Ordered'
  <2>1. ASSUME NEW k \in Tasks, job'[k] \in Begun PROVE Ready(k)'
    <3>1. job[k] \in Begun /\ k \in Keys
      BY <1>4, <1>5, <2>1 DEF Begun
    <3> QED
      BY <1>10, <3>1 DEF Inv, Ordered
  <2>2. ASSUME NEW c \in Comps, job'[c] \in Begun PROVE Ready(c)'
    BY <1>6, <1>11, <2>2 DEF Begun
  <2> QED
    BY <1>4, <2>1, <2>2 DEF Ordered
<1>13. Rows'
  <2>1. HasComps' /\ chain' # <<>>
    BY <1>0, <1>3, <1>7, Zenon DEF HasComps, q
  <2>2. ASSUME NEW k \in Tasks PROVE job'[k] # "none" <=> k \in def'.tasks
    <3>1. job[k] # "none" <=> k \in def.tasks
      BY DEF Inv, Rows
    <3>2. job'[k] # "none" <=> job[k] # "none"
      BY <1>5 DEF Remaining
    <3> QED
      BY <1>0, <3>1, <3>2
  <2> QED
    BY <1>8, <2>1, <2>2 DEF Rows
<1>14. Header'
  BY <1>0, <1>8 DEF Header, q
<1>15. Log'
  BY <1>0, <1>5 DEF Inv, Log, Remaining
<1>16. Stragglers'
  <2> SUFFICES ASSUME NEW k \in def.tasks, job[k] # "active"
               PROVE  /\ job'[k] \in Over
                      /\ k \in def.undo /\ job'[k] = "succeeded" => \E c \in Range(q) : Original[c] = k
    BY <1>0, <1>4, Zenon DEF Stragglers
  <2>1. k \in Tasks /\ job[k] \in JobStates /\ job[k] # "none"
    BY <1>4 DEF Inv, TypeOK, Rows
  <2>2. job'[k] \in Over
    BY <1>5, <2>1 DEF JobStates, Over, Remaining
  <2>3. job'[k] = "succeeded" => job[k] = "succeeded"
    BY <1>5, <2>1
  <2> QED
    BY <1>1, <2>1, <2>2, <2>3 DEF Inv, Log
<1>17. ASSUME NEW s \in Schedulers PROVE Snapshot(s)'
  <2>1. CASE sweep'[s] = NoSweep
    BY <2>1 DEF Snapshot, NoSweep
  <2>2. CASE sweep'[s] = sweep[s]
    <3>1. Snapshot(s)
      BY DEF Inv, Snapshots
    <3>2. ASSUME sweep[s].op = "promote", NEW k \in sweep[s].seen
          PROVE  k \in Keys /\ job'[k] # "none" /\ Ready(k)'
      <4>1. k \in Keys /\ job[k] # "none" /\ Ready(k)
        BY <3>1, <3>2, Zenon DEF Snapshot
      <4>2. k \in Tasks
        BY <1>4, <4>1
      <4> QED
        BY <1>5, <1>10, <4>1, <4>2 DEF Remaining
    <3>3. ASSUME sweep[s].op = "complete", "succeeded" \in sweep[s].seen, NEW k \in def.tasks
          PROVE  job'[k] \in Finished
      <4>1. job[k] \in Finished /\ k \in Tasks
        BY <1>4, <3>1, <3>3, Zenon DEF Snapshot
      <4> QED
        BY <1>5, <4>1 DEF Finished, Remaining
    <3> QED
      BY <1>0, <2>2, <3>1, <3>2, <3>3 DEF Snapshot
  <2> QED
    BY <2>1, <2>2
<1> QED
  BY <1>9, <1>12, <1>13, <1>14, <1>15, <1>16, <1>17 DEF Inv, Snapshots

\* cancelRemainingTasks with a chain that is there already, or without one.
LEMMA UnwindPreserves ==
  ASSUME Inv, Unwind, dag.state \in {"running", "suspended", "paused"},
         \A s \in Schedulers : sweep'[s] = sweep[s] \/ sweep'[s] = NoSweep,
         sweep' \in [Schedulers -> [op : Sweeps, seen : SUBSET (Keys \cup (Tasks \X Messages) \cup DAGStates)]]
  PROVE  Inv'
<1>1. CASE ~HasComps /\ Compensations # <<>>
  BY <1>1, ChainStep
<1>2. CASE HasComps \/ Compensations = <<>>
  <2>0. HasComps <=> chain # <<>>
    BY DEF Inv, Rows
  <2>1. /\ chain' = chain /\ due' = {} /\ (chain # <<>> => late' = late) /\ late' \subseteq Tasks
        /\ job' = [k \in Keys |-> IF job[k] \in Remaining THEN "cancelled" ELSE job[k]]
        /\ dag' = [dag EXCEPT !.state = IF chain = <<>> THEN "failed" ELSE "compensating"]
        /\ UNCHANGED <<def, done, inbox, consumed>>
    <3>1. CASE HasComps
      BY <2>0, <3>1 DEF Unwind, signals, Inv, TypeOK
    <3>2. CASE ~HasComps
      <4>1. Compensations = <<>> /\ chain = <<>> /\ \A k \in Keys : k \notin Range(Compensations)
        BY <1>2, <2>0, <3>2 DEF Range
      <4> QED
        BY <3>2, <4>1 DEF Unwind, signals
    <3> QED
      BY <3>1, <3>2
  <2>2. Keeps
    BY <2>1 DEF Keeps, Finished, Over, Begun, JobStates, Inv, TypeOK, Remaining
  <2>3. Succeed({})
    BY <2>1 DEF Succeed, Remaining
  <2>4. /\ dag' \in [state : DAGStates, cancel_requested : BOOLEAN]
        /\ dag'.state = IF chain = <<>> THEN "failed" ELSE "compensating"
    BY <2>1 DEF Inv, TypeOK, DAGStates
  <2>5. TypeOK'
    BY <2>1, <2>4 DEF Inv, TypeOK, JobStates
  <2>6. SweepsEnd
    BY <2>1 DEF SweepsEnd
  <2>7. Header'
    BY <2>1, <2>4 DEF Header
  <2> QED
    BY <2>2, <2>3, <2>4, <2>5, <2>6, <2>7, HeaderStep
<1> QED
  BY <1>1, <1>2

\* ApplyFailurePolicy and CompensateDAG.
LEMMA PolicyPreserves ==
  ASSUME Inv, CompensateDAG \/ \E s \in Schedulers : PolicyWrites(s)
  PROVE  Inv'
<1>1. CASE CompensateDAG
  BY <1>1, UnwindPreserves DEF CompensateDAG, Inv, TypeOK
<1>2. ASSUME NEW s \in Schedulers, PolicyWrites(s) PROVE Inv'
  <2>0. Ends(s)
    BY <1>2 DEF PolicyWrites
  <2>1. CASE dag.state = "running" /\ def.policy # "suspend"
    <3>1. Unwind
      BY <1>2, <2>1 DEF PolicyWrites
    <3> QED
      BY <2>0, <2>1, <3>1, EndsType, UnwindPreserves
  <2>2. CASE ~(dag.state = "running" /\ def.policy # "suspend")
    <3>1. /\ UNCHANGED <<def, rows, signals>> /\ UNCHANGED <<job, chain>>
          /\ dag' = dag \/ (dag.state = "running" /\ dag' = [dag EXCEPT !.state = "suspended"])
      BY <1>2, <2>2 DEF PolicyWrites, rows
    <3>2. /\ dag' \in [state : DAGStates, cancel_requested : BOOLEAN]
          /\ dag'.state = "none" <=> dag.state = "none"
          /\ Header'
      BY <3>1 DEF Inv, TypeOK, Header, DAGStates
    <3>3. /\ sweep' = [sweep EXCEPT ![s] = NoSweep]
          /\ NoSweep \in [op : Sweeps, seen : SUBSET (Keys \cup (Tasks \X Messages) \cup DAGStates)]
      BY <2>0 DEF Ends, NoSweep, Sweeps
    <3>4. Snapshot(s)'
      BY <3>3, Zenon DEF Snapshot, NoSweep, Inv, TypeOK
    <3> QED
      BY <3>1, <3>2, <3>3, <3>4, HeaderPreserves, Zenon
  <2> QED
    BY <2>1, <2>2
<1> QED
  BY <1>1, <1>2

\* Client.Run.
LEMMA CreatePreserves ==
  ASSUME Inv, CreateDAG PROVE Inv'
<1>0. /\ dag' = [state |-> "running", cancel_requested |-> FALSE]
      /\ job' = [k \in Keys |-> IF k \in def.tasks THEN InitialTaskState(k) ELSE "none"]
      /\ def.tasks # {} /\ dag.state = "none"
      /\ UNCHANGED <<def, due, done, chain, late, inbox, consumed, sweep>>
  BY DEF CreateDAG, Validate, signals
<1>1. /\ \A k \in Keys : job[k] = "none"
      /\ chain = <<>>
      /\ Tasks \cap Comps = {} /\ Keys = Tasks \cup Comps /\ def.tasks \subseteq Tasks
  BY <1>0, KeysAssumption, DefinitionsAssumption DEF Inv, TypeOK, Rows, HasComps, Keys
<1>2. \A k \in Keys : InitialTaskState(k) \in {"blocked", "waiting", "scheduled", "pending"}
  BY DEF InitialTaskState, Runnable
<1>3. \A k \in Keys : job'[k] \in {"none", "blocked", "waiting", "scheduled", "pending"}
  BY <1>0, <1>2
<1>4. \A k \in Keys : job'[k] # "none" <=> k \in def.tasks
  BY <1>0, <1>2
<1>5. TypeOK'
  <2>1. job' \in [Keys -> JobStates]
    BY <1>0, <1>2 DEF JobStates
  <2>2. due = {}
    BY <1>1 DEF Inv, TypeOK
  <2>3. dag' \in [state : DAGStates, cancel_requested : BOOLEAN]
    BY <1>0 DEF DAGStates
  <2> QED
    BY <1>0, <2>1, <2>2, <2>3 DEF Inv, TypeOK
<1>6. Ordered'
  <2> SUFFICES ASSUME NEW k \in Keys, job'[k] \in Begun PROVE Ready(k)'
    BY DEF Ordered
  <2>1. k \in def.tasks /\ k \in Tasks /\ job'[k] = InitialTaskState(k)
    BY <1>0, <1>1, <1>4 DEF Begun
  <2>2. def.deps[k] = {}
    BY <2>1 DEF InitialTaskState, Begun
  <2>3. DepsOf(k)' = {}
    BY <1>0, <2>1, <2>2 DEF DepsOf
  <2> QED
    BY <2>3 DEF Ready
<1>7. Rows'
  <2>1. ~HasComps' /\ chain' = <<>>
    BY <1>0, <1>1, <1>4 DEF HasComps
  <2>2. \A k \in Tasks : job'[k] # "none" <=> k \in def'.tasks
    BY <1>0, <1>1, <1>4, Zenon
  <2> QED
    BY <1>0, <2>1, <2>2 DEF Rows
<1>8. Header' /\ Stragglers'
  BY <1>0, <1>1 DEF Header, Stragglers
<1>9. Log'
  <2>1. \A k \in Tasks : job[k] # "succeeded" /\ job'[k] # "succeeded"
    BY <1>1, <1>3
  <2> QED
    BY <1>0, <2>1 DEF Inv, Log
<1>10. ASSUME NEW s \in Schedulers PROVE Snapshot(s)'
  <2>1. Snapshot(s) /\ sweep'[s] = sweep[s]
    BY <1>0 DEF Inv, Snapshots
  <2>2. sweep[s].op = "promote" => sweep[s].seen = {}
    BY <1>1, <2>1 DEF Snapshot
  <2>3. ~(sweep[s].op = "complete" /\ "succeeded" \in sweep[s].seen)
    BY <1>0, <1>1, <2>1 DEF Snapshot, Finished
  <2> QED
    BY <1>0, <2>1, <2>2, <2>3 DEF Snapshot
<1> QED
  BY <1>5, <1>6, <1>7, <1>8, <1>9, <1>10 DEF Inv, Snapshots

\* Nothing there: the state before the first DAG, and after VacuumDAGs.
Empty ==
  /\ dag = [state |-> "none", cancel_requested |-> FALSE]
  /\ def \in Definitions
  /\ job = NoRows
  /\ due = {} /\ done = <<>> /\ chain = <<>> /\ late = {}
  /\ inbox = <<>> /\ consumed = {}
  /\ sweep = [s \in Schedulers |-> NoSweep]

LEMMA EmptySound == Empty => Inv
<1> SUFFICES ASSUME Empty PROVE Inv
  OBVIOUS
<1> USE DEF Empty
<1>1. \A k \in Keys : job[k] = "none"
  BY DEF NoRows
<1>2. TypeOK
  <2>1. job \in [Keys -> JobStates]
    BY DEF NoRows, JobStates
  <2>2. sweep \in [Schedulers -> [op : Sweeps, seen : SUBSET (Keys \cup (Tasks \X Messages) \cup DAGStates)]]
    BY DEF NoSweep, Sweeps
  <2>3. dag \in [state : DAGStates, cancel_requested : BOOLEAN]
    BY DEF DAGStates
  <2> QED
    BY <2>1, <2>2, <2>3 DEF TypeOK, Range
<1>3. Ordered
  BY <1>1 DEF Ordered, Begun
<1>4. Rows
  BY <1>1 DEF Rows, HasComps, Keys
<1>5. Header /\ Stragglers
  BY DEF Header, Stragglers
<1>6. Log
  BY <1>1 DEF Log, IsInjective, Range, Keys
<1>7. Snapshots
  BY DEF Snapshots, Snapshot, NoSweep
<1> QED
  BY <1>2, <1>3, <1>4, <1>5, <1>6, <1>7 DEF Inv

-----------------------------------------------------------------------------
(* The theorems.                                                           *)

\* Any step of the system.
LEMMA NextPreserves ==
  ASSUME Inv, Next PROVE Inv'
<1>1. CASE CreateDAG
  BY <1>1, CreatePreserves
<1>2. CASE VacuumDAGs
  <2>1. Empty'
    BY <1>2 DEF VacuumDAGs, Empty, NoRows, NoSweep
  <2>2. (Empty => Inv)'
    BY EmptySound, PTL
  <2> QED
    BY <2>1, <2>2
<1>3. CASE Verb
  BY <1>3, VerbsPreserve, PolicyPreserves DEF Verb
<1>4. ASSUME NEW s \in Schedulers, Reads(s) PROVE Inv'
  BY <1>4, ReadsPreserve
<1>5. ASSUME NEW s \in Schedulers, Writes(s) PROVE Inv'
  BY <1>5, PromotePreserves, SignalsPreserve, SleepsPreserve, PolicyPreserves, CompletePreserves
     DEF Writes
<1>6. ASSUME NEW k \in Keys, DequeueBatch(k) \/ Settle(k) \/ PromoteDue(k) \/ Tick(k) \/ RunNow(k)
      PROVE  Inv'
  BY <1>6, WorkersPreserve
<1>7. ASSUME NEW m \in Messages, Signal(m) PROVE Inv'
  BY <1>7, SignalsPreserve
<1> QED
  BY <1>1, <1>2, <1>3, <1>4, <1>5, <1>6, <1>7 DEF Next

\* Nothing changes.
LEMMA StutterPreserves ==
  ASSUME Inv, UNCHANGED vars PROVE Inv'
<1>0. UNCHANGED <<dag, def, job, due, done, chain, late, inbox, consumed, sweep>>
  BY DEF vars, rows, signals
<1>1. TypeOK'
  BY <1>0 DEF Inv, TypeOK
<1>2. Ordered' /\ Rows' /\ Header' /\ Log' /\ Stragglers'
  BY <1>0 DEF Inv, Ordered, Rows, Header, Log, Stragglers, Ready, DepsOf, HasComps
<1>3. Snapshots'
  BY <1>0 DEF Inv, Snapshots, Snapshot, Ready, DepsOf
<1> QED
  BY <1>1, <1>2, <1>3 DEF Inv

\* The inductive invariant holds of any definitions, schedulers and signals: what a
\* sweep of dag_store.go saw of other rows is still good enough when it writes.
THEOREM DagInvariance == Spec => []Inv
<1>1. Init => Inv
  BY EmptySound DEF Init, Empty
<1>2. Inv /\ [Next]_vars => Inv'
  BY NextPreserves, StutterPreserves
<1> QED
  BY <1>1, <1>2, PTL DEF Spec

\* No task is runnable, run or finished before its dependencies, and no compensation
\* before the one ahead of it: promoteReadySQL, retries, pauses and signals included.
THEOREM TasksInOrder == Spec => []DepsRespected
<1>1. Inv => DepsRespected
  <2> SUFFICES ASSUME Inv, NEW k \in (def.tasks \ def.ignore) \cup Comps,
                      job[k] \notin {"none", "blocked", "cancelled"}
               PROVE  \A d \in DepsOf(k) : job[d] \in {"succeeded", "skipped"}
    BY DEF DepsRespected
  <2>1. k \in Keys /\ k \notin def.ignore /\ job[k] \in JobStates
    BY KeysAssumption, DefinitionsAssumption DEF Inv, TypeOK, Keys
  <2>2. Ready(k)
    BY <2>1 DEF Inv, Ordered, Begun
  <2> QED
    BY <2>1, <2>2 DEF Ready, Finished
<1> QED
  BY <1>1, DagInvariance, PTL

\* A DAG that CompleteDAGs marked succeeded has no unfinished task, and never a
\* compensation.
THEOREM SuccessIsComplete == Spec => []SucceededMeansDone
<1>1. Inv => SucceededMeansDone
  BY DEF Inv, Header, SucceededMeansDone, Finished
<1> QED
  BY <1>1, DagInvariance, PTL

\* After cancelRemainingTasks and insertCompensations only the tasks that were leased
\* at the time can still run, or have succeeded without being compensated.
THEOREM OthersAreCompensated == Spec => []OnlyStragglersEscape
<1>1. Inv => OnlyStragglersEscape
  BY DEF Inv, Header, Stragglers, OnlyStragglersEscape, Over
<1> QED
  BY <1>1, DagInvariance, PTL

-----------------------------------------------------------------------------
(* Signals.                                                                *)

\* The states of a $signal task.
SignalStates == {"none", "blocked", "waiting", "cancelled", "succeeded"}

\* One message is marked consumed for a $signal task that succeeded, none for
\* another, and a sweep has at most one message for a task.
Signalled ==
  /\ \A k \in Tasks : KindOf(k) = "$signal" =>
       /\ job[k] \in SignalStates
       /\ job[k] # "succeeded" => \A m \in consumed : Target[m] # k
       /\ job[k] = "succeeded" =>
            \E n \in consumed : \A m \in consumed : Target[m] = k <=> m = n
  /\ \A s \in Schedulers : sweep[s].op = "signals" =>
       \A p, q \in sweep[s].seen : Target[p[2]] = p[1] /\ (p[1] = q[1] => p = q)

SweepsTo(op) ==
  \A s \in Schedulers : sweep'[s] = sweep[s] \/ sweep'[s].op # op

\* Steps that deliver nothing.
LEMMA NothingDelivered ==
  ASSUME Signalled, UNCHANGED <<def, consumed>>, SweepsTo("signals"),
         \A k \in Tasks : KindOf(k) = "$signal" =>
           /\ job'[k] \in SignalStates
           /\ job'[k] = "succeeded" <=> job[k] = "succeeded"
  PROVE  Signalled'
<1>1. \A k \in Tasks : KindOf(k)' = KindOf(k)
  BY DEF KindOf
<1>2. ASSUME NEW k \in Tasks, KindOf(k) = "$signal"
      PROVE  /\ job'[k] \in SignalStates
             /\ job'[k] # "succeeded" => \A m \in consumed' : Target[m] # k
             /\ job'[k] = "succeeded" =>
                  \E n \in consumed' : \A m \in consumed' : Target[m] = k <=> m = n
  BY <1>2 DEF Signalled
<1>3. ASSUME NEW s \in Schedulers, sweep'[s].op = "signals", NEW p \in sweep'[s].seen, NEW q \in sweep'[s].seen
      PROVE  Target[p[2]] = p[1] /\ (p[1] = q[1] => p = q)
  <2>1. sweep'[s] = sweep[s]
    BY <1>3 DEF SweepsTo
  <2> QED
    BY <1>3, <2>1 DEF Signalled
<1> QED
  BY <1>1, <1>2, <1>3 DEF Signalled

\* Workers never see a $signal task.
LEMMA WorkersDeliverNothing ==
  ASSUME Inv, Signalled, NEW k \in Keys,
         DequeueBatch(k) \/ Settle(k) \/ PromoteDue(k) \/ RunNow(k) \/ Tick(k)
  PROVE  Signalled'
<1>1. /\ UNCHANGED <<def, consumed, sweep>>
      /\ job[k] \in {"pending", "active", "scheduled", "paused"}
      /\ \A i \in Keys \ {k} : job'[i] = job[i]
  BY DEF DequeueBatch, Settle, PromoteDue, RunNow, Tick, signals, Inv, TypeOK
<1>2. ASSUME NEW i \in Tasks, KindOf(i) = "$signal" PROVE i \in Keys /\ i # k /\ job[i] \in SignalStates
  BY <1>1, <1>2, Zenon DEF Signalled, SignalStates, Keys
<1>3. SweepsTo("signals")
  BY <1>1 DEF SweepsTo
<1> QED
  BY <1>1, <1>2, <1>3, NothingDelivered

\* PromoteReadyTasks makes it wait; the other statements leave it alone.
LEMMA SweepsDeliverNothing ==
  ASSUME Inv, Signalled, NEW s \in Schedulers,
         PromoteWrites(s) \/ SleepsWrites(s) \/ CompleteWrites(s) \/ SettleReads(s) \/ SettleWrites(s)
  PROVE  Signalled'
<1>1. UNCHANGED <<def, consumed>>
  BY DEF PromoteWrites, SleepsWrites, CompleteWrites, SettleReads, SettleWrites, signals
<1>2. PICK now \in {NoSweep, [op |-> "settle", seen |-> {}], [op |-> "settling", seen |-> {}]} :
        sweep' = [sweep EXCEPT ![s] = now]
  BY DEF PromoteWrites, SleepsWrites, CompleteWrites, SettleReads, SettleWrites, Ends
<1>3. SweepsTo("signals")
  BY <1>2 DEF SweepsTo, NoSweep, Inv, TypeOK
<1>4. ASSUME NEW k \in Tasks, KindOf(k) = "$signal"
      PROVE  job'[k] \in SignalStates /\ (job'[k] = "succeeded" <=> job[k] = "succeeded")
  <2>0. k \in Keys /\ job[k] \in SignalStates
    BY <1>4, Zenon DEF Signalled, Keys
  <2>1. CASE PromoteWrites(s)
    <3>1. \/ job'[k] = job[k]
          \/ job[k] = "blocked" /\ job'[k] = Runnable(k)
      BY <2>0, <2>1 DEF PromoteWrites, Promoted
    <3> QED
      BY <1>4, <2>0, <3>1 DEF Runnable, SignalStates
  <2>2. CASE SleepsWrites(s)
    <3>1. job'[k] = job[k]
      BY <1>4, <2>0, <2>2 DEF SleepsWrites, Sleeps
    <3> QED
      BY <2>0, <3>1
  <2>3. CASE CompleteWrites(s) \/ SettleReads(s) \/ SettleWrites(s)
    BY <2>0, <2>3 DEF CompleteWrites, SettleReads, SettleWrites, rows
  <2> QED
    BY <2>1, <2>2, <2>3
<1> QED
  BY <1>1, <1>3, <1>4, NothingDelivered

\* Retrying and pausing pass it by, cancelling and giving up cancel it.
LEMMA VerbsDeliverNothing ==
  ASSUME Inv, Signalled, Verb \/ \E s \in Schedulers : PolicyWrites(s)
  PROVE  Signalled'
<1>1. UNCHANGED <<def, consumed>>
  BY DEF Verb, RetryDAG, PauseDAG, CompensateDAG, CancelDAG, PolicyWrites, Unwind, signals
<1>2. SweepsTo("signals")
  <2>1. CASE Verb
    BY <2>1 DEF Verb, RetryDAG, PauseDAG, CompensateDAG, CancelDAG, SweepsTo
  <2>2. ASSUME NEW s \in Schedulers, PolicyWrites(s) PROVE SweepsTo("signals")
    BY <2>2 DEF PolicyWrites, Ends, NoSweep, SweepsTo, Inv, TypeOK
  <2> QED
    BY <2>1, <2>2
<1>3. ASSUME NEW k \in Tasks, KindOf(k) = "$signal"
      PROVE  job'[k] \in SignalStates /\ (job'[k] = "succeeded" <=> job[k] = "succeeded")
  <2>0. k \in Keys /\ job[k] \in SignalStates
    BY <1>3 DEF Signalled, Keys
  <2>1. \/ job'[k] = job[k]
        \/ job[k] \in Remaining /\ job'[k] = "cancelled"
    <3>1. CASE RetryDAG
      <4>1. job[k] \notin {"dead", "paused"}
        BY <2>0 DEF SignalStates
      <4> QED
        BY <2>0, <3>1, <4>1 DEF RetryDAG, Revives
    <3>2. CASE PauseDAG
      BY <2>0, <3>2 DEF PauseDAG, SignalStates
    <3>3. CASE CancelDAG
      BY <2>0, <3>3 DEF CancelDAG
    <3>4. CASE Unwind
      <4>1. k \notin Range(Compensations)
        <5>1. Compensations \in Seq(Comps)
          BY ChainSound DEF Inv
        <5>2. Range(Compensations) \subseteq Comps
          BY <5>1 DEF Range
        <5> QED
          BY <5>2, KeysAssumption
      <4> QED
        BY <2>0, <3>4, <4>1 DEF Unwind
    <3>5. ASSUME NEW s \in Schedulers, PolicyWrites(s), ~Unwind PROVE job'[k] = job[k]
      BY <3>5 DEF PolicyWrites, rows
    <3> QED
      BY <3>1, <3>2, <3>3, <3>4, <3>5 DEF Verb, CompensateDAG
  <2> QED
    BY <2>0, <2>1 DEF Remaining, SignalStates
<1> QED
  BY <1>1, <1>2, <1>3, NothingDelivered

\* DeliverSignals looks for the oldest message of each task: there is one.
LEMMA ReadsSeeOne ==
  ASSUME Inv, Signalled, NEW s \in Schedulers, Reads(s)
  PROVE  Signalled'
<1>1. PICK op, seen : op \in Sweeps /\ Sees(s, op, seen) /\ (op = "signals" => seen = Deliverable)
  <2>1. CASE DeliverReads(s)
    <3>1. "signals" \in Sweeps /\ Sees(s, "signals", Deliverable)
      BY <2>1 DEF DeliverReads, Sweeps
    <3> QED
      BY <3>1, Zenon
  <2>2. CASE ~DeliverReads(s)
    <3>1. PICK op, seen : op \in Sweeps \ {"signals"} /\ Sees(s, op, seen)
      BY <2>2, Zenon DEF Reads, PromoteReads, SleepsReads, PolicyReads, CompleteReads, Sweeps
    <3>2. op \in Sweeps /\ op # "signals"
      BY <3>1
    <3> QED
      BY <3>1, <3>2, Zenon
  <2> QED
    BY <2>1, <2>2
<1>2. /\ UNCHANGED <<def, job, consumed>>
      /\ sweep' = [sweep EXCEPT ![s] = [op |-> op, seen |-> seen]]
  BY <1>1 DEF Sees, rows, signals
<1>3. ASSUME NEW p \in Deliverable, NEW q \in Deliverable
      PROVE  Target[p[2]] = p[1] /\ (p[1] = q[1] => p = q)
  <2>1. /\ p \in Tasks \X Range(inbox) /\ q \in Tasks \X Range(inbox)
        /\ \E i \in Buffered(p[1]) : inbox[i] = p[2] /\ \A j \in Buffered(p[1]) : i <= j
        /\ \E i \in Buffered(q[1]) : inbox[i] = q[2] /\ \A j \in Buffered(q[1]) : i <= j
    BY DEF Deliverable
  <2>2. PICK i \in Buffered(p[1]) : inbox[i] = p[2] /\ \A j \in Buffered(p[1]) : i <= j
    BY <2>1
  <2>3. PICK h \in Buffered(q[1]) : inbox[h] = q[2] /\ \A j \in Buffered(q[1]) : h <= j
    BY <2>1
  <2>4. i \in Int /\ h \in Int /\ Target[inbox[i]] = p[1]
    BY DEF Buffered
  <2>5. p[1] = q[1] => i = h
    BY <2>2, <2>3, <2>4
  <2> QED
    BY <2>1, <2>2, <2>3, <2>4, <2>5
<1>4. ASSUME NEW t \in Schedulers, sweep'[t].op = "signals", NEW p \in sweep'[t].seen, NEW q \in sweep'[t].seen
      PROVE  Target[p[2]] = p[1] /\ (p[1] = q[1] => p = q)
  <2>1. CASE t = s
    <3>1. sweep'[s].op = op /\ sweep'[s].seen = seen
      BY <1>2 DEF Inv, TypeOK
    <3> QED
      BY <1>1, <1>3, <1>4, <2>1, <3>1
  <2>2. CASE t # s
    <3>1. sweep'[t] = sweep[t]
      BY <1>2, <2>2 DEF Inv, TypeOK
    <3> QED
      BY <1>4, <3>1 DEF Signalled
  <2> QED
    BY <2>1, <2>2
<1>5. \A k \in Tasks : KindOf(k)' = KindOf(k)
  BY <1>2 DEF KindOf
<1> QED
  BY <1>2, <1>4, <1>5 DEF Signalled

\* Messages that reach their tasks, at most one each, are marked with them.
LEMMA DeliveredOnce ==
  ASSUME Inv, Signalled, def' = def, SweepsTo("signals"),
         NEW P \in SUBSET (Tasks \X Messages), Deliver({p[1] : p \in P}, {p[2] : p \in P}),
         \A p \in P : Target[p[2]] = p[1] /\ (Waits(p[1]) \/ Sleeps(p[1])),
         \A p, q \in P : p[1] = q[1] => p = q
  PROVE  Signalled'
<1> DEFINE S == {p[1] : p \in P}  W == {k \in S : Waits(k)}
<1>1. /\ job' = [k \in Keys |-> IF k \in W THEN "succeeded" ELSE job[k]]
      /\ consumed' = consumed \cup {p[2] : p \in P}
  BY DEF Deliver
<1>2. ASSUME NEW k \in Tasks, KindOf(k) = "$signal"
      PROVE  /\ job'[k] \in SignalStates
             /\ job'[k] # "succeeded" => \A m \in consumed' : Target[m] # k
             /\ job'[k] = "succeeded" =>
                  \E n \in consumed' : \A m \in consumed' : Target[m] = k <=> m = n
  <2>0. /\ k \in Keys /\ job[k] \in SignalStates
        /\ job[k] # "succeeded" => \A m \in consumed : Target[m] # k
        /\ job[k] = "succeeded" => \E n \in consumed : \A m \in consumed : Target[m] = k <=> m = n
    BY <1>2 DEF Signalled, Keys
  <2>1. CASE k \in S
    <3>1. PICK p \in P : p[1] = k
      BY <2>1
    <3>2. Waits(k) /\ job[k] = "waiting"
      BY <1>2, <3>1 DEF Waits, Sleeps
    <3>3. job'[k] = "succeeded"
      BY <1>1, <2>0, <2>1, <3>2
    <3>4. p[2] \in consumed' /\ Target[p[2]] = k
      BY <1>1, <3>1
    <3>5. ASSUME NEW m \in consumed', Target[m] = k PROVE m = p[2]
      <4>1. m \notin consumed
        BY <2>0, <3>2, <3>5
      <4>2. PICK q \in P : m = q[2]
        BY <1>1, <4>1
      <4>3. q[1] = p[1]
        BY <3>1, <3>5, <4>2
      <4> QED
        BY <4>2, <4>3, Zenon
    <3> QED
      BY <3>3, <3>4, <3>5 DEF SignalStates
  <2>2. CASE k \notin S
    <3>1. job'[k] = job[k]
      BY <1>1, <2>0, <2>2
    <3>2. \A m \in consumed' : Target[m] = k => m \in consumed
      BY <1>1, <2>2
    <3>3. consumed \subseteq consumed'
      BY <1>1
    <3> HIDE DEF S
    <3>4. job[k] = "succeeded" => \E n \in consumed' : \A m \in consumed' : Target[m] = k <=> m = n
      <4> SUFFICES ASSUME job[k] = "succeeded"
                   PROVE  \E n \in consumed' : \A m \in consumed' : Target[m] = k <=> m = n
        OBVIOUS
      <4>1. PICK n \in consumed : \A m \in consumed : Target[m] = k <=> m = n
        BY <2>0
      <4> QED
        BY <3>2, <3>3, <4>1
    <3> QED
      BY <2>0, <3>1, <3>2, <3>4, Zenon
  <2> QED
    BY <2>1, <2>2
<1>3. ASSUME NEW s \in Schedulers, sweep'[s].op = "signals", NEW p \in sweep'[s].seen, NEW q \in sweep'[s].seen
      PROVE  Target[p[2]] = p[1] /\ (p[1] = q[1] => p = q)
  <2>1. sweep'[s] = sweep[s]
    BY <1>3, Zenon DEF SweepsTo
  <2>2. sweep[s].op = "signals" /\ p \in sweep[s].seen /\ q \in sweep[s].seen
    BY <1>3, <2>1, Zenon
  <2> QED
    BY <2>2 DEF Signalled
<1>4. \A k \in Tasks : KindOf(k)' = KindOf(k)
  BY DEF KindOf
<1> QED
  BY <1>2, <1>3, <1>4 DEF Signalled

\* DeliverSignals and Signal.
LEMMA SignalsDeliver ==
  ASSUME Inv, Signalled, (\E s \in Schedulers : DeliverWrites(s)) \/ (\E m \in Messages : Signal(m))
  PROVE  Signalled'
<1>1. ASSUME NEW s \in Schedulers, DeliverWrites(s) PROVE Signalled'
  <2> DEFINE P == {p \in sweep[s].seen : Waits(p[1]) \/ Sleeps(p[1])}
  <2>1. Deliver({p[1] : p \in P}, {p[2] : p \in P}) /\ Ends(s) /\ def' = def /\ sweep[s].op = "signals"
    BY <1>1 DEF DeliverWrites
  <2>2. sweep[s].seen \subseteq Tasks \X Range(inbox) /\ Range(inbox) \subseteq Messages
    <3>1. Snapshot(s) /\ inbox \in Seq(Messages)
      BY Zenon DEF Inv, Snapshots, TypeOK
    <3>2. sweep[s].seen \subseteq Tasks \X Range(inbox)
      BY <2>1, <3>1, Zenon DEF Snapshot
    <3>3. Range(inbox) \subseteq Messages
      BY <3>1 DEF Range
    <3> QED
      BY <3>2, <3>3
  <2>3. P \in SUBSET (Tasks \X Messages)
    BY <2>2
  <2>4. \A p, q \in sweep[s].seen : Target[p[2]] = p[1] /\ (p[1] = q[1] => p = q)
    BY <2>1 DEF Signalled
  <2>5. SweepsTo("signals")
    BY <2>1, Zenon DEF SweepsTo, Ends, NoSweep, Inv, TypeOK
  <2>6. /\ \A p \in P : Target[p[2]] = p[1] /\ (Waits(p[1]) \/ Sleeps(p[1]))
        /\ \A p, q \in P : p[1] = q[1] => p = q
    BY <2>4
  <2> HIDE DEF P
  <2> QED
    BY <2>1, <2>3, <2>5, <2>6, DeliveredOnce
<1>2. ASSUME NEW m \in Messages, Signal(m) PROVE Signalled'
  <2> DEFINE k == Target[m]
             P == {p \in {<<k, m>>} : Waits(k) \/ Sleeps(k)}
             S == {t \in {k} : Waits(t) \/ Sleeps(t)}
             M == IF S = {} THEN {} ELSE {m}
  <2>1. Deliver(S, M) /\ def' = def /\ sweep' = sweep
    BY <1>2 DEF Signal
  <2>2. S = {p[1] : p \in P} /\ M = {p[2] : p \in P}
    <3>1. CASE Waits(k) \/ Sleeps(k)
      <4>1. S = {k} /\ M = {m} /\ P = {<<k, m>>}
        BY <3>1
      <4>2. {p[1] : p \in {<<k, m>>}} = {k} /\ {p[2] : p \in {<<k, m>>}} = {m}
        OBVIOUS
      <4> QED
        BY <4>1, <4>2
    <3>2. CASE ~(Waits(k) \/ Sleeps(k))
      <4>1. S = {} /\ M = {} /\ P = {}
        BY <3>2
      <4> QED
        BY <4>1
    <3> QED
      BY <3>1, <3>2, Zenon
  <2>3. P \in SUBSET (Tasks \X Messages)
    BY InputAssumption
  <2>4. /\ \A p \in P : Target[p[2]] = p[1] /\ (Waits(p[1]) \/ Sleeps(p[1]))
        /\ \A p, q \in P : p[1] = q[1] => p = q
    OBVIOUS
  <2>5. SweepsTo("signals")
    BY <2>1 DEF SweepsTo
  <2> HIDE DEF P, S, M
  <2>6. Deliver({p[1] : p \in P}, {p[2] : p \in P})
    BY <2>1, <2>2
  <2> QED
    BY <2>1, <2>3, <2>4, <2>5, <2>6, DeliveredOnce
<1> QED
  BY <1>1, <1>2

\* Any step of the system.
LEMMA NextDelivers ==
  ASSUME Inv, Signalled, [Next]_vars PROVE Signalled'
<1>1. CASE CreateDAG
  <2>1. /\ UNCHANGED <<def, consumed, sweep>> /\ dag.state = "none"
        /\ job' = [k \in Keys |-> IF k \in def.tasks THEN InitialTaskState(k) ELSE "none"]
    BY <1>1 DEF CreateDAG, signals
  <2>2. SweepsTo("signals")
    BY <2>1 DEF SweepsTo
  <2>3. ASSUME NEW k \in Tasks, KindOf(k) = "$signal"
        PROVE  job'[k] \in SignalStates /\ job'[k] # "succeeded" /\ job[k] # "succeeded"
    <3>1. job[k] = "none" /\ k \in Keys
      BY <2>1 DEF Inv, Rows, Keys
    <3>2. job'[k] \in {"none", InitialTaskState(k)}
      BY <2>1, <3>1
    <3>3. InitialTaskState(k) \in {"blocked", "waiting"}
      BY <2>3 DEF InitialTaskState, Runnable
    <3> QED
      BY <3>1, <3>2, <3>3 DEF SignalStates
  <2> QED
    BY <2>1, <2>2, <2>3, NothingDelivered
<1>2. CASE VacuumDAGs
  <2>1. /\ job' = NoRows /\ consumed' = {} /\ sweep' = [s \in Schedulers |-> NoSweep]
    BY <1>2 DEF VacuumDAGs
  <2>2. \A k \in Tasks : job'[k] = "none"
    BY <2>1 DEF NoRows, Keys
  <2>3. \A s \in Schedulers : sweep'[s].op # "signals"
    BY <2>1 DEF NoSweep
  <2> QED
    BY <2>1, <2>2, <2>3 DEF Signalled, SignalStates
<1>3. CASE Verb
  BY <1>3, VerbsDeliverNothing
<1>4. ASSUME NEW s \in Schedulers, Reads(s) PROVE Signalled'
  BY <1>4, ReadsSeeOne
<1>5. ASSUME NEW s \in Schedulers, Writes(s) PROVE Signalled'
  BY <1>5, SweepsDeliverNothing, SignalsDeliver, VerbsDeliverNothing DEF Writes
<1>6. ASSUME NEW k \in Keys, DequeueBatch(k) \/ Settle(k) \/ PromoteDue(k) \/ Tick(k) \/ RunNow(k)
      PROVE  Signalled'
  BY <1>6, WorkersDeliverNothing
<1>7. ASSUME NEW m \in Messages, Signal(m) PROVE Signalled'
  BY <1>7, SignalsDeliver
<1>8. CASE UNCHANGED vars
  BY <1>8 DEF vars, rows, signals, Signalled, KindOf
<1> QED
  BY <1>1, <1>2, <1>3, <1>4, <1>5, <1>6, <1>7, <1>8 DEF Next

\* A $signal task has succeeded exactly when one message of its name is marked
\* consumed: Signal and the deliverSignals sweeps of any number of schedulers
\* deliver once, and no message is marked for a task that did not take it.
THEOREM SignalsTakenOnce == Spec => []SignalOnce
<1>1. Init => Signalled
  <2> SUFFICES ASSUME Init PROVE Signalled
    OBVIOUS
  <2>1. /\ job = NoRows /\ consumed = {} /\ sweep = [s \in Schedulers |-> NoSweep]
    BY DEF Init
  <2>2. \A k \in Tasks : job[k] = "none"
    BY <2>1 DEF NoRows, Keys
  <2>3. \A s \in Schedulers : sweep[s].op # "signals"
    BY <2>1 DEF NoSweep
  <2> QED
    BY <2>1, <2>2, <2>3 DEF Signalled, SignalStates
<1>2. Inv /\ Signalled => SignalOnce
  <2> SUFFICES ASSUME Inv, Signalled, NEW k \in def.tasks, KindOf(k) = "$signal"
               PROVE  Cardinality({m \in consumed : Target[m] = k}) = IF job[k] = "succeeded" THEN 1 ELSE 0
    BY DEF SignalOnce
  <2>0. k \in Tasks
    BY DefinitionsAssumption DEF Inv, TypeOK
  <2>1. CASE job[k] = "succeeded"
    <3>1. PICK n \in consumed : \A m \in consumed : Target[m] = k <=> m = n
      BY <2>0, <2>1 DEF Signalled
    <3>2. {m \in consumed : Target[m] = k} = {n}
      BY <3>1
    <3> QED
      BY <2>1, <3>2, FS_Singleton
  <2>2. CASE job[k] # "succeeded"
    <3>1. {m \in consumed : Target[m] = k} = {}
      BY <2>0, <2>2 DEF Signalled
    <3> QED
      BY <2>2, <3>1, FS_EmptySet
  <2> QED
    BY <2>1, <2>2
<1> QED
  BY <1>1, <1>2, DagInvariance, NextDelivers, PTL DEF Spec
===============================================================================
