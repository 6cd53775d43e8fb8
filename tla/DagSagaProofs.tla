---------------------------- MODULE DagSagaProofs ----------------------------
(***************************************************************************)
(* Every DAG is a saga: Dag implements Saga, for any definitions, any      *)
(* number of schedulers and any signals.  DagProofs has the invariant; on  *)
(* top of it a chain has no compensation twice (Linked).  Most steps are   *)
(* stutters of the saga; the others are named with the action they are.    *)
(***************************************************************************)
EXTENDS DagSaga, DagProofs, WellFoundedInduction

Linked == IsInjective(chain)

-----------------------------------------------------------------------------
(* Sequences.                                                              *)

\* The least-number principle.
LEMMA LeastNumber ==
  ASSUME NEW S \in SUBSET Nat, S # {}
  PROVE  \E x \in S : \A y \in S : x <= y
<1>1. PICK R : /\ IsWellFoundedOn(R, Nat)
               /\ R = {ss \in Nat \X Nat : ss[1] < ss[2]}
  BY NatLessThanWellFounded, Zenon DEF OpToRel
<1>2. PICK x \in S : \A y \in S : ~(<<y, x>> \in R)
  BY <1>1, WFMin, Zenon
<1>3. \A u, v \in Nat : u < v => <<u, v>> \in R
  BY <1>1
<1>4. \A y \in S : x <= y
  <2> TAKE y \in S
  <2>1. x \in Nat /\ y \in Nat
    OBVIOUS
  <2>2. ~(y < x)
    BY <1>2, <1>3, <2>1, Zenon
  <2> QED
    BY <2>1, <2>2
<1> QED
  BY <1>4

\* A set that holds the position before i, and before each it holds, holds them all.
LEMMA Downward ==
  ASSUME NEW i \in Nat, NEW S,
         \A j \in Nat : 1 <= j /\ j < i /\ (j + 1 = i \/ j + 1 \in S) => j \in S
  PROVE  \A j \in 1..(i - 1) : j \in S
<1> SUFFICES ASSUME NEW m \in 1..(i - 1), m \notin S PROVE FALSE
  OBVIOUS
<1> DEFINE D == {d \in Nat : \E j \in Nat : 1 <= j /\ j < i /\ j \notin S /\ d = i - j}
<1>1. i - m \in D
  OBVIOUS
<1>2. PICK d \in D : \A e \in D : d <= e
  BY <1>1, LeastNumber, Zenon
<1>3. PICK j \in Nat : 1 <= j /\ j < i /\ j \notin S /\ d = i - j
  BY <1>2
<1>4. j + 1 < i /\ j + 1 \notin S
  BY <1>3
<1>5. i - (j + 1) \in D
  BY <1>3, <1>4
<1> QED
  BY <1>2, <1>3, <1>5

\* What a statement completes comes behind what was completed.
LEMMA CompletedExtends ==
  ASSUME Inv, NEW S \in SUBSET Keys, \A k \in S : job[k] # "succeeded"
  PROVE  LET log == Completed(S)  n == Len(done) IN
         /\ log \in Seq(Tasks) /\ Len(log) >= n
         /\ \A i \in 1..n : log[i] = done[i]
         /\ \A i \in (n + 1)..Len(log) : log[i] \in S /\ log[i] \in def.undo
         /\ Len(log) = n => log = done
<1> DEFINE U == {k \in S : k \in def.undo}  q == Listed(U)  log == Completed(S)
<1>1. U \in SUBSET Tasks /\ IsFiniteSet(U)
  <2>1. def.undo \subseteq Tasks
    BY DefinitionsAssumption, KeysAssumption DEF Inv, TypeOK, Injection
  <2>2. U \in SUBSET Tasks
    BY <2>1
  <2> QED
    BY <2>2, FS_Subset, DefinitionsAssumption
<1>2. q \in Seq(U)
  BY <1>1, Listing
<1>3. log = done \o q /\ done \in Seq(Tasks)
  BY DEF Completed, Listed, Inv, TypeOK
<1> HIDE DEF log, q, U
<1>4. q \in Seq(Tasks) /\ Len(q) \in Nat /\ Len(done) \in Nat /\ \A i \in 1..Len(q) : q[i] \in U
  BY <1>1, <1>2, <1>3
<1>5. /\ log \in Seq(Tasks) /\ Len(log) = Len(done) + Len(q)
      /\ \A i \in 1..(Len(done) + Len(q)) : log[i] = IF i <= Len(done) THEN done[i] ELSE q[i - Len(done)]
  BY <1>3, <1>4
<1>6. \A i \in 1..Len(done) : log[i] = done[i]
  BY <1>4, <1>5
<1>7. ASSUME NEW i \in (Len(done) + 1)..Len(log) PROVE log[i] \in S /\ log[i] \in def.undo
  <2>1. i - Len(done) \in 1..Len(q) /\ ~(i <= Len(done)) /\ i \in 1..(Len(done) + Len(q))
    BY <1>4, <1>5
  <2> QED
    BY <1>4, <1>5, <2>1 DEF U
<1>8. Len(log) = Len(done) => log = done
  BY <1>3, <1>4, <1>5, <1>6
<1> QED
  BY <1>4, <1>5, <1>6, <1>7, <1>8 DEF log

\* Rows without a compensation leave no trace.
LEMMA CompletedNothing ==
  ASSUME Inv, NEW S \in SUBSET Keys, \A k \in S : job[k] # "succeeded" /\ k \notin def.undo
  PROVE  Completed(S) = done
<1> DEFINE log == Completed(S)
<1>1. /\ log \in Seq(Tasks) /\ Len(log) >= Len(done)
      /\ \A i \in (Len(done) + 1)..Len(log) : log[i] \in S /\ log[i] \in def.undo
      /\ Len(log) = Len(done) => log = done
  BY CompletedExtends
<1>2. Len(done) \in Nat
  BY DEF Inv, TypeOK
<1> HIDE DEF log
<1> QED
  BY <1>1, <1>2 DEF log

-----------------------------------------------------------------------------
(* Kinds of steps.                                                         *)

SagaStep == Promise!Next \/ UNCHANGED Promise!vars

\* What the saga sees of the rows does not change.
SameView ==
  /\ UNCHANGED <<done, chain>> /\ (chain # <<>> => late' = late)
  /\ \A c \in Comps : job'[c] \in Finished <=> job[c] \in Finished

Going(state) == state \notin Terminal \cup {"none"}

LEMMA ViewKept ==
  ASSUME Inv, SameView
  PROVE  UNCHANGED <<done, Plan, Undone, Left>>
<1>1. \A i \in 1..Len(chain) : chain[i] \in Comps
  BY DEF Inv, TypeOK
<1>2. Plan' = Plan /\ Left' = Left
  BY DEF SameView, Plan, Left
<1>3. Undone' = Undone
  BY <1>1 DEF SameView, Undone, Finished
<1> QED
  BY <1>2, <1>3 DEF SameView

\* The header moves, or does not.
LEMMA HeaderMoves ==
  ASSUME Inv, SameView, dag' \in [state : DAGStates, cancel_requested : BOOLEAN],
         \/ dag'.state = dag.state
         \/ Going(dag.state) /\ Going(dag'.state)
         \/ Going(dag.state) /\ dag'.state \in Terminal /\ (chain # <<>> => dag'.state # "succeeded")
  PROVE  SagaStep
<1>1. UNCHANGED <<done, Plan, Undone, Left>> /\ chain' = chain
  BY ViewKept DEF SameView
<1>2. CASE dag'.state = dag.state \/ (Going(dag.state) /\ Going(dag'.state))
  <2>1. Phase' = Phase
    BY <1>1, <1>2 DEF Phase, Going
  <2> QED
    BY <1>1, <2>1 DEF SagaStep, Promise!vars
<1>3. CASE Going(dag.state) /\ dag'.state \in Terminal /\ (chain # <<>> => dag'.state # "succeeded")
  <2>1. /\ Phase \in {"performing", "undoing"} /\ (Phase = "undoing" => chain # <<>>)
        /\ Phase' = dag'.state /\ dag'.state \in {"succeeded", "failed", "cancelled"}
    BY <1>3 DEF Phase, Going, Terminal
  <2>2. Promise!End(dag'.state)
    BY <1>1, <1>3, <2>1 DEF Promise!End
  <2> QED
    BY <2>1, <2>2 DEF SagaStep, Promise!Next
<1> QED
  BY <1>2, <1>3

\* Tasks S succeed; behind a chain, stragglers only.
LEMMA Performs ==
  ASSUME Inv, UNCHANGED <<dag, chain, late>>,
         NEW S \in SUBSET Tasks, done' = Completed(S), \A k \in S : job[k] \notin Over \cup {"none"},
         \A c \in Comps : job'[c] = job[c]
  PROVE  SagaStep
<1> DEFINE n == Len(done)
<1>1. S \in SUBSET Keys /\ \A k \in S : job[k] # "succeeded"
  BY DEF Keys, Over
<1>2. /\ done' \in Seq(Tasks) /\ Len(done') >= n
      /\ \A i \in 1..n : done'[i] = done[i]
      /\ \A i \in (n + 1)..Len(done') : done'[i] \in S /\ done'[i] \in def.undo
      /\ Len(done') = n => done' = done
  BY <1>1, CompletedExtends
<1>3. n \in Nat /\ Len(done') \in Nat
  BY <1>2 DEF Inv, TypeOK
<1>4. UNCHANGED <<Plan, Undone, Left, Phase>>
  <2>1. \A i \in 1..Len(chain) : chain[i] \in Comps
    BY DEF Inv, TypeOK
  <2>2. Plan' = Plan /\ Left' = Left /\ Phase' = Phase
    BY DEF Plan, Left, Phase
  <2>3. Undone' = Undone
    BY <2>1 DEF Undone
  <2> QED
    BY <2>2, <2>3
<1>5. ASSUME Len(done') > n PROVE Phase # "none"
  <2>1. n + 1 \in (n + 1)..Len(done')
    BY <1>3, <1>5
  <2>2. done'[n + 1] \in S
    BY <1>2, <2>1
  <2>3. dag.state # "none"
    BY <1>1, <2>2 DEF Inv, Rows
  <2> QED
    BY <2>3 DEF Phase, Terminal
<1>6. CASE Len(done') = n
  BY <1>2, <1>4, <1>6 DEF SagaStep, Promise!vars
<1>7. CASE Len(done') > n
  <2>1. ASSUME Plan # <<>> PROVE S \subseteq Left
    <3>1. chain # <<>> /\ Left = late
      BY <2>1 DEF Plan, Left
    <3>2. \A k \in S : k \in def.tasks
      BY <3>1 DEF Inv, Header, Rows
    <3> QED
      BY <3>1, <3>2 DEF Inv, Stragglers
  <2>2. Promise!Perform
    BY <1>2, <1>3, <1>4, <1>5, <1>7, <2>1 DEF Promise!Perform
  <2> QED
    BY <2>2 DEF SagaStep, Promise!Next
<1> QED
  BY <1>2, <1>3, <1>6, <1>7

-----------------------------------------------------------------------------
(* Workers and sweeps.                                                     *)

\* A lease that ends: work of the saga, a piece of its undoing, or neither.
LEMMA SettleMaps ==
  ASSUME Inv, Linked, NEW k \in Keys, Settle(k)
  PROVE  SagaStep
<1>1. PICK state \in Outcomes : /\ job' = [job EXCEPT ![k] = state]
                                /\ done' = IF state = "succeeded" THEN Completed({k}) ELSE done
  BY Zenon DEF Settle
<1>2. job[k] = "active" /\ UNCHANGED <<dag, def, chain, late>>
  BY DEF Settle
<1>3. dag.state # "none" /\ dag \in [state : DAGStates, cancel_requested : BOOLEAN]
  BY <1>2 DEF Inv, Rows, TypeOK
<1>4. /\ Tasks \cap Comps = {} /\ Keys = Tasks \cup Comps
      /\ def.undo \subseteq Tasks /\ def.ignore \subseteq Tasks
  BY KeysAssumption, DefinitionsAssumption DEF Inv, TypeOK, Injection, Keys
<1>5. \A i \in Keys \ {k} : job'[i] = job[i]
  BY <1>1 DEF Inv, TypeOK
<1>6. job'[k] = state
  BY <1>1 DEF Inv, TypeOK
<1>7. CASE k \in Tasks
  <2>1. \A c \in Comps : job'[c] = job[c]
    BY <1>4, <1>5, <1>7
  <2>2. CASE state = "succeeded"
    <3>1. done' = Completed({k})
      BY <1>1, <2>2
    <3> QED
      BY <1>2, <1>3, <1>7, <2>1, <3>1, Performs DEF Over
  <2>3. CASE state # "succeeded"
    <3>1. SameView
      BY <1>1, <1>2, <2>1, <2>3 DEF SameView
    <3> QED
      BY <1>2, <1>3, <3>1, HeaderMoves
  <2> QED
    BY <2>2, <2>3
<1>8. CASE k \in Comps
  <2>1. done' = done
    <3>1. PICK S : S = {k}
      BY Zenon
    <3>2. S \in SUBSET Keys /\ \A j \in S : job[j] # "succeeded" /\ j \notin def.undo
      BY <1>2, <1>4, <1>8, <3>1
    <3>3. Completed(S) = done
      BY <3>2, CompletedNothing
    <3> QED
      BY <1>1, <3>1, <3>3
  <2>2. CASE state \notin Finished \/ k \notin Range(chain)
    <3>1. UNCHANGED <<Plan, Left, Phase>>
      BY <1>2 DEF Plan, Left, Phase
    <3>2. \A i \in 1..Len(chain) : job'[chain[i]] \in Finished <=> job[chain[i]] \in Finished
      <4>1. \A i \in 1..Len(chain) : chain[i] \in Keys /\ chain[i] \in Range(chain)
        BY <1>4 DEF Inv, TypeOK, Range
      <4> QED
        BY <1>2, <1>5, <1>6, <2>2, <4>1 DEF Finished
    <3>3. Undone' = Undone
      BY <1>2, <3>2 DEF Undone, Finished
    <3> QED
      BY <2>1, <3>1, <3>3 DEF SagaStep, Promise!vars
  <2>3. CASE state \in Finished /\ k \in Range(chain)
    <3>0. Len(chain) \in Nat /\ DOMAIN chain = 1..Len(chain) /\ \A j \in 1..Len(chain) : chain[j] \in Comps
      BY DEF Inv, TypeOK
    <3>1. PICK i \in 1..Len(chain) : chain[i] = k
      BY <2>3, <3>0 DEF Range
    <3>2. UNCHANGED <<Plan, Left, Phase>> /\ Len(Plan) = Len(chain)
      BY <1>2, <3>0 DEF Plan, Left, Phase
    <3>3. i \notin Undone
      BY <1>2, <3>1 DEF Undone
    <3>4. Undone' = Undone \cup {i}
      <4>1. \A j \in 1..Len(chain) : j # i => chain[j] # k
        BY <3>0, <3>1 DEF Linked, IsInjective
      <4>2. \A j \in 1..Len(chain) : j # i => job'[chain[j]] = job[chain[j]]
        BY <1>4, <1>5, <3>0, <4>1
      <4>3. job'[chain[i]] \in Finished
        BY <1>6, <2>3, <3>1
      <4> QED
        BY <1>2, <4>2, <4>3 DEF Undone, Finished
    <3>5. ASSUME NEW j \in Nat, 1 <= j, j < i, j + 1 = i \/ j + 1 \in Undone PROVE j \in Undone
      <4>1. j + 1 \in 2..Len(chain) /\ j \in 1..Len(chain) /\ (j + 1) - 1 = j
        BY <3>0, <3>5
      <4>2. job[chain[j + 1]] \in Begun /\ chain[j + 1] \in Comps
        BY <1>2, <3>0, <3>1, <3>5, <4>1 DEF Undone, Begun, JobStates
      <4>3. Ready(chain[j + 1])
        BY <1>4, <4>2 DEF Inv, Ordered
      <4>4. chain[j] \in DepsOf(chain[j + 1])
        <5>1. chain[j + 1] \notin Tasks
          BY <1>4, <4>2
        <5>2. j + 1 \in {n \in 2..Len(chain) : chain[n] = chain[j + 1]}
          BY <4>1
        <5>3. chain[(j + 1) - 1] \in DepsOf(chain[j + 1])
          BY <5>1, <5>2 DEF DepsOf
        <5> QED
          BY <4>1, <5>3
      <4>5. job[chain[j]] \in Finished
        BY <1>4, <4>2, <4>3, <4>4 DEF Ready
      <4> QED
        BY <4>1, <4>5 DEF Undone, Finished
    <3>6. \A j \in 1..(i - 1) : j \in Undone
      BY <3>0, <3>5, Downward
    <3>7. Promise!Undo(i)
      BY <2>1, <3>2, <3>3, <3>4, <3>6 DEF Promise!Undo
    <3> QED
      BY <3>1, <3>2, <3>7 DEF SagaStep, Promise!Next
  <2> QED
    BY <2>2, <2>3
<1> QED
  BY <1>4, <1>7, <1>8

\* The other steps of workers and of time.
LEMMA WorkersMap ==
  ASSUME Inv, NEW k \in Keys, DequeueBatch(k) \/ PromoteDue(k) \/ RunNow(k) \/ Tick(k)
  PROVE  SagaStep
<1>1. SameView
  BY DEF DequeueBatch, PromoteDue, RunNow, Tick, SameView, Finished, Keys, Inv, TypeOK
<1>2. dag' = dag
  BY DEF DequeueBatch, PromoteDue, RunNow, Tick
<1> QED
  BY <1>1, <1>2, HeaderMoves DEF Inv, TypeOK

\* Signals complete $signal tasks, time $sleep tasks.
LEMMA CompletionsMap ==
  ASSUME Inv, \/ \E s \in Schedulers : DeliverWrites(s) \/ SleepsWrites(s)
              \/ \E m \in Messages : Signal(m)
  PROVE  SagaStep
<1>0. Tasks \cap Comps = {} /\ Keys = Tasks \cup Comps
  BY KeysAssumption DEF Keys
<1>1. ASSUME NEW S \in SUBSET Tasks, NEW M, Deliver(S, M), UNCHANGED <<dag, chain, late>> PROVE SagaStep
  <2> DEFINE W == {k \in S : Waits(k)}
  <2>1. job' = [k \in Keys |-> IF k \in W THEN "succeeded" ELSE job[k]] /\ done' = Completed(W)
    BY <1>1 DEF Deliver
  <2>2. W \in SUBSET Tasks /\ \A k \in W : job[k] = "waiting"
    BY DEF Waits
  <2> HIDE DEF W
  <2>3. \A c \in Comps : job'[c] = job[c]
    BY <1>0, <2>1, <2>2
  <2> QED
    BY <1>1, <2>1, <2>2, <2>3, Performs DEF Over
<1>2. ASSUME NEW s \in Schedulers, DeliverWrites(s) PROVE SagaStep
  <2> DEFINE taken == {p \in sweep[s].seen : Waits(p[1]) \/ Sleeps(p[1])}
             S == {p[1] : p \in taken}
             M == {p[2] : p \in taken}
  <2>1. Deliver(S, M) /\ UNCHANGED <<dag, chain, late>>
    BY <1>2 DEF DeliverWrites
  <2>2. sweep[s].seen \subseteq Tasks \X Range(inbox)
    BY <1>2 DEF DeliverWrites, Inv, Snapshots, Snapshot
  <2>3. S \in SUBSET Tasks
    BY <2>2
  <2> HIDE DEF S, M
  <2> QED
    BY <1>1, <2>1, <2>3
<1>3. ASSUME NEW m \in Messages, Signal(m) PROVE SagaStep
  <2> DEFINE S == {t \in {Target[m]} : Waits(t) \/ Sleeps(t)}
             M == IF S = {} THEN {} ELSE {m}
  <2>1. Deliver(S, M) /\ UNCHANGED <<dag, chain, late>>
    BY <1>3 DEF Signal
  <2>2. S \in SUBSET Tasks
    BY InputAssumption
  <2> HIDE DEF S, M
  <2> QED
    BY <1>1, <2>1, <2>2
<1>4. ASSUME NEW s \in Schedulers, SleepsWrites(s) PROVE SagaStep
  <2> DEFINE O == {k \in sweep[s].seen : Sleeps(k) /\ k \in due}
  <2>1. /\ job' = [k \in Keys |-> IF k \in O THEN "succeeded" ELSE job[k]] /\ done' = Completed(O)
        /\ UNCHANGED <<dag, chain, late>>
    BY <1>4 DEF SleepsWrites
  <2>2. O \in SUBSET Tasks /\ \A k \in O : job[k] = "scheduled"
    BY DEF Sleeps, KindOf
  <2> HIDE DEF O
  <2>3. \A c \in Comps : job'[c] = job[c]
    BY <1>0, <2>1, <2>2
  <2> QED
    BY <2>1, <2>2, <2>3, Performs DEF Over
<1> QED
  BY <1>2, <1>3, <1>4

\* The other statements of the scheduler: promotion, the verdicts, and reading.
LEMMA SweepsMap ==
  ASSUME Inv, NEW s \in Schedulers,
         PromoteWrites(s) \/ CompleteWrites(s) \/ SettleReads(s) \/ SettleWrites(s) \/ Reads(s)
  PROVE  SagaStep
<1>0. dag \in [state : DAGStates, cancel_requested : BOOLEAN]
  BY DEF Inv, TypeOK
<1>1. CASE PromoteWrites(s)
  <2>1. \A k \in Keys : job'[k] = job[k] \/ (job[k] = "blocked" /\ job'[k] = Runnable(k))
    BY <1>1 DEF PromoteWrites, Promoted
  <2>2. \A k \in Keys : Runnable(k) \in {"waiting", "scheduled", "pending"}
    BY DEF Runnable
  <2>3. SameView
    BY <1>1, <2>1, <2>2 DEF PromoteWrites, SameView, Finished, Keys
  <2>4. dag' = dag
    BY <1>1 DEF PromoteWrites
  <2> QED
    BY <1>0, <2>3, <2>4, HeaderMoves
<1>2. CASE SettleReads(s) \/ Reads(s)
  <2>1. UNCHANGED <<dag, def, rows>>
    BY <1>2 DEF SettleReads, Reads, PromoteReads, DeliverReads, SleepsReads, PolicyReads,
      CompleteReads, Sees
  <2>2. SameView
    BY <2>1 DEF SameView, rows
  <2> QED
    BY <1>0, <2>1, <2>2, HeaderMoves
<1>3. CASE CompleteWrites(s)
  <2>1. SameView
    BY <1>3 DEF CompleteWrites, SameView, rows
  <2>2. PICK verdict \in sweep[s].seen :
          dag' = IF From(verdict) THEN [dag EXCEPT !.state = verdict] ELSE dag
    BY <1>3 DEF CompleteWrites
  <2>3. verdict \in {"succeeded", "failed", "suspended", "none"}
    BY <1>3 DEF CompleteWrites, Inv, Snapshots, Snapshot
  <2>4. CASE From(verdict)
    <3>1. /\ dag' \in [state : DAGStates, cancel_requested : BOOLEAN] /\ dag'.state = verdict
          /\ verdict = "suspended" => dag.state = "compensating"
          /\ verdict # "suspended" => dag.state = "running" /\ verdict \in {"succeeded", "failed"}
      BY <1>0, <2>2, <2>3, <2>4 DEF From, DAGStates
    <3>2. dag.state = "running" => chain = <<>>
      BY DEF Inv, Header
    <3>3. \/ Going(dag.state) /\ Going(dag'.state)
          \/ Going(dag.state) /\ dag'.state \in Terminal /\ (chain # <<>> => dag'.state # "succeeded")
      BY <2>3, <3>1, <3>2 DEF Going, Terminal
    <3> QED
      BY <2>1, <3>1, <3>3, HeaderMoves
  <2>5. CASE ~From(verdict)
    BY <1>0, <2>1, <2>2, <2>5, HeaderMoves
  <2> QED
    BY <2>4, <2>5
<1>4. CASE SettleWrites(s)
  <2>1. SameView
    BY <1>4 DEF SettleWrites, SameView, rows
  <2>2. CASE dag.state = "compensating"
    <3>1. dag' \in [state : DAGStates, cancel_requested : BOOLEAN] /\ dag'.state \in {"cancelled", "failed"}
      BY <1>0, <1>4, <2>2 DEF SettleWrites, DAGStates
    <3>2. Going(dag.state) /\ dag'.state \in Terminal /\ dag'.state # "succeeded"
      BY <2>2, <3>1 DEF Going, Terminal
    <3> QED
      BY <2>1, <3>1, <3>2, HeaderMoves
  <2>3. CASE dag.state # "compensating"
    <3>1. dag' = dag
      BY <1>4, <2>3 DEF SettleWrites
    <3> QED
      BY <1>0, <2>1, <3>1, HeaderMoves
  <2> QED
    BY <2>2, <2>3
<1> QED
  BY <1>1, <1>2, <1>3, <1>4

-----------------------------------------------------------------------------
(* Giving up.                                                              *)

\* insertCompensations: the plan is the log backwards, and nothing of it is done.
LEMMA UnwindMaps ==
  ASSUME Inv, Unwind, dag.state \in {"running", "suspended", "paused"}
  PROVE  SagaStep
<1>0. /\ HasComps <=> chain # <<>>
      /\ dag \in [state : DAGStates, cancel_requested : BOOLEAN]
      /\ done \in Seq(Tasks) /\ Len(done) \in Nat
      /\ Going(dag.state) /\ Going("compensating") /\ "failed" \in Terminal
  BY DEF Inv, Rows, TypeOK, Going, Terminal
<1>1. \A k \in Keys : job[k] \in Remaining => job[k] \notin Finished
  BY DEF Remaining, Finished
<1>2. CASE HasComps
  <2>1. /\ chain' = chain /\ late' = late /\ done' = done
        /\ dag' = [dag EXCEPT !.state = "compensating"]
        /\ job' = [k \in Keys |-> IF job[k] \in Remaining THEN "cancelled" ELSE job[k]]
    BY <1>0, <1>2 DEF Unwind
  <2>2. SameView
    BY <1>1, <2>1 DEF SameView, Finished, Keys
  <2>3. dag' \in [state : DAGStates, cancel_requested : BOOLEAN] /\ dag'.state = "compensating"
    BY <1>0, <2>1 DEF DAGStates
  <2> QED
    BY <1>0, <2>2, <2>3, HeaderMoves
<1>3. CASE ~HasComps /\ done = <<>>
  <2>0. Compensations = <<>> /\ \A k \in Keys : k \notin Range(Compensations)
    BY <1>3 DEF Compensations, Range
  <2>1. /\ chain' = chain /\ done' = done /\ chain = <<>>
        /\ dag' = [dag EXCEPT !.state = "failed"]
        /\ job' = [k \in Keys |-> IF job[k] \in Remaining THEN "cancelled" ELSE job[k]]
    BY <1>0, <1>3, <2>0 DEF Unwind
  <2>2. SameView
    BY <1>1, <2>1 DEF SameView, Finished, Keys
  <2>3. dag' \in [state : DAGStates, cancel_requested : BOOLEAN] /\ dag'.state = "failed"
    BY <1>0, <2>1 DEF DAGStates
  <2> QED
    BY <1>0, <2>2, <2>3, HeaderMoves
<1>4. CASE ~HasComps /\ done # <<>>
  <2> DEFINE q == Compensations  n == Len(done)
  <2>1. n > 0 /\ q \in Seq(Comps) /\ Len(q) = n /\ q # <<>>
    <3>1. n > 0
      BY <1>0, <1>4
    <3>2. q \in Seq(Comps)
      BY ChainSound DEF Inv
    <3>3. Len(q) = n
      BY <1>0 DEF Compensations
    <3> HIDE DEF q, n
    <3> QED
      BY <3>1, <3>2, <3>3
  <2>2. \A i \in 1..n : Original[q[i]] = done[n - i + 1]
    BY ChainSound DEF Inv
  <2>3. /\ chain' = q /\ done' = done /\ late' = {k \in Tasks : job[k] = "active"}
        /\ dag' = [dag EXCEPT !.state = "compensating"]
        /\ \A k \in Keys : k \in Range(q) => job'[k] \in {"pending", "blocked"}
    BY <1>4, <2>1 DEF Unwind
  <2> HIDE DEF q
  <2>4. dag'.state = "compensating"
    BY <1>0, <2>3
  <2>5. Phase = "performing" /\ Phase' = "undoing"
    BY <1>0, <1>4, <2>1, <2>3, <2>4 DEF Phase, Going, Terminal
  <2>6. Plan' = [i \in 1..n |-> done[n - i + 1]]
    BY <2>1, <2>2, <2>3 DEF Plan
  <2>7. Left' \subseteq Tasks
    BY <2>3 DEF Left
  <2>8. Undone = {} /\ Undone' = {}
    <3>1. \A i \in 1..n : q[i] \in Range(q) /\ q[i] \in Keys
      BY <2>1 DEF Range, Keys
    <3>2. Undone' = {}
      BY <2>1, <2>3, <3>1 DEF Undone
    <3>3. Undone = {}
      BY <1>0, <1>4 DEF Undone
    <3> QED
      BY <3>2, <3>3
  <2>9. Promise!GiveUp
    BY <1>4, <2>3, <2>5, <2>6, <2>7, <2>8 DEF Promise!GiveUp
  <2> QED
    BY <2>9 DEF SagaStep, Promise!Next
<1> QED
  BY <1>2, <1>3, <1>4

\* The operators' verbs and the failure policy.
LEMMA VerbsMap ==
  ASSUME Inv, Verb \/ \E s \in Schedulers : PolicyWrites(s)
  PROVE  SagaStep
<1>0. dag \in [state : DAGStates, cancel_requested : BOOLEAN] /\ job \in [Keys -> JobStates]
  BY DEF Inv, TypeOK
<1>1. CASE RetryDAG
  <2>1. SameView
    BY <1>1 DEF RetryDAG, Revives, SameView, Finished, Keys
  <2>2. dag' \in [state : DAGStates, cancel_requested : BOOLEAN] /\ Going(dag.state) /\ Going(dag'.state)
    BY <1>0, <1>1, Zenon DEF RetryDAG, Live, Going, Terminal, DAGStates
  <2> QED
    BY <2>1, <2>2, HeaderMoves
<1>2. CASE PauseDAG
  <2>1. SameView
    BY <1>2 DEF PauseDAG, SameView, Finished, Keys
  <2>2. dag' \in [state : DAGStates, cancel_requested : BOOLEAN] /\ Going(dag.state) /\ Going(dag'.state)
    BY <1>0, <1>2 DEF PauseDAG, Going, Terminal, DAGStates
  <2> QED
    BY <2>1, <2>2, HeaderMoves
<1>3. CASE CancelDAG
  <2>1. SameView
    BY <1>3 DEF CancelDAG, SameView, Finished, Keys, Remaining
  <2>2. /\ dag' \in [state : DAGStates, cancel_requested : BOOLEAN] /\ Going(dag.state)
        /\ dag'.state = dag.state \/ dag'.state = "cancelled"
    BY <1>0, <1>3 DEF CancelDAG, Live, Going, DAGStates
  <2>3. "cancelled" \in Terminal /\ "cancelled" # "succeeded"
    BY DEF Terminal
  <2> QED
    BY <2>1, <2>2, <2>3, HeaderMoves
<1>4. CASE CompensateDAG
  BY <1>4, UnwindMaps DEF CompensateDAG
<1>5. ASSUME NEW s \in Schedulers, PolicyWrites(s) PROVE SagaStep
  <2>1. CASE dag.state = "running" /\ def.policy # "suspend"
    <3>1. Unwind
      BY <1>5, <2>1 DEF PolicyWrites
    <3> QED
      BY <2>1, <3>1, UnwindMaps
  <2>2. CASE dag.state = "running" /\ def.policy = "suspend"
    <3>1. UNCHANGED rows /\ dag' = [dag EXCEPT !.state = "suspended"]
      BY <1>5, <2>2 DEF PolicyWrites
    <3>2. SameView
      BY <3>1 DEF SameView, rows
    <3>3. dag' \in [state : DAGStates, cancel_requested : BOOLEAN] /\ Going(dag.state) /\ Going(dag'.state)
      BY <1>0, <2>2, <3>1 DEF Going, Terminal, DAGStates
    <3> QED
      BY <3>2, <3>3, HeaderMoves
  <2>3. CASE dag.state # "running"
    <3>1. UNCHANGED <<dag, rows>>
      BY <1>5, <2>3 DEF PolicyWrites
    <3>2. SameView
      BY <3>1 DEF SameView, rows
    <3> QED
      BY <1>0, <3>1, <3>2, HeaderMoves
  <2> QED
    BY <2>1, <2>2, <2>3
<1> QED
  BY <1>1, <1>2, <1>3, <1>4, <1>5 DEF Verb

\* A DAG is created, and vacuumed.
LEMMA LifeMaps ==
  ASSUME Inv, CreateDAG \/ VacuumDAGs
  PROVE  SagaStep
<1>1. CASE CreateDAG
  <2>1. dag.state = "none" /\ dag'.state = "running" /\ UNCHANGED <<done, chain, late>> /\ chain = <<>>
    BY <1>1 DEF CreateDAG, Inv, Header
  <2>2. Phase = "none" /\ Phase' = "performing"
    BY <2>1 DEF Phase, Terminal
  <2>3. UNCHANGED <<Plan, Undone, Left>>
    BY <2>1 DEF Plan, Undone, Left
  <2>4. Promise!Begin
    BY <2>1, <2>2, <2>3 DEF Promise!Begin
  <2> QED
    BY <2>4 DEF SagaStep, Promise!Next
<1>2. CASE VacuumDAGs
  <2>1. dag.state \in Terminal /\ dag'.state = "none" /\ done' = <<>> /\ chain' = <<>>
    BY <1>2 DEF VacuumDAGs
  <2>2. Phase \in {"succeeded", "failed", "cancelled"} /\ Phase' = "none"
    BY <2>1 DEF Phase, Terminal
  <2>3. Plan' = <<>> /\ Undone' = {} /\ Left' = {}
    BY <2>1 DEF Plan, Undone, Left
  <2>4. Promise!Forget
    BY <2>1, <2>2, <2>3 DEF Promise!Forget
  <2> QED
    BY <2>4 DEF SagaStep, Promise!Next
<1> QED
  BY <1>1, <1>2

-----------------------------------------------------------------------------
(* The refinement.                                                         *)

LEMMA StepMaps ==
  ASSUME Inv, Linked, [Next]_vars
  PROVE  SagaStep
<1>1. CASE UNCHANGED vars
  <2>1. UNCHANGED <<Phase, done, Plan, Undone, Left>>
    BY <1>1 DEF vars, rows, Phase, Plan, Undone, Left
  <2> QED
    BY <2>1 DEF SagaStep, Promise!vars
<1>2. CASE Next
  BY <1>2, SettleMaps, WorkersMap, CompletionsMap, SweepsMap, VerbsMap, LifeMaps DEF Next, Writes
<1> QED
  BY <1>1, <1>2

\* No compensation is twice in the chain: it is made once, from an injective log.
LEMMA LinkedPreserved ==
  ASSUME Inv, Linked, [Next]_vars
  PROVE  Linked'
<1>1. ASSUME Unwind PROVE Linked'
  <2>1. IsInjective(Compensations)
    BY ChainSound DEF Inv
  <2>2. chain' = chain \/ chain' = Compensations
    BY <1>1 DEF Unwind
  <2> QED
    BY <2>1, <2>2 DEF Linked
<1>2. chain' = chain \/ chain' = <<>> \/ Unwind
  <2>1. CASE CreateDAG \/ VacuumDAGs \/ Verb
    BY <2>1 DEF CreateDAG, VacuumDAGs, Verb, RetryDAG, PauseDAG, CompensateDAG, CancelDAG
  <2>2. ASSUME NEW s \in Schedulers, Reads(s) \/ Writes(s) PROVE chain' = chain \/ Unwind
    BY <2>2 DEF Reads, PromoteReads, DeliverReads, SleepsReads, PolicyReads, CompleteReads, Sees,
      Writes, PromoteWrites, DeliverWrites, SleepsWrites, PolicyWrites, CompleteWrites,
      SettleReads, SettleWrites, rows
  <2>3. ASSUME NEW k \in Keys,
               DequeueBatch(k) \/ Settle(k) \/ PromoteDue(k) \/ Tick(k) \/ RunNow(k)
        PROVE  chain' = chain
    BY <2>3 DEF DequeueBatch, Settle, PromoteDue, Tick, RunNow
  <2>4. ASSUME NEW m \in Messages, Signal(m) PROVE chain' = chain
    BY <2>4 DEF Signal, rows
  <2>5. CASE UNCHANGED vars
    BY <2>5 DEF vars, rows
  <2> QED
    BY <2>1, <2>2, <2>3, <2>4, <2>5 DEF Next
<1>3. IsInjective(<<>>)
  BY DEF IsInjective
<1> QED
  BY <1>1, <1>2, <1>3 DEF Linked

\* At most one chain of compensations, made of what had been completed, newest first,
\* and worked off in that order, whatever sweeps, workers and operators do.
THEOREM DagIsASaga == Spec => ImplementsSaga
<1>1. Init => Linked /\ Promise!Init
  <2> SUFFICES ASSUME Init PROVE Linked /\ Promise!Init
    OBVIOUS
  <2>1. dag.state = "none" /\ done = <<>> /\ chain = <<>>
    BY DEF Init
  <2>2. Phase = "none"
    BY <2>1 DEF Phase
  <2>3. Plan = <<>> /\ Undone = {} /\ Left = {}
    BY <2>1 DEF Plan, Undone, Left
  <2> QED
    BY <2>1, <2>2, <2>3 DEF Linked, IsInjective, Promise!Init
<1>2. Inv /\ Linked /\ [Next]_vars => Linked' /\ [Promise!Next]_(Promise!vars)
  BY LinkedPreserved, StepMaps DEF SagaStep
<1>3. Spec => []Inv
  BY DagInvariance
<1> QED
  BY <1>1, <1>2, <1>3, PTL DEF Spec, ImplementsSaga, Promise!Spec
=============================================================================
