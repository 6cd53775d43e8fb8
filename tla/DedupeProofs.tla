------------------------------ MODULE DedupeProofs ------------------------------
(* What enqueueing with a key promises, for any rows, producers, keys and    *)
(* windows, and however long transactions stay open.                         *)
EXTENDS Dedupe, TLAPS, FiniteSetTheorems

\* The index has no two rows of a key.
Unique == \A k \in Keys : \A i, j \in Indexed(k) : i = j

\* An enqueue with a window that has claimed its key holds the claim, and the claim
\* ends where its window will.
ClaimHeld ==
  \A p \in Producers :
    tx[p].mode = "window" /\ tx[p].pc \in {"claimed", "inserted"} =>
      /\ tx[p].key \in Keys
      /\ claims[tx[p].key].by = p
      /\ claims[tx[p].key].expires = TTL - tx[p].age

\* A window is over when its key is claimed, and no longer than the claim's.
WindowSound ==
  \A k \in Keys :
    \/ window[k] = -1
    \/ claims[k].by = NULL /\ window[k] <= claims[k].expires

Began == \A p \in Producers : tx[p].pc # "idle" => tx[p].key \in Keys /\ tx[p].mode \in Modes

Inv == TypeOK /\ Unique /\ ClaimHeld /\ WindowSound /\ Began

\* Types of what the statements write.
LEMMA Types ==
  /\ TTL \in Nat /\ TTL > 0 /\ MaxOpen \in Nat /\ Long \in Int /\ Long < 0
  /\ NoRow \in Row /\ NoTx \in Transaction
  /\ Long \in Long..TTL
  /\ NULL \notin Producers /\ NULL \notin Keys
<1>1. TTL \in Nat /\ TTL > 0 /\ MaxOpen \in Nat /\ Long \in Int /\ Long < 0
  BY TimeAssumption DEF Long
<1>2. NoRow \in Row
  BY DEF NoRow, Row, RowStates
<1>3. NoTx \in Transaction
  BY <1>1 DEF NoTx, Transaction
<1> QED
  BY <1>1, <1>2, <1>3, KeyAssumption

\* Init has no row, no claim and no transaction.
LEMMA InitInv == Init => Inv
<1> SUFFICES ASSUME Init PROVE Inv
  OBVIOUS
<1>1. TypeOK
  BY Types DEF Init, TypeOK, ClaimRow
<1>2. Unique /\ ClaimHeld /\ WindowSound /\ Began
  BY Types DEF Init, Unique, Indexed, NoRow, NoTx, Live, ClaimHeld, WindowSound, Began
<1> QED
  BY <1>1, <1>2 DEF Inv

\* Rows change and transactions keep their claims: the index decides.
LEMMA RowsStep ==
  ASSUME Inv, rows' \in [Jobs -> Row], tx' \in [Producers -> Transaction],
         \A p \in Producers : /\ tx'[p].pc = tx[p].pc /\ tx'[p].key = tx[p].key
                              /\ tx'[p].mode = tx[p].mode /\ tx'[p].age = tx[p].age,
         owed' \subseteq Keys, UNCHANGED <<claims, window>>, Unique'
  PROVE  Inv'
  BY DEF Inv, TypeOK, ClaimHeld, WindowSound, Began

\* Begin, Claim and Insert keep it.
LEMMA StatementsPreserve ==
  ASSUME Inv, NEW p \in Producers, Begin(p) \/ Claim(p) \/ Insert(p)
  PROVE  Inv'
<1>1. CASE Begin(p)
  <2>1. PICK k \in Keys, m \in Modes :
          tx' = [tx EXCEPT ![p] = [NoTx EXCEPT !.pc = "open", !.key = k, !.mode = m]]
    BY <1>1, Zenon DEF Begin
  <2> DEFINE t == [NoTx EXCEPT !.pc = "open", !.key = k, !.mode = m]
  <2>2. t \in Transaction /\ t.pc = "open" /\ t.key = k /\ t.mode = m
    BY Types, Zenon DEF NoTx, Transaction
  <2>3. UNCHANGED <<rows, claims, owed, window>>
    BY <1>1, Zenon DEF Begin
  <2> HIDE DEF t
  <2> QED
    BY <2>1, <2>2, <2>3 DEF Inv, TypeOK, Unique, Indexed, ClaimHeld, WindowSound, Began, t
<1>2. CASE Claim(p)
  <2> DEFINE k == tx[p].key
             now == -tx[p].age
             new == [expires |-> now + TTL, by |-> p, undo |-> claims[k].expires]
  <2>1. /\ tx[p].pc = "open" /\ tx[p].mode = "window" /\ claims[k].by = NULL
        /\ UNCHANGED <<rows, owed, window>>
    BY <1>2 DEF Claim
  <2>2. k \in Keys /\ now \in Int /\ now <= 0 /\ -MaxOpen <= now
    BY <2>1, Types DEF Inv, TypeOK, Transaction, Began
  <2>3. CASE claims[k].expires < now
    <3>1. claims' = [claims EXCEPT ![k] = new] /\ tx' = [tx EXCEPT ![p] = [tx[p] EXCEPT !.pc = "claimed"]]
      BY <1>2, <2>3, Zenon DEF Claim
    <3>2. new \in ClaimRow /\ new.by = p /\ new.expires = TTL - tx[p].age
      <4>1. tx[p].age \in 0..MaxOpen /\ claims[k].expires \in Long..TTL
        BY <2>2 DEF Inv, TypeOK, ClaimRow, Transaction
      <4>2. now + TTL \in Long..TTL /\ now + TTL = TTL - tx[p].age
        BY <4>1, Types DEF Long
      <4> QED
        BY <4>1, <4>2 DEF ClaimRow
    <3>3. window[k] = -1
      BY <2>2, <2>3 DEF Inv, TypeOK, WindowSound, ClaimRow
    <3>4. TypeOK'
      <4>1. [tx[p] EXCEPT !.pc = "claimed"] \in Transaction
        BY DEF Inv, TypeOK, Transaction
      <4>2. claims' \in [Keys -> ClaimRow]
        BY <3>1, <3>2, Zenon DEF Inv, TypeOK
      <4>3. tx' \in [Producers -> Transaction]
        BY <3>1, <4>1 DEF Inv, TypeOK
      <4> QED
        BY <2>1, <4>2, <4>3 DEF Inv, TypeOK
    <3>5. ClaimHeld'
      <4> SUFFICES ASSUME NEW q \in Producers, tx'[q].mode = "window", tx'[q].pc \in {"claimed", "inserted"}
                   PROVE  /\ tx'[q].key \in Keys
                          /\ claims'[tx'[q].key].by = q
                          /\ claims'[tx'[q].key].expires = TTL - tx'[q].age
        BY DEF ClaimHeld
      <4>1. CASE q = p
        BY <2>2, <3>1, <3>2, <4>1 DEF Inv, TypeOK, Transaction
      <4>2. CASE q # p
        <5>1. tx'[q] = tx[q]
          BY <3>1, <4>2 DEF Inv, TypeOK
        <5>2. tx[q].key \in Keys /\ claims[tx[q].key].by = q /\ tx[q].key # k
          BY <2>1, <5>1, Types DEF Inv, ClaimHeld
        <5> QED
          BY <3>1, <5>1, <5>2 DEF Inv, TypeOK, ClaimHeld
      <4> QED
        BY <4>1, <4>2
    <3> HIDE DEF new
    <3>6. WindowSound' /\ Unique' /\ Began'
      BY <2>1, <2>2, <3>1, <3>3 DEF Inv, TypeOK, WindowSound, Unique, Indexed, Began, Transaction
    <3> QED
      BY <3>4, <3>5, <3>6 DEF Inv
  <2>4. CASE ~(claims[k].expires < now)
    <3>1. claims' = claims /\ tx' = [tx EXCEPT ![p] = [tx[p] EXCEPT !.pc = "dropped"]]
      BY <1>2, <2>4 DEF Claim
    <3> QED
      BY <2>1, <3>1 DEF Inv, TypeOK, WindowSound, Unique, Indexed, Began, ClaimHeld, Transaction
  <2> QED
    BY <2>3, <2>4
<1>3. CASE Insert(p)
  <2>1. /\ tx[p].pc = (IF tx[p].mode = "window" THEN "claimed" ELSE "open")
        /\ UNCHANGED <<claims, owed, window>>
    BY <1>3 DEF Insert
  <2>2. ASSUME NEW c \in {"dropped", "inserted"}, tx' = [tx EXCEPT ![p] = [tx[p] EXCEPT !.pc = c]]
        PROVE  /\ tx' \in [Producers -> Transaction]
               /\ ClaimHeld' /\ Began' /\ WindowSound'
    BY <2>1, <2>2 DEF Inv, TypeOK, Began, ClaimHeld, WindowSound, Transaction
  <2>3. CASE Duplicate(p)
    <3>1. rows' = rows /\ tx' = [tx EXCEPT ![p] = [tx[p] EXCEPT !.pc = "dropped"]]
      BY <1>3, <2>3 DEF Insert
    <3> QED
      BY <2>1, <2>2, <3>1 DEF Inv, TypeOK, Unique, Indexed
  <2>4. CASE ~Duplicate(p)
    <3> DEFINE new == [state |-> "pending", key |-> tx[p].key, mode |-> tx[p].mode, by |-> p]
    <3>1. /\ rows' = [rows EXCEPT ![FreeSlot] = new]
          /\ tx' = [tx EXCEPT ![p] = [tx[p] EXCEPT !.pc = "inserted"]]
      BY <1>3, <2>4 DEF Insert
    <3>2. new \in Row /\ new.key = tx[p].key /\ new.mode = tx[p].mode
      BY DEF Inv, TypeOK, Row, Transaction, RowStates
    <3>3. tx[p].mode = "coalesce" \/ Indexed(tx[p].key) = {}
      BY <2>4 DEF Duplicate
    <3> HIDE DEF new
    <3>4. rows' \in [Jobs -> Row] /\ \A j \in Jobs : rows'[j] = IF j = FreeSlot THEN new ELSE rows[j]
      BY <3>1, <3>2, Zenon DEF Inv, TypeOK
    <3>5. Unique'
      BY <3>2, <3>3, <3>4 DEF Inv, Unique, Indexed
    <3> QED
      BY <2>1, <2>2, <3>1, <3>4, <3>5 DEF Inv, TypeOK
  <2> QED
    BY <2>3, <2>4
<1> QED
  BY <1>1, <1>2, <1>3

\* The end of a transaction keeps it.
LEMMA EndsPreserve ==
  ASSUME Inv, NEW p \in Producers, Commit(p) \/ Rollback(p)
  PROVE  Inv'
<1>0. tx' = [tx EXCEPT ![p] = NoTx]
  BY DEF Commit, Rollback
<1>1. /\ tx' \in [Producers -> Transaction] /\ tx'[p].pc = "idle"
      /\ \A q \in Producers \ {p} : tx'[q] = tx[q]
  BY <1>0, Types DEF Inv, TypeOK, NoTx
<1>2. Began'
  BY <1>1 DEF Inv, Began
<1>3. CASE Commit(p)
  <2> DEFINE k == tx[p].key
  <2>1. /\ tx[p].pc \in {"inserted", "dropped"} /\ k \in Keys
        /\ rows' = [j \in Jobs |-> IF rows[j].by = p THEN [rows[j] EXCEPT !.by = NULL] ELSE rows[j]]
        /\ claims' = IF claims[k].by = p
                     THEN [claims EXCEPT ![k] = [@ EXCEPT !.by = NULL, !.undo = Long]]
                     ELSE claims
        /\ window' = IF tx[p].pc = "inserted" /\ tx[p].mode = "window"
                     THEN [window EXCEPT ![k] = Later(TTL - tx[p].age, -1)]
                     ELSE window
        /\ owed' \subseteq owed \cup {k}
    BY <1>3 DEF Commit, Inv, Began
  <2>2. /\ rows' \in [Jobs -> Row]
        /\ \A j \in Jobs : /\ rows'[j].key = rows[j].key /\ rows'[j].mode = rows[j].mode
                           /\ rows'[j].state = rows[j].state
    BY <2>1 DEF Inv, TypeOK, Row
  <2>3. Unique'
    BY <2>2 DEF Inv, Unique, Indexed
  <2>4. /\ claims' \in [Keys -> ClaimRow]
        /\ \A l \in Keys : /\ claims'[l].expires = claims[l].expires
                           /\ claims'[l].by = IF l = k /\ claims[l].by = p THEN NULL ELSE claims[l].by
    <3>1. [claims[k] EXCEPT !.by = NULL, !.undo = Long] \in ClaimRow
      <4>1. claims[k] \in ClaimRow
        BY <2>1 DEF Inv, TypeOK
      <4> QED
        BY <4>1, Types, Zenon DEF ClaimRow
    <3> QED
      BY <2>1, <3>1 DEF Inv, TypeOK, ClaimRow
  <2>5. Later(TTL - tx[p].age, -1) \in -1..TTL
    BY Types DEF Inv, TypeOK, Transaction, Later
  <2>6. window' \in [Keys -> -1..TTL]
    BY <2>1, <2>5 DEF Inv, TypeOK
  <2>7. WindowSound'
    <3> SUFFICES ASSUME NEW l \in Keys, window'[l] # -1
                 PROVE  claims'[l].by = NULL /\ window'[l] <= claims'[l].expires
      BY DEF WindowSound
    <3>1. CASE l = k /\ tx[p].pc = "inserted" /\ tx[p].mode = "window"
      <4>1. claims[k].by = p /\ claims[k].expires = TTL - tx[p].age
        BY <3>1 DEF Inv, ClaimHeld
      <4>2. window'[l] = Later(TTL - tx[p].age, -1)
        BY <2>1, <3>1 DEF Inv, TypeOK
      <4> QED
        BY <2>4, <3>1, <4>1, <4>2, Types DEF Later, Inv, TypeOK, Transaction
    <3>2. CASE ~(l = k /\ tx[p].pc = "inserted" /\ tx[p].mode = "window")
      <4>1. window'[l] = window[l]
        BY <2>1, <3>2 DEF Inv, TypeOK
      <4> QED
        BY <2>4, <4>1 DEF Inv, WindowSound
    <3> QED
      BY <3>1, <3>2
  <2>8. ClaimHeld'
    <3> SUFFICES ASSUME NEW q \in Producers, tx'[q].mode = "window", tx'[q].pc \in {"claimed", "inserted"}
                 PROVE  /\ tx'[q].key \in Keys
                        /\ claims'[tx'[q].key].by = q
                        /\ claims'[tx'[q].key].expires = TTL - tx'[q].age
      BY DEF ClaimHeld
    <3>1. q # p /\ tx'[q] = tx[q]
      BY <1>1
    <3>2. tx[q].key \in Keys /\ claims[tx[q].key].by = q /\ claims[tx[q].key].expires = TTL - tx[q].age
      BY <3>1 DEF Inv, ClaimHeld
    <3> QED
      BY <2>4, <3>1, <3>2
  <2> QED
    BY <1>1, <1>2, <2>1, <2>2, <2>3, <2>4, <2>6, <2>7, <2>8 DEF Inv, TypeOK
<1>4. CASE Rollback(p)
  <2>1. /\ rows' = [j \in Jobs |-> IF rows[j].by = p THEN NoRow ELSE rows[j]]
        /\ claims' = [k \in Keys |->
                        IF claims[k].by = p
                        THEN [expires |-> claims[k].undo, by |-> NULL, undo |-> Long]
                        ELSE claims[k]]
        /\ UNCHANGED <<owed, window>>
    BY <1>4 DEF Rollback
  <2>2. rows' \in [Jobs -> Row]
    BY <2>1, Types DEF Inv, TypeOK
  <2>3. Unique'
    BY <2>1 DEF Inv, Unique, Indexed, NoRow, Live
  <2>4. claims' \in [Keys -> ClaimRow]
    BY <2>1, Types DEF Inv, TypeOK, ClaimRow
  <2>5. WindowSound'
    BY <2>1, Types DEF Inv, WindowSound
  <2>6. ClaimHeld'
    BY <1>1, <2>1 DEF Inv, ClaimHeld
  <2> QED
    BY <1>1, <1>2, <2>1, <2>2, <2>3, <2>4, <2>5, <2>6 DEF Inv, TypeOK
<1> QED
  BY <1>3, <1>4

\* Time keeps it: a claim and the window that it stands for age alike.
LEMMA TickPreserves ==
  ASSUME Inv, Tick
  PROVE  Inv'
<1>1. /\ \A p \in Producers : tx[p].pc # "idle" => tx[p].age < MaxOpen
      /\ tx' = [p \in Producers |->
                  IF tx[p].pc = "idle" THEN tx[p] ELSE [tx[p] EXCEPT !.age = tx[p].age + 1]]
      /\ claims' = [k \in Keys |-> [claims[k] EXCEPT !.expires = Later(claims[k].expires - 1, Long),
                                                    !.undo = Later(claims[k].undo - 1, Long)]]
      /\ window' = [k \in Keys |-> Later(window[k] - 1, -1)]
      /\ UNCHANGED <<rows, owed>>
  BY Zenon DEF Tick
<1>2. /\ tx' \in [Producers -> Transaction]
      /\ \A p \in Producers : /\ tx'[p].pc = tx[p].pc /\ tx'[p].key = tx[p].key
                              /\ tx'[p].mode = tx[p].mode
                              /\ tx[p].pc # "idle" => tx'[p].age = tx[p].age + 1
  <2>1. ASSUME NEW p \in Producers, tx[p].pc # "idle"
        PROVE  LET t == [tx[p] EXCEPT !.age = tx[p].age + 1] IN
               /\ t \in Transaction /\ t.pc = tx[p].pc /\ t.key = tx[p].key
               /\ t.mode = tx[p].mode /\ t.age = tx[p].age + 1
    <3>1. tx[p] \in Transaction /\ tx[p].age + 1 \in 0..MaxOpen
      <4>1. tx[p] \in Transaction /\ tx[p].age \in 0..MaxOpen /\ tx[p].age < MaxOpen
        BY <1>1, <2>1, Zenon DEF Inv, TypeOK, Transaction
      <4> QED
        BY <4>1, Types
    <3> QED
      BY <3>1 DEF Transaction
  <2> QED
    BY <1>1, <2>1, Zenon DEF Inv, TypeOK
<1>3. \A n \in Long..TTL : Later(n - 1, Long) \in Long..TTL
  BY Types DEF Later
<1>4. /\ claims' \in [Keys -> ClaimRow]
      /\ \A k \in Keys : /\ claims'[k].by = claims[k].by
                         /\ claims'[k].expires = Later(claims[k].expires - 1, Long)
  BY <1>1, <1>3, Zenon DEF Inv, TypeOK, ClaimRow
<1>5. window' \in [Keys -> -1..TTL] /\ \A k \in Keys : window'[k] = Later(window[k] - 1, -1)
  <2>1. \A n \in -1..TTL : Later(n - 1, -1) \in -1..TTL
    BY Types DEF Later
  <2> QED
    BY <1>1, <2>1, Zenon DEF Inv, TypeOK
<1>6. Unique' /\ Began'
  <2>1. Unique'
    BY <1>1, Zenon DEF Inv, Unique, Indexed
  <2>2. Began'
    BY <1>2 DEF Inv, Began
  <2> QED
    BY <2>1, <2>2
<1>7. WindowSound'
  <2> SUFFICES ASSUME NEW k \in Keys
               PROVE  window'[k] = -1 \/ (claims'[k].by = NULL /\ window'[k] <= claims'[k].expires)
    BY DEF WindowSound
  <2>1. window[k] \in -1..TTL /\ claims[k].expires \in Long..TTL
    BY DEF Inv, TypeOK, ClaimRow
  <2> QED
    <3>1. CASE window[k] = -1
      BY <1>5, <3>1 DEF Later
    <3>2. CASE claims[k].by = NULL /\ window[k] <= claims[k].expires
      <4>1. Later(window[k] - 1, -1) = -1 \/ Later(window[k] - 1, -1) <= Later(claims[k].expires - 1, Long)
        BY <2>1, <3>2, Types DEF Later
      <4> QED
        BY <1>4, <1>5, <3>2, <4>1
    <3> QED
      BY <3>1, <3>2 DEF Inv, WindowSound
<1>8. ClaimHeld'
  <2> SUFFICES ASSUME NEW q \in Producers, tx[q].mode = "window", tx[q].pc \in {"claimed", "inserted"}
               PROVE  /\ tx'[q].key \in Keys
                      /\ claims'[tx'[q].key].by = q
                      /\ claims'[tx'[q].key].expires = TTL - tx'[q].age
    BY <1>2 DEF ClaimHeld
  <2>1. /\ tx[q].key \in Keys /\ claims[tx[q].key].by = q
        /\ claims[tx[q].key].expires = TTL - tx[q].age
    BY DEF Inv, ClaimHeld
  <2>2. tx[q].age \in 0..MaxOpen /\ tx[q].age < MaxOpen
    BY <1>1, Zenon DEF Inv, TypeOK, Transaction
  <2>3. Later(TTL - tx[q].age - 1, Long) = TTL - (tx[q].age + 1)
    BY <2>2, Types DEF Later, Long
  <2> QED
    BY <1>2, <1>4, <2>1, <2>3
<1> QED
  BY <1>1, <1>2, <1>4, <1>5, <1>6, <1>7, <1>8, Zenon DEF Inv, TypeOK

\* Workers, vacuums and operators keep it: what they revive was not in the index
\* and meets no row of its key there.
LEMMA RowsPreserve ==
  ASSUME Inv, NEW j \in Jobs, DequeueBatch(j) \/ Settle(j) \/ RetryJob(j) \/ Vacuum(j)
  PROVE  Inv'
<1>1. ASSUME NEW s \in RowStates, rows' = [rows EXCEPT ![j] = [rows[j] EXCEPT !.state = s]]
      PROVE  /\ rows' \in [Jobs -> Row]
             /\ \A i \in Jobs : /\ rows'[i].key = rows[i].key /\ rows'[i].mode = rows[i].mode
                                /\ rows'[i].state = IF i = j THEN s ELSE rows[i].state
  <2>1. rows[j] \in Row /\ [rows[j] EXCEPT !.state = s] \in Row
    BY DEF Inv, TypeOK, Row
  <2> QED
    BY <1>1, <2>1 DEF Inv, TypeOK, Row
<1>2. CASE DequeueBatch(j)
  <2>1. /\ rows[j].state = "pending" /\ rows' = [rows EXCEPT ![j] = [rows[j] EXCEPT !.state = "active"]]
        /\ owed' \subseteq owed /\ UNCHANGED <<claims, window>>
    BY <1>2 DEF DequeueBatch
  <2>2. /\ tx' \in [Producers -> Transaction]
        /\ \A p \in Producers : /\ tx'[p].pc = tx[p].pc /\ tx'[p].key = tx[p].key
                                /\ tx'[p].mode = tx[p].mode /\ tx'[p].age = tx[p].age
    <3>1. ASSUME NEW p \in Producers
          PROVE  LET t == [tx[p] EXCEPT !.seen = TRUE] IN
                 /\ t \in Transaction /\ t.pc = tx[p].pc /\ t.key = tx[p].key
                 /\ t.mode = tx[p].mode /\ t.age = tx[p].age
      BY Zenon DEF Inv, TypeOK, Transaction
    <3> QED
      BY <1>2, <3>1 DEF DequeueBatch, Inv, TypeOK
  <2>3. Unique' /\ rows' \in [Jobs -> Row]
    BY <1>1, <2>1 DEF RowStates, Inv, Unique, Indexed, Live
  <2> QED
    BY <2>1, <2>2, <2>3, RowsStep DEF Inv, TypeOK
<1>3. CASE Settle(j)
  <2>1. PICK s \in Endings \cup {"pending"} : rows' = [rows EXCEPT ![j] = [rows[j] EXCEPT !.state = s]]
    BY <1>3, Zenon DEF Settle
  <2>2. rows[j].state = "active" /\ UNCHANGED <<claims, tx, owed, window>> /\ s \in RowStates
    BY <1>3, ModeAssumption DEF Settle, RowStates
  <2>3. Unique' /\ rows' \in [Jobs -> Row]
    <3>1. /\ rows' \in [Jobs -> Row]
          /\ \A i \in Jobs : /\ rows'[i].key = rows[i].key /\ rows'[i].mode = rows[i].mode
                             /\ rows'[i].state = IF i = j THEN s ELSE rows[i].state
      BY <1>1, <2>1, <2>2, Zenon
    <3>2. \A k \in Keys : Indexed(k)' \subseteq Indexed(k)
      BY <2>2, <3>1 DEF Indexed, Live
    <3> QED
      BY <3>1, <3>2 DEF Inv, Unique
  <2> QED
    BY <2>2, <2>3, RowsStep DEF Inv, TypeOK
<1>4. CASE RetryJob(j)
  <2>1. /\ rows[j].state = "dead" /\ Revivable(j) /\ UNCHANGED <<claims, tx, owed, window>>
        /\ rows' = [rows EXCEPT ![j] = [rows[j] EXCEPT !.state = "pending"]]
    BY <1>4 DEF RetryJob
  <2>2. Unique' /\ rows' \in [Jobs -> Row]
    BY <1>1, <2>1 DEF RowStates, Inv, Unique, Indexed, Live, Revivable
  <2> QED
    BY <2>1, <2>2, RowsStep DEF Inv, TypeOK
<1>5. CASE Vacuum(j)
  <2>1. rows' = [rows EXCEPT ![j] = NoRow] /\ UNCHANGED <<claims, tx, owed, window>>
    BY <1>5 DEF Vacuum
  <2>2. rows' \in [Jobs -> Row] /\ \A i \in Jobs : rows'[i] = IF i = j THEN NoRow ELSE rows[i]
    BY <2>1, Types DEF Inv, TypeOK
  <2>3. Unique'
    BY <2>2 DEF Inv, Unique, Indexed, Live, NoRow
  <2> QED
    BY <2>1, <2>2, <2>3, RowsStep DEF Inv, TypeOK
<1> QED
  BY <1>2, <1>3, <1>4, <1>5

\* RetryAllDead keeps it: no two rows of its batch share a key in the index.
LEMMA RetryAllPreserves ==
  ASSUME Inv, RetryAllDead
  PROVE  Inv'
<1>1. /\ \A j \in DeadJobs : Revivable(j)
      /\ \A i, j \in DeadJobs :
           i # j /\ rows[i].key = rows[j].key => "coalesce" \in {rows[i].mode, rows[j].mode}
      /\ rows' = [j \in Jobs |->
                    IF j \in DeadJobs THEN [rows[j] EXCEPT !.state = "pending"] ELSE rows[j]]
      /\ UNCHANGED <<claims, tx, owed, window>>
  BY DEF RetryAllDead
<1>2. /\ rows' \in [Jobs -> Row]
      /\ \A i \in Jobs : /\ rows'[i].key = rows[i].key /\ rows'[i].mode = rows[i].mode
                         /\ rows'[i].state = IF rows[i].state = "dead" THEN "pending" ELSE rows[i].state
  BY <1>1 DEF Inv, TypeOK, Row, DeadJobs, RowStates
<1>3. Unique'
  <2> SUFFICES ASSUME NEW k \in Keys, NEW a \in Indexed(k)', NEW b \in Indexed(k)', a # b
               PROVE  FALSE
    BY DEF Unique
  <2>1. /\ a \in Jobs /\ rows[a].key = k /\ rows[a].mode # "coalesce"
        /\ rows[a].state \in Live \cup {"dead"}
        /\ b \in Jobs /\ rows[b].key = k /\ rows[b].mode # "coalesce"
        /\ rows[b].state \in Live \cup {"dead"}
    BY <1>2 DEF Indexed, Live
  <2>2. CASE rows[a].state = "dead" /\ rows[b].state = "dead"
    BY <1>1, <2>1, <2>2 DEF DeadJobs
  <2>3. CASE rows[a].state = "dead" /\ rows[b].state \in Live
    BY <1>1, <2>1, <2>3 DEF DeadJobs, Revivable, Indexed
  <2>4. CASE rows[a].state \in Live /\ rows[b].state = "dead"
    BY <1>1, <2>1, <2>4 DEF DeadJobs, Revivable, Indexed
  <2>5. CASE rows[a].state \in Live /\ rows[b].state \in Live
    BY <2>1, <2>5 DEF Inv, Unique, Indexed
  <2> QED
    BY <2>1, <2>2, <2>3, <2>4, <2>5
<1> QED
  BY <1>1, <1>2, <1>3, RowsStep DEF Inv, TypeOK

\* No transaction, worker, operator, vacuum or passing of time breaks it.
THEOREM DedupeInvariance == Spec => []Inv
<1>1. Inv /\ [Next]_vars => Inv'
  <2> SUFFICES ASSUME Inv, [Next]_vars PROVE Inv'
    OBVIOUS
  <2>1. ASSUME NEW k \in Keys, VacuumIdempotency(k) PROVE Inv'
    <3>1. /\ claims[k].by = NULL /\ claims[k].expires < 0
          /\ claims' = [claims EXCEPT ![k] = [claims[k] EXCEPT !.expires = Long]]
          /\ UNCHANGED <<rows, tx, owed, window>>
      BY <2>1 DEF VacuumIdempotency
    <3>2. /\ claims' \in [Keys -> ClaimRow]
          /\ claims'[k].by = NULL /\ \A l \in Keys \ {k} : claims'[l] = claims[l]
      <4>1. [claims[k] EXCEPT !.expires = Long] \in ClaimRow
        BY Types DEF Inv, TypeOK, ClaimRow
      <4> QED
        BY <3>1, <4>1 DEF Inv, TypeOK, ClaimRow
    <3>3. window[k] = -1
      <4>1. window[k] \in -1..TTL /\ claims[k].expires \in Long..TTL
        BY DEF Inv, TypeOK, ClaimRow
      <4> QED
        BY <3>1, <4>1 DEF Inv, WindowSound
    <3>4. WindowSound' /\ ClaimHeld'
      BY <3>1, <3>2, <3>3, Types DEF Inv, WindowSound, ClaimHeld
    <3>5. Unique' /\ Began'
      BY <3>1 DEF Inv, Unique, Indexed, Began
    <3> QED
      BY <3>1, <3>2, <3>4, <3>5 DEF Inv, TypeOK
  <2>2. CASE UNCHANGED vars
    BY <2>2 DEF vars, Inv, TypeOK, Unique, Indexed, ClaimHeld, WindowSound, Began
  <2> QED
    BY <2>1, <2>2, StatementsPreserve, EndsPreserve, RowsPreserve, RetryAllPreserves, TickPreserves
      DEF Next
<1> QED
  BY <1>1, InitInv, PTL DEF Spec

\* Enqueue, EnqueueTx, RetryJob and RetryAllDead, however they race, leave at most
\* one live job with a key in azync_jobs_idempotency_idx.
THEOREM NoSecondLiveJob == Spec => []OneLiveJob
<1>1. Inv => OneLiveJob
  <2> SUFFICES ASSUME Inv, NEW k \in Keys PROVE Cardinality(Indexed(k)) <= 1
    BY DEF OneLiveJob
  <2>1. CASE Indexed(k) = {}
    BY <2>1, FS_EmptySet
  <2>2. CASE \E j : Indexed(k) = {j}
    <3>1. Cardinality(Indexed(k)) = 1
      BY <2>2, FS_Singleton, Zenon
    <3> QED
      BY <3>1
  <2> QED
    BY <2>1, <2>2, Zenon DEF Inv, Unique
<1> QED
  BY <1>1, DedupeInvariance, PTL

\* enqueueClaimSQL: no enqueue commits a job while the window of the one that was
\* accepted before is open.
THEOREM NoSecondInWindow == Spec => OncePerWindow
<1> DEFINE Once == \A p \in Producers :
             /\ tx[p].pc = "inserted" /\ tx[p].mode = "window"
             /\ \E j \in Jobs : rows[j].by = p /\ rows'[j] = [rows[j] EXCEPT !.by = NULL]
             => window[tx[p].key] < 0
<1>1. Inv => Once
  BY Types DEF Inv, ClaimHeld, WindowSound
<1> QED
  BY <1>1, DedupeInvariance, PTL DEF OncePerWindow

-------------------------------------------------------------------------------
(* CoalesceKey.                                                              *)

\* Transactions that have yet to insert, and free slots.
Inserting == {p \in Producers : tx[p].pc \in {"open", "claimed"}}
Free == {j \in Jobs : rows[j].state = "absent"}

\* Begin left room for every insert.
Slots == Cardinality(Inserting) <= Cardinality(Free)

\* The row is a job with the coalescing key k that has not started.
Waits(row, k) == row.state = "pending" /\ row.mode = "coalesce" /\ row.key = k

\* An enqueue that inserted has its row, and one that was dropped still has the job
\* it was dropped for, unless a run has started since.
SignalSound ==
  /\ \A p \in Producers : tx[p].pc = "inserted" /\ tx[p].mode = "coalesce" =>
       \E j \in Jobs : Waits(rows[j], tx[p].key) /\ rows[j].by = p
  /\ \A p \in Producers : tx[p].pc = "dropped" /\ tx[p].mode = "coalesce" /\ ~tx[p].seen =>
       \E j \in Jobs : Waits(rows[j], tx[p].key) /\ rows[j].by = NULL
  /\ \A k \in owed : \E j \in Jobs : Waits(rows[j], k) /\ rows[j].by = NULL

\* Finite sets of transactions and slots that shrink and grow.
LEMMA SlotSets ==
  /\ IsFiniteSet(Inserting) /\ IsFiniteSet(Free)
  /\ Cardinality(Inserting) \in Nat /\ Cardinality(Free) \in Nat
  /\ IsFiniteSet(Inserting') /\ IsFiniteSet(Free')
  /\ Cardinality(Inserting') \in Nat /\ Cardinality(Free') \in Nat
  /\ Inserting' \subseteq Inserting => Cardinality(Inserting') <= Cardinality(Inserting)
  /\ Free \subseteq Free' => Cardinality(Free) <= Cardinality(Free')
<1>1. Inserting \in SUBSET Producers /\ Inserting' \in SUBSET Producers
  BY DEF Inserting
<1>2. Free \in SUBSET Jobs /\ Free' \in SUBSET Jobs
  BY DEF Free
<1>3. IsFiniteSet(Inserting) /\ IsFiniteSet(Inserting') /\ IsFiniteSet(Free) /\ IsFiniteSet(Free')
  BY <1>1, <1>2, FS_Subset, FiniteAssumption
<1>4. /\ Cardinality(Inserting) \in Nat /\ Cardinality(Free) \in Nat
      /\ Cardinality(Inserting') \in Nat /\ Cardinality(Free') \in Nat
  BY <1>3, FS_CardinalityType
<1>5. Inserting' \subseteq Inserting => Cardinality(Inserting') <= Cardinality(Inserting)
  BY <1>3, FS_Subset
<1>6. Free \subseteq Free' => Cardinality(Free) <= Cardinality(Free')
  BY <1>3, FS_Subset
<1> QED
  BY <1>3, <1>4, <1>5, <1>6

\* An insert finds its slot.
LEMMA SlotFound ==
  ASSUME Slots, NEW p \in Inserting
  PROVE  FreeSlot \in Jobs /\ rows[FreeSlot].state = "absent"
<1>1. Cardinality(Inserting) # 0
  BY SlotSets, FS_EmptySet
<1>2. Free # {}
  BY <1>1, SlotSets, FS_EmptySet DEF Slots
<1> QED
  BY <1>2 DEF Free, FreeSlot

\* Every step leaves a slot for every insert that is to come.
LEMMA SlotsPreserved ==
  ASSUME Inv, Slots, [Next]_vars
  PROVE  Slots'
<1>0. ASSUME Inserting' \subseteq Inserting, Free \subseteq Free' PROVE Slots'
  BY <1>0, SlotSets DEF Slots
<1>1. ASSUME NEW p \in Producers, Begin(p) PROVE Slots'
  <2>1. Inserting' \subseteq Inserting \cup {p} /\ Free' = Free
    BY <1>1 DEF Begin, Inserting, Free, Inv, TypeOK
  <2> DEFINE Busy == {q \in Producers : tx[q].pc # "idle"}
  <2>2. /\ Busy \in SUBSET Producers /\ Inserting \in SUBSET Busy
        /\ Cardinality(Busy) < Cardinality(Free)
    BY <1>1 DEF Begin, Room, Free, Inserting
  <2> HIDE DEF Busy
  <2>3. IsFiniteSet(Busy) /\ Cardinality(Inserting) <= Cardinality(Busy) /\ Cardinality(Busy) \in Nat
    BY <2>2, FS_Subset, FS_CardinalityType, FiniteAssumption
  <2>4. Cardinality(Inserting') <= Cardinality(Inserting) + 1
    <3>1. /\ IsFiniteSet(Inserting \cup {p})
          /\ Cardinality(Inserting \cup {p}) <= Cardinality(Inserting) + 1
      <4>1. /\ IsFiniteSet(Inserting \cup {p})
            /\ Cardinality(Inserting \cup {p}) =
                 IF p \in Inserting THEN Cardinality(Inserting) ELSE Cardinality(Inserting) + 1
        BY SlotSets, FS_AddElement
      <4> QED
        BY <4>1, SlotSets
    <3>2. Cardinality(Inserting') <= Cardinality(Inserting \cup {p})
      BY <2>1, <3>1, FS_Subset
    <3>3. Cardinality(Inserting \cup {p}) \in Nat
      BY <3>1, FS_CardinalityType
    <3> QED
      BY <3>1, <3>2, <3>3, SlotSets
  <2> QED
    BY <2>1, <2>2, <2>3, <2>4, SlotSets DEF Slots
<1>2. ASSUME NEW p \in Producers, Claim(p) PROVE Slots'
  BY <1>0, <1>2 DEF Claim, Inserting, Free, Inv, TypeOK
<1>3. ASSUME NEW p \in Producers, Insert(p) PROVE Slots'
  <2>1. p \in Inserting
    BY <1>3 DEF Insert, Inserting
  <2>2. CASE Duplicate(p)
    BY <1>0, <1>3, <2>2 DEF Insert, Inserting, Free, Inv, TypeOK
  <2>3. CASE ~Duplicate(p)
    <3>1. /\ rows' = [rows EXCEPT ![FreeSlot] = [state |-> "pending", key |-> tx[p].key,
                                                 mode |-> tx[p].mode, by |-> p]]
          /\ tx' = [tx EXCEPT ![p].pc = "inserted"]
      BY <1>3, <2>3 DEF Insert
    <3>2. FreeSlot \in Free
      BY <2>1, SlotFound DEF Free
    <3>3. Free' = Free \ {FreeSlot}
      BY <3>1, <3>2 DEF Free, Inv, TypeOK
    <3>4. Inserting' = Inserting \ {p}
      BY <3>1 DEF Inserting, Inv, TypeOK
    <3>5. /\ Cardinality(Free') = Cardinality(Free) - 1
          /\ Cardinality(Inserting') = Cardinality(Inserting) - 1
      <4>1. /\ Cardinality(Free \ {FreeSlot}) = Cardinality(Free) - 1
            /\ Cardinality(Inserting \ {p}) = Cardinality(Inserting) - 1
        BY <2>1, <3>2, SlotSets, FS_RemoveElement, Zenon
      <4> QED
        BY <3>3, <3>4, <4>1
    <3> QED
      BY <3>5, SlotSets DEF Slots
  <2> QED
    BY <2>2, <2>3
<1>4. ASSUME NEW p \in Producers, Commit(p) \/ Rollback(p) PROVE Slots'
  <2>1. tx' = [tx EXCEPT ![p] = NoTx]
    BY <1>4 DEF Commit, Rollback
  <2>2. Inserting' \subseteq Inserting
    BY <2>1 DEF Inserting, NoTx, Inv, TypeOK
  <2>3. \A j \in Jobs : rows'[j].state \in {rows[j].state, "absent"}
    BY <1>4 DEF Commit, Rollback, NoRow, Inv, TypeOK, Row
  <2> QED
    BY <1>0, <2>2, <2>3 DEF Free
<1>5. ASSUME NEW j \in Jobs, DequeueBatch(j) \/ Settle(j) \/ RetryJob(j) \/ Vacuum(j) PROVE Slots'
  <2>1. Inserting' \subseteq Inserting
    BY <1>5 DEF DequeueBatch, Settle, RetryJob, Vacuum, Inserting, Inv, TypeOK, Transaction
  <2>2. \A i \in Jobs : rows[i].state = "absent" => rows'[i] = rows[i]
    BY <1>5 DEF DequeueBatch, Settle, RetryJob, Vacuum, Inv, TypeOK
  <2> QED
    BY <1>0, <2>1, <2>2 DEF Free
<1>6. CASE RetryAllDead \/ (\E k \in Keys : VacuumIdempotency(k))
  <2>1. tx' = tx /\ \A i \in Jobs : rows[i].state = "absent" => rows'[i] = rows[i]
    BY <1>6 DEF RetryAllDead, DeadJobs, VacuumIdempotency, Inv, TypeOK
  <2> QED
    BY <1>0, <2>1 DEF Free, Inserting
<1>7. CASE Tick
  <2>1. rows' = rows /\ \A p \in Producers : tx'[p].pc = tx[p].pc
    BY <1>7, Zenon DEF Tick, Inv, TypeOK, Transaction
  <2> QED
    BY <1>0, <2>1 DEF Free, Inserting
<1>8. CASE UNCHANGED vars
  BY <1>0, <1>8 DEF vars, Free, Inserting
<1> QED
  BY <1>1, <1>2, <1>3, <1>4, <1>5, <1>6, <1>7, <1>8 DEF Next

\* A step that writes no unstarted job but those of the transactions P, and after
\* which each of these, and each new obligation, has its job.
Carries(P) ==
  /\ NULL \notin P
  /\ \A j \in Jobs : rows[j].state = "pending" /\ rows[j].by \notin P => rows'[j] = rows[j]
  /\ \A q \in Producers \ P : /\ tx'[q].pc = tx[q].pc /\ tx'[q].mode = tx[q].mode
                              /\ tx'[q].key = tx[q].key /\ tx'[q].seen = tx[q].seen
  /\ \A k \in owed' : k \in owed \/ \E j \in Jobs : Waits(rows'[j], k) /\ rows'[j].by = NULL
  /\ \A p \in P : tx'[p].mode = "coalesce" /\ tx'[p].pc \in {"inserted", "dropped"} =>
       \E j \in Jobs : /\ Waits(rows'[j], tx'[p].key)
                       /\ rows'[j].by = IF tx'[p].pc = "inserted" THEN p ELSE NULL

\* Such a step leaves every signal its job.
LEMMA SignalStep ==
  ASSUME SignalSound, NEW P \in SUBSET Producers, Carries(P)
  PROVE  SignalSound'
<1>1. ASSUME NEW k, NEW j \in Jobs, Waits(rows[j], k), rows[j].by \notin P
      PROVE  Waits(rows'[j], k) /\ rows'[j].by = rows[j].by
  BY <1>1 DEF Waits, Carries
<1>2. ASSUME NEW q \in Producers, tx'[q].pc = "inserted", tx'[q].mode = "coalesce"
      PROVE  \E j \in Jobs : Waits(rows'[j], tx'[q].key) /\ rows'[j].by = q
  <2>1. CASE q \in P
    BY <1>2, <2>1 DEF Carries
  <2>2. CASE q \notin P
    <3>1. PICK j \in Jobs : Waits(rows[j], tx[q].key) /\ rows[j].by = q
      BY <1>2, <2>2 DEF SignalSound, Carries
    <3> QED
      BY <1>1, <2>2, <3>1, Zenon DEF Carries
  <2> QED
    BY <2>1, <2>2
<1>3. ASSUME NEW q \in Producers, tx'[q].pc = "dropped", tx'[q].mode = "coalesce", ~tx'[q].seen
      PROVE  \E j \in Jobs : Waits(rows'[j], tx'[q].key) /\ rows'[j].by = NULL
  <2>1. CASE q \in P
    BY <1>3, <2>1 DEF Carries
  <2>2. CASE q \notin P
    <3>0. tx[q].pc = "dropped" /\ tx[q].mode = "coalesce" /\ ~tx[q].seen /\ tx'[q].key = tx[q].key
      BY <1>3, <2>2, Zenon DEF Carries
    <3>1. PICK j \in Jobs : Waits(rows[j], tx[q].key) /\ rows[j].by = NULL
      BY <3>0, Zenon DEF SignalSound
    <3> QED
      BY <1>1, <3>0, <3>1 DEF Carries
  <2> QED
    BY <2>1, <2>2
<1>4. ASSUME NEW k \in owed', k \in owed
      PROVE  \E j \in Jobs : Waits(rows'[j], k) /\ rows'[j].by = NULL
  <2>1. PICK j \in Jobs : Waits(rows[j], k) /\ rows[j].by = NULL
    BY <1>4 DEF SignalSound
  <2> QED
    BY <1>1, <2>1, Zenon DEF Carries
<1> QED
  BY <1>2, <1>3, <1>4 DEF SignalSound, Carries

\* Every step keeps a job for every signal that no run has seen.
LEMMA SignalPreserved ==
  ASSUME Inv, Slots, SignalSound, [Next]_vars
  PROVE  SignalSound'
<1>0. NULL \notin Producers
  BY Types
<1>1. ASSUME NEW p \in Producers, Begin(p) PROVE SignalSound'
  <2>1. PICK k \in Keys, m \in Modes :
          tx' = [tx EXCEPT ![p] = [NoTx EXCEPT !.pc = "open", !.key = k, !.mode = m]]
    BY <1>1, Zenon DEF Begin
  <2>2. tx'[p].pc = "open" /\ \A q \in Producers \ {p} : tx'[q] = tx[q]
    BY <2>1 DEF NoTx, Inv, TypeOK
  <2>3. UNCHANGED <<rows, owed>>
    BY <1>1 DEF Begin
  <2>c. Carries({p})
    BY <1>0, <2>2, <2>3 DEF Carries
  <2> QED
    BY <2>c, SignalStep
<1>2. ASSUME NEW p \in Producers, Claim(p) PROVE SignalSound'
  <2>1. tx'[p].mode = "window" /\ \A q \in Producers \ {p} : tx'[q] = tx[q]
    BY <1>2 DEF Claim, Inv, TypeOK, Transaction
  <2>2. UNCHANGED <<rows, owed>>
    BY <1>2 DEF Claim
  <2>c. Carries({p})
    BY <1>0, <2>1, <2>2 DEF Carries
  <2> QED
    BY <2>c, SignalStep
<1>3. ASSUME NEW p \in Producers, Insert(p) PROVE SignalSound'
  <2>1. owed' = owed /\ \A q \in Producers \ {p} : tx'[q] = tx[q]
    BY <1>3 DEF Insert, Inv, TypeOK
  <2>2. CASE Duplicate(p)
    <3>1. rows' = rows /\ tx' = [tx EXCEPT ![p] = [tx[p] EXCEPT !.pc = "dropped"]]
      BY <1>3, <2>2 DEF Insert
    <3>2. tx'[p].pc = "dropped" /\ tx'[p].mode = tx[p].mode /\ tx'[p].key = tx[p].key
      BY <3>1 DEF Inv, TypeOK, Transaction
    <3>3. tx[p].mode = "coalesce" => \E j \in Jobs : Waits(rows[j], tx[p].key) /\ rows[j].by = NULL
      BY <2>2 DEF Duplicate, Committed, Waits
    <3>c. Carries({p})
      BY <1>0, <2>1, <3>1, <3>2, <3>3 DEF Carries
    <3> QED
      BY <3>c, SignalStep
  <2>3. CASE ~Duplicate(p)
    <3> DEFINE new == [state |-> "pending", key |-> tx[p].key, mode |-> tx[p].mode, by |-> p]
    <3>1. /\ rows' = [rows EXCEPT ![FreeSlot] = new]
          /\ tx' = [tx EXCEPT ![p] = [tx[p] EXCEPT !.pc = "inserted"]]
      BY <1>3, <2>3 DEF Insert
    <3>2. FreeSlot \in Jobs /\ rows[FreeSlot].state = "absent"
      <4>1. p \in Inserting
        BY <1>3 DEF Insert, Inserting
      <4> QED
        BY <4>1, SlotFound
    <3>3. tx'[p].pc = "inserted" /\ tx'[p].mode = tx[p].mode /\ tx'[p].key = tx[p].key
      BY <3>1 DEF Inv, TypeOK, Transaction
    <3>4. tx[p].mode = "coalesce" => Waits(rows'[FreeSlot], tx[p].key) /\ rows'[FreeSlot].by = p
      BY <3>1, <3>2 DEF Inv, TypeOK, Waits
    <3>5. \A j \in Jobs : rows[j].state = "pending" => rows'[j] = rows[j]
      BY <3>1, <3>2 DEF Inv, TypeOK
    <3>c. Carries({p})
      BY <1>0, <2>1, <3>2, <3>3, <3>4, <3>5 DEF Carries
    <3> QED
      BY <3>c, SignalStep
  <2> QED
    BY <2>2, <2>3
<1>4. ASSUME NEW p \in Producers, Commit(p) PROVE SignalSound'
  <2> DEFINE k == tx[p].key
  <2>1. /\ tx[p].pc \in {"inserted", "dropped"}
        /\ rows' = [j \in Jobs |-> IF rows[j].by = p THEN [rows[j] EXCEPT !.by = NULL] ELSE rows[j]]
        /\ tx' = [tx EXCEPT ![p] = NoTx]
    BY <1>4 DEF Commit
  <2>2. owed' = owed \/ (tx[p].mode = "coalesce" /\ ~tx[p].seen /\ owed' = owed \cup {k})
    BY <1>4, Zenon DEF Commit
  <2>3. tx'[p].pc = "idle" /\ \A q \in Producers \ {p} : tx'[q] = tx[q]
    BY <2>1 DEF NoTx, Inv, TypeOK
  <2>4. ASSUME tx[p].mode = "coalesce", ~tx[p].seen
        PROVE  \E j \in Jobs : Waits(rows'[j], k) /\ rows'[j].by = NULL
    <3>1. CASE tx[p].pc = "inserted"
      <4>1. PICK j \in Jobs : Waits(rows[j], k) /\ rows[j].by = p
        BY <2>4, <3>1 DEF SignalSound
      <4>2. Waits(rows'[j], k) /\ rows'[j].by = NULL
        BY <2>1, <4>1 DEF Waits, Inv, TypeOK, Row
      <4> QED
        BY <4>2
    <3>2. CASE tx[p].pc = "dropped"
      <4>1. PICK j \in Jobs : Waits(rows[j], k) /\ rows[j].by = NULL
        BY <2>4, <3>2, Zenon DEF SignalSound
      <4> QED
        BY <1>0, <2>1, <4>1
    <3> QED
      BY <2>1, <3>1, <3>2
  <2>5. \A l \in owed' : l \in owed \/ \E j \in Jobs : Waits(rows'[j], l) /\ rows'[j].by = NULL
    BY <2>2, <2>4, Zenon
  <2>c. Carries({p})
    BY <1>0, <2>1, <2>3, <2>5 DEF Carries
  <2> QED
    BY <2>c, SignalStep
<1>5. ASSUME NEW p \in Producers, Rollback(p) PROVE SignalSound'
  <2>1. /\ rows' = [j \in Jobs |-> IF rows[j].by = p THEN NoRow ELSE rows[j]]
        /\ tx' = [tx EXCEPT ![p] = NoTx] /\ owed' = owed
    BY <1>5 DEF Rollback
  <2>2. tx'[p].pc = "idle" /\ \A q \in Producers \ {p} : tx'[q] = tx[q]
    BY <2>1 DEF NoTx, Inv, TypeOK
  <2>c. Carries({p})
    BY <1>0, <2>1, <2>2 DEF Carries
  <2> QED
    BY <2>c, SignalStep
<1>6. ASSUME NEW j \in Jobs, DequeueBatch(j) PROVE SignalSound'
  <2> DEFINE looks(k) == rows[j].mode = "coalesce" /\ rows[j].key = k
  <2>1. /\ rows[j].by = NULL /\ rows' = [rows EXCEPT ![j].state = "active"]
        /\ owed' = {k \in owed : ~looks(k)}
        /\ tx' = [p \in Producers |->
                    IF looks(tx[p].key) THEN [tx[p] EXCEPT !.seen = TRUE] ELSE tx[p]]
    BY <1>6 DEF DequeueBatch, Committed
  <2>2. \A p \in Producers : /\ tx'[p].pc = tx[p].pc /\ tx'[p].mode = tx[p].mode
                             /\ tx'[p].key = tx[p].key
    BY <2>1 DEF Inv, TypeOK, Transaction
  <2>3. \A p \in Producers : ~tx'[p].seen => ~looks(tx[p].key) /\ ~tx[p].seen
    <3> SUFFICES ASSUME NEW p \in Producers, ~tx'[p].seen PROVE ~looks(tx[p].key) /\ ~tx[p].seen
      OBVIOUS
    <3>1. CASE looks(tx[p].key)
      <4>1. tx'[p] = [tx[p] EXCEPT !.seen = TRUE]
        BY <2>1, <3>1
      <4>2. tx'[p].seen = TRUE
        BY <4>1 DEF Inv, TypeOK, Transaction
      <4> QED
        BY <4>2
    <3>2. CASE ~looks(tx[p].key)
      BY <2>1, <3>2
    <3> QED
      BY <3>1, <3>2
  <2>4. \A i \in Jobs \ {j} : rows'[i] = rows[i]
    BY <2>1 DEF Inv, TypeOK
  <2>5. ASSUME NEW p \in Producers, tx'[p].pc = "inserted", tx'[p].mode = "coalesce"
        PROVE  \E i \in Jobs : Waits(rows'[i], tx'[p].key) /\ rows'[i].by = p
    <3>1. PICK i \in Jobs : Waits(rows[i], tx[p].key) /\ rows[i].by = p
      BY <2>2, <2>5 DEF SignalSound
    <3> QED
      BY <1>0, <2>1, <2>2, <2>4, <3>1
  <2>6. ASSUME NEW p \in Producers, tx'[p].pc = "dropped", tx'[p].mode = "coalesce", ~tx'[p].seen
        PROVE  \E i \in Jobs : Waits(rows'[i], tx'[p].key) /\ rows'[i].by = NULL
    <3>1. ~looks(tx[p].key) /\ ~tx[p].seen /\ tx[p].pc = "dropped" /\ tx[p].mode = "coalesce"
      BY <2>2, <2>3, <2>6, Zenon
    <3>2. PICK i \in Jobs : Waits(rows[i], tx[p].key) /\ rows[i].by = NULL
      BY <3>1, Zenon DEF SignalSound
    <3>3. i # j
      BY <3>1, <3>2 DEF Waits
    <3> QED
      BY <2>2, <2>4, <3>2, <3>3
  <2>7. ASSUME NEW k \in owed' PROVE \E i \in Jobs : Waits(rows'[i], k) /\ rows'[i].by = NULL
    <3>1. PICK i \in Jobs : Waits(rows[i], k) /\ rows[i].by = NULL
      BY <2>1, <2>7 DEF SignalSound
    <3>2. i # j
      BY <2>1, <2>7, <3>1 DEF Waits
    <3> QED
      BY <2>4, <3>1, <3>2
  <2> QED
    BY <2>5, <2>6, <2>7 DEF SignalSound
<1>7. ASSUME NEW j \in Jobs, Settle(j) \/ RetryJob(j) \/ Vacuum(j) PROVE SignalSound'
  <2>1. UNCHANGED <<tx, owed>> /\ \A i \in Jobs : rows[i].state = "pending" => rows'[i] = rows[i]
    BY <1>7 DEF Settle, RetryJob, Vacuum, Inv, TypeOK
  <2>c. Carries({})
    BY <2>1 DEF Carries
  <2> QED
    BY <2>c, SignalStep
<1>8. CASE RetryAllDead \/ (\E k \in Keys : VacuumIdempotency(k)) \/ UNCHANGED vars
  <2>1. UNCHANGED <<tx, owed>> /\ \A i \in Jobs : rows[i].state = "pending" => rows'[i] = rows[i]
    BY <1>8 DEF RetryAllDead, DeadJobs, VacuumIdempotency, Inv, TypeOK, vars
  <2>c. Carries({})
    BY <2>1 DEF Carries
  <2> QED
    BY <2>c, SignalStep
<1>9. CASE Tick
  <2>1. UNCHANGED <<rows, owed>>
    BY <1>9, Zenon DEF Tick
  <2>2. \A q \in Producers : /\ tx'[q].pc = tx[q].pc /\ tx'[q].mode = tx[q].mode
                             /\ tx'[q].key = tx[q].key /\ tx'[q].seen = tx[q].seen
    BY <1>9, Zenon DEF Tick, Inv, TypeOK, Transaction
  <2>c. Carries({})
    BY <2>1, <2>2 DEF Carries
  <2> QED
    BY <2>c, SignalStep
<1> QED
  BY <1>1, <1>2, <1>3, <1>4, <1>5, <1>6, <1>7, <1>8, <1>9 DEF Next

\* queue.CoalesceKey, "a redundant run, never a missed one": an enqueue that
\* returned has a job that has not started, or a run has started since.
THEOREM NoSignalMissed == Spec => []SignalHasJob
<1>1. Init => Slots /\ SignalSound
  <2> SUFFICES ASSUME Init PROVE Slots /\ SignalSound
    OBVIOUS
  <2>1. Inserting = {}
    BY DEF Init, Inserting, NoTx
  <2>2. Slots
    BY <2>1, FS_EmptySet, SlotSets DEF Slots
  <2>3. SignalSound
    BY DEF Init, SignalSound, NoTx
  <2> QED
    BY <2>2, <2>3
<1>2. Inv /\ Slots /\ SignalSound /\ [Next]_vars => (Slots /\ SignalSound)'
  BY SlotsPreserved, SignalPreserved
<1>3. SignalSound => SignalHasJob
  BY DEF SignalSound, SignalHasJob, Waits, Committed
<1> QED
  BY <1>1, <1>2, <1>3, DedupeInvariance, PTL DEF Spec
===============================================================================
