------------------------------- MODULE MCDag -------------------------------
(***************************************************************************)
(* Finite instances of Dag: small definitions that between them have every *)
(* kind of task, both policies, a tolerant task, and two that validate     *)
(* refuses.                                                                *)
(***************************************************************************)
EXTENDS DagSaga, FakeDag

CONSTANTS a, b, c, w, ca, cb, m1, m2, s1, s2

MCOriginal == ca :> a @@ cb :> b

MCTarget == [m \in Messages |-> w]

Deps(da, db, dc, dw) == a :> da @@ b :> db @@ c :> dc @@ w :> dw

\* w is of the given kind, the others have handlers.
Shape(tasks, deps, kind, ignore, policy) ==
  [tasks |-> tasks, deps |-> deps, kind |-> [k \in Tasks |-> IF k = w THEN kind ELSE "handler"],
   ignore |-> ignore, undo |-> {a, b} \cap tasks, policy |-> policy]

Order(policy) == Shape({a, b, c}, Deps({}, {a}, {b}, {}), "handler", {}, policy)
Approval == Shape({a, w}, Deps({}, {}, {}, {a}), "$signal", {}, "cancel")
Timer == Shape({a, b, w}, Deps({}, {w}, {}, {}), "$sleep", {}, "cancel")
Tolerant == Shape({a, b}, Deps({}, {a}, {}, {}), "handler", {b}, "cancel")
Cycle == Shape({a, b}, Deps({b}, {a}, {}, {}), "handler", {}, "cancel")
Dangling == Shape({a}, Deps({c}, {}, {}, {}), "handler", {}, "cancel")

MCDefinitions == {Order("cancel"), Order("suspend"), Approval, Timer, Tolerant, Cycle, Dangling}

MCSymmetry == Permutations(Schedulers)

=============================================================================
