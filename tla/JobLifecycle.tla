----------------------------- MODULE JobLifecycle -----------------------------
(***************************************************************************)
(* What the job table promises the rest of azync, whatever its columns: a  *)
(* job is run by one holder at a time; it is finished or failed once, by   *)
(* leaving the holder or an operator's hands; and it is handed out only    *)
(* while it has spent less than its limit.  A run may be free (a snooze or *)
(* a release hands its charge back) but the limit does not move once a     *)
(* run has pinned it.                                                      *)
(***************************************************************************)
EXTENDS Naturals

CONSTANTS Jobs, Tokens, NULL

VARIABLE life

Phases == {"none", "waiting", "running", "done", "failed"}

Life == [phase : Phases, holder : Tokens \cup {NULL}, spent : Nat, limit : Nat,
         pinned : BOOLEAN]

Init ==
  /\ life \in [Jobs -> Life]
  /\ \A j \in Jobs : life[j].phase = "none" /\ life[j].holder = NULL

\* Only job j changes.
Only(j) == life'[j] \in Life /\ life' = [life EXCEPT ![j] = life'[j]]

Submit(j) ==
  /\ life[j].phase = "none"
  /\ Only(j)
  /\ life'[j].phase = "waiting" /\ life'[j].holder = NULL /\ life'[j].spent = 0

\* The token handed out is nobody's, and the budget is not spent.
Grant(j) ==
  /\ life[j].phase = "waiting"
  /\ Only(j)
  /\ life'[j].phase = "running" /\ life'[j].holder # NULL
  /\ \A i \in Jobs : life[i].holder # life'[j].holder
  /\ life[j].pinned => life'[j].limit = life[j].limit
  /\ life'[j].pinned
  /\ life[j].spent < life'[j].limit
  /\ life'[j].spent = life[j].spent + 1

\* The job keeps its limit.
Becomes(j, phase, holder, spent) ==
  life' = [life EXCEPT ![j] = [phase |-> phase, holder |-> holder, spent |-> spent,
                               limit |-> @.limit, pinned |-> @.pinned]]

\* The run ends without a verdict, charged or free of charge.
Yield(j) ==
  /\ life[j].phase = "running"
  /\ \E spent \in {life[j].spent, life[j].spent - 1} : Becomes(j, "waiting", NULL, spent)

Finish(j) ==
  /\ life[j].phase = "running"
  /\ Becomes(j, "done", NULL, life[j].spent)

Fail(j) ==
  /\ life[j].phase \in {"running", "waiting"}
  /\ Becomes(j, "failed", NULL, life[j].spent)

Revive(j) ==
  /\ life[j].phase = "failed"
  /\ Becomes(j, "waiting", NULL, 0)

Forget(j) ==
  /\ Only(j)
  /\ life'[j].phase = "none" /\ life'[j].holder = NULL

Next ==
  \E j \in Jobs :
    \/ Submit(j) \/ Grant(j) \/ Yield(j) \/ Finish(j) \/ Fail(j)
    \/ Revive(j) \/ Forget(j)

Spec == Init /\ [][Next]_life
=============================================================================
