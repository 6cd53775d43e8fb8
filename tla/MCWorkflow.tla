----------------------------- MODULE MCWorkflow -----------------------------
(* Instances of Workflow for TLC.                                          *)
EXTENDS FakeWac

CONSTANTS w1, w2, m1, m2

\* Functions with every primitive but Select of two futures, and with an
\* operation that is not registered.
MCPrograms == {<<"op", "op">>, <<"signal", "op">>, <<"op", "sleep">>, <<"unknown">>,
               <<"panic">>}

\* Calls of operators with the faults the code recovers from (calls that fail and
\* are retried, an operation that is scheduled but not recorded), and with those
\* it does not or only the reconciler does (a wake-up, the reply to an outcome or
\* the outcome itself is lost).
MCIncidents == {{"vacuum", "resume", "resolve", "release", "replay", "append"},
                {"vacuum", "suspend", "resume", "record"},
                {"vacuum", "cancel", "resolve", "wake", "reply", "outcome"}}

\* One operation, and nothing fails.
MCOne == {<<"op">>}
MCCalm == {{}}

\* A signal with a deadline, then an operation.
MCDeadline == {<<"race", "op">>}

\* A worker dies.
MCCrash == {{"crash"}}
=============================================================================
