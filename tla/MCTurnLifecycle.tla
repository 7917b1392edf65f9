-------------------------- MODULE MCTurnLifecycle --------------------------
(* Small instances of TurnLifecycle for TLC. *)
EXTENDS TurnLifecycle

CONSTANTS t1, t2, s1, q1, h1, h2, c1, c2, f1, f2

OneTrace == {t1}
OneSession == {s1}
OneRequest == {q1}
OneHash == {h1}
TwoHashes == {h1, h2}
OneCaller == {c1}
TwoCallers == {c1, c2}
OneFinalizer == {f1}
TwoFinalizers == {f1, f2}
NoFinalizer == {}

Call(t, hook) == [trace |-> t, session |-> s1, request |-> q1, hook |-> hook]

\* Every way to reach run_preflight for the given turns.
CallsOf(T) == {Call(t, hook) : t \in T, hook \in BOOLEAN}
OneTraceCalls == CallsOf({t1})

\* Two invocations race, one of them may be killed; one finalizer.
Races == finalizer[f2].pc = "idle" /\ finalizer[f1].hash # h2

\* Two finalizers with two responses; one invocation, which is not killed.
Verdicts == /\ At(c2, "idle") /\ Crashes = 0
            /\ clock <= 2 /\ uuids <= 4

\* The states the run explores: the bounds of either race.
Shape == Races \/ Verdicts
=============================================================================
