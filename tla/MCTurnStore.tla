---------------------------- MODULE MCTurnStore ----------------------------
(* Small instances of TurnStore for TLC. *)
EXTENDS TurnStore, TLC

CONSTANTS t1, t2, s1, s2, q1, q2, h1, h2

OneTrace == {t1}
TwoTraces == {t1, t2}
OneSession == {s1}
TwoSessions == {s1, s2}
OneRequest == {q1}
TwoRequests == {q1, q2}
OneHash == {h1}
TwoHashes == {h1, h2}

TraceSymmetry == Permutations(Traces)

Seen(t) == Exists(t) \/ Retired(t)

\* One turn, deeply: two requests and two responses, lease expiry, recovery.
OneTurn == Cardinality({t \in Traces : Seen(t)}) <= 1

\* Two turns with one request and one response each, without callbacks.
TwoTurns ==
    /\ clock <= 1 /\ uuids <= 2
    /\ \A t \in Traces : /\ runs[t].revision <= 3
                         /\ runs[t].request \in {"", q1}
    /\ \A e \in events : e.action = "terminal" /\ e.hash # h2

\* The states the run explores: the bounds of either shape.
Shape == OneTurn \/ TwoTurns
=============================================================================
