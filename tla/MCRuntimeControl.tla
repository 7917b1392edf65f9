--------------------------- MODULE MCRuntimeControl ---------------------------
(* An instance of RuntimeControl: two invocations that change the switch, two *)
(* threads of a server that read it.                                          *)
EXTENDS RuntimeControl

CONSTANTS w1, w2, r1, r2

MCPair == {w1, w2}
MCReaders == {r1, r2}

\* The states the run explores: after a loss of power one thread reads.
Shape == losses = 0 \/ reader[r2].pc = "idle"
=============================================================================
