--------------------------- MODULE MCOwnedProcesses ---------------------------
(* An instance of OwnedProcesses: a machine with two process ids. *)
EXTENDS OwnedProcesses

CONSTANTS p1, p2

MCTwo == {p1, p2}

\* The two ids are alike, and one client that goes silent is enough.  Where start
\* times cannot be read, a roll is looked at only until one is overwritten.
Shape ==
    /\ ~proc[p2].abandoned
    /\ legible \/ (~overwritten /\ ~proc[p1].abandoned)
=============================================================================
