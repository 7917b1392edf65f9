--------------------------- MODULE MCChildRouting ---------------------------
(* Small instances of ChildRouting for TLC. *)
EXTENDS ChildRouting, TLC

CONSTANTS c1, c2, c3, p1, p2, k1, k2

TwoChildren == {c1, c2}
ThreeChildren == {c1, c2, c3}
OneKey == {k1}
TwoKeys == {k1, k2}
OneParent == {p1}
TwoParents == {p1, p2}
SameParent == [k \in Keys |-> p1]
OwnParent == [k \in Keys |-> IF k = k1 THEN p1 ELSE p2]

\* The states the run explores: two keys up to the budget, and beyond it the
\* route of k1 alone.
Shape ==
    \/ Len(granted) <= Budget
    \/ /\ \A c \in Children : child[c].key # k2
       /\ lease[k2] = NoLease /\ cache[k2] = NoRoute

ChildSymmetry == Permutations(Children)
=============================================================================
