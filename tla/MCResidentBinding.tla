--------------------------- MODULE MCResidentBinding ---------------------------
(* Instances of ResidentBinding: one session with three turns of which some   *)
(* are not staffed or interrupted, or with two turns and more failures.       *)
EXTENDS ResidentBinding

Calm == {"staffing", "interrupt"}
Recoverables == AllFailures \ {"ceiling", "retention"}
Scenarios == {Calm, AllFailures \ Unprinted, Recoverables, AllFailures}
ErrorsOnly == {{"error"}}

Prompted == Cardinality({t \in Turns : turns[t].status # "none"})
Switched == master.generation + control.generation

\* The states the run explores: three turns in the calm scenario and two in the
\* others; two switches, or one when unprinted claims may be recorded; and a
\* compaction instead of a switch where all may go wrong, and beside three turns.
Shape ==
    CASE failures = Calm -> Switched + losses <= 2
      [] failures = Recoverables -> Prompted <= 2 /\ Switched <= 1
      [] failures = AllFailures -> Prompted <= 2 /\ Switched + losses <= 1
      [] OTHER -> Prompted <= 2
================================================================================
