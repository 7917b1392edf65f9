--------------------------- MODULE TurnAuthority ---------------------------
(***************************************************************************)
(* What the turn store promises to a reader that asks "was this turn       *)
(* answered, and with which response?".  A turn is seen once, is open for  *)
(* a while, closes once - with the one response that was verified for it,  *)
(* or without any - and may later be forgotten for good.                   *)
(*                                                                         *)
(* The lookups of core/store/sqlite.py (get_authoritative_finalization and *)
(* the trace lookups built on it) are observations of this machine;        *)
(* TurnStore implements it.                                                *)
(***************************************************************************)
CONSTANTS Traces, Hashes

VARIABLE turn  \* per trace: its phase and the verified response, "" if none

Unseen == [phase |-> "unseen", answer |-> ""]
Opened == [phase |-> "open", answer |-> ""]
ClosedWith(h) == [phase |-> "closed", answer |-> h]
Forgotten == [phase |-> "retired", answer |-> ""]

Init == turn = [t \in Traces |-> Unseen]

\* A prompt opens one turn and closes the ones it supersedes, unanswered.
Prompt(t, superseded) ==
    /\ turn[t] = Unseen
    /\ \A u \in superseded : turn[u] = Opened
    /\ turn' = [u \in Traces |-> IF u = t THEN Opened
                                 ELSE IF u \in superseded THEN ClosedWith("")
                                 ELSE turn[u]]

\* Open turns end without a verified response.
GiveUp(T) ==
    /\ \A t \in T : turn[t] = Opened
    /\ turn' = [t \in Traces |-> IF t \in T THEN ClosedWith("") ELSE turn[t]]

\* One verified response is bound to one open turn.
Answer(t, h) ==
    /\ turn[t] = Opened
    /\ turn' = [turn EXCEPT ![t] = ClosedWith(h)]

\* Retention gives up stale turns and forgets closed ones.
Sweep(stale, purged) ==
    /\ \A t \in stale : turn[t] = Opened
    /\ \A t \in purged \ stale : turn[t].phase = "closed"
    /\ turn' = [t \in Traces |-> IF t \in purged THEN Forgotten
                                 ELSE IF t \in stale THEN ClosedWith("")
                                 ELSE turn[t]]

Next ==
    \/ \E t \in Traces, T \in SUBSET Traces : Prompt(t, T)
    \/ \E T \in SUBSET Traces : GiveUp(T)
    \/ \E t \in Traces, h \in Hashes : Answer(t, h)
    \/ \E T, U \in SUBSET Traces : Sweep(T, U)

Spec == Init /\ [][Next]_turn
=============================================================================
