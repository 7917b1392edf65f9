---------------------------- MODULE MCNativeChild ----------------------------
(* Instances of NativeChild for TLC. *)
EXTENDS NativeChild

CONSTANTS c1, c2

\* c2 is a child of OpenClaw, c1 may be one of a plain host.
MCHosts == {[c \in Children |-> "openclaw"],
            [c \in Children |-> IF c = c1 THEN "plain" ELSE "openclaw"]}

Untouched(c) ==
    task[c] = "unspawned" /\ delegation[c].status = "suggested" /\ worker[c] = NoWorker

\* The second child is there for what two children of one turn do to each other:
\* it runs while nothing fails and nobody but the plugin reports.
OneAtATime ==
    \/ Untouched(c2)
    \/ /\ losses + restarts = 0
       /\ answer # "other"
       /\ \A s \in strays : s.call \in {"delegateAgain", "startAgain"}
       /\ \A c \in Children :
             /\ host[c] = "openclaw"
             /\ delegation[c].status # "suggested" => delegation[c].exact
             /\ delegation[c].status \in Closed => worker[c].exit # ""
             /\ plugin[c].seen \in {"none", "seen", "terminal"}

\* A third and a fourth call fail only for the receipt of a sent message: both
\* tries of message_sent and both at the end of the run.
Shape ==
    /\ OneAtATime
    /\ losses > 2 => plugin[c1].completion = "delivered" \/ plugin[c1].seen = "terminal"

=============================================================================
