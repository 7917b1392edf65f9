--------------------------- MODULE ResidentBinding ---------------------------
(***************************************************************************)
(* The delivery of the resident-manager kernel to one session of a         *)
(* persistent host (core/store/resident_binding.py): the row of            *)
(* resident_manager_bindings, the preflights that plan a delivery and      *)
(* claim it when they commit or fail open, the Stop hook that acknowledges *)
(* it, the context-loss signals that require it again, and the two control *)
(* switches whose generations make the epoch a delivery is valid in.       *)
(*                                                                         *)
(* Turns are numbered by turn_sequence.  One version of the kernel is      *)
(* installed throughout.  A method of the Store is one transaction and one *)
(* action; between two of them a hook holds only what it read.             *)
(***************************************************************************)
EXTENDS Integers, FiniteSets

CONSTANTS
    MaxTurns,    \* bound of the user turns of the session
    MaxSwitches, \* bound of the sum of the control generations
    MaxLosses,   \* bound of the context losses (compactions)
    FailureSets  \* what may go wrong together in a behaviour of the instance

\* The host switch may have been used once before the session.
ASSUME BoundsAssumption ==
    MaxTurns \in Nat /\ MaxSwitches \in Nat \ {0} /\ MaxLosses \in Nat

\* staffing: no accepted specialist, answered by the fail-open capsule;
\* error: any other failure of a preflight, answered by nothing;
\* ceiling: the context of a ready turn exceeds what the host accepts inline;
\* interrupt: the user cancels the prompt; timeout: the host stops waiting
\* for the hook and goes on with the turn; unreadable: the master control
\* document cannot be read for a while; retention: the sweep deletes.
AllFailures == {"staffing", "error", "ceiling", "interrupt", "timeout",
                "unreadable", "retention"}

ASSUME FailuresAssumption == FailureSets \subseteq SUBSET AllFailures

VARIABLES
    master,   \* the master control document
    readable, \* whether it can be read now
    control,  \* the host_controls row; generation 0: never written
    row,      \* resident_manager_bindings of this session and host
    turns,    \* the runs of the session, with the binding each one recorded
    hook,     \* the prompt hook of each turn
    host,     \* the host session: its turn and what it does with it
    context,  \* whether the kernel is in the context of the host's model
    losses,   \* context losses so far
    failures  \* what may go wrong in this behaviour

vars == <<master, readable, control, row, turns, hook, host, context, losses,
          failures>>

Turns == 1 .. MaxTurns
Generations == 0 .. MaxSwitches
Modes == {"injected", "restored", "reused"}
Unreadable == -1

Epoch == [master : Generations \cup {Unreadable}, materialized : BOOLEAN,
          control : Generations]
NoEpoch == [master |-> 0, materialized |-> FALSE, control |-> 0]

Binding == [mode : Modes, epoch : Epoch]
NoBinding == [mode |-> "", epoch |-> NoEpoch]

Row == [epoch : Epoch, restore : Nat, applied : Nat, pending : Nat,
        delivery : {"absent", "pending", "acknowledged"},
        mode : {"", "injected", "restored"}, trace : Turns \cup {0},
        last : Turns \cup {0}]
NoRow == [epoch |-> NoEpoch, restore |-> 0, applied |-> 0, pending |-> 0,
          delivery |-> "absent", mode |-> "", trace |-> 0, last |-> 0]

Open == {"reserved", "in_progress", "ready"}
\* _RECOVERABLE_TERMINAL_RUN_STATUSES; "ended" stands for all but one of them.
Recoverable == {"preflight_failed", "ended"}
Statuses == Open \cup Recoverable \cup {"none", "failed", "deleted"}

\* An epoch that can be recognised again.
Reusable(e) == e.materialized /\ e.control > 0

\* No transaction ever meets a row that the integrity checks of the next one
\* reject (_validate_current_row), however claims move between turns.
RowIsValid(r) ==
    r.delivery # "absent" =>
        /\ r.applied <= r.pending /\ r.pending <= r.restore
        /\ Reusable(r.epoch)
        /\ \/ /\ r.delivery = "acknowledged"
              /\ r.mode = "" /\ r.trace = 0 /\ r.pending = r.applied
           \/ /\ r.delivery = "pending" /\ r.trace # 0
              /\ \/ r.mode = "restored" /\ r.pending > r.applied
                 \/ r.mode = "injected" /\ r.pending = r.applied

\* Every variable is well formed, the row also in the eyes of the Store.
TypeOK ==
    /\ master \in [on : BOOLEAN, generation : Generations,
                   materialized : BOOLEAN]
    /\ readable \in BOOLEAN
    /\ control \in [on : BOOLEAN, generation : Generations]
    /\ row \in Row
    /\ turns \in [Turns -> [status : Statuses, bound : Binding \cup {NoBinding}]]
    /\ hook \in [Turns -> [pc : {"idle", "begin", "plan", "commit", "replan",
                                 "recommit", "read", "failing", "capsule",
                                 "silent", "done"},
                           staffing : BOOLEAN,
                           plan : Binding \cup {NoBinding},
                           recipe : Binding \cup {NoBinding}]]
    /\ host \in [turn : Turns \cup {0}, phase : {"idle", "waiting", "running"}]
    /\ context \in BOOLEAN
    /\ losses \in 0 .. MaxLosses
    /\ failures \in FailureSets
    /\ RowIsValid(row)

IdleHook == [pc |-> "idle", staffing |-> FALSE, plan |-> NoBinding,
             recipe |-> NoBinding]

\* Agency is installed and on; the host switch may never have been used.
Init ==
    /\ master \in [on : {TRUE}, generation : {0}, materialized : BOOLEAN]
    /\ readable = TRUE
    /\ control \in [on : {TRUE}, generation : {0, 1}]
    /\ row = NoRow
    /\ turns = [t \in Turns |-> [status |-> "none", bound |-> NoBinding]]
    /\ hook = [t \in Turns |-> IdleHook]
    /\ host = [turn |-> 0, phase |-> "idle"]
    /\ context = FALSE
    /\ losses = 0
    /\ failures \in FailureSets
-----------------------------------------------------------------------------
(* The control epoch and the transactions on the row                       *)

\* A hook fails enabled when the document cannot be read.
MasterOn == readable => master.on
Enabled == MasterOn /\ control.on

CurrentEpoch ==
    [master |-> IF readable THEN master.generation ELSE Unreadable,
     materialized |-> readable /\ master.materialized,
     control |-> control.generation]

Current(e) == row.delivery # "absent" /\ row.epoch = e

PlannedDelivery ==
    IF row.delivery = "pending" THEN row.mode
    ELSE IF row.restore > row.applied THEN "restored" ELSE "reused"

\* plan_resident_manager_binding, with the controls enabled.
PlannedBinding ==
    [mode |-> IF Reusable(CurrentEpoch) /\ Current(CurrentEpoch)
              THEN PlannedDelivery ELSE "injected",
     epoch |-> CurrentEpoch]

\* Mutant: only an abandoned turn gives its claim up.
MovesFromEndedOnly(p, t) ==
    /\ turns[p].status = "ended" /\ p < t
    /\ \A u \in Turns : turns[u].status # "none" => u <= t

\* _closed_pending_claim_can_move: the claim of a turn closed under a known
\* status moves to the newest turn of the session; the runs and the
\* tombstones of later turns both stand in the way.
ClaimCanMove(p, t) ==
    /\ turns[p].status \in Recoverable /\ p < t
    /\ \A u \in Turns : turns[u].status # "none" => u <= t

\* _commit_resident_manager_binding accepts, for a turn still in progress or
\* the one its own transaction just closed as preflight_failed.
CanClaim(b, t) ==
    /\ Enabled /\ b.epoch = CurrentEpoch
    /\ \/ ~(Reusable(b.epoch) /\ Current(b.epoch)) /\ b.mode = "injected"
       \/ /\ Reusable(b.epoch) /\ Current(b.epoch)
          /\ b.mode = PlannedDelivery
          /\ row.delivery = "pending" /\ row.trace # t
                => ClaimCanMove(row.trace, t)

\* _commit_new_binding and _replace_stale_binding.
NewRow(e, t) ==
    [epoch |-> e, restore |-> 0, applied |-> 0, pending |-> 0,
     delivery |-> "pending", mode |-> "injected", trace |-> t, last |-> t]

\* Mutant: a moved claim takes over the losses signalled meanwhile.
AdvancedRow(t) ==
    IF PlannedDelivery = "reused" THEN [row EXCEPT !.last = t]
    ELSE [row EXCEPT !.delivery = "pending", !.mode = PlannedDelivery,
                     !.trace = t, !.last = t, !.pending = row.restore]

\* Mutant: a reused delivery leaves the row as it is.
UntouchedIfReused(t) ==
    IF PlannedDelivery = "reused" THEN row
    ELSE [row EXCEPT !.delivery = "pending", !.mode = PlannedDelivery,
                     !.trace = t, !.last = t,
                     !.pending = IF row.delivery = "pending" THEN @
                                 ELSE row.restore]

\* _commit_current_binding: a claim in progress keeps its generation.
ClaimedRow(t) ==
    IF PlannedDelivery = "reused" THEN [row EXCEPT !.last = t]
    ELSE [row EXCEPT !.delivery = "pending", !.mode = PlannedDelivery,
                     !.trace = t, !.last = t,
                     !.pending = IF row.delivery = "pending" THEN @
                                 ELSE row.restore]

\* The row after an accepted claim; no row is kept in an epoch that cannot
\* be recognised again.
RowAfterClaim(b, t) ==
    IF ~Reusable(b.epoch) THEN NoRow
    ELSE IF ~Current(b.epoch) THEN NewRow(b.epoch, t)
    ELSE ClaimedRow(t)

\* acknowledge_resident_manager_binding returns True.
CanAcknowledge(b, t) ==
    /\ Enabled /\ b.epoch = CurrentEpoch
    /\ Reusable(b.epoch) =>
        /\ Current(b.epoch)
        /\ \/ row.delivery = "acknowledged" /\ row.last = t
           \/ row.delivery = "pending" /\ row.trace = t

\* Mutant: whatever was signalled by now is taken as applied.
AppliesLatest ==
    [row EXCEPT !.delivery = "acknowledged", !.mode = "", !.trace = 0,
                !.applied = row.restore, !.pending = row.restore]

RowAfterAcknowledge ==
    LET applied == IF row.mode = "restored" THEN row.pending ELSE row.applied
    IN  [row EXCEPT !.delivery = "acknowledged", !.mode = "", !.trace = 0,
                    !.applied = applied, !.pending = applied]

\* validate_committed_resident_manager_binding.
Replayable(b, t) ==
    /\ Enabled /\ b.epoch = CurrentEpoch
    /\ Reusable(b.epoch) =>
        /\ Current(b.epoch)
        /\ \/ /\ b.mode # "reused" /\ row.delivery = "pending"
              /\ row.mode = b.mode /\ row.trace = t
           \/ /\ row.delivery = "acknowledged" /\ row.restore = row.applied
              /\ b.mode # "reused" => row.last = t
-----------------------------------------------------------------------------
(* The prompt hook of a turn                                               *)

At(t, pc) == hook[t].pc = pc
Goto(t, pc) == hook' = [hook EXCEPT ![t].pc = pc]
Finish(t) == hook' = [hook EXCEPT ![t] = [IdleHook EXCEPT !.pc = "done"]]
Awaited(t) == host = [turn |-> t, phase |-> "waiting"]

unchangedControls == UNCHANGED <<master, readable, control, failures>>
unchangedHost == UNCHANGED <<host, context, losses>>

\* The host goes on with the turn it waited for, with what the hook printed.
Answer(t, kernel) ==
    /\ host' = IF Awaited(t) THEN [host EXCEPT !.phase = "running"] ELSE host
    /\ context' = (context \/ (Awaited(t) /\ kernel))
    /\ UNCHANGED losses

\* UserPromptSubmit with the master on: reserve_session_turn abandons the
\* open turns of the session.
Prompt(t) ==
    /\ host.phase = "idle" /\ MasterOn
    /\ turns[t].status = "none"
    /\ \A u \in Turns : u < t => turns[u].status # "none"
    /\ turns' = [u \in Turns |->
           IF u = t THEN [turns[t] EXCEPT !.status = "reserved"]
           ELSE IF turns[u].status \in Open
                THEN [turns[u] EXCEPT !.status = "ended"] ELSE turns[u]]
    /\ hook' = [hook EXCEPT ![t].pc = "begin"]
    /\ host' = [turn |-> t, phase |-> "waiting"]
    /\ UNCHANGED <<row, context, losses>> /\ unchangedControls

\* build_preflight_context: off for this host, so the reservation is closed
\* and nothing is said.  Otherwise begin_preflight_attempt, which refuses a
\* turn abandoned meanwhile.
Begin(t) ==
    /\ At(t, "begin")
    /\ \/ /\ ~Enabled
          /\ turns' = [turns EXCEPT ![t].status =
                 IF @ = "reserved" THEN "ended" ELSE @]
          /\ Goto(t, "silent")
       \/ /\ Enabled /\ turns[t].status = "reserved"
          /\ turns' = [turns EXCEPT ![t].status = "in_progress"]
          /\ Goto(t, "plan")
       \/ /\ Enabled /\ turns[t].status # "reserved"
          /\ Goto(t, "silent")
          /\ UNCHANGED turns
    /\ UNCHANGED row /\ unchangedControls /\ unchangedHost

\* _resident_binding_for_preflight, before the turn is routed.
Plan(t) ==
    /\ At(t, "plan")
    /\ hook' = [hook EXCEPT ![t] =
           IF Enabled THEN [@ EXCEPT !.pc = "commit", !.plan = PlannedBinding,
                                     !.recipe = PlannedBinding]
           ELSE [@ EXCEPT !.pc = "failing"]]
    /\ UNCHANGED <<row, turns>> /\ unchangedControls /\ unchangedHost

\* Routing ends without an accepted specialist, or the preflight fails
\* otherwise before its commit.
Fails(t) ==
    /\ At(t, "commit") \/ At(t, "recommit")
    /\ \/ /\ "staffing" \in failures /\ At(t, "commit")
          /\ hook' = [hook EXCEPT ![t].pc = "failing", ![t].staffing = TRUE]
       \/ /\ "error" \in failures
          /\ Goto(t, "failing")
    /\ UNCHANGED <<row, turns>> /\ unchangedControls /\ unchangedHost

\* mark_preflight_ready: the claim and the ready turn are one transaction.
Commit(t) ==
    LET b == hook[t].recipe
    IN  /\ At(t, "commit") \/ At(t, "recommit")
        /\ turns[t].status = "in_progress" /\ CanClaim(b, t)
        /\ row' = RowAfterClaim(b, t)
        /\ turns' = [turns EXCEPT ![t] = [status |-> "ready", bound |-> b]]
        /\ Goto(t, "read")
        /\ unchangedControls /\ unchangedHost

\* A lost turn fails; a refused claim is planned again once.
CommitRefused(t) ==
    LET lost == turns[t].status # "in_progress"
    IN  /\ At(t, "commit") \/ At(t, "recommit")
        /\ lost \/ ~CanClaim(hook[t].recipe, t)
        /\ Goto(t, IF ~lost /\ At(t, "commit") THEN "replan" ELSE "failing")
        /\ UNCHANGED <<row, turns>> /\ unchangedControls /\ unchangedHost

\* _mark_ready_with_binding_replan: the recipe gets the new binding, the
\* caller keeps the first one.
Replan(t) ==
    /\ At(t, "replan")
    /\ hook' = [hook EXCEPT ![t] =
           IF Enabled THEN [@ EXCEPT !.pc = "recommit", !.recipe = PlannedBinding]
           ELSE [@ EXCEPT !.pc = "failing"]]
    /\ UNCHANGED <<row, turns>> /\ unchangedControls /\ unchangedHost

\* _read_ready_result renders the ready turn if its binding still holds.
Read(t) ==
    LET b == hook[t].recipe
    IN  /\ At(t, "read") /\ Replayable(b, t)
        /\ Answer(t, b.mode # "reused")
        /\ Finish(t)
        /\ UNCHANGED <<row, turns>> /\ unchangedControls

\* It does not, or the turn cannot be rendered any more.
ReadFails(t) ==
    /\ At(t, "read")
    /\ ~Replayable(hook[t].recipe, t) \/ "error" \in failures
    /\ Goto(t, "failing")
    /\ UNCHANGED <<row, turns>> /\ unchangedControls /\ unchangedHost

\* The rendered context exceeds the inline ceiling of the host: the turn is
\* closed as failed and nothing is said.
Ceiling(t) ==
    /\ "ceiling" \in failures
    /\ At(t, "read") /\ Replayable(hook[t].recipe, t)
    /\ turns' = [turns EXCEPT ![t].status = IF @ \in Open THEN "failed" ELSE @]
    /\ Goto(t, "silent")
    /\ UNCHANGED row /\ unchangedControls /\ unchangedHost

\* fail_preflight_attempt: the close of an attempt in progress also claims
\* the delivery planned first, whatever made the attempt fail; a refused
\* claim rolls back alone.  Then the capsule is printed, or the error raised.
Fail(t) ==
    LET b == hook[t].plan
        closes == turns[t].status = "in_progress"
        claims == closes /\ b # NoBinding
                  /\ CanClaim(b, t)
    IN  /\ At(t, "failing")
        /\ row' = IF claims THEN RowAfterClaim(b, t) ELSE row
        /\ turns' = [turns EXCEPT ![t] =
               IF closes THEN [status |-> "preflight_failed",
                               bound |-> IF claims THEN b ELSE NoBinding]
               ELSE @]
        /\ Goto(t, IF hook[t].staffing THEN "capsule" ELSE "silent")
        /\ unchangedControls /\ unchangedHost

\* _fail_open_preflight_result carries the context planned first.
Capsule(t) ==
    /\ At(t, "capsule")
    /\ Answer(t, hook[t].plan.mode # "reused")
    /\ Finish(t)
    /\ UNCHANGED <<row, turns>> /\ unchangedControls

\* The hook prints nothing and the host goes on.
Silent(t) ==
    /\ At(t, "silent")
    /\ Answer(t, FALSE)
    /\ Finish(t)
    /\ UNCHANGED <<row, turns>> /\ unchangedControls

HookStep(t) ==
    \/ Begin(t) \/ Plan(t) \/ Fails(t) \/ Commit(t) \/ CommitRefused(t)
    \/ Replan(t) \/ Read(t) \/ ReadFails(t) \/ Ceiling(t) \/ Fail(t)
    \/ Capsule(t) \/ Silent(t)
-----------------------------------------------------------------------------
(* The host session                                                        *)

\* The Stop hook of a turn the host names, or that is open:
\* get_completion_evidence_snapshot returns the binding the turn recorded, and
\* its acknowledgement precedes the verdict, which closes an open turn or asks
\* for another draft.  A refused acknowledgement closes the turn.
Stop(t) ==
    LET b == turns[t].bound
        open == turns[t].status \in Open
        bound == b # NoBinding
        closed == [turns EXCEPT ![t].status = IF open THEN "ended" ELSE @]
    IN  /\ host = [turn |-> t, phase |-> "running"] /\ MasterOn
        /\ row' = IF /\ bound /\ CanAcknowledge(b, t)
                     /\ row.delivery = "pending" /\ Reusable(b.epoch)
                  THEN RowAfterAcknowledge ELSE row
        /\ \/ turns' = closed /\ host' = [host EXCEPT !.phase = "idle"]
           \/ /\ open /\ (bound => CanAcknowledge(b, t))
              /\ UNCHANGED <<turns, host>>
        /\ UNCHANGED <<hook, context, losses>> /\ unchangedControls

\* The host does not name its turn and no turn is open, or the master is off:
\* the Stop hook does nothing.
StopUnseen(t) ==
    /\ host = [turn |-> t, phase |-> "running"]
    /\ ~MasterOn \/ turns[t].status \notin Open
    /\ host' = [host EXCEPT !.phase = "idle"]
    /\ UNCHANGED <<row, turns, hook, context, losses>> /\ unchangedControls

\* The user cancels the turn: its hook, if it runs, is no longer listened to
\* and no Stop hook follows.
Interrupt ==
    /\ "interrupt" \in failures /\ host.phase # "idle"
    /\ host' = [host EXCEPT !.phase = "idle"]
    /\ UNCHANGED <<row, turns, hook, context, losses>> /\ unchangedControls

\* The host kills a hook that takes too long and goes on without it.
Timeout(t) ==
    /\ "timeout" \in failures /\ Awaited(t)
    /\ Finish(t)
    /\ host' = [host EXCEPT !.phase = "running"]
    /\ UNCHANGED <<row, turns, context, losses>> /\ unchangedControls

\* mark_resident_manager_restore_required.
RestoreRequired ==
    IF row.delivery # "absent" THEN [row EXCEPT !.restore = @ + 1] ELSE row

\* The host compacts the context, in a turn or between two, and its hook
\* (bypassed while the master is off) reports that before the next prompt.
LoseContext ==
    /\ host.phase # "waiting" /\ losses < MaxLosses
    /\ context' = FALSE
    /\ losses' = losses + 1
    /\ row' = IF MasterOn THEN RestoreRequired ELSE row
    /\ UNCHANGED <<turns, hook, host>> /\ unchangedControls

\* SessionEnd closes the turns and retires the row; a session resumed later
\* finds in its transcript the kernel, or not.
SessionEnd ==
    /\ host.phase = "idle" /\ MasterOn
    /\ row' = NoRow
    /\ turns' = [u \in Turns |->
           IF turns[u].status \in Open THEN [turns[u] EXCEPT !.status = "ended"]
           ELSE turns[u]]
    /\ context' \in BOOLEAN
    /\ UNCHANGED <<hook, host, losses>> /\ unchangedControls

\* The retention sweep forgets closed turns, and the row of a session that
\* has no open one, once they are old.
Retention ==
    /\ "retention" \in failures /\ host.phase = "idle"
    /\ \E old \in SUBSET {u \in Turns :
                             turns[u].status \in Recoverable \cup {"failed"}} :
          turns' = [u \in Turns |-> IF u \in old
              THEN [status |-> "deleted", bound |-> NoBinding] ELSE turns[u]]
    /\ \/ UNCHANGED row
       \/ /\ \A u \in Turns : turns[u].status \notin Open
          /\ row' = NoRow
    /\ UNCHANGED <<hook, host, context, losses>> /\ unchangedControls
-----------------------------------------------------------------------------
(* The switches                                                            *)

SwitchMaster ==
    /\ master.generation + control.generation < MaxSwitches
    /\ master' = [on |-> ~master.on, generation |-> master.generation + 1,
                  materialized |-> TRUE]
    /\ UNCHANGED <<readable, control, row, turns, hook, failures>> /\ unchangedHost

SwitchHost ==
    /\ master.generation + control.generation < MaxSwitches
    /\ control' = [on |-> ~control.on, generation |-> control.generation + 1]
    /\ UNCHANGED <<master, readable, row, turns, hook, failures>> /\ unchangedHost

Flicker ==
    /\ "unreadable" \in failures
    /\ readable' = ~readable
    /\ UNCHANGED <<master, control, row, turns, hook, failures>> /\ unchangedHost

Next ==
    \/ \E t \in Turns :
          Prompt(t) \/ HookStep(t) \/ Stop(t) \/ StopUnseen(t) \/ Timeout(t)
    \/ Interrupt \/ LoseContext \/ SessionEnd \/ Retention
    \/ SwitchMaster \/ SwitchHost \/ Flicker

Spec == Init /\ [][Next]_vars
-----------------------------------------------------------------------------
(* What the host relies on                                                 *)

\* The hook of the turn the host waits for tells its model only that the
\* kernel is already loaded.
AnswersByReference(t) ==
    /\ Awaited(t) /\ hook'[t].pc = "done"
    /\ \/ At(t, "read") /\ hook[t].recipe.mode = "reused"
       \/ At(t, "capsule") /\ hook[t].plan.mode = "reused"

\* With these a claim may be recorded of which nothing is printed.
Unprinted == {"error", "ceiling", "timeout", "unreadable"}

\* As long as every recorded claim is printed, a turn that is told only that
\* the kernel is already loaded runs in a context that holds it: every
\* compaction, retirement and switch since the kernel was printed has made a
\* later turn carry it again.
ReferenceNeedsKernel ==
    [][failures \cap Unprinted = {} =>
          \A t \in Turns : AnswersByReference(t) => context]_vars

\* The claim of a failing attempt is taken for a delivery: as the comment at
\* the claim has it, the kernel already went out with the fail-open capsule.
FailedClaimsWentOut ==
    [][\A t \in Turns : AnswersByReference(t) => context]_vars

\* The Stop hook of the turn the host is running is never refused its
\* acknowledgement while the controls are those the turn was bound under,
\* whatever context was lost and whichever orphaned hooks ran meanwhile: a
\* refusal closes the turn as unverified.
StopIsAcknowledged ==
    LET t == host.turn
    IN  host.phase = "running" =>
          LET b == turns[t].bound
          IN  b # NoBinding /\ Enabled /\ b.epoch = CurrentEpoch
                  => CanAcknowledge(b, t)

\* What a turn has committed it can also render: while the host waits and the
\* controls stay, the replay check never rejects the binding just claimed.
CommittedIsRendered ==
    \A t \in Turns :
        /\ At(t, "read") /\ Awaited(t)
        /\ Enabled /\ hook[t].recipe.epoch = CurrentEpoch
        => Replayable(hook[t].recipe, t)

\* What a turn claimed, it can use to its end.
ClaimIsUsable == CommittedIsRendered /\ StopIsAcknowledged

\* The prompt the host waits for is refused its kernel twice only when a
\* control changed in between, never because an earlier turn of the session
\* closed with its delivery unacknowledged.  The claim of a turn that was
\* closed for the inline ceiling, or that retention has deleted, does stay.
ClosedClaimsAreReleased ==
    failures \cap {"ceiling", "retention"} = {} => \A t \in Turns :
        /\ At(t, "recommit") /\ Awaited(t) /\ turns[t].status = "in_progress"
        /\ Enabled /\ hook[t].recipe.epoch = CurrentEpoch
        => CanClaim(hook[t].recipe, t)
=============================================================================
