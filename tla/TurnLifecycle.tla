--------------------------- MODULE TurnLifecycle ---------------------------
(***************************************************************************)
(* The processes that drive the turn store: the callers of run_preflight   *)
(* (core/preflight.py), reached from a host's prompt hook with a           *)
(* reservation or directly without one; the finalizers of a response (the  *)
(* native Stop hook and finalize_response); host callbacks that record     *)
(* evidence; and the retention sweep.  Between any two of its Store        *)
(* transactions a process holds only what it read, and may be killed.      *)
(***************************************************************************)
EXTENDS TurnStore

CONSTANTS
    Callers,     \* concurrent run_preflight invocations
    Finalizers,  \* concurrent response finalizers
    Calls,       \* requests a caller may serve
    WaitLength,  \* how long a caller waits for a shared attempt
    MaxCrashes   \* how many callers may be killed

ASSUME CallsAssumption ==
    Calls \subseteq [trace : Traces, session : Sessions, request : Requests,
                     hook : BOOLEAN]

\* The lease outlives the wait by the hook timeout buffer.
ASSUME WaitAssumption == WaitLength \in Nat /\ WaitLength <= LeaseLength
ASSUME CrashAssumption == MaxCrashes \in Nat

VARIABLES caller, finalizer

vars == <<storeVars, caller, finalizer>>

\* Columns of a turn that a completion snapshot reads.
Snapshot(t) ==
    [status |-> runs[t].status, pstate |-> runs[t].pstate,
     attempt |-> runs[t].attempt, evidence |-> evidence[t],
     specialists |-> specialists[t], events |-> EventsOf(t)]

IdleCaller == [pc |-> "idle", trace |-> "", session |-> "", request |-> "",
               reservation |-> 0, token |-> 0, owner |-> FALSE,
               deadline |-> 0, recipe |-> 0]

IdleFinalizer == [pc |-> "idle", trace |-> "", session |-> "", hash |-> "",
                  revision |-> 0, seen |-> {}]

LifecycleInit ==
    /\ Init
    /\ caller = [c \in Callers |-> IdleCaller]
    /\ finalizer = [f \in Finalizers |-> IdleFinalizer]

At(c, pc) == caller[c].pc = pc
Goto(c, pc) == caller' = [caller EXCEPT ![c].pc = pc]

Crashes == Cardinality({c \in Callers : At(c, "crashed")})
Done == {"delivered", "failed", "skipped", "crashed"}
-----------------------------------------------------------------------------
(* A prompt reaches a caller                                               *)

\* _handle_user_prompt_submit or a direct call: a fresh invocation.
Arrive(c, call) ==
    /\ At(c, "idle")
    /\ caller' = [caller EXCEPT ![c] =
           [@ EXCEPT !.pc = IF ~call.hook THEN "begin"
                            ELSE IF PendingRetry(call.trace, call.session)
                                 THEN "skipped" ELSE "reserve",
                     !.trace = call.trace, !.session = call.session,
                     !.request = call.request]]
    /\ UNCHANGED <<storeVars, finalizer>>

\* _reserve_user_turn; a refused reservation raises before any preflight.
Reserve(c) ==
    LET t == caller[c].trace
        s == caller[c].session
    IN  /\ At(c, "reserve")
        /\ \/ /\ ReserveSessionTurn(t, s)
              /\ caller' = [caller EXCEPT ![c].pc = "begin",
                                          ![c].reservation = ReservationOf(t)]
           \/ /\ IF Exists(t) THEN ~OpenIn(t, s) ELSE Retired(t)
              /\ Goto(c, "failed")
              /\ UNCHANGED storeVars
        /\ UNCHANGED finalizer

\* Mutant: only an unused reservation is closed, a failed one is kept.
AbandonUnused(c, status) ==
    LET t == caller[c].trace
        s == caller[c].session
        resv == caller[c].reservation
    IN  \/ status = "preflight_skipped"
           /\ AbandonPreflightReservation(t, s, resv, status)
        \/ /\ status = "preflight_failed" \/ ~CanAbandon(t, s, resv)
           /\ UNCHANGED storeVars

\* abandon_preflight_reservation as a caller uses it: a no-op when the
\* reservation was promoted, closed or never its own.
Abandon(c, status) ==
    LET t == caller[c].trace
        s == caller[c].session
        resv == caller[c].reservation
    IN  \/ AbandonPreflightReservation(t, s, resv, status)
        \/ ~CanAbandon(t, s, resv) /\ UNCHANGED storeVars

\* The adapter returned no context (the runtime is off): the hook closes the
\* reservation it did not use.
SkipPreflight(c) ==
    /\ At(c, "begin") /\ caller[c].reservation # 0
    /\ Abandon(c, "preflight_skipped")
    /\ Goto(c, "skipped")
    /\ UNCHANGED finalizer

-----------------------------------------------------------------------------
(* run_preflight                                                           *)

\* begin_preflight_attempt, one transaction; snapshots and classification
\* before it can fail without touching the turn.
Begin(c) ==
    LET t == caller[c].trace
        s == caller[c].session
        q == caller[c].request
        resv == caller[c].reservation
        deadline == IF clock + WaitLength < MaxClock THEN clock + WaitLength
                    ELSE MaxClock
    IN  /\ At(c, "begin")
        /\ \/ /\ StartAttempt(t, s, q, resv) \/ RecoverAttempt(t, s, q, resv)
              /\ caller' = [caller EXCEPT ![c].pc = "working",
                                          ![c].token = Fresh,
                                          ![c].owner = TRUE]
           \/ /\ ReuseAttempt(t, s, q, resv)
              /\ caller' = [caller EXCEPT
                     ![c].pc = IF runs[t].pstate = "ready" THEN "reading"
                               ELSE "waiting",
                     ![c].token = runs[t].attempt,
                     ![c].deadline = deadline]
           \/ /\ Goto(c, "failing")
              /\ UNCHANGED storeVars
        /\ UNCHANGED finalizer

\* The ready commit of the routed recipe, and every way to miss it: routing,
\* staffing or hiring failed, a guard conflicted, or the CAS was lost.
Work(c) ==
    LET t == caller[c].trace
        s == caller[c].session
        token == caller[c].token
    IN  /\ At(c, "working")
        /\ \/ /\ \E direct \in BOOLEAN : MarkPreflightReady(t, s, token, direct)
              /\ Goto(c, "reading")
           \/ /\ Goto(c, "failing")
              /\ UNCHANGED storeVars
        /\ UNCHANGED finalizer

\* observe_preflight_attempt: the recipe, if this token is the ready one.
Observed(c) ==
    CanReplayReady(caller[c].trace, caller[c].session, caller[c].token)

\* The observed recipe is rendered and delivered, or cannot be rendered any
\* more, or names a specialist disabled meanwhile.
Read(c) ==
    LET t == caller[c].trace
    IN  /\ At(c, "reading") \/ At(c, "waiting")
        /\ Observed(c)
        /\ \/ caller' = [caller EXCEPT ![c].pc = "delivered",
                                       ![c].recipe = runs[t].result]
           \/ Goto(c, "failing")
           \/ Goto(c, "closing")
        /\ UNCHANGED <<storeVars, finalizer>>

\* The close of a turn whose recipe names a disabled specialist, a second
\* transaction that finds the turn as it is by then.
CloseDisabled(c) ==
    LET t == caller[c].trace
        s == caller[c].session
    IN  /\ At(c, "closing")
        /\ \/ CloseTurnEvidence(t, s, "failed")
           \/ ~OpenIn(t, s) /\ UNCHANGED storeVars
        /\ Goto(c, "failing")
        /\ UNCHANGED finalizer

\* Mutant: the waiter has no deadline of its own.
MustWaitForever(c) ==
    /\ At(c, "waiting")
    /\ Owns(caller[c].trace, caller[c].session, caller[c].token)

\* _await_ready_result keeps polling an attempt that is still in progress
\* under the same token, until its own deadline.
MustWait(c) ==
    /\ At(c, "waiting")
    /\ Owns(caller[c].trace, caller[c].session, caller[c].token)
    /\ clock < caller[c].deadline

\* _read_ready_result without a recipe; _await_ready_result when the shared
\* attempt closed, changed owner, or did not resolve in time.
ReadFails(c) ==
    /\ At(c, "reading") \/ At(c, "waiting")
    /\ ~Observed(c)
    /\ ~MustWait(c)
    /\ Goto(c, "failing")
    /\ UNCHANGED <<storeVars, finalizer>>

\* _persist_preflight_failure: an owner fails its own attempt, a caller that
\* never began abandons its reservation, a waiter touches nothing.
Fail(c) ==
    LET t == caller[c].trace
        s == caller[c].session
        token == caller[c].token
    IN  /\ At(c, "failing")
        /\ \/ /\ caller[c].owner
              /\ \/ FailPreflightAttempt(t, s, token)
                 \/ ~CanFail(t, s, token) /\ UNCHANGED storeVars
           \/ /\ token = 0 /\ caller[c].reservation # 0
              /\ Abandon(c, "preflight_failed")
           \/ /\ ~caller[c].owner /\ (token # 0 \/ caller[c].reservation = 0)
              /\ UNCHANGED storeVars
        /\ Goto(c, "failed")
        /\ UNCHANGED finalizer

\* The host kills the hook process between two transactions.
Crash(c) ==
    /\ caller[c].pc \notin Done \cup {"idle"}
    /\ Crashes < MaxCrashes
    /\ Goto(c, "crashed")
    /\ UNCHANGED <<storeVars, finalizer>>
-----------------------------------------------------------------------------
(* Finalization of a response                                              *)

\* get_completion_evidence_snapshot of an open turn, for a response h.
ReadSnapshot(f, t, h) ==
    /\ finalizer[f].pc = "idle"
    /\ Open(t)
    /\ finalizer' = [finalizer EXCEPT ![f] =
           [pc |-> "deciding", trace |-> t, session |-> runs[t].session,
            hash |-> h, revision |-> runs[t].revision, seen |-> {Snapshot(t)}]]
    /\ UNCHANGED <<storeVars, caller>>

Finish(f, pc) == finalizer' = [finalizer EXCEPT ![f].pc = pc]

VerdictPc(status) == IF status = "completed" THEN "accepted" ELSE "rejected"

\* The response is accepted (or rejected for good) on the evidence read.
CommitVerdict(f, status) ==
    LET fin == finalizer[f]
    IN  /\ fin.pc = "deciding"
        /\ CommitTerminalFinalization(fin.trace, fin.session, fin.hash, status,
                                      fin.revision)
        /\ Finish(f, VerdictPc(status))
        /\ UNCHANGED caller

\* Somebody else committed exactly this verdict for exactly this response.
ReplayVerdict(f, status) ==
    LET fin == finalizer[f]
    IN  /\ fin.pc = "deciding"
        /\ IsTerminalReplay(fin.trace, fin.session, fin.hash, status)
        /\ Finish(f, VerdictPc(status))
        /\ UNCHANGED <<storeVars, caller>>

\* The commit is refused: an accept is published unverified and the turn is
\* left as it is, a rejection closes the turn if it is still open.
VerdictRefused(f, status) ==
    LET fin == finalizer[f]
        t == fin.trace
        s == fin.session
        closes == status = "response_invalid" /\ OpenIn(t, s)
    IN  /\ fin.pc = "deciding"
        /\ ~CanCommitTerminal(t, s, fin.revision)
        /\ ~IsTerminalReplay(t, s, fin.hash, status)
        /\ \/ closes /\ CloseTurnEvidence(t, s, "failed")
           \/ ~closes /\ UNCHANGED storeVars
        /\ Finish(f, "unverified")
        /\ UNCHANGED caller

\* finalize_response asks the host for another draft.
Continue(f) ==
    LET t == finalizer[f].trace
    IN  /\ finalizer[f].pc = "deciding"
        /\ RecordFinalization(t) \/ (~Open(t) /\ UNCHANGED storeVars)
        /\ Finish(f, "unverified")
        /\ UNCHANGED caller

\* The evidence cannot be verified: the Stop hook closes the turn.
VerificationFails(f) ==
    /\ finalizer[f].pc = "deciding"
    /\ CloseTurnEvidence(finalizer[f].trace, finalizer[f].session, "failed")
    /\ Finish(f, "unverified")
    /\ UNCHANGED caller
-----------------------------------------------------------------------------
(* Host callbacks and retention                                            *)

HostEvidence ==
    /\ \E t \in Traces, s \in Sessions, live \in BOOLEAN :
          RecordEvidence(t, s, live)
    /\ UNCHANGED <<caller, finalizer>>

Retention ==
    /\ \E swept, failed, old \in SUBSET Traces :
          TrimRuntimeTables(clock, swept, failed, old)
    /\ UNCHANGED <<caller, finalizer>>

TimePasses == Tick /\ UNCHANGED <<caller, finalizer>>

CallerStep(c) ==
    \/ Reserve(c) \/ SkipPreflight(c) \/ Begin(c) \/ Work(c)
    \/ Read(c) \/ CloseDisabled(c) \/ ReadFails(c) \/ Fail(c)

FinalizerStep(f) ==
    \/ \E t \in Traces, h \in Hashes : ReadSnapshot(f, t, h)
    \/ \E status \in BoundStatuses :
          CommitVerdict(f, status) \/ ReplayVerdict(f, status)
                                   \/ VerdictRefused(f, status)
    \/ Continue(f)
    \/ VerificationFails(f)

LifecycleNext ==
    \/ \E c \in Callers :
          (\E call \in Calls : Arrive(c, call)) \/ CallerStep(c) \/ Crash(c)
    \/ \E f \in Finalizers : FinalizerStep(f)
    \/ HostEvidence
    \/ Retention
    \/ TimePasses

\* A hook process that was not killed keeps running, and time passes.
LifecycleFairness ==
    /\ \A c \in Callers : WF_vars(CallerStep(c))
    /\ WF_vars(TimePasses)

LifecycleSafety == LifecycleInit /\ [][LifecycleNext]_vars
LifecycleSpec == LifecycleSafety /\ LifecycleFairness

-----------------------------------------------------------------------------
(* What a host relies on                                                   *)

\* A verdict binds a turn only if nothing a completion snapshot reads has
\* changed since the finalizer read it, whatever ran between its read and its
\* commit: callers, evidence callbacks, other finalizers, retention.
VerdictOnCurrentEvidence ==
    [][\A f \in Finalizers :
          LET t == finalizer[f].trace
          IN  /\ finalizer[f].pc = "deciding"
              /\ finalizer'[f].pc \in {"accepted", "rejected"}
              /\ Open(t)
              => finalizer[f].seen = {Snapshot(t)}]_vars

\* A response reported as accepted is the one bound to its turn until the
\* turn is forgotten: two Stop hooks of one turn that both report success
\* agree on the response.
AcceptedIsAuthoritative ==
    \A f \in Finalizers : finalizer[f].pc = "accepted" =>
        LET t == finalizer[f].trace
        IN  \/ Retired(t)
            \/ /\ runs[t].status = "completed"
               /\ {e.hash : e \in AuthoritativeEvents(t)} = {finalizer[f].hash}

\* All callers that deliver context for one turn deliver the same recipe:
\* the losers of the race, late joiners and retried prompts included.
OneRecipePerTurn ==
    \A c, d \in Callers :
        /\ At(c, "delivered") /\ At(d, "delivered")
        /\ caller[c].trace = caller[d].trace
        => caller[c].recipe = caller[d].recipe

\* Only the current owner of an attempt in progress, or a holder of a
\* reservation nobody promoted, ever fails a turn: a caller that lost its
\* lease, a waiter, or a caller whose own attempt is already ready never does.
OnlyOwnerFailsTurn ==
    [][\A t \in Traces : Open(t) /\ runs'[t].status = "preflight_failed" =>
          \E c \in Callers :
              /\ At(c, "failing") /\ caller[c].trace = t
              /\ CASE runs[t].pstate = "in_progress" ->
                         caller[c].owner /\ caller[c].token = runs[t].attempt
                   [] runs[t].pstate = "reserved" ->
                         /\ ~caller[c].owner
                         /\ caller[c].reservation = runs[t].reservation
                   [] OTHER -> FALSE]_vars

\* An owner that reported its failure no longer blocks the turn, however late
\* it failed: its attempt is not left in progress for the lease to run out.
FailureReleasesAttempt ==
    \A c \in Callers :
        At(c, "failed") /\ caller[c].owner
            => ~Owns(caller[c].trace, caller[c].session, caller[c].token)

\* What the callers of a turn were told agrees: those that answered their host
\* gave it one recipe, and those that reported a failure hold no attempt.
CallersAgree == OneRecipePerTurn /\ FailureReleasesAttempt

\* Every invocation ends, the waiters of a killed owner included.
CallersTerminate ==
    \A c \in Callers : ~At(c, "idle") ~> caller[c].pc \in Done

Unsettled(t) == Open(t) /\ runs[t].pstate \in {"reserved", "in_progress"}

\* Unless a hook is killed, no turn stays reserved or in progress.
PreflightSettles ==
    \A t \in Traces :
        Unsettled(t) /\ Crashes = 0 ~> ~Unsettled(t) \/ Crashes > 0
=============================================================================
