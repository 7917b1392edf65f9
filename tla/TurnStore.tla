----------------------------- MODULE TurnStore -----------------------------
(***************************************************************************)
(* The durable turn lifecycle of the evidence Store (core/store): the runs *)
(* table, the reservation and the fenced preflight attempt of a turn, its  *)
(* evidence rows, its finalization events, and the retention that deletes  *)
(* closed turns and leaves tombstones.                                     *)
(*                                                                         *)
(* Every Store method is one BEGIN IMMEDIATE transaction, so every method  *)
(* is one action.  A method that refuses (raises, or returns a refusal)    *)
(* rolls back or commits nothing and is a stuttering step: only the guard  *)
(* of the accepting path is written.  Next lets any caller call any method *)
(* at any time with any token the Store ever issued, which covers every    *)
(* host adapter; TurnLifecycle restricts it to the real callers.           *)
(***************************************************************************)
EXTENDS Integers, FiniteSets, FiniteSetsExt

CONSTANTS
    Traces,        \* turn correlation ids
    Sessions,      \* host session ids
    Requests,      \* (request_fingerprint, request_kind) pairs
    Hashes,        \* SHA-256 digests of response texts
    LeaseLength,   \* preflight lease in clock ticks (hook timeout + buffer)
    MinInactivity, \* _STALE_OPEN_MIN_INACTIVITY_SECONDS in clock ticks
    MaxClock,      \* bound of the Store clock
    MaxUuids,      \* bound of the UUIDs issued as tokens and event ids
    MaxRevision    \* no evidence is recorded on a turn beyond this revision

ASSUME BoundsAssumption ==
    /\ LeaseLength \in Nat \ {0} /\ MinInactivity \in Nat \ {0}
    /\ MaxClock \in Nat /\ MaxUuids \in Nat /\ MaxRevision \in Nat

\* A hook lease is at most 600 seconds, an open turn is stale after a day.
ASSUME LeaseAssumption == LeaseLength < MinInactivity

\* "" is the empty column: no session, no request, no hash.
ASSUME EmptyAssumption == "" \notin Sessions \cup Requests \cup Hashes

VARIABLES
    clock,        \* STORE_CLOCK_SQL; 0 stands for the empty timestamp
    runs,         \* the runs table, one row per trace_id
    events,       \* finalization_events
    receipts,     \* traces with a preflight_failure_receipts row
    specialists,  \* expiry states of the specialists_loaded rows of a trace
    evidence,     \* correlated rows, each tagged with the attempt it was
                  \* recorded under (0: recorded before any attempt)
    tombstones,   \* trace_tombstones
    turnSequence, \* store_counters row 'turn-sequence'
    uuids         \* number of UUIDs issued so far; 0 stands for NULL

storeVars == <<clock, runs, events, receipts, specialists, evidence,
               tombstones, turnSequence, uuids>>

OpenStatuses == {"active", "evidence_only"}
BoundStatuses == {"completed", "response_invalid"}
ClosedStatuses == BoundStatuses \cup
    {"preflight_failed", "preflight_skipped", "abandoned", "failed",
     "canary_failed", "retention_expired"}

Run == [session     : Sessions \cup {""},
        status      : OpenStatuses \cup ClosedStatuses \cup {"absent"},
        ended       : BOOLEAN,
        binding     : Nat,      \* terminal_finalization_id
        revision    : Nat,      \* evidence_revision
        seq         : Nat,      \* turn_sequence
        reservation : Nat,      \* reservation_token
        pstate      : {"", "reserved", "in_progress", "ready"},
        attempt     : Nat,      \* preflight_attempt_token
        lease       : Nat,      \* preflight_lease_expires_at
        request     : Requests \cup {""},
        result      : Nat,      \* preflight_result: the attempt that built it
        activity    : Nat]      \* last_activity_at

Event == [id : Nat, trace : Traces, action : {"continue", "terminal"},
          hash : Hashes \cup {""}, status : BoundStatuses \cup {""}]

Tombstone == [trace : Traces, session : Sessions \cup {""}, seq : Nat]

Absent == [session |-> "", status |-> "absent", ended |-> FALSE, binding |-> 0,
           revision |-> 0, seq |-> 0, reservation |-> 0, pstate |-> "",
           attempt |-> 0, lease |-> 0, request |-> "", result |-> 0,
           activity |-> 0]
-----------------------------------------------------------------------------
Exists(t) == runs[t].status # "absent"
Open(t) == runs[t].status \in OpenStatuses
Closed(t) == Exists(t) /\ ~Open(t)
Retired(t) == \E x \in tombstones : x.trace = t

OpenIn(t, s) == Open(t) /\ runs[t].session = s

\* _ensure_run and reserve_session_turn: an existing turn must be open in
\* this session, a new one must not reuse a retired trace id.
Usable(t, s) == IF Exists(t) THEN OpenIn(t, s) ELSE ~Retired(t)

EventsOf(t) == {e \in events : e.trace = t}

\* Mutant: the triggers stamp the activity and forget the revision.
StampOnly(r, n) == [r EXCEPT !.activity = clock]

\* The activity triggers: every write of a lifecycle column and every insert
\* or update of a correlated row advances the revision and the activity of
\* the run, unless retention closed it.  n counts the triggers that fire.
Bump(r, n) ==
    IF r.status = "retention_expired" THEN r
    ELSE [r EXCEPT !.revision = @ + n, !.activity = clock]

Touch(r) == [r EXCEPT !.activity = clock]

\* Mutant: the sequence is derived from the surviving runs only.
NextSurvivingSequence == 1 + Max({0} \cup {runs[t].seq : t \in Traces})

\* The sequence trigger: above the counter, every run and every tombstone.
NextSequence ==
    1 + Max({turnSequence} \cup {runs[t].seq : t \in Traces}
                           \cup {x.seq : x \in tombstones})

NewRun(s, status) ==
    [Absent EXCEPT !.session = s, !.status = status, !.revision = 1,
                   !.seq = NextSequence, !.activity = clock]

\* One UPDATE of the status, plus the expiry of the turn's live specialists.
ClosedRow(t, status) ==
    Bump([runs[t] EXCEPT !.status = status, !.ended = TRUE],
         IF "live" \in specialists[t] THEN 2 ELSE 1)

Expired(T) ==
    [t \in Traces |-> IF t \in T /\ specialists[t] # {} THEN {"expired"}
                      ELSE specialists[t]]

CloseRuns(T, status) ==
    /\ runs' = [t \in Traces |->
                   IF t \in T THEN ClosedRow(t, status) ELSE runs[t]]
    /\ specialists' = Expired(T)
-----------------------------------------------------------------------------
Init ==
    /\ clock = 1
    /\ runs = [t \in Traces |-> Absent]
    /\ events = {}
    /\ receipts = {}
    /\ specialists = [t \in Traces |-> {}]
    /\ evidence = [t \in Traces |-> {}]
    /\ tombstones = {}
    /\ turnSequence = 0
    /\ uuids = 0

Tick ==
    /\ clock < MaxClock
    /\ clock' = clock + 1
    /\ UNCHANGED <<runs, events, receipts, specialists, evidence, tombstones,
                   turnSequence, uuids>>

\* Issue a UUID; the bound stands for "the run of the model is over".
Issue == uuids < MaxUuids /\ uuids' = uuids + 1
Fresh == uuids + 1

-----------------------------------------------------------------------------
(* Creation and reservation (evidence.py, sqlite.py)                       *)

\* create_run.  q is the fingerprint its metadata carries, possibly none.
CreateRun(t, s, q) ==
    /\ Usable(t, s)
    /\ IF Exists(t)
       THEN /\ runs[t].status = "active" => runs[t].request = q
            /\ runs' = [runs EXCEPT ![t] =
                   IF @.status = "active" THEN Touch(@)
                   ELSE Bump([@ EXCEPT !.status = "active", !.request = q], 1)]
            /\ UNCHANGED turnSequence
       ELSE /\ runs' = [runs EXCEPT ![t] = [NewRun(s, "active")
                                            EXCEPT !.request = q]]
            /\ turnSequence' = NextSequence
    /\ UNCHANGED <<clock, events, receipts, specialists, evidence, tombstones,
                   uuids>>

\* Mutant: only reservations are rotated, promoted turns stay open.
OtherReservations(t, s) ==
    {u \in Traces \ {t} : OpenIn(u, s) /\ runs[u].status = "evidence_only"}

\* The open turns of the session a new prompt supersedes.
OtherOpen(t, s) == {u \in Traces \ {t} : OpenIn(u, s)}

\* reserve_session_turn: abandon the session's other open turns, then insert
\* a reservation or touch the turn that is already open.
ReserveSessionTurn(t, s) ==
    LET abandoned == OtherOpen(t, s)
        reserved == IF Exists(t) THEN Touch(runs[t])
                    ELSE [NewRun(s, "evidence_only")
                          EXCEPT !.reservation = Fresh, !.pstate = "reserved"]
    IN  /\ Usable(t, s)
        /\ runs' = [u \in Traces |->
                       IF u = t THEN reserved
                       ELSE IF u \in abandoned THEN ClosedRow(u, "abandoned")
                       ELSE runs[u]]
        /\ specialists' = Expired(abandoned)
        /\ IF Exists(t) THEN UNCHANGED <<uuids, turnSequence>>
           ELSE Issue /\ turnSequence' = NextSequence
        /\ UNCHANGED <<clock, events, receipts, evidence, tombstones>>

\* The reservation token the call returns.
ReservationOf(t) ==
    IF ~Exists(t) THEN Fresh
    ELSE IF runs[t].pstate = "" THEN 0 ELSE runs[t].reservation

\* _ensure_run followed by the insert of one correlated row: model receipts,
\* skills, delegations, routing decisions, or (live) specialists.
RecordEvidence(t, s, live) ==
    /\ Usable(t, s)
    /\ Exists(t) => runs[t].revision < MaxRevision
    /\ runs' = [runs EXCEPT ![t] =
           Bump(IF Exists(t) THEN @ ELSE NewRun(s, "evidence_only"), 1)]
    /\ turnSequence' = IF Exists(t) THEN turnSequence ELSE NextSequence
    /\ evidence' = [evidence EXCEPT ![t] = @ \cup {runs[t].attempt}]
    /\ specialists' = [specialists EXCEPT ![t] =
           IF live THEN @ \cup {"live"} ELSE @]
    /\ UNCHANGED <<clock, events, receipts, tombstones, uuids>>

-----------------------------------------------------------------------------
(* The fenced preflight attempt (preflight.py)                             *)

\* Mutant: the outcome of the call is stored as the state of the attempt.
AttemptStarted(r, q) ==
    [r EXCEPT !.status = "active", !.pstate = "started", !.attempt = Fresh,
              !.lease = clock + LeaseLength, !.request = q, !.result = 0]

\* Lifecycle columns of a fresh attempt, its token and its lease.
Attempt(r, q) ==
    [r EXCEPT !.status = "active", !.pstate = "in_progress", !.attempt = Fresh,
              !.lease = clock + LeaseLength, !.request = q, !.result = 0]

LeaseExpired(r) == r.lease < clock

\* Guards of the accepting outcomes of begin_preflight_attempt.
CanInsert(t, resv) == ~Exists(t) /\ resv = 0 /\ ~Retired(t)

\* The run is open in this session and the caller holds its reservation.
Admits(t, s, resv) ==
    OpenIn(t, s) /\ (runs[t].reservation # 0 => resv = runs[t].reservation)

CanPromote(t, s, resv) ==
    /\ Admits(t, s, resv)
    /\ runs[t].status = "evidence_only"
    /\ runs[t].pstate = "reserved" /\ runs[t].reservation # 0

CanStart(t, s, q, resv) ==
    /\ Admits(t, s, resv)
    /\ runs[t].status = "active" /\ runs[t].pstate = ""
    /\ runs[t].reservation = 0 /\ resv = 0
    /\ runs[t].request \in {"", q}

\* An active run whose attempt serves the same request.
Shares(t, s, q, resv) ==
    /\ Admits(t, s, resv)
    /\ runs[t].status = "active" /\ runs[t].request = q
    /\ runs[t].attempt # 0

CanReuseReady(t, s, q, resv) ==
    Shares(t, s, q, resv) /\ runs[t].pstate = "ready"

CanReuse(t, s, q, resv) ==
    Shares(t, s, q, resv) /\ runs[t].pstate = "in_progress"
                          /\ ~LeaseExpired(runs[t])

\* Mutant: a ready attempt, whose lease is cleared, counts as expired.
CanRecoverAny(t, s, q, resv) ==
    Shares(t, s, q, resv) /\ LeaseExpired(runs[t])

CanRecover(t, s, q, resv) ==
    Shares(t, s, q, resv) /\ runs[t].pstate = "in_progress"
                          /\ LeaseExpired(runs[t])

\* outcome "started": a new run, a promoted reservation, an untouched run.
StartAttempt(t, s, q, resv) ==
    /\ \/ CanInsert(t, resv)
       \/ CanPromote(t, s, resv)
       \/ CanStart(t, s, q, resv)
    /\ Issue
    /\ runs' = [runs EXCEPT ![t] =
           IF Exists(t) THEN Bump(Attempt(@, q), 1)
           ELSE Attempt(NewRun(s, "active"), q)]
    /\ turnSequence' = IF Exists(t) THEN turnSequence ELSE NextSequence
    /\ UNCHANGED <<clock, events, receipts, specialists, evidence, tombstones>>

\* Mutant: the correlated rows of the expired attempt survive.
DiscardEventsOnly(t) ==
    /\ events' = events \ EventsOf(t)
    /\ UNCHANGED <<evidence, specialists>>

\* _recover_expired_preflight deletes the rows that carry the trace of the turn.
\* (Of worker_runs, which no property here is about, only those that are linked
\* to one of its work units.)
DiscardAttemptRows(t) ==
    /\ events' = events \ EventsOf(t)
    /\ evidence' = [evidence EXCEPT ![t] = {}]
    /\ specialists' = [specialists EXCEPT ![t] = {}]

\* outcome "recovered_started": the expired attempt's rows are deleted and
\* its token is replaced, in one transaction.
RecoverAttempt(t, s, q, resv) ==
    /\ CanRecover(t, s, q, resv)
    /\ Issue
    /\ runs' = [runs EXCEPT ![t] = Bump(Attempt(@, q), 1)]
    /\ DiscardAttemptRows(t)
    /\ UNCHANGED <<clock, receipts, tombstones, turnSequence>>

\* outcomes "reused_ready" and "reused_in_progress" keep the run alive.
ReuseAttempt(t, s, q, resv) ==
    /\ CanReuseReady(t, s, q, resv) \/ CanReuse(t, s, q, resv)
    /\ runs' = [runs EXCEPT ![t] = Touch(@)]
    /\ UNCHANGED <<clock, events, receipts, specialists, evidence, tombstones,
                   turnSequence, uuids>>

\* Mutant: the token of the attempt is not compared.
OwnsAny(t, s, token) ==
    /\ runs[t].session = s /\ runs[t].status = "active"
    /\ runs[t].pstate = "in_progress" /\ token # 0

\* The compare-and-swap predicate of an attempt's own transactions.
Owns(t, s, token) ==
    /\ runs[t].session = s /\ runs[t].status = "active"
    /\ runs[t].pstate = "in_progress"
    /\ token # 0 /\ runs[t].attempt = token

CanCommitReady(t, s, token) == Owns(t, s, token) /\ ~LeaseExpired(runs[t])

CanReplayReady(t, s, token) ==
    /\ OpenIn(t, s) /\ runs[t].status = "active"
    /\ runs[t].pstate = "ready" /\ token # 0 /\ runs[t].attempt = token

\* mark_preflight_ready, "committed": the recipe, the routing decision and
\* (direct delivery) the loaded specialists become visible together.
MarkPreflightReady(t, s, token, direct) ==
    /\ CanCommitReady(t, s, token)
    /\ runs' = [runs EXCEPT ![t] =
           Bump([@ EXCEPT !.pstate = "ready", !.lease = 0, !.result = token],
                IF direct THEN 3 ELSE 2)]
    /\ evidence' = [evidence EXCEPT ![t] = @ \cup {token}]
    /\ specialists' = [specialists EXCEPT ![t] =
           IF direct THEN @ \cup {"live"} ELSE @]
    /\ UNCHANGED <<clock, events, receipts, tombstones, turnSequence, uuids>>

\* mark_preflight_ready, "replay".
ReplayPreflightReady(t, s, token) ==
    /\ CanReplayReady(t, s, token)
    /\ runs' = [runs EXCEPT ![t] = Touch(@)]
    /\ UNCHANGED <<clock, events, receipts, specialists, evidence, tombstones,
                   turnSequence, uuids>>

\* Mutant: a failure is persisted only while the lease is held.
CanFailInLease(t, s, token) == Owns(t, s, token) /\ ~LeaseExpired(runs[t])

\* A failure is guarded by the token alone, not by the lease.
CanFail(t, s, token) == Owns(t, s, token)

\* fail_preflight_attempt.
FailPreflightAttempt(t, s, token) ==
    /\ CanFail(t, s, token)
    /\ runs' = [runs EXCEPT ![t] =
           Bump([ClosedRow(t, "preflight_failed")
                 EXCEPT !.pstate = "", !.attempt = 0, !.lease = 0,
                        !.result = 0], 1)]
    /\ receipts' = receipts \cup {t}
    /\ specialists' = Expired({t})
    /\ UNCHANGED <<clock, events, evidence, tombstones, turnSequence, uuids>>

CanAbandon(t, s, resv) ==
    /\ OpenIn(t, s) /\ runs[t].status = "evidence_only"
    /\ runs[t].pstate = "reserved"
    /\ resv # 0 /\ runs[t].reservation = resv

\* abandon_preflight_reservation: close a reservation nobody promoted.  It
\* leaves the specialists of the turn alone.
AbandonPreflightReservation(t, s, resv, status) ==
    /\ CanAbandon(t, s, resv)
    /\ LET failed == status = "preflight_failed"
       IN  /\ runs' = [runs EXCEPT ![t] =
                  Bump([@ EXCEPT !.status = status, !.ended = TRUE,
                                 !.reservation = 0, !.pstate = "",
                                 !.lease = 0],
                       IF failed THEN 2 ELSE 1)]
           /\ receipts' = IF failed THEN receipts \cup {t} ELSE receipts
    /\ UNCHANGED <<clock, events, specialists, evidence, tombstones,
                   turnSequence, uuids>>

-----------------------------------------------------------------------------
(* Finalization (sqlite.py)                                                *)

AddEvent(t, action, h, status) ==
    events' = events \cup {[id |-> Fresh, trace |-> t, action |-> action,
                            hash |-> h, status |-> status]}

\* record_finalization: an unbound observation of an open run.
RecordFinalization(t) ==
    /\ Open(t) /\ runs[t].revision < MaxRevision
    /\ Issue
    /\ AddEvent(t, "continue", "", "")
    /\ runs' = [runs EXCEPT ![t] = Bump(@, 1)]
    /\ UNCHANGED <<clock, receipts, specialists, evidence, tombstones,
                   turnSequence>>

\* The hashed continuation event of a turn, if any.
Claims(t) == {e \in EventsOf(t) : e.action = "continue" /\ e.hash # ""}

CanClaim(t, retryActive) == ~retryActive /\ Claims(t) = {}

\* claim_continuation.  "replay" and "exhausted" touch the run only.
ClaimContinuation(t, s, h, retryActive) ==
    /\ OpenIn(t, s) /\ runs[t].revision < MaxRevision
    /\ IF CanClaim(t, retryActive)
       THEN /\ Issue
            /\ AddEvent(t, "continue", h, "")
            /\ runs' = [runs EXCEPT ![t] = Bump(@, 1)]
       ELSE /\ runs' = [runs EXCEPT ![t] = Touch(@)]
            /\ UNCHANGED <<events, uuids>>
    /\ UNCHANGED <<clock, receipts, specialists, evidence, tombstones,
                   turnSequence>>

\* Mutant: a turn that another path closed can still be bound.
CanCommitUnbound(t, s, expected) ==
    /\ Exists(t) /\ runs[t].session = s
    /\ runs[t].binding = 0 /\ runs[t].revision = expected

\* Mutant: the evidence revision is not compared.
CanCommitBlindly(t, s, expected) ==
    OpenIn(t, s) /\ runs[t].binding = 0 /\ ~runs[t].ended

\* The checks of commit_terminal_finalization that lead to "committed".
CanCommitTerminal(t, s, expected) ==
    /\ OpenIn(t, s)
    /\ runs[t].binding = 0
    /\ ~runs[t].ended
    /\ runs[t].revision = expected

\* outcome "committed": the event is inserted and the run closed and bound.
CommitTerminalFinalization(t, s, h, status, expected) ==
    /\ CanCommitTerminal(t, s, expected)
    /\ Issue
    /\ AddEvent(t, "terminal", h, status)
    /\ runs' = [runs EXCEPT ![t] =
           [Bump(ClosedRow(t, status), 1) EXCEPT !.binding = Fresh]]
    /\ specialists' = Expired({t})
    /\ UNCHANGED <<clock, receipts, evidence, tombstones, turnSequence>>

\* Mutant: a closed turn replays to any response with its status.
IsStatusReplay(t, s, h, status) ==
    /\ Exists(t) /\ runs[t].session = s /\ runs[t].ended
    /\ runs[t].status = status

\* outcome "replay": the stored terminal event is exactly this response.
IsTerminalReplay(t, s, h, status) ==
    /\ Exists(t) /\ runs[t].session = s /\ runs[t].ended
    /\ runs[t].status = status
    /\ \E e \in EventsOf(t) : /\ e.id = runs[t].binding
                              /\ e.hash = h /\ e.status = status

\* get_authoritative_finalization: the event bound to the run, if consistent.
AuthoritativeEvents(t) ==
    {e \in EventsOf(t) : /\ Exists(t) /\ runs[t].ended
                         /\ e.id = runs[t].binding
                         /\ e.status = runs[t].status}

\* Mutant: the turns retention deleted are not counted as later turns.
SurvivingAuthority(s, h) ==
    {t \in Traces :
        /\ Exists(t) /\ runs[t].session = s
        /\ \A u \in Traces : Exists(u) /\ runs[u].session = s
                                => runs[u].seq <= runs[t].seq
        /\ \E e \in AuthoritativeEvents(t) : e.hash = h}

\* _find_authoritative_trace_by_hash: the traces it can return (one at most).
AuthoritativeTraces(s, h) ==
    {t \in Traces :
        /\ Exists(t) /\ runs[t].session = s
        /\ \A u \in Traces : Exists(u) /\ runs[u].session = s
                                => runs[u].seq <= runs[t].seq
        /\ \A x \in tombstones : x.session = s => x.seq < runs[t].seq
        /\ \E e \in AuthoritativeEvents(t) : e.hash = h}

\* resolve_pending_internal_retry: t is the session's only open turn and has
\* an unresolved continuation.
PendingRetry(t, s) ==
    /\ OpenIn(t, s) /\ ~runs[t].ended
    /\ \E e \in EventsOf(t) : e.action = "continue"
    /\ \A u \in Traces \ {t} : ~(OpenIn(u, s) /\ ~runs[u].ended)

-----------------------------------------------------------------------------
(* Unbound closes (evidence.py) and retention (maintenance.py)             *)

\* close_turn_evidence.
CloseTurnEvidence(t, s, status) ==
    /\ OpenIn(t, s)
    /\ CloseRuns({t}, status)
    /\ UNCHANGED <<clock, events, receipts, evidence, tombstones,
                   turnSequence, uuids>>

\* Mutant: any unbound run is completed, whatever closed it.
CompleteUnbound(t, status) ==
    /\ Exists(t) /\ runs[t].binding = 0
    /\ CloseRuns({t}, status)
    /\ UNCHANGED <<clock, events, receipts, evidence, tombstones,
                   turnSequence, uuids>>

\* complete_run and fail_canary_run close an open run that is not bound.
CompleteRun(t, status) ==
    /\ Open(t) /\ runs[t].binding = 0
    /\ CloseRuns({t}, status)
    /\ UNCHANGED <<clock, events, receipts, evidence, tombstones,
                   turnSequence, uuids>>

\* fail_canary_runs_for_request closes every open run of the request at once.
FailCanaryRuns(q) ==
    LET matched == {t \in Traces : Open(t) /\ runs[t].binding = 0
                                   /\ runs[t].request = q}
    IN  /\ matched # {}
        /\ CloseRuns(matched, "canary_failed")
        /\ UNCHANGED <<clock, events, receipts, evidence, tombstones,
                       turnSequence, uuids>>

\* Open runs idle since before the policy cutoff and for a whole day.
Stale(cutoff) ==
    {t \in Traces : /\ Open(t)
                    /\ runs[t].activity < cutoff
                    /\ runs[t].activity < clock - MinInactivity}

\* Mutant: bound terminal events are swept like any other.
UnsweptEvents(swept) == {e \in events : e.trace \notin swept}

\* Rows of finalization_events the sweep keeps: those of turns it does not
\* cover, and every event a run is bound to.
KeptEvents(swept) ==
    {e \in events : e.trace \notin swept
                    \/ \E t \in Traces : e.id = runs[t].binding}

\* trim_runtime_tables: retire stale open runs, delete old rows of closed
\* turns, then delete (with its bound event) and tombstone every old run
\* that has no row left.  swept and failed are the closed turns whose rows
\* resp. failure receipt, old those whose run the retention window covers.
TrimRuntimeTables(cutoff, swept, failed, old) ==
    LET stale == Stale(cutoff)
        closed == {t \in Traces : Closed(t)} \cup stale
        kept == KeptEvents(swept)
        emptied(t) ==
            /\ t \in swept \/ (evidence[t] = {} /\ specialists[t] = {})
            /\ t \in failed \/ t \notin receipts
            /\ \A e \in kept : e.trace = t => e.id = runs[t].binding
        purged == {t \in old : emptied(t)}
    IN  /\ swept \cup failed \cup old \subseteq closed
        /\ stale \cup swept \cup failed \cup old # {}
        /\ runs' = [t \in Traces |->
               IF t \in purged THEN Absent
               ELSE IF t \in stale
                    THEN [runs[t] EXCEPT !.status = "retention_expired",
                                         !.ended = TRUE]
               ELSE runs[t]]
        /\ specialists' = [t \in Traces |->
               IF t \in swept THEN {} ELSE Expired(stale)[t]]
        /\ evidence' = [t \in Traces |-> IF t \in swept THEN {} ELSE evidence[t]]
        /\ receipts' = receipts \ failed
        /\ events' = {e \in kept : e.trace \notin purged}
        /\ tombstones' = tombstones \cup
               {[trace |-> t, session |-> runs[t].session, seq |-> runs[t].seq]
                   : t \in purged}
        /\ UNCHANGED <<clock, turnSequence, uuids>>
-----------------------------------------------------------------------------
Tokens == 0 .. uuids

PreflightNext(t, s) ==
    \/ \E q \in Requests \cup {""} : CreateRun(t, s, q)
    \/ ReserveSessionTurn(t, s)
    \/ \E live \in BOOLEAN : RecordEvidence(t, s, live)
    \/ \E q \in Requests, resv \in Tokens :
          \/ StartAttempt(t, s, q, resv)
          \/ RecoverAttempt(t, s, q, resv)
          \/ ReuseAttempt(t, s, q, resv)
    \/ \E token \in Tokens :
          \/ \E direct \in BOOLEAN : MarkPreflightReady(t, s, token, direct)
          \/ ReplayPreflightReady(t, s, token)
          \/ FailPreflightAttempt(t, s, token)
          \/ \E status \in {"preflight_skipped", "preflight_failed"} :
                AbandonPreflightReservation(t, s, token, status)

FinalizationNext(t, s) ==
    \/ RecordFinalization(t)
    \/ \E h \in Hashes, retry \in BOOLEAN : ClaimContinuation(t, s, h, retry)
    \/ \E h \in Hashes, status \in BoundStatuses, stale \in {0, 1} :
          CommitTerminalFinalization(t, s, h, status,
                                     runs[t].revision - stale)
    \/ CloseTurnEvidence(t, s, "failed")
    \/ CompleteRun(t, "completed")

RetentionNext ==
    \/ \E q \in Requests : FailCanaryRuns(q)
    \/ \E cutoff \in {0, clock}, swept, failed, old \in SUBSET Traces :
          TrimRuntimeTables(cutoff, swept, failed, old)

Next ==
    \/ Tick
    \/ \E t \in Traces, s \in Sessions :
          PreflightNext(t, s) \/ FinalizationNext(t, s)
    \/ RetentionNext

Spec == Init /\ [][Next]_storeVars

-----------------------------------------------------------------------------
(* What the Store promises                                                 *)

TypeOK ==
    /\ clock \in Nat /\ turnSequence \in Nat /\ uuids \in Nat
    /\ runs \in [Traces -> Run]
    /\ events \subseteq Event
    /\ receipts \subseteq Traces
    /\ specialists \in [Traces -> SUBSET {"live", "expired"}]
    /\ evidence \in [Traces -> SUBSET Nat]
    /\ tombstones \subseteq Tombstone

\* A turn is bound to a terminal event exactly when that event exists, the
\* bound turn is closed with the event's own status, and no turn has a second
\* terminal event: close_turn_evidence, the canary cleanup and the failed
\* preflight close runs too, but none of them can coexist with a binding.
TerminalBindingExact ==
    /\ \A t \in Traces : runs[t].binding # 0 =>
          \E e \in EventsOf(t) : /\ e.id = runs[t].binding
                                 /\ e.action = "terminal"
                                 /\ e.status = runs[t].status
    /\ \A e \in events : e.action = "terminal" => runs[e.trace].binding = e.id

\* get_completion_evidence_snapshot raises "open Agency turn has inconsistent
\* terminal state" when this fails: no open turn has ended or is bound.
OpenTurnConsistent ==
    \A t \in Traces : Open(t) => ~runs[t].ended /\ runs[t].binding = 0

\* A tombstoned trace id is never used again, and a deleted run leaves no row
\* behind that a later run of the same trace could inherit.
NoResurrection ==
    \A t \in Traces :
        /\ Retired(t) => ~Exists(t)
        /\ ~Exists(t) => /\ EventsOf(t) = {} /\ evidence[t] = {}
                         /\ specialists[t] = {} /\ t \notin receipts

\* No two turns, deleted ones included, share a turn sequence, so "the latest
\* turn of the session" is unambiguous across retention.
SequencesDistinct ==
    /\ \A t, u \in Traces : Exists(t) /\ Exists(u) /\ runs[t].seq = runs[u].seq
                               => t = u
    /\ \A t \in Traces, x \in tombstones : Exists(t) => runs[t].seq # x.seq
    /\ \A x, y \in tombstones : x.seq = y.seq => x = y

\* A turn keeps its trace id and its sequence for itself, whatever retention has
\* deleted and however late a callback comes.
TurnsAreDistinct == NoResurrection /\ SequencesDistinct

\* A host prompt rotates its session: of the turns a host reserved in one
\* session, at most one is open, so a Stop hook without a turn id can find it.
UniqueReservedTurn ==
    \A t, u \in Traces :
        /\ Open(t) /\ runs[t].reservation # 0
        /\ Open(u) /\ runs[u].reservation # 0
        /\ runs[t].session = runs[u].session
        => t = u

\* While a turn is open, all its correlated rows were recorded under its
\* current attempt or before any attempt: a recovered attempt starts from an
\* empty turn and never inherits what the expired owner left.
EvidenceOfCurrentAttempt ==
    \A t \in Traces : Open(t) => evidence[t] \subseteq {0, runs[t].attempt}

\* An open ready turn shows the recipe of the attempt that owns it, together
\* with that attempt's routing decision; an open turn that is not ready shows
\* no recipe at all.
ReadyIsOwners ==
    \A t \in Traces : Open(t) =>
        IF runs[t].pstate = "ready"
        THEN /\ runs[t].attempt # 0 /\ runs[t].result = runs[t].attempt
             /\ runs[t].attempt \in evidence[t]
        ELSE runs[t].result = 0

\* Nothing of an expired attempt shows in the turn that another attempt has
\* taken over, neither among the evidence that a recovery deletes nor as its
\* recipe.
AttemptIsolated == EvidenceOfCurrentAttempt /\ ReadyIsOwners

\* A preflight failure receipt always explains a turn that failed preflight
\* and that nobody accepted, whatever was racing with the failure.
FailureReceiptTruth ==
    \A t \in receipts :
        runs[t].status = "preflight_failed" /\ runs[t].binding = 0

\* However finalization, rotation, failure, retirement, abandonment and
\* complete_run race for the close of a turn, its row, its finalization events
\* and its failure receipt tell one outcome.
OutcomeConsistent ==
    TerminalBindingExact /\ OpenTurnConsistent /\ FailureReceiptTruth

\* At most one hashed continuation of a turn is ever claimed.
ClaimedOnce ==
    \A t \in Traces : \A e, f \in Claims(t) : e = f

\* Stop callbacks that are lost, late or delivered twice: the session shows
\* one open reserved turn, and one continuation of it is claimed.
StopMeetsOneTurn == UniqueReservedTurn /\ ClaimedOnce

\* reserve_session_turn documents that create_run promotes the reservation: an
\* active turn is past the reserved state, so its attempt can still begin.
ReservationIsPromoted ==
    \A t \in Traces : runs[t].status = "active" => runs[t].pstate # "reserved"

\* The outcome of a closed turn is never rewritten: until retention deletes
\* and tombstones it, its status, binding, session and sequence stay.
TerminalIsForever ==
    [][\A t \in Traces : Closed(t) =>
          \/ ~Exists(t)' /\ Retired(t)'
          \/ /\ runs'[t].status = runs[t].status
             /\ runs'[t].binding = runs[t].binding
             /\ runs'[t].session = runs[t].session
             /\ runs'[t].seq = runs[t].seq]_storeVars

\* Once an attempt has published a recipe, the turn keeps that attempt and
\* that recipe until it closes: waiting callers read them by token.
ReadyIsStable ==
    [][\A t \in Traces : Open(t) /\ runs[t].pstate = "ready" /\ Open(t)' =>
          /\ runs'[t].pstate = "ready"
          /\ runs'[t].attempt = runs[t].attempt
          /\ runs'[t].result = runs[t].result]_storeVars

\* Every change of what a completion snapshot reads of an open turn advances
\* its evidence revision: the compare-and-swap of a terminal finalization on
\* that revision rests on it (the triggers fire on inserts and updates only,
\* yet the rows of an expired attempt are deleted).
ChangeAdvancesRevision ==
    [][\A t \in Traces : Open(t) /\ Exists(t)' =>
          \/ /\ evidence'[t] = evidence[t]
             /\ specialists'[t] = specialists[t]
             /\ EventsOf(t)' = EventsOf(t)
             /\ runs'[t].status = runs[t].status
             /\ runs'[t].pstate = runs[t].pstate
             /\ runs'[t].attempt = runs[t].attempt
          \/ runs'[t].revision > runs[t].revision
          \/ runs'[t].status = "retention_expired"]_storeVars

\* Retention never closes a turn whose preflight attempt still holds an
\* unexpired lease.
RetentionSparesLeases ==
    [][\A t \in Traces :
          Open(t) /\ runs[t].pstate = "in_progress"
                  /\ runs'[t].status = "retention_expired"
              => LeaseExpired(runs[t])]_storeVars

\* A caller that owns or awaits an attempt is not deprived of it: a published
\* recipe stays, and retention waits for the lease.
AttemptsAreKept == ReadyIsStable /\ RetentionSparesLeases

\* A closed turn that is not (or no longer) the authoritative answer for a
\* response never becomes it, even when retention deletes later turns.
AuthorityNeverReturns ==
    [][\A t \in Traces, s \in Sessions, h \in Hashes :
          Closed(t) /\ t \notin AuthoritativeTraces(s, h) =>
              t \notin AuthoritativeTraces(s, h)']_storeVars
-----------------------------------------------------------------------------
(* TurnStore implements TurnAuthority.                                     *)

PhaseOf(t) ==
    CASE Retired(t) -> "retired"
      [] ~Retired(t) /\ ~Exists(t) -> "unseen"
      [] ~Retired(t) /\ Open(t) -> "open"
      [] OTHER -> "closed"

\* The response the lookups report for a turn.
AnswerOf(t) ==
    IF AuthoritativeEvents(t) = {} THEN ""
    ELSE (CHOOSE e \in AuthoritativeEvents(t) : TRUE).hash

Authority == INSTANCE TurnAuthority
    WITH turn <- [t \in Traces |-> [phase |-> PhaseOf(t), answer |-> AnswerOf(t)]]

\* Every caller of get_authoritative_finalization sees one turn with one
\* outcome: at most one verified response, fixed when the turn closes,
\* reported until the turn is forgotten and never afterwards.
ImplementsAuthority == Authority!Spec
=============================================================================
