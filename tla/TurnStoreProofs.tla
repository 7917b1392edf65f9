-------------------------- MODULE TurnStoreProofs --------------------------
(* Theorems about TurnStore, for every value of its constants. *)
EXTENDS TurnStore, TLAPS

-----------------------------------------------------------------------------
(* Type correctness                                                        *)

\* Every turn sequence handed out so far is at most the counter.
SequenceBound ==
    /\ \A t \in Traces : runs[t].seq <= turnSequence
    /\ \A x \in tombstones : x.seq <= turnSequence

\* The sequence trigger therefore hands out the successor of the counter.
LEMMA NextSequenceIsSuccessor ==
    ASSUME TypeOK, SequenceBound
    PROVE  NextSequence = turnSequence + 1
<1> DEFINE S == {turnSequence} \cup {runs[t].seq : t \in Traces}
                               \cup {x.seq : x \in tombstones}
<1>1. turnSequence \in Nat /\ turnSequence \in S
  BY DEF TypeOK
<1>2. \A y \in S : y \in Nat /\ y <= turnSequence
  <2>1. \A t \in Traces : runs[t].seq \in Nat
    BY DEF TypeOK, Run
  <2>2. \A x \in tombstones : x.seq \in Nat
    BY DEF TypeOK, Tombstone
  <2> QED
    BY <1>1, <2>1, <2>2 DEF SequenceBound
<1>3. \A x \in S : (\A y \in S : x >= y) => x = turnSequence
  <2> SUFFICES ASSUME NEW x \in S, \A y \in S : x >= y
               PROVE  x = turnSequence
    OBVIOUS
  <2>1. x >= turnSequence /\ x <= turnSequence /\ x \in Nat
    BY <1>1, <1>2
  <2> QED
    BY <1>1, <2>1
<1>4. \A y \in S : turnSequence >= y
  BY <1>1, <1>2
<1>5. Max(S) = turnSequence
  BY <1>1, <1>3, <1>4 DEF Max
<1> QED
  BY <1>1, <1>5 DEF NextSequence

LEMMA Successor == \A n \in Nat : n + 1 \in Nat
OBVIOUS

LEMMA AbsentType == Absent \in Run
BY DEF Absent, Run, OpenStatuses, ClosedStatuses, BoundStatuses

\* What the row helpers return.
LEMMA BumpType ==
    ASSUME NEW r \in Run, NEW n \in Nat, clock \in Nat
    PROVE  Bump(r, n) \in Run
<1> DEFINE k == r.revision + n
<1>1. r.revision \in Nat
  BY DEF Run
<1>2. k \in Nat
  BY <1>1
<1> HIDE DEF k
<1>3. [r EXCEPT !.revision = k, !.activity = clock] \in Run
  BY <1>2 DEF Run
<1> QED
  BY <1>3 DEF Bump, k

LEMMA TouchType ==
    ASSUME NEW r \in Run, clock \in Nat
    PROVE  Touch(r) \in Run
BY DEF Touch, Run

LEMMA NewRunType ==
    ASSUME TypeOK, SequenceBound, NEW s \in Sessions,
           NEW status \in OpenStatuses
    PROVE  NewRun(s, status) \in Run
<1>1. clock \in Nat /\ NextSequence \in Nat
  BY NextSequenceIsSuccessor DEF TypeOK
<1> QED
  BY <1>1, AbsentType DEF NewRun, Run

LEMMA AttemptType ==
    ASSUME TypeOK, NEW r \in Run, NEW q \in Requests
    PROVE  Attempt(r, q) \in Run
<1>1. clock + LeaseLength \in Nat /\ Fresh \in Nat
  BY BoundsAssumption DEF TypeOK, Fresh
<1> DEFINE lease == clock + LeaseLength
<1> HIDE DEF lease
<1>2. [r EXCEPT !.status = "active", !.pstate = "in_progress", !.attempt = Fresh,
              !.lease = lease, !.request = q, !.result = 0] \in Run
  BY <1>1 DEF Run, OpenStatuses, lease
<1> QED
  BY <1>2 DEF Attempt, lease

\* A row stays a row when an UPDATE ends it, makes it ready, or abandons it.
LEMMA EndedType ==
    ASSUME NEW r \in Run, NEW status \in ClosedStatuses
    PROVE  [r EXCEPT !.status = status, !.ended = TRUE] \in Run
BY DEF Run

LEMMA ReadyType ==
    ASSUME NEW r \in Run, NEW token \in Nat
    PROVE  [r EXCEPT !.pstate = "ready", !.lease = 0, !.result = token] \in Run
BY DEF Run

LEMMA ResetType ==
    ASSUME NEW r \in Run
    PROVE  [r EXCEPT !.pstate = "", !.attempt = 0, !.lease = 0, !.result = 0]
              \in Run
BY DEF Run

LEMMA AbandonedType ==
    ASSUME NEW r \in Run, NEW status \in ClosedStatuses
    PROVE  [r EXCEPT !.status = status, !.ended = TRUE,
                     !.reservation = 0, !.pstate = "", !.lease = 0] \in Run
BY DEF Run

LEMMA ClosedRowType ==
    ASSUME TypeOK, NEW t \in Traces, NEW status \in ClosedStatuses
    PROVE  ClosedRow(t, status) \in Run
<1> DEFINE r == [runs[t] EXCEPT !.status = status, !.ended = TRUE]
<1>1. r \in Run
  <2>1. runs[t] \in Run
    BY DEF TypeOK
  <2> QED
    BY <2>1, EndedType
<1>2. Bump(r, 1) \in Run /\ Bump(r, 2) \in Run
  <2> HIDE DEF r
  <2> QED
    BY <1>1, BumpType DEF TypeOK
<1> QED
  BY <1>2 DEF ClosedRow

LEMMA ExpiredType ==
    ASSUME TypeOK, NEW T
    PROVE  Expired(T) \in [Traces -> SUBSET {"live", "expired"}]
BY DEF Expired, TypeOK

LEMMA CloseRunsType ==
    ASSUME TypeOK, NEW T, NEW status \in ClosedStatuses, CloseRuns(T, status)
    PROVE  /\ runs' \in [Traces -> Run]
           /\ specialists' \in [Traces -> SUBSET {"live", "expired"}]
<1>1. \A t \in Traces : runs[t] \in Run /\ ClosedRow(t, status) \in Run
  BY ClosedRowType DEF TypeOK
<1> QED
  BY <1>1, ExpiredType DEF CloseRuns

TypeInv == TypeOK /\ SequenceBound

LEMMA CreateRunType ==
    ASSUME TypeInv, NEW t \in Traces, NEW s \in Sessions,
           NEW q \in Requests \cup {""}, CreateRun(t, s, q)
    PROVE  TypeOK'
<1> USE DEF TypeInv
<1>1. clock \in Nat /\ runs[t] \in Run
  BY DEF TypeOK
<1>2. CASE Exists(t)
  <2>1. Touch(runs[t]) \in Run
    BY <1>1, TouchType
  <2> DEFINE r == [runs[t] EXCEPT !.status = "active", !.request = q]
  <2>2. r \in Run
    BY <1>1 DEF Run, OpenStatuses
  <2>3. Bump(r, 1) \in Run
    <3> HIDE DEF r
    <3> QED
      BY <1>1, <2>2, BumpType
  <2>4. runs' \in [Traces -> Run]
    BY <1>2, <2>1, <2>3 DEF CreateRun, TypeOK
  <2> QED
    BY <1>2, <2>4 DEF CreateRun, TypeOK
<1>3. CASE ~Exists(t)
  <2>1. NewRun(s, "active") \in Run
    BY NewRunType DEF OpenStatuses
  <2>2. [NewRun(s, "active") EXCEPT !.request = q] \in Run
    BY <2>1 DEF Run
  <2>3. runs' \in [Traces -> Run]
    BY <1>3, <2>2 DEF CreateRun, TypeOK
  <2>4. turnSequence' = turnSequence + 1
    BY <1>3, NextSequenceIsSuccessor DEF CreateRun
  <2>5. turnSequence' \in Nat
    BY <2>4, Successor DEF TypeOK
  <2> QED
    BY <1>3, <2>3, <2>5 DEF CreateRun, TypeOK
<1> QED
  BY <1>2, <1>3

LEMMA ReserveSessionTurnType ==
    ASSUME TypeInv, NEW t \in Traces, NEW s \in Sessions,
           ReserveSessionTurn(t, s)
    PROVE  TypeOK'
<1> USE DEF TypeInv
<1> DEFINE new == [NewRun(s, "evidence_only")
                   EXCEPT !.reservation = Fresh, !.pstate = "reserved"]
           reserved == IF Exists(t) THEN Touch(runs[t]) ELSE new
<1>1. clock \in Nat /\ uuids \in Nat /\ Fresh \in Nat
  BY DEF TypeOK, Fresh
<1>2. Touch(runs[t]) \in Run
  BY <1>1, TouchType DEF TypeOK
<1>3. new \in Run
  <2>1. NewRun(s, "evidence_only") \in Run
    BY NewRunType DEF OpenStatuses
  <2> QED
    BY <1>1, <2>1 DEF Run
<1>4. reserved \in Run
  BY <1>2, <1>3
<1>5. \A u \in Traces : ClosedRow(u, "abandoned") \in Run /\ runs[u] \in Run
  BY ClosedRowType DEF TypeOK, ClosedStatuses
<1>6. runs' \in [Traces -> Run]
  <2> HIDE DEF reserved
  <2>1. runs' = [u \in Traces |-> IF u = t THEN reserved
                                  ELSE IF u \in OtherOpen(t, s)
                                       THEN ClosedRow(u, "abandoned")
                                  ELSE runs[u]]
    BY DEF ReserveSessionTurn, reserved
  <2> QED
    BY <1>4, <1>5, <2>1
<1>7. specialists' \in [Traces -> SUBSET {"live", "expired"}]
  BY ExpiredType DEF ReserveSessionTurn
<1>8. uuids' \in Nat /\ turnSequence' \in Nat
  BY <1>1, NextSequenceIsSuccessor DEF ReserveSessionTurn, Issue, TypeOK
<1> QED
  BY <1>6, <1>7, <1>8 DEF ReserveSessionTurn, TypeOK

LEMMA RecordEvidenceType ==
    ASSUME TypeInv, NEW t \in Traces, NEW s \in Sessions,
           NEW live \in BOOLEAN, RecordEvidence(t, s, live)
    PROVE  TypeOK'
<1> USE DEF TypeInv
<1> DEFINE r == IF Exists(t) THEN runs[t] ELSE NewRun(s, "evidence_only")
<1>1. clock \in Nat /\ runs[t] \in Run /\ runs[t].attempt \in Nat
  BY DEF TypeOK, Run
<1>2. r \in Run
  BY <1>1, NewRunType DEF OpenStatuses
<1>3. Bump(r, 1) \in Run
  <2> HIDE DEF r
  <2> QED
    BY <1>1, <1>2, BumpType
<1>4. runs' = [runs EXCEPT ![t] = Bump(r, 1)]
  BY DEF RecordEvidence, TypeOK
<1>5. runs' \in [Traces -> Run]
  <2> HIDE DEF r
  <2> QED
    BY <1>3, <1>4 DEF TypeOK
<1>6. turnSequence' \in Nat
  BY NextSequenceIsSuccessor DEF RecordEvidence, TypeOK
<1>7. /\ evidence' \in [Traces -> SUBSET Nat]
      /\ specialists' \in [Traces -> SUBSET {"live", "expired"}]
  BY <1>1 DEF RecordEvidence, TypeOK
<1> QED
  BY <1>5, <1>6, <1>7 DEF RecordEvidence, TypeOK

LEMMA StartAttemptType ==
    ASSUME TypeInv, NEW t \in Traces, NEW s \in Sessions, NEW q \in Requests,
           NEW resv, StartAttempt(t, s, q, resv)
    PROVE  TypeOK'
<1> USE DEF TypeInv
<1>1. clock \in Nat /\ uuids \in Nat /\ runs[t] \in Run
  BY DEF TypeOK
<1>2. NewRun(s, "active") \in Run
  BY NewRunType DEF OpenStatuses
<1>3. Attempt(runs[t], q) \in Run /\ Attempt(NewRun(s, "active"), q) \in Run
  BY <1>1, <1>2, AttemptType
<1>4. Bump(Attempt(runs[t], q), 1) \in Run
  BY <1>1, <1>3, BumpType
<1>5. runs' \in [Traces -> Run]
  BY <1>3, <1>4 DEF StartAttempt, TypeOK
<1>6. uuids' \in Nat /\ turnSequence' \in Nat
  BY <1>1, NextSequenceIsSuccessor DEF StartAttempt, Issue, TypeOK
<1> QED
  BY <1>5, <1>6 DEF StartAttempt, TypeOK

LEMMA RecoverAttemptType ==
    ASSUME TypeInv, NEW t \in Traces, NEW s \in Sessions, NEW q \in Requests,
           NEW resv, RecoverAttempt(t, s, q, resv)
    PROVE  TypeOK'
<1> USE DEF TypeInv
<1>1. clock \in Nat /\ uuids \in Nat /\ runs[t] \in Run
  BY DEF TypeOK
<1>2. Bump(Attempt(runs[t], q), 1) \in Run
  BY <1>1, AttemptType, BumpType
<1>3. runs' \in [Traces -> Run] /\ uuids' \in Nat
  BY <1>1, <1>2 DEF RecoverAttempt, Issue, TypeOK
<1>4. /\ events' \subseteq Event
      /\ evidence' \in [Traces -> SUBSET Nat]
      /\ specialists' \in [Traces -> SUBSET {"live", "expired"}]
  BY DEF RecoverAttempt, DiscardAttemptRows, TypeOK
<1> QED
  BY <1>3, <1>4 DEF RecoverAttempt, TypeOK

\* A step that only stamps the activity of one run.
LEMMA TouchStepType ==
    ASSUME TypeInv, NEW t \in Traces,
           runs' = [runs EXCEPT ![t] = Touch(@)],
           UNCHANGED <<clock, events, receipts, specialists, evidence,
                       tombstones, turnSequence, uuids>>
    PROVE  TypeOK'
<1>1. Touch(runs[t]) \in Run
  BY TouchType DEF TypeInv, TypeOK
<1>2. runs' \in [Traces -> Run]
  BY <1>1 DEF TypeInv, TypeOK
<1> QED
  BY <1>2 DEF TypeInv, TypeOK

LEMMA MarkPreflightReadyType ==
    ASSUME TypeInv, NEW t \in Traces, NEW s \in Sessions, NEW token \in Nat,
           NEW direct \in BOOLEAN, MarkPreflightReady(t, s, token, direct)
    PROVE  TypeOK'
<1> USE DEF TypeInv
<1> DEFINE r == [runs[t] EXCEPT !.pstate = "ready", !.lease = 0,
                                !.result = token]
<1>1. clock \in Nat /\ r \in Run
  <2>1. clock \in Nat /\ runs[t] \in Run
    BY DEF TypeOK
  <2> QED
    BY <2>1, ReadyType
<1>2. runs' = [runs EXCEPT ![t] = Bump(r, IF direct THEN 3 ELSE 2)]
  BY DEF MarkPreflightReady, TypeOK
<1>3. runs' \in [Traces -> Run]
  <2> HIDE DEF r
  <2>1. Bump(r, IF direct THEN 3 ELSE 2) \in Run
    BY <1>1, BumpType
  <2> QED
    BY <1>2, <2>1 DEF TypeOK
<1>4. /\ evidence' \in [Traces -> SUBSET Nat]
      /\ specialists' \in [Traces -> SUBSET {"live", "expired"}]
  BY DEF MarkPreflightReady, TypeOK
<1> QED
  BY <1>3, <1>4 DEF MarkPreflightReady, TypeOK

LEMMA FailPreflightAttemptType ==
    ASSUME TypeInv, NEW t \in Traces, NEW s \in Sessions, NEW token,
           FailPreflightAttempt(t, s, token)
    PROVE  TypeOK'
<1> USE DEF TypeInv
<1> DEFINE r == [ClosedRow(t, "preflight_failed")
                 EXCEPT !.pstate = "", !.attempt = 0, !.lease = 0, !.result = 0]
<1>1. ClosedRow(t, "preflight_failed") \in Run
  BY ClosedRowType DEF ClosedStatuses
<1>2. clock \in Nat /\ r \in Run
  BY <1>1, ResetType DEF TypeOK
<1>3. runs' = [runs EXCEPT ![t] = Bump(r, 1)]
  BY DEF FailPreflightAttempt, TypeOK
<1>4. runs' \in [Traces -> Run]
  <2> HIDE DEF r
  <2>1. Bump(r, 1) \in Run
    BY <1>2, BumpType
  <2> QED
    BY <1>3, <2>1 DEF TypeOK
<1>5. specialists' \in [Traces -> SUBSET {"live", "expired"}]
  BY ExpiredType DEF FailPreflightAttempt
<1> QED
  BY <1>4, <1>5 DEF FailPreflightAttempt, TypeOK

LEMMA AbandonPreflightReservationType ==
    ASSUME TypeInv, NEW t \in Traces, NEW s \in Sessions, NEW resv,
           NEW status \in {"preflight_skipped", "preflight_failed"},
           AbandonPreflightReservation(t, s, resv, status)
    PROVE  TypeOK'
<1> USE DEF TypeInv
<1> DEFINE r == [runs[t] EXCEPT !.status = status, !.ended = TRUE,
                                !.reservation = 0, !.pstate = "", !.lease = 0]
           n == IF status = "preflight_failed" THEN 2 ELSE 1
<1>1. status \in ClosedStatuses
  BY DEF ClosedStatuses
<1>2. clock \in Nat /\ r \in Run
  <2>1. clock \in Nat /\ runs[t] \in Run
    BY DEF TypeOK
  <2> QED
    BY <1>1, <2>1, AbandonedType
<1>3. runs' = [runs EXCEPT ![t] = Bump(r, n)]
  BY DEF AbandonPreflightReservation, TypeOK
<1>4. runs' \in [Traces -> Run]
  <2> HIDE DEF r
  <2>1. Bump(r, n) \in Run
    BY <1>2, BumpType
  <2> QED
    BY <1>3, <2>1 DEF TypeOK
<1> QED
  BY <1>4 DEF AbandonPreflightReservation, TypeOK

LEMMA AddEventType ==
    ASSUME TypeOK, NEW t \in Traces, NEW action \in {"continue", "terminal"},
           NEW h \in Hashes \cup {""}, NEW status \in BoundStatuses \cup {""},
           AddEvent(t, action, h, status)
    PROVE  events' \subseteq Event
<1> DEFINE e == [id |-> Fresh, trace |-> t, action |-> action,
                 hash |-> h, status |-> status]
<1>1. uuids \in Nat
  BY DEF TypeOK
<1>2. Fresh \in Nat
  BY <1>1, Successor DEF Fresh
<1>3. e \in Event
  BY <1>2 DEF Event
<1>4. events' = events \cup {e}
  BY DEF AddEvent
<1> QED
  BY <1>3, <1>4 DEF TypeOK

LEMMA RecordFinalizationType ==
    ASSUME TypeInv, NEW t \in Traces, RecordFinalization(t)
    PROVE  TypeOK'
<1> USE DEF TypeInv
<1>1. clock \in Nat /\ uuids \in Nat /\ runs[t] \in Run
  BY DEF TypeOK
<1>2. Bump(runs[t], 1) \in Run
  BY <1>1, BumpType
<1>3. events' \subseteq Event
  BY AddEventType DEF RecordFinalization
<1>4. runs' \in [Traces -> Run]
  BY <1>2 DEF RecordFinalization, TypeOK
<1>5. uuids' \in Nat
  BY <1>1, Successor DEF RecordFinalization, Issue
<1> QED
  BY <1>3, <1>4, <1>5 DEF RecordFinalization, TypeOK

LEMMA ClaimContinuationType ==
    ASSUME TypeInv, NEW t \in Traces, NEW s \in Sessions, NEW h \in Hashes,
           NEW retry \in BOOLEAN, ClaimContinuation(t, s, h, retry)
    PROVE  TypeOK'
<1> USE DEF TypeInv
<1>1. clock \in Nat /\ uuids \in Nat /\ runs[t] \in Run
  BY DEF TypeOK
<1>2. Bump(runs[t], 1) \in Run /\ Touch(runs[t]) \in Run
  BY <1>1, BumpType, TouchType
<1>3. events' \subseteq Event
  BY AddEventType DEF ClaimContinuation, TypeOK
<1>4. runs' \in [Traces -> Run]
  BY <1>2 DEF ClaimContinuation, TypeOK
<1>5. uuids' \in Nat
  BY <1>1, Successor DEF ClaimContinuation, Issue
<1> QED
  BY <1>3, <1>4, <1>5 DEF ClaimContinuation, TypeOK

LEMMA CommitTerminalType ==
    ASSUME TypeInv, NEW t \in Traces, NEW s \in Sessions, NEW h \in Hashes,
           NEW status \in BoundStatuses, NEW expected,
           CommitTerminalFinalization(t, s, h, status, expected)
    PROVE  TypeOK'
<1> USE DEF TypeInv
<1> DEFINE r == Bump(ClosedRow(t, status), 1)
<1>1. clock \in Nat /\ uuids \in Nat /\ Fresh \in Nat
  BY DEF TypeOK, Fresh
<1>2. r \in Run
  <2>1. ClosedRow(t, status) \in Run
    BY ClosedRowType DEF ClosedStatuses
  <2> QED
    BY <1>1, <2>1, BumpType
<1>3. runs' = [runs EXCEPT ![t] = [r EXCEPT !.binding = Fresh]]
  BY DEF CommitTerminalFinalization
<1>4. runs' \in [Traces -> Run]
  <2> HIDE DEF r
  <2>1. [r EXCEPT !.binding = Fresh] \in Run
    BY <1>1, <1>2 DEF Run
  <2> QED
    BY <1>3, <2>1 DEF TypeOK
<1>5. events' \subseteq Event
  BY AddEventType DEF CommitTerminalFinalization
<1>6. specialists' \in [Traces -> SUBSET {"live", "expired"}] /\ uuids' \in Nat
  BY <1>1, ExpiredType DEF CommitTerminalFinalization, Issue
<1> QED
  BY <1>4, <1>5, <1>6 DEF CommitTerminalFinalization, TypeOK

LEMMA TrimRuntimeTablesType ==
    ASSUME TypeInv, NEW cutoff, NEW swept \in SUBSET Traces,
           NEW failed \in SUBSET Traces, NEW old \in SUBSET Traces,
           TrimRuntimeTables(cutoff, swept, failed, old)
    PROVE  TypeOK'
<1> USE DEF TypeInv
<1>1. \A t \in Traces :
          /\ runs[t] \in Run
          /\ [runs[t] EXCEPT !.status = "retention_expired", !.ended = TRUE]
                \in Run
  <2> SUFFICES ASSUME NEW t \in Traces
               PROVE  /\ runs[t] \in Run
                      /\ [runs[t] EXCEPT !.status = "retention_expired",
                                         !.ended = TRUE] \in Run
    OBVIOUS
  <2>1. runs[t] \in Run
    BY DEF TypeOK
  <2> QED
    BY <2>1 DEF Run, ClosedStatuses
<1>2. runs' \in [Traces -> Run]
  BY <1>1, AbsentType DEF TrimRuntimeTables
<1>3. /\ specialists' \in [Traces -> SUBSET {"live", "expired"}]
      /\ evidence' \in [Traces -> SUBSET Nat]
      /\ receipts' \subseteq Traces
  BY ExpiredType DEF TrimRuntimeTables, TypeOK
<1>4. events' \subseteq Event
  BY DEF TrimRuntimeTables, KeptEvents, TypeOK
<1>5. \A t \in Traces :
          [trace |-> t, session |-> runs[t].session, seq |-> runs[t].seq]
              \in Tombstone
  BY DEF TypeOK, Run, Tombstone
<1>6. tombstones' \subseteq Tombstone
  BY <1>5 DEF TrimRuntimeTables, TypeOK
<1> QED
  BY <1>2, <1>3, <1>4, <1>6 DEF TrimRuntimeTables, TypeOK

-----------------------------------------------------------------------------
(* The shapes of a step                                                    *)

\* What a step may do to one turn.
SameTurn(t) ==
    /\ runs'[t].session = runs[t].session
    /\ runs'[t].seq = runs[t].seq
    /\ runs'[t].binding = runs[t].binding

StaysOpen(t) ==
    Open(t) /\ Open(t)' /\ SameTurn(t) /\ runs'[t].ended = runs[t].ended

Opens(t) ==
    /\ ~Exists(t) /\ ~Retired(t) /\ Open(t)'
    /\ ~runs'[t].ended /\ runs'[t].binding = 0
    /\ runs'[t].seq = turnSequence + 1 /\ turnSequence' = turnSequence + 1

GivesUp(t) == Open(t) /\ Closed(t)' /\ SameTurn(t)

\* Every step but a terminal commit and a retention sweep moves each turn
\* along "absent, open, closed" and binds none; it opens at most one.
RowsOrdinary ==
    /\ \A t \in Traces : \/ runs'[t] = runs[t]
                         \/ StaysOpen(t) \/ Opens(t) \/ GivesUp(t)
    /\ \A t, u \in Traces : Opens(t) /\ Opens(u) => t = u
    /\ turnSequence' \in {turnSequence, turnSequence + 1}

RestOrdinary ==
    /\ tombstones' = tombstones
    /\ \A e \in events' \ events :
          e.action # "terminal" /\ e.id # 0 /\ Open(e.trace)
    /\ \A e \in events \ events' : Open(e.trace)
    /\ \A t \in receipts' \ receipts :
          GivesUp(t) /\ runs'[t].status = "preflight_failed"
    /\ \A t \in Traces : ~Exists(t) /\ ~Exists(t)' =>
          evidence'[t] = evidence[t] /\ specialists'[t] = specialists[t]

Ordinary == RowsOrdinary /\ RestOrdinary

\* The identity of a turn within its row, and what the row helpers do to it.
SameIdentity(r, q) ==
    /\ r.session = q.session /\ r.seq = q.seq /\ r.binding = q.binding

LEMMA BumpKeeps ==
    ASSUME NEW r \in Run, NEW n
    PROVE  /\ SameIdentity(Bump(r, n), r)
           /\ Bump(r, n).status = r.status /\ Bump(r, n).ended = r.ended
BY DEF Bump, Run, SameIdentity

LEMMA TouchKeeps ==
    ASSUME NEW r \in Run
    PROVE  /\ SameIdentity(Touch(r), r)
           /\ Touch(r).status = r.status /\ Touch(r).ended = r.ended
BY DEF Touch, Run, SameIdentity

LEMMA AttemptKeeps ==
    ASSUME NEW r \in Run, NEW q
    PROVE  /\ SameIdentity(Attempt(r, q), r)
           /\ Attempt(r, q).status = "active" /\ Attempt(r, q).ended = r.ended
BY DEF Attempt, Run, SameIdentity

LEMMA ClosedRowIs ==
    ASSUME TypeOK, NEW t \in Traces, NEW status \in ClosedStatuses
    PROVE  /\ SameIdentity(ClosedRow(t, status), runs[t])
           /\ ClosedRow(t, status).status = status
           /\ ClosedRow(t, status).ended = TRUE
<1> DEFINE r == [runs[t] EXCEPT !.status = status, !.ended = TRUE]
<1>1. runs[t] \in Run
  BY DEF TypeOK
<1>2. r \in Run /\ SameIdentity(r, runs[t]) /\ r.status = status /\ r.ended = TRUE
  BY <1>1 DEF Run, SameIdentity
<1>3. \A n : /\ SameIdentity(Bump(r, n), r)
             /\ Bump(r, n).status = r.status /\ Bump(r, n).ended = r.ended
  <2> HIDE DEF r
  <2> QED
    BY <1>2, BumpKeeps
<1> QED
  BY <1>2, <1>3 DEF ClosedRow, SameIdentity

\* The open and the closed statuses are apart.
LEMMA StatusesApart ==
    /\ \A x \in OpenStatuses : x \notin ClosedStatuses /\ x # "absent"
    /\ \A x \in ClosedStatuses : x \notin OpenStatuses /\ x # "absent"
BY DEF OpenStatuses, ClosedStatuses, BoundStatuses

\* A step that rewrites the row of one open turn, or inserts one.
LEMMA OneRowShape ==
    ASSUME TypeInv, NEW t \in Traces, NEW r \in Run,
           runs' = [runs EXCEPT ![t] = r],
           r.status \in OpenStatuses,
           \/ /\ Open(t) /\ SameIdentity(r, runs[t]) /\ r.ended = runs[t].ended
              /\ turnSequence' = turnSequence
           \/ /\ ~Exists(t) /\ ~Retired(t)
              /\ r.ended = FALSE /\ r.binding = 0 /\ r.seq = NextSequence
              /\ turnSequence' = NextSequence
    PROVE  RowsOrdinary /\ Exists(t)'
<1>1. runs'[t] = r /\ \A u \in Traces \ {t} : runs'[u] = runs[u]
  BY DEF TypeInv, TypeOK
<1>2. NextSequence = turnSequence + 1
  BY NextSequenceIsSuccessor DEF TypeInv
<1>3. Open(t)' /\ Exists(t)'
  BY <1>1, StatusesApart DEF Open, Exists
<1>4. StaysOpen(t) \/ Opens(t)
  BY <1>1, <1>2, <1>3 DEF StaysOpen, Opens, SameTurn, SameIdentity
<1>5. \A u \in Traces : Opens(u) => u = t
  BY <1>1 DEF Opens, Open, Exists, OpenStatuses
<1> QED
  BY <1>1, <1>2, <1>3, <1>4, <1>5 DEF RowsOrdinary

\* A step that closes a set of open turns and opens none.
LEMMA ClosingShape ==
    ASSUME TypeInv, NEW T \in SUBSET Traces, turnSequence' = turnSequence,
           \A t \in Traces \ T : runs'[t] = runs[t],
           \A t \in T : /\ Open(t) /\ SameIdentity(runs'[t], runs[t])
                        /\ runs'[t].status \in ClosedStatuses
    PROVE  RowsOrdinary /\ \A t \in T : GivesUp(t)
<1>1. \A t \in T : GivesUp(t)
  BY StatusesApart
     DEF GivesUp, Open, Closed, Exists, SameTurn, SameIdentity
<1>2. \A t \in Traces : ~Opens(t)
  BY <1>1 DEF Opens, Open, Exists, OpenStatuses, GivesUp
<1> QED
  BY <1>1, <1>2 DEF RowsOrdinary

LEMMA OneRowCloses ==
    ASSUME TypeInv, NEW t \in Traces, NEW r, runs' = [runs EXCEPT ![t] = r],
           Open(t), SameIdentity(r, runs[t]), r.status \in ClosedStatuses,
           turnSequence' = turnSequence
    PROVE  RowsOrdinary /\ GivesUp(t) /\ runs'[t] = r
<1> DEFINE T == {t}
<1>1. runs'[t] = r /\ \A u \in Traces \ T : runs'[u] = runs[u]
  BY DEF TypeInv, TypeOK
<1>2. \A u \in T : /\ Open(u) /\ SameIdentity(runs'[u], runs[u])
                   /\ runs'[u].status \in ClosedStatuses
  BY <1>1
<1>3. T \in SUBSET Traces /\ t \in T
  OBVIOUS
<1> HIDE DEF T
<1>4. RowsOrdinary /\ \A u \in T : GivesUp(u)
  BY <1>1, <1>2, <1>3, ClosingShape
<1> QED
  BY <1>1, <1>3, <1>4

LEMMA TickShape ==
    ASSUME TypeInv, Tick
    PROVE  Ordinary
<1>1. \A t \in Traces : ~Opens(t)
  BY DEF Opens, Tick, Open, Exists, OpenStatuses
<1> QED
  BY <1>1 DEF Tick, Ordinary, RowsOrdinary, RestOrdinary

LEMMA CreateRunShape ==
    ASSUME TypeInv, NEW t \in Traces, NEW s \in Sessions,
           NEW q \in Requests \cup {""}, CreateRun(t, s, q)
    PROVE  Ordinary
<1> USE DEF TypeInv
<1>1. runs[t] \in Run /\ clock \in Nat
  BY DEF TypeOK
<1>2. CASE Exists(t)
  <2>1. Open(t) /\ turnSequence' = turnSequence
    BY <1>2 DEF CreateRun, Usable, OpenIn
  <2>2. CASE runs[t].status = "active"
    <3>1. runs' = [runs EXCEPT ![t] = Touch(runs[t])]
      BY <1>2, <2>2 DEF CreateRun
    <3> QED
      BY <1>1, <2>1, <2>2, <3>1, TouchType, TouchKeeps, OneRowShape
         DEF CreateRun, Ordinary, RestOrdinary, OpenStatuses
  <2>3. CASE runs[t].status # "active"
    <3> DEFINE r == [runs[t] EXCEPT !.status = "active", !.request = q]
    <3>1. /\ r \in Run /\ SameIdentity(r, runs[t])
          /\ r.status = "active" /\ r.ended = runs[t].ended
      BY <1>1 DEF Run, OpenStatuses, SameIdentity
    <3>2. runs' = [runs EXCEPT ![t] = Bump(r, 1)]
      BY <1>2, <2>3 DEF CreateRun
    <3> HIDE DEF r
    <3>3. /\ Bump(r, 1) \in Run /\ SameIdentity(Bump(r, 1), runs[t])
          /\ Bump(r, 1).status \in OpenStatuses
          /\ Bump(r, 1).ended = runs[t].ended
      BY <1>1, <3>1, BumpType, BumpKeeps DEF SameIdentity, OpenStatuses
    <3> QED
      BY <2>1, <3>2, <3>3, OneRowShape
         DEF CreateRun, Ordinary, RestOrdinary
  <2> QED
    BY <2>2, <2>3
<1>3. CASE ~Exists(t)
  <2> DEFINE new == NewRun(s, "active")
             r == [new EXCEPT !.request = q]
  <2>1. new \in Run
    BY NewRunType DEF OpenStatuses
  <2>2. /\ new.status = "active" /\ new.ended = FALSE
        /\ new.binding = 0 /\ new.seq = NextSequence
    BY DEF NewRun, Absent
  <2>3. /\ ~Retired(t) /\ runs' = [runs EXCEPT ![t] = r]
        /\ turnSequence' = NextSequence
    BY <1>3 DEF CreateRun, Usable
  <2> HIDE DEF new
  <2>4. r \in Run
    BY <2>1 DEF Run
  <2>5. /\ r.status = new.status /\ r.ended = new.ended
        /\ r.binding = new.binding /\ r.seq = new.seq
    BY <2>1 DEF Run
  <2>6. /\ r.status \in OpenStatuses /\ r.ended = FALSE
        /\ r.binding = 0 /\ r.seq = NextSequence
    BY <2>2, <2>5 DEF OpenStatuses
  <2> HIDE DEF r
  <2> QED
    BY <1>3, <2>3, <2>4, <2>6, OneRowShape DEF CreateRun, Ordinary, RestOrdinary
<1> QED
  BY <1>2, <1>3

LEMMA ReserveSessionTurnShape ==
    ASSUME TypeInv, NEW t \in Traces, NEW s \in Sessions,
           ReserveSessionTurn(t, s)
    PROVE  Ordinary
<1> USE DEF TypeInv
<1> DEFINE T == OtherOpen(t, s)
           new == [NewRun(s, "evidence_only")
                   EXCEPT !.reservation = Fresh, !.pstate = "reserved"]
           reserved == IF Exists(t) THEN Touch(runs[t]) ELSE new
<1>1. runs' = [u \in Traces |-> IF u = t THEN reserved
                                ELSE IF u \in T THEN ClosedRow(u, "abandoned")
                                ELSE runs[u]]
  BY DEF ReserveSessionTurn
<1>2. T \subseteq Traces \ {t} /\ \A u \in T : Open(u)
  BY DEF OtherOpen, OpenIn
<1>3. \A u \in T : /\ SameIdentity(runs'[u], runs[u])
                   /\ runs'[u].status = "abandoned"
  <2> HIDE DEF T, reserved
  <2> SUFFICES ASSUME NEW u \in T
               PROVE  /\ SameIdentity(runs'[u], runs[u])
                      /\ runs'[u].status = "abandoned"
    OBVIOUS
  <2>1. u \in Traces /\ runs'[u] = ClosedRow(u, "abandoned")
    BY <1>1, <1>2
  <2> QED
    BY <2>1, ClosedRowIs DEF ClosedStatuses
<1>4. \A u \in T : GivesUp(u)
  BY <1>2, <1>3 DEF GivesUp, Open, Closed, Exists, SameTurn, SameIdentity,
                    OpenStatuses
<1>5. \A u \in Traces \ ({t} \cup T) : runs'[u] = runs[u]
  BY <1>1
<1>6. runs'[t] = reserved
  BY <1>1
<1>7. (StaysOpen(t) \/ Opens(t)) /\ Exists(t)'
  <2>1. CASE Exists(t)
    <3>1. Open(t) /\ runs[t] \in Run
      BY <2>1 DEF ReserveSessionTurn, Usable, OpenIn, TypeOK
    <3>2. /\ SameIdentity(runs'[t], runs[t])
          /\ runs'[t].status = runs[t].status /\ runs'[t].ended = runs[t].ended
      BY <1>6, <2>1, <3>1, TouchKeeps
    <3> QED
      BY <3>1, <3>2, StatusesApart
         DEF StaysOpen, SameTurn, SameIdentity, Open, Exists
  <2>2. CASE ~Exists(t)
    <3> DEFINE base == NewRun(s, "evidence_only")
    <3>1. base \in Run
      BY NewRunType DEF OpenStatuses
    <3>2. /\ new.status = "evidence_only" /\ new.ended = FALSE
          /\ new.binding = 0 /\ new.seq = NextSequence
      <4>1. /\ base.status = "evidence_only" /\ base.ended = FALSE
            /\ base.binding = 0 /\ base.seq = NextSequence
        BY DEF NewRun, Absent
      <4>2. new = [base EXCEPT !.reservation = Fresh, !.pstate = "reserved"]
        OBVIOUS
      <4> HIDE DEF base, new
      <4> QED
        BY <3>1, <4>1, <4>2 DEF Run
    <3>3. runs'[t] = new /\ ~Retired(t) /\ turnSequence' = turnSequence + 1
      BY <1>6, <2>2, NextSequenceIsSuccessor DEF ReserveSessionTurn, Usable
    <3> HIDE DEF new
    <3> QED
      BY <2>2, <3>2, <3>3, NextSequenceIsSuccessor
         DEF Opens, Open, Exists, OpenStatuses
  <2> QED
    BY <2>1, <2>2
<1>8. \A u \in Traces : Opens(u) => u = t
  BY <1>4, <1>5 DEF Opens, GivesUp, Open, Exists, OpenStatuses
<1>9. RowsOrdinary
  <2>1. turnSequence' \in {turnSequence, turnSequence + 1}
    BY NextSequenceIsSuccessor DEF ReserveSessionTurn
  <2> HIDE DEF T, reserved
  <2> QED
    BY <1>2, <1>4, <1>5, <1>7, <1>8, <2>1 DEF RowsOrdinary
<1>10. \A u \in Traces : ~Exists(u) => specialists'[u] = specialists[u]
  BY <1>2 DEF ReserveSessionTurn, Expired, Open, Exists, OpenStatuses, TypeOK
<1> QED
  BY <1>9, <1>10 DEF ReserveSessionTurn, Ordinary, RestOrdinary

LEMMA RecordEvidenceShape ==
    ASSUME TypeInv, NEW t \in Traces, NEW s \in Sessions,
           NEW live \in BOOLEAN, RecordEvidence(t, s, live)
    PROVE  Ordinary
<1> USE DEF TypeInv
<1> DEFINE q == IF Exists(t) THEN runs[t] ELSE NewRun(s, "evidence_only")
           r == Bump(q, 1)
<1>1. clock \in Nat /\ q \in Run
  BY NewRunType DEF TypeOK, OpenStatuses
<1>2. /\ r \in Run /\ SameIdentity(r, q)
      /\ r.status = q.status /\ r.ended = q.ended
  <2> HIDE DEF q
  <2> QED
    BY <1>1, BumpType, BumpKeeps
<1>3. runs' = [runs EXCEPT ![t] = r]
  BY DEF RecordEvidence, TypeOK
<1>4. RowsOrdinary /\ Exists(t)'
  <2>1. CASE Exists(t)
    <3>1. q = runs[t] /\ Open(t) /\ turnSequence' = turnSequence
      BY <2>1 DEF RecordEvidence, Usable, OpenIn
    <3> HIDE DEF q, r
    <3> QED
      BY <1>2, <1>3, <3>1, OneRowShape DEF Open
  <2>2. CASE ~Exists(t)
    <3>1. q = NewRun(s, "evidence_only") /\ ~Retired(t)
          /\ turnSequence' = NextSequence
      BY <2>2 DEF RecordEvidence, Usable
    <3>2. /\ q.status = "evidence_only" /\ q.ended = FALSE
          /\ q.binding = 0 /\ q.seq = NextSequence
      <4> HIDE DEF q
      <4> QED
        BY <3>1 DEF NewRun, Absent
    <3> HIDE DEF q, r
    <3> QED
      BY <1>2, <1>3, <2>2, <3>1, <3>2, OneRowShape
         DEF SameIdentity, OpenStatuses
  <2> QED
    BY <2>1, <2>2
<1>5. \A u \in Traces : ~Exists(u)' =>
          evidence'[u] = evidence[u] /\ specialists'[u] = specialists[u]
  BY <1>4 DEF RecordEvidence, TypeOK
<1> QED
  BY <1>4, <1>5 DEF RecordEvidence, Ordinary, RestOrdinary

LEMMA StartAttemptShape ==
    ASSUME TypeInv, NEW t \in Traces, NEW s \in Sessions, NEW q \in Requests,
           NEW resv, StartAttempt(t, s, q, resv)
    PROVE  Ordinary
<1> USE DEF TypeInv
<1>1. clock \in Nat /\ runs[t] \in Run
  BY DEF TypeOK
<1>2. CASE Exists(t)
  <2> DEFINE a == Attempt(runs[t], q)
             r == Bump(a, 1)
  <2>1. Open(t) /\ turnSequence' = turnSequence
    BY <1>2 DEF StartAttempt, CanInsert, CanPromote, CanStart, Admits, OpenIn
  <2>2. runs' = [runs EXCEPT ![t] = r]
    BY <1>2 DEF StartAttempt
  <2>3. /\ a \in Run /\ SameIdentity(a, runs[t])
        /\ a.status = "active" /\ a.ended = runs[t].ended
    BY <1>1, AttemptType, AttemptKeeps
  <2> HIDE DEF a
  <2>4. /\ r \in Run /\ SameIdentity(r, runs[t])
        /\ r.status \in OpenStatuses /\ r.ended = runs[t].ended
    BY <1>1, <2>3, BumpType, BumpKeeps DEF SameIdentity, OpenStatuses
  <2> HIDE DEF r
  <2> QED
    BY <2>1, <2>2, <2>4, OneRowShape
       DEF StartAttempt, Ordinary, RestOrdinary
<1>3. CASE ~Exists(t)
  <2> DEFINE new == NewRun(s, "active")
             r == Attempt(new, q)
  <2>1. ~Retired(t) /\ turnSequence' = NextSequence
    BY <1>3, StatusesApart
       DEF StartAttempt, CanInsert, CanPromote, CanStart, Admits, OpenIn, Open,
           Exists
  <2>2. runs' = [runs EXCEPT ![t] = r]
    BY <1>3 DEF StartAttempt
  <2>3. /\ new \in Run /\ new.ended = FALSE
        /\ new.binding = 0 /\ new.seq = NextSequence
    <3>1. new \in Run
      BY NewRunType DEF OpenStatuses
    <3> QED
      BY <3>1 DEF NewRun, Absent
  <2> HIDE DEF new
  <2>4. /\ r \in Run /\ r.status \in OpenStatuses /\ r.ended = FALSE
        /\ r.binding = 0 /\ r.seq = NextSequence
    BY <2>3, AttemptType, AttemptKeeps DEF SameIdentity, OpenStatuses
  <2> HIDE DEF r
  <2> QED
    BY <1>3, <2>1, <2>2, <2>4, OneRowShape
       DEF StartAttempt, Ordinary, RestOrdinary
<1> QED
  BY <1>2, <1>3

LEMMA RecoverAttemptShape ==
    ASSUME TypeInv, NEW t \in Traces, NEW s \in Sessions, NEW q \in Requests,
           NEW resv, RecoverAttempt(t, s, q, resv)
    PROVE  Ordinary
<1> USE DEF TypeInv
<1> DEFINE a == Attempt(runs[t], q)
           r == Bump(a, 1)
<1>1. clock \in Nat /\ runs[t] \in Run
  BY DEF TypeOK
<1>2. Open(t) /\ turnSequence' = turnSequence
  BY DEF RecoverAttempt, CanRecover, Shares, Admits, OpenIn
<1>3. runs' = [runs EXCEPT ![t] = r]
  BY DEF RecoverAttempt
<1>4. /\ a \in Run /\ SameIdentity(a, runs[t])
      /\ a.status = "active" /\ a.ended = runs[t].ended
  BY <1>1, AttemptType, AttemptKeeps
<1>5. /\ r \in Run /\ SameIdentity(r, runs[t])
      /\ r.status \in OpenStatuses /\ r.ended = runs[t].ended
  <2> HIDE DEF a
  <2> QED
    BY <1>1, <1>4, BumpType, BumpKeeps DEF SameIdentity, OpenStatuses
<1>6. RowsOrdinary
  <2> HIDE DEF r
  <2> QED
    BY <1>2, <1>3, <1>5, OneRowShape
<1>7. \A e \in events \ events' : e.trace = t
  BY DEF RecoverAttempt, DiscardAttemptRows, EventsOf
<1>8. \A u \in Traces : ~Exists(u) =>
          evidence'[u] = evidence[u] /\ specialists'[u] = specialists[u]
  BY <1>2, StatusesApart
     DEF RecoverAttempt, DiscardAttemptRows, Open, Exists, TypeOK
<1> QED
  BY <1>2, <1>6, <1>7, <1>8
     DEF RecoverAttempt, DiscardAttemptRows, Ordinary, RestOrdinary

\* A step that only stamps the activity of one open run.
LEMMA TouchStepShape ==
    ASSUME TypeInv, NEW t \in Traces, Open(t),
           runs' = [runs EXCEPT ![t] = Touch(@)],
           UNCHANGED <<clock, events, receipts, specialists, evidence,
                       tombstones, turnSequence, uuids>>
    PROVE  Ordinary
<1>1. runs[t] \in Run /\ clock \in Nat
  BY DEF TypeInv, TypeOK
<1>2. Touch(runs[t]).status \in OpenStatuses
  BY <1>1, TouchKeeps DEF Open
<1>3. RowsOrdinary
  BY <1>1, <1>2, TouchType, TouchKeeps, OneRowShape
<1> QED
  BY <1>3 DEF Ordinary, RestOrdinary

LEMMA MarkPreflightReadyShape ==
    ASSUME TypeInv, NEW t \in Traces, NEW s \in Sessions, NEW token \in Nat,
           NEW direct \in BOOLEAN, MarkPreflightReady(t, s, token, direct)
    PROVE  Ordinary
<1> USE DEF TypeInv
<1> DEFINE ready == [runs[t] EXCEPT !.pstate = "ready", !.lease = 0,
                                    !.result = token]
           n == IF direct THEN 3 ELSE 2
           r == Bump(ready, n)
<1>1. clock \in Nat /\ runs[t] \in Run /\ n \in Nat
  BY DEF TypeOK
<1>2. runs[t].status = "active" /\ Open(t) /\ turnSequence' = turnSequence
  BY DEF MarkPreflightReady, CanCommitReady, Owns, Open, OpenStatuses
<1>3. runs' = [runs EXCEPT ![t] = r]
  BY DEF MarkPreflightReady
<1>4. /\ ready \in Run /\ SameIdentity(ready, runs[t])
      /\ ready.status = "active" /\ ready.ended = runs[t].ended
  BY <1>1, <1>2 DEF Run, SameIdentity
<1>5. /\ r \in Run /\ SameIdentity(r, runs[t])
      /\ r.status \in OpenStatuses /\ r.ended = runs[t].ended
  <2> HIDE DEF ready, n
  <2> QED
    BY <1>1, <1>4, BumpType, BumpKeeps DEF SameIdentity, OpenStatuses
<1>6. RowsOrdinary
  <2> HIDE DEF r
  <2> QED
    BY <1>2, <1>3, <1>5, OneRowShape
<1>7. \A u \in Traces : ~Exists(u) =>
          evidence'[u] = evidence[u] /\ specialists'[u] = specialists[u]
  BY <1>2, StatusesApart DEF MarkPreflightReady, Open, Exists, TypeOK
<1> QED
  BY <1>6, <1>7 DEF MarkPreflightReady, Ordinary, RestOrdinary

LEMMA FailPreflightAttemptShape ==
    ASSUME TypeInv, NEW t \in Traces, NEW s \in Sessions, NEW token,
           FailPreflightAttempt(t, s, token)
    PROVE  Ordinary
<1> USE DEF TypeInv
<1> DEFINE closed == ClosedRow(t, "preflight_failed")
           failed == [closed EXCEPT !.pstate = "", !.attempt = 0, !.lease = 0,
                                    !.result = 0]
           r == Bump(failed, 1)
<1>1. clock \in Nat /\ closed \in Run
  BY ClosedRowType DEF TypeOK, ClosedStatuses
<1>2. Open(t) /\ turnSequence' = turnSequence
  BY DEF FailPreflightAttempt, CanFail, Owns, Open, OpenStatuses
<1>3. SameIdentity(closed, runs[t]) /\ closed.status = "preflight_failed"
  BY ClosedRowIs DEF ClosedStatuses
<1>4. /\ failed \in Run /\ SameIdentity(failed, closed)
      /\ failed.status = closed.status
  <2> HIDE DEF closed
  <2> QED
    BY <1>1 DEF Run, SameIdentity
<1>5. SameIdentity(r, failed) /\ r.status = failed.status
  <2> HIDE DEF failed
  <2> QED
    BY <1>4, BumpKeeps
<1>6. runs' = [runs EXCEPT ![t] = r]
  BY DEF FailPreflightAttempt
<1>7. SameIdentity(r, runs[t]) /\ r.status = "preflight_failed"
  <2> HIDE DEF r, failed, closed
  <2> QED
    BY <1>3, <1>4, <1>5 DEF SameIdentity
<1>8. RowsOrdinary /\ GivesUp(t) /\ runs'[t].status = "preflight_failed"
  <2> HIDE DEF r
  <2> QED
    BY <1>2, <1>7, <1>6, OneRowCloses DEF ClosedStatuses
<1>9. \A u \in Traces : ~Exists(u) => specialists'[u] = specialists[u]
  BY <1>2, StatusesApart
     DEF FailPreflightAttempt, Expired, Open, Exists, TypeOK
<1> QED
  BY <1>8, <1>9 DEF FailPreflightAttempt, Ordinary, RestOrdinary

LEMMA AbandonPreflightReservationShape ==
    ASSUME TypeInv, NEW t \in Traces, NEW s \in Sessions, NEW resv,
           NEW status \in {"preflight_skipped", "preflight_failed"},
           AbandonPreflightReservation(t, s, resv, status)
    PROVE  Ordinary
<1> USE DEF TypeInv
<1> DEFINE closed == [runs[t] EXCEPT !.status = status, !.ended = TRUE,
                                     !.reservation = 0, !.pstate = "",
                                     !.lease = 0]
           n == IF status = "preflight_failed" THEN 2 ELSE 1
           r == Bump(closed, n)
<1>1. runs[t] \in Run /\ status \in ClosedStatuses
  BY DEF TypeOK, ClosedStatuses
<1>2. Open(t) /\ turnSequence' = turnSequence
  BY DEF AbandonPreflightReservation, CanAbandon, OpenIn
<1>3. /\ closed \in Run /\ SameIdentity(closed, runs[t])
      /\ closed.status = status
  BY <1>1 DEF Run, SameIdentity
<1>4. SameIdentity(r, closed) /\ r.status = closed.status
  <2> HIDE DEF closed, n
  <2> QED
    BY <1>3, BumpKeeps
<1>5. runs' = [runs EXCEPT ![t] = r]
  BY DEF AbandonPreflightReservation
<1>6. SameIdentity(r, runs[t]) /\ r.status = status
  <2> HIDE DEF r, closed
  <2> QED
    BY <1>3, <1>4 DEF SameIdentity
<1>7. RowsOrdinary /\ GivesUp(t) /\ runs'[t].status = status
  <2> HIDE DEF r
  <2> QED
    BY <1>1, <1>2, <1>6, <1>5, OneRowCloses
<1>8. receipts' \ receipts # {} => status = "preflight_failed"
  BY DEF AbandonPreflightReservation
<1>9. receipts' \subseteq receipts \cup {t}
  BY DEF AbandonPreflightReservation
<1> QED
  BY <1>7, <1>8, <1>9 DEF AbandonPreflightReservation, Ordinary, RestOrdinary

\* A step that rewrites the row of an open turn and may add one event of it
\* that is not terminal.
LEMMA ContinueShape ==
    ASSUME TypeInv, NEW t \in Traces, NEW h, NEW status, Open(t),
           \/ runs' = [runs EXCEPT ![t] = Bump(@, 1)]
           \/ runs' = [runs EXCEPT ![t] = Touch(@)],
           AddEvent(t, "continue", h, status) \/ UNCHANGED events,
           UNCHANGED <<clock, receipts, specialists, evidence, tombstones,
                       turnSequence>>
    PROVE  Ordinary
<1> USE DEF TypeInv
<1>1. clock \in Nat /\ runs[t] \in Run
  BY DEF TypeOK
<1> DEFINE Keeps(r) == /\ r \in Run /\ SameIdentity(r, runs[t])
                       /\ r.status \in OpenStatuses /\ r.ended = runs[t].ended
<1>2. Keeps(Bump(runs[t], 1))
  BY <1>1, BumpType, BumpKeeps DEF Open
<1>3. Keeps(Touch(runs[t]))
  BY <1>1, TouchType, TouchKeeps DEF Open
<1>4. RowsOrdinary
  <2>1. PICK r : Keeps(r) /\ runs' = [runs EXCEPT ![t] = r]
    BY <1>2, <1>3
  <2> QED
    BY <2>1, OneRowShape
<1>5. \A e \in events' \ events :
          e.action # "terminal" /\ e.id # 0 /\ Open(e.trace)
  <2>1. Fresh # 0
    BY DEF Fresh, TypeOK
  <2> QED
    BY <2>1 DEF AddEvent
<1>6. events \ events' = {}
  BY DEF AddEvent
<1> QED
  BY <1>4, <1>5, <1>6 DEF Ordinary, RestOrdinary

\* The unbound closes.
LEMMA CloseRunsShape ==
    ASSUME TypeInv, NEW T \in SUBSET Traces, \A t \in T : Open(t),
           NEW status \in ClosedStatuses, CloseRuns(T, status),
           UNCHANGED <<clock, events, receipts, evidence, tombstones,
                       turnSequence, uuids>>
    PROVE  Ordinary /\ TypeOK'
<1> USE DEF TypeInv
<1>1. /\ \A t \in Traces \ T : runs'[t] = runs[t]
      /\ \A t \in T : runs'[t] = ClosedRow(t, status)
  BY DEF CloseRuns
<1>2. \A t \in T : /\ SameIdentity(runs'[t], runs[t])
                   /\ runs'[t].status \in ClosedStatuses
  BY <1>1, ClosedRowIs
<1>3. RowsOrdinary
  BY <1>1, <1>2, ClosingShape
<1>4. \A t \in Traces : ~Exists(t) => specialists'[t] = specialists[t]
  BY StatusesApart DEF CloseRuns, Expired, Open, Exists, TypeOK
<1>5. TypeOK'
  BY CloseRunsType DEF TypeOK
<1> QED
  BY <1>3, <1>4, <1>5 DEF Ordinary, RestOrdinary

-----------------------------------------------------------------------------
(* Every step has a shape and keeps the types                              *)

Commits ==
    \E t \in Traces, s \in Sessions, h \in Hashes, status \in BoundStatuses,
       expected \in Int : CommitTerminalFinalization(t, s, h, status, expected)

Trims ==
    \E cutoff \in Nat, swept, failed, old \in SUBSET Traces :
        TrimRuntimeTables(cutoff, swept, failed, old)

LEMMA PreflightStep ==
    ASSUME TypeInv, NEW t \in Traces, NEW s \in Sessions, PreflightNext(t, s)
    PROVE  TypeOK' /\ Ordinary
<1>1. Tokens \subseteq Nat
  BY DEF Tokens, TypeInv, TypeOK
<1>2. CASE \E q \in Requests \cup {""} : CreateRun(t, s, q)
  BY <1>2, CreateRunType, CreateRunShape
<1>3. CASE ReserveSessionTurn(t, s)
  BY <1>3, ReserveSessionTurnType, ReserveSessionTurnShape
<1>4. CASE \E live \in BOOLEAN : RecordEvidence(t, s, live)
  BY <1>4, RecordEvidenceType, RecordEvidenceShape
<1>5. ASSUME NEW q \in Requests, NEW resv \in Tokens,
             \/ StartAttempt(t, s, q, resv) \/ RecoverAttempt(t, s, q, resv)
             \/ ReuseAttempt(t, s, q, resv)
      PROVE  TypeOK' /\ Ordinary
  <2>1. CASE StartAttempt(t, s, q, resv)
    BY <2>1, StartAttemptType, StartAttemptShape
  <2>2. CASE RecoverAttempt(t, s, q, resv)
    BY <2>2, RecoverAttemptType, RecoverAttemptShape
  <2>3. CASE ReuseAttempt(t, s, q, resv)
    <3>1. Open(t)
      BY <2>3 DEF ReuseAttempt, CanReuseReady, CanReuse, Shares, Admits, OpenIn
    <3> QED
      BY <2>3, <3>1, TouchStepType, TouchStepShape DEF ReuseAttempt
  <2> QED
    BY <1>5, <2>1, <2>2, <2>3
<1>6. ASSUME NEW token \in Tokens, NEW direct \in BOOLEAN,
             MarkPreflightReady(t, s, token, direct)
      PROVE  TypeOK' /\ Ordinary
  BY <1>1, <1>6, MarkPreflightReadyType, MarkPreflightReadyShape
<1>7. ASSUME NEW token \in Tokens, ReplayPreflightReady(t, s, token)
      PROVE  TypeOK' /\ Ordinary
  <2>1. Open(t)
    BY <1>7 DEF ReplayPreflightReady, CanReplayReady, OpenIn
  <2> QED
    BY <1>7, <2>1, TouchStepType, TouchStepShape DEF ReplayPreflightReady
<1>8. ASSUME NEW token \in Tokens, FailPreflightAttempt(t, s, token)
      PROVE  TypeOK' /\ Ordinary
  BY <1>8, FailPreflightAttemptType, FailPreflightAttemptShape
<1>9. ASSUME NEW token \in Tokens,
             NEW status \in {"preflight_skipped", "preflight_failed"},
             AbandonPreflightReservation(t, s, token, status)
      PROVE  TypeOK' /\ Ordinary
  BY <1>9, AbandonPreflightReservationType, AbandonPreflightReservationShape
<1> QED
  BY <1>2, <1>3, <1>4, <1>5, <1>6, <1>7, <1>8, <1>9 DEF PreflightNext

LEMMA FinalizationStep ==
    ASSUME TypeInv, NEW t \in Traces, NEW s \in Sessions,
           FinalizationNext(t, s)
    PROVE  TypeOK' /\ (Ordinary \/ Commits)
<1>1. CASE RecordFinalization(t)
  BY <1>1, RecordFinalizationType, ContinueShape DEF RecordFinalization
<1>2. ASSUME NEW h \in Hashes, NEW retry \in BOOLEAN,
             ClaimContinuation(t, s, h, retry)
      PROVE  TypeOK' /\ Ordinary
  BY <1>2, ClaimContinuationType, ContinueShape DEF ClaimContinuation, OpenIn
<1>3. ASSUME NEW h \in Hashes, NEW status \in BoundStatuses,
             NEW stale \in {0, 1},
             CommitTerminalFinalization(t, s, h, status, runs[t].revision - stale)
      PROVE  TypeOK' /\ Commits
  <2>1. runs[t].revision - stale \in Int
    <3>1. runs[t].revision \in Nat
      BY DEF TypeInv, TypeOK, Run
    <3> QED
      BY <3>1
  <2> QED
    BY <1>3, <2>1, CommitTerminalType DEF Commits
<1>4. CASE CloseTurnEvidence(t, s, "failed")
  <2>1. \A u \in {t} : Open(u)
    BY <1>4 DEF CloseTurnEvidence, OpenIn
  <2> QED
    BY <1>4, <2>1, CloseRunsShape DEF CloseTurnEvidence, ClosedStatuses
<1>5. CASE CompleteRun(t, "completed")
  <2>1. \A u \in {t} : Open(u)
    BY <1>5 DEF CompleteRun
  <2> QED
    BY <1>5, <2>1, CloseRunsShape DEF CompleteRun, ClosedStatuses, BoundStatuses
<1> QED
  BY <1>1, <1>2, <1>3, <1>4, <1>5 DEF FinalizationNext

LEMMA RetentionStep ==
    ASSUME TypeInv, RetentionNext
    PROVE  TypeOK' /\ (Ordinary \/ Trims)
<1>1. ASSUME NEW q \in Requests, FailCanaryRuns(q)
      PROVE  TypeOK' /\ Ordinary
  <2> DEFINE T == {t \in Traces : Open(t) /\ runs[t].binding = 0
                                          /\ runs[t].request = q}
  <2>1. /\ CloseRuns(T, "canary_failed")
        /\ UNCHANGED <<clock, events, receipts, evidence, tombstones,
                       turnSequence, uuids>>
    BY <1>1 DEF FailCanaryRuns
  <2>2. T \in SUBSET Traces /\ \A t \in T : Open(t)
    OBVIOUS
  <2> HIDE DEF T
  <2> QED
    BY <2>1, <2>2, CloseRunsShape DEF ClosedStatuses
<1>2. ASSUME NEW cutoff \in {0, clock}, NEW swept \in SUBSET Traces,
             NEW failed \in SUBSET Traces, NEW old \in SUBSET Traces,
             TrimRuntimeTables(cutoff, swept, failed, old)
      PROVE  TypeOK' /\ Trims
  <2>1. cutoff \in Nat
    BY DEF TypeInv, TypeOK
  <2> QED
    BY <1>2, <2>1, TrimRuntimeTablesType DEF Trims
<1> QED
  BY <1>1, <1>2 DEF RetentionNext

\* Every step keeps the types and is ordinary, a commit or a sweep.
LEMMA NextShape ==
    ASSUME TypeInv, Next
    PROVE  TypeOK' /\ (Ordinary \/ Commits \/ Trims)
<1>1. CASE Tick
  <2>1. TypeOK'
    BY <1>1, Successor DEF Tick, TypeInv, TypeOK
  <2> QED
    BY <1>1, <2>1, TickShape
<1>2. ASSUME NEW t \in Traces, NEW s \in Sessions,
             PreflightNext(t, s) \/ FinalizationNext(t, s)
      PROVE  TypeOK' /\ (Ordinary \/ Commits \/ Trims)
  BY <1>2, PreflightStep, FinalizationStep
<1>3. CASE RetentionNext
  BY <1>3, RetentionStep
<1> QED
  BY <1>1, <1>2, <1>3 DEF Next

-----------------------------------------------------------------------------
(* The inductive invariant                                                 *)

\* NULL is no event id.
EventIdsIssued == \A e \in events : e.id # 0

IInv ==
    /\ TypeInv
    /\ EventIdsIssued
    /\ OpenTurnConsistent
    /\ TerminalBindingExact
    /\ FailureReceiptTruth
    /\ NoResurrection
    /\ SequencesDistinct

LEMMA InitInv ==
    ASSUME Init
    PROVE  IInv
<1>1. TypeOK
  BY AbsentType DEF Init, TypeOK
<1>2. \A t \in Traces : ~Exists(t) /\ ~Open(t) /\ ~Retired(t)
  BY DEF Init, Exists, Open, Retired, Absent, OpenStatuses
<1>3. SequenceBound
  <2>1. /\ \A t \in Traces : runs[t].seq = 0
        /\ tombstones = {} /\ turnSequence = 0
    BY DEF Init, Absent
  <2> QED
    BY <2>1 DEF SequenceBound
<1>4. EventIdsIssued /\ FailureReceiptTruth
  BY DEF Init, EventIdsIssued, FailureReceiptTruth
<1>5. TerminalBindingExact
  BY DEF Init, TerminalBindingExact, Absent
<1>6. NoResurrection
  BY <1>2 DEF Init, NoResurrection, EventsOf
<1>7. OpenTurnConsistent /\ SequencesDistinct
  BY <1>2 DEF Init, OpenTurnConsistent, SequencesDistinct
<1> QED
  BY <1>1, <1>3, <1>4, <1>5, <1>6, <1>7 DEF IInv, TypeInv

\* An ordinary step.
LEMMA OrdinaryInv ==
    ASSUME IInv, TypeOK', Ordinary
    PROVE  IInv'
<1> USE DEF IInv, TypeInv, Ordinary
<1>1. \A t \in Traces : /\ runs[t] \in Run /\ runs[t].seq \in Nat
                        /\ runs'[t] \in Run /\ runs'[t].seq \in Nat
  BY DEF TypeOK, Run
<1>2. turnSequence \in Nat /\ \A t \in Traces : runs[t].seq <= turnSequence
  BY DEF TypeOK, SequenceBound
<1>3. \A x \in tombstones : x.seq \in Nat /\ x.seq <= turnSequence
  BY DEF TypeOK, SequenceBound, Tombstone
<1>4. \A e \in events' : e.trace \in Traces
  BY DEF TypeOK, Event
<1>5. SequenceBound'
  <2>1. \A t \in Traces : runs'[t].seq <= turnSequence'
    <3> SUFFICES ASSUME NEW t \in Traces
                 PROVE  runs'[t].seq <= turnSequence'
      OBVIOUS
    <3>1. CASE Opens(t)
      BY <1>1, <1>2, <3>1 DEF Opens
    <3>2. CASE ~Opens(t)
      <4>1. runs'[t].seq = runs[t].seq
        BY <3>2 DEF RowsOrdinary, StaysOpen, GivesUp, SameTurn
      <4> QED
        BY <1>1, <1>2, <4>1 DEF RowsOrdinary
    <3> QED
      BY <3>1, <3>2
  <2>2. \A x \in tombstones' : x.seq <= turnSequence'
    BY <1>2, <1>3 DEF RowsOrdinary, RestOrdinary
  <2> QED
    BY <2>1, <2>2 DEF SequenceBound
<1>6. EventIdsIssued'
  BY DEF EventIdsIssued, RestOrdinary
<1>7. OpenTurnConsistent'
  <2> SUFFICES ASSUME NEW t \in Traces, Open(t)'
               PROVE  ~runs'[t].ended /\ runs'[t].binding = 0
    BY DEF OpenTurnConsistent
  <2>1. CASE runs'[t] = runs[t]
    BY <2>1 DEF OpenTurnConsistent, Open
  <2>2. CASE StaysOpen(t)
    BY <2>2 DEF StaysOpen, SameTurn, OpenTurnConsistent
  <2>3. CASE Opens(t)
    BY <2>3 DEF Opens
  <2>4. CASE GivesUp(t)
    BY <2>4 DEF GivesUp, Closed
  <2> QED
    BY <2>1, <2>2, <2>3, <2>4 DEF RowsOrdinary
<1>8. \A t \in Traces : runs'[t].binding = runs[t].binding
  <2> SUFFICES ASSUME NEW t \in Traces
               PROVE  runs'[t].binding = runs[t].binding
    OBVIOUS
  <2>1. CASE Opens(t)
    <3>1. runs[t].binding = 0
      <4> SUFFICES ASSUME runs[t].binding # 0 PROVE FALSE
        OBVIOUS
      <4>1. EventsOf(t) # {}
        BY DEF TerminalBindingExact
      <4> QED
        BY <2>1, <4>1 DEF NoResurrection, Opens
    <3> QED
      BY <2>1, <3>1 DEF Opens
  <2>2. CASE ~Opens(t)
    BY <2>2 DEF RowsOrdinary, StaysOpen, GivesUp, SameTurn
  <2> QED
    BY <2>1, <2>2
<1>9. TerminalBindingExact'
  <2>1. ASSUME NEW t \in Traces, runs'[t].binding # 0
        PROVE  \E e \in EventsOf(t)' : /\ e.id = runs'[t].binding
                                       /\ e.action = "terminal"
                                       /\ e.status = runs'[t].status
    <3>1. runs[t].binding # 0 /\ ~Open(t)
      BY <1>8, <2>1 DEF OpenTurnConsistent
    <3>2. PICK e \in EventsOf(t) : /\ e.id = runs[t].binding
                                   /\ e.action = "terminal"
                                   /\ e.status = runs[t].status
      BY <3>1 DEF TerminalBindingExact
    <3>3. e \in EventsOf(t)'
      BY <3>1, <3>2 DEF EventsOf, RestOrdinary
    <3>4. runs'[t] = runs[t]
      BY <3>1, <3>2 DEF RowsOrdinary, StaysOpen, Opens, GivesUp, NoResurrection
    <3> QED
      BY <3>2, <3>3, <3>4
  <2>2. ASSUME NEW e \in events', e.action = "terminal"
        PROVE  runs'[e.trace].binding = e.id
    <3>1. e \in events
      BY <2>2 DEF RestOrdinary
    <3> QED
      BY <1>4, <1>8, <2>2, <3>1 DEF TerminalBindingExact
  <2> QED
    BY <2>1, <2>2 DEF TerminalBindingExact
<1>10. FailureReceiptTruth'
  <2> SUFFICES ASSUME NEW t \in receipts'
               PROVE  /\ runs'[t].status = "preflight_failed"
                      /\ runs'[t].binding = 0
    BY DEF FailureReceiptTruth
  <2>1. t \in Traces
    BY DEF TypeOK
  <2>2. CASE t \in receipts
    <3>1. /\ runs[t].status = "preflight_failed" /\ runs[t].binding = 0
      BY <2>2 DEF FailureReceiptTruth
    <3>2. ~Open(t) /\ Exists(t)
      BY <3>1 DEF Open, Exists, OpenStatuses
    <3> QED
      BY <2>1, <3>1, <3>2 DEF RowsOrdinary, StaysOpen, Opens, GivesUp
  <2>3. CASE t \notin receipts
    <3>1. GivesUp(t) /\ runs'[t].status = "preflight_failed"
      BY <2>3 DEF RestOrdinary
    <3> QED
      BY <1>8, <2>1, <3>1 DEF GivesUp, OpenTurnConsistent
  <2> QED
    BY <2>2, <2>3
<1>11. NoResurrection'
  <2> SUFFICES ASSUME NEW t \in Traces
               PROVE  /\ Retired(t)' => ~Exists(t)'
                      /\ ~Exists(t)' => /\ EventsOf(t)' = {}
                                        /\ evidence'[t] = {}
                                        /\ specialists'[t] = {}
                                        /\ t \notin receipts'
    BY DEF NoResurrection
  <2>1. Retired(t)' => ~Exists(t)'
    <3> SUFFICES ASSUME Retired(t)' PROVE ~Exists(t)'
      OBVIOUS
    <3>1. Retired(t)
      BY DEF Retired, RestOrdinary
    <3>2. ~Exists(t) /\ ~Open(t)
      BY <3>1, StatusesApart DEF NoResurrection, Exists, Open
    <3> QED
      BY <3>1, <3>2 DEF RowsOrdinary, StaysOpen, Opens, GivesUp, Exists
  <2>2. ASSUME ~Exists(t)'
        PROVE  /\ EventsOf(t)' = {} /\ evidence'[t] = {}
               /\ specialists'[t] = {} /\ t \notin receipts'
    <3>1. ~Open(t)' /\ ~Closed(t)'
      BY <2>2 DEF Open, Closed, Exists, OpenStatuses
    <3>2. runs'[t] = runs[t] /\ ~Exists(t) /\ ~Open(t)
      BY <2>2, <3>1 DEF RowsOrdinary, StaysOpen, Opens, GivesUp, Exists, Open
    <3>3. evidence'[t] = {} /\ specialists'[t] = {}
      BY <2>2, <3>2 DEF RestOrdinary, NoResurrection
    <3>4. t \notin receipts'
      BY <3>2 DEF RestOrdinary, NoResurrection, GivesUp
    <3>5. EventsOf(t)' = {}
      BY <3>2 DEF RestOrdinary, NoResurrection, EventsOf
    <3> QED
      BY <3>3, <3>4, <3>5
  <2> QED
    BY <2>1, <2>2
<1>12. SequencesDistinct'
  <2>1. \A t \in Traces :
            \/ Opens(t)
            \/ runs'[t].seq = runs[t].seq /\ (Exists(t)' => Exists(t))
    BY DEF RowsOrdinary, StaysOpen, GivesUp, SameTurn, Open, Exists,
           OpenStatuses
  <2>2. \A t \in Traces : Opens(t) => runs'[t].seq = turnSequence + 1
    BY DEF Opens
  <2>3. \A t, u \in Traces : Exists(t)' /\ Exists(u)'
                                /\ runs'[t].seq = runs'[u].seq => t = u
    <3> SUFFICES ASSUME NEW t \in Traces, NEW u \in Traces, Exists(t)',
                        Exists(u)', runs'[t].seq = runs'[u].seq
                 PROVE  t = u
      OBVIOUS
    <3>1. CASE Opens(t) /\ Opens(u)
      BY <3>1 DEF RowsOrdinary
    <3>2. CASE Opens(t) /\ ~Opens(u)
      <4>1. turnSequence + 1 = runs[u].seq
        BY <2>1, <2>2, <3>2
      <4> QED
        BY <1>1, <1>2, <4>1
    <3>3. CASE ~Opens(t) /\ Opens(u)
      <4>1. turnSequence + 1 = runs[t].seq
        BY <2>1, <2>2, <3>3
      <4> QED
        BY <1>1, <1>2, <4>1
    <3>4. CASE ~Opens(t) /\ ~Opens(u)
      BY <2>1, <3>4 DEF SequencesDistinct
    <3> QED
      BY <3>1, <3>2, <3>3, <3>4
  <2>4. \A t \in Traces, x \in tombstones :
            Exists(t)' => runs'[t].seq # x.seq
    <3> SUFFICES ASSUME NEW t \in Traces, NEW x \in tombstones, Exists(t)',
                        runs'[t].seq = x.seq
                 PROVE  FALSE
      OBVIOUS
    <3>1. CASE Opens(t)
      <4>1. turnSequence + 1 = x.seq
        BY <2>2, <3>1
      <4> QED
        BY <1>2, <1>3, <4>1
    <3>2. CASE ~Opens(t)
      BY <2>1, <3>2 DEF SequencesDistinct
    <3> QED
      BY <3>1, <3>2
  <2> QED
    BY <2>3, <2>4 DEF SequencesDistinct, RestOrdinary
<1> QED
  BY <1>5, <1>6, <1>7, <1>9, <1>10, <1>11, <1>12

\* A terminal commit.
LEMMA CommitInv ==
    ASSUME IInv, TypeOK', NEW t \in Traces, NEW s \in Sessions,
           NEW h \in Hashes, NEW status \in BoundStatuses, NEW expected \in Int,
           CommitTerminalFinalization(t, s, h, status, expected)
    PROVE  IInv'
<1> USE DEF IInv, TypeInv
<1> DEFINE closed == ClosedRow(t, status)
           bumped == Bump(closed, 1)
           r == [bumped EXCEPT !.binding = Fresh]
           e == [id |-> Fresh, trace |-> t, action |-> "terminal",
                 hash |-> h, status |-> status]
<1>1. Fresh \in Nat /\ Fresh # 0 /\ clock \in Nat
  BY DEF Fresh, TypeOK
<1>2. Open(t) /\ Exists(t) /\ runs[t].binding = 0
  BY StatusesApart
     DEF CommitTerminalFinalization, CanCommitTerminal, OpenIn, Open, Exists
<1>3. closed \in Run /\ SameIdentity(closed, runs[t]) /\ closed.status = status
  BY ClosedRowType, ClosedRowIs DEF ClosedStatuses
<1>4. bumped \in Run /\ SameIdentity(bumped, closed)
      /\ bumped.status = closed.status
  <2> HIDE DEF closed
  <2> QED
    BY <1>1, <1>3, BumpType, BumpKeeps
<1>5. /\ r.session = bumped.session /\ r.seq = bumped.seq
      /\ r.status = bumped.status /\ r.binding = Fresh
  <2> HIDE DEF bumped
  <2> QED
    BY <1>4 DEF Run
<1>6. runs' = [runs EXCEPT ![t] = r]
  BY DEF CommitTerminalFinalization
<1> HIDE DEF r, bumped, closed
<1>7. /\ runs'[t].seq = runs[t].seq /\ runs'[t].status = status
      /\ runs'[t].binding = Fresh
  BY <1>3, <1>4, <1>5, <1>6 DEF SameIdentity, TypeOK
<1>8. \A u \in Traces \ {t} : runs'[u] = runs[u]
  BY <1>6 DEF TypeOK
<1>9. events' = events \cup {e}
  BY DEF CommitTerminalFinalization, AddEvent
<1>10. /\ tombstones' = tombstones /\ turnSequence' = turnSequence
       /\ receipts' = receipts /\ evidence' = evidence
  BY DEF CommitTerminalFinalization
<1>11. ~Open(t)' /\ Exists(t)'
  BY <1>7, StatusesApart DEF Open, Exists, ClosedStatuses
<1>12. \A u \in Traces : runs'[u].seq = runs[u].seq /\ (Exists(u)' <=> Exists(u))
  BY <1>2, <1>7, <1>8, <1>11 DEF Exists
<1>13. SequenceBound'
  BY <1>10, <1>12 DEF SequenceBound
<1>14. EventIdsIssued'
  BY <1>1, <1>9 DEF EventIdsIssued
<1>15. OpenTurnConsistent'
  BY <1>8, <1>11 DEF OpenTurnConsistent, Open
<1>16. TerminalBindingExact'
  <2>1. ASSUME NEW u \in Traces, runs'[u].binding # 0
        PROVE  \E x \in EventsOf(u)' : /\ x.id = runs'[u].binding
                                       /\ x.action = "terminal"
                                       /\ x.status = runs'[u].status
    <3>1. CASE u = t
      <4>1. e \in EventsOf(t)'
        BY <1>9 DEF EventsOf
      <4> QED
        BY <1>7, <3>1, <4>1
    <3>2. CASE u # t
      <4>1. runs'[u] = runs[u] /\ EventsOf(u) \subseteq EventsOf(u)'
        BY <1>8, <1>9, <3>2 DEF EventsOf
      <4> QED
        BY <2>1, <4>1 DEF TerminalBindingExact
    <3> QED
      BY <3>1, <3>2
  <2>2. ASSUME NEW x \in events', x.action = "terminal"
        PROVE  runs'[x.trace].binding = x.id
    <3>1. CASE x = e
      BY <1>7, <3>1
    <3>2. CASE x \in events
      <4>1. x.trace \in Traces /\ runs[x.trace].binding = x.id /\ x.id # 0
        BY <2>2, <3>2 DEF TerminalBindingExact, EventIdsIssued, TypeOK, Event
      <4>2. x.trace # t
        BY <1>2, <4>1
      <4> QED
        BY <1>8, <4>1, <4>2
    <3> QED
      BY <1>9, <3>1, <3>2
  <2> QED
    BY <2>1, <2>2 DEF TerminalBindingExact
<1>17. FailureReceiptTruth'
  <2>1. t \notin receipts
    BY <1>2 DEF FailureReceiptTruth, Open, OpenStatuses
  <2>2. receipts \subseteq Traces
    BY DEF TypeOK
  <2> QED
    BY <1>8, <1>10, <2>1, <2>2 DEF FailureReceiptTruth
<1>18. NoResurrection'
  <2>1. \A u \in Traces : ~Exists(u) =>
            EventsOf(u)' = {} /\ specialists'[u] = {}
    BY <1>2, <1>9
       DEF NoResurrection, EventsOf, CommitTerminalFinalization, Expired
  <2> QED
    BY <1>10, <1>12, <2>1 DEF NoResurrection, Retired
<1>19. SequencesDistinct'
  BY <1>10, <1>12 DEF SequencesDistinct
<1> QED
  BY <1>13, <1>14, <1>15, <1>16, <1>17, <1>18, <1>19

\* A retention sweep.
LEMMA TrimInv ==
    ASSUME IInv, TypeOK', NEW cutoff \in Nat, NEW swept \in SUBSET Traces,
           NEW failed \in SUBSET Traces, NEW old \in SUBSET Traces,
           TrimRuntimeTables(cutoff, swept, failed, old)
    PROVE  IInv'
<1> USE DEF IInv, TypeInv
<1> DEFINE stale == Stale(cutoff)
           kept == KeptEvents(swept)
           emptied(t) ==
               /\ t \in swept \/ (evidence[t] = {} /\ specialists[t] = {})
               /\ t \in failed \/ t \notin receipts
               /\ \A e \in kept : e.trace = t => e.id = runs[t].binding
           purged == {t \in old : emptied(t)}
           expired(t) == [runs[t] EXCEPT !.status = "retention_expired",
                                         !.ended = TRUE]
<1>1. \A t \in stale : Open(t) /\ t \in Traces
  BY DEF Stale
<1>2. purged \subseteq Traces /\ \A t \in purged : Exists(t)
  <2>1. old \subseteq {t \in Traces : Closed(t)} \cup stale
    BY DEF TrimRuntimeTables
  <2> QED
    BY <1>1, <2>1 DEF Closed, Open, Exists, OpenStatuses
<1>3. \A t \in Traces :
          /\ t \in purged => runs'[t] = Absent
          /\ t \in stale \ purged => runs'[t] = expired(t)
          /\ t \notin stale \cup purged => runs'[t] = runs[t]
  BY DEF TrimRuntimeTables
<1>4. events' = {e \in kept : e.trace \notin purged}
  BY DEF TrimRuntimeTables
<1>5. tombstones' = tombstones \cup
          {[trace |-> t, session |-> runs[t].session, seq |-> runs[t].seq]
              : t \in purged}
  BY DEF TrimRuntimeTables
<1>6. /\ receipts' = receipts \ failed /\ turnSequence' = turnSequence
      /\ evidence' = [t \in Traces |-> IF t \in swept THEN {} ELSE evidence[t]]
      /\ specialists' = [t \in Traces |->
             IF t \in swept THEN {} ELSE Expired(stale)[t]]
  BY DEF TrimRuntimeTables
<1>7. \A t \in Traces : runs[t] \in Run /\ runs[t].seq \in Nat
  BY DEF TypeOK, Run
<1>8. \A t \in Traces : emptied(t) => t \in failed \/ t \notin receipts
  OBVIOUS
<1>9. \A t \in Traces : emptied(t) =>
          t \in swept \/ (evidence[t] = {} /\ specialists[t] = {})
  OBVIOUS
<1>10. \A t \in stale \ purged :
           /\ runs'[t].status = "retention_expired" /\ runs'[t].ended
           /\ runs'[t].binding = runs[t].binding
           /\ runs'[t].seq = runs[t].seq
  <2>1. \A t \in Traces :
            /\ expired(t).status = "retention_expired" /\ expired(t).ended
            /\ expired(t).binding = runs[t].binding
            /\ expired(t).seq = runs[t].seq
    BY <1>7 DEF Run
  <2> HIDE DEF stale, kept, purged, emptied, expired
  <2> QED
    BY <1>1, <1>3, <2>1
<1>11. \A t \in purged : ~Exists(t)' /\ ~Open(t)'
                         /\ runs'[t].binding = 0 /\ runs'[t].seq = 0
  <2>1. /\ Absent.status = "absent" /\ Absent.binding = 0 /\ Absent.seq = 0
    BY DEF Absent
  <2> HIDE DEF purged, expired
  <2>2. \A t \in purged : runs'[t] = Absent
    BY <1>2, <1>3
  <2> QED
    BY <2>1, <2>2 DEF Exists, Open, OpenStatuses
<1>12. \A t \in purged : t \in Traces /\ emptied(t)
  <2> HIDE DEF emptied, kept, stale
  <2>1. \A t \in purged : emptied(t)
    OBVIOUS
  <2> QED
    BY <1>2, <2>1
<1>13. \A x \in tombstones' \ tombstones :
           \E t \in purged : x.trace = t /\ x.seq = runs[t].seq
                             /\ x = [trace |-> t, session |-> runs[t].session,
                                     seq |-> runs[t].seq]
  <2> HIDE DEF purged
  <2> SUFFICES ASSUME NEW x \in tombstones', x \notin tombstones
               PROVE  \E t \in purged :
                          x.trace = t /\ x.seq = runs[t].seq
                          /\ x = [trace |-> t, session |-> runs[t].session,
                                  seq |-> runs[t].seq]
    OBVIOUS
  <2>1. PICK t \in purged : x = [trace |-> t, session |-> runs[t].session,
                                 seq |-> runs[t].seq]
    BY <1>5
  <2> QED
    BY <2>1
<1>14. \A t \in purged : Retired(t)'
  <2> HIDE DEF purged
  <2> SUFFICES ASSUME NEW t \in purged
               PROVE  \E x \in tombstones' : x.trace = t
    BY DEF Retired
  <2> DEFINE x == [trace |-> t, session |-> runs[t].session,
                   seq |-> runs[t].seq]
  <2>1. x \in tombstones' /\ x.trace = t
    BY <1>5
  <2> QED
    BY <2>1
<1>15. \A e \in kept : e \in events
           /\ (e.trace \notin swept \/ \E t \in Traces : e.id = runs[t].binding)
  BY DEF KeptEvents
<1>16. \A e \in events, t \in Traces : e.id = runs[t].binding => e \in kept
  BY DEF KeptEvents
<1> HIDE DEF stale, kept, purged, emptied, expired
<1>17. \A t \in Traces \ purged : runs'[t].seq = runs[t].seq
                                  /\ runs'[t].binding = runs[t].binding
  BY <1>3, <1>10
<1>18. \A t \in Traces : Exists(t)' => t \notin purged /\ Exists(t)
  BY <1>1, <1>3, <1>11 DEF Exists, Open, OpenStatuses
<1>19. \A e \in events : e.trace \in Traces
  BY DEF TypeOK, Event
<1>20. SequenceBound'
  <2>1. turnSequence \in Nat
    BY DEF TypeOK
  <2>2. \A t \in Traces : runs'[t].seq <= turnSequence'
    BY <1>6, <1>11, <1>17, <2>1 DEF SequenceBound
  <2>3. \A x \in tombstones' : x.seq <= turnSequence'
    BY <1>2, <1>6, <1>13 DEF SequenceBound
  <2> QED
    BY <2>2, <2>3 DEF SequenceBound
<1>21. EventIdsIssued'
  BY <1>4, <1>15 DEF EventIdsIssued
<1>22. OpenTurnConsistent'
  BY <1>3, <1>10, <1>11 DEF OpenTurnConsistent, Open, OpenStatuses
<1>23. TerminalBindingExact'
  <2>1. ASSUME NEW t \in Traces, runs'[t].binding # 0
        PROVE  \E e \in EventsOf(t)' : /\ e.id = runs'[t].binding
                                       /\ e.action = "terminal"
                                       /\ e.status = runs'[t].status
    <3>1. t \notin purged /\ runs[t].binding # 0
      BY <1>11, <1>17, <2>1
    <3>2. t \notin stale
      BY <1>1, <3>1 DEF OpenTurnConsistent
    <3>3. runs'[t] = runs[t]
      BY <1>3, <3>1, <3>2
    <3>4. PICK e \in EventsOf(t) : /\ e.id = runs[t].binding
                                   /\ e.action = "terminal"
                                   /\ e.status = runs[t].status
      BY <3>1 DEF TerminalBindingExact
    <3>5. e \in EventsOf(t)'
      BY <1>4, <1>16, <3>1, <3>4 DEF EventsOf
    <3> QED
      BY <3>3, <3>4, <3>5
  <2>2. ASSUME NEW e \in events', e.action = "terminal"
        PROVE  runs'[e.trace].binding = e.id
    <3>1. e \in events /\ e.trace \in Traces \ purged
      BY <1>4, <1>15, <1>19
    <3> QED
      BY <1>17, <2>2, <3>1 DEF TerminalBindingExact
  <2> QED
    BY <2>1, <2>2 DEF TerminalBindingExact
<1>24. FailureReceiptTruth'
  <2> SUFFICES ASSUME NEW t \in receipts'
               PROVE  runs'[t].status = "preflight_failed"
                      /\ runs'[t].binding = 0
    BY DEF FailureReceiptTruth
  <2>1. t \in receipts /\ t \notin failed /\ t \in Traces
    BY <1>6 DEF TypeOK
  <2>2. /\ runs[t].status = "preflight_failed" /\ runs[t].binding = 0
    BY <2>1 DEF FailureReceiptTruth
  <2>3. t \notin purged /\ t \notin stale
    BY <1>1, <1>8, <1>12, <2>1, <2>2 DEF Open, OpenStatuses
  <2> QED
    BY <1>3, <2>1, <2>2, <2>3
<1>25. NoResurrection'
  <2> SUFFICES ASSUME NEW t \in Traces
               PROVE  /\ Retired(t)' => ~Exists(t)'
                      /\ ~Exists(t)' => /\ EventsOf(t)' = {}
                                        /\ evidence'[t] = {}
                                        /\ specialists'[t] = {}
                                        /\ t \notin receipts'
    BY DEF NoResurrection
  <2>1. Retired(t)' => ~Exists(t)'
    <3>1. Retired(t)' => Retired(t) \/ t \in purged
      BY <1>5, <1>13 DEF Retired
    <3> QED
      BY <1>11, <1>18, <3>1 DEF NoResurrection
  <2>2. CASE t \in purged
    <3>1. EventsOf(t)' = {}
      BY <1>4, <2>2 DEF EventsOf
    <3>2. evidence'[t] = {} /\ specialists'[t] = {}
      BY <1>6, <1>9, <1>12, <2>2 DEF Expired
    <3>3. t \notin receipts'
      BY <1>6, <1>8, <1>12, <2>2
    <3> QED
      BY <2>1, <3>1, <3>2, <3>3
  <2>3. CASE t \notin purged /\ ~Exists(t)'
    <3>1. ~Exists(t)
      <4>1. t \in stale => Exists(t)'
        BY <1>10, <2>3 DEF Exists
      <4> QED
        BY <1>3, <2>3, <4>1 DEF Exists
    <3>2. /\ EventsOf(t) = {} /\ evidence[t] = {} /\ specialists[t] = {}
          /\ t \notin receipts
      BY <3>1 DEF NoResurrection
    <3>3. EventsOf(t)' = {}
      BY <1>4, <1>15, <3>2 DEF EventsOf
    <3> QED
      BY <1>6, <2>1, <3>2, <3>3 DEF Expired
  <2> QED
    BY <2>1, <2>2, <2>3
<1>26. SequencesDistinct'
  <2>1. \A t, u \in Traces : Exists(t)' /\ Exists(u)'
                                /\ runs'[t].seq = runs'[u].seq => t = u
    BY <1>17, <1>18 DEF SequencesDistinct
  <2>2. \A t \in Traces, x \in tombstones' :
            Exists(t)' => runs'[t].seq # x.seq
    <3> SUFFICES ASSUME NEW t \in Traces, NEW x \in tombstones', Exists(t)'
                 PROVE  runs'[t].seq # x.seq
      OBVIOUS
    <3>1. /\ t \notin purged /\ Exists(t) /\ runs'[t].seq = runs[t].seq
      BY <1>17, <1>18
    <3>2. CASE x \in tombstones
      BY <3>1, <3>2 DEF SequencesDistinct
    <3>3. CASE x \notin tombstones
      <4>1. PICK u \in purged : x.seq = runs[u].seq
        BY <1>13, <3>3
      <4> QED
        BY <1>2, <3>1, <4>1 DEF SequencesDistinct
    <3> QED
      BY <3>2, <3>3
  <2>3. \A x, y \in tombstones' : x.seq = y.seq => x = y
    <3> SUFFICES ASSUME NEW x \in tombstones', NEW y \in tombstones',
                        x.seq = y.seq
                 PROVE  x = y
      OBVIOUS
    <3>1. CASE x \in tombstones /\ y \in tombstones
      BY <3>1 DEF SequencesDistinct
    <3>2. CASE x \in tombstones /\ y \notin tombstones
      <4>1. PICK u \in purged : y.seq = runs[u].seq
        BY <1>13, <3>2
      <4> QED
        BY <1>2, <3>2, <4>1 DEF SequencesDistinct
    <3>3. CASE x \notin tombstones /\ y \in tombstones
      <4>1. PICK u \in purged : x.seq = runs[u].seq
        BY <1>13, <3>3
      <4> QED
        BY <1>2, <3>3, <4>1 DEF SequencesDistinct
    <3>4. CASE x \notin tombstones /\ y \notin tombstones
      <4>1. PICK t \in purged :
                /\ x.seq = runs[t].seq
                /\ x = [trace |-> t, session |-> runs[t].session,
                        seq |-> runs[t].seq]
        BY <1>13, <3>4
      <4>2. PICK u \in purged :
                /\ y.seq = runs[u].seq
                /\ y = [trace |-> u, session |-> runs[u].session,
                        seq |-> runs[u].seq]
        BY <1>13, <3>4
      <4>3. t = u
        BY <1>2, <4>1, <4>2 DEF SequencesDistinct
      <4> QED
        BY <4>1, <4>2, <4>3
    <3> QED
      BY <3>1, <3>2, <3>3, <3>4
  <2> QED
    BY <2>1, <2>2, <2>3 DEF SequencesDistinct
<1> QED
  BY <1>20, <1>21, <1>22, <1>23, <1>24, <1>25, <1>26

LEMMA NextInv ==
    ASSUME IInv, Next
    PROVE  IInv'
<1>1. TypeOK' /\ (Ordinary \/ Commits \/ Trims)
  BY NextShape DEF IInv
<1>2. CASE Ordinary
  BY <1>1, <1>2, OrdinaryInv
<1>3. CASE Commits
  BY <1>1, <1>3, CommitInv DEF Commits
<1>4. CASE Trims
  BY <1>1, <1>4, TrimInv DEF Trims
<1> QED
  BY <1>1, <1>2, <1>3, <1>4

-----------------------------------------------------------------------------
(* Theorems                                                                *)

\* The inductive invariant holds in every reachable state of the store.
THEOREM Invariance == Spec => []IInv
<1>1. Init => IInv
  BY InitInv
<1>2. IInv /\ [Next]_storeVars => IInv'
  <2> SUFFICES ASSUME IInv, [Next]_storeVars
               PROVE  IInv'
    OBVIOUS
  <2>1. CASE Next
    BY <2>1, NextInv
  <2>2. CASE UNCHANGED storeVars
    BY <2>2
       DEF storeVars, IInv, TypeInv, TypeOK, SequenceBound, EventIdsIssued,
           OpenTurnConsistent, TerminalBindingExact, FailureReceiptTruth,
           NoResurrection, SequencesDistinct, Open, Exists, Retired, EventsOf
  <2> QED
    BY <2>1, <2>2
<1> QED
  BY <1>1, <1>2, PTL DEF Spec

\* The columns the lifecycle reads hold values of their types, whatever calls
\* the host adapters make.
THEOREM TypeCorrect == Spec => []TypeOK
<1>1. IInv => TypeOK
  BY DEF IInv, TypeInv
<1> QED
  BY <1>1, Invariance, PTL

\* The store never reaches the state in which a completion snapshot raises
\* "open Agency turn has inconsistent terminal state".
THEOREM OpenTurnsAreUnbound == Spec => []OpenTurnConsistent
<1>1. IInv => OpenTurnConsistent
  BY DEF IInv
<1> QED
  BY <1>1, Invariance, PTL

\* A turn's binding and its terminal event always agree: retention never
\* deletes the event a surviving run is bound to, an attempt's recovery never
\* deletes a verdict, and no unbound close rewrites a verdict's status.
THEOREM BindingIsExact == Spec => []TerminalBindingExact
<1>1. IInv => TerminalBindingExact
  BY DEF IInv
<1> QED
  BY <1>1, Invariance, PTL

\* A failure receipt never contradicts the outcome of its turn, for any
\* interleaving of failures, verdicts, recoveries and sweeps.
THEOREM ReceiptsAreTrue == Spec => []FailureReceiptTruth
<1>1. IInv => FailureReceiptTruth
  BY DEF IInv
<1> QED
  BY <1>1, Invariance, PTL

\* The row of a turn, its events and its receipt tell one outcome.
THEOREM OutcomesAgree == Spec => []OutcomeConsistent
<1>1. IInv => OutcomeConsistent
  BY DEF IInv, OutcomeConsistent
<1> QED
  BY <1>1, Invariance, PTL

\* No call sequence revives a trace id that retention retired, and a trace id
\* that has no run has no rows either.
THEOREM TracesAreNotReused == Spec => []NoResurrection
<1>1. IInv => NoResurrection
  BY DEF IInv
<1> QED
  BY <1>1, Invariance, PTL

\* Turn sequences order all turns ever recorded, deleted ones included.
THEOREM SequencesIdentifyTurns == Spec => []SequencesDistinct
<1>1. IInv => SequencesDistinct
  BY DEF IInv
<1> QED
  BY <1>1, Invariance, PTL

\* Both together: a turn shares neither its trace id nor its sequence.
THEOREM IdentitiesAreDistinct == Spec => []TurnsAreDistinct
<1>1. IInv => TurnsAreDistinct
  BY DEF IInv, TurnsAreDistinct
<1> QED
  BY <1>1, Invariance, PTL

LEMMA TrimKeepsClosed ==
    ASSUME NEW cutoff, NEW swept, NEW failed, NEW old,
           TrimRuntimeTables(cutoff, swept, failed, old),
           NEW t \in Traces, Closed(t)
    PROVE  (~Exists(t)' /\ Retired(t)') \/ runs'[t] = runs[t]
<1> DEFINE stale == Stale(cutoff)
           kept == KeptEvents(swept)
           emptied(u) ==
               /\ u \in swept \/ (evidence[u] = {} /\ specialists[u] = {})
               /\ u \in failed \/ u \notin receipts
               /\ \A e \in kept : e.trace = u => e.id = runs[u].binding
           purged == {u \in old : emptied(u)}
           x == [trace |-> t, session |-> runs[t].session, seq |-> runs[t].seq]
<1>1. /\ t \in purged => runs'[t] = Absent
      /\ t \notin stale \cup purged => runs'[t] = runs[t]
  BY DEF TrimRuntimeTables
<1>2. t \in purged => x \in tombstones'
  BY DEF TrimRuntimeTables
<1>3. t \notin stale
  BY DEF Stale, Closed
<1>4. Absent.status = "absent"
  BY DEF Absent
<1>5. x.trace = t
  OBVIOUS
<1> HIDE DEF stale, purged, x
<1>6. CASE t \in purged
  BY <1>1, <1>2, <1>4, <1>5, <1>6 DEF Exists, Retired
<1> QED
  BY <1>1, <1>3, <1>6

\* The outcome of a closed turn is final until retention forgets the turn.
THEOREM OutcomesAreFinal == Spec => TerminalIsForever
<1> DEFINE Final ==
        \A t \in Traces : Closed(t) =>
          \/ ~Exists(t)' /\ Retired(t)'
          \/ /\ runs'[t].status = runs[t].status
             /\ runs'[t].binding = runs[t].binding
             /\ runs'[t].session = runs[t].session
             /\ runs'[t].seq = runs[t].seq
<1>1. IInv /\ [Next]_storeVars => [Final]_storeVars
  <2> SUFFICES ASSUME IInv, Next, NEW t \in Traces, Closed(t)
               PROVE  \/ ~Exists(t)' /\ Retired(t)'
                      \/ /\ runs'[t].status = runs[t].status
                         /\ runs'[t].binding = runs[t].binding
                         /\ runs'[t].session = runs[t].session
                         /\ runs'[t].seq = runs[t].seq
    OBVIOUS
  <2>1. Ordinary \/ Commits \/ Trims
    BY NextShape DEF IInv
  <2>2. CASE Ordinary
    BY <2>2 DEF Ordinary, RowsOrdinary, StaysOpen, Opens, GivesUp, Closed
  <2>3. CASE Commits
    <3>1. PICK u \in Traces : /\ Open(u)
                              /\ \E r : runs' = [runs EXCEPT ![u] = r]
      BY <2>3
         DEF Commits, CommitTerminalFinalization, CanCommitTerminal, OpenIn
    <3>2. u # t
      BY <3>1 DEF Closed
    <3> QED
      BY <3>1, <3>2
  <2>4. CASE Trims
    <3>1. PICK cutoff \in Nat, swept \in SUBSET Traces,
               failed \in SUBSET Traces, old \in SUBSET Traces :
              TrimRuntimeTables(cutoff, swept, failed, old)
      BY <2>4 DEF Trims
    <3> QED
      BY <3>1, TrimKeepsClosed
  <2> QED
    BY <2>1, <2>2, <2>3, <2>4
<1>2. Spec => [][Final]_storeVars
  BY <1>1, Invariance, PTL DEF Spec
<1> QED
  BY <1>2, PTL DEF TerminalIsForever
=============================================================================
