-------------------------- MODULE TurnPromiseProofs --------------------------
(* What TurnStore promises its callers, for every value of its constants:  *)
(* that it implements TurnAuthority, and what becomes of an attempt, a     *)
(* reservation and a continuation.                                         *)
EXTENDS TurnStoreProofs

-----------------------------------------------------------------------------
(* The shapes of a step, as the callers of a turn see it                   *)

Stamped(t) == runs'[t].revision > runs[t].revision

\* What a completion snapshot reads of the turn is unchanged.
LooksSame(t) ==
    /\ evidence'[t] = evidence[t] /\ specialists'[t] = specialists[t]
    /\ EventsOf(t)' = EventsOf(t)
    /\ runs'[t].status = runs[t].status /\ runs'[t].pstate = runs[t].pstate
    /\ runs'[t].attempt = runs[t].attempt

\* The turn stays open, under the attempt it has.
Goes(t) ==
    /\ Open(t) /\ Open(t)'
    /\ runs'[t].pstate = runs[t].pstate /\ runs'[t].attempt = runs[t].attempt
    /\ runs'[t].result = runs[t].result /\ runs'[t].lease = runs[t].lease
    /\ evidence'[t] \in {evidence[t], evidence[t] \cup {runs[t].attempt}}
    /\ runs'[t].activity \in {runs[t].activity, clock}
    /\ runs'[t].status \in {runs[t].status, "active"}
    /\ \/ LooksSame(t) /\ runs'[t].revision = runs[t].revision
       \/ Stamped(t)

Idle == {"", "reserved"}

\* An attempt begins on a turn that has none, or takes an expired one over.
Attempts(t) ==
    /\ runs'[t].status = "active" /\ Open(t)'
    /\ runs'[t].pstate = "in_progress"
    /\ runs'[t].attempt = uuids + 1 /\ uuids' = uuids + 1
    /\ runs'[t].result = 0 /\ runs'[t].lease = clock + LeaseLength
    /\ runs'[t].activity = clock
    /\ \/ ~Exists(t) /\ evidence'[t] = evidence[t] /\ runs'[t].session \in Sessions
       \/ Open(t) /\ runs[t].pstate \in Idle /\ evidence'[t] = evidence[t] /\ Stamped(t)
       \/ Open(t) /\ runs[t].pstate = "in_progress" /\ evidence'[t] = {} /\ Stamped(t)

Publishes(t) ==
    /\ Open(t) /\ Open(t)' /\ runs[t].pstate = "in_progress" /\ Stamped(t)
    /\ runs'[t].pstate = "ready" /\ runs'[t].attempt = runs[t].attempt
    /\ runs'[t].result = runs[t].attempt /\ runs'[t].activity = clock
    /\ evidence'[t] = evidence[t] \cup {runs[t].attempt}

\* A turn appears without an attempt.
Appears(t) ==
    /\ ~Exists(t) /\ Open(t)' /\ runs'[t].pstate \in Idle
    /\ runs'[t].session \in Sessions
    /\ runs'[t].attempt = 0 /\ runs'[t].result = 0 /\ runs'[t].activity = clock
    /\ evidence'[t] \in {evidence[t], evidence[t] \cup {runs[t].attempt}}

Ends(t) ==
    /\ Open(t) /\ ~Open(t)'
    /\ \/ Stamped(t) /\ runs'[t].status # "retention_expired"
       \/ /\ runs[t].activity < clock - MinInactivity
          /\ Exists(t)' => runs'[t].status = "retention_expired"

Rests(t) ==
    /\ ~Open(t) /\ ~Open(t)'
    /\ Exists(t)' => Exists(t)

TurnStep(t) ==
    /\ Goes(t) \/ Attempts(t) \/ Publishes(t) \/ Appears(t) \/ Ends(t) \/ Rests(t)
    /\ ~Exists(t)' => runs'[t].attempt = 0 \/ runs'[t] = runs[t]

\* A reservation is kept, or it is the only open turn of its session.
ReservationStep(t) ==
    Open(t)' /\ runs'[t].reservation # 0 =>
        \/ /\ Open(t) /\ runs'[t].session = runs[t].session
           /\ runs'[t].reservation = runs[t].reservation
        \/ /\ runs'[t].reservation = uuids + 1 /\ uuids' = uuids + 1
           /\ \A u \in Traces \ {t} : Open(u)' => runs'[u].session # runs'[t].session

EventStep ==
    /\ uuids <= uuids'
    /\ \A e \in events' \ events : e.id = uuids + 1 /\ uuids' = uuids + 1
    /\ \A e, f \in events' \ events : e = f
    /\ \A t \in Traces : \/ Claims(t)' \subseteq Claims(t)
                         \/ Claims(t) = {} /\ \E e : Claims(t)' \subseteq {e}

Moves ==
    /\ \A t \in Traces : TurnStep(t) /\ ReservationStep(t)
    /\ EventStep

-----------------------------------------------------------------------------
(* What the row helpers do to the columns of an attempt                    *)

SameAttempt(r, q) ==
    /\ r.pstate = q.pstate /\ r.attempt = q.attempt /\ r.result = q.result
    /\ r.lease = q.lease /\ r.reservation = q.reservation /\ r.session = q.session

LEMMA BumpStamps ==
    ASSUME TypeOK, NEW r \in Run, r.status # "retention_expired", NEW n \in Nat
    PROVE  /\ Bump(r, n) \in Run /\ SameAttempt(Bump(r, n), r)
           /\ Bump(r, n).status = r.status /\ Bump(r, n).activity = clock
           /\ Bump(r, n).revision = r.revision + n
<1>1. Bump(r, n) \in Run
  BY BumpType DEF TypeOK
<1>2. Bump(r, n) = [r EXCEPT !.revision = r.revision + n, !.activity = clock]
  BY DEF Bump
<1> QED
  BY <1>1, <1>2 DEF Run, SameAttempt

LEMMA TouchStamps ==
    ASSUME TypeOK, NEW r \in Run
    PROVE  /\ Touch(r) \in Run /\ SameAttempt(Touch(r), r)
           /\ Touch(r).status = r.status /\ Touch(r).activity = clock
           /\ Touch(r).revision = r.revision
<1>1. Touch(r) \in Run
  BY TouchType DEF TypeOK
<1> QED
  BY <1>1 DEF Touch, Run, SameAttempt

LEMMA ClosedRowStamps ==
    ASSUME TypeOK, NEW t \in Traces, Open(t),
           NEW status \in ClosedStatuses \ {"retention_expired"}
    PROVE  /\ ClosedRow(t, status) \in Run /\ ClosedRow(t, status).status = status
           /\ ClosedRow(t, status).revision > runs[t].revision
<1> DEFINE r == [runs[t] EXCEPT !.status = status, !.ended = TRUE]
<1>1. runs[t] \in Run
  BY DEF TypeOK
<1>2. r \in Run /\ r.status = status /\ r.revision = runs[t].revision
  BY <1>1, EndedType DEF Run
<1>3. runs[t].revision \in Nat
  BY <1>1 DEF Run
<1> HIDE DEF r
<1>4. \A n \in {1, 2} : /\ Bump(r, n) \in Run /\ Bump(r, n).status = status
                        /\ Bump(r, n).revision = runs[t].revision + n
  BY <1>2, BumpStamps
<1>5. ClosedRow(t, status) \in {Bump(r, 1), Bump(r, 2)}
  BY DEF ClosedRow, r
<1> QED
  BY <1>3, <1>4, <1>5

\* A new row of either kind.
LEMMA NewRunStamps ==
    ASSUME TypeInv, NEW s \in Sessions, NEW status \in OpenStatuses
    PROVE  /\ NewRun(s, status) \in Run /\ NewRun(s, status).status = status
           /\ NewRun(s, status).pstate = "" /\ NewRun(s, status).attempt = 0
           /\ NewRun(s, status).result = 0 /\ NewRun(s, status).reservation = 0
           /\ NewRun(s, status).activity = clock /\ NewRun(s, status).session = s
<1>1. NewRun(s, status) \in Run
  BY NewRunType DEF TypeInv
<1> QED
  BY <1>1 DEF NewRun, Absent

LEMMA AttemptStamps ==
    ASSUME TypeInv, NEW r \in Run, NEW q \in Requests
    PROVE  /\ Attempt(r, q) \in Run /\ Attempt(r, q).status = "active"
           /\ Attempt(r, q).pstate = "in_progress" /\ Attempt(r, q).attempt = uuids + 1
           /\ Attempt(r, q).result = 0 /\ Attempt(r, q).lease = clock + LeaseLength
           /\ Attempt(r, q).reservation = r.reservation
           /\ Attempt(r, q).session = r.session /\ Attempt(r, q).activity = r.activity
           /\ Attempt(r, q).revision = r.revision
<1>1. Attempt(r, q) \in Run
  BY AttemptType DEF TypeInv
<1> QED
  BY <1>1 DEF Attempt, Run, Fresh

-----------------------------------------------------------------------------
(* Steps that touch one turn                                               *)

LEMMA Rows ==
    ASSUME TypeInv
    PROVE  /\ clock \in Nat /\ uuids \in Nat
           /\ \A t \in Traces : /\ runs[t] \in Run /\ runs[t].revision \in Nat
                                /\ Open(t) => runs[t].status # "retention_expired"
                                /\ Open(t) => Exists(t)
BY DEF TypeInv, TypeOK, Run, Open, Exists, OpenStatuses

\* A turn whose row and records are left alone.
LEMMA Untouched ==
    ASSUME NEW u \in Traces, runs'[u] = runs[u], evidence'[u] = evidence[u],
           specialists'[u] = specialists[u], EventsOf(u)' = EventsOf(u)
    PROVE  TurnStep(u)
BY DEF TurnStep, Goes, Rests, LooksSame, Open, Exists

LEMMA OneTurn ==
    ASSUME TypeInv, NEW t \in Traces, NEW r \in Run,
           runs' = [runs EXCEPT ![t] = r],
           \A u \in Traces \ {t} : /\ evidence'[u] = evidence[u]
                                   /\ specialists'[u] = specialists[u]
                                   /\ EventsOf(u)' = EventsOf(u),
           r.status # "absent",
           Goes(t) \/ Attempts(t) \/ Publishes(t) \/ Appears(t) \/ Ends(t),
           r.status \in OpenStatuses /\ r.reservation # 0 =>
               Open(t) /\ r.session = runs[t].session /\ r.reservation = runs[t].reservation,
           EventStep
    PROVE  Moves
<1>1. runs'[t] = r /\ \A u \in Traces \ {t} : runs'[u] = runs[u]
  BY DEF TypeInv, TypeOK
<1>2. TurnStep(t) /\ ReservationStep(t)
  BY <1>1 DEF TurnStep, ReservationStep, Exists, Open
<1>3. \A u \in Traces \ {t} : TurnStep(u) /\ ReservationStep(u)
  BY <1>1, Untouched DEF ReservationStep, Open
<1> QED
  BY <1>2, <1>3 DEF Moves

\* No event is added.
LEMMA NoEvent ==
    ASSUME TypeInv, events' = events, uuids' \in {uuids, uuids + 1}
    PROVE  EventStep /\ \A u \in Traces : EventsOf(u)' = EventsOf(u)
<1>1. uuids <= uuids'
  BY Rows
<1> QED
  BY <1>1 DEF EventStep, EventsOf, Claims

LEMMA Grows == \A n \in Nat : n <= n + 1 /\ n < n + 1
  OBVIOUS

LEMMA One == 1 \in Nat \ {0}
  OBVIOUS

\* An event of one turn is added.
LEMMA NewEvent ==
    ASSUME TypeInv, NEW t \in Traces, NEW action, NEW h, NEW status,
           AddEvent(t, action, h, status), Issue,
           action = "continue" /\ h # "" => Claims(t) = {}
    PROVE  EventStep /\ \A u \in Traces \ {t} : EventsOf(u)' = EventsOf(u)
<1> DEFINE e == [id |-> Fresh, trace |-> t, action |-> action, hash |-> h,
                 status |-> status]
<1>1. /\ events' = events \cup {e} /\ e.id = uuids + 1 /\ e.trace = t
      /\ e.action = action /\ e.hash = h /\ uuids' = uuids + 1
  BY DEF AddEvent, Issue, Fresh
<1> HIDE DEF e
<1>2. \A u \in Traces \ {t} : EventsOf(u)' = EventsOf(u)
  BY <1>1 DEF EventsOf
<1>3. \A u \in Traces \ {t} : Claims(u)' = Claims(u)
  BY <1>2 DEF Claims
<1>4. Claims(t)' \subseteq Claims(t) \/ (Claims(t) = {} /\ Claims(t)' \subseteq {e})
  BY <1>1 DEF Claims, EventsOf
<1>5. uuids <= uuids'
  <2>1. uuids \in Nat /\ uuids' = uuids + 1
    BY Rows DEF Issue
  <2> QED
    BY <2>1, Grows
<1> QED
  BY <1>1, <1>2, <1>3, <1>4, <1>5 DEF EventStep

\* The activity of one open turn is stamped.
LEMMA TouchMoves ==
    ASSUME TypeInv, NEW t \in Traces, Open(t), runs' = [runs EXCEPT ![t] = Touch(@)],
           UNCHANGED <<clock, events, receipts, specialists, evidence, tombstones,
                       turnSequence, uuids>>
    PROVE  Moves
<1> DEFINE r == Touch(runs[t])
<1>1. /\ r \in Run /\ SameAttempt(r, runs[t]) /\ r.status = runs[t].status
      /\ r.activity = clock /\ r.revision = runs[t].revision
  BY TouchStamps, Rows DEF TypeInv
<1>2. runs' = [runs EXCEPT ![t] = r] /\ runs'[t] = r
  BY DEF TypeInv, TypeOK
<1> HIDE DEF r
<1>3. EventStep /\ \A u \in Traces : EventsOf(u)' = EventsOf(u)
  BY NoEvent
<1>4. Goes(t)
  BY <1>1, <1>2, <1>3 DEF Goes, LooksSame, SameAttempt, Open
<1>5. r.status # "absent"
  BY <1>1 DEF Open, OpenStatuses
<1> QED
  BY <1>1, <1>2, <1>3, <1>4, <1>5, OneTurn DEF SameAttempt

\* The row of one open turn is bumped, while it stays under its attempt.
LEMMA BumpMoves ==
    ASSUME TypeInv, NEW t \in Traces, Open(t), NEW q \in Run, SameAttempt(q, runs[t]),
           q.status \in OpenStatuses, q.status \in {runs[t].status, "active"},
           q.revision = runs[t].revision, NEW n \in Nat \ {0},
           runs' = [runs EXCEPT ![t] = Bump(q, n)],
           \A u \in Traces \ {t} : /\ evidence'[u] = evidence[u]
                                   /\ specialists'[u] = specialists[u]
                                   /\ EventsOf(u)' = EventsOf(u),
           evidence'[t] \in {evidence[t], evidence[t] \cup {runs[t].attempt}},
           EventStep
    PROVE  Moves
<1> DEFINE r == Bump(q, n)
<1>1. /\ r \in Run /\ SameAttempt(r, q) /\ r.status = q.status
      /\ r.activity = clock /\ r.revision = q.revision + n
  BY BumpStamps DEF TypeInv, OpenStatuses
<1>2. runs'[t] = r
  BY DEF TypeInv, TypeOK
<1> HIDE DEF r
<1>3. Stamped(t)
  BY <1>1, <1>2, Rows DEF Stamped
<1>4. Goes(t)
  BY <1>1, <1>2, <1>3 DEF Goes, SameAttempt, Open
<1>5. r.status # "absent" /\ r \in Run
  BY <1>1 DEF OpenStatuses
<1>6. runs' = [runs EXCEPT ![t] = r]
  BY DEF r
<1>7. r.session = runs[t].session /\ r.reservation = runs[t].reservation
  BY <1>1 DEF SameAttempt
<1> QED
  BY <1>4, <1>5, <1>6, <1>7, OneTurn

\* Open turns are closed, each with a stamp.
LEMMA ClosingMoves ==
    ASSUME TypeInv, NEW t \in Traces, Open(t), NEW r \in Run,
           runs' = [runs EXCEPT ![t] = r],
           r.status \in ClosedStatuses \ {"retention_expired"},
           r.revision > runs[t].revision,
           \A u \in Traces \ {t} : /\ evidence'[u] = evidence[u]
                                   /\ specialists'[u] = specialists[u]
                                   /\ EventsOf(u)' = EventsOf(u),
           EventStep
    PROVE  Moves
<1>1. runs'[t] = r
  BY DEF TypeInv, TypeOK
<1>2. r.status \notin OpenStatuses /\ r.status # "absent"
  BY StatusesApart
<1>3. Ends(t)
  BY <1>1, <1>2 DEF Ends, Stamped, Open
<1> QED
  BY <1>2, <1>3, OneTurn

-----------------------------------------------------------------------------
(* Every action moves the turns                                            *)

\* No turn is touched.
LEMMA StillMoves ==
    ASSUME TypeInv, UNCHANGED <<runs, events, specialists, evidence, uuids>>
    PROVE  Moves
<1>1. EventStep /\ \A u \in Traces : EventsOf(u)' = EventsOf(u)
  BY NoEvent
<1>2. \A u \in Traces : TurnStep(u)
  BY <1>1, Untouched
<1>3. \A u \in Traces : ReservationStep(u)
  BY DEF ReservationStep, Open
<1> QED
  BY <1>1, <1>2, <1>3 DEF Moves

\* A new turn has no attempt yet.
LEMMA AppearingMoves ==
    ASSUME TypeInv, NEW t \in Traces, ~Exists(t), NEW r \in Run,
           runs' = [runs EXCEPT ![t] = r],
           r.status \in OpenStatuses, r.pstate \in Idle, r.attempt = 0,
           r.result = 0, r.reservation = 0, r.activity = clock,
           r.session \in Sessions,
           \A u \in Traces \ {t} : /\ evidence'[u] = evidence[u]
                                   /\ specialists'[u] = specialists[u],
           evidence'[t] \in {evidence[t], evidence[t] \cup {runs[t].attempt}},
           UNCHANGED <<events, uuids>>
    PROVE  Moves
<1>1. EventStep /\ \A u \in Traces : EventsOf(u)' = EventsOf(u)
  BY NoEvent
<1>2. runs'[t] = r
  BY DEF TypeInv, TypeOK
<1>3. Appears(t)
  BY <1>2 DEF Appears, Open
<1>4. r.status # "absent"
  BY DEF OpenStatuses
<1> QED
  BY <1>1, <1>3, <1>4, OneTurn

LEMMA CreateRunMoves ==
    ASSUME TypeInv, NEW t \in Traces, NEW s \in Sessions,
           NEW q \in Requests \cup {""}, CreateRun(t, s, q)
    PROVE  Moves
<1>1. CASE Exists(t)
  <2>1. Open(t) /\ runs[t] \in Run
    BY <1>1, Rows DEF CreateRun, Usable, OpenIn
  <2>2. CASE runs[t].status = "active"
    BY <1>1, <2>1, <2>2, TouchMoves DEF CreateRun
  <2>3. CASE runs[t].status # "active"
    <3> DEFINE r == [runs[t] EXCEPT !.status = "active", !.request = q]
    <3>1. r \in Run /\ SameAttempt(r, runs[t]) /\ r.status = "active"
          /\ r.revision = runs[t].revision
      BY <2>1 DEF Run, OpenStatuses, SameAttempt
    <3>2. runs' = [runs EXCEPT ![t] = Bump(r, 1)]
      BY <1>1, <2>3 DEF CreateRun
    <3>3. EventStep /\ \A u \in Traces : EventsOf(u)' = EventsOf(u)
      BY NoEvent DEF CreateRun
    <3>4. r.status \in OpenStatuses /\ r.status \in {runs[t].status, "active"}
      BY <3>1 DEF OpenStatuses
    <3>5. evidence' = evidence /\ specialists' = specialists
      BY DEF CreateRun
    <3> HIDE DEF r
    <3> QED
      BY <2>1, <3>1, <3>2, <3>3, <3>4, <3>5, One, BumpMoves
  <2> QED
    BY <2>2, <2>3
<1>2. CASE ~Exists(t)
  <2> DEFINE new == NewRun(s, "active")
             r == [new EXCEPT !.request = q]
  <2>1. /\ new \in Run /\ new.status = "active" /\ new.pstate = ""
        /\ new.attempt = 0 /\ new.result = 0 /\ new.reservation = 0
        /\ new.session \in Sessions
        /\ new.activity = clock
    BY NewRunStamps DEF OpenStatuses
  <2>2. runs' = [runs EXCEPT ![t] = r]
    BY <1>2 DEF CreateRun
  <2> HIDE DEF new
  <2>3. /\ r \in Run /\ r.status = "active" /\ r.pstate = ""
        /\ r.attempt = 0 /\ r.result = 0 /\ r.reservation = 0
        /\ r.activity = clock /\ r.session \in Sessions
    BY <2>1 DEF Run
  <2>4. UNCHANGED <<evidence, specialists, events, uuids>>
    BY DEF CreateRun
  <2>5. r.status \in OpenStatuses /\ r.pstate \in Idle
    BY <2>3 DEF OpenStatuses, Idle
  <2> HIDE DEF r
  <2> QED
    BY <1>2, <2>2, <2>3, <2>4, <2>5, AppearingMoves
<1> QED
  BY <1>1, <1>2

LEMMA RecordEvidenceMoves ==
    ASSUME TypeInv, NEW t \in Traces, NEW s \in Sessions, NEW live \in BOOLEAN,
           RecordEvidence(t, s, live)
    PROVE  Moves
<1>1. /\ UNCHANGED <<events, uuids>>
      /\ evidence' = [evidence EXCEPT ![t] = @ \cup {runs[t].attempt}]
      /\ \A u \in Traces \ {t} : specialists'[u] = specialists[u]
  BY DEF RecordEvidence, TypeInv, TypeOK
<1>2. /\ evidence'[t] = evidence[t] \cup {runs[t].attempt}
      /\ \A u \in Traces \ {t} : evidence'[u] = evidence[u]
  BY <1>1 DEF TypeInv, TypeOK
<1>3. EventStep /\ \A u \in Traces : EventsOf(u)' = EventsOf(u)
  BY <1>1, NoEvent
<1>4. CASE Exists(t)
  <2>1. Open(t) /\ runs[t] \in Run /\ runs[t].status \in OpenStatuses
    BY <1>4, Rows DEF RecordEvidence, Usable, OpenIn, Open
  <2>2. runs' = [runs EXCEPT ![t] = Bump(runs[t], 1)]
    BY <1>4 DEF RecordEvidence
  <2>3. SameAttempt(runs[t], runs[t])
    BY DEF SameAttempt
  <2> QED
    BY <1>1, <1>2, <1>3, <2>1, <2>2, <2>3, One, BumpMoves
<1>5. CASE ~Exists(t)
  <2> DEFINE new == NewRun(s, "evidence_only")
             r == Bump(new, 1)
  <2>1. /\ new \in Run /\ new.status = "evidence_only" /\ new.pstate = ""
        /\ new.attempt = 0 /\ new.result = 0 /\ new.reservation = 0
        /\ new.session \in Sessions
    BY NewRunStamps DEF OpenStatuses
  <2>2. runs' = [runs EXCEPT ![t] = r]
    BY <1>5 DEF RecordEvidence
  <2> HIDE DEF new
  <2>3. /\ r \in Run /\ SameAttempt(r, new) /\ r.status = "evidence_only"
        /\ r.activity = clock
    BY <2>1, BumpStamps DEF TypeInv
  <2>4. r.status \in OpenStatuses /\ r.pstate \in Idle
    BY <2>1, <2>3 DEF OpenStatuses, Idle, SameAttempt
  <2>5. r.attempt = 0 /\ r.result = 0 /\ r.reservation = 0 /\ r.session \in Sessions
    BY <2>1, <2>3 DEF SameAttempt
  <2> HIDE DEF r
  <2> QED
    BY <1>1, <1>2, <1>5, <2>2, <2>3, <2>4, <2>5, AppearingMoves
<1> QED
  BY <1>4, <1>5

\* An attempt begins.
LEMMA AttemptMoves ==
    ASSUME TypeInv, NEW t \in Traces, NEW r \in Run,
           runs' = [runs EXCEPT ![t] = r],
           r.status = "active", r.pstate = "in_progress", r.attempt = uuids + 1,
           r.result = 0, r.lease = clock + LeaseLength, r.activity = clock,
           uuids' = uuids + 1,
           \A u \in Traces \ {t} : /\ evidence'[u] = evidence[u]
                                   /\ specialists'[u] = specialists[u]
                                   /\ EventsOf(u)' = EventsOf(u),
           \/ /\ ~Exists(t) /\ evidence'[t] = evidence[t] /\ r.reservation = 0
              /\ r.session \in Sessions
           \/ /\ Open(t) /\ r.revision > runs[t].revision
              /\ r.reservation = runs[t].reservation /\ r.session = runs[t].session
              /\ \/ runs[t].pstate \in Idle /\ evidence'[t] = evidence[t]
                 \/ runs[t].pstate = "in_progress" /\ evidence'[t] = {},
           EventStep
    PROVE  Moves
<1>1. runs'[t] = r
  BY DEF TypeInv, TypeOK
<1>2. Attempts(t)
  BY <1>1 DEF Attempts, Stamped, Open, OpenStatuses
<1>3. r.reservation # 0 => /\ Open(t) /\ r.session = runs[t].session
                           /\ r.reservation = runs[t].reservation
  OBVIOUS
<1>4. r.status # "absent"
  OBVIOUS
<1> QED
  BY <1>2, <1>3, <1>4, OneTurn

LEMMA StartAttemptMoves ==
    ASSUME TypeInv, NEW t \in Traces, NEW s \in Sessions, NEW q \in Requests,
           NEW resv, StartAttempt(t, s, q, resv)
    PROVE  Moves
<1>1. /\ UNCHANGED <<events, specialists, evidence>>
      /\ uuids' = uuids + 1
  BY DEF StartAttempt, Issue
<1>2. EventStep /\ \A u \in Traces : EventsOf(u)' = EventsOf(u)
  BY <1>1, NoEvent
<1>3. CASE Exists(t)
  <2>1. Open(t) /\ runs[t] \in Run /\ runs[t].pstate \in Idle
    BY <1>3, Rows
       DEF StartAttempt, CanInsert, CanPromote, CanStart, Admits, OpenIn, Idle
  <2> DEFINE a == Attempt(runs[t], q)
             r == Bump(a, 1)
  <2>2. /\ a \in Run /\ a.status = "active" /\ a.pstate = "in_progress"
        /\ a.attempt = uuids + 1 /\ a.result = 0 /\ a.lease = clock + LeaseLength
        /\ a.reservation = runs[t].reservation /\ a.session = runs[t].session
        /\ a.revision = runs[t].revision
    BY <2>1, AttemptStamps
  <2>3. runs' = [runs EXCEPT ![t] = r]
    BY <1>3 DEF StartAttempt
  <2> HIDE DEF a
  <2>4. /\ r \in Run /\ SameAttempt(r, a) /\ r.status = "active"
        /\ r.activity = clock /\ r.revision = runs[t].revision + 1
    BY <2>2, BumpStamps DEF TypeInv
  <2>5. /\ r.pstate = "in_progress" /\ r.attempt = uuids + 1 /\ r.result = 0
        /\ r.lease = clock + LeaseLength /\ r.session = runs[t].session
        /\ r.reservation = runs[t].reservation
    BY <2>2, <2>4 DEF SameAttempt
  <2>6. r.revision > runs[t].revision
    <3>1. runs[t].revision \in Nat
      BY Rows
    <3> QED
      BY <2>4, <3>1
  <2> HIDE DEF r
  <2> QED
    BY <1>1, <1>2, <2>1, <2>3, <2>4, <2>5, <2>6, AttemptMoves
<1>4. CASE ~Exists(t)
  <2> DEFINE new == NewRun(s, "active")
             r == Attempt(new, q)
  <2>1. /\ new \in Run /\ new.reservation = 0 /\ new.activity = clock
        /\ new.session \in Sessions
    BY NewRunStamps DEF OpenStatuses
  <2>2. runs' = [runs EXCEPT ![t] = r]
    BY <1>4 DEF StartAttempt
  <2> HIDE DEF new
  <2>3. /\ r \in Run /\ r.status = "active" /\ r.pstate = "in_progress"
        /\ r.attempt = uuids + 1 /\ r.result = 0 /\ r.lease = clock + LeaseLength
        /\ r.reservation = 0 /\ r.activity = clock /\ r.session \in Sessions
    BY <2>1, AttemptStamps
  <2> HIDE DEF r
  <2> QED
    BY <1>1, <1>2, <1>4, <2>2, <2>3, AttemptMoves
<1> QED
  BY <1>3, <1>4

LEMMA RecoverAttemptMoves ==
    ASSUME TypeInv, NEW t \in Traces, NEW s \in Sessions, NEW q \in Requests,
           NEW resv, RecoverAttempt(t, s, q, resv)
    PROVE  Moves
<1>1. /\ events' = events \ EventsOf(t) /\ uuids' = uuids + 1
      /\ evidence'[t] = {}
      /\ \A u \in Traces \ {t} : /\ evidence'[u] = evidence[u]
                                 /\ specialists'[u] = specialists[u]
  BY DEF RecoverAttempt, Issue, DiscardAttemptRows, TypeInv, TypeOK
<1>2. \A u \in Traces \ {t} : EventsOf(u)' = EventsOf(u)
  BY <1>1 DEF EventsOf
<1>3. EventStep
  <2>1. uuids <= uuids'
    BY <1>1, Rows, Grows
  <2>2. \A u \in Traces : Claims(u)' \subseteq Claims(u)
    BY <1>1 DEF Claims, EventsOf
  <2> QED
    BY <1>1, <2>1, <2>2 DEF EventStep
<1>4. Open(t) /\ runs[t] \in Run /\ runs[t].pstate = "in_progress"
  BY Rows DEF RecoverAttempt, CanRecover, Shares, Admits, OpenIn
<1> DEFINE a == Attempt(runs[t], q)
           r == Bump(a, 1)
<1>5. /\ a \in Run /\ a.status = "active" /\ a.pstate = "in_progress"
      /\ a.attempt = uuids + 1 /\ a.result = 0 /\ a.lease = clock + LeaseLength
      /\ a.reservation = runs[t].reservation /\ a.session = runs[t].session
      /\ a.revision = runs[t].revision
  BY <1>4, AttemptStamps
<1>6. runs' = [runs EXCEPT ![t] = r]
  BY DEF RecoverAttempt
<1> HIDE DEF a
<1>7. /\ r \in Run /\ SameAttempt(r, a) /\ r.status = "active"
      /\ r.activity = clock /\ r.revision = runs[t].revision + 1
  BY <1>5, BumpStamps DEF TypeInv
<1>8. /\ r.pstate = "in_progress" /\ r.attempt = uuids + 1 /\ r.result = 0
      /\ r.lease = clock + LeaseLength /\ r.session = runs[t].session
      /\ r.reservation = runs[t].reservation
  BY <1>5, <1>7 DEF SameAttempt
<1>9. r.revision > runs[t].revision
  <2>1. runs[t].revision \in Nat
    BY Rows
  <2> QED
    BY <1>7, <2>1
<1> HIDE DEF r
<1> QED
  BY <1>1, <1>2, <1>3, <1>4, <1>6, <1>7, <1>8, <1>9, AttemptMoves

LEMMA MarkPreflightReadyMoves ==
    ASSUME TypeInv, NEW t \in Traces, NEW s \in Sessions, NEW token \in Nat,
           NEW direct \in BOOLEAN, MarkPreflightReady(t, s, token, direct)
    PROVE  Moves
<1>1. /\ UNCHANGED <<events, uuids>>
      /\ evidence'[t] = evidence[t] \cup {token}
      /\ \A u \in Traces \ {t} : /\ evidence'[u] = evidence[u]
                                 /\ specialists'[u] = specialists[u]
  BY DEF MarkPreflightReady, TypeInv, TypeOK
<1>2. EventStep /\ \A u \in Traces : EventsOf(u)' = EventsOf(u)
  BY <1>1, NoEvent
<1>3. /\ Open(t) /\ runs[t] \in Run /\ runs[t].pstate = "in_progress"
      /\ runs[t].attempt = token /\ runs[t].status = "active"
  BY Rows
     DEF MarkPreflightReady, CanCommitReady, Owns, Open, OpenStatuses
<1> DEFINE a == [runs[t] EXCEPT !.pstate = "ready", !.lease = 0, !.result = token]
           n == IF direct THEN 3 ELSE 2
           r == Bump(a, n)
<1>4. /\ a \in Run /\ a.status = "active" /\ a.pstate = "ready"
      /\ a.attempt = token /\ a.result = token
      /\ a.reservation = runs[t].reservation /\ a.session = runs[t].session
      /\ a.revision = runs[t].revision
  BY <1>3 DEF Run
<1>5. runs' = [runs EXCEPT ![t] = r]
  BY DEF MarkPreflightReady
<1>6. n \in Nat /\ n > 0
  OBVIOUS
<1> HIDE DEF a, n
<1>7. /\ r \in Run /\ SameAttempt(r, a) /\ r.status = "active"
      /\ r.activity = clock /\ r.revision = runs[t].revision + n
  BY <1>4, <1>6, BumpStamps DEF TypeInv
<1>8. /\ r.pstate = "ready" /\ r.attempt = token /\ r.result = token
      /\ r.session = runs[t].session /\ r.reservation = runs[t].reservation
  BY <1>4, <1>7 DEF SameAttempt
<1>9. r.revision > runs[t].revision
  <2>1. runs[t].revision \in Nat
    BY Rows
  <2> QED
    BY <1>6, <1>7, <2>1
<1> HIDE DEF r
<1>10. runs'[t] = r
  BY <1>5 DEF TypeInv, TypeOK
<1>11. Publishes(t)
  BY <1>1, <1>3, <1>7, <1>8, <1>9, <1>10 DEF Publishes, Stamped, Open, OpenStatuses
<1>12. r.status # "absent"
  BY <1>7
<1> QED
  BY <1>1, <1>2, <1>3, <1>5, <1>7, <1>8, <1>11, <1>12, OneTurn

LEMMA FailPreflightAttemptMoves ==
    ASSUME TypeInv, NEW t \in Traces, NEW s \in Sessions, NEW token,
           FailPreflightAttempt(t, s, token)
    PROVE  Moves
<1>1. UNCHANGED <<events, uuids, evidence>> /\ specialists' = Expired({t})
  BY DEF FailPreflightAttempt
<1>2. EventStep /\ \A u \in Traces : EventsOf(u)' = EventsOf(u)
  BY <1>1, NoEvent
<1>3. \A u \in Traces \ {t} : specialists'[u] = specialists[u]
  BY <1>1 DEF Expired
<1>4. Open(t)
  BY DEF FailPreflightAttempt, CanFail, Owns, Open, OpenStatuses
<1>5. "preflight_failed" \in ClosedStatuses \ {"retention_expired"}
  BY DEF ClosedStatuses
<1> DEFINE c == ClosedRow(t, "preflight_failed")
           a == [c EXCEPT !.pstate = "", !.attempt = 0, !.lease = 0, !.result = 0]
           r == Bump(a, 1)
<1>6. /\ c \in Run /\ c.status = "preflight_failed"
      /\ c.revision > runs[t].revision
  BY <1>4, <1>5, ClosedRowStamps DEF TypeInv
<1>7. runs' = [runs EXCEPT ![t] = r]
  BY DEF FailPreflightAttempt
<1> HIDE DEF c
<1>8. a \in Run /\ a.status = c.status /\ a.revision = c.revision
  BY <1>6 DEF Run
<1> HIDE DEF a
<1>9. r \in Run /\ r.status = a.status /\ r.revision = a.revision + 1
  BY <1>6, <1>8, BumpStamps DEF TypeInv
<1>10. r.revision > runs[t].revision
  <2>1. runs[t].revision \in Nat /\ a.revision \in Nat
    BY <1>8, Rows DEF Run
  <2> QED
    BY <1>6, <1>8, <1>9, <2>1
<1>11. r.status \in ClosedStatuses \ {"retention_expired"}
  BY <1>5, <1>6, <1>8, <1>9
<1> HIDE DEF r
<1> QED
  BY <1>1, <1>2, <1>3, <1>4, <1>7, <1>9, <1>10, <1>11, ClosingMoves

LEMMA AbandonPreflightReservationMoves ==
    ASSUME TypeInv, NEW t \in Traces, NEW s \in Sessions, NEW resv,
           NEW status \in {"preflight_skipped", "preflight_failed"},
           AbandonPreflightReservation(t, s, resv, status)
    PROVE  Moves
<1>1. UNCHANGED <<events, uuids, evidence, specialists>>
  BY DEF AbandonPreflightReservation
<1>2. EventStep /\ \A u \in Traces : EventsOf(u)' = EventsOf(u)
  BY <1>1, NoEvent
<1>3. Open(t) /\ runs[t] \in Run /\ runs[t].revision \in Nat
  BY Rows DEF AbandonPreflightReservation, CanAbandon, OpenIn
<1>4. status \in ClosedStatuses \ {"retention_expired"}
  BY DEF ClosedStatuses
<1> DEFINE a == [runs[t] EXCEPT !.status = status, !.ended = TRUE,
                                !.reservation = 0, !.pstate = "", !.lease = 0]
           n == IF status = "preflight_failed" THEN 2 ELSE 1
           r == Bump(a, n)
<1>5. a \in Run /\ a.status = status /\ a.revision = runs[t].revision
  BY <1>3, <1>4 DEF Run
<1>6. runs' = [runs EXCEPT ![t] = r]
  BY DEF AbandonPreflightReservation
<1>7. n \in Nat /\ n > 0
  OBVIOUS
<1> HIDE DEF a, n
<1>8. r \in Run /\ r.status = status /\ r.revision = runs[t].revision + n
  BY <1>4, <1>5, <1>7, BumpStamps DEF TypeInv
<1>9. r.revision > runs[t].revision
  BY <1>3, <1>7, <1>8
<1> HIDE DEF r
<1> QED
  BY <1>1, <1>2, <1>3, <1>4, <1>6, <1>8, <1>9, ClosingMoves

\* An observation or a continuation of an open turn is recorded.
LEMMA ContinueMoves ==
    ASSUME TypeInv, NEW t \in Traces, NEW h, Open(t), Issue,
           AddEvent(t, "continue", h, ""), h # "" => Claims(t) = {},
           runs' = [runs EXCEPT ![t] = Bump(@, 1)],
           UNCHANGED <<specialists, evidence>>
    PROVE  Moves
<1>1. EventStep /\ \A u \in Traces \ {t} : EventsOf(u)' = EventsOf(u)
  BY NewEvent
<1>2. SameAttempt(runs[t], runs[t])
  BY DEF SameAttempt
<1>3. runs[t] \in Run /\ runs[t].status \in OpenStatuses
  BY Rows DEF Open
<1>4. runs' = [runs EXCEPT ![t] = Bump(runs[t], 1)]
  OBVIOUS
<1>5. \A u \in Traces \ {t} : /\ evidence'[u] = evidence[u]
                             /\ specialists'[u] = specialists[u]
                             /\ EventsOf(u)' = EventsOf(u)
  BY <1>1
<1>6. /\ runs[t].status \in {runs[t].status, "active"}
      /\ evidence'[t] \in {evidence[t], evidence[t] \cup {runs[t].attempt}}
      /\ EventStep
  BY <1>1
<1> QED
  BY <1>2, <1>3, <1>4, <1>5, <1>6, One, BumpMoves

LEMMA ClaimContinuationMoves ==
    ASSUME TypeInv, NEW t \in Traces, NEW s \in Sessions, NEW h \in Hashes,
           NEW retry \in BOOLEAN, ClaimContinuation(t, s, h, retry)
    PROVE  Moves
<1>1. Open(t)
  BY DEF ClaimContinuation, OpenIn
<1>2. CASE CanClaim(t, retry)
  BY <1>1, <1>2, ContinueMoves DEF ClaimContinuation, CanClaim
<1>3. CASE ~CanClaim(t, retry)
  BY <1>1, <1>3, TouchMoves DEF ClaimContinuation
<1> QED
  BY <1>2, <1>3

LEMMA CommitMoves ==
    ASSUME TypeInv, NEW t \in Traces, NEW s \in Sessions, NEW h \in Hashes,
           NEW status \in BoundStatuses, NEW expected,
           CommitTerminalFinalization(t, s, h, status, expected)
    PROVE  Moves
<1>1. /\ Open(t) /\ AddEvent(t, "terminal", h, status) /\ Issue
      /\ evidence' = evidence /\ specialists' = Expired({t})
  BY DEF CommitTerminalFinalization, CanCommitTerminal, OpenIn
<1>2. EventStep /\ \A u \in Traces \ {t} : EventsOf(u)' = EventsOf(u)
  BY <1>1, NewEvent
<1>3. \A u \in Traces \ {t} : specialists'[u] = specialists[u]
  BY <1>1 DEF Expired
<1>4. status \in ClosedStatuses \ {"retention_expired"}
  BY DEF ClosedStatuses, BoundStatuses
<1> DEFINE c == ClosedRow(t, status)
           b == Bump(c, 1)
           r == [b EXCEPT !.binding = Fresh]
<1>5. c \in Run /\ c.status = status /\ c.revision > runs[t].revision
  BY <1>1, <1>4, ClosedRowStamps DEF TypeInv
<1>6. runs' = [runs EXCEPT ![t] = r]
  BY DEF CommitTerminalFinalization
<1> HIDE DEF c
<1>7. b \in Run /\ b.status = status /\ b.revision = c.revision + 1
  BY <1>4, <1>5, BumpStamps DEF TypeInv
<1>8. b.revision > runs[t].revision
  <2>1. runs[t].revision \in Nat /\ c.revision \in Nat
    BY <1>5, Rows DEF Run
  <2> QED
    BY <1>5, <1>7, <2>1
<1> HIDE DEF b
<1>9. Fresh \in Nat
  BY Rows DEF Fresh
<1>10. r \in Run /\ r.status = status /\ r.revision = b.revision
  BY <1>7, <1>9 DEF Run
<1> HIDE DEF r
<1> QED
  BY <1>1, <1>2, <1>3, <1>4, <1>6, <1>8, <1>10, ClosingMoves

\* A turn that a multi-row close covers, and one that it does not.
LEMMA ClosedEnds ==
    ASSUME TypeInv, NEW t \in Traces, Open(t),
           NEW status \in ClosedStatuses \ {"retention_expired"},
           runs'[t] = ClosedRow(t, status)
    PROVE  TurnStep(t) /\ ReservationStep(t)
<1> DEFINE r == ClosedRow(t, status)
<1>1. r.status = status /\ r.revision > runs[t].revision
  BY ClosedRowStamps DEF TypeInv
<1>2. runs'[t] = r
  OBVIOUS
<1> HIDE DEF r
<1>3. ~Open(t)' /\ Exists(t)'
  BY <1>1, <1>2, StatusesApart DEF Open, Exists
<1>4. Ends(t)
  BY <1>1, <1>2, <1>3 DEF Ends, Stamped
<1> QED
  BY <1>3, <1>4 DEF TurnStep, ReservationStep

LEMMA CloseRunsMoves ==
    ASSUME TypeInv, NEW T \in SUBSET Traces, \A t \in T : Open(t),
           NEW status \in ClosedStatuses \ {"retention_expired"},
           CloseRuns(T, status), UNCHANGED <<events, evidence, uuids>>
    PROVE  Moves
<1>1. EventStep /\ \A u \in Traces : EventsOf(u)' = EventsOf(u)
  BY NoEvent
<1>2. \A u \in T : TurnStep(u) /\ ReservationStep(u)
  BY ClosedEnds DEF CloseRuns
<1>3. ASSUME NEW u \in Traces \ T
      PROVE  TurnStep(u) /\ ReservationStep(u)
  <2>1. runs'[u] = runs[u] /\ specialists'[u] = specialists[u]
    BY <1>3 DEF CloseRuns, Expired
  <2> QED
    BY <1>1, <2>1, Untouched DEF ReservationStep, Open
<1> QED
  BY <1>1, <1>2, <1>3 DEF Moves

LEMMA ReserveSessionTurnMoves ==
    ASSUME TypeInv, NEW t \in Traces, NEW s \in Sessions, ReserveSessionTurn(t, s)
    PROVE  Moves
<1> DEFINE T == OtherOpen(t, s)
           base == NewRun(s, "evidence_only")
           new == [base EXCEPT !.reservation = Fresh, !.pstate = "reserved"]
           reserved == IF Exists(t) THEN Touch(runs[t]) ELSE new
<1>1. runs' = [u \in Traces |-> IF u = t THEN reserved
                                ELSE IF u \in T THEN ClosedRow(u, "abandoned")
                                ELSE runs[u]]
  BY DEF ReserveSessionTurn
<1>2. /\ T \subseteq Traces \ {t} /\ \A u \in T : Open(u)
      /\ \A u \in Traces \ {t} : Open(u) /\ runs[u].session = s => u \in T
  BY DEF OtherOpen, OpenIn
<1>3. /\ UNCHANGED <<events, evidence>> /\ specialists' = Expired(T)
      /\ uuids' \in {uuids, uuids + 1}
  BY DEF ReserveSessionTurn, Issue
<1> HIDE DEF T
<1>4. EventStep /\ \A u \in Traces : EventsOf(u)' = EventsOf(u)
  BY <1>3, NoEvent
<1>5. \A u \in T : TurnStep(u) /\ ReservationStep(u)
  <2> HIDE DEF reserved
  <2>1. "abandoned" \in ClosedStatuses \ {"retention_expired"}
    BY DEF ClosedStatuses
  <2> SUFFICES ASSUME NEW u \in T
               PROVE  TurnStep(u) /\ ReservationStep(u)
    OBVIOUS
  <2>2. u \in Traces /\ Open(u) /\ runs'[u] = ClosedRow(u, "abandoned")
    BY <1>1, <1>2
  <2> QED
    BY <2>1, <2>2, ClosedEnds
<1>6. \A u \in Traces \ (T \cup {t}) : runs'[u] = runs[u]
  BY <1>1
<1>7. \A u \in Traces \ (T \cup {t}) : TurnStep(u) /\ ReservationStep(u)
  <2>1. \A u \in Traces \ (T \cup {t}) : specialists'[u] = specialists[u]
    BY <1>3 DEF Expired
  <2> QED
    BY <1>3, <1>4, <1>6, <2>1, Untouched DEF ReservationStep, Open
<1>8. specialists'[t] = specialists[t]
  BY <1>2, <1>3 DEF Expired
<1>9. runs'[t] = reserved
  BY <1>1
<1>10. CASE Exists(t)
  <2> DEFINE r == Touch(runs[t])
  <2>1. Open(t) /\ runs[t] \in Run
    BY <1>10, Rows DEF ReserveSessionTurn, Usable, OpenIn
  <2>2. /\ SameAttempt(r, runs[t]) /\ r.status = runs[t].status
        /\ r.activity = clock /\ r.revision = runs[t].revision
    BY <2>1, TouchStamps DEF TypeInv
  <2>3. runs'[t] = r
    BY <1>9, <1>10
  <2> HIDE DEF r
  <2>4. Goes(t)
    BY <1>3, <1>4, <1>8, <2>1, <2>2, <2>3
       DEF Goes, LooksSame, SameAttempt, Open
  <2>5. Exists(t)' /\ ReservationStep(t)
    BY <1>10, <2>1, <2>2, <2>3 DEF Exists, ReservationStep, SameAttempt
  <2> QED
    BY <1>4, <1>5, <1>7, <2>4, <2>5 DEF Moves, TurnStep
<1>11. CASE ~Exists(t)
  <2>1. /\ base \in Run /\ base.status = "evidence_only" /\ base.session = s
        /\ base.attempt = 0 /\ base.result = 0 /\ base.activity = clock
    BY NewRunStamps DEF OpenStatuses
  <2>2. runs'[t] = new
    BY <1>9, <1>11
  <2>3. Fresh \in Nat /\ uuids' = uuids + 1 /\ Fresh = uuids + 1
    BY <1>11, Rows, Successor DEF ReserveSessionTurn, Issue, Fresh
  <2> HIDE DEF base
  <2>4. /\ new.status = "evidence_only" /\ new.session = s
        /\ new.attempt = 0 /\ new.result = 0 /\ new.activity = clock
        /\ new.pstate = "reserved" /\ new.reservation = Fresh
    BY <2>1 DEF Run
  <2> HIDE DEF new
  <2>5. Appears(t) /\ Exists(t)'
    BY <1>3, <1>11, <2>2, <2>4 DEF Appears, Idle, Exists, Open, OpenStatuses
  <2>6. \A u \in Traces \ {t} : Open(u)' => runs'[u].session # s
    <3> SUFFICES ASSUME NEW u \in Traces \ {t}, Open(u)'
                 PROVE  runs'[u].session # s
      OBVIOUS
    <3>1. CASE u \in T
      <4>1. runs'[u] = ClosedRow(u, "abandoned") /\ Open(u)
        BY <1>1, <1>2, <3>1
      <4>2. runs'[u].status = "abandoned"
        BY <4>1, ClosedRowStamps DEF ClosedStatuses, TypeInv
      <4> QED
        BY <4>2 DEF Open, OpenStatuses
    <3>2. CASE u \notin T
      BY <1>2, <1>6, <3>2 DEF Open
    <3> QED
      BY <3>1, <3>2
  <2>7. ReservationStep(t)
    BY <2>2, <2>4, <2>6, <2>3 DEF ReservationStep
  <2> QED
    BY <1>4, <1>5, <1>7, <2>5, <2>7 DEF Moves, TurnStep
<1> QED
  BY <1>10, <1>11

\* What a retention sweep does: it gives the stale turns S up, deletes the
\* turns P, and spares what callers see of the rest.
Sweeps(S, P) ==
    /\ \A t \in S : t \in Traces /\ Open(t) /\ runs[t].activity < clock - MinInactivity
    /\ \A t \in P : t \in Traces /\ (t \in S \/ Closed(t)) /\ runs'[t] = Absent
    /\ \A t \in S \ P : /\ runs'[t].status = "retention_expired"
                        /\ runs'[t].session = runs[t].session
                        /\ runs'[t].seq = runs[t].seq
                        /\ runs'[t].binding = runs[t].binding
    /\ \A t \in Traces \ (S \cup P) :
          /\ runs'[t] = runs[t]
          /\ \A e \in EventsOf(t) : e.id = runs[t].binding => e \in events'
          /\ Open(t) => /\ evidence'[t] = evidence[t]
                        /\ specialists'[t] = specialists[t]
                        /\ EventsOf(t)' = EventsOf(t)
    /\ events' \subseteq events
    /\ tombstones' = tombstones \cup
           {[trace |-> t, session |-> runs[t].session, seq |-> runs[t].seq]
               : t \in P}
    /\ UNCHANGED <<clock, turnSequence, uuids>>

LEMMA TrimSweeps ==
    ASSUME TypeInv, NEW cutoff, NEW swept \in SUBSET Traces,
           NEW failed \in SUBSET Traces, NEW old \in SUBSET Traces,
           TrimRuntimeTables(cutoff, swept, failed, old)
    PROVE  \E S, P \in SUBSET Traces : Sweeps(S, P)
<1> DEFINE stale == Stale(cutoff)
           closed == {u \in Traces : Closed(u)} \cup stale
           kept == KeptEvents(swept)
           emptied(t) ==
               /\ t \in swept \/ (evidence[t] = {} /\ specialists[t] = {})
               /\ t \in failed \/ t \notin receipts
               /\ \A e \in kept : e.trace = t => e.id = runs[t].binding
           purged == {t \in old : emptied(t)}
           expired(t) == [runs[t] EXCEPT !.status = "retention_expired",
                                         !.ended = TRUE]
<1>1. /\ swept \cup failed \cup old \subseteq closed
      /\ runs' = [t \in Traces |-> IF t \in purged THEN Absent
                                   ELSE IF t \in stale THEN expired(t)
                                   ELSE runs[t]]
      /\ specialists' = [t \in Traces |->
             IF t \in swept THEN {} ELSE Expired(stale)[t]]
      /\ evidence' = [t \in Traces |-> IF t \in swept THEN {} ELSE evidence[t]]
      /\ events' = {e \in kept : e.trace \notin purged}
      /\ tombstones' = tombstones \cup
             {[trace |-> t, session |-> runs[t].session, seq |-> runs[t].seq]
                 : t \in purged}
      /\ UNCHANGED <<clock, turnSequence, uuids>>
  BY DEF TrimRuntimeTables
<1>2. \A t \in stale : t \in Traces /\ Open(t) /\ runs[t].activity < clock - MinInactivity
  BY DEF Stale
<1>3. /\ kept \subseteq events
      /\ \A e \in events : e.trace \notin swept => e \in kept
      /\ \A e \in events, t \in Traces : e.id = runs[t].binding => e \in kept
  BY DEF KeptEvents
<1>4. \A t \in closed : t \in stale \/ Closed(t)
  OBVIOUS
<1>5. \A t \in Traces : t \in closed => t \in stale \/ ~Open(t)
  BY DEF Closed
<1>6. purged \subseteq old
  OBVIOUS
<1>7. \A t \in Traces : /\ expired(t).status = "retention_expired"
                        /\ expired(t).session = runs[t].session
                        /\ expired(t).seq = runs[t].seq
                        /\ expired(t).binding = runs[t].binding
  <2>1. \A t \in Traces : runs[t] \in Run
    BY Rows
  <2> QED
    BY <2>1 DEF Run
<1> HIDE DEF stale, closed, kept, emptied, purged, expired
<1>8. PICK S \in SUBSET Traces : S = stale
  BY <1>2
<1>9. PICK P \in SUBSET Traces : P = purged
  BY <1>1, <1>6
<1>10. \A t \in P : t \in Traces /\ (t \in S \/ Closed(t)) /\ runs'[t] = Absent
  BY <1>1, <1>4, <1>6, <1>8, <1>9
<1>11. \A t \in S \ P : /\ runs'[t].status = "retention_expired"
                        /\ runs'[t].session = runs[t].session
                        /\ runs'[t].seq = runs[t].seq
                        /\ runs'[t].binding = runs[t].binding
  BY <1>1, <1>7, <1>8, <1>9
<1>12. ASSUME NEW t \in Traces \ (S \cup P)
       PROVE  /\ runs'[t] = runs[t]
              /\ \A e \in EventsOf(t) : e.id = runs[t].binding => e \in events'
              /\ Open(t) => /\ evidence'[t] = evidence[t]
                            /\ specialists'[t] = specialists[t]
                            /\ EventsOf(t)' = EventsOf(t)
  <2>1. runs'[t] = runs[t]
    BY <1>1, <1>8, <1>9
  <2>2. \A e \in EventsOf(t) : e.id = runs[t].binding => e \in events'
    BY <1>1, <1>3, <1>9 DEF EventsOf
  <2>3. ASSUME Open(t)
        PROVE  /\ evidence'[t] = evidence[t] /\ specialists'[t] = specialists[t]
               /\ EventsOf(t)' = EventsOf(t)
    <3>1. t \notin swept
      BY <1>1, <1>5, <1>8, <2>3
    <3>2. evidence'[t] = evidence[t] /\ specialists'[t] = specialists[t]
      BY <1>1, <1>8, <3>1 DEF Expired
    <3>3. EventsOf(t)' = EventsOf(t)
      BY <1>1, <1>3, <1>9, <3>1 DEF EventsOf
    <3> QED
      BY <3>2, <3>3
  <2> QED
    BY <2>1, <2>2, <2>3
<1>13. events' \subseteq events
  BY <1>1, <1>3
<1>14. Sweeps(S, P)
  BY <1>1, <1>2, <1>8, <1>9, <1>10, <1>11, <1>12, <1>13 DEF Sweeps
<1> QED
  BY <1>14

LEMMA SweepMoves ==
    ASSUME TypeInv, NEW S \in SUBSET Traces, NEW P \in SUBSET Traces, Sweeps(S, P)
    PROVE  Moves
<1>1. EventStep
  <2>1. uuids' = uuids /\ uuids <= uuids' /\ events' \subseteq events
    BY Rows DEF Sweeps
  <2>2. \A t \in Traces : Claims(t)' \subseteq Claims(t)
    BY <2>1 DEF Claims, EventsOf
  <2> QED
    BY <2>1, <2>2 DEF EventStep
<1>2. Absent.status = "absent" /\ Absent.attempt = 0
  BY DEF Absent
<1>3. ASSUME NEW t \in P
      PROVE  TurnStep(t) /\ ReservationStep(t)
  <2>1. runs'[t] = Absent /\ (Closed(t) \/ t \in S)
    BY <1>3 DEF Sweeps
  <2>2. ~Open(t)' /\ ~Exists(t)' /\ runs'[t].attempt = 0
    BY <1>2, <2>1 DEF Open, Exists, OpenStatuses
  <2>3. Ends(t) \/ Rests(t)
    BY <1>3, <2>1, <2>2 DEF Ends, Rests, Closed, Sweeps
  <2> QED
    BY <2>2, <2>3 DEF TurnStep, ReservationStep
<1>4. ASSUME NEW t \in S \ P
      PROVE  TurnStep(t) /\ ReservationStep(t)
  <2>1. /\ runs'[t].status = "retention_expired" /\ Open(t)
        /\ runs[t].activity < clock - MinInactivity
    BY <1>4 DEF Sweeps
  <2>2. ~Open(t)' /\ Exists(t)'
    BY <2>1 DEF Open, Exists, OpenStatuses
  <2> QED
    BY <2>1, <2>2 DEF TurnStep, ReservationStep, Ends
<1>5. ASSUME NEW t \in Traces \ (S \cup P)
      PROVE  TurnStep(t) /\ ReservationStep(t)
  <2>1. runs'[t] = runs[t]
    BY DEF Sweeps
  <2>2. ReservationStep(t)
    BY <2>1 DEF ReservationStep, Open
  <2>3. CASE Open(t)
    BY <2>1, <2>2, <2>3, Untouched DEF Sweeps
  <2>4. CASE ~Open(t)
    BY <2>1, <2>2, <2>4 DEF TurnStep, Rests, Open, Exists
  <2> QED
    BY <2>3, <2>4
<1> QED
  BY <1>1, <1>3, <1>4, <1>5 DEF Moves

LEMMA PreflightMoves ==
    ASSUME TypeInv, NEW t \in Traces, NEW s \in Sessions, PreflightNext(t, s)
    PROVE  Moves
<1>1. Tokens \subseteq Nat
  BY Rows DEF Tokens
<1>2. CASE \E q \in Requests \cup {""} : CreateRun(t, s, q)
  BY <1>2, CreateRunMoves
<1>3. CASE ReserveSessionTurn(t, s)
  BY <1>3, ReserveSessionTurnMoves
<1>4. CASE \E live \in BOOLEAN : RecordEvidence(t, s, live)
  BY <1>4, RecordEvidenceMoves
<1>5. ASSUME NEW q \in Requests, NEW resv \in Tokens,
             \/ StartAttempt(t, s, q, resv) \/ RecoverAttempt(t, s, q, resv)
             \/ ReuseAttempt(t, s, q, resv)
      PROVE  Moves
  <2>1. CASE ReuseAttempt(t, s, q, resv)
    <3>1. Open(t)
      BY <2>1 DEF ReuseAttempt, CanReuseReady, CanReuse, Shares, Admits, OpenIn
    <3> QED
      BY <2>1, <3>1, TouchMoves DEF ReuseAttempt
  <2> QED
    BY <1>5, <2>1, StartAttemptMoves, RecoverAttemptMoves
<1>6. ASSUME NEW token \in Tokens, NEW direct \in BOOLEAN,
             MarkPreflightReady(t, s, token, direct)
      PROVE  Moves
  BY <1>1, <1>6, MarkPreflightReadyMoves
<1>7. ASSUME NEW token \in Tokens, ReplayPreflightReady(t, s, token)
      PROVE  Moves
  BY <1>7, TouchMoves DEF ReplayPreflightReady, CanReplayReady, OpenIn
<1>8. ASSUME NEW token \in Tokens, FailPreflightAttempt(t, s, token)
      PROVE  Moves
  BY <1>8, FailPreflightAttemptMoves
<1>9. ASSUME NEW token \in Tokens,
             NEW status \in {"preflight_skipped", "preflight_failed"},
             AbandonPreflightReservation(t, s, token, status)
      PROVE  Moves
  BY <1>9, AbandonPreflightReservationMoves
<1> QED
  BY <1>2, <1>3, <1>4, <1>5, <1>6, <1>7, <1>8, <1>9 DEF PreflightNext

LEMMA FinalizationMoves ==
    ASSUME TypeInv, NEW t \in Traces, NEW s \in Sessions, FinalizationNext(t, s)
    PROVE  Moves
<1>1. CASE RecordFinalization(t)
  BY <1>1, ContinueMoves DEF RecordFinalization
<1>2. CASE \E h \in Hashes, retry \in BOOLEAN : ClaimContinuation(t, s, h, retry)
  BY <1>2, ClaimContinuationMoves
<1>3. CASE \E h \in Hashes, status \in BoundStatuses, stale \in {0, 1} :
               CommitTerminalFinalization(t, s, h, status, runs[t].revision - stale)
  BY <1>3, CommitMoves
<1>4. CASE CloseTurnEvidence(t, s, "failed")
  <2>1. \A u \in {t} : Open(u)
    BY <1>4 DEF CloseTurnEvidence, OpenIn
  <2> QED
    BY <1>4, <2>1, CloseRunsMoves DEF CloseTurnEvidence, ClosedStatuses
<1>5. CASE CompleteRun(t, "completed")
  <2>1. \A u \in {t} : Open(u)
    BY <1>5 DEF CompleteRun
  <2> QED
    BY <1>5, <2>1, CloseRunsMoves DEF CompleteRun, ClosedStatuses, BoundStatuses
<1> QED
  BY <1>1, <1>2, <1>3, <1>4, <1>5 DEF FinalizationNext

LEMMA RetentionMoves ==
    ASSUME TypeInv, RetentionNext
    PROVE  Moves
<1>1. ASSUME NEW q \in Requests, FailCanaryRuns(q)
      PROVE  Moves
  <2> DEFINE T == {t \in Traces : Open(t) /\ runs[t].binding = 0
                                          /\ runs[t].request = q}
  <2>1. CloseRuns(T, "canary_failed") /\ UNCHANGED <<events, evidence, uuids>>
    BY <1>1 DEF FailCanaryRuns
  <2>2. T \in SUBSET Traces /\ \A t \in T : Open(t)
    OBVIOUS
  <2> HIDE DEF T
  <2> QED
    BY <2>1, <2>2, CloseRunsMoves DEF ClosedStatuses
<1>2. ASSUME NEW cutoff \in {0, clock}, NEW swept \in SUBSET Traces,
             NEW failed \in SUBSET Traces, NEW old \in SUBSET Traces,
             TrimRuntimeTables(cutoff, swept, failed, old)
      PROVE  Moves
  BY <1>2, TrimSweeps, SweepMoves
<1> QED
  BY <1>1, <1>2 DEF RetentionNext

\* Every step of the store is a move of its turns.
LEMMA NextMoves ==
    ASSUME TypeInv, Next
    PROVE  Moves
<1>1. CASE Tick
  BY <1>1, StillMoves DEF Tick
<1>2. ASSUME NEW t \in Traces, NEW s \in Sessions,
             PreflightNext(t, s) \/ FinalizationNext(t, s)
      PROVE  Moves
  BY <1>2, PreflightMoves, FinalizationMoves
<1> QED
  BY <1>1, <1>2, RetentionMoves DEF Next

-----------------------------------------------------------------------------
(* The inductive invariant of the promises                                 *)

\* The columns of an attempt fit together.  A turn that has no attempt shows
\* nothing of one; the attempt in progress holds a lease that its last
\* activity bounds; a published attempt shows its own recipe and decision.
AttemptColumns(t) ==
    LET r == runs[t]
    IN  /\ r.activity <= clock
        /\ evidence[t] \subseteq {0, r.attempt}
        /\ r.pstate \in Idle => r.attempt = 0 /\ r.result = 0
        /\ r.pstate = "in_progress" =>
              /\ r.attempt # 0 /\ r.result = 0 /\ r.status = "active"
              /\ r.lease <= r.activity + LeaseLength
        /\ r.pstate = "ready" =>
              r.attempt # 0 /\ r.result = r.attempt /\ r.attempt \in evidence[t]

AttemptInv ==
    \A t \in Traces : /\ Open(t) => AttemptColumns(t)
                      /\ ~Exists(t) => runs[t].attempt = 0

EventsIssued == \A e \in events : e.id <= uuids

PInv == IInv /\ AttemptInv /\ EventsIssued /\ UniqueReservedTurn /\ ClaimedOnce

LEMMA InitPInv ==
    ASSUME Init
    PROVE  PInv
<1>1. IInv
  BY InitInv
<1>2. \A t \in Traces : ~Open(t) /\ runs[t].attempt = 0 /\ Claims(t) = {}
  BY DEF Init, Open, Absent, OpenStatuses, Claims, EventsOf
<1> QED
  BY <1>1, <1>2
     DEF PInv, AttemptInv, EventsIssued, UniqueReservedTurn, ClaimedOnce, Init

LEMMA ClockGrows ==
    ASSUME TypeInv, Next
    PROVE  clock' \in Nat /\ clock <= clock'
<1>1. clock' = clock \/ clock' = clock + 1
  <2>1. CASE Tick
    BY <2>1 DEF Tick
  <2>2. ASSUME NEW t \in Traces, NEW s \in Sessions, PreflightNext(t, s)
        PROVE  clock' = clock
    BY <2>2 DEF PreflightNext, CreateRun, ReserveSessionTurn, RecordEvidence,
                StartAttempt, RecoverAttempt, ReuseAttempt, MarkPreflightReady,
                ReplayPreflightReady, FailPreflightAttempt,
                AbandonPreflightReservation
  <2>3. ASSUME NEW t \in Traces, NEW s \in Sessions, FinalizationNext(t, s)
        PROVE  clock' = clock
    BY <2>3 DEF FinalizationNext, RecordFinalization, ClaimContinuation,
                CommitTerminalFinalization, CloseTurnEvidence, CompleteRun
  <2>4. CASE RetentionNext
    BY <2>4 DEF RetentionNext, FailCanaryRuns, TrimRuntimeTables
  <2> QED
    BY <2>1, <2>2, <2>3, <2>4 DEF Next
<1>2. clock \in Nat
  BY Rows
<1> QED
  BY <1>1, <1>2, Grows

LEMMA Leases ==
    ASSUME TypeInv, NEW t \in Traces
    PROVE  /\ clock \in Nat /\ uuids \in Nat /\ LeaseLength \in Nat
           /\ runs[t].activity \in Nat /\ runs[t].lease \in Nat
           /\ runs[t].attempt \in Nat
BY BoundsAssumption DEF TypeInv, TypeOK, Run


\* An open turn stays open under its attempt.
LEMMA GoesKeepsColumns ==
    ASSUME TypeInv, TypeInv', NEW t \in Traces, Goes(t), AttemptColumns(t),
           clock <= clock'
    PROVE  AttemptColumns(t)'
<1>1. /\ runs'[t].pstate = runs[t].pstate /\ runs'[t].attempt = runs[t].attempt
      /\ runs'[t].result = runs[t].result /\ runs'[t].lease = runs[t].lease
      /\ evidence'[t] \in {evidence[t], evidence[t] \cup {runs[t].attempt}}
      /\ runs'[t].activity \in {runs[t].activity, clock}
      /\ runs'[t].status \in {runs[t].status, "active"}
  BY DEF Goes
<1>2. /\ clock \in Nat /\ clock' \in Nat /\ LeaseLength \in Nat
      /\ runs[t].activity \in Nat /\ runs'[t].activity \in Nat
      /\ runs[t].lease \in Nat
  <2>1. clock' \in Nat
    BY DEF TypeInv, TypeOK
  <2> QED
    BY Leases, <1>1, <2>1
<1>3. /\ runs[t].activity <= clock
      /\ evidence[t] \subseteq {0, runs[t].attempt}
      /\ runs[t].pstate \in Idle => runs[t].attempt = 0 /\ runs[t].result = 0
      /\ runs[t].pstate = "in_progress" =>
            /\ runs[t].attempt # 0 /\ runs[t].result = 0
            /\ runs[t].status = "active"
            /\ runs[t].lease <= runs[t].activity + LeaseLength
      /\ runs[t].pstate = "ready" =>
            /\ runs[t].attempt # 0 /\ runs[t].result = runs[t].attempt
            /\ runs[t].attempt \in evidence[t]
  BY DEF AttemptColumns
<1>4. runs'[t].activity <= clock'
  BY <1>1, <1>2, <1>3
<1>5. runs[t].lease <= runs[t].activity + LeaseLength =>
          runs'[t].lease <= runs'[t].activity + LeaseLength
  <2>1. runs[t].activity <= runs'[t].activity
    BY <1>1, <1>2, <1>3
  <2> QED
    BY <1>1, <1>2, <2>1
<1>6. evidence'[t] \subseteq {0, runs'[t].attempt}
  BY <1>1, <1>3
<1>7. evidence[t] \subseteq evidence'[t]
  BY <1>1
<1> QED
  BY <1>1, <1>3, <1>4, <1>5, <1>6, <1>7 DEF AttemptColumns

LEMMA BeginsWithColumns ==
    ASSUME TypeInv, TypeInv', NEW t \in Traces, Attempts(t) \/ Appears(t),
           clock <= clock', Open(t) => AttemptColumns(t),
           ~Exists(t) => evidence[t] = {} /\ runs[t].attempt = 0
    PROVE  AttemptColumns(t)'
<1>1. /\ clock \in Nat /\ clock' \in Nat /\ LeaseLength \in Nat
      /\ uuids \in Nat /\ runs[t].attempt \in Nat
  <2>1. clock' \in Nat
    BY DEF TypeInv, TypeOK
  <2> QED
    BY Leases, <2>1
<1>2. runs'[t].activity <= clock'
  BY <1>1 DEF Attempts, Appears
<1>3. CASE Attempts(t)
  <2>1. /\ runs'[t].pstate = "in_progress" /\ runs'[t].attempt = uuids + 1
        /\ runs'[t].result = 0 /\ runs'[t].lease = clock + LeaseLength
        /\ runs'[t].activity = clock /\ runs'[t].status = "active"
    BY <1>3 DEF Attempts
  <2>2. runs'[t].attempt # 0 /\ runs'[t].lease <= runs'[t].activity + LeaseLength
    BY <1>1, <2>1
  <2>3. evidence'[t] \subseteq {0}
    <3>1. CASE ~Exists(t) /\ evidence'[t] = evidence[t]
      BY <3>1
    <3>2. CASE Open(t) /\ runs[t].pstate \in Idle /\ evidence'[t] = evidence[t]
      BY <3>2 DEF AttemptColumns
    <3>3. CASE evidence'[t] = {}
      BY <3>3
    <3> QED
      BY <1>3, <3>1, <3>2, <3>3 DEF Attempts
  <2> QED
    BY <1>2, <2>1, <2>2, <2>3 DEF AttemptColumns, Idle
<1>4. CASE Appears(t)
  <2>1. /\ runs'[t].pstate \in Idle /\ runs'[t].attempt = 0
        /\ runs'[t].result = 0 /\ evidence'[t] \subseteq {0}
    BY <1>4 DEF Appears
  <2> QED
    BY <1>2, <2>1 DEF AttemptColumns, Idle
<1> QED
  BY <1>3, <1>4

LEMMA PublishedColumns ==
    ASSUME TypeInv, TypeInv', NEW t \in Traces, Publishes(t), AttemptColumns(t),
           clock <= clock'
    PROVE  AttemptColumns(t)'
<1>1. /\ runs[t].pstate = "in_progress" /\ runs'[t].pstate = "ready"
      /\ runs'[t].attempt = runs[t].attempt /\ runs'[t].result = runs[t].attempt
      /\ runs'[t].activity = clock
      /\ evidence'[t] = evidence[t] \cup {runs[t].attempt}
  BY DEF Publishes
<1>2. runs[t].attempt # 0 /\ evidence[t] \subseteq {0, runs[t].attempt}
  BY <1>1 DEF AttemptColumns
<1> QED
  BY <1>1, <1>2 DEF AttemptColumns, Idle

LEMMA NextAttempts ==
    ASSUME IInv, TypeInv', AttemptInv, Next
    PROVE  AttemptInv'
<1>1. Moves /\ clock <= clock' /\ TypeInv
  BY NextMoves, ClockGrows DEF IInv
<1>2. ASSUME NEW t \in Traces, Open(t)'
      PROVE  AttemptColumns(t)'
  <2>1. \/ Goes(t) /\ Open(t)
        \/ Attempts(t) \/ Appears(t)
        \/ Publishes(t) /\ Open(t)
    BY <1>1, <1>2 DEF Moves, TurnStep, Goes, Publishes, Ends, Rests
  <2>2. Open(t) => AttemptColumns(t)
    BY DEF AttemptInv
  <2>3. ~Exists(t) => evidence[t] = {} /\ runs[t].attempt = 0
    BY DEF AttemptInv, IInv, NoResurrection
  <2> QED
    BY <1>1, <2>1, <2>2, <2>3, GoesKeepsColumns, BeginsWithColumns,
       PublishedColumns
<1>3. ASSUME NEW t \in Traces, ~Exists(t)'
      PROVE  runs'[t].attempt = 0
  <2>1. runs'[t].attempt = 0 \/ runs'[t] = runs[t]
    BY <1>1, <1>3 DEF Moves, TurnStep
  <2>2. runs'[t] = runs[t] => ~Exists(t)
    BY <1>3 DEF Exists
  <2> QED
    BY <2>1, <2>2 DEF AttemptInv
<1> QED
  BY <1>2, <1>3 DEF AttemptInv

LEMMA NextPInv ==
    ASSUME PInv, Next
    PROVE  PInv'
<1>1. IInv /\ IInv' /\ TypeInv /\ TypeInv' /\ Moves
  BY NextInv, NextMoves DEF PInv, IInv
<1>2. AttemptInv'
  BY <1>1, NextAttempts DEF PInv
<1>3. EventsIssued'
  <2> SUFFICES ASSUME NEW e \in events'
               PROVE  e.id <= uuids'
    BY DEF EventsIssued
  <2>1. uuids \in Nat /\ uuids' \in Nat /\ uuids <= uuids'
    BY <1>1 DEF TypeInv, TypeOK, Moves, EventStep
  <2>2. CASE e \in events
    <3>1. e.id \in Nat /\ e.id <= uuids
      BY <1>1, <2>2 DEF PInv, EventsIssued, TypeInv, TypeOK, Event
    <3> QED
      BY <2>1, <3>1
  <2>3. CASE e \notin events
    <3>1. e.id = uuids'
      BY <1>1, <2>3 DEF Moves, EventStep
    <3> QED
      BY <2>1, <3>1
  <2> QED
    BY <2>2, <2>3
<1>4. UniqueReservedTurn'
  <2> SUFFICES ASSUME NEW t \in Traces, NEW u \in Traces,
                      Open(t)', runs'[t].reservation # 0,
                      Open(u)', runs'[u].reservation # 0,
                      runs'[t].session = runs'[u].session, t # u
               PROVE  FALSE
    BY DEF UniqueReservedTurn
  <2>1. /\ Open(t) /\ runs'[t].session = runs[t].session
        /\ runs'[t].reservation = runs[t].reservation
    BY <1>1 DEF Moves, ReservationStep
  <2>2. /\ Open(u) /\ runs'[u].session = runs[u].session
        /\ runs'[u].reservation = runs[u].reservation
    BY <1>1 DEF Moves, ReservationStep
  <2> QED
    BY <2>1, <2>2 DEF PInv, UniqueReservedTurn
<1>5. ClaimedOnce'
  <2> SUFFICES ASSUME NEW t \in Traces, NEW e \in Claims(t)', NEW f \in Claims(t)'
               PROVE  e = f
    BY DEF ClaimedOnce
  <2>1. \/ Claims(t)' \subseteq Claims(t)
        \/ \E g : Claims(t)' \subseteq {g}
    BY <1>1 DEF Moves, EventStep
  <2> QED
    BY <2>1 DEF PInv, ClaimedOnce
<1> QED
  BY <1>1, <1>2, <1>3, <1>4, <1>5 DEF PInv

LEMMA StutterPInv ==
    ASSUME PInv, UNCHANGED storeVars
    PROVE  PInv'
<1>1. /\ clock' = clock /\ runs' = runs /\ events' = events
      /\ receipts' = receipts /\ specialists' = specialists
      /\ evidence' = evidence /\ tombstones' = tombstones
      /\ turnSequence' = turnSequence /\ uuids' = uuids
  BY DEF storeVars
<1>2. IInv'
  BY <1>1 DEF PInv, IInv, TypeInv, TypeOK, SequenceBound, EventIdsIssued,
              OpenTurnConsistent, TerminalBindingExact, FailureReceiptTruth,
              NoResurrection, SequencesDistinct, Open, Exists, Retired, EventsOf
<1>3. AttemptInv' /\ EventsIssued'
  BY <1>1 DEF PInv, AttemptInv, AttemptColumns, EventsIssued, Open, Exists
<1>4. UniqueReservedTurn' /\ ClaimedOnce'
  BY <1>1 DEF PInv, UniqueReservedTurn, ClaimedOnce, Open, Claims, EventsOf
<1> QED
  BY <1>2, <1>3, <1>4 DEF PInv

-----------------------------------------------------------------------------
(* Theorems                                                                *)

\* What relates attempts, leases, evidence, reservations and continuations
\* holds in every reachable state of the store.
THEOREM PromiseInvariance == Spec => []PInv
<1>1. Init => PInv
  BY InitPInv
<1>2. PInv /\ [Next]_storeVars => PInv'
  BY NextPInv, StutterPInv
<1> QED
  BY <1>1, <1>2, PTL DEF Spec

\* An attempt that took over an expired one shows none of its evidence, of which
\* worker receipts without a work unit are not a part, and none of its recipes,
\* whenever the late owner still calls.
THEOREM AttemptsAreIsolated == Spec => []AttemptIsolated
<1>1. PInv => AttemptIsolated
  <2> SUFFICES ASSUME PInv, NEW t \in Traces, Open(t)
               PROVE  /\ evidence[t] \subseteq {0, runs[t].attempt}
                      /\ IF runs[t].pstate = "ready"
                         THEN /\ runs[t].attempt # 0
                              /\ runs[t].result = runs[t].attempt
                              /\ runs[t].attempt \in evidence[t]
                         ELSE runs[t].result = 0
    BY DEF AttemptIsolated, EvidenceOfCurrentAttempt, ReadyIsOwners
  <2>1. AttemptColumns(t)
    BY DEF PInv, AttemptInv
  <2>2. runs[t].pstate \in {"", "reserved", "in_progress", "ready"}
    BY DEF PInv, IInv, TypeInv, TypeOK, Run
  <2> QED
    BY <2>1, <2>2 DEF AttemptColumns, Idle
<1> QED
  BY <1>1, PromiseInvariance, PTL

\* A Stop hook that names no turn meets one open reserved turn, and claims
\* one continuation of it however often it is delivered.
THEOREM StopsMeetOneTurn == Spec => []StopMeetsOneTurn
<1>1. PInv => StopMeetsOneTurn
  BY DEF PInv, StopMeetsOneTurn
<1> QED
  BY <1>1, PromiseInvariance, PTL

\* A published recipe stays under its attempt while the turn is open, and a
\* sweep waits for the lease of an attempt: a lease is renewed with the
\* activity of its turn, and the idle limit of a sweep exceeds a lease.
THEOREM AttemptsStay == Spec => AttemptsAreKept
<1> DEFINE Stable ==
        \A t \in Traces : Open(t) /\ runs[t].pstate = "ready" /\ Open(t)' =>
            /\ runs'[t].pstate = "ready"
            /\ runs'[t].attempt = runs[t].attempt
            /\ runs'[t].result = runs[t].result
           Spares ==
        \A t \in Traces :
            Open(t) /\ runs[t].pstate = "in_progress"
                    /\ runs'[t].status = "retention_expired"
                => LeaseExpired(runs[t])
<1>1. PInv /\ [Next]_storeVars => [Stable]_storeVars /\ [Spares]_storeVars
  <2> SUFFICES ASSUME PInv, Next
               PROVE  Stable /\ Spares
    OBVIOUS
  <2>1. TypeInv /\ Moves
    BY NextMoves DEF PInv, IInv
  <2>2. ASSUME NEW t \in Traces, Open(t), runs[t].pstate = "ready", Open(t)'
        PROVE  /\ runs'[t].pstate = "ready"
               /\ runs'[t].attempt = runs[t].attempt
               /\ runs'[t].result = runs[t].result
    <3>1. Exists(t)
      BY <2>1, <2>2, Rows
    <3>2. Goes(t)
      BY <2>1, <2>2, <3>1
         DEF Moves, TurnStep, Attempts, Publishes, Appears, Ends, Rests, Idle
    <3> QED
      BY <2>2, <3>2 DEF Goes
  <2>3. ASSUME NEW t \in Traces, Open(t), runs[t].pstate = "in_progress",
               runs'[t].status = "retention_expired"
        PROVE  runs[t].lease < clock
    <3>1. ~Open(t)'
      BY <2>3 DEF Open, OpenStatuses
    <3>2. runs[t].activity < clock - MinInactivity
      BY <2>1, <2>3, <3>1
         DEF Moves, TurnStep, Goes, Attempts, Publishes, Appears, Ends, Rests
    <3>3. runs[t].lease <= runs[t].activity + LeaseLength
      BY <2>3 DEF PInv, AttemptInv, AttemptColumns
    <3>4. /\ runs[t].lease \in Nat /\ runs[t].activity \in Nat /\ clock \in Nat
          /\ LeaseLength \in Nat /\ MinInactivity \in Nat
      BY <2>1, Leases, BoundsAssumption
    <3> QED
      BY <3>2, <3>3, <3>4, LeaseAssumption
  <2> QED
    BY <2>2, <2>3 DEF LeaseExpired
<1>2. Spec => [][Stable]_storeVars /\ [][Spares]_storeVars
  BY <1>1, PromiseInvariance, PTL DEF Spec
<1> QED
  BY <1>2, PTL DEF AttemptsAreKept, ReadyIsStable, RetentionSparesLeases

\* The evidence revision that a verdict is compared with moves whenever the
\* turn it was computed from does, for any order of writers and of deletes.
THEOREM RevisionsFenceVerdicts == Spec => ChangeAdvancesRevision
<1> DEFINE Advances ==
        \A t \in Traces : Open(t) /\ Exists(t)' =>
            \/ /\ evidence'[t] = evidence[t]
               /\ specialists'[t] = specialists[t]
               /\ EventsOf(t)' = EventsOf(t)
               /\ runs'[t].status = runs[t].status
               /\ runs'[t].pstate = runs[t].pstate
               /\ runs'[t].attempt = runs[t].attempt
            \/ runs'[t].revision > runs[t].revision
            \/ runs'[t].status = "retention_expired"
<1>1. PInv /\ [Next]_storeVars => [Advances]_storeVars
  <2> SUFFICES ASSUME PInv, Next, NEW t \in Traces, Open(t), Exists(t)'
               PROVE  LooksSame(t) \/ Stamped(t)
                      \/ runs'[t].status = "retention_expired"
    BY DEF LooksSame, Stamped
  <2>1. TypeInv /\ Moves
    BY NextMoves DEF PInv, IInv
  <2>2. Exists(t)
    BY <2>1, Rows
  <2> QED
    BY <2>1, <2>2 DEF Moves, TurnStep, Goes, Attempts, Publishes, Appears,
                      Ends, Rests
<1>2. Spec => [][Advances]_storeVars
  BY <1>1, PromiseInvariance, PTL DEF Spec
<1> QED
  BY <1>2, PTL DEF ChangeAdvancesRevision

-----------------------------------------------------------------------------
(* Authority                                                               *)

LEMMA CommitShape ==
    ASSUME TypeInv, NEW t \in Traces, NEW s, NEW h, NEW status \in BoundStatuses,
           NEW expected, CommitTerminalFinalization(t, s, h, status, expected)
    PROVE  /\ Open(t) /\ runs[t].binding = 0
           /\ runs'[t].status = status /\ runs'[t].ended
           /\ runs'[t].binding = uuids + 1
           /\ runs'[t].session = runs[t].session /\ runs'[t].seq = runs[t].seq
           /\ \A u \in Traces \ {t} : runs'[u] = runs[u]
           /\ events' = events \cup {[id |-> uuids + 1, trace |-> t,
                                      action |-> "terminal", hash |-> h,
                                      status |-> status]}
           /\ tombstones' = tombstones /\ uuids' = uuids + 1
<1> DEFINE c == ClosedRow(t, status)
           b == Bump(c, 1)
           r == [b EXCEPT !.binding = Fresh]
<1>1. Open(t) /\ runs[t].binding = 0
  BY DEF CommitTerminalFinalization, CanCommitTerminal, OpenIn
<1>2. status \in ClosedStatuses \ {"retention_expired"}
  BY DEF ClosedStatuses, BoundStatuses
<1>3. c \in Run /\ SameIdentity(c, runs[t]) /\ c.status = status /\ c.ended = TRUE
  BY <1>1, <1>2, ClosedRowIs, ClosedRowStamps DEF TypeInv
<1>4. runs' = [runs EXCEPT ![t] = r]
  BY DEF CommitTerminalFinalization
<1> HIDE DEF c
<1>5. b \in Run
  BY <1>2, <1>3, BumpStamps DEF TypeInv
<1>6. SameIdentity(b, c) /\ b.status = c.status /\ b.ended = c.ended
  BY <1>3, BumpKeeps
<1> HIDE DEF b
<1>7. /\ r.status = b.status /\ r.ended = b.ended /\ r.binding = Fresh
      /\ r.session = b.session /\ r.seq = b.seq
  BY <1>5 DEF Run
<1> HIDE DEF r
<1>8. /\ r.status = status /\ r.ended /\ r.binding = uuids + 1
      /\ r.session = runs[t].session /\ r.seq = runs[t].seq
  BY <1>3, <1>6, <1>7 DEF SameIdentity, Fresh
<1>9. runs'[t] = r /\ \A u \in Traces \ {t} : runs'[u] = runs[u]
  BY <1>4 DEF TypeInv, TypeOK
<1>10. events' = events \cup {[id |-> uuids + 1, trace |-> t,
                               action |-> "terminal", hash |-> h,
                               status |-> status]}
  BY DEF CommitTerminalFinalization, AddEvent, Fresh
<1>11. tombstones' = tombstones /\ uuids' = uuids + 1
  BY DEF CommitTerminalFinalization, Issue
<1> QED
  BY <1>1, <1>8, <1>9, <1>10, <1>11

\* The row of a closed turn is left alone until retention deletes it.
LEMMA ClosedRowsStay ==
    ASSUME TypeInv, Next, NEW t \in Traces, Closed(t), Exists(t)'
    PROVE  runs'[t] = runs[t]
<1>1. Ordinary \/ Commits \/ Trims
  BY NextShape
<1>2. CASE Ordinary
  BY <1>2 DEF Ordinary, RowsOrdinary, StaysOpen, Opens, GivesUp, Closed
<1>3. CASE Commits
  <2>1. PICK u \in Traces, s \in Sessions, h \in Hashes,
             status \in BoundStatuses, expected \in Int :
            CommitTerminalFinalization(u, s, h, status, expected)
    BY <1>3 DEF Commits
  <2>2. u # t
    BY <2>1, CommitShape DEF Closed
  <2> QED
    BY <2>1, <2>2, CommitShape
<1>4. CASE Trims
  BY <1>4, TrimKeepsClosed DEF Trims
<1> QED
  BY <1>1, <1>2, <1>3, <1>4

\* A turn keeps its session and its sequence, in its row or in a tombstone.
LEMMA SequencesStay ==
    ASSUME TypeInv, Next
    PROVE  /\ tombstones \subseteq tombstones'
           /\ \A u \in Traces : Exists(u) =>
                 \/ /\ Exists(u)' /\ runs'[u].session = runs[u].session
                    /\ runs'[u].seq = runs[u].seq
                 \/ \E x \in tombstones' : /\ x.session = runs[u].session
                                           /\ x.seq = runs[u].seq
<1>1. Ordinary \/ Commits \/ Trims
  BY NextShape
<1>2. CASE Ordinary
  <2>1. tombstones' = tombstones
    BY <1>2 DEF Ordinary, RestOrdinary
  <2>2. \A u \in Traces : Exists(u) =>
            /\ Exists(u)' /\ runs'[u].session = runs[u].session
            /\ runs'[u].seq = runs[u].seq
    BY <1>2, StatusesApart
       DEF Ordinary, RowsOrdinary, StaysOpen, Opens, GivesUp, Closed, SameTurn,
           Exists, Open
  <2> QED
    BY <2>1, <2>2
<1>3. CASE Commits
  <2>1. PICK t \in Traces, s \in Sessions, h \in Hashes,
             status \in BoundStatuses, expected \in Int :
            CommitTerminalFinalization(t, s, h, status, expected)
    BY <1>3 DEF Commits
  <2>2. /\ tombstones' = tombstones /\ runs'[t].status = status
        /\ runs'[t].session = runs[t].session /\ runs'[t].seq = runs[t].seq
        /\ \A u \in Traces \ {t} : runs'[u] = runs[u]
    BY <2>1, CommitShape
  <2>3. status # "absent"
    BY StatusesApart DEF ClosedStatuses
  <2> QED
    BY <2>2, <2>3 DEF Exists
<1>4. CASE Trims
  <2>1. PICK S \in SUBSET Traces, P \in SUBSET Traces : Sweeps(S, P)
    BY <1>4, TrimSweeps DEF Trims
  <2>2. tombstones \subseteq tombstones'
    BY <2>1 DEF Sweeps
  <2>3. ASSUME NEW u \in P
        PROVE  \E x \in tombstones' : /\ x.session = runs[u].session
                                      /\ x.seq = runs[u].seq
    <3> DEFINE x == [trace |-> u, session |-> runs[u].session, seq |-> runs[u].seq]
    <3>1. x \in tombstones' /\ x.session = runs[u].session /\ x.seq = runs[u].seq
      BY <2>1, <2>3 DEF Sweeps
    <3> QED
      BY <3>1
  <2>4. ASSUME NEW u \in Traces \ P, Exists(u)
        PROVE  /\ Exists(u)' /\ runs'[u].session = runs[u].session
               /\ runs'[u].seq = runs[u].seq
    <3>1. CASE u \in S
      BY <2>1, <2>4, <3>1 DEF Sweeps, Exists
    <3>2. CASE u \notin S
      BY <2>1, <2>4, <3>2 DEF Sweeps, Exists
    <3> QED
      BY <3>1, <3>2
  <2> QED
    BY <2>2, <2>3, <2>4
<1> QED
  BY <1>1, <1>2, <1>3, <1>4

\* No event that is added later has the id a closed turn is bound to.
LEMMA BoundEventsAreOld ==
    ASSUME PInv, EventIdsIssued', Next, NEW t \in Traces, Closed(t),
           NEW e \in events', e.id = runs[t].binding
    PROVE  e \in events
<1>1. runs[t].binding # 0
  BY DEF EventIdsIssued
<1>2. PICK f \in events : f.id = runs[t].binding
  BY <1>1 DEF PInv, IInv, TerminalBindingExact, EventsOf
<1>3. e.id <= uuids /\ uuids \in Nat
  BY <1>2, Rows DEF PInv, IInv, EventsIssued
<1>4. e.id # uuids + 1
  BY <1>3
<1> QED
  BY <1>4, NextMoves DEF PInv, IInv, Moves, EventStep

\* No sweep of later turns makes the answer of an earlier turn current again.
THEOREM AuthorityIsMonotone == Spec => AuthorityNeverReturns
<1> DEFINE Monotone ==
        \A t \in Traces, s \in Sessions, h \in Hashes :
            Closed(t) /\ t \notin AuthoritativeTraces(s, h) =>
                t \notin AuthoritativeTraces(s, h)'
<1>1. PInv /\ PInv' /\ [Next]_storeVars => [Monotone]_storeVars
  <2> SUFFICES ASSUME PInv, PInv', Next, NEW t \in Traces, NEW s \in Sessions,
                      NEW h \in Hashes, Closed(t),
                      t \in AuthoritativeTraces(s, h)'
               PROVE  t \in AuthoritativeTraces(s, h)
    OBVIOUS
  <2>1. TypeInv /\ EventIdsIssued'
    BY DEF PInv, IInv
  <2>2. /\ Exists(t)' /\ runs'[t].session = s
        /\ \A u \in Traces : Exists(u)' /\ runs'[u].session = s
                                => runs'[u].seq <= runs'[t].seq
        /\ \A x \in tombstones' : x.session = s => x.seq < runs'[t].seq
        /\ \E e \in AuthoritativeEvents(t)' : e.hash = h
    BY DEF AuthoritativeTraces
  <2>3. runs'[t] = runs[t]
    BY <2>1, <2>2, ClosedRowsStay
  <2>4. \E e \in AuthoritativeEvents(t) : e.hash = h
    <3>1. PICK e \in AuthoritativeEvents(t)' : e.hash = h
      BY <2>2
    <3>2. /\ e \in events' /\ e.trace = t /\ runs[t].ended
          /\ e.id = runs[t].binding /\ e.status = runs[t].status
      BY <2>3, <3>1 DEF AuthoritativeEvents, EventsOf
    <3>3. e \in events
      BY <2>1, <3>2, BoundEventsAreOld
    <3> QED
      BY <3>1, <3>2, <3>3 DEF AuthoritativeEvents, EventsOf, Closed
  <2>5. \A x \in tombstones : x.session = s => x.seq < runs[t].seq
    BY <2>1, <2>2, <2>3, SequencesStay
  <2>6. ASSUME NEW u \in Traces, Exists(u), runs[u].session = s
        PROVE  runs[u].seq <= runs[t].seq
    <3>1. runs[u].seq \in Nat /\ runs[t].seq \in Nat
      BY <2>1 DEF TypeInv, TypeOK, Run
    <3>2. runs[u].seq <= runs[t].seq \/ runs[u].seq < runs[t].seq
      BY <2>1, <2>2, <2>3, <2>6, SequencesStay
    <3> QED
      BY <3>1, <3>2
  <2> QED
    BY <2>2, <2>3, <2>4, <2>5, <2>6 DEF AuthoritativeTraces, Closed
<1>2. Spec => [][Monotone]_storeVars
  BY <1>1, PromiseInvariance, PTL DEF Spec
<1> QED
  BY <1>2, PTL DEF AuthorityNeverReturns

-----------------------------------------------------------------------------
(* TurnStore implements TurnAuthority                                      *)

View == [t \in Traces |-> [phase |-> PhaseOf(t), answer |-> AnswerOf(t)]]

\* What a reader sees of a turn, by the state of its row.
ViewIs ==
    \A t \in Traces :
        /\ Retired(t) => View[t] = Authority!Forgotten
        /\ ~Retired(t) /\ ~Exists(t) => View[t] = Authority!Unseen
        /\ Open(t) => View[t] = Authority!Opened
        /\ Closed(t) => View[t] = Authority!ClosedWith(AnswerOf(t))

LEMMA ViewOfRows == IInv => ViewIs
<1> SUFFICES ASSUME IInv, NEW t \in Traces
             PROVE  /\ Retired(t) => View[t] = Authority!Forgotten
                    /\ ~Retired(t) /\ ~Exists(t) => View[t] = Authority!Unseen
                    /\ Open(t) => View[t] = Authority!Opened
                    /\ Closed(t) => View[t] = Authority!ClosedWith(AnswerOf(t))
  BY DEF ViewIs
<1>1. View[t] = [phase |-> PhaseOf(t), answer |-> AnswerOf(t)]
  BY DEF View
<1>2. Retired(t) => ~Exists(t)
  BY DEF IInv, NoResurrection
<1>3. ~Exists(t) => AnswerOf(t) = ""
  BY DEF AnswerOf, AuthoritativeEvents
<1>4. Open(t) => AnswerOf(t) = ""
  BY DEF AnswerOf, AuthoritativeEvents, IInv, OpenTurnConsistent
<1>5. Open(t) => Exists(t)
  BY Rows DEF IInv
<1>6. /\ Retired(t) => PhaseOf(t) = "retired"
      /\ ~Retired(t) /\ ~Exists(t) => PhaseOf(t) = "unseen"
      /\ ~Retired(t) /\ Open(t) => PhaseOf(t) = "open"
      /\ ~Retired(t) /\ Closed(t) => PhaseOf(t) = "closed"
  BY <1>5 DEF PhaseOf, Closed
<1> QED
  BY <1>1, <1>2, <1>3, <1>4, <1>5, <1>6
     DEF Authority!Forgotten, Authority!Unseen, Authority!Opened,
         Authority!ClosedWith, Closed

\* A turn whose row and authoritative events stay shows the same.
LEMMA ViewStays ==
    ASSUME ViewIs, ViewIs', NEW t \in Traces, runs'[t] = runs[t],
           Retired(t)' = Retired(t),
           Closed(t) => AuthoritativeEvents(t)' = AuthoritativeEvents(t)
    PROVE  View'[t] = View[t]
<1>1. /\ Exists(t)' = Exists(t) /\ Open(t)' = Open(t) /\ Closed(t)' = Closed(t)
  BY DEF Exists, Open, Closed
<1>2. Closed(t) => AnswerOf(t)' = AnswerOf(t)
  BY DEF AnswerOf
<1>3. /\ Retired(t) => View[t] = Authority!Forgotten
      /\ ~Retired(t) /\ ~Exists(t) => View[t] = Authority!Unseen
      /\ Open(t) => View[t] = Authority!Opened
      /\ Closed(t) => View[t] = Authority!ClosedWith(AnswerOf(t))
  BY DEF ViewIs
<1>4. /\ Retired(t)' => View'[t] = Authority!Forgotten
      /\ ~Retired(t)' /\ ~Exists(t)' => View'[t] = Authority!Unseen
      /\ Open(t)' => View'[t] = Authority!Opened
      /\ Closed(t)' => View'[t] = Authority!ClosedWith(AnswerOf(t)')
  BY DEF ViewIs, Authority!Forgotten, Authority!Unseen, Authority!Opened,
         Authority!ClosedWith
<1> QED
  BY <1>1, <1>2, <1>3, <1>4 DEF Closed

\* A turn that closes without a binding shows no answer.
LEMMA UnansweredView ==
    ASSUME ViewIs', EventIdsIssued', NEW t \in Traces, Closed(t)',
           runs'[t].binding = 0
    PROVE  View'[t] = Authority!ClosedWith("")
<1>1. AuthoritativeEvents(t)' = {}
  BY DEF AuthoritativeEvents, EventsOf, EventIdsIssued
<1>2. AnswerOf(t)' = ""
  BY <1>1 DEF AnswerOf
<1> QED
  BY <1>2 DEF ViewIs, Authority!ClosedWith

LEMMA OrdinaryImplements ==
    ASSUME PInv, PInv', ViewIs, ViewIs', Ordinary
    PROVE  [Authority!Next]_View
<1> DEFINE T == {t \in Traces : GivesUp(t)}
<1>1. /\ tombstones' = tombstones
      /\ \A e \in events' \ events : Open(e.trace)
      /\ \A e \in events \ events' : Open(e.trace)
      /\ \A t \in Traces : \/ runs'[t] = runs[t]
                           \/ StaysOpen(t) \/ Opens(t) \/ GivesUp(t)
      /\ \A t, u \in Traces : Opens(t) /\ Opens(u) => t = u
      /\ EventIdsIssued' /\ OpenTurnConsistent
  BY DEF Ordinary, RowsOrdinary, RestOrdinary, PInv, IInv
<1>2. \A t \in Traces : Retired(t)' = Retired(t)
  BY <1>1 DEF Retired
<1>3. \A t \in T : View[t] = Authority!Opened
  BY DEF ViewIs, GivesUp
<1>4. ASSUME NEW t \in T
      PROVE  View'[t] = Authority!ClosedWith("")
  <2>1. /\ t \in Traces /\ Closed(t)' /\ Open(t)
        /\ runs'[t].binding = runs[t].binding
    BY <1>4 DEF GivesUp, SameTurn
  <2>2. runs'[t].binding = 0
    BY <1>1, <2>1 DEF OpenTurnConsistent
  <2> QED
    BY <1>1, <2>1, <2>2, UnansweredView
<1>5. ASSUME NEW t \in Traces \ T, ~Opens(t)
      PROVE  View'[t] = View[t]
  <2>1. runs'[t] = runs[t] \/ StaysOpen(t)
    BY <1>1, <1>5
  <2>2. CASE StaysOpen(t)
    BY <2>2 DEF StaysOpen, ViewIs, Authority!Opened
  <2>3. CASE runs'[t] = runs[t]
    <3>1. Closed(t) => EventsOf(t)' = EventsOf(t)
      BY <1>1 DEF Closed, EventsOf
    <3>2. Closed(t) => AuthoritativeEvents(t)' = AuthoritativeEvents(t)
      BY <2>3, <3>1 DEF AuthoritativeEvents, Exists
    <3> QED
      BY <1>2, <2>3, <3>2, ViewStays
  <2> QED
    BY <2>1, <2>2, <2>3
<1>6. ASSUME NEW t \in Traces, Opens(t)
      PROVE  View[t] = Authority!Unseen /\ View'[t] = Authority!Opened
  BY <1>6 DEF Opens, ViewIs, Authority!Opened
<1>7. /\ View' = [t \in Traces |-> View'[t]]
      /\ T \in SUBSET Traces
  BY DEF View
<1> HIDE DEF T
<1>8. CASE \A t \in Traces : ~Opens(t)
  <2>1. View' = [t \in Traces |-> IF t \in T THEN Authority!ClosedWith("")
                                  ELSE View[t]]
    BY <1>4, <1>5, <1>7, <1>8
  <2>2. Authority!GiveUp(T)
    BY <1>3, <2>1 DEF Authority!GiveUp, View
  <2> QED
    BY <1>7, <2>2 DEF Authority!Next
<1>9. CASE \E t \in Traces : Opens(t)
  <2>1. PICK t \in Traces : Opens(t)
    BY <1>9
  <2>2. View' = [u \in Traces |-> IF u = t THEN Authority!Opened
                                  ELSE IF u \in T THEN Authority!ClosedWith("")
                                  ELSE View[u]]
    BY <1>1, <1>4, <1>5, <1>6, <1>7, <2>1
  <2>3. Authority!Prompt(t, T)
    BY <1>3, <1>6, <2>1, <2>2 DEF Authority!Prompt, View
  <2> QED
    BY <1>7, <2>3 DEF Authority!Next
<1> QED
  BY <1>8, <1>9

LEMMA CommitImplements ==
    ASSUME PInv, PInv', ViewIs, ViewIs', Commits
    PROVE  [Authority!Next]_View
<1>1. PICK t \in Traces, s \in Sessions, h \in Hashes,
           status \in BoundStatuses, expected \in Int :
          CommitTerminalFinalization(t, s, h, status, expected)
  BY DEF Commits
<1> DEFINE e == [id |-> uuids + 1, trace |-> t, action |-> "terminal",
                 hash |-> h, status |-> status]
<1>2. /\ Open(t) /\ runs'[t].status = status /\ runs'[t].ended
      /\ runs'[t].binding = uuids + 1
      /\ \A u \in Traces \ {t} : runs'[u] = runs[u]
      /\ events' = events \cup {e} /\ tombstones' = tombstones
  BY <1>1, CommitShape DEF PInv, IInv
<1>3. /\ e.id = uuids + 1 /\ e.trace = t /\ e.hash = h /\ e.status = status
  OBVIOUS
<1> HIDE DEF e
<1>4. \A f \in events : f.id # uuids + 1
  <2>1. uuids \in Nat /\ \A f \in events : f.id \in Nat /\ f.id <= uuids
    BY DEF PInv, EventsIssued, IInv, TypeInv, TypeOK, Event
  <2> QED
    BY <2>1
<1>5. Closed(t)'
  <2>1. status \in ClosedStatuses
    BY DEF ClosedStatuses
  <2> QED
    BY <1>2, <2>1, StatusesApart DEF Closed, Exists, Open
<1>6. AuthoritativeEvents(t)' = {e}
  BY <1>2, <1>3, <1>4, <1>5 DEF AuthoritativeEvents, EventsOf, Closed
<1>7. AnswerOf(t)' = h
  BY <1>3, <1>6 DEF AnswerOf
<1>8. View[t] = Authority!Opened /\ View'[t] = Authority!ClosedWith(h)
  BY <1>2, <1>5, <1>7 DEF ViewIs, Authority!Opened, Authority!ClosedWith
<1>9. ASSUME NEW u \in Traces \ {t}
      PROVE  View'[u] = View[u]
  <2>1. runs'[u] = runs[u] /\ Retired(u)' = Retired(u)
    BY <1>2 DEF Retired
  <2>2. EventsOf(u)' = EventsOf(u)
    BY <1>2, <1>3 DEF EventsOf
  <2>3. AuthoritativeEvents(u)' = AuthoritativeEvents(u)
    BY <2>1, <2>2 DEF AuthoritativeEvents, Exists
  <2> QED
    BY <2>1, <2>3, ViewStays
<1>10. View' = [View EXCEPT ![t] = Authority!ClosedWith(h)]
  <2>1. /\ View' = [u \in Traces |-> View'[u]]
        /\ View = [u \in Traces |-> View[u]]
    BY DEF View
  <2> QED
    BY <1>8, <1>9, <2>1
<1>11. Authority!Answer(t, h)
  BY <1>8, <1>10 DEF Authority!Answer, View
<1> QED
  BY <1>11 DEF Authority!Next

LEMMA SweepImplements ==
    ASSUME PInv, PInv', ViewIs, ViewIs', Trims
    PROVE  [Authority!Next]_View
<1>1. PICK S \in SUBSET Traces, P \in SUBSET Traces : Sweeps(S, P)
  BY TrimSweeps DEF Trims, PInv, IInv
<1>2. \A t \in S : View[t] = Authority!Opened
  BY <1>1 DEF Sweeps, ViewIs
<1>3. \A t \in P \ S : View[t].phase = "closed"
  <2> SUFFICES ASSUME NEW t \in P \ S
               PROVE  View[t].phase = "closed"
    OBVIOUS
  <2>1. t \in Traces /\ Closed(t)
    BY <1>1 DEF Sweeps
  <2>2. View[t] = [phase |-> "closed", answer |-> AnswerOf(t)]
    BY <2>1 DEF ViewIs, Authority!ClosedWith
  <2> QED
    BY <2>2
<1>4. ASSUME NEW t \in P
      PROVE  View'[t] = Authority!Forgotten
  <2> DEFINE x == [trace |-> t, session |-> runs[t].session, seq |-> runs[t].seq]
  <2>1. x \in tombstones' /\ x.trace = t
    BY <1>1, <1>4 DEF Sweeps
  <2>2. Retired(t)'
    BY <2>1 DEF Retired
  <2> QED
    BY <1>4, <2>2 DEF ViewIs, Authority!Forgotten
<1>5. ASSUME NEW t \in S \ P
      PROVE  View'[t] = Authority!ClosedWith("")
  <2>1. /\ Open(t) /\ runs'[t].status = "retention_expired"
        /\ runs'[t].binding = runs[t].binding
    BY <1>1, <1>5 DEF Sweeps
  <2>2. Closed(t)'
    BY <2>1 DEF Closed, Exists, Open, OpenStatuses
  <2>3. runs'[t].binding = 0 /\ EventIdsIssued'
    BY <1>5, <2>1 DEF PInv, IInv, OpenTurnConsistent
  <2> QED
    BY <1>5, <2>2, <2>3, UnansweredView
<1>6. ASSUME NEW t \in Traces \ (S \cup P)
      PROVE  View'[t] = View[t]
  <2>1. /\ runs'[t] = runs[t] /\ events' \subseteq events
        /\ \A e \in EventsOf(t) : e.id = runs[t].binding => e \in events'
    BY <1>1, <1>6 DEF Sweeps
  <2>2. AuthoritativeEvents(t)' = AuthoritativeEvents(t)
    BY <2>1 DEF AuthoritativeEvents, EventsOf, Exists
  <2>3. \A x \in tombstones' \ tombstones : x.trace # t
    BY <1>1, <1>6 DEF Sweeps
  <2>4. tombstones \subseteq tombstones'
    BY <1>1 DEF Sweeps
  <2>5. Retired(t)' = Retired(t)
    BY <2>3, <2>4 DEF Retired
  <2> QED
    BY <1>6, <2>1, <2>2, <2>5, ViewStays
<1>7. View' = [t \in Traces |-> IF t \in P THEN Authority!Forgotten
                                ELSE IF t \in S THEN Authority!ClosedWith("")
                                ELSE View[t]]
  <2>1. View' = [t \in Traces |-> View'[t]]
    BY DEF View
  <2> QED
    BY <1>4, <1>5, <1>6, <2>1
<1>8. Authority!Sweep(S, P)
  BY <1>2, <1>3, <1>7 DEF Authority!Sweep, View
<1> QED
  BY <1>8 DEF Authority!Next

\* The store shows its readers the turn machine of TurnAuthority: a turn is
\* opened once, answered at most once, and reports that answer until it is
\* forgotten for good, whatever writers, recoveries and sweeps race.
THEOREM StoreImplementsAuthority == Spec => ImplementsAuthority
<1>1. Init => Authority!Init
  <2> SUFFICES ASSUME Init
               PROVE  View = [t \in Traces |-> Authority!Unseen]
    BY DEF Authority!Init, View
  <2>1. ViewIs
    BY InitInv, ViewOfRows
  <2>2. \A t \in Traces : ~Retired(t) /\ ~Exists(t)
    BY DEF Init, Retired, Exists, Absent
  <2>3. View = [t \in Traces |-> View[t]]
    BY DEF View
  <2> QED
    BY <2>1, <2>2, <2>3 DEF ViewIs
<1>2. PInv /\ PInv' /\ ViewIs /\ ViewIs' /\ [Next]_storeVars
          => [Authority!Next]_View
  <2> SUFFICES ASSUME PInv, PInv', ViewIs, ViewIs', [Next]_storeVars
               PROVE  [Authority!Next]_View
    OBVIOUS
  <2>1. CASE UNCHANGED storeVars
    BY <2>1 DEF storeVars, View, PhaseOf, AnswerOf, AuthoritativeEvents,
                EventsOf, Retired, Exists, Open
  <2>2. CASE Next
    BY <2>2, NextShape, OrdinaryImplements, CommitImplements, SweepImplements
       DEF PInv, IInv
  <2> QED
    BY <2>1, <2>2
<1>3. PInv => ViewIs
  BY ViewOfRows DEF PInv
<1>4. Spec => Authority!Init /\ [][Authority!Next]_View
  BY <1>1, <1>2, <1>3, PromiseInvariance, PTL DEF Spec
<1> QED
  BY <1>4, PTL DEF ImplementsAuthority, Authority!Spec, View

=============================================================================
