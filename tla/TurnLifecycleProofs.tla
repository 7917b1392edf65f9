------------------------- MODULE TurnLifecycleProofs -------------------------
(* The callers and finalizers of TurnLifecycle, for every value of its     *)
(* constants: they use the Store as it promises to be used, and what they  *)
(* tell their hosts stays true whatever the others do.                     *)
EXTENDS TurnLifecycle, TurnPromiseProofs

-----------------------------------------------------------------------------
(* What a store step does to a turn that a process remembers               *)

\* Retention never deletes a turn without a tombstone.
LEMMA RowsLeaveTombstones ==
    ASSUME TypeInv, Next, NEW t \in Traces, Exists(t), ~Exists(t)'
    PROVE  Retired(t)'
<1>1. Ordinary \/ Commits \/ Trims
  BY NextShape
<1>2. ~Ordinary
  BY StatusesApart
     DEF Ordinary, RowsOrdinary, StaysOpen, Opens, GivesUp, Closed, Exists, Open
<1>3. ~Commits
  <2> SUFFICES ASSUME NEW u \in Traces, NEW s \in Sessions, NEW h \in Hashes,
                      NEW status \in BoundStatuses, NEW expected \in Int,
                      CommitTerminalFinalization(u, s, h, status, expected)
               PROVE  FALSE
    BY DEF Commits
  <2>1. runs'[u].status = status /\ \A v \in Traces \ {u} : runs'[v] = runs[v]
    BY CommitShape
  <2>2. status # "absent"
    BY DEF BoundStatuses
  <2> QED
    BY <2>1, <2>2 DEF Exists
<1>4. CASE Trims
  <2>1. PICK S \in SUBSET Traces, P \in SUBSET Traces : Sweeps(S, P)
    BY <1>4, TrimSweeps DEF Trims
  <2>2. t \in P
    BY <2>1 DEF Sweeps, Exists
  <2> DEFINE x == [trace |-> t, session |-> runs[t].session, seq |-> runs[t].seq]
  <2>3. x \in tombstones' /\ x.trace = t
    BY <2>1, <2>2 DEF Sweeps
  <2> QED
    BY <2>3 DEF Retired
<1> QED
  BY <1>1, <1>2, <1>3, <1>4

\* A turn stays in its session.
LEMMA SessionsStay ==
    ASSUME TypeInv, Next, NEW t \in Traces, Exists(t), Exists(t)'
    PROVE  runs'[t].session = runs[t].session
<1>1. Ordinary \/ Commits \/ Trims
  BY NextShape
<1>2. CASE Ordinary
  BY <1>2 DEF Ordinary, RowsOrdinary, StaysOpen, Opens, GivesUp, SameTurn
<1>3. CASE Commits
  <2>1. PICK u \in Traces, s \in Sessions, h \in Hashes,
             status \in BoundStatuses, expected \in Int :
            CommitTerminalFinalization(u, s, h, status, expected)
    BY <1>3 DEF Commits
  <2>2. /\ runs'[u].session = runs[u].session
        /\ \A v \in Traces \ {u} : runs'[v] = runs[v]
    BY <2>1, CommitShape
  <2> QED
    BY <2>2
<1>4. CASE Trims
  <2>1. PICK S \in SUBSET Traces, P \in SUBSET Traces : Sweeps(S, P)
    BY <1>4, TrimSweeps DEF Trims
  <2>2. t \notin P
    <3>1. \A u \in P : runs'[u] = Absent
      BY <2>1 DEF Sweeps
    <3>2. Absent.status = "absent"
      BY DEF Absent
    <3> QED
      BY <3>1, <3>2 DEF Exists
  <2>3. CASE t \in S
    BY <2>1, <2>2, <2>3 DEF Sweeps
  <2>4. CASE t \notin S
    BY <2>1, <2>2, <2>4 DEF Sweeps
  <2> QED
    BY <2>3, <2>4
<1> QED
  BY <1>1, <1>2, <1>3, <1>4

\* A turn goes from open to closed to forgotten, and never back.
LEMMA TurnsGoOn ==
    ASSUME PInv, PInv', Next, NEW t \in Traces
    PROVE  /\ Retired(t) => Retired(t)'
           /\ Exists(t) => Exists(t)' \/ Retired(t)'
           /\ Closed(t) => Closed(t)' \/ Retired(t)'
           /\ Retired(t) => ~Exists(t)
           /\ Open(t)' => Open(t) \/ (~Exists(t) /\ ~Retired(t))
           /\ Open(t)' => ~Retired(t)'
<1>1. TypeInv /\ NoResurrection /\ NoResurrection'
  BY DEF PInv, IInv
<1>2. Retired(t) => Retired(t)'
  BY <1>1, SequencesStay DEF Retired
<1>3. Exists(t) => Exists(t)' \/ Retired(t)'
  BY <1>1, RowsLeaveTombstones
<1>4. Closed(t) /\ Exists(t)' => Closed(t)'
  BY <1>1, ClosedRowsStay DEF Closed, Open, Exists
<1>5. Open(t)' => Exists(t)'
  BY DEF Open, Exists, OpenStatuses
<1>6. Closed(t) => Closed(t)' \/ Retired(t)'
  BY <1>3, <1>4 DEF Closed
<1>7. (Retired(t) => ~Exists(t)) /\ (Retired(t)' => ~Exists(t)')
  BY <1>1 DEF NoResurrection
<1>8. Closed(t)' => ~Open(t)'
  BY DEF Closed
<1> QED
  BY <1>2, <1>3, <1>5, <1>6, <1>7, <1>8 DEF Closed

\* The answer of a closed turn stays until the turn is forgotten.
LEMMA AnswersStay ==
    ASSUME PInv, PInv', Next, NEW t \in Traces, Closed(t), Exists(t)'
    PROVE  AuthoritativeEvents(t)' = AuthoritativeEvents(t)
<1>1. TypeInv /\ EventIdsIssued'
  BY DEF PInv, IInv
<1>2. runs'[t] = runs[t] /\ Exists(t)
  BY <1>1, ClosedRowsStay DEF Closed
<1>3. ASSUME NEW e \in events', e.id = runs[t].binding
      PROVE  e \in events
  BY <1>1, <1>3, BoundEventsAreOld
<1>4. ASSUME NEW e \in events, e.trace = t, e.id = runs[t].binding
      PROVE  e \in events'
  <2>1. Ordinary \/ Commits \/ Trims
    BY <1>1, NextShape
  <2>2. CASE Ordinary
    BY <1>4, <2>2 DEF Ordinary, RestOrdinary, Closed
  <2>3. CASE Commits
    <3>1. PICK u \in Traces, s \in Sessions, h \in Hashes,
               status \in BoundStatuses, expected \in Int :
              CommitTerminalFinalization(u, s, h, status, expected)
      BY <2>3 DEF Commits
    <3> QED
      BY <3>1 DEF CommitTerminalFinalization, AddEvent
  <2>4. CASE Trims
    <3>1. PICK S \in SUBSET Traces, P \in SUBSET Traces : Sweeps(S, P)
      BY <1>1, <2>4, TrimSweeps DEF Trims
    <3>2. t \notin S
      BY <3>1 DEF Sweeps, Closed
    <3>3. t \notin P
      <4>1. \A u \in P : runs'[u] = Absent
        BY <3>1 DEF Sweeps
      <4>2. Absent.status = "absent"
        BY DEF Absent
      <4> QED
        BY <4>1, <4>2 DEF Exists
    <3>4. \A f \in EventsOf(t) : f.id = runs[t].binding => f \in events'
      BY <3>1, <3>2, <3>3 DEF Sweeps
    <3> QED
      BY <1>4, <3>4 DEF EventsOf
  <2> QED
    BY <2>1, <2>2, <2>3, <2>4
<1> QED
  BY <1>2, <1>3, <1>4 DEF AuthoritativeEvents, EventsOf

\* Every open turn belongs to a session.
Placed == \A t \in Traces : Open(t) => runs[t].session \in Sessions

\* An event is known by its id.
EventsApart == \A e, f \in events : e.id = f.id => e = f

\* The tokens an open turn shows were issued.
TokensIssued ==
    \A t \in Traces : Open(t) => runs[t].attempt <= uuids /\ runs[t].reservation <= uuids

StoreInv == PInv /\ Placed /\ EventsApart /\ TokensIssued

LEMMA NextStoreInv ==
    ASSUME StoreInv, Next
    PROVE  StoreInv'
<1>1. PInv /\ PInv' /\ TypeInv
  BY NextPInv DEF StoreInv, PInv, IInv
<1>2. Moves
  BY <1>1, NextMoves
<1>3. Placed'
  <2> SUFFICES ASSUME NEW t \in Traces, Open(t)'
               PROVE  runs'[t].session \in Sessions
    BY DEF Placed
  <2>1. Open(t) \/ (~Exists(t) /\ runs'[t].session \in Sessions)
    BY <1>2 DEF Moves, TurnStep, Goes, Attempts, Publishes, Appears, Ends, Rests
  <2>2. CASE Open(t)
    <3>1. Exists(t) /\ Exists(t)'
      BY <2>2 DEF Open, Exists, OpenStatuses
    <3> QED
      BY <1>1, <2>2, <3>1, SessionsStay DEF StoreInv, Placed
  <2> QED
    BY <2>1, <2>2
<1>4. EventsApart'
  <2> SUFFICES ASSUME NEW e \in events', NEW f \in events', e.id = f.id
               PROVE  e = f
    BY DEF EventsApart
  <2>1. \A g \in events' \ events : g.id = uuids + 1
    BY <1>2 DEF Moves, EventStep
  <2>2. \A g \in events : g.id # uuids + 1
    <3> SUFFICES ASSUME NEW g \in events
                 PROVE  g.id # uuids + 1
      OBVIOUS
    <3>1. g.id \in Nat /\ uuids \in Nat /\ g.id <= uuids
      BY <1>1 DEF PInv, EventsIssued, TypeInv, TypeOK, Event
    <3> QED
      BY <3>1
  <2>3. \A g, k \in events' \ events : g = k
    BY <1>2 DEF Moves, EventStep
  <2> QED
    BY <2>1, <2>2, <2>3 DEF StoreInv, EventsApart
<1>5. TokensIssued'
  <2> SUFFICES ASSUME NEW t \in Traces, Open(t)'
               PROVE  runs'[t].attempt <= uuids' /\ runs'[t].reservation <= uuids'
    BY DEF TokensIssued
  <2>1. /\ uuids \in Nat /\ uuids' \in Nat /\ uuids <= uuids'
        /\ runs[t] \in Run /\ runs'[t] \in Run
    BY <1>1, <1>2 DEF PInv, IInv, TypeInv, TypeOK, Moves, EventStep
  <2>2. Open(t) => runs[t].attempt <= uuids /\ runs[t].reservation <= uuids
    BY DEF StoreInv, TokensIssued
  <2>3. runs'[t].attempt <= uuids'
    <3>1. \/ runs'[t].attempt = runs[t].attempt /\ Open(t)
          \/ runs'[t].attempt = 0
          \/ runs'[t].attempt = uuids'
      BY <1>2 DEF Moves, TurnStep, Goes, Attempts, Publishes, Appears, Ends, Rests
    <3>2. runs[t].attempt \in Nat
      BY <2>1 DEF Run
    <3> QED
      BY <2>1, <2>2, <3>1, <3>2
  <2>4. runs'[t].reservation <= uuids'
    <3>1. \/ runs'[t].reservation = runs[t].reservation /\ Open(t)
          \/ runs'[t].reservation = 0
          \/ runs'[t].reservation = uuids'
      BY <1>2 DEF Moves, ReservationStep
    <3>2. runs[t].reservation \in Nat
      BY <2>1 DEF Run
    <3> QED
      BY <2>1, <2>2, <3>1, <3>2
  <2> QED
    BY <2>3, <2>4
<1> QED
  BY <1>1, <1>3, <1>4, <1>5 DEF StoreInv

-----------------------------------------------------------------------------
(* What callers and finalizers hold                                        *)

CallerRecord ==
    [pc : Done \cup {"idle", "reserve", "begin", "working", "reading",
                     "waiting", "closing", "failing"},
     trace : Traces \cup {""}, session : Sessions \cup {""},
     request : Requests \cup {""}, reservation : Nat, token : Nat,
     owner : BOOLEAN, deadline : Nat, recipe : Nat]

SnapshotRecord ==
    [status : OpenStatuses \cup ClosedStatuses \cup {"absent"},
     pstate : {"", "reserved", "in_progress", "ready"}, attempt : Nat,
     evidence : SUBSET Nat, specialists : SUBSET {"live", "expired"},
     events : SUBSET Event]

FinalizerRecord ==
    [pc : {"idle", "deciding", "accepted", "rejected", "unverified"},
     trace : Traces \cup {""}, session : Sessions \cup {""},
     hash : Hashes \cup {""}, revision : Nat, seen : SUBSET SnapshotRecord]

\* The turn shows this recipe as long as it is open.
StillShows(t, recipe) ==
    \/ Retired(t) \/ Closed(t)
    \/ Open(t) /\ runs[t].pstate = "ready" /\ runs[t].result = recipe

\* A caller with record r serves one call, with a token of an attempt that it
\* owns or awaits; the recipe it delivered is the turn's, and an attempt whose
\* failure it reported is over.
CallerFits(r) ==
    /\ r.reservation <= uuids /\ r.token <= uuids
    /\ r.pc # "idle" => /\ r.trace \in Traces /\ r.session \in Sessions
                        /\ r.request \in Requests
    /\ r.pc \in {"idle", "reserve", "begin"} => ~r.owner /\ r.token = 0
    /\ r.owner => r.token # 0
    /\ r.pc = "delivered" => StillShows(r.trace, r.recipe)
    /\ r.pc = "failed" /\ r.owner => ~Owns(r.trace, r.session, r.token)

\* The snapshot of an open turn is current or its revision is outdated.
Fences(r) ==
    LET t == r.trace
    IN  Open(t) => /\ r.revision <= runs[t].revision
                   /\ r.revision = runs[t].revision => r.seen = {Snapshot(t)}

Accepted(t, h) ==
    \/ Retired(t)
    \/ /\ runs[t].status = "completed"
       /\ {e.hash : e \in AuthoritativeEvents(t)} = {h}

\* A finalizer with record r has read one turn for one response.
FinalizerFits(r) ==
    /\ r.pc # "idle" => /\ r.trace \in Traces /\ r.session \in Sessions
                        /\ r.hash \in Hashes
                        /\ Exists(r.trace) \/ Retired(r.trace)
    /\ r.pc = "deciding" => Fences(r)
    /\ r.pc = "accepted" => Accepted(r.trace, r.hash)

Records == /\ caller \in [Callers -> CallerRecord]
           /\ finalizer \in [Finalizers -> FinalizerRecord]

LInv ==
    /\ StoreInv
    /\ Records
    /\ \A c \in Callers : CallerFits(caller[c])
    /\ \A f \in Finalizers : FinalizerFits(finalizer[f])
    /\ OneRecipePerTurn

-----------------------------------------------------------------------------
(* What a process remembers survives the steps of the others               *)

LEMMA StoreStays ==
    ASSUME StoreInv, [Next]_storeVars
    PROVE  StoreInv'
<1>1. CASE Next
  BY <1>1, NextStoreInv
<1>2. CASE UNCHANGED storeVars
  <2>1. PInv'
    BY <1>2, StutterPInv DEF StoreInv
  <2>2. Placed' /\ EventsApart' /\ TokensIssued'
    BY <1>2 DEF storeVars, StoreInv, Placed, EventsApart, TokensIssued, Open
  <2> QED
    BY <2>1, <2>2 DEF StoreInv
<1> QED
  BY <1>1, <1>2

\* A delivered recipe is shown until the turn closes.
LEMMA RecipesStay ==
    ASSUME StoreInv, StoreInv', Next, NEW t \in Traces, NEW recipe,
           StillShows(t, recipe)
    PROVE  StillShows(t, recipe)'
<1>1. PInv /\ PInv' /\ TypeInv
  BY DEF StoreInv, PInv, IInv
<1>2. /\ Retired(t) => Retired(t)'
      /\ Closed(t) => Closed(t)' \/ Retired(t)'
      /\ Exists(t) => Exists(t)' \/ Retired(t)'
  BY <1>1, TurnsGoOn
<1>3. CASE Open(t) /\ runs[t].pstate = "ready" /\ runs[t].result = recipe
  <2>1. Exists(t)
    BY <1>3 DEF Open, Exists, OpenStatuses
  <2>2. CASE Open(t)'
    <3>1. TurnStep(t)
      BY <1>1, NextMoves DEF Moves
    <3>2. Goes(t)
      BY <1>3, <2>1, <2>2, <3>1
         DEF TurnStep, Attempts, Publishes, Appears, Ends, Rests, Idle
    <3> QED
      BY <1>3, <2>2, <3>2 DEF Goes, StillShows
  <2>3. CASE ~Open(t)'
    BY <1>2, <2>1, <2>3 DEF StillShows, Closed
  <2> QED
    BY <2>2, <2>3
<1> QED
  BY <1>2, <1>3 DEF StillShows

\* An attempt that its owner has lost or failed is never owned again.
LEMMA AttemptsStayLost ==
    ASSUME StoreInv, StoreInv', Next, NEW t \in Traces, NEW s, NEW token \in Nat,
           token <= uuids, ~Owns(t, s, token)
    PROVE  ~Owns(t, s, token)'
<1> SUFFICES ASSUME Owns(t, s, token)'
             PROVE  FALSE
  OBVIOUS
<1>1. PInv /\ PInv' /\ TypeInv /\ AttemptInv
  BY DEF StoreInv, PInv, IInv
<1>2. /\ runs'[t].session = s /\ runs'[t].status = "active" /\ token # 0
      /\ runs'[t].pstate = "in_progress" /\ runs'[t].attempt = token
      /\ Open(t)'
  BY DEF Owns, Open, OpenStatuses
<1>3. TurnStep(t)
  BY <1>1, NextMoves DEF Moves
<1>4. token # uuids + 1
  BY <1>1, Rows
<1>5. Goes(t)
  BY <1>2, <1>3, <1>4 DEF TurnStep, Attempts, Publishes, Appears, Ends, Rests, Idle
<1>6. /\ Open(t) /\ runs[t].pstate = "in_progress" /\ runs[t].attempt = token
  BY <1>2, <1>5 DEF Goes
<1>7. runs[t].status = "active"
  BY <1>1, <1>6 DEF AttemptInv, AttemptColumns
<1>8. runs'[t].session = runs[t].session
  BY <1>1, <1>2, <1>6, SessionsStay DEF Open, Exists, OpenStatuses
<1> QED
  BY <1>2, <1>6, <1>7, <1>8 DEF Owns

\* What is true of a caller's record r stays true.
LEMMA CallerStays ==
    ASSUME StoreInv, StoreInv', [Next]_storeVars, NEW r \in CallerRecord,
           CallerFits(r)
    PROVE  CallerFits(r)'
<1>1. CASE Next
  <2>1. TypeInv /\ Moves
    BY <1>1, NextMoves DEF StoreInv, PInv, IInv
  <2>2. r.token \in Nat /\ r.reservation \in Nat /\ r.owner \in BOOLEAN
    BY DEF CallerRecord
  <2>3. r.token <= uuids' /\ r.reservation <= uuids'
    <3>1. uuids \in Nat /\ uuids' \in Nat /\ uuids <= uuids'
      BY <2>1 DEF StoreInv, PInv, IInv, TypeInv, TypeOK, Moves, EventStep
    <3>2. r.token <= uuids /\ r.reservation <= uuids
      BY DEF CallerFits
    <3> QED
      BY <2>2, <3>1, <3>2
  <2>4. CASE r.pc = "delivered"
    <3>1. r.trace \in Traces /\ StillShows(r.trace, r.recipe)
      BY <2>4 DEF CallerFits
    <3>2. StillShows(r.trace, r.recipe)'
      BY <1>1, <3>1, RecipesStay
    <3> QED
      BY <2>3, <2>4, <3>2 DEF CallerFits
  <2>5. CASE r.pc = "failed" /\ r.owner
    <3>1. r.trace \in Traces /\ ~Owns(r.trace, r.session, r.token) /\ r.token <= uuids
      BY <2>5 DEF CallerFits
    <3>2. ~Owns(r.trace, r.session, r.token)'
      BY <1>1, <2>2, <3>1, AttemptsStayLost
    <3> QED
      BY <2>3, <2>5, <3>2 DEF CallerFits
  <2> QED
    BY <2>3, <2>4, <2>5 DEF CallerFits
<1>2. CASE UNCHANGED storeVars
  BY <1>2 DEF storeVars, CallerFits, StillShows, Retired, Closed, Exists, Open, Owns
<1> QED
  BY <1>1, <1>2

\* A snapshot is fenced by the revision it was read with.
LEMMA FencesStay ==
    ASSUME StoreInv, StoreInv', Next, NEW r \in FinalizerRecord,
           r.trace \in Traces, Exists(r.trace) \/ Retired(r.trace), Fences(r)
    PROVE  Fences(r)'
<1> DEFINE t == r.trace
<1>1. PInv /\ PInv' /\ TypeInv /\ TypeInv'
  BY DEF StoreInv, PInv, IInv
<1> SUFFICES ASSUME Open(t)'
             PROVE  /\ r.revision <= runs'[t].revision
                    /\ r.revision = runs'[t].revision => r.seen = {Snapshot(t)'}
  BY DEF Fences
<1>2. Open(t) /\ Exists(t)
  BY <1>1, TurnsGoOn DEF Open, Exists, OpenStatuses
<1>3. /\ r.revision <= runs[t].revision
      /\ r.revision = runs[t].revision => r.seen = {Snapshot(t)}
  BY <1>2 DEF Fences
<1>4. \/ LooksSame(t) /\ runs'[t].revision = runs[t].revision
      \/ Stamped(t)
  <2>1. TurnStep(t)
    BY <1>1, NextMoves DEF Moves
  <2> QED
    BY <1>2, <2>1 DEF TurnStep, Goes, Attempts, Publishes, Appears, Ends, Rests
<1>5. CASE LooksSame(t) /\ runs'[t].revision = runs[t].revision
  <2>1. Snapshot(t)' = Snapshot(t)
    BY <1>5 DEF LooksSame, Snapshot
  <2> QED
    BY <1>3, <1>5, <2>1
<1>6. CASE Stamped(t)
  <2>1. r.revision \in Nat /\ runs[t].revision \in Nat /\ runs'[t].revision \in Nat
    BY <1>1 DEF FinalizerRecord, TypeInv, TypeOK, Run
  <2>2. r.revision < runs'[t].revision
    BY <1>3, <1>6, <2>1 DEF Stamped
  <2> QED
    BY <2>1, <2>2
<1> QED
  BY <1>4, <1>5, <1>6

LEMMA AcceptedStays ==
    ASSUME StoreInv, StoreInv', Next, NEW t \in Traces, NEW h, Accepted(t, h)
    PROVE  Accepted(t, h)'
<1>1. PInv /\ PInv' /\ TypeInv
  BY DEF StoreInv, PInv, IInv
<1>2. CASE Retired(t) \/ Retired(t)'
  BY <1>1, <1>2, TurnsGoOn DEF Accepted
<1>3. CASE ~Retired(t) /\ ~Retired(t)'
  <2>1. /\ runs[t].status = "completed"
        /\ {e.hash : e \in AuthoritativeEvents(t)} = {h}
    BY <1>3 DEF Accepted
  <2>2. Closed(t)
    BY <2>1 DEF Closed, Exists, Open, OpenStatuses
  <2>3. Exists(t)'
    BY <1>1, <1>3, <2>2, TurnsGoOn DEF Closed
  <2>4. AuthoritativeEvents(t)' = AuthoritativeEvents(t)
    BY <1>1, <2>2, <2>3, AnswersStay
  <2>5. runs'[t] = runs[t]
    BY <1>1, <2>2, <2>3, ClosedRowsStay
  <2> QED
    BY <2>1, <2>4, <2>5 DEF Accepted
<1> QED
  BY <1>2, <1>3

\* What is true of a finalizer's record r stays true.
LEMMA FinalizerStays ==
    ASSUME StoreInv, StoreInv', [Next]_storeVars, NEW r \in FinalizerRecord,
           FinalizerFits(r)
    PROVE  FinalizerFits(r)'
<1>1. CASE Next
  <2>1. CASE r.pc = "idle"
    BY <2>1 DEF FinalizerFits
  <2>2. CASE r.pc # "idle"
    <3>1. /\ r.trace \in Traces /\ r.session \in Sessions /\ r.hash \in Hashes
          /\ Exists(r.trace) \/ Retired(r.trace)
      BY <2>2 DEF FinalizerFits
    <3>2. Exists(r.trace)' \/ Retired(r.trace)'
      BY <1>1, <3>1, TurnsGoOn DEF StoreInv
    <3>3. r.pc = "deciding" => Fences(r)'
      BY <1>1, <3>1, FencesStay DEF FinalizerFits
    <3>4. r.pc = "accepted" => Accepted(r.trace, r.hash)'
      BY <1>1, <3>1, AcceptedStays DEF FinalizerFits
    <3> QED
      BY <3>1, <3>2, <3>3, <3>4 DEF FinalizerFits
  <2> QED
    BY <2>1, <2>2
<1>2. CASE UNCHANGED storeVars
  BY <1>2 DEF storeVars, FinalizerFits, Fences, Accepted, Snapshot, Retired, Exists,
              Open, AuthoritativeEvents, EventsOf
<1> QED
  BY <1>1, <1>2


-----------------------------------------------------------------------------
(* One process acts                                                        *)

LEMMA CallerUnmoved ==
    ASSUME LInv, [Next]_storeVars, NEW d \in Callers, caller'[d] = caller[d]
    PROVE  CallerFits(caller[d])'
<1>1. StoreInv /\ StoreInv' /\ Records
  BY StoreStays DEF LInv
<1>2. PICK q \in CallerRecord : q = caller[d]
  BY <1>1 DEF Records
<1>3. CallerFits(q)
  BY <1>2 DEF LInv
<1>4. CallerFits(q)'
  BY <1>1, <1>3, CallerStays
<1>5. caller'[d] = q
  BY <1>2
<1> QED
  BY <1>4, <1>5 DEF CallerFits

LEMMA FinalizerUnmoved ==
    ASSUME LInv, [Next]_storeVars, NEW g \in Finalizers,
           finalizer'[g] = finalizer[g]
    PROVE  FinalizerFits(finalizer[g])'
<1>1. StoreInv /\ StoreInv' /\ Records
  BY StoreStays DEF LInv
<1>2. PICK q \in FinalizerRecord : q = finalizer[g]
  BY <1>1 DEF Records
<1>3. FinalizerFits(q)
  BY <1>2 DEF LInv
<1>4. FinalizerFits(q)'
  BY <1>1, <1>3, FinalizerStays
<1>5. finalizer'[g] = q
  BY <1>2
<1> QED
  BY <1>4, <1>5 DEF FinalizerFits, Fences

\* Caller c goes on with record r.
LEMMA CallerActs ==
    ASSUME LInv, [Next]_storeVars, NEW c \in Callers, NEW r \in CallerRecord,
           caller' = [caller EXCEPT ![c] = r], finalizer' = finalizer,
           CallerFits(r)',
           r.pc = "delivered" =>
               \A d \in Callers : At(d, "delivered") /\ caller[d].trace = r.trace
                                     => caller[d].recipe = r.recipe
    PROVE  LInv'
<1>1. StoreInv /\ StoreInv' /\ Records
  BY StoreStays DEF LInv
<1>2. caller'[c] = r /\ \A d \in Callers \ {c} : caller'[d] = caller[d]
  BY <1>1 DEF Records
<1>3. Records'
  BY <1>1 DEF Records
<1>4. CallerFits(caller[c])'
  BY <1>2 DEF CallerFits
<1>5. \A d \in Callers \ {c} : CallerFits(caller[d])'
  BY <1>2, CallerUnmoved
<1>6. \A f \in Finalizers : FinalizerFits(finalizer[f])'
  BY FinalizerUnmoved
<1>7. OneRecipePerTurn'
  BY <1>2 DEF LInv, OneRecipePerTurn, At
<1> QED
  BY <1>1, <1>3, <1>4, <1>5, <1>6, <1>7 DEF LInv

\* Finalizer f goes on with record r.
LEMMA FinalizerActs ==
    ASSUME LInv, [Next]_storeVars, NEW f \in Finalizers, NEW r \in FinalizerRecord,
           finalizer' = [finalizer EXCEPT ![f] = r], caller' = caller,
           FinalizerFits(r)'
    PROVE  LInv'
<1>1. StoreInv /\ StoreInv' /\ Records
  BY StoreStays DEF LInv
<1>2. /\ finalizer'[f] = r
      /\ \A g \in Finalizers \ {f} : finalizer'[g] = finalizer[g]
  BY <1>1 DEF Records
<1>3. Records'
  BY <1>1 DEF Records
<1>4. FinalizerFits(finalizer[f])'
  BY <1>2 DEF FinalizerFits, Fences
<1>5. \A g \in Finalizers \ {f} : FinalizerFits(finalizer[g])'
  BY <1>2, FinalizerUnmoved
<1>6. \A d \in Callers : CallerFits(caller[d])'
  BY CallerUnmoved
<1>7. OneRecipePerTurn'
  BY DEF LInv, OneRecipePerTurn, At
<1> QED
  BY <1>1, <1>3, <1>4, <1>5, <1>6, <1>7 DEF LInv

\* No caller and no finalizer acts.
LEMMA OthersAct ==
    ASSUME LInv, [Next]_storeVars, UNCHANGED <<caller, finalizer>>
    PROVE  LInv'
<1>1. StoreInv' /\ Records' /\ OneRecipePerTurn'
  BY StoreStays DEF Records, LInv, OneRecipePerTurn, At
<1>2. \A d \in Callers : CallerFits(caller[d])'
  BY CallerUnmoved
<1>3. \A g \in Finalizers : FinalizerFits(finalizer[g])'
  BY FinalizerUnmoved
<1> QED
  BY <1>1, <1>2, <1>3 DEF LInv

-----------------------------------------------------------------------------
(* The steps of a caller                                                   *)

LEMMA CallerKnows ==
    ASSUME LInv, NEW c \in Callers, caller[c].pc # "idle"
    PROVE  /\ caller[c] \in CallerRecord /\ CallerFits(caller[c])
           /\ caller[c].trace \in Traces /\ caller[c].session \in Sessions
           /\ caller[c].request \in Requests
           /\ caller[c].token \in Tokens /\ caller[c].reservation \in Tokens
<1>1. caller[c] \in CallerRecord /\ CallerFits(caller[c])
  BY DEF LInv, Records
<1>2. /\ caller[c].token \in Nat /\ caller[c].reservation \in Nat /\ uuids \in Nat
  BY <1>1, Rows DEF CallerRecord, LInv, StoreInv, PInv, IInv
<1>3. caller[c].token \in Tokens /\ caller[c].reservation \in Tokens
  BY <1>1, <1>2 DEF CallerFits, Tokens
<1> QED
  BY <1>1, <1>3 DEF CallerFits

LEMMA StoreCall ==
    ASSUME NEW t \in Traces, NEW s \in Sessions,
           PreflightNext(t, s) \/ FinalizationNext(t, s)
    PROVE  Next
BY DEF Next

\* Caller c goes on with what it has.
LEMMA Proceeds ==
    ASSUME LInv, [Next]_storeVars, NEW c \in Callers, caller[c].pc # "idle",
           NEW pc \in {"working", "reading", "waiting", "closing", "failing",
                       "failed", "crashed", "skipped"},
           pc = "failed" => ~caller[c].owner,
           Goto(c, pc), finalizer' = finalizer
    PROVE  LInv'
<1>1. PICK r \in CallerRecord : r = [caller[c] EXCEPT !.pc = pc]
  BY CallerKnows DEF CallerRecord, Done
<1>2. /\ r.pc = pc /\ r.trace = caller[c].trace /\ r.session = caller[c].session
      /\ r.request = caller[c].request /\ r.reservation = caller[c].reservation
      /\ r.token = caller[c].token /\ r.owner = caller[c].owner
  BY <1>1, CallerKnows DEF CallerRecord
<1>3. CallerFits(r)
  BY <1>2, CallerKnows DEF CallerFits
<1>4. caller' = [caller EXCEPT ![c] = r]
  BY <1>1 DEF Goto
<1>5. CallerFits(r)'
  BY <1>3, CallerStays, StoreStays DEF LInv
<1> QED
  BY <1>2, <1>4, <1>5, CallerActs

LEMMA ArriveStep ==
    ASSUME LInv, NEW c \in Callers, NEW call \in Calls, Arrive(c, call)
    PROVE  [Next]_storeVars /\ LInv'
<1>1. UNCHANGED storeVars /\ finalizer' = finalizer
  BY DEF Arrive
<1>2. /\ call.trace \in Traces /\ call.session \in Sessions
      /\ call.request \in Requests
  BY CallsAssumption
<1>3. /\ caller[c] \in CallerRecord /\ CallerFits(caller[c])
      /\ caller[c].pc = "idle"
  BY DEF LInv, Records, Arrive, At
<1>4. PICK pc \in {"begin", "skipped", "reserve"} :
          caller' = [caller EXCEPT ![c] =
              [@ EXCEPT !.pc = pc, !.trace = call.trace,
                        !.session = call.session, !.request = call.request]]
  BY DEF Arrive
<1>5. PICK r : r = [caller[c] EXCEPT !.pc = pc, !.trace = call.trace,
                        !.session = call.session, !.request = call.request]
  OBVIOUS
<1>6. /\ r \in CallerRecord /\ r.pc = pc /\ r.trace = call.trace
      /\ r.session = call.session /\ r.request = call.request
      /\ r.token = caller[c].token /\ r.owner = caller[c].owner
      /\ r.reservation = caller[c].reservation
  BY <1>2, <1>3, <1>5 DEF CallerRecord, Done
<1>7. caller' = [caller EXCEPT ![c] = r]
  BY <1>4, <1>5
<1>8. CallerFits(r)
  BY <1>2, <1>3, <1>6 DEF CallerFits
<1>9. CallerFits(r)'
  BY <1>1, <1>6, <1>8, CallerStays, StoreStays DEF LInv
<1> QED
  BY <1>1, <1>6, <1>7, <1>9, CallerActs

LEMMA ReserveStep ==
    ASSUME LInv, NEW c \in Callers, Reserve(c)
    PROVE  [Next]_storeVars /\ LInv'
<1> DEFINE t == caller[c].trace
           s == caller[c].session
<1>1. caller[c].pc = "reserve" /\ finalizer' = finalizer
  BY DEF Reserve, At
<1>2. /\ caller[c] \in CallerRecord /\ CallerFits(caller[c])
      /\ t \in Traces /\ s \in Sessions /\ caller[c].request \in Requests
      /\ ~caller[c].owner /\ caller[c].token = 0
  BY <1>1, CallerKnows DEF CallerFits
<1>3. CASE UNCHANGED storeVars /\ Goto(c, "failed")
  BY <1>1, <1>2, <1>3, Proceeds
<1>4. CASE /\ ReserveSessionTurn(t, s)
           /\ caller' = [caller EXCEPT ![c].pc = "begin",
                                       ![c].reservation = ReservationOf(t)]
  <2>1. Next
    BY <1>2, <1>4, StoreCall DEF PreflightNext
  <2>2. StoreInv' /\ TypeInv /\ TypeInv'
    BY <2>1, StoreStays DEF LInv, StoreInv, PInv, IInv
  <2>3. PICK resv : resv = ReservationOf(t)
    OBVIOUS
  <2>4. resv \in Nat /\ resv <= uuids'
    <3>1. uuids \in Nat /\ runs[t] \in Run /\ uuids' \in Nat
      BY <1>2, <2>2, Rows DEF TypeInv, TypeOK
    <3>2. CASE ~Exists(t)
      <4>1. uuids' = uuids + 1 /\ resv = uuids + 1
        BY <1>4, <2>3, <3>2 DEF ReserveSessionTurn, Issue, ReservationOf, Fresh
      <4> QED
        BY <3>1, <4>1
    <3>3. CASE Exists(t)
      <4>1. Open(t)
        BY <1>4, <3>3 DEF ReserveSessionTurn, Usable, OpenIn
      <4>2. uuids' = uuids
        BY <1>4, <3>3 DEF ReserveSessionTurn
      <4>3. runs[t].reservation \in Nat /\ runs[t].reservation <= uuids
        BY <1>2, <3>1, <4>1 DEF LInv, StoreInv, TokensIssued, Run
      <4>4. resv = 0 \/ resv = runs[t].reservation
        BY <2>3, <3>3 DEF ReservationOf
      <4> QED
        BY <3>1, <4>2, <4>3, <4>4
    <3> QED
      BY <3>2, <3>3
  <2>5. PICK r : r = [caller[c] EXCEPT !.pc = "begin", !.reservation = resv]
    OBVIOUS
  <2>6. /\ r \in CallerRecord /\ r.pc = "begin" /\ r.trace = t /\ r.session = s
        /\ r.request = caller[c].request /\ r.reservation = resv
        /\ r.token = caller[c].token /\ r.owner = caller[c].owner
    BY <1>2, <2>4, <2>5 DEF CallerRecord, Done
  <2>7. caller' = [caller EXCEPT ![c] = r]
    BY <1>4, <2>3, <2>5
  <2>8. 0 <= uuids'
    BY <2>2, Rows DEF TypeInv, TypeOK
  <2>9. CallerFits(r)'
    BY <1>2, <2>4, <2>6, <2>8 DEF CallerFits
  <2> QED
    BY <1>1, <2>1, <2>6, <2>7, <2>9, CallerActs
<1> QED
  BY <1>3, <1>4 DEF Reserve

LEMMA AbandonStep ==
    ASSUME LInv, NEW c \in Callers, caller[c].pc # "idle",
           NEW status \in {"preflight_skipped", "preflight_failed"},
           Abandon(c, status)
    PROVE  [Next]_storeVars
<1> DEFINE t == caller[c].trace
           s == caller[c].session
           resv == caller[c].reservation
<1>1. t \in Traces /\ s \in Sessions /\ resv \in Tokens
  BY CallerKnows
<1>2. CASE AbandonPreflightReservation(t, s, resv, status)
  <2>1. PreflightNext(t, s)
    BY <1>1, <1>2 DEF PreflightNext
  <2> QED
    BY <1>1, <2>1, StoreCall
<1> QED
  BY <1>2 DEF Abandon

LEMMA SkipPreflightStep ==
    ASSUME LInv, NEW c \in Callers, SkipPreflight(c)
    PROVE  [Next]_storeVars /\ LInv'
<1>1. /\ caller[c].pc = "begin" /\ Abandon(c, "preflight_skipped")
      /\ Goto(c, "skipped") /\ finalizer' = finalizer
  BY DEF SkipPreflight, At
<1>2. [Next]_storeVars
  BY <1>1, AbandonStep
<1> QED
  BY <1>1, <1>2, Proceeds

\* A caller begins an attempt with a fresh token.
LEMMA OwnStep ==
    ASSUME LInv, NEW c \in Callers, At(c, "begin"), Next, uuids' = uuids + 1,
           caller' = [caller EXCEPT ![c].pc = "working", ![c].token = Fresh,
                                    ![c].owner = TRUE],
           finalizer' = finalizer
    PROVE  LInv'
<1>1. /\ caller[c] \in CallerRecord /\ CallerFits(caller[c])
      /\ caller[c].trace \in Traces /\ caller[c].session \in Sessions
      /\ caller[c].request \in Requests
  BY CallerKnows DEF At
<1>2. uuids \in Nat
  BY Rows DEF LInv, StoreInv, PInv, IInv
<1>3. Fresh = uuids' /\ Fresh \in Nat /\ Fresh # 0 /\ Fresh <= uuids' /\ uuids <= uuids'
  BY <1>2 DEF Fresh
<1>4. PICK r : r = [caller[c] EXCEPT !.pc = "working", !.token = Fresh,
                                     !.owner = TRUE]
  OBVIOUS
<1>5. /\ r \in CallerRecord /\ r.pc = "working" /\ r.token = Fresh /\ r.owner = TRUE
      /\ r.trace = caller[c].trace /\ r.session = caller[c].session
      /\ r.request = caller[c].request /\ r.reservation = caller[c].reservation
  BY <1>1, <1>3, <1>4 DEF CallerRecord, Done
<1>6. caller' = [caller EXCEPT ![c] = r]
  BY <1>4
<1>7. r.reservation <= uuids'
  <2>1. caller[c].reservation \in Nat /\ caller[c].reservation <= uuids
    BY <1>1 DEF CallerRecord, CallerFits
  <2> QED
    BY <1>2, <1>3, <1>5, <2>1
<1>8. CallerFits(r)'
  BY <1>1, <1>3, <1>5, <1>7 DEF CallerFits
<1> QED
  BY <1>5, <1>6, <1>8, CallerActs

\* A caller joins the attempt of another one.
LEMMA JoinStep ==
    ASSUME LInv, NEW c \in Callers, At(c, "begin"), Next,
           NEW token \in Tokens, token # 0, NEW pc \in {"reading", "waiting"},
           NEW deadline \in Nat,
           caller' = [caller EXCEPT ![c].pc = pc, ![c].token = token,
                                    ![c].deadline = deadline],
           finalizer' = finalizer
    PROVE  LInv'
<1>1. /\ caller[c] \in CallerRecord /\ CallerFits(caller[c])
      /\ caller[c].trace \in Traces /\ caller[c].session \in Sessions
      /\ caller[c].request \in Requests
  BY CallerKnows DEF At
<1>2. token \in Nat /\ token <= uuids
  BY Rows DEF Tokens, LInv, StoreInv, PInv, IInv
<1>3. PICK r : r = [caller[c] EXCEPT !.pc = pc, !.token = token,
                                     !.deadline = deadline]
  OBVIOUS
<1>4. /\ r \in CallerRecord /\ r.pc = pc /\ r.token = token
      /\ r.owner = caller[c].owner
      /\ r.trace = caller[c].trace /\ r.session = caller[c].session
      /\ r.request = caller[c].request /\ r.reservation = caller[c].reservation
  BY <1>1, <1>2, <1>3 DEF CallerRecord, Done
<1>5. caller' = [caller EXCEPT ![c] = r]
  BY <1>3
<1>6. CallerFits(r)
  BY <1>1, <1>2, <1>4 DEF CallerFits
<1>7. CallerFits(r)'
  BY <1>4, <1>6, CallerStays, StoreStays DEF LInv
<1> QED
  BY <1>4, <1>5, <1>7, CallerActs

LEMMA BeginStep ==
    ASSUME LInv, NEW c \in Callers, Begin(c)
    PROVE  [Next]_storeVars /\ LInv'
<1> DEFINE t == caller[c].trace
           s == caller[c].session
           q == caller[c].request
           resv == caller[c].reservation
           deadline == IF clock + WaitLength < MaxClock THEN clock + WaitLength
                       ELSE MaxClock
<1>1. caller[c].pc = "begin" /\ At(c, "begin") /\ finalizer' = finalizer
  BY DEF Begin, At
<1>2. t \in Traces /\ s \in Sessions /\ q \in Requests /\ resv \in Tokens
  BY <1>1, CallerKnows
<1>3. CASE /\ StartAttempt(t, s, q, resv) \/ RecoverAttempt(t, s, q, resv)
           /\ caller' = [caller EXCEPT ![c].pc = "working", ![c].token = Fresh,
                                       ![c].owner = TRUE]
  <2>1. PreflightNext(t, s)
    BY <1>2, <1>3 DEF PreflightNext
  <2>2. Next
    BY <1>2, <2>1, StoreCall
  <2>3. uuids' = uuids + 1
    BY <1>3 DEF StartAttempt, RecoverAttempt, Issue
  <2> QED
    BY <1>1, <1>3, <2>2, <2>3, OwnStep
<1>4. CASE /\ ReuseAttempt(t, s, q, resv)
           /\ caller' = [caller EXCEPT
                  ![c].pc = IF runs[t].pstate = "ready" THEN "reading" ELSE "waiting",
                  ![c].token = runs[t].attempt, ![c].deadline = deadline]
  <2>1. PreflightNext(t, s)
    BY <1>2, <1>4 DEF PreflightNext
  <2>2. Next
    BY <1>2, <2>1, StoreCall
  <2>3. Open(t) /\ runs[t].attempt # 0
    BY <1>4 DEF ReuseAttempt, CanReuseReady, CanReuse, Shares, Admits, OpenIn
  <2>4. runs[t].attempt \in Tokens
    <3>1. runs[t].attempt \in Nat /\ uuids \in Nat
      BY <1>2, Leases DEF LInv, StoreInv, PInv, IInv
    <3>2. runs[t].attempt <= uuids
      BY <1>2, <2>3 DEF LInv, StoreInv, TokensIssued
    <3> QED
      BY <3>1, <3>2 DEF Tokens
  <2>5. deadline \in Nat
    BY Rows, WaitAssumption, BoundsAssumption DEF LInv, StoreInv, PInv, IInv
  <2>6. PICK pc \in {"reading", "waiting"} :
            pc = IF runs[t].pstate = "ready" THEN "reading" ELSE "waiting"
    OBVIOUS
  <2>7. caller' = [caller EXCEPT ![c].pc = pc, ![c].token = runs[t].attempt,
                                 ![c].deadline = deadline]
    BY <1>4, <2>6
  <2> HIDE DEF deadline
  <2> QED
    BY <1>1, <2>2, <2>3, <2>4, <2>5, <2>7, JoinStep
<1>5. CASE Goto(c, "failing") /\ UNCHANGED storeVars
  BY <1>1, <1>5, Proceeds
<1> QED
  BY <1>3, <1>4, <1>5 DEF Begin

LEMMA WorkStep ==
    ASSUME LInv, NEW c \in Callers, Work(c)
    PROVE  [Next]_storeVars /\ LInv'
<1> DEFINE t == caller[c].trace
           s == caller[c].session
           token == caller[c].token
<1>1. caller[c].pc = "working" /\ finalizer' = finalizer
  BY DEF Work, At
<1>2. t \in Traces /\ s \in Sessions /\ token \in Tokens
  BY <1>1, CallerKnows
<1>3. CASE /\ \E direct \in BOOLEAN : MarkPreflightReady(t, s, token, direct)
           /\ Goto(c, "reading")
  <2>1. PreflightNext(t, s)
    BY <1>2, <1>3 DEF PreflightNext
  <2>2. Next
    BY <1>2, <2>1, StoreCall
  <2> QED
    BY <1>1, <1>3, <2>2, Proceeds
<1>4. CASE Goto(c, "failing") /\ UNCHANGED storeVars
  BY <1>1, <1>4, Proceeds
<1> QED
  BY <1>3, <1>4 DEF Work

\* Whoever delivers delivers what the turn shows, so what the others did.
LEMMA ReadStep ==
    ASSUME LInv, NEW c \in Callers, Read(c)
    PROVE  [Next]_storeVars /\ LInv'
<1> DEFINE t == caller[c].trace
<1>1. /\ caller[c].pc \in {"reading", "waiting"}
      /\ UNCHANGED storeVars /\ finalizer' = finalizer
  BY DEF Read, At
<1>2. /\ caller[c] \in CallerRecord /\ CallerFits(caller[c]) /\ t \in Traces
      /\ caller[c].session \in Sessions /\ caller[c].request \in Requests
  BY <1>1, CallerKnows
<1>3. CASE Goto(c, "failing") \/ Goto(c, "closing")
  BY <1>1, <1>3, Proceeds
<1>4. CASE caller' = [caller EXCEPT ![c].pc = "delivered", ![c].recipe = runs[t].result]
  <2>1. Open(t) /\ runs[t].pstate = "ready"
    BY DEF Read, Observed, CanReplayReady, OpenIn
  <2>2. runs[t].result \in Nat
    BY <1>2 DEF LInv, StoreInv, PInv, IInv, TypeInv, TypeOK, Run
  <2>3. PICK r : r = [caller[c] EXCEPT !.pc = "delivered", !.recipe = runs[t].result]
    OBVIOUS
  <2>4. /\ r \in CallerRecord /\ r.pc = "delivered" /\ r.trace = t
        /\ r.session = caller[c].session /\ r.request = caller[c].request
        /\ r.reservation = caller[c].reservation /\ r.token = caller[c].token
        /\ r.owner = caller[c].owner /\ r.recipe = runs[t].result
    BY <1>2, <2>2, <2>3 DEF CallerRecord, Done
  <2>5. caller' = [caller EXCEPT ![c] = r]
    BY <1>4, <2>3
  <2>6. StillShows(t, r.recipe)
    BY <2>1, <2>4 DEF StillShows
  <2>7. CallerFits(r)
    BY <1>2, <2>4, <2>6 DEF CallerFits
  <2>8. CallerFits(r)'
    BY <1>1, <2>4, <2>7, CallerStays, StoreStays DEF LInv
  <2>9. ASSUME NEW d \in Callers, At(d, "delivered"), caller[d].trace = r.trace
        PROVE  caller[d].recipe = r.recipe
    <3>1. StillShows(t, caller[d].recipe)
      BY <2>4, <2>9 DEF LInv, CallerFits, At
    <3>2. ~Retired(t)
      <4>1. Exists(t)
        BY <2>1 DEF Open, Exists, OpenStatuses
      <4> QED
        BY <1>2, <4>1 DEF LInv, StoreInv, PInv, IInv, NoResurrection
    <3> QED
      BY <2>1, <2>4, <3>1, <3>2 DEF StillShows, Closed
  <2> QED
    BY <1>1, <2>4, <2>5, <2>8, <2>9, CallerActs
<1> QED
  BY <1>3, <1>4 DEF Read

LEMMA CloseDisabledStep ==
    ASSUME LInv, NEW c \in Callers, CloseDisabled(c)
    PROVE  [Next]_storeVars /\ LInv'
<1> DEFINE t == caller[c].trace
           s == caller[c].session
<1>1. /\ caller[c].pc = "closing" /\ Goto(c, "failing") /\ finalizer' = finalizer
      /\ CloseTurnEvidence(t, s, "failed") \/ UNCHANGED storeVars
  BY DEF CloseDisabled, At
<1>2. t \in Traces /\ s \in Sessions
  BY <1>1, CallerKnows
<1>3. [Next]_storeVars
  BY <1>1, <1>2, StoreCall DEF FinalizationNext
<1> QED
  BY <1>1, <1>3, Proceeds

LEMMA ReadFailsStep ==
    ASSUME LInv, NEW c \in Callers, ReadFails(c)
    PROVE  [Next]_storeVars /\ LInv'
BY Proceeds DEF ReadFails, At

LEMMA CrashStep ==
    ASSUME LInv, NEW c \in Callers, Crash(c)
    PROVE  [Next]_storeVars /\ LInv'
BY Proceeds DEF Crash

\* A failed turn is closed, whatever else its row says.
LEMMA FailCloses ==
    ASSUME TypeInv, NEW t \in Traces, NEW s, NEW token,
           FailPreflightAttempt(t, s, token)
    PROVE  /\ Owns(t, s, token) /\ runs'[t].status = "preflight_failed"
           /\ \A u \in Traces \ {t} : runs'[u] = runs[u]
<1> DEFINE a == ClosedRow(t, "preflight_failed")
           b == [a EXCEPT !.pstate = "", !.attempt = 0, !.lease = 0, !.result = 0]
           r == Bump(b, 1)
<1>1. Owns(t, s, token) /\ Open(t) /\ runs' = [runs EXCEPT ![t] = r]
  BY DEF FailPreflightAttempt, CanFail, Owns, Open, OpenStatuses
<1>2. "preflight_failed" \in ClosedStatuses \ {"retention_expired"}
  BY DEF ClosedStatuses
<1>3. a \in Run /\ a.status = "preflight_failed"
  BY <1>1, <1>2, ClosedRowStamps DEF TypeInv
<1> HIDE DEF a
<1>4. b \in Run /\ b.status = "preflight_failed"
  BY <1>3 DEF Run
<1> HIDE DEF b
<1>5. r.status = "preflight_failed"
  BY <1>4, BumpKeeps
<1> QED
  BY <1>1, <1>5 DEF TypeInv, TypeOK

\* An owner reports its failure once it owns nothing any more.
LEMMA FailStep ==
    ASSUME LInv, NEW c \in Callers, Fail(c)
    PROVE  [Next]_storeVars /\ LInv'
<1> DEFINE t == caller[c].trace
           s == caller[c].session
           token == caller[c].token
<1>1. caller[c].pc = "failing" /\ Goto(c, "failed") /\ finalizer' = finalizer
  BY DEF Fail, At
<1>2. /\ caller[c] \in CallerRecord /\ CallerFits(caller[c])
      /\ t \in Traces /\ s \in Sessions /\ token \in Tokens
      /\ caller[c].request \in Requests
  BY <1>1, CallerKnows
<1>3. CASE /\ caller[c].owner
           /\ \/ FailPreflightAttempt(t, s, token)
              \/ ~CanFail(t, s, token) /\ UNCHANGED storeVars
  <2>1. [Next]_storeVars
    <3>1. FailPreflightAttempt(t, s, token) => PreflightNext(t, s)
      BY <1>2 DEF PreflightNext
    <3> QED
      BY <1>2, <1>3, <3>1, StoreCall
  <2>2. PICK q \in CallerRecord : q = caller[c]
    BY <1>2
  <2>3. /\ q.trace = t /\ q.session = s /\ q.token = token /\ q.pc = "failing"
        /\ q.trace \in Traces
    BY <1>1, <1>2, <2>2
  <2>4. CallerFits(q)'
    BY <1>2, <2>1, <2>2, CallerStays, StoreStays DEF LInv
  <2>5. ~Owns(q.trace, q.session, q.token)'
    <3>1. CASE FailPreflightAttempt(q.trace, q.session, q.token)
      <4>1. runs'[q.trace].status = "preflight_failed"
        BY <2>3, <3>1, FailCloses DEF LInv, StoreInv, PInv, IInv
      <4> QED
        BY <4>1 DEF Owns
    <3>2. CASE ~CanFail(q.trace, q.session, q.token) /\ UNCHANGED storeVars
      BY <3>2 DEF CanFail, Owns, storeVars
    <3> QED
      BY <1>3, <2>3, <3>1, <3>2
  <2>6. PICK r : r = [q EXCEPT !.pc = "failed"]
    OBVIOUS
  <2>7. /\ r \in CallerRecord /\ r.pc = "failed" /\ r.trace = q.trace
        /\ r.session = q.session /\ r.request = q.request
        /\ r.reservation = q.reservation /\ r.token = q.token /\ r.owner = q.owner
    BY <2>6 DEF CallerRecord, Done
  <2>8. CallerFits(r)'
    BY <2>3, <2>4, <2>5, <2>7 DEF CallerFits
  <2>9. caller' = [caller EXCEPT ![c] = r]
    BY <1>1, <2>2, <2>6 DEF Goto
  <2> QED
    BY <1>1, <2>1, <2>7, <2>8, <2>9, CallerActs
<1>4. CASE /\ token = 0 /\ caller[c].reservation # 0
           /\ Abandon(c, "preflight_failed")
  <2>1. [Next]_storeVars
    BY <1>1, <1>4, AbandonStep
  <2>2. ~caller[c].owner
    BY <1>2, <1>4 DEF CallerFits
  <2> QED
    BY <1>1, <2>1, <2>2, Proceeds
<1>5. CASE ~caller[c].owner /\ UNCHANGED storeVars
  BY <1>1, <1>5, Proceeds
<1> QED
  BY <1>3, <1>4, <1>5 DEF Fail


-----------------------------------------------------------------------------
(* The steps of a finalizer                                                *)

LEMMA FinalizerKnows ==
    ASSUME LInv, NEW f \in Finalizers, finalizer[f].pc # "idle"
    PROVE  /\ finalizer[f] \in FinalizerRecord /\ FinalizerFits(finalizer[f])
           /\ finalizer[f].trace \in Traces /\ finalizer[f].session \in Sessions
           /\ finalizer[f].hash \in Hashes
BY DEF LInv, Records, FinalizerFits

LEMMA ReadSnapshotStep ==
    ASSUME LInv, NEW f \in Finalizers, NEW t \in Traces, NEW h \in Hashes,
           ReadSnapshot(f, t, h)
    PROVE  [Next]_storeVars /\ LInv'
<1>1. Open(t) /\ UNCHANGED storeVars /\ caller' = caller
  BY DEF ReadSnapshot
<1>2. PICK r : r = [pc |-> "deciding", trace |-> t, session |-> runs[t].session,
                    hash |-> h, revision |-> runs[t].revision,
                    seen |-> {Snapshot(t)}]
  OBVIOUS
<1>3. TypeOK /\ runs[t] \in Run /\ runs[t].session \in Sessions
  BY <1>1 DEF LInv, StoreInv, Placed, PInv, IInv, TypeInv, TypeOK
<1>4. Snapshot(t) \in SnapshotRecord
  BY <1>3 DEF Snapshot, SnapshotRecord, Run, TypeOK, EventsOf
<1>5. r \in FinalizerRecord
  BY <1>2, <1>3, <1>4 DEF FinalizerRecord, Run
<1>6. /\ r.pc = "deciding" /\ r.trace = t /\ r.session = runs[t].session
      /\ r.hash = h /\ r.revision = runs[t].revision /\ r.seen = {Snapshot(t)}
  BY <1>2
<1>7. Fences(r)
  <2>1. r.revision <= r.revision
    <3>1. r.revision \in Nat
      BY <1>5 DEF FinalizerRecord
    <3> QED
      BY <3>1
  <2>2. r.revision = runs[r.trace].revision /\ r.seen = {Snapshot(r.trace)}
    BY <1>6
  <2> QED
    BY <2>1, <2>2 DEF Fences
<1>8. FinalizerFits(r)
  BY <1>1, <1>3, <1>6, <1>7 DEF FinalizerFits, Open, Exists, OpenStatuses
<1>9. FinalizerFits(r)'
  BY <1>1, <1>5, <1>8, FinalizerStays, StoreStays DEF LInv
<1>10. finalizer' = [finalizer EXCEPT ![f] = r]
  BY <1>2 DEF ReadSnapshot
<1> QED
  BY <1>1, <1>5, <1>9, <1>10, FinalizerActs

\* Finalizer f is done, without a response it calls accepted.
LEMMA Settles ==
    ASSUME LInv, [Next]_storeVars, NEW f \in Finalizers, finalizer[f].pc # "idle",
           NEW pc \in {"rejected", "unverified"}, Finish(f, pc), caller' = caller
    PROVE  LInv'
<1>1. PICK r : r = [finalizer[f] EXCEPT !.pc = pc]
  OBVIOUS
<1>2. /\ r \in FinalizerRecord /\ r.pc = pc /\ r.trace = finalizer[f].trace
      /\ r.session = finalizer[f].session /\ r.hash = finalizer[f].hash
  BY <1>1, FinalizerKnows DEF FinalizerRecord
<1>3. FinalizerFits(r)
  BY <1>2, FinalizerKnows DEF FinalizerFits
<1>4. FinalizerFits(r)'
  BY <1>2, <1>3, FinalizerStays, StoreStays DEF LInv
<1>5. finalizer' = [finalizer EXCEPT ![f] = r]
  BY <1>1 DEF Finish
<1> QED
  BY <1>2, <1>4, <1>5, FinalizerActs

\* Finalizer f reports its response as accepted.
LEMMA Accepts ==
    ASSUME LInv, [Next]_storeVars, NEW f \in Finalizers,
           finalizer[f].pc = "deciding", Finish(f, "accepted"), caller' = caller,
           NEW t \in Traces, NEW h \in Hashes,
           t = finalizer[f].trace, h = finalizer[f].hash, Accepted(t, h)'
    PROVE  LInv'
<1>1. PICK q \in FinalizerRecord : q = finalizer[f]
  BY DEF LInv, Records
<1>2. FinalizerFits(q) /\ q.trace = t /\ q.hash = h /\ q.pc = "deciding"
  BY <1>1 DEF LInv
<1>3. FinalizerFits(q)'
  BY <1>2, FinalizerStays, StoreStays DEF LInv
<1>4. PICK r : r = [q EXCEPT !.pc = "accepted"]
  OBVIOUS
<1>5. /\ r \in FinalizerRecord /\ r.pc = "accepted" /\ r.trace = q.trace
      /\ r.session = q.session /\ r.hash = q.hash
  BY <1>4 DEF FinalizerRecord
<1>6. FinalizerFits(r)'
  BY <1>2, <1>3, <1>5 DEF FinalizerFits
<1>7. finalizer' = [finalizer EXCEPT ![f] = r]
  BY <1>1, <1>4 DEF Finish
<1> QED
  BY <1>5, <1>6, <1>7, FinalizerActs

LEMMA CommitVerdictStep ==
    ASSUME LInv, NEW f \in Finalizers, NEW status \in BoundStatuses,
           CommitVerdict(f, status)
    PROVE  [Next]_storeVars /\ LInv'
<1>1. PICK q \in FinalizerRecord : q = finalizer[f]
  BY DEF LInv, Records
<1>2. /\ q.pc = "deciding" /\ Finish(f, VerdictPc(status)) /\ caller' = caller
      /\ CommitTerminalFinalization(q.trace, q.session, q.hash, status, q.revision)
  BY <1>1 DEF CommitVerdict
<1>3. /\ finalizer[f].pc # "idle" /\ q.trace \in Traces /\ q.session \in Sessions
      /\ q.hash \in Hashes
  BY <1>1, <1>2, FinalizerKnows
<1>4. TypeInv /\ PInv
  BY DEF LInv, StoreInv, PInv, IInv
<1>5. Next
  <2>1. q.revision = runs[q.trace].revision - 0
    <3>1. q.revision = runs[q.trace].revision
      BY <1>2 DEF CommitTerminalFinalization, CanCommitTerminal
    <3>2. runs[q.trace].revision \in Nat
      BY <1>3, <1>4, Rows
    <3> QED
      BY <3>1, <3>2
  <2>2. CommitTerminalFinalization(q.trace, q.session, q.hash, status,
                                   runs[q.trace].revision - 0)
    BY <1>2, <2>1
  <2>3. FinalizationNext(q.trace, q.session)
    BY <1>3, <2>2 DEF FinalizationNext
  <2> QED
    BY <1>3, <2>3, StoreCall
<1>6. CASE status # "completed"
  <2>1. Finish(f, "rejected")
    BY <1>2, <1>6 DEF VerdictPc
  <2> QED
    BY <1>2, <1>3, <1>5, <2>1, Settles
<1>7. CASE status = "completed"
  <2> DEFINE e == [id |-> uuids + 1, trace |-> q.trace, action |-> "terminal",
                   hash |-> q.hash, status |-> status]
  <2>1. /\ runs'[q.trace].status = status /\ runs'[q.trace].ended
        /\ runs'[q.trace].binding = uuids + 1 /\ events' = events \cup {e}
    BY <1>2, <1>3, <1>4, CommitShape
  <2>2. /\ e.id = uuids + 1 /\ e.trace = q.trace /\ e.hash = q.hash
        /\ e.status = status
    OBVIOUS
  <2> HIDE DEF e
  <2>3. \A g \in events : g.id # uuids + 1
    <3> SUFFICES ASSUME NEW g \in events
                 PROVE  g.id # uuids + 1
      OBVIOUS
    <3>1. g.id \in Nat /\ uuids \in Nat /\ g.id <= uuids
      BY <1>4 DEF PInv, EventsIssued, TypeInv, TypeOK, Event
    <3> QED
      BY <3>1
  <2>4. AuthoritativeEvents(q.trace)' = {e}
    BY <1>7, <2>1, <2>2, <2>3 DEF AuthoritativeEvents, EventsOf, Exists
  <2>5. Accepted(q.trace, q.hash)'
    BY <1>7, <2>1, <2>2, <2>4 DEF Accepted
  <2>6. Finish(f, "accepted")
    BY <1>2, <1>7 DEF VerdictPc
  <2> QED
    BY <1>1, <1>2, <1>3, <1>5, <2>5, <2>6, Accepts
<1> QED
  BY <1>6, <1>7

LEMMA ReplayVerdictStep ==
    ASSUME LInv, NEW f \in Finalizers, NEW status \in BoundStatuses,
           ReplayVerdict(f, status)
    PROVE  [Next]_storeVars /\ LInv'
<1>1. PICK q \in FinalizerRecord : q = finalizer[f]
  BY DEF LInv, Records
<1>2. /\ q.pc = "deciding" /\ Finish(f, VerdictPc(status)) /\ caller' = caller
      /\ IsTerminalReplay(q.trace, q.session, q.hash, status)
      /\ UNCHANGED storeVars
  BY <1>1 DEF ReplayVerdict
<1>3. /\ finalizer[f].pc # "idle" /\ q.trace \in Traces /\ q.hash \in Hashes
  BY <1>1, <1>2, FinalizerKnows
<1>4. CASE status # "completed"
  <2>1. Finish(f, "rejected")
    BY <1>2, <1>4 DEF VerdictPc
  <2> QED
    BY <1>2, <1>3, <2>1, Settles
<1>5. CASE status = "completed"
  <2>1. PICK e \in EventsOf(q.trace) : /\ e.id = runs[q.trace].binding
                                       /\ e.hash = q.hash /\ e.status = status
    BY <1>2 DEF IsTerminalReplay
  <2>2. Exists(q.trace) /\ runs[q.trace].ended /\ runs[q.trace].status = status
    BY <1>2 DEF IsTerminalReplay
  <2>3. AuthoritativeEvents(q.trace) = {e}
    BY <2>1, <2>2 DEF AuthoritativeEvents, EventsOf, LInv, StoreInv, EventsApart
  <2>4. Accepted(q.trace, q.hash)
    BY <1>5, <2>1, <2>2, <2>3 DEF Accepted
  <2>5. Accepted(q.trace, q.hash)'
    BY <1>2, <2>4 DEF storeVars, Accepted, Retired, AuthoritativeEvents, EventsOf,
                      Exists
  <2>6. Finish(f, "accepted")
    BY <1>2, <1>5 DEF VerdictPc
  <2> QED
    BY <1>1, <1>2, <1>3, <2>5, <2>6, Accepts
<1> QED
  BY <1>4, <1>5

\* A finalizer closes the turn, records an observation, or does neither.
LEMMA UnverifiedStep ==
    ASSUME LInv, NEW f \in Finalizers, finalizer[f].pc = "deciding",
           \/ CloseTurnEvidence(finalizer[f].trace, finalizer[f].session, "failed")
           \/ RecordFinalization(finalizer[f].trace)
           \/ UNCHANGED storeVars,
           Finish(f, "unverified"), caller' = caller
    PROVE  [Next]_storeVars /\ LInv'
<1>1. finalizer[f].trace \in Traces /\ finalizer[f].session \in Sessions
  BY FinalizerKnows
<1>2. [Next]_storeVars
  BY <1>1, StoreCall DEF FinalizationNext
<1> QED
  BY <1>2, Settles

LEMMA FinalizerStepHolds ==
    ASSUME LInv, NEW f \in Finalizers, FinalizerStep(f)
    PROVE  [Next]_storeVars /\ LInv'
<1>1. ASSUME NEW status \in BoundStatuses, VerdictRefused(f, status)
      PROVE  [Next]_storeVars /\ LInv'
  BY <1>1, UnverifiedStep DEF VerdictRefused
<1>2. CASE Continue(f) \/ VerificationFails(f)
  BY <1>2, UnverifiedStep DEF Continue, VerificationFails
<1> QED
  BY <1>1, <1>2, ReadSnapshotStep, CommitVerdictStep, ReplayVerdictStep
     DEF FinalizerStep

-----------------------------------------------------------------------------
(* Every step of the lifecycle                                             *)

LEMMA CallerStepHolds ==
    ASSUME LInv, NEW c \in Callers,
           (\E call \in Calls : Arrive(c, call)) \/ CallerStep(c) \/ Crash(c)
    PROVE  [Next]_storeVars /\ LInv'
BY ArriveStep, ReserveStep, SkipPreflightStep, BeginStep, WorkStep, ReadStep,
   CloseDisabledStep, ReadFailsStep, FailStep, CrashStep DEF CallerStep

LEMMA SurroundingsHold ==
    ASSUME LInv, HostEvidence \/ Retention \/ TimePasses
    PROVE  [Next]_storeVars /\ LInv'
<1>1. Next /\ UNCHANGED <<caller, finalizer>>
  <2>1. CASE HostEvidence
    <3>1. PICK t \in Traces, s \in Sessions, live \in BOOLEAN :
              RecordEvidence(t, s, live)
      BY <2>1 DEF HostEvidence
    <3>2. PreflightNext(t, s)
      BY <3>1 DEF PreflightNext
    <3> QED
      BY <2>1, <3>2, StoreCall DEF HostEvidence
  <2>2. CASE Retention
    BY <2>2 DEF Retention, Next, RetentionNext
  <2>3. CASE TimePasses
    BY <2>3 DEF TimePasses, Next
  <2> QED
    BY <2>1, <2>2, <2>3
<1> QED
  BY <1>1, OthersAct

\* Every step of a process is a call of the store, or none.
LEMMA LifecycleStep ==
    ASSUME LInv, [LifecycleNext]_vars
    PROVE  [Next]_storeVars /\ LInv'
<1>1. CASE LifecycleNext
  BY <1>1, CallerStepHolds, FinalizerStepHolds, SurroundingsHold DEF LifecycleNext
<1>2. CASE UNCHANGED vars
  BY <1>2, OthersAct DEF vars
<1> QED
  BY <1>1, <1>2

LEMMA LifecycleInitHolds ==
    ASSUME LifecycleInit
    PROVE  LInv
<1>1. PInv
  BY InitPInv DEF LifecycleInit
<1>2. \A t \in Traces : ~Open(t)
  BY DEF LifecycleInit, Init, Open, Absent, OpenStatuses
<1>3. events = {} /\ uuids = 0
  BY DEF LifecycleInit, Init
<1>4. StoreInv
  BY <1>1, <1>2, <1>3 DEF StoreInv, Placed, EventsApart, TokensIssued
<1>5. IdleCaller \in CallerRecord /\ IdleFinalizer \in FinalizerRecord
  BY DEF IdleCaller, CallerRecord, IdleFinalizer, FinalizerRecord
<1>6. Records
  BY <1>5 DEF LifecycleInit, Records
<1>7. CallerFits(IdleCaller)
  BY <1>3 DEF CallerFits, IdleCaller
<1>8. FinalizerFits(IdleFinalizer)
  BY DEF FinalizerFits, IdleFinalizer
<1>9. \A c \in Callers : caller[c] = IdleCaller
  BY DEF LifecycleInit
<1>10. \A f \in Finalizers : finalizer[f] = IdleFinalizer
  BY DEF LifecycleInit
<1>11. OneRecipePerTurn
  BY <1>9 DEF OneRecipePerTurn, At, IdleCaller
<1> QED
  BY <1>4, <1>6, <1>7, <1>8, <1>9, <1>10, <1>11 DEF LInv


-----------------------------------------------------------------------------
(* Who fails a turn                                                        *)

\* No open turn fails its preflight in this step.
Spared ==
    \A t \in Traces : Open(t) => runs'[t].status # "preflight_failed"

LEMMA UnchangedSpared ==
    ASSUME runs' = runs
    PROVE  Spared
BY DEF Spared, Open, OpenStatuses

LEMMA OneRowSpared ==
    ASSUME TypeInv, NEW u \in Traces, NEW r, runs' = [runs EXCEPT ![u] = r],
           r.status # "preflight_failed"
    PROVE  Spared
<1>1. runs'[u] = r /\ \A t \in Traces \ {u} : runs'[t] = runs[t]
  BY DEF TypeInv, TypeOK
<1> QED
  BY <1>1 DEF Spared, Open, OpenStatuses

LEMMA ReserveSpared ==
    ASSUME TypeInv, NEW u \in Traces, NEW s \in Sessions, ReserveSessionTurn(u, s)
    PROVE  Spared
<1> SUFFICES ASSUME NEW t \in Traces, Open(t)
             PROVE  runs'[t].status # "preflight_failed"
  BY DEF Spared
<1>1. /\ runs[t] \in Run /\ Exists(t)
      /\ runs[t].status \in OpenStatuses
  BY Rows DEF Open
<1>2. runs'[t] \in {Touch(runs[t]), ClosedRow(t, "abandoned"), runs[t]}
  BY <1>1 DEF ReserveSessionTurn
<1>3. Touch(runs[t]).status = runs[t].status
  BY <1>1, TouchKeeps
<1>4. ClosedRow(t, "abandoned").status = "abandoned"
  BY ClosedRowIs DEF TypeInv, ClosedStatuses
<1> QED
  BY <1>1, <1>2, <1>3, <1>4 DEF OpenStatuses

LEMMA StartSpared ==
    ASSUME TypeInv, NEW u \in Traces, NEW s \in Sessions, NEW q \in Requests, NEW resv,
           \/ StartAttempt(u, s, q, resv) \/ RecoverAttempt(u, s, q, resv)
           \/ ReuseAttempt(u, s, q, resv)
    PROVE  Spared
<1>1. /\ runs[u] \in Run /\ NewRun(s, "active") \in Run
  BY Rows, NewRunStamps DEF OpenStatuses
<1>2. \A r \in {runs[u], NewRun(s, "active")} :
          /\ Attempt(r, q) \in Run /\ Attempt(r, q).status = "active"
  BY <1>1, AttemptStamps
<1>3. Bump(Attempt(runs[u], q), 1).status = "active"
  BY <1>2, BumpKeeps
<1>4. CASE StartAttempt(u, s, q, resv) \/ RecoverAttempt(u, s, q, resv)
  <2>1. PICK r \in {Bump(Attempt(runs[u], q), 1), Attempt(NewRun(s, "active"), q)} :
            runs' = [runs EXCEPT ![u] = r]
    BY <1>4 DEF StartAttempt, RecoverAttempt
  <2> QED
    BY <1>2, <1>3, <2>1, OneRowSpared
<1>5. CASE ReuseAttempt(u, s, q, resv)
  <2>1. Open(u)
    BY <1>5 DEF ReuseAttempt, CanReuseReady, CanReuse, Shares, Admits, OpenIn
  <2>2. Touch(runs[u]).status = runs[u].status
    BY <1>1, TouchKeeps
  <2>3. runs' = [runs EXCEPT ![u] = Touch(runs[u])]
    BY <1>5 DEF ReuseAttempt
  <2> QED
    BY <2>1, <2>2, <2>3, OneRowSpared DEF Open, OpenStatuses
<1> QED
  BY <1>4, <1>5

LEMMA ReadySpared ==
    ASSUME TypeInv, NEW u \in Traces, NEW s, NEW token \in Nat, NEW direct \in BOOLEAN,
           MarkPreflightReady(u, s, token, direct)
    PROVE  Spared
<1>1. runs[u] \in Run /\ runs[u].status = "active"
  BY Rows DEF MarkPreflightReady, CanCommitReady, Owns
<1> DEFINE a == [runs[u] EXCEPT !.pstate = "ready", !.lease = 0, !.result = token]
           r == Bump(a, IF direct THEN 3 ELSE 2)
<1>2. a \in Run /\ a.status = "active"
  BY <1>1 DEF Run
<1>3. runs' = [runs EXCEPT ![u] = r]
  BY DEF MarkPreflightReady
<1> HIDE DEF a
<1>4. r.status = "active"
  BY <1>2, BumpKeeps
<1> HIDE DEF r
<1> QED
  BY <1>3, <1>4, OneRowSpared

LEMMA BumpSpared ==
    ASSUME TypeInv, NEW u \in Traces, NEW s \in Sessions,
           \/ RecordFinalization(u)
           \/ \E live \in BOOLEAN : RecordEvidence(u, s, live)
    PROVE  Spared
<1>1. runs[u] \in Run /\ NewRun(s, "evidence_only") \in Run
      /\ NewRun(s, "evidence_only").status = "evidence_only"
  BY Rows, NewRunStamps DEF OpenStatuses
<1>2. PICK q \in {runs[u], NewRun(s, "evidence_only")} :
          /\ runs' = [runs EXCEPT ![u] = Bump(q, 1)]
          /\ q.status # "preflight_failed"
  BY <1>1 DEF RecordFinalization, RecordEvidence, Usable, OpenIn, Open, OpenStatuses
<1>3. Bump(q, 1).status = q.status
  BY <1>1, BumpKeeps
<1> QED
  BY <1>2, <1>3, OneRowSpared

LEMMA CloseSpared ==
    ASSUME TypeInv, NEW u \in Traces, NEW s, CloseTurnEvidence(u, s, "failed")
    PROVE  Spared
<1>1. ClosedRow(u, "failed").status = "failed"
  BY ClosedRowIs DEF TypeInv, ClosedStatuses
<1> QED
  BY <1>1 DEF CloseTurnEvidence, CloseRuns, Spared, Open, OpenStatuses

LEMMA CommitSpared ==
    ASSUME TypeInv, NEW u \in Traces, NEW s, NEW h, NEW status \in BoundStatuses,
           NEW expected, CommitTerminalFinalization(u, s, h, status, expected)
    PROVE  Spared
BY CommitShape DEF Spared, Open, OpenStatuses, BoundStatuses

LEMMA TrimSpared ==
    ASSUME NEW cutoff, NEW swept, NEW failed, NEW old,
           TypeInv, TrimRuntimeTables(cutoff, swept, failed, old)
    PROVE  Spared
<1> SUFFICES ASSUME NEW t \in Traces, Open(t)
             PROVE  runs'[t].status # "preflight_failed"
  BY DEF Spared
<1>1. runs[t] \in Run /\ runs[t].status \in OpenStatuses
  BY Rows DEF Open
<1>2. runs'[t] \in {Absent, runs[t],
                    [runs[t] EXCEPT !.status = "retention_expired", !.ended = TRUE]}
  BY DEF TrimRuntimeTables
<1>3. Absent.status = "absent"
  BY DEF Absent
<1>4. [runs[t] EXCEPT !.status = "retention_expired", !.ended = TRUE].status
          = "retention_expired"
  BY <1>1 DEF Run
<1> QED
  BY <1>1, <1>2, <1>3, <1>4 DEF OpenStatuses

LEMMA AbandonStatus ==
    ASSUME TypeInv, NEW t \in Traces, NEW s, NEW resv,
           NEW status \in {"preflight_skipped", "preflight_failed"},
           AbandonPreflightReservation(t, s, resv, status)
    PROVE  runs'[t].status = status /\ \A u \in Traces \ {t} : runs'[u] = runs[u]
<1> DEFINE a == [runs[t] EXCEPT !.status = status, !.ended = TRUE,
                                !.reservation = 0, !.pstate = "", !.lease = 0]
           r == Bump(a, IF status = "preflight_failed" THEN 2 ELSE 1)
<1>1. runs[t] \in Run
  BY Rows
<1>2. a \in Run /\ a.status = status
  BY <1>1 DEF Run, ClosedStatuses
<1>3. runs' = [runs EXCEPT ![t] = r]
  BY DEF AbandonPreflightReservation
<1> HIDE DEF a
<1>4. r.status = status
  BY <1>2, BumpKeeps
<1> QED
  BY <1>3, <1>4 DEF TypeInv, TypeOK

\* No step spares the open turns but the failure of a caller.
LEMMA OthersSpare ==
    ASSUME LInv, [LifecycleNext]_vars, \A c \in Callers : ~Fail(c)
    PROVE  Spared
<1>1. TypeInv
  BY DEF LInv, StoreInv, PInv, IInv
<1>2. ASSUME NEW c \in Callers, (\E call \in Calls : Arrive(c, call)) \/ Crash(c)
                                \/ Read(c) \/ ReadFails(c)
      PROVE  Spared
  BY <1>2, UnchangedSpared DEF Arrive, Crash, Read, ReadFails, storeVars
<1>3. ASSUME NEW c \in Callers,
             Reserve(c) \/ SkipPreflight(c) \/ Begin(c) \/ Work(c) \/ CloseDisabled(c)
      PROVE  Spared
  <2> DEFINE t == caller[c].trace
             s == caller[c].session
             q == caller[c].request
             resv == caller[c].reservation
  <2>1. caller[c].pc # "idle"
    BY <1>3 DEF Reserve, SkipPreflight, Begin, Work, CloseDisabled, At
  <2>2. /\ t \in Traces /\ s \in Sessions /\ q \in Requests
        /\ caller[c].token \in Nat
    BY <2>1, CallerKnows DEF CallerRecord
  <2> HIDE DEF t, s, q, resv
  <2>3. CASE Reserve(c)
    BY <1>1, <2>2, <2>3, ReserveSpared, UnchangedSpared DEF Reserve, storeVars, t, s
  <2>4. CASE SkipPreflight(c)
    <3>1. \/ AbandonPreflightReservation(t, s, resv, "preflight_skipped")
          \/ UNCHANGED storeVars
      BY <2>4 DEF SkipPreflight, Abandon, t, s, resv
    <3>2. CASE AbandonPreflightReservation(t, s, resv, "preflight_skipped")
      <4>1. /\ runs'[t].status = "preflight_skipped"
            /\ \A u \in Traces \ {t} : runs'[u] = runs[u]
        BY <1>1, <2>2, <3>2, AbandonStatus
      <4> QED
        BY <4>1 DEF Spared, Open, OpenStatuses
    <3> QED
      BY <3>1, <3>2, UnchangedSpared DEF storeVars
  <2>5. CASE Begin(c)
    <3>1. \/ StartAttempt(t, s, q, resv) \/ RecoverAttempt(t, s, q, resv)
          \/ ReuseAttempt(t, s, q, resv)
          \/ UNCHANGED storeVars
      BY <2>5 DEF Begin, t, s, q, resv
    <3> QED
      BY <1>1, <2>2, <3>1, StartSpared, UnchangedSpared DEF storeVars
  <2>6. CASE Work(c)
    <3>1. \/ \E direct \in BOOLEAN : MarkPreflightReady(t, s, caller[c].token, direct)
          \/ UNCHANGED storeVars
      BY <2>6 DEF Work, t, s
    <3> QED
      BY <1>1, <2>2, <3>1, ReadySpared, UnchangedSpared DEF storeVars
  <2>7. CASE CloseDisabled(c)
    <3>1. CloseTurnEvidence(t, s, "failed") \/ UNCHANGED storeVars
      BY <2>7 DEF CloseDisabled, t, s
    <3> QED
      BY <1>1, <2>2, <3>1, CloseSpared, UnchangedSpared DEF storeVars
  <2> QED
    BY <1>3, <2>3, <2>4, <2>5, <2>6, <2>7
<1>4. ASSUME NEW f \in Finalizers, FinalizerStep(f)
      PROVE  Spared
  <2> DEFINE t == finalizer[f].trace
             s == finalizer[f].session
  <2>1. CASE UNCHANGED storeVars
    BY <2>1, UnchangedSpared DEF storeVars
  <2>2. CASE finalizer[f].pc # "idle"
    <3>1. t \in Traces /\ s \in Sessions
      BY <2>2, FinalizerKnows
    <3>2. \/ \E status \in BoundStatuses :
                CommitTerminalFinalization(t, s, finalizer[f].hash, status,
                                           finalizer[f].revision)
          \/ CloseTurnEvidence(t, s, "failed")
          \/ RecordFinalization(t)
          \/ UNCHANGED storeVars
      BY <1>4 DEF FinalizerStep, ReadSnapshot, CommitVerdict, ReplayVerdict,
                  VerdictRefused, Continue, VerificationFails
    <3> HIDE DEF t, s
    <3> QED
      BY <1>1, <2>1, <3>1, <3>2, CommitSpared, CloseSpared, BumpSpared
  <2> QED
    BY <1>4, <2>1, <2>2 DEF FinalizerStep, ReadSnapshot, CommitVerdict, ReplayVerdict,
                            VerdictRefused, Continue, VerificationFails
<1>5. CASE HostEvidence \/ Retention \/ TimePasses \/ UNCHANGED vars
  BY <1>1, <1>5, BumpSpared, TrimSpared, UnchangedSpared
     DEF HostEvidence, Retention, TimePasses, Tick, vars, storeVars
<1> QED
  BY <1>2, <1>3, <1>4, <1>5 DEF LifecycleNext, CallerStep

\* The right of caller c to fail turn t.
MayFail(c, t) ==
    /\ At(c, "failing") /\ caller[c].trace = t
    /\ CASE runs[t].pstate = "in_progress" ->
               caller[c].owner /\ caller[c].token = runs[t].attempt
         [] runs[t].pstate = "reserved" ->
               /\ ~caller[c].owner
               /\ caller[c].reservation = runs[t].reservation
         [] OTHER -> FALSE

LEMMA FailuresAreRightful ==
    ASSUME LInv, NEW c \in Callers, Fail(c), NEW t \in Traces, Open(t),
           runs'[t].status = "preflight_failed"
    PROVE  MayFail(c, t)
<1>1. TypeInv
  BY DEF LInv, StoreInv, PInv, IInv
<1>2. At(c, "failing") /\ caller[c].pc # "idle"
  BY DEF Fail, At
<1>3. CallerFits(caller[c]) /\ caller[c].trace \in Traces
  BY <1>2, CallerKnows
<1>4. ~UNCHANGED storeVars
  BY UnchangedSpared DEF Spared, storeVars
<1>5. CASE /\ caller[c].owner
           /\ FailPreflightAttempt(caller[c].trace, caller[c].session, caller[c].token)
  <2>1. /\ Owns(caller[c].trace, caller[c].session, caller[c].token)
        /\ \A u \in Traces \ {caller[c].trace} : runs'[u] = runs[u]
    BY <1>1, <1>3, <1>5, FailCloses
  <2>2. caller[c].trace = t
    BY <2>1 DEF Open, OpenStatuses
  <2> QED
    BY <1>2, <1>5, <2>1, <2>2 DEF MayFail, Owns
<1>6. CASE /\ caller[c].token = 0
           /\ AbandonPreflightReservation(caller[c].trace, caller[c].session,
                                          caller[c].reservation, "preflight_failed")
  <2>1. \A u \in Traces \ {caller[c].trace} : runs'[u] = runs[u]
    BY <1>1, <1>3, <1>6, AbandonStatus
  <2>2. caller[c].trace = t
    BY <2>1 DEF Open, OpenStatuses
  <2>3. CanAbandon(t, caller[c].session, caller[c].reservation)
    BY <1>6, <2>2 DEF AbandonPreflightReservation
  <2>4. ~caller[c].owner
    BY <1>3, <1>6 DEF CallerFits
  <2> QED
    BY <1>2, <2>2, <2>3, <2>4 DEF MayFail, CanAbandon
<1> QED
  BY <1>4, <1>5, <1>6 DEF Fail, Abandon

-----------------------------------------------------------------------------
(* Theorems                                                                *)

\* What the processes remember and told their hosts holds in every state.
THEOREM LifecycleInvariance == LifecycleSafety => []LInv
<1>1. LInv /\ [LifecycleNext]_vars => LInv'
  BY LifecycleStep
<1> QED
  BY <1>1, LifecycleInitHolds, PTL DEF LifecycleSafety

\* The callers and finalizers use the Store as TurnStore lets its callers do:
\* no token they pass was never issued, no turn or session is made up.
THEOREM ProcessesUseStore == LifecycleSafety => Spec
<1>1. LInv /\ [LifecycleNext]_vars => [Next]_storeVars
  BY LifecycleStep
<1>2. LifecycleInit => Init
  BY DEF LifecycleInit
<1> QED
  BY <1>1, <1>2, LifecycleInvariance, PTL DEF LifecycleSafety, Spec

\* So what the Store promises a reader holds of it among its processes.
THEOREM LifecycleImplementsAuthority == LifecycleSafety => ImplementsAuthority
BY ProcessesUseStore, StoreImplementsAuthority, PTL

\* All callers that deliver for a turn deliver one recipe, and a failure that
\* an owner reported leaves no attempt behind.
THEOREM CallersAreToldOneThing == LifecycleSafety => []CallersAgree
<1>1. LInv => CallersAgree
  BY DEF LInv, CallerFits, CallersAgree, FailureReleasesAttempt, At
<1> QED
  BY <1>1, LifecycleInvariance, PTL

\* A response that a Stop hook reported as accepted is the answer of its turn
\* until the turn is forgotten.
THEOREM AcceptedResponsesStay == LifecycleSafety => []AcceptedIsAuthoritative
<1>1. LInv => AcceptedIsAuthoritative
  BY DEF LInv, FinalizerFits, Accepted, AcceptedIsAuthoritative
<1> QED
  BY <1>1, LifecycleInvariance, PTL

\* No verdict is committed on a snapshot that anyone has outdated.
THEOREM VerdictsAreCurrent == LifecycleSafety => VerdictOnCurrentEvidence
<1> DEFINE Current ==
        \A f \in Finalizers :
          LET t == finalizer[f].trace
          IN  /\ finalizer[f].pc = "deciding"
              /\ finalizer'[f].pc \in {"accepted", "rejected"}
              /\ Open(t)
              => finalizer[f].seen = {Snapshot(t)}
<1>1. LInv /\ [LifecycleNext]_vars => [Current]_vars
  <2> SUFFICES ASSUME LInv, LifecycleNext, NEW f \in Finalizers,
                      finalizer[f].pc = "deciding",
                      finalizer'[f].pc \in {"accepted", "rejected"},
                      Open(finalizer[f].trace)
               PROVE  finalizer[f].seen = {Snapshot(finalizer[f].trace)}
    OBVIOUS
  <2> DEFINE t == finalizer[f].trace
  <2>1. PICK g \in Finalizers : FinalizerStep(g)
    BY DEF LifecycleNext, Arrive, CallerStep, Reserve, SkipPreflight, Begin, Work,
           Read, CloseDisabled, ReadFails, Fail, Crash, HostEvidence, Retention,
           TimePasses
  <2>2. g = f
    BY <2>1 DEF FinalizerStep, ReadSnapshot, CommitVerdict, ReplayVerdict,
                VerdictRefused, Continue, VerificationFails, Finish, LInv, Records
  <2>3. t \in Traces /\ Fences(finalizer[f])
    BY FinalizerKnows DEF LInv, FinalizerFits
  <2>4. ~runs[t].ended
    BY <2>3 DEF LInv, StoreInv, PInv, IInv, OpenTurnConsistent
  <2>5. \E status \in BoundStatuses : CommitVerdict(f, status)
    BY <2>1, <2>2, <2>4
       DEF FinalizerStep, ReadSnapshot, ReplayVerdict, IsTerminalReplay,
           VerdictRefused, Continue, VerificationFails, Finish, LInv, Records,
           FinalizerRecord
  <2>6. finalizer[f].revision = runs[t].revision
    BY <2>5 DEF CommitVerdict, CommitTerminalFinalization, CanCommitTerminal
  <2> QED
    BY <2>3, <2>6 DEF Fences
<1>2. LifecycleSafety => [][Current]_vars
  BY <1>1, LifecycleInvariance, PTL DEF LifecycleSafety
<1> QED
  BY <1>2, PTL DEF VerdictOnCurrentEvidence

\* A turn fails its preflight by the hand of the caller that owns its attempt,
\* or of the one that still holds its reservation.
THEOREM OwnersFailTurns == LifecycleSafety => OnlyOwnerFailsTurn
<1> DEFINE Rightful ==
        \A t \in Traces : Open(t) /\ runs'[t].status = "preflight_failed" =>
          \E c \in Callers :
              /\ At(c, "failing") /\ caller[c].trace = t
              /\ CASE runs[t].pstate = "in_progress" ->
                         caller[c].owner /\ caller[c].token = runs[t].attempt
                   [] runs[t].pstate = "reserved" ->
                         /\ ~caller[c].owner
                         /\ caller[c].reservation = runs[t].reservation
                   [] OTHER -> FALSE
<1>1. LInv /\ [LifecycleNext]_vars => [Rightful]_vars
  <2> SUFFICES ASSUME LInv, [LifecycleNext]_vars, NEW t \in Traces, Open(t),
                      runs'[t].status = "preflight_failed"
               PROVE  \E c \in Callers : MayFail(c, t)
    BY DEF MayFail
  <2>1. PICK c \in Callers : Fail(c)
    BY OthersSpare DEF Spared
  <2> QED
    BY <2>1, FailuresAreRightful
<1>2. LifecycleSafety => [][Rightful]_vars
  BY <1>1, LifecycleInvariance, PTL DEF LifecycleSafety
<1> QED
  BY <1>2, PTL DEF OnlyOwnerFailsTurn

=============================================================================
