------------------------- MODULE ChildRoutingProofs -------------------------
(* Theorems about ChildRouting, for every value of its constants. *)
EXTENDS ChildRouting, FiniteSetTheorems, TLAPS

-----------------------------------------------------------------------------
(* Type correctness                                                        *)

\* A preflight that has arrived has a key, and its clock reading is past.
ChildrenKnown ==
    \A c \in Children : /\ child[c].pc # "idle" => child[c].key \in Keys
                        /\ child[c].now <= clock

TypeInv == TypeOK /\ ChildrenKnown

LEMMA InitType == Init => TypeInv
<1> SUFFICES ASSUME Init PROVE TypeInv
  OBVIOUS
<1>1. IdleChild \in Child /\ IdleChild.pc = "idle" /\ IdleChild.now = 0
  BY DEF IdleChild, Child
<1>2. NoLease \in [token : Nat, expires : Nat]
  BY DEF NoLease
<1>3. NoRoute \in [decision : Nat, expires : Nat]
  BY DEF NoRoute
<1>4. granted \in Seq(Keys) /\ beats \subseteq Beat /\ clock \in Nat
  BY DEF Init
<1> QED
  BY <1>1, <1>2, <1>3, <1>4 DEF Init, TypeInv, TypeOK, ChildrenKnown

\* The purged tables have the type of the tables.
LEMMA PurgedType ==
    ASSUME TypeOK, NEW now \in Nat
    PROVE  /\ LeasesAt(now) \in [Keys -> [token : Nat, expires : Nat]]
           /\ CacheAt(now) \in [Keys -> [decision : Nat, expires : Nat]]
BY DEF TypeOK, LeasesAt, CacheAt, NoLease, NoRoute

LEMMA ReleasedType ==
    ASSUME TypeOK, NEW c \in Children
    PROVE  Released(c) \in [Keys -> [token : Nat, expires : Nat]]
BY DEF TypeOK, Released, NoLease

\* What a step of a preflight that has arrived does to the preflights: it
\* changes the program counter, the token and the deadline of one.
Moves(c) ==
    /\ child[c].pc # "idle"
    /\ child' \in [Children -> Child]
    /\ \A d \in Children : /\ child'[d].key = child[d].key
                           /\ child'[d].now = child[d].now
    /\ \A d \in Children \ {c} : child'[d] = child[d]

LEMMA MovesType ==
    ASSUME TypeInv, clock' = clock, NEW c \in Children, Moves(c)
    PROVE  ChildrenKnown'
<1>1. \A d \in Children : child'[d].pc # "idle" => child[d].pc # "idle"
  BY DEF Moves
<1> QED
  BY <1>1 DEF TypeInv, ChildrenKnown, Moves

LEMMA GotoMoves ==
    ASSUME TypeOK, NEW c \in Children, child[c].pc # "idle",
           NEW pc \in Ended \cup Preparing \cup {"waiting"}, Goto(c, pc)
    PROVE  Moves(c)
<1>1. child' = [child EXCEPT ![c].pc = pc]
  BY DEF Goto
<1>2. child \in [Children -> Child]
  BY DEF TypeOK
<1>3. child'[c] = [child[c] EXCEPT !.pc = pc]
  BY <1>1, <1>2
<1>4. child'[c] \in Child /\ child'[c].key = child[c].key
                         /\ child'[c].now = child[c].now
  BY <1>2, <1>3 DEF Child
<1> QED
  BY <1>1, <1>2, <1>4 DEF Moves

LEMMA ArriveType ==
    ASSUME TypeInv, NEW c \in Children, NEW k \in Keys, Arrive(c, k)
    PROVE  TypeInv'
<1> DEFINE tries == child[c].tries + 1
<1>1. child[c] \in Child /\ clock \in Nat /\ child \in [Children -> Child]
  BY DEF TypeInv, TypeOK
<1>2. tries \in Nat
  <2>1. child[c].tries \in Nat
    BY <1>1 DEF Child
  <2> QED
    BY <2>1
<1>3. child'[c] = [IdleChild EXCEPT !.pc = "reserving", !.key = k,
                       !.now = clock, !.tries = tries]
  BY <1>1 DEF Arrive
<1> HIDE DEF tries
<1>4. child'[c] = [pc |-> "reserving", key |-> k, token |-> 0, now |-> clock,
                   deadline |-> 0, tries |-> tries]
  BY <1>3 DEF IdleChild
<1>5. child'[c] \in Child /\ child'[c].key = k /\ child'[c].now = clock
  <2> DEFINE r == [pc |-> "reserving", key |-> k, token |-> 0, now |-> clock,
                   deadline |-> 0, tries |-> tries]
  <2>1. r \in Child /\ r.key = k /\ r.now = clock
    BY <1>1, <1>2 DEF Child
  <2> QED
    BY <1>4, <2>1
<1>6. \A d \in Children \ {c} : child'[d] = child[d]
  BY <1>1 DEF Arrive
<1>7. child' \in [Children -> Child]
  BY <1>1, <1>5, <1>6 DEF Arrive
<1>8. UNCHANGED <<clock, lease, cache, usage, granted, open, beats>>
  BY DEF Arrive
<1>9. ChildrenKnown'
  BY <1>1, <1>5, <1>6, <1>8 DEF TypeInv, ChildrenKnown
<1> QED
  BY <1>7, <1>8, <1>9 DEF TypeInv, TypeOK

\* The four outcomes of a reservation.
LEMMA ReserveType ==
    ASSUME TypeInv, NEW c \in Children,
           ReuseCached(c) \/ Coalesce(c) \/ Abstain(c) \/ Grant(c)
    PROVE  TypeInv'
<1> DEFINE now == child[c].now
           k == child[c].key
<1>1. /\ child[c] \in Child /\ now \in Nat /\ clock \in Nat
      /\ child[c].pc # "idle" /\ k \in Keys
  BY DEF TypeInv, TypeOK, ChildrenKnown, Child, ReuseCached, Coalesce,
         Abstain, Grant, Begins, At
<1>2. /\ LeasesAt(now) \in [Keys -> [token : Nat, expires : Nat]]
      /\ CacheAt(now) \in [Keys -> [decision : Nat, expires : Nat]]
  BY <1>1, PurgedType DEF TypeInv
<1>3. ASSUME ReuseCached(c) PROVE TypeInv'
  <2>1. Moves(c)
    BY <1>1, <1>3, GotoMoves DEF ReuseCached, Ended, TypeInv
  <2> QED
    BY <1>2, <1>3, <2>1, MovesType DEF TypeInv, TypeOK, ReuseCached, Moves
<1>4. ASSUME Abstain(c) PROVE TypeInv'
  <2>1. Moves(c)
    BY <1>1, <1>4, GotoMoves DEF Abstain, Ended, TypeInv
  <2> QED
    BY <1>2, <1>4, <2>1, MovesType DEF TypeInv, TypeOK, Abstain, Moves
<1>5. ASSUME Coalesce(c) PROVE TypeInv'
  <2>1. PICK until \in Nat :
           child' = [child EXCEPT ![c].pc = "waiting", ![c].deadline = until]
    <3> DEFINE u == clock + WaitLength
               v == IF u < MaxClock THEN u ELSE MaxClock
    <3>1. v \in Nat
      BY <1>1, TimesAssumption
    <3>2. child' = [child EXCEPT ![c].pc = "waiting", ![c].deadline = v]
      BY <1>5 DEF Coalesce
    <3> QED
      BY <3>1, <3>2
  <2>2. child \in [Children -> Child]
    BY DEF TypeInv, TypeOK
  <2>3. child'[c] = [child[c] EXCEPT !.pc = "waiting", !.deadline = until]
    BY <2>1, <2>2
  <2>4. child'[c] \in Child /\ child'[c].key = k /\ child'[c].now = now
    BY <1>1, <2>3 DEF Child
  <2>5. Moves(c)
    BY <1>1, <2>1, <2>2, <2>4 DEF Moves
  <2> QED
    BY <1>2, <1>5, <2>5, MovesType DEF TypeInv, TypeOK, Coalesce, Moves
<1>6. ASSUME Grant(c) PROVE TypeInv'
  <2> DEFINE token == Len(granted) + 1
             row == [token |-> token, expires |-> now + LeaseLength]
  <2>1. granted \in Seq(Keys) /\ token \in Nat
    BY DEF TypeInv, TypeOK
  <2>2. row \in [token : Nat, expires : Nat]
    BY <1>1, <2>1, TimesAssumption
  <2> HIDE DEF token
  <2>3. child' = [child EXCEPT ![c].pc = "routing", ![c].token = token]
    BY <1>6 DEF Grant, token
  <2>4. child \in [Children -> Child]
    BY DEF TypeInv, TypeOK
  <2>5. child'[c] = [child[c] EXCEPT !.pc = "routing", !.token = token]
    BY <2>3, <2>4
  <2>6. child'[c] \in Child /\ child'[c].key = k /\ child'[c].now = now
    BY <1>1, <2>1, <2>5 DEF Child, Preparing
  <2>7. Moves(c)
    BY <1>1, <2>3, <2>4, <2>6 DEF Moves
  <2>8. lease' \in [Keys -> [token : Nat, expires : Nat]]
    <3>1. lease' = [LeasesAt(now) EXCEPT ![k] = row]
      BY <1>6 DEF Grant, token
    <3> QED
      BY <1>2, <2>2, <3>1
  <2>9. usage' \in [Parents -> Nat] /\ granted' \in Seq(Keys)
    <3>1. usage \in [Parents -> Nat] /\ ParentOf[k] \in Parents
      BY <1>1, KeysAssumption DEF TypeInv, TypeOK
    <3>2. usage' = [usage EXCEPT ![ParentOf[k]] = usage[ParentOf[k]] + 1]
      BY <1>6 DEF Grant
    <3>3. usage[ParentOf[k]] + 1 \in Nat
      BY <3>1
    <3> QED
      BY <1>1, <1>6, <2>1, <3>1, <3>2, <3>3 DEF Grant
  <2> QED
    BY <1>2, <1>6, <2>7, <2>8, <2>9, MovesType
       DEF TypeInv, TypeOK, Grant, Moves
<1> QED
  BY <1>3, <1>4, <1>5, <1>6

\* The steps of a waiter and of an owner.
LEMMA RouteType ==
    ASSUME TypeInv, NEW c \in Children,
           \/ LockTimeout(c) \/ CacheHit(c) \/ WaitTimeout(c)
           \/ RouteFails(c) \/ Route(c) \/ RejectRoute(c) \/ Guard(c)
           \/ BuildFails(c) \/ Publish(c) \/ LosePublish(c) \/ Exit(c)
    PROVE  TypeInv'
<1>1. /\ child[c].pc # "idle" /\ child[c] \in Child /\ clock \in Nat
      /\ child[c].token \in Nat /\ child[c].key \in Keys
  BY DEF TypeInv, TypeOK, ChildrenKnown, Child, LockTimeout, CacheHit,
         WaitTimeout, Waits, RouteFails, Route, RejectRoute, Guard,
         BuildFails, Publish, MayPublish, LosePublish, Exit, At
<1>2. PICK pc \in Ended \cup Preparing \cup {"waiting"} : Goto(c, pc)
  BY DEF LockTimeout, CacheHit, WaitTimeout, RouteFails, Route, RejectRoute,
         Guard, BuildFails, Publish, LosePublish, Exit, Ended, Preparing
<1>3. Moves(c)
  BY <1>1, <1>2, GotoMoves DEF TypeInv
<1>4. UNCHANGED <<clock, usage, granted, open>>
  BY DEF LockTimeout, CacheHit, WaitTimeout, RouteFails, Route, RejectRoute,
         Guard, BuildFails, Publish, LosePublish, Exit
<1>5. lease' = lease \/ lease' = Released(c)
  BY DEF LockTimeout, CacheHit, WaitTimeout, RouteFails, Route, RejectRoute,
         Guard, BuildFails, Publish, LosePublish, Exit
<1>6. cache' \in [Keys -> [decision : Nat, expires : Nat]]
  <2>1. CASE Publish(c)
    <3>1. [decision |-> child[c].token, expires |-> clock + CacheLength]
             \in [decision : Nat, expires : Nat]
      BY <1>1, TimesAssumption
    <3>2. cache' = [cache EXCEPT ![child[c].key] =
              [decision |-> child[c].token, expires |-> clock + CacheLength]]
      BY <2>1 DEF Publish
    <3> QED
      BY <1>1, <3>1, <3>2 DEF TypeInv, TypeOK
  <2>2. CASE ~Publish(c)
    BY <2>2 DEF TypeInv, TypeOK, LockTimeout, CacheHit, WaitTimeout,
           RouteFails, Route, RejectRoute, Guard, BuildFails, LosePublish, Exit
  <2> QED
    BY <2>1, <2>2
<1>7. beats' \subseteq Beat
  <2>1. Heartbeat(c) \in Beat
    BY <1>1 DEF Heartbeat, Beat
  <2>2. beats' \subseteq beats \/ beats' = beats \cup {Heartbeat(c)}
    BY DEF LockTimeout, CacheHit, WaitTimeout, RouteFails, Route, RejectRoute,
           Guard, BuildFails, Publish, LosePublish, Exit, Stopped
  <2> QED
    BY <2>1, <2>2 DEF TypeInv, TypeOK
<1> QED
  BY <1>3, <1>4, <1>5, <1>6, <1>7, ReleasedType, MovesType
     DEF TypeInv, TypeOK, Moves

\* Heartbeats, the end of a parent turn, retention and time.
LEMMA BeatType ==
    ASSUME TypeInv, NEW b \in beats, Wake(b) \/ Renew(b) \/ BeatDies(b)
    PROVE  TypeInv'
<1>1. b \in Beat /\ clock \in Nat /\ b.now \in Nat /\ b.key \in Keys
  BY DEF TypeInv, TypeOK, Beat
<1>2. UNCHANGED <<clock, cache, usage, granted, open, child>>
  BY DEF Wake, Renew, BeatDies
<1>3. /\ [b EXCEPT !.awake = TRUE, !.now = clock] \in Beat
      /\ [b EXCEPT !.awake = FALSE, !.now = 0] \in Beat
  BY <1>1 DEF Beat
<1>4. beats' \subseteq Beat
  BY <1>3 DEF Wake, Renew, BeatDies, TypeInv, TypeOK
<1>5. lease' \in [Keys -> [token : Nat, expires : Nat]]
  <2> DEFINE until == b.now + LeaseLength
  <2>1. until \in Nat
    BY <1>1, TimesAssumption
  <2>2. lease' = lease \/ lease' = [lease EXCEPT ![b.key].expires = until]
    BY DEF Wake, Renew, BeatDies
  <2> HIDE DEF until
  <2> QED
    BY <1>1, <2>1, <2>2 DEF TypeInv, TypeOK
<1> QED
  BY <1>2, <1>4, <1>5 DEF TypeInv, TypeOK, ChildrenKnown

LEMMA TrimType ==
    ASSUME TypeInv, NEW leases \in SUBSET Keys, NEW routes \in SUBSET Keys,
           NEW parents \in SUBSET Parents, Trim(leases, routes, parents)
    PROVE  TypeInv'
BY DEF Trim, TypeInv, TypeOK, ChildrenKnown, NoLease, NoRoute

LEMMA TimeType == ASSUME TypeInv, Tick PROVE TypeInv'
<1>1. clock \in Nat /\ \A c \in Children : child[c].now \in Nat
  BY DEF TypeInv, TypeOK, Child
<1>2. ChildrenKnown'
  BY <1>1 DEF Tick, TypeInv, ChildrenKnown
<1> QED
  BY <1>1, <1>2 DEF Tick, TypeInv, TypeOK

LEMMA ParentType ==
    ASSUME TypeInv, NEW p \in Parents, EndParent(p)
    PROVE  TypeInv'
BY DEF EndParent, TypeInv, TypeOK, ChildrenKnown

LEMMA NextType == TypeInv /\ [Next]_vars => TypeInv'
<1> SUFFICES ASSUME TypeInv, [Next]_vars PROVE TypeInv'
  OBVIOUS
<1>1. CASE UNCHANGED vars
  BY <1>1 DEF vars, TypeInv, TypeOK, ChildrenKnown
<1>2. CASE Next
  BY <1>2, ArriveType, ReserveType, RouteType, BeatType, TrimType, TimeType,
     ParentType DEF Next, ChildStep
<1> QED
  BY <1>1, <1>2
-----------------------------------------------------------------------------
(* What the steps do to the tables                                         *)

LEMMA PurgedRows ==
    ASSUME TypeOK, NEW now \in Nat, NEW k \in Keys
    PROVE  /\ LeasesAt(now)[k] \in {NoLease, lease[k]}
           /\ CacheAt(now)[k] \in {NoRoute, cache[k]}
           /\ lease[k].expires > now => LeasesAt(now)[k] = lease[k]
BY DEF TypeOK, LeasesAt, CacheAt

LEMMA ReleasedRows ==
    ASSUME TypeOK, NEW c \in Children, NEW k \in Keys
    PROVE  \/ Released(c)[k] = lease[k]
           \/ Released(c)[k] = NoLease /\ Holds(c) /\ k = child[c].key
BY DEF TypeOK, Released

\* Every step but Grant: no lease is granted and none changes hands, the
\* count of an open parent turn stays, and a route is replaced only by the
\* owner of the lease, which goes.
Quiet ==
    /\ granted' = granted /\ open' \subseteq open
    /\ \A p \in open' : usage'[p] = usage[p]
    /\ \A k \in Keys :
          /\ lease'[k].token \in {0, lease[k].token}
          /\ \/ cache'[k].decision \in {0, cache[k].decision}
             \/ /\ lease[k].token # 0 /\ lease'[k].token = 0
                /\ cache'[k].decision = lease[k].token

LEMMA ReserveQuiet ==
    ASSUME TypeInv, NEW c \in Children,
           ReuseCached(c) \/ Coalesce(c) \/ Abstain(c)
    PROVE  Quiet
<1>1. child[c].now \in Nat
  BY DEF TypeInv, TypeOK, Child
<1>2. /\ lease' = LeasesAt(child[c].now) /\ cache' = CacheAt(child[c].now)
      /\ UNCHANGED <<granted, open, usage>>
  BY DEF ReuseCached, Coalesce, Abstain
<1> QED
  BY <1>1, <1>2, PurgedRows DEF TypeInv, Quiet, NoLease, NoRoute

LEMMA PublishQuiet ==
    ASSUME TypeInv, NEW c \in Children, Publish(c)
    PROVE  Quiet
<1> DEFINE k0 == child[c].key
<1>1. /\ Holds(c) /\ lease' = Released(c)
      /\ UNCHANGED <<granted, open, usage>>
  BY DEF Publish, MayPublish
<1>2. ASSUME NEW k \in Keys
      PROVE  /\ lease'[k].token \in {0, lease[k].token}
             /\ \/ cache'[k].decision = cache[k].decision
                \/ /\ lease[k].token # 0 /\ lease'[k].token = 0
                   /\ cache'[k].decision = lease[k].token
  <2>1. CASE k = k0
    <3>1. lease'[k] = NoLease
      BY <1>1, <2>1 DEF Released, TypeInv, TypeOK
    <3>2. cache'[k].decision = child[c].token
      BY <2>1 DEF Publish, TypeInv, TypeOK
    <3> QED
      BY <1>1, <2>1, <3>1, <3>2 DEF Holds, NoLease
  <2>2. CASE k # k0
    <3>1. lease'[k] = lease[k]
      BY <1>1, <2>2 DEF Released, TypeInv, TypeOK
    <3>2. cache'[k] = cache[k]
      BY <2>2 DEF Publish, TypeInv, TypeOK
    <3> QED
      BY <3>1, <3>2
  <2> QED
    BY <2>1, <2>2
<1> QED
  BY <1>1, <1>2 DEF Quiet

LEMMA RouteQuiet ==
    ASSUME TypeInv, NEW c \in Children,
           \/ LockTimeout(c) \/ CacheHit(c) \/ WaitTimeout(c)
           \/ RouteFails(c) \/ Route(c) \/ RejectRoute(c) \/ Guard(c)
           \/ BuildFails(c) \/ LosePublish(c) \/ Exit(c)
    PROVE  Quiet
<1>1. UNCHANGED <<granted, open, usage, cache>>
  BY DEF LockTimeout, CacheHit, WaitTimeout, RouteFails, Route, RejectRoute,
         Guard, BuildFails, LosePublish, Exit
<1>2. lease' = lease \/ lease' = Released(c)
  BY DEF LockTimeout, CacheHit, WaitTimeout, RouteFails, Route, RejectRoute,
         Guard, BuildFails, LosePublish, Exit
<1> QED
  BY <1>1, <1>2, ReleasedRows DEF TypeInv, Quiet, NoLease

LEMMA BeatQuiet ==
    ASSUME TypeInv, NEW b \in beats, Wake(b) \/ Renew(b) \/ BeatDies(b)
    PROVE  Quiet
<1>1. UNCHANGED <<granted, open, usage, cache>>
  BY DEF Wake, Renew, BeatDies
<1>2. \/ lease' = lease
      \/ lease' = [lease EXCEPT ![b.key].expires = b.now + LeaseLength]
  BY DEF Wake, Renew, BeatDies
<1>3. ASSUME NEW k \in Keys PROVE lease'[k].token = lease[k].token
  <2> DEFINE until == b.now + LeaseLength
  <2>1. lease \in [Keys -> [token : Nat, expires : Nat]]
    BY DEF TypeInv, TypeOK
  <2>2. CASE lease' = [lease EXCEPT ![b.key].expires = until]
    <3> HIDE DEF until
    <3>1. lease'[k] = lease[k] \/ lease'[k] = [lease[k] EXCEPT !.expires = until]
      BY <2>1, <2>2
    <3> QED
      BY <2>1, <3>1
  <2> QED
    BY <1>2, <2>2
<1> QED
  BY <1>1, <1>3 DEF Quiet

LEMMA TrimQuiet ==
    ASSUME TypeInv, NEW leases \in SUBSET Keys, NEW routes \in SUBSET Keys,
           NEW parents \in SUBSET Parents, Trim(leases, routes, parents)
    PROVE  Quiet
<1>1. granted' = granted /\ open' = open
  BY DEF Trim
<1>2. \A p \in open' : usage'[p] = usage[p]
  BY <1>1 DEF Trim, Spared, TypeInv, TypeOK
<1>3. \A k \in Keys : /\ lease'[k].token \in {0, lease[k].token}
                      /\ cache'[k].decision \in {0, cache[k].decision}
  BY DEF Trim, NoLease, NoRoute
<1> QED
  BY <1>1, <1>2, <1>3 DEF Quiet

LEMMA NextQuiet ==
    ASSUME TypeInv, [Next]_vars
    PROVE  Quiet \/ \E c \in Children : Grant(c)
<1>1. CASE UNCHANGED vars
  BY <1>1 DEF vars, Quiet
<1>2. CASE \E c \in Children, k \in Keys : Arrive(c, k)
  BY <1>2 DEF Arrive, Quiet
<1>3. CASE (\E p \in Parents : EndParent(p)) \/ Tick
  BY <1>3 DEF EndParent, Tick, Quiet
<1> QED
  BY <1>1, <1>2, <1>3, ReserveQuiet, PublishQuiet, RouteQuiet, BeatQuiet,
     TrimQuiet DEF Next, ChildStep
-----------------------------------------------------------------------------
(* The inductive invariant                                                 *)

GrantsOf(p) == {i \in DOMAIN granted : ParentOf[granted[i]] = p}

\* The usage row of an open parent turn counts its grants.
BudgetCounted ==
    \A p \in open : usage[p] <= Budget /\ Cardinality(GrantsOf(p)) = usage[p]

\* No row is newer than the last grant, and a route is older than a lease.
RoutesOlder ==
    \A k \in Keys :
        /\ cache[k].decision <= Len(granted) /\ lease[k].token <= Len(granted)
        /\ lease[k].token # 0 => cache[k].decision < lease[k].token

IInv == TypeInv /\ LimitHolds /\ BudgetCounted /\ RoutesOlder

LEMMA InitIInv == Init => IInv
<1> SUFFICES ASSUME Init PROVE IInv
  OBVIOUS
<1>1. TypeInv
  BY InitType
<1>2. ASSUME NEW p \in Parents PROVE LeasesOf(p, lease) = {}
  BY DEF Init, LeasesOf, NoLease
<1>3. LimitHolds
  BY <1>2, FS_EmptySet, LimitsAssumption DEF LimitHolds
<1>4. ASSUME NEW p \in open
      PROVE  usage[p] = 0 /\ Cardinality(GrantsOf(p)) = 0
  <2>1. GrantsOf(p) = {} /\ usage[p] = 0
    BY DEF Init, GrantsOf
  <2> QED
    BY <2>1, FS_EmptySet
<1>5. BudgetCounted
  BY <1>4, LimitsAssumption DEF BudgetCounted
<1>6. Len(granted) = 0
  BY DEF Init
<1>7. RoutesOlder
  BY <1>6 DEF Init, RoutesOlder, NoLease, NoRoute
<1> QED
  BY <1>1, <1>3, <1>5, <1>7 DEF IInv

\* The leases of a parent are finitely many.
LEMMA LeasesFinite ==
    ASSUME NEW p, NEW rows
    PROVE  IsFiniteSet(LeasesOf(p, rows)) /\ Cardinality(LeasesOf(p, rows)) \in Nat
<1>1. LeasesOf(p, rows) \subseteq Keys
  BY DEF LeasesOf
<1> QED
  BY <1>1, KeysAssumption, FS_Subset, FS_CardinalityType

\* Fewer leases stay within the limit.
LEMMA FewerLeases ==
    ASSUME NEW p \in Parents, NEW rows, NEW more,
           LeasesOf(p, rows) \subseteq LeasesOf(p, more)
    PROVE  Cardinality(LeasesOf(p, rows)) <= Cardinality(LeasesOf(p, more))
BY LeasesFinite, FS_Subset

LEMMA QuietIInv ==
    ASSUME IInv, TypeInv', Quiet
    PROVE  IInv'
<1>1. LimitHolds'
  <2> SUFFICES ASSUME NEW p \in Parents
               PROVE  Cardinality(LeasesOf(p, lease')) <= Concurrency
    BY DEF LimitHolds, LeasesOf
  <2>1. LeasesOf(p, lease') \subseteq LeasesOf(p, lease)
    BY DEF Quiet, LeasesOf
  <2>2. Cardinality(LeasesOf(p, lease)) <= Concurrency
    BY DEF IInv, LimitHolds
  <2> QED
    BY <2>1, <2>2, LeasesFinite, FewerLeases, LimitsAssumption
<1>2. BudgetCounted'
  BY DEF IInv, BudgetCounted, GrantsOf, Quiet
<1>3. RoutesOlder'
  <2> SUFFICES ASSUME NEW k \in Keys
               PROVE  /\ cache'[k].decision <= Len(granted)
                      /\ lease'[k].token <= Len(granted)
                      /\ lease'[k].token # 0
                            => cache'[k].decision < lease'[k].token
    BY DEF RoutesOlder, Quiet
  <2>1. /\ Len(granted) \in Nat
        /\ lease[k].token \in Nat /\ cache[k].decision \in Nat
        /\ lease'[k].token \in Nat /\ cache'[k].decision \in Nat
    BY DEF IInv, TypeInv, TypeOK
  <2>2. /\ cache[k].decision <= Len(granted) /\ lease[k].token <= Len(granted)
        /\ lease[k].token # 0 => cache[k].decision < lease[k].token
    BY DEF IInv, RoutesOlder
  <2> QED
    BY <2>1, <2>2 DEF Quiet
<1> QED
  BY <1>1, <1>2, <1>3 DEF IInv

\* What a grant does, with the tables it leaves.
LEMMA GrantRows ==
    ASSUME TypeInv, NEW c \in Children, Grant(c)
    PROVE  LET k0 == child[c].key
               now == child[c].now
           IN  /\ k0 \in Keys /\ now \in Nat /\ open' = open
               /\ LeasesAt(now)[k0] = NoLease
               /\ Affords(ParentOf[k0], LeasesAt(now))
               /\ lease'[k0] = [token |-> Len(granted) + 1,
                                expires |-> now + LeaseLength]
               /\ \A k \in Keys \ {k0} : lease'[k] = LeasesAt(now)[k]
               /\ cache' = CacheAt(now)
               /\ granted' = Append(granted, k0)
               /\ usage' = [usage EXCEPT ![ParentOf[k0]] = @ + 1]
<1> DEFINE k0 == child[c].key
           now == child[c].now
           row == [token |-> Len(granted) + 1, expires |-> now + LeaseLength]
<1>1. child[c] \in Child /\ child[c].pc # "idle"
  BY DEF TypeInv, TypeOK, Grant, Begins, At
<1>2. k0 \in Keys /\ now \in Nat
  BY <1>1 DEF TypeInv, ChildrenKnown, Child
<1>3. LeasesAt(now) \in [Keys -> [token : Nat, expires : Nat]]
  BY <1>2, PurgedType DEF TypeInv
<1>4. lease' = [LeasesAt(now) EXCEPT ![k0] = row]
  BY DEF Grant
<1> HIDE DEF row
<1>5. lease'[k0] = row /\ \A k \in Keys \ {k0} : lease'[k] = LeasesAt(now)[k]
  BY <1>2, <1>3, <1>4
<1> QED
  BY <1>2, <1>5 DEF Grant, Free, row

LEMMA GrantLimit ==
    ASSUME IInv, NEW c \in Children, Grant(c)
    PROVE  LimitHolds'
<1> DEFINE k0 == child[c].key
           rows == LeasesAt(child[c].now)
<1>1. /\ k0 \in Keys /\ child[c].now \in Nat /\ TypeOK
      /\ Affords(ParentOf[k0], rows)
      /\ \A k \in Keys \ {k0} : lease'[k] = rows[k]
  BY GrantRows DEF IInv, TypeInv
<1>2. \A k \in Keys : rows[k] \in {NoLease, lease[k]}
  BY <1>1, PurgedRows
<1> HIDE DEF rows
<1> SUFFICES ASSUME NEW p \in Parents
             PROVE  Cardinality(LeasesOf(p, lease')) <= Concurrency
  BY DEF LimitHolds, LeasesOf
<1>3. CASE p = ParentOf[k0]
  <2>1. Cardinality(LeasesOf(p, rows)) < Concurrency
    BY <1>1, <1>3 DEF Affords
  <2>2. LeasesOf(p, lease') \subseteq LeasesOf(p, rows) \cup {k0}
    BY <1>1 DEF LeasesOf
  <2>3. /\ IsFiniteSet(LeasesOf(p, rows) \cup {k0})
        /\ Cardinality(LeasesOf(p, rows) \cup {k0})
              <= Cardinality(LeasesOf(p, rows)) + 1
    <3>1. IsFiniteSet(LeasesOf(p, rows)) /\ Cardinality(LeasesOf(p, rows)) \in Nat
      BY LeasesFinite
    <3>2. /\ IsFiniteSet(LeasesOf(p, rows) \cup {k0})
          /\ \/ Cardinality(LeasesOf(p, rows) \cup {k0})
                   = Cardinality(LeasesOf(p, rows))
             \/ Cardinality(LeasesOf(p, rows) \cup {k0})
                   = Cardinality(LeasesOf(p, rows)) + 1
      BY <3>1, FS_AddElement
    <3> QED
      BY <3>1, <3>2
  <2>4. Cardinality(LeasesOf(p, lease'))
           <= Cardinality(LeasesOf(p, rows) \cup {k0})
    BY <2>2, <2>3, FS_Subset
  <2>5. /\ Cardinality(LeasesOf(p, rows)) \in Nat
        /\ Cardinality(LeasesOf(p, rows) \cup {k0}) \in Nat
        /\ Cardinality(LeasesOf(p, lease')) \in Nat
    BY <2>3, LeasesFinite, FS_CardinalityType
  <2> QED
    BY <2>1, <2>3, <2>4, <2>5, LimitsAssumption
<1>4. CASE p # ParentOf[k0]
  <2>1. LeasesOf(p, lease') \subseteq LeasesOf(p, lease)
    BY <1>1, <1>2, <1>4 DEF LeasesOf, NoLease
  <2>2. Cardinality(LeasesOf(p, lease)) <= Concurrency
    BY DEF IInv, LimitHolds
  <2> QED
    BY <2>1, <2>2, LeasesFinite, FewerLeases, LimitsAssumption
<1> QED
  BY <1>3, <1>4

LEMMA GrantBudget ==
    ASSUME IInv, NEW c \in Children, Grant(c)
    PROVE  BudgetCounted'
<1> DEFINE k0 == child[c].key
           p0 == ParentOf[k0]
           token == Len(granted) + 1
<1>1. /\ k0 \in Keys /\ granted' = Append(granted, k0) /\ open' = open
      /\ usage' = [usage EXCEPT ![p0] = @ + 1]
      /\ usage[p0] < Budget
  BY GrantRows DEF IInv, Affords
<1>2. /\ granted \in Seq(Keys) /\ usage \in [Parents -> Nat]
      /\ p0 \in Parents /\ open \subseteq Parents
  BY <1>1, KeysAssumption DEF IInv, TypeInv, TypeOK
<1> SUFFICES ASSUME NEW p \in open
             PROVE  usage'[p] <= Budget /\ Cardinality(GrantsOf(p)') = usage'[p]
  BY <1>1 DEF BudgetCounted
<1>3. usage[p] <= Budget /\ Cardinality(GrantsOf(p)) = usage[p]
  BY DEF IInv, BudgetCounted
<1>4. IsFiniteSet(GrantsOf(p))
  <2>1. GrantsOf(p) \subseteq 1 .. Len(granted)
    BY <1>2 DEF GrantsOf
  <2>2. Len(granted) \in Int /\ 1 \in Int
    BY <1>2
  <2> QED
    BY <2>1, <2>2, FS_Interval, FS_Subset
<1>5. /\ DOMAIN granted' = DOMAIN granted \cup {token}
      /\ token \notin DOMAIN granted /\ granted'[token] = k0
      /\ \A i \in DOMAIN granted : granted'[i] = granted[i]
  BY <1>1, <1>2
<1> HIDE DEF token
<1>6. CASE p = p0
  <2>1. GrantsOf(p)' = GrantsOf(p) \cup {token} /\ token \notin GrantsOf(p)
    BY <1>5, <1>6 DEF GrantsOf
  <2>2. Cardinality(GrantsOf(p)') = Cardinality(GrantsOf(p)) + 1
    BY <1>4, <2>1, FS_AddElement
  <2> QED
    BY <1>1, <1>2, <1>3, <1>6, <2>2, LimitsAssumption
<1>7. CASE p # p0
  <2>1. GrantsOf(p)' = GrantsOf(p)
    BY <1>5, <1>7 DEF GrantsOf
  <2> QED
    BY <1>1, <1>2, <1>3, <1>7, <2>1
<1> QED
  BY <1>6, <1>7

LEMMA GrantOlder ==
    ASSUME IInv, NEW c \in Children, Grant(c)
    PROVE  RoutesOlder'
<1> DEFINE k0 == child[c].key
           now == child[c].now
<1>1. /\ k0 \in Keys /\ now \in Nat /\ TypeOK
      /\ lease'[k0].token = Len(granted) + 1
      /\ \A k \in Keys \ {k0} : lease'[k] = LeasesAt(now)[k]
      /\ cache' = CacheAt(now) /\ granted' = Append(granted, k0)
  <2> DEFINE row == [token |-> Len(granted) + 1, expires |-> now + LeaseLength]
  <2>1. row.token = Len(granted) + 1
    OBVIOUS
  <2>2. /\ k0 \in Keys /\ now \in Nat /\ TypeOK /\ lease'[k0] = row
        /\ \A k \in Keys \ {k0} : lease'[k] = LeasesAt(now)[k]
        /\ cache' = CacheAt(now) /\ granted' = Append(granted, k0)
    BY GrantRows DEF IInv, TypeInv
  <2> QED
    BY <2>1, <2>2
<1>2. \A k \in Keys : /\ LeasesAt(now)[k] \in {NoLease, lease[k]}
                      /\ cache'[k] \in {NoRoute, cache[k]}
  BY <1>1, PurgedRows
<1>3. Len(granted) \in Nat /\ Len(granted') = Len(granted) + 1
  BY <1>1 DEF TypeOK
<1> HIDE DEF now, k0
<1> SUFFICES ASSUME NEW k \in Keys
             PROVE  /\ cache'[k].decision <= Len(granted')
                    /\ lease'[k].token <= Len(granted')
                    /\ lease'[k].token # 0
                          => cache'[k].decision < lease'[k].token
  BY DEF RoutesOlder
<1>4. /\ cache[k].decision <= Len(granted) /\ lease[k].token <= Len(granted)
      /\ lease[k].token # 0 => cache[k].decision < lease[k].token
      /\ cache[k].decision \in Nat /\ lease[k].token \in Nat
  BY <1>1 DEF IInv, RoutesOlder, TypeOK
<1>5. cache'[k].decision \in {0, cache[k].decision}
  BY <1>2 DEF NoRoute
<1>6. CASE k = k0
  BY <1>1, <1>3, <1>4, <1>5, <1>6
<1>7. CASE k # k0
  <2>1. lease'[k].token \in {0, lease[k].token}
    BY <1>1, <1>2, <1>7 DEF NoLease
  <2> QED
    BY <1>3, <1>4, <1>5, <2>1
<1> QED
  BY <1>6, <1>7

LEMMA NextIInv == IInv /\ [Next]_vars => IInv'
<1> SUFFICES ASSUME IInv, [Next]_vars PROVE IInv'
  OBVIOUS
<1>1. TypeInv'
  BY NextType DEF IInv
<1>2. CASE Quiet
  BY <1>1, <1>2, QuietIInv
<1>3. CASE \E c \in Children : Grant(c)
  BY <1>1, <1>3, GrantLimit, GrantBudget, GrantOlder DEF IInv
<1> QED
  BY <1>2, <1>3, NextQuiet DEF IInv

LEMMA Invariance == Spec => []IInv
<1>1. Init => IInv
  BY InitIInv
<1>2. IInv /\ [Next]_vars => IInv'
  BY NextIInv
<1> QED
  BY <1>1, <1>2, PTL DEF Spec
-----------------------------------------------------------------------------
(* What the runs check on small instances                                  *)

\* The routing tables and the preflights hold values of their types.
THEOREM TypeCorrect == Spec => []TypeOK
<1>1. IInv => TypeOK
  BY DEF IInv, TypeInv
<1> QED
  BY <1>1, Invariance, PTL

\* A parent turn never has more leases than child_inference_concurrency.
THEOREM ConcurrencyIsBounded == Spec => []LimitHolds
<1>1. IInv => LimitHolds
  BY DEF IInv
<1> QED
  BY <1>1, Invariance, PTL

\* An open parent turn never grants more than child_inference_budget leases,
\* whatever retention deletes and however often preflights retry.
THEOREM BudgetIsBounded == Spec => []BudgetHolds
<1>1. IInv => BudgetHolds
  <2> SUFFICES ASSUME IInv, NEW p \in open
               PROVE  Cardinality(GrantsOf(p)) <= Budget
    BY DEF BudgetHolds, GrantsOf
  <2> QED
    BY DEF IInv, BudgetCounted
<1> QED
  BY <1>1, Invariance, PTL

\* No child, retry, late heartbeat or sweep takes a parent turn over its limits.
THEOREM LimitsAreKept == Spec => []ParentLimitsHold
BY BudgetIsBounded, ConcurrencyIsBounded, PTL DEF ParentLimitsHold

\* The published routes of a key only get newer: an owner whose lease was
\* taken over while it routed cannot publish over its successor.
THEOREM RoutesAreMonotone == Spec => RoutesGetNewer
<1>1. IInv /\ [Next]_vars
         => [\A k \in Keys : cache'[k].decision # 0
               => cache'[k].decision >= cache[k].decision]_vars
  <2> SUFFICES ASSUME IInv, [Next]_vars, NEW k \in Keys,
                      cache'[k].decision # 0
               PROVE  cache'[k].decision >= cache[k].decision
    OBVIOUS
  <2>1. /\ cache[k].decision \in Nat /\ lease[k].token \in Nat
        /\ lease[k].token # 0 => cache[k].decision < lease[k].token
    BY DEF IInv, TypeInv, TypeOK, RoutesOlder
  <2>2. CASE Quiet
    BY <2>1, <2>2 DEF Quiet
  <2>3. CASE \E c \in Children : Grant(c)
    <3>1. PICK c \in Children : Grant(c)
      BY <2>3
    <3>2. cache' = CacheAt(child[c].now) /\ child[c].now \in Nat
      BY <3>1, GrantRows DEF IInv
    <3>3. cache'[k] \in {NoRoute, cache[k]}
      BY <3>2, PurgedRows DEF IInv, TypeInv
    <3> QED
      BY <2>1, <3>3 DEF NoRoute
  <2> QED
    BY <2>2, <2>3, NextQuiet DEF IInv
<1> QED
  BY <1>1, Invariance, PTL DEF Spec, RoutesGetNewer

\* A step that ends a live lease of an open parent turn is its owner's.
LEMMA OnlyOwnerReleases ==
    ASSUME TypeInv, [Next]_vars, NEW k \in Keys,
           lease[k].expires > clock, ParentOf[k] \in open,
           lease'[k].token # lease[k].token
    PROVE  \E c \in Children : /\ child[c].token = lease[k].token
                               /\ child'[c].pc \in {"failed", "published"}
<1>1. /\ clock \in Nat /\ lease \in [Keys -> [token : Nat, expires : Nat]]
      /\ child \in [Children -> Child]
      /\ \A c \in Children : child[c].now \in Nat /\ child[c].now <= clock
  BY DEF TypeInv, TypeOK, ChildrenKnown, Child
<1>2. \A c \in Children : LeasesAt(child[c].now)[k] = lease[k]
  <2> SUFFICES ASSUME NEW c \in Children
               PROVE  LeasesAt(child[c].now)[k] = lease[k]
    OBVIOUS
  <2>1. lease[k].expires > child[c].now
    BY <1>1
  <2> QED
    BY <1>1, <2>1, PurgedRows DEF TypeInv
<1>3. ASSUME NEW c \in Children, ReuseCached(c) \/ Coalesce(c) \/ Abstain(c)
      PROVE  FALSE
  BY <1>2, <1>3 DEF ReuseCached, Coalesce, Abstain
<1>4. ASSUME NEW c \in Children, Grant(c) PROVE FALSE
  <2>1. /\ LeasesAt(child[c].now)[child[c].key] = NoLease
        /\ \A j \in Keys \ {child[c].key} : lease'[j] = LeasesAt(child[c].now)[j]
    BY <1>4, GrantRows
  <2>2. lease[k] # NoLease
    BY <1>1 DEF NoLease
  <2> QED
    BY <1>2, <2>1, <2>2
<1>5. ASSUME NEW c \in Children, RouteFails(c) \/ BuildFails(c) \/ Publish(c)
      PROVE  /\ child[c].token = lease[k].token
             /\ child'[c].pc \in {"failed", "published"}
  <2>1. lease' = Released(c) /\ (Goto(c, "failed") \/ Goto(c, "published"))
    BY <1>5 DEF RouteFails, BuildFails, Publish
  <2>2. Holds(c) /\ k = child[c].key
    BY <2>1, ReleasedRows DEF TypeInv
  <2>3. child'[c].pc \in {"failed", "published"}
    BY <1>1, <2>1 DEF Goto, Child
  <2> QED
    BY <2>2, <2>3 DEF Holds
<1>6. CASE lease' = lease
  BY <1>6
<1>7. ASSUME NEW b \in beats, Renew(b) PROVE FALSE
  <2> DEFINE until == b.now + LeaseLength
  <2>1. lease' = lease \/ lease' = [lease EXCEPT ![b.key].expires = until]
    BY <1>7 DEF Renew
  <2> HIDE DEF until
  <2>2. lease'[k] = lease[k] \/ lease'[k] = [lease[k] EXCEPT !.expires = until]
    BY <1>1, <2>1
  <2> QED
    BY <1>1, <2>2
<1>8. ASSUME NEW leases \in SUBSET Keys, NEW routes \in SUBSET Keys,
             NEW parents \in SUBSET Parents, Trim(leases, routes, parents)
      PROVE  FALSE
  BY <1>8 DEF Trim, Spared
<1> QED
  BY <1>3, <1>4, <1>5, <1>6, <1>7, <1>8
     DEF Next, ChildStep, vars, Arrive, LockTimeout, CacheHit, WaitTimeout,
         Route, RejectRoute, Guard, LosePublish, Exit, Wake, BeatDies,
         EndParent, Tick

\* A lease that has not expired is never taken from its owner while the
\* parent turn is open.
THEOREM LiveLeasesStay == Spec => LiveLeaseIsSafe
<1>1. IInv /\ [Next]_vars
         => [\A k \in Keys :
               /\ lease[k].expires > clock /\ ParentOf[k] \in open
               /\ lease'[k].token # lease[k].token
               => \E c \in Children : child[c].token = lease[k].token
                             /\ child'[c].pc \in {"failed", "published"}]_vars
  BY OnlyOwnerReleases DEF IInv
<1> QED
  BY <1>1, Invariance, PTL DEF Spec, LiveLeaseIsSafe
=============================================================================
