---------------------------- MODULE ChildRouting ----------------------------
(***************************************************************************)
(* How the native children of a parent turn share their routes             *)
(* (core/store/child_routing.py, and its caller in core/preflight.py).  A  *)
(* child that needs a route takes a lease on its cache key, routes by      *)
(* inference outside any transaction and publishes the route; children     *)
(* with the same key wait for it or reuse it.  A parent pays for at most   *)
(* Budget inferences and Concurrency of them at a time.                    *)
(*                                                                         *)
(* reserve and renew read the wall clock BEFORE they wait for the write    *)
(* lock of the database, so each is two steps here: the reading, and a     *)
(* transaction that uses what was read.                                    *)
(***************************************************************************)
EXTENDS Integers, FiniteSets, Sequences

CONSTANTS
    Children,    \* preflights of native children
    Parents,     \* parent turns
    Keys,        \* cache keys; a key is a digest over its parent turn
    ParentOf,    \* the parent turn of a key
    Budget,      \* child_inference_budget
    Concurrency, \* child_inference_concurrency
    LeaseLength, \* route timeout plus margin, in clock ticks
    CacheLength, \* child_cache_ttl_seconds (or the grace period), in ticks
    WaitLength,  \* how long a child waits for the route of another
    LockWait,    \* busy_timeout: how long a transaction waits to begin
    MaxClock,    \* bound of the clock
    MaxGrants,   \* bound of the leases granted
    MaxTries     \* preparations of one preflight: the first and a reroute

ASSUME KeysAssumption == IsFiniteSet(Keys) /\ ParentOf \in [Keys -> Parents]
ASSUME LimitsAssumption == Budget \in Nat /\ Concurrency \in Nat \ {0}

\* The busy timeout is 5 seconds, the shortest lease 6.
ASSUME TimesAssumption ==
    /\ LeaseLength \in Nat /\ CacheLength \in Nat \ {0} /\ WaitLength \in Nat
    /\ LockWait \in Nat /\ LockWait < LeaseLength
    /\ MaxClock \in Nat /\ MaxGrants \in Nat /\ MaxTries \in Nat \ {0}

VARIABLES
    clock,   \* time.time()
    lease,   \* child_routing_leases: per key the owner token, 0 if no row
    cache,   \* child_routing_cache: per key the token of the owner that
             \* published the decision, 0 if no row
    usage,   \* child_routing_usage: inference_calls of a parent, 0 if no row
    granted, \* the key of every lease granted so far; its index is the token
    open,    \* parent turns that are active or evidence_only
    child,   \* the preflights
    beats    \* their heartbeat threads

vars == <<clock, lease, cache, usage, granted, open, child, beats>>

NoLease == [token |-> 0, expires |-> 0]
NoRoute == [decision |-> 0, expires |-> 0]

IdleChild == [pc |-> "idle", key |-> "", token |-> 0, now |-> 0,
              deadline |-> 0, tries |-> 0]

Ended == {"published", "reused", "abstained", "failed", "exited"}
Preparing == {"routing", "routed", "building"}

Init ==
    /\ clock = 1
    /\ lease = [k \in Keys |-> NoLease]
    /\ cache = [k \in Keys |-> NoRoute]
    /\ usage = [p \in Parents |-> 0]
    /\ granted = <<>>
    /\ open = Parents
    /\ child = [c \in Children |-> IdleChild]
    /\ beats = {}

At(c, pc) == child[c].pc = pc
Goto(c, pc) == child' = [child EXCEPT ![c].pc = pc]
Holds(c) == child[c].token # 0 /\ lease[child[c].key].token = child[c].token
LeasesOf(p, rows) == {k \in Keys : ParentOf[k] = p /\ rows[k].token # 0}
-----------------------------------------------------------------------------
(* reserve_child_routing                                                   *)

\* The child computes its key and reads the clock; a preflight whose
\* continuation is rerouted, or whose guard conflicts, comes here again.
Arrive(c, k) ==
    /\ child[c].pc \in {"idle", "published", "reused", "abstained", "failed"}
    /\ child[c].tries < MaxTries
    /\ child[c].key \in {"", k}
    /\ child' = [child EXCEPT ![c] =
           [IdleChild EXCEPT !.pc = "reserving", !.key = k, !.now = clock,
                             !.tries = child[c].tries + 1]]
    /\ UNCHANGED <<clock, lease, cache, usage, granted, open, beats>>

\* The rows every reservation finds: what had expired when it read the clock
\* is deleted first.
LeasesAt(now) == [k \in Keys |-> IF lease[k].expires <= now THEN NoLease
                                 ELSE lease[k]]

CacheAt(now) == [k \in Keys |-> IF cache[k].expires <= now THEN NoRoute
                                ELSE cache[k]]

Begins(c) == At(c, "reserving") /\ clock - child[c].now <= LockWait

ReuseCached(c) ==
    LET now == child[c].now
    IN  /\ Begins(c)
        /\ CacheAt(now)[child[c].key] # NoRoute
        /\ lease' = LeasesAt(now) /\ cache' = CacheAt(now)
        /\ Goto(c, "reused")
        /\ UNCHANGED <<clock, usage, granted, open, beats>>

Coalesce(c) ==
    LET now == child[c].now
        k == child[c].key
        until == clock + WaitLength
    IN  /\ Begins(c)
        /\ CacheAt(now)[k] = NoRoute /\ LeasesAt(now)[k] # NoLease
        /\ lease' = LeasesAt(now) /\ cache' = CacheAt(now)
        /\ child' = [child EXCEPT ![c].pc = "waiting",
                         ![c].deadline = IF until < MaxClock THEN until
                                         ELSE MaxClock]
        /\ UNCHANGED <<clock, usage, granted, open, beats>>

\* Neither the budget nor the concurrency of the parent is exhausted.
Affords(p, rows) ==
    usage[p] < Budget /\ Cardinality(LeasesOf(p, rows)) < Concurrency

\* budget_exhausted or concurrency_exhausted: the child routes without
\* inference and abstains.
Abstain(c) ==
    LET now == child[c].now
        k == child[c].key
    IN  /\ Begins(c)
        /\ CacheAt(now)[k] = NoRoute /\ LeasesAt(now)[k] = NoLease
        /\ ~Affords(ParentOf[k], LeasesAt(now))
        /\ lease' = LeasesAt(now) /\ cache' = CacheAt(now)
        /\ Goto(c, "abstained")
        /\ UNCHANGED <<clock, usage, granted, open, beats>>

Free(k, now) == CacheAt(now)[k] = NoRoute /\ LeasesAt(now)[k] = NoLease

Grant(c) ==
    LET now == child[c].now
        k == child[c].key
        token == Len(granted) + 1
    IN  /\ Begins(c) /\ Len(granted) < MaxGrants
        /\ Free(k, now)
        /\ Affords(ParentOf[k], LeasesAt(now))
        /\ lease' = [LeasesAt(now) EXCEPT
                         ![k] = [token |-> token, expires |-> now + LeaseLength]]
        /\ cache' = CacheAt(now)
        /\ usage' = [usage EXCEPT ![ParentOf[k]] = @ + 1]
        /\ granted' = Append(granted, k)
        /\ child' = [child EXCEPT ![c].pc = "routing", ![c].token = token]
        /\ UNCHANGED <<clock, open, beats>>

\* The transaction could not begin within the busy timeout.
LockTimeout(c) ==
    /\ At(c, "reserving") /\ clock - child[c].now >= LockWait
    /\ Goto(c, "failed")
    /\ UNCHANGED <<clock, lease, cache, usage, granted, open, beats>>
-----------------------------------------------------------------------------
(* A child that waits for the route of another                             *)

\* Mutant: the waiter has no deadline.
WaitsForever(c) == At(c, "waiting")

Waits(c) == At(c, "waiting") /\ clock < child[c].deadline

CacheHit(c) ==
    /\ Waits(c)
    /\ cache[child[c].key].expires > clock
    /\ Goto(c, "reused")
    /\ UNCHANGED <<clock, lease, cache, usage, granted, open, beats>>

\* The wait ends without a route; the child does not take the lease over.
WaitTimeout(c) ==
    /\ At(c, "waiting") /\ ~Waits(c)
    /\ Goto(c, "abstained")
    /\ UNCHANGED <<clock, lease, cache, usage, granted, open, beats>>
-----------------------------------------------------------------------------
(* The owner of a lease                                                    *)

\* Mutant: the lease of the key is released whoever holds it.
ReleasedByAnyone(c) == [lease EXCEPT ![child[c].key] = NoLease]

\* abort_child_routing and the end of complete_child_routing.
Released(c) == IF Holds(c) THEN [lease EXCEPT ![child[c].key] = NoLease]
               ELSE lease

\* _stop_child_route_heartbeat.  A renewal already under way finds no row.
Stopped(c) == {b \in beats : b.token # child[c].token}

\* Inference, or the start of the heartbeat thread, raises.
RouteFails(c) ==
    /\ At(c, "routing")
    /\ lease' = Released(c)
    /\ Goto(c, "failed")
    /\ UNCHANGED <<clock, cache, usage, granted, open, beats>>

\* Mutant: the thread is started with its two arguments swapped.
HeartbeatSwapped(c) ==
    [child |-> c, key |-> child[c].token, token |-> child[c].key,
     awake |-> FALSE, now |-> 0]

\* _start_child_route_heartbeat
Heartbeat(c) ==
    [child |-> c, key |-> child[c].key, token |-> child[c].token,
     awake |-> FALSE, now |-> 0]

\* The heartbeat starts only when inference has returned.
Route(c) ==
    /\ At(c, "routing")
    /\ beats' = beats \cup {Heartbeat(c)}
    /\ Goto(c, "routed")
    /\ UNCHANGED <<clock, lease, cache, usage, granted, open>>

\* _require_substantive_specialist rejects a route without specialists
\* before the guard that would release the lease is set up: the lease stays,
\* and so does its heartbeat.
RejectRoute(c) ==
    /\ At(c, "routed")
    /\ Goto(c, "failed")
    /\ UNCHANGED <<clock, lease, cache, usage, granted, open, beats>>

Guard(c) ==
    /\ At(c, "routed")
    /\ Goto(c, "building")
    /\ UNCHANGED <<clock, lease, cache, usage, granted, open, beats>>

\* Assignment, hydration or the replay of the recipe raises.
BuildFails(c) ==
    /\ At(c, "building")
    /\ lease' = Released(c)
    /\ beats' = Stopped(c)
    /\ Goto(c, "failed")
    /\ UNCHANGED <<clock, cache, usage, granted, open>>

\* Mutant: a late owner publishes, whoever holds the lease by now.
MayPublishLate(c) == At(c, "building")

\* complete_child_routing checks the token and not the expiry.
MayPublish(c) == At(c, "building") /\ Holds(c)

Publish(c) ==
    /\ MayPublish(c)
    /\ cache' = [cache EXCEPT ![child[c].key] =
                     [decision |-> child[c].token,
                      expires |-> clock + CacheLength]]
    /\ lease' = Released(c)
    /\ beats' = Stopped(c)
    /\ Goto(c, "published")
    /\ UNCHANGED <<clock, usage, granted, open>>

\* "child routing ownership expired before assignment publish"
LosePublish(c) ==
    /\ At(c, "building") /\ ~MayPublish(c)
    /\ beats' = Stopped(c)
    /\ Goto(c, "failed")
    /\ UNCHANGED <<clock, lease, cache, usage, granted, open>>
-----------------------------------------------------------------------------
(* Heartbeats, processes, parents and retention                            *)

Wake(b) ==
    /\ ~b.awake
    /\ beats' = (beats \ {b}) \cup {[b EXCEPT !.awake = TRUE, !.now = clock]}
    /\ UNCHANGED <<clock, lease, cache, usage, granted, open, child>>

\* renew_child_routing; a heartbeat that renewed nothing ends.
Renew(b) ==
    LET row == lease[b.key]
        live == row.token = b.token /\ row.expires > b.now
        asleep == [b EXCEPT !.awake = FALSE, !.now = 0]
    IN  /\ b.awake /\ clock - b.now <= LockWait
        /\ beats' = (beats \ {b}) \cup (IF live THEN {asleep} ELSE {})
        /\ lease' = IF live THEN [lease EXCEPT
                                      ![b.key].expires = b.now + LeaseLength]
                    ELSE lease
        /\ UNCHANGED <<clock, cache, usage, granted, open, child>>

\* The renewal could not begin in time and raised in its thread.
BeatDies(b) ==
    /\ b.awake /\ clock - b.now >= LockWait
    /\ beats' = beats \ {b}
    /\ UNCHANGED <<clock, lease, cache, usage, granted, open, child>>

\* The process of a preflight ends or is killed, and its threads with it.
Exit(c) ==
    /\ child[c].pc \notin {"idle", "exited"}
    /\ Goto(c, "exited")
    /\ beats' = {b \in beats : b.child # c}
    /\ UNCHANGED <<clock, lease, cache, usage, granted, open>>

EndParent(p) ==
    /\ open' = open \ {p}
    /\ p \in open
    /\ UNCHANGED <<clock, lease, cache, usage, granted, child, beats>>

\* Mutant: retention does not look at the parent turn.
SpareNothing(p) == FALSE

\* _OPEN_TRACE_RETENTION_GUARDS
Spared(p) == p \in open

\* trim_runtime_tables deletes leases, then cache rows, then usage.
Trim(leases, routes, parents) ==
    /\ \A k \in leases : lease[k] # NoLease /\ ~Spared(ParentOf[k])
    /\ \A k \in routes : /\ cache[k] # NoRoute
                         /\ lease[k] = NoLease \/ ~Spared(ParentOf[k])
    /\ \A p \in parents : usage[p] # 0 /\ ~Spared(p)
    /\ lease' = [k \in Keys |-> IF k \in leases THEN NoLease ELSE lease[k]]
    /\ cache' = [k \in Keys |-> IF k \in routes THEN NoRoute ELSE cache[k]]
    /\ usage' = [p \in Parents |-> IF p \in parents THEN 0 ELSE usage[p]]
    /\ UNCHANGED <<clock, granted, open, child, beats>>

Tick ==
    /\ clock < MaxClock
    /\ clock' = clock + 1
    /\ UNCHANGED <<lease, cache, usage, granted, open, child, beats>>

ChildStep(c) ==
    \/ ReuseCached(c) \/ Coalesce(c) \/ Abstain(c) \/ Grant(c)
    \/ LockTimeout(c) \/ CacheHit(c) \/ WaitTimeout(c)
    \/ RouteFails(c) \/ Route(c) \/ RejectRoute(c) \/ Guard(c)
    \/ BuildFails(c) \/ Publish(c) \/ LosePublish(c)

Next ==
    \/ \E c \in Children : (\E k \in Keys : Arrive(c, k)) \/ ChildStep(c)
                                                         \/ Exit(c)
    \/ \E b \in beats : Wake(b) \/ Renew(b) \/ BeatDies(b)
    \/ \E p \in Parents : EndParent(p)
    \/ \E leases, routes \in SUBSET Keys, parents \in SUBSET Parents :
          Trim(leases, routes, parents)
    \/ Tick

Spec == Init /\ [][Next]_vars

\* A preflight that was not killed keeps running, and time passes.
FairSpec == Spec /\ (\A c \in Children : WF_vars(ChildStep(c))) /\ WF_vars(Tick)
-----------------------------------------------------------------------------
(* What parents, children and operators rely on                            *)

Child == [pc : Ended \cup Preparing \cup {"idle", "reserving", "waiting"},
          key : Keys \cup {""}, token : Nat, now : Nat, deadline : Nat,
          tries : Nat]

Beat == [child : Children, key : Keys, token : Nat, awake : BOOLEAN, now : Nat]

TypeOK ==
    /\ clock \in Nat
    /\ lease \in [Keys -> [token : Nat, expires : Nat]]
    /\ cache \in [Keys -> [decision : Nat, expires : Nat]]
    /\ usage \in [Parents -> Nat]
    /\ granted \in Seq(Keys)
    /\ open \subseteq Parents
    /\ child \in [Children -> Child]
    /\ beats \subseteq Beat

\* However many children, retries, crashes and retention sweeps there are, an
\* open parent turn never pays for more than Budget inferences (the budget is
\* counted in a row that must survive as long as the turn is open).
BudgetHolds ==
    \A p \in open :
        Cardinality({i \in DOMAIN granted : ParentOf[granted[i]] = p}) <= Budget

\* A parent never has more than Concurrency leases, renewed ones included: a
\* late heartbeat brings no lease back that was counted as gone.
LimitHolds ==
    \A p \in Parents : Cardinality(LeasesOf(p, lease)) <= Concurrency

\* Both limits of a parent turn are kept: what it pays for and what runs at once.
ParentLimitsHold == BudgetHolds /\ LimitHolds

\* An owner that lost its lease while it was routing never overwrites the
\* route of its successor: the routes of a key only get newer.
RoutesGetNewer ==
    [][\A k \in Keys : cache'[k].decision # 0
          => cache'[k].decision >= cache[k].decision]_vars

\* The route that an owner is about to publish is never cut off by another
\* child: a lease that has not expired goes only by its owner's hand, or with
\* the parent turn.
LiveLeaseIsSafe ==
    [][\A k \in Keys :
          /\ lease[k].expires > clock /\ ParentOf[k] \in open
          /\ lease'[k].token # lease[k].token
          => \E c \in Children : child[c].token = lease[k].token
                                /\ child'[c].pc \in {"failed", "published"}]_vars

\* _abort_child_routing_bundle: "Release a pending bundle lease after any
\* preparation failure."
FailureReleasesLease ==
    \A c \in Children : At(c, "failed") => ~Holds(c)

\* Every preflight of a child ends, whatever happens to the owner it waits
\* for: killed, rejected, or keeping its lease alive for ever.
ChildrenEnd ==
    \A c \in Children : ~At(c, "idle") ~> child[c].pc \in Ended
=============================================================================
