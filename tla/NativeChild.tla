------------------------------ MODULE NativeChild ------------------------------
(***************************************************************************)
(* The native children of one parent turn: worker processes that a host    *)
(* starts, of which Agency keeps a receipt (worker_runs) and the work unit *)
(* they were given (delegation_events).                                    *)
(*                                                                         *)
(* Hosts with plain callbacks report delegation, start, stop and end, in   *)
(* any order.  For OpenClaw a gateway plugin                               *)
(* (core/installer_payload_openclaw.py) follows each child in memory until *)
(* its result was sent to the user: the child ends, a completion run of    *)
(* the host proposes one message, Agency accepts it as the answer of the   *)
(* parent turn, the channel sends it, and only then the receipt is closed. *)
(* The plugin calls the Store (core/store/native_child.py) through bridge  *)
(* processes that may be killed at a timeout before or after they commit,  *)
(* and loses its memory when the gateway restarts.                         *)
(*                                                                         *)
(* A bridge process runs one transaction per action.  A callback may       *)
(* arrive several times.                                                   *)
(***************************************************************************)
EXTENDS Naturals, FiniteSets

CONSTANTS
    Children,           \* the children of the turn
    Hosts,              \* the choices of a host for each child
    MaxLosses,          \* bound on the bridge calls that fail
    MaxRestarts         \* bound on the times the plugin loses its memory

ASSUME HostsAssumption == Hosts \subseteq [Children -> {"openclaw", "plain"}]
ASSUME BoundsAssumption == MaxLosses \in Nat /\ MaxRestarts \in Nat

\* A child is not one of the marks of a turn that no child answered.
ASSUME AnswerAssumption == Children \cap {"", "other"} = {}

VARIABLES
    host,               \* the host of each child, chosen at the start
    answer,             \* how the parent turn ended
    delegation,         \* delegation_events, one work unit per child
    worker,             \* worker_runs, one row per child
    task,               \* what became of the child in its host
    plugin,             \* the memory of the OpenClaw plugin
    strays,             \* bridge processes nobody waits for
    starting,           \* gateway_start has to reconcile
    wire,               \* the completion message in the channel
    losses, restarts    \* counters of MaxLosses and MaxRestarts

store == <<answer, delegation, worker>>
bounds == <<losses, restarts>>
vars == <<host, store, task, plugin, strays, starting, wire, bounds>>

Outcomes == {"ok", "error", "killed"}

\* delegation_status.py: a status gives way to one of a higher rank only.  A row
\* that does not exist is like a suggested one, and the statuses started and
\* running, of which only public reports speak, are like delegated.
Rank == [suggested |-> 0, delegated |-> 3, completed |-> 4, skipped |-> 5, failed |-> 6]
Executed == {"delegated", "completed"}
Closed == {"completed", "skipped", "failed"}

\* `exact`: backend, worker and run of the row are those of the child.
Delegation == [status : DOMAIN Rank, exact : BOOLEAN]

Worker == [started : BOOLEAN,
           linked : BOOLEAN,                    \* delegation_event_id is set
           launch : BOOLEAN,                    \* execution_tool_use_id is set
           ended : BOOLEAN,                     \* ended_at is set
           exit : Outcomes \cup {""},           \* exit_code
           outcome : Outcomes \cup {""},        \* native_terminal_outcome
           delivery : {"", "pending", "delivered", "failed", "interrupted"}]

NoWorker == [started |-> FALSE, linked |-> FALSE, launch |-> FALSE, ended |-> FALSE,
             exit |-> "", outcome |-> "", delivery |-> ""]

StartSteps == {"delegate", "start", "bind"}
DeliverySteps == {"delivered", "redelivered"}
Calls == StartSteps \cup DeliverySteps \cup {"observe"}

Memory == [launching : BOOLEAN,                 \* toolCorrelations
           seen : Outcomes \cup {"none", "seen", "terminal"},
                                                \* nativeChildObservations
           known : BOOLEAN,                     \* nativeChildParents, and below it
           started : BOOLEAN,                   \* startedRecorded
           end : Outcomes \cup {""},            \* pendingEnd
           recorded : BOOLEAN,                  \* pendingEndRecorded
           completion : {"pending", "attempted", "authorized", "sending",
                         "delivered", "failed"},
           call : Calls \cup {""},              \* the bridge call it waits for
           run : {"none", "persisting", "preparing", "prepared", "finalizing",
                  "authorized", "over"}]        \* the completion run of the child

Unknown == [launching |-> FALSE, seen |-> "none", known |-> FALSE, started |-> FALSE,
            end |-> "", recorded |-> FALSE, completion |-> "pending", call |-> "",
            run |-> "none"]

StrayCalls == [child : Children,
               call : Calls \cup {"finalize", "delegateAgain", "startAgain"},
               outcome : Outcomes \cup {""}]

Init ==
    /\ host \in Hosts
    /\ answer = ""
    /\ delegation = [c \in Children |-> [status |-> "suggested", exact |-> FALSE]]
    /\ worker = [c \in Children |-> NoWorker]
    /\ task = [c \in Children |-> IF host[c] = "plain" THEN "running" ELSE "unspawned"]
    /\ plugin = [c \in Children |-> Unknown]
    /\ strays = {}
    /\ starting = FALSE
    /\ wire = [c \in Children |-> "none"]
    /\ losses = 0
    /\ restarts = 0

OpenClaw == {c \in Children : host[c] = "openclaw"}

-----------------------------------------------------------------------------
(* The Store: one transaction each *)

\* _prepare_delegation_transition: two executed statuses must name one worker.
Conflicts(d, status, exact) ==
    /\ d.status \in Executed
    /\ status \in Executed
    /\ d.exact # exact

\* _merge_delegation_transition.
Merged(d, status, exact) ==
    IF Rank[status] >= Rank[d.status] THEN [status |-> status, exact |-> exact] ELSE d

\* _merge_native_child_terminal.
MergedTerminal(d, outcome) ==
    Merged(d, IF outcome = "ok" THEN "completed" ELSE "failed", d.exact)

\* _native_child_delegation: the row that names this child.
Matches(c) == delegation[c].exact

\* The join of a receipt with its own, still delegated work unit.
Joined(c) == worker[c].linked /\ Matches(c)
Open(c) == Joined(c) /\ delegation[c].status = "delegated"
                     /\ worker[c].launch /\ ~worker[c].ended

\* mark_delegation_executed.
CanDelegate(c) == answer = "" /\ ~Conflicts(delegation[c], "delegated", TRUE)
RecordDelegated(c) ==
    /\ CanDelegate(c)
    /\ delegation' = [delegation EXCEPT ![c] = Merged(@, "delegated", TRUE)]
    /\ UNCHANGED <<answer, worker>>

\* Mutant: a late link leaves the work unit as it is.
RecordStartedLinksOnly(c) ==
    /\ worker' = [worker EXCEPT ![c].started = TRUE, ![c].linked = @ \/ Matches(c)]
    /\ UNCHANGED <<answer, delegation>>

\* record_native_child_started: creates or links the receipt; a receipt that has
\* ended already closes the work unit it is linked to.
RecordStarted(c) ==
    /\ worker' = [worker EXCEPT ![c].started = TRUE, ![c].linked = @ \/ Matches(c)]
    /\ delegation' = IF Matches(c) /\ worker[c].ended /\ worker[c].exit # ""
                     THEN [delegation EXCEPT ![c] = MergedTerminal(@, worker[c].exit)]
                     ELSE delegation
    /\ UNCHANGED answer

\* bind_native_child_launch.
BindLaunch(c) ==
    /\ worker[c].started
    /\ worker' = [worker EXCEPT ![c].launch = TRUE]
    /\ UNCHANGED <<answer, delegation>>

\* record_native_child_terminal_observed.
CanObserve(c, o) == Open(c) /\ worker[c].outcome \in {"", o}
RecordObserved(c, o) ==
    /\ CanObserve(c, o)
    /\ worker' = [worker EXCEPT ![c].outcome = o,
                                ![c].delivery = IF @ = "" THEN "pending" ELSE @]
    /\ UNCHANGED <<answer, delegation>>

\* Mutant: the resolver does not look at the parent turn.
ResolvableInAnyTurn(c) == Open(c)

\* resolve_openclaw_native_child_completion: a live child of an open turn.
Resolvable(c) == answer = "" /\ Open(c)

\* Mutant: a second terminal outcome replaces the first.
CanEndAgain(w, o) == w.delivery \notin {"pending", "failed"}

\* _record_native_child_terminal, on a row that delivery does not hold back.
CanEnd(w, o) == /\ w.delivery \notin {"pending", "failed"}
                /\ ~(w.ended /\ w.exit \notin {"", o})
Terminated(c, w, o) ==
    /\ CanEnd(w, o)
    /\ worker' = [worker EXCEPT ![c] = [w EXCEPT !.exit = o, !.ended = TRUE,
                                                 !.linked = @ \/ Matches(c)]]
    /\ delegation' = IF Matches(c)
                     THEN [delegation EXCEPT ![c] = MergedTerminal(@, o)]
                     ELSE delegation
    /\ UNCHANGED answer

\* record_openclaw_native_child_delivery: the parent turn must have been
\* completed with the message that was sent.
CanDeliver(c, status) ==
    /\ Joined(c) /\ worker[c].launch /\ worker[c].outcome # ""
    /\ answer = c
    /\ worker[c].delivery \in {"pending", status}
    /\ worker[c].ended = (worker[c].delivery = "delivered")
RecordDelivery(c, status) ==
    LET w == [worker[c] EXCEPT !.delivery = status]
    IN  /\ CanDeliver(c, status)
        /\ CASE worker[c].delivery = status -> UNCHANGED store
             [] worker[c].delivery # status /\ status = "delivered" ->
                    Terminated(c, w, w.outcome)
             [] OTHER -> /\ worker' = [worker EXCEPT ![c] = w]
                         /\ UNCHANGED <<answer, delegation>>

\* reconcile_openclaw_pending_native_child_deliveries.
Interrupted == {c \in OpenClaw : Open(c) /\ worker[c].delivery \in {"pending", "failed"}}
Reconcile ==
    /\ worker' = [c \in Children |->
                    IF c \in Interrupted
                    THEN [worker[c] EXCEPT !.delivery = "interrupted", !.exit = "error",
                                           !.ended = TRUE]
                    ELSE worker[c]]
    /\ delegation' = [c \in Children |->
                        IF c \in Interrupted THEN MergedTerminal(delegation[c], "error")
                                             ELSE delegation[c]]
    /\ UNCHANGED answer

-----------------------------------------------------------------------------
(* Hosts with plain callbacks, and the public record_delegation *)

\* Any status, for this worker or another one.  A report without a worker keeps
\* the one of the row.
Report(c, status, exact) ==
    /\ answer = ""
    /\ status \in Executed /\ exact => task[c] # "unspawned"
    /\ ~Conflicts(delegation[c], status, exact)
    /\ delegation' = [delegation EXCEPT
                        ![c] = Merged(@, status, exact /\ (status \in Executed \/ @.exact))]
    /\ UNCHANGED <<host, answer, worker, task, plugin, strays, starting, wire, bounds>>

\* record_native_child_stopped, after the start it records first: the child has
\* stopped and nobody says how.
Stopped(c) ==
    /\ worker[c].started
    /\ worker' = [worker EXCEPT ![c].ended = TRUE]
    /\ UNCHANGED <<answer, delegation>>

Callback(c) ==
    /\ host[c] = "plain"
    /\ \/ RecordDelegated(c)
       \/ RecordStarted(c)
       \/ BindLaunch(c)
       \/ Stopped(c)
       \/ \E o \in Outcomes : worker[c].started /\ Terminated(c, worker[c], o)
    /\ UNCHANGED <<host, task, plugin, strays, starting, wire, bounds>>

\* The turn ends without a child: its own answer, a refusal, a lost lease.
TurnEnds ==
    /\ answer = ""
    /\ answer' = "other"
    /\ UNCHANGED <<host, delegation, worker, task, plugin, strays, starting, wire, bounds>>

-----------------------------------------------------------------------------
(* The OpenClaw plugin: the child and its end *)

Remembers(c, m) == plugin' = [plugin EXCEPT ![c] = m]

\* before_tool_call of sessions_spawn, and the host starts the child.
Spawn(c) ==
    /\ host[c] = "openclaw" /\ task[c] = "unspawned" /\ answer = ""
    /\ task' = [task EXCEPT ![c] = "running"]
    /\ plugin' = [plugin EXCEPT ![c].launching = TRUE]
    /\ UNCHANGED <<host, store, strays, starting, wire, bounds>>

\* subagent_spawned.
Spawned(c) ==
    /\ host[c] = "openclaw" /\ task[c] # "unspawned" /\ plugin[c].seen = "none"
    /\ plugin' = [plugin EXCEPT ![c].seen = "seen"]
    /\ UNCHANGED <<host, store, task, strays, starting, wire, bounds>>

\* The middleware sees the accepted result of sessions_spawn.
Accepted(c) ==
    /\ plugin[c].launching
    /\ Remembers(c, [Unknown EXCEPT !.known = TRUE, !.call = "delegate",
                                    !.run = plugin[c].run,
                                    !.end = IF plugin[c].seen \in Outcomes
                                            THEN plugin[c].seen ELSE ""])
    /\ UNCHANGED <<host, store, task, strays, starting, wire, bounds>>

ChildEnds(c) ==
    /\ host[c] = "openclaw" /\ task[c] = "running"
    /\ \E o \in {"ok", "killed"} : task' = [task EXCEPT ![c] = o]
    /\ UNCHANGED <<host, store, plugin, strays, starting, wire, bounds>>

\* persistNativeChildPendingEnd starts a call unless one is under way.
Persistable(m) == m.started /\ m.end # "" /\ ~m.recorded /\ m.call = ""
Persisting(m) == IF Persistable(m) THEN [m EXCEPT !.call = "observe"] ELSE m

\* An end of a child the plugin follows.  The first outcome stays.
KnownEnd(c, o) ==
    /\ plugin[c].known /\ plugin[c].end \in {"", o}
    /\ Remembers(c, Persisting([plugin[c] EXCEPT !.end = o]))
    /\ UNCHANGED strays

\* agent_end of the child says success or error.
AgentEnd(c) ==
    LET o == IF task[c] = "ok" THEN "ok" ELSE "error"
    IN  /\ task[c] \in Outcomes
        /\ plugin[c].seen # "terminal"
        /\ \/ KnownEnd(c, o)
           \/ /\ ~plugin[c].known /\ plugin[c].seen = "seen"
              /\ plugin' = [plugin EXCEPT ![c].seen = o]
              /\ UNCHANGED strays
        /\ UNCHANGED <<host, store, task, starting, wire, bounds>>

\* subagent_ended has the outcome.  For a child the plugin does not follow it
\* asks the Store whether the launch is known there.
SubagentEnded(c) ==
    LET o == task[c]
    IN  /\ o \in Outcomes
        /\ \/ KnownEnd(c, o)
           \/ /\ ~plugin[c].known /\ plugin[c].seen \in {"none", "seen", o}
              /\ plugin' = [plugin EXCEPT ![c].seen = IF @ = "seen" THEN o ELSE @]
              /\ strays' = strays \cup {[child |-> c, call |-> "observe", outcome |-> o]}
        /\ UNCHANGED <<host, store, task, starting, wire, bounds>>

-----------------------------------------------------------------------------
(* The OpenClaw plugin: the completion run of an ended child *)

\* before_prompt_build.
Prompt(c) ==
    LET m == plugin[c]
        resolved == m.known /\ m.started /\ m.completion = "pending"
    IN  /\ task[c] \in Outcomes /\ host[c] = "openclaw" /\ m.run = "none"
        /\ Remembers(c, CASE resolved /\ m.recorded -> [m EXCEPT !.run = "preparing"]
                          [] resolved /\ Persistable(m) ->
                                 [m EXCEPT !.run = "persisting", !.call = "observe"]
                          [] OTHER -> [m EXCEPT !.run = "over"])
        /\ UNCHANGED <<host, store, task, strays, starting, wire, bounds>>

\* native_child_completion_prepare reads the Store.
Prepare(c) ==
    /\ plugin[c].run = "preparing"
    /\ plugin' = [plugin EXCEPT ![c].run = IF Resolvable(c) THEN "prepared" ELSE "over"]
    /\ UNCHANGED <<host, store, task, strays, starting, wire, bounds>>

\* The one message of the run, or another tool that spends it.
Message(c) ==
    /\ plugin[c].run = "prepared"
    /\ \E next \in {"finalizing", "over"} :
          plugin' = [plugin EXCEPT ![c].completion = "attempted", ![c].run = next]
    /\ UNCHANGED <<host, store, task, strays, starting, wire, bounds>>

\* native_child_completion_finalize: the message becomes the answer of the turn.
\* The gate may refuse it.
Finalize(c) ==
    /\ plugin[c].run = "finalizing"
    /\ \/ /\ Resolvable(c)
          /\ answer' = c
          /\ plugin' = [plugin EXCEPT ![c].completion = "authorized", ![c].run = "authorized"]
       \/ /\ plugin' = [plugin EXCEPT ![c].run = "over"]
          /\ UNCHANGED answer
    /\ UNCHANGED <<host, delegation, worker, task, strays, starting, wire, bounds>>

\* message_sending.
Sending(c) ==
    /\ plugin[c].completion = "authorized"
    /\ \/ /\ plugin' = [plugin EXCEPT ![c].completion = "sending"]
          /\ wire' = [wire EXCEPT ![c] = IF @ = "none" THEN "sent" ELSE "twice"]
       \/ /\ plugin' = [plugin EXCEPT ![c].completion = "attempted"]
          /\ UNCHANGED wire
    /\ UNCHANGED <<host, store, task, strays, starting, bounds>>

\* finishNativeChildEndPersistence.
Finished(m) == [Unknown EXCEPT !.seen = "terminal", !.run = m.run]

\* message_sent.  persistNativeChildDeliverySync tries the receipt twice; the
\* second reply may be lost like the first, whether the receipt was written or not.
MessageSent(c, success) ==
    LET status == IF success THEN "delivered" ELSE "failed"
        m == [plugin[c] EXCEPT !.completion = status]
    IN  /\ wire[c] = "sent"
        /\ wire' = [wire EXCEPT ![c] = IF success THEN "accepted" ELSE "rejected"]
        /\ IF ~(plugin[c].known /\ plugin[c].completion = "sending" /\ plugin[c].recorded)
           THEN UNCHANGED <<store, plugin, losses>>
           ELSE \/ /\ RecordDelivery(c, status)
                   /\ Remembers(c, IF success THEN Finished(m) ELSE m)
                   /\ UNCHANGED losses
                \/ /\ ~CanDeliver(c, status)
                   /\ Remembers(c, m)
                   /\ UNCHANGED <<store, losses>>
                \/ /\ losses + 2 <= MaxLosses
                   /\ losses' = losses + 2
                   /\ Remembers(c, m)
                   /\ RecordDelivery(c, status) \/ UNCHANGED store
        /\ UNCHANGED <<host, task, strays, starting, restarts>>

\* Mutant: the receipt is left to message_sent.
CompletionEndOnly(c) ==
    /\ plugin[c].run \in {"prepared", "authorized"}
    /\ plugin' = [plugin EXCEPT ![c].run = "over"]
    /\ UNCHANGED <<host, store, task, strays, starting, wire, bounds>>

\* agent_end of the completion run: a sent message whose receipt is missing is
\* reported again.
CompletionEnd(c) ==
    LET m == [plugin[c] EXCEPT !.run = "over"]
    IN  /\ plugin[c].run \in {"prepared", "authorized"}
        /\ Remembers(c, IF m.known /\ m.recorded /\ m.completion = "delivered" /\ m.call = ""
                        THEN [m EXCEPT !.call = "delivered"] ELSE m)
        /\ UNCHANGED <<host, store, task, strays, starting, wire, bounds>>

-----------------------------------------------------------------------------
(* Bridge processes *)

\* The bridge process of `call` commits, or the Store refuses the call.
Commits(c, call, o) ==
    \/ call \in {"delegate", "delegateAgain"} /\ RecordDelegated(c)
    \/ call \in {"start", "startAgain"} /\ RecordStarted(c)
    \/ call = "bind" /\ BindLaunch(c)
    \/ call = "observe" /\ RecordObserved(c, o)
    \/ call \in DeliverySteps /\ RecordDelivery(c, "delivered")
    \/ /\ call = "finalize" /\ Resolvable(c)
       /\ answer' = c
       /\ UNCHANGED <<delegation, worker>>
Refuses(c, call, o) ==
    CASE call \in {"delegate", "delegateAgain"} -> ~CanDelegate(c)
      [] call \in {"start", "startAgain"} -> FALSE
      [] call = "bind" -> ~worker[c].started
      [] call = "observe" -> ~CanObserve(c, o)
      [] call \in DeliverySteps -> ~CanDeliver(c, "delivered")
      [] call = "finalize" -> ~Resolvable(c)

\* The steps of one bridge process.
Following == [call \in {"delegate", "start", "delegateAgain"} |->
                CASE call = "delegate" -> "start"
                  [] call = "start" -> "bind"
                  [] call = "delegateAgain" -> "startAgain"]

\* What the plugin does with an accepted call, and with a refused or failed one.
\* The start must name the work unit: by the task name, or by the linked row.
Done(c, m, call, linked) ==
    CASE call \in {"delegate", "start"} -> {[m EXCEPT !.call = Following[call]]}
      [] call = "bind" -> {Persisting([m EXCEPT !.call = "", !.started = named]) :
                              named \in {TRUE, linked}}
      [] call = "observe" -> {[m EXCEPT !.call = "", !.recorded = TRUE,
                                 !.run = IF @ = "persisting" THEN "preparing" ELSE @]}
      [] call \in DeliverySteps -> {Finished(m)}
Failed(m, call) ==
    CASE call \in StartSteps \cup {"redelivered"} -> [m EXCEPT !.call = ""]
      [] call = "observe" -> [m EXCEPT !.call = "",
                                       !.run = IF @ = "persisting" THEN "over" ELSE @]
      [] call = "delivered" -> [m EXCEPT !.call = "redelivered"]

\* After a start, well or not, the middleware reports the tool call itself.
Afterwards(c, call) ==
    strays' = IF call \in StartSteps
              THEN strays \cup {[child |-> c, call |-> "delegateAgain", outcome |-> ""]}
              ELSE strays

Serve(c) ==
    LET m == plugin[c]
    IN  /\ m.call # ""
        /\ \/ /\ Commits(c, m.call, m.end)
              /\ \E next \in Done(c, m, m.call, worker[c].linked) : Remembers(c, next)
              /\ IF m.call = "bind" THEN Afterwards(c, m.call) ELSE UNCHANGED strays
           \/ /\ Refuses(c, m.call, m.end)
              /\ Remembers(c, Failed(m, m.call))
              /\ Afterwards(c, m.call)
              /\ UNCHANGED store
        /\ UNCHANGED <<host, task, starting, wire, bounds>>

\* The call is killed at its timeout, or its reply is lost.
Lose(c) ==
    LET m == plugin[c]
        waiting == m.call # ""
        call == IF waiting THEN m.call ELSE "finalize"
    IN  /\ losses < MaxLosses
        /\ losses' = losses + 1
        /\ waiting \/ m.run \in {"preparing", "finalizing"}
        /\ \/ m.run # "preparing" /\ Commits(c, call, m.end)
           \/ UNCHANGED store
        /\ Remembers(c, IF waiting THEN Failed(m, call) ELSE [m EXCEPT !.run = "over"])
        /\ Afterwards(c, call)
        /\ UNCHANGED <<host, task, starting, wire, restarts>>

\* A bridge process nobody waits for.
Stray ==
    \E s \in strays :
        /\ \/ /\ Commits(s.child, s.call, s.outcome)
              /\ strays' = (strays \ {s}) \cup
                    IF s.call \in DOMAIN Following
                    THEN {[s EXCEPT !.call = Following[s.call]]} ELSE {}
           \/ /\ strays' = strays \ {s}
              /\ UNCHANGED store
        /\ UNCHANGED <<host, task, plugin, starting, wire, bounds>>

-----------------------------------------------------------------------------
(* The plugin loses its memory *)

Left(c) ==
    IF plugin[c].call # ""
    THEN {[child |-> c, call |-> plugin[c].call, outcome |-> plugin[c].end]}
    ELSE IF plugin[c].run = "finalizing"
         THEN {[child |-> c, call |-> "finalize", outcome |-> ""]} ELSE {}

\* The gateway restarts, or (observeRuntimeState) a reply says that Agency is off.
Forget ==
    /\ restarts < MaxRestarts
    /\ restarts' = restarts + 1
    /\ plugin' = [c \in Children |->
                    [Unknown EXCEPT !.run = IF plugin[c].run = "none" THEN @ ELSE "over"]]
    /\ strays' = strays \cup UNION {Left(c) : c \in OpenClaw}
    /\ starting' \in {TRUE, starting}
    /\ UNCHANGED <<host, store, task, wire, losses>>

\* gateway_start.
GatewayStart ==
    /\ starting
    /\ starting' = FALSE
    /\ \/ Reconcile /\ UNCHANGED losses
       \/ losses < MaxLosses /\ losses' = losses + 1 /\ UNCHANGED store
    /\ UNCHANGED <<host, task, plugin, strays, wire, restarts>>

-----------------------------------------------------------------------------
Plugin(c) ==
    \/ Spawn(c) \/ Spawned(c) \/ Accepted(c) \/ ChildEnds(c) \/ AgentEnd(c)
    \/ SubagentEnded(c) \/ Prompt(c) \/ Prepare(c) \/ Message(c) \/ Finalize(c)
    \/ Sending(c) \/ CompletionEnd(c) \/ Serve(c) \/ Lose(c)
    \/ \E success \in BOOLEAN : MessageSent(c, success)

Next ==
    \/ \E c \in Children :
          \/ Plugin(c)
          \/ Callback(c)
          \/ \E status \in DOMAIN Rank, exact \in BOOLEAN : Report(c, status, exact)
    \/ TurnEnds
    \/ Stray
    \/ Forget
    \/ GatewayStart

\* The gateway ends the runs it started, and a bridge call returns.
Fairness == \A c \in Children : WF_vars(CompletionEnd(c)) /\ WF_vars(Serve(c))
Spec == Init /\ [][Next]_vars
FairSpec == Spec /\ Fairness

-----------------------------------------------------------------------------
(* Properties *)

\* Receipts, work units, the memory of the plugin and its bridge processes are
\* well formed.
TypeOK ==
    /\ host \in Hosts
    /\ answer \in Children \cup {"", "other"}
    /\ delegation \in [Children -> Delegation]
    /\ worker \in [Children -> Worker]
    /\ task \in [Children -> Outcomes \cup {"unspawned", "running"}]
    /\ plugin \in [Children -> Memory]
    /\ strays \subseteq StrayCalls
    /\ starting \in BOOLEAN
    /\ wire \in [Children -> {"none", "sent", "accepted", "rejected", "twice"}]
    /\ losses \in 0 .. MaxLosses /\ restarts \in 0 .. MaxRestarts

\* A receipt that ended with an outcome closes the work unit it is linked to,
\* however the callbacks, the public reports and the plugin were ordered, and a
\* failed child never leaves a completed work unit.
DelegationFollows ==
    \A c \in Children :
        worker[c].linked /\ worker[c].exit # "" =>
            /\ delegation[c].status \in Closed
            /\ worker[c].exit # "ok" => delegation[c].status # "completed"
ReceiptsConsistent == TypeOK /\ DelegationFollows

\* A completion message goes out at most once and only when it is the answer of
\* the parent turn, so no two children of a turn send one.  A receipt says
\* delivered only when the channel took the message, and a child whose end the
\* plugin observed counts as successful only then.
SentIsFinal ==
    \A c \in Children :
        /\ wire[c] # "twice"
        /\ wire[c] # "none" => answer = c
        /\ worker[c].delivery = "delivered" => wire[c] = "accepted"
        /\ worker[c].outcome # "" /\ worker[c].exit = "ok" => worker[c].delivery = "delivered"

\* What a receipt once said of an outcome, a delivery or a link stays, in spite of
\* retries and of bridge processes that commit late, and a failed work unit stays
\* failed.
OutcomeIsFinal ==
    [][\A c \in Children :
        /\ worker[c].exit \in {"", worker'[c].exit}
        /\ worker[c].outcome \in {"", worker'[c].outcome}
        /\ worker[c].delivery \in {"delivered", "interrupted"} =>
              worker'[c].delivery = worker[c].delivery
        /\ worker[c].linked => worker'[c].linked
        /\ delegation[c].status = "failed" => delegation'[c].status = "failed"]_vars

\* The message of the child is in the channel, and its completion run is there
\* to end.
Delivered(c) == plugin[c].completion = "delivered" /\ plugin[c].run = "authorized"

\* The plugin no longer knows a child whose receipt it has not seen closed.
Forgotten(c) == ~plugin[c].known /\ plugin[c].seen # "terminal"

\* The receipt of a delivered child gets closed, although both tries of
\* message_sent may have failed and one of the two at the end of the run may fail
\* as well.  Only when two more calls fail, or the plugin loses its memory, may it
\* stay open.  (From k losses on, MaxLosses leaves room for those two.)
DeliveredChildCloses ==
    \A c \in Children, k \in 0 .. MaxLosses - 2 :
        Delivered(c) /\ losses = k
            ~> worker[c].exit # "" \/ Forgotten(c) \/ losses >= k + 2

=============================================================================
