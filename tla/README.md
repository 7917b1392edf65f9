# A verification of the agency runtime's turn evidence

The agency runtime sits beside AI coding hosts (Claude, Codex, OpenClaw, Hermes,
LiteLLM). For every user turn it selects specialists ("preflight"), records what
happened, and decides whether the final response may claim what it claims
("finalization"). The record is a SQLite file, the *evidence Store*, shared by many
short-lived processes: prompt hooks, Stop hooks, tool callbacks, the MCP server, the
dashboard, the CLI. Nothing else coordinates them. This directory models that
coordination in TLA+, checks it with TLC and proves part of it with TLAPS.

Paths below are relative to `src/agency_runtime/`.

## Inventory

| Part | State | Operations | Hard behaviour | What makes it correct |
|---|---|---|---|---|
| Turn store (`core/store/preflight.py`, `sqlite.py`, `evidence.py`, `maintenance.py`, `queries.py`, `schema.py`) | `runs`, `finalization_events`, `preflight_failure_receipts`, correlated evidence tables, `trace_tombstones`, `store_counters` | reserve, create, begin / recover / reuse / observe / ready / fail / abandon a preflight attempt, record evidence, commit a verdict, claim a continuation, close, retire, trim | every pair of transactions from different processes can interleave; leases expire; retention deletes what others still hold ids of | one outcome per turn, bound to one event; evidence belongs to the current attempt; an outcome is final; a deleted turn stays deleted |
| Turn lifecycle callers (`core/preflight.py`, `preflight_recipe.py`, `adapters/hooks.py`, `core/header/finalize.py`) | program counter and what was read (token, reservation, deadline, snapshot revision) | run_preflight, prompt hook, Stop hook, finalize_response | kills between transactions, waiters on a killed owner, late failures, verdicts on stale evidence | all deliver one recipe; only an owner fails its turn; every call ends; a verdict rests on what it read |
| Child routing (`core/store/child_routing.py`, `core/preflight.py`) | leases, cache, usage | reserve, wait, renew (heartbeat thread), publish, abort | lease expiry while routing, waiters, parent budget and concurrency limit | a live lease is taken from nobody, budget and limit hold, a failed owner gives its lease back |
| Native-child parent scopes (same file, `server/mcp_tools.py`) | one-time receipts that bind a child preflight to its parent | create, consume, restore | crash between consume and restore; parent ends in between | consumed once, restored only after failure |
| Native child lifecycle and delegation (`core/store/native_child.py`, `core/delegation/events.py`, `core/installer_payload_openclaw.py`, `adapters/openclaw/node_bridge.py`) | receipts (`worker_runs`), work units (`delegation_events`), the memory of the OpenClaw gateway plugin | delegate, start, bind, stop, end, observe, prepare and finalize a completion, deliver, reconcile, public report | duplicated and reordered host events, bridge processes killed before or after their commit, restarts of the gateway | an outcome is said once and stays; the message that goes out is the answer of the turn, once; work unit and receipt agree |
| Resident manager binding (`core/store/resident_binding.py`, `core/resident_manager_binding.py`) | one row per session of a persistent host, the binding each run recorded | plan, claim, replan, acknowledge, replay, require a restore, retire | a claim made long after its plan; compactions, switches, interrupted and orphaned hooks in between | a model that is only referred to the kernel has it in its context; what was claimed can be rendered and acknowledged; a claim outlives its turn only to move on |
| Runtime control (`core/runtime_control.py`) | the control document, its lock file, the readers' cache | compare and replace under the lock; read through the cache | several writers, readers of a file that is replaced under them, kills and loss of power between system calls | an acknowledged change stays; a read returns a value that held; the lock is released |
| Owned processes (`core/owned_process_registry.py`, `core/stdio_lifetime.py`, `server/mcp.py`) | the roll of long-lived servers (`owned-processes.json`) | register, forget, refuse at the ceiling, `agency off`, lifetime bounds | a file read and replaced without a lock, reused process ids, a client that died silently | recorded servers stay on the roll unless it is overwritten; reports are true; abandoned servers end |
| Workforce and hiring, roster, selector | contracts, generations, caches | hire, sync, route | long transactions, generation checks | a contract belongs to one generation |
| Finalization batch, configuration persistence, initialization lock, update service | files, rows, locks | compare-and-swap writes, lock waits | crash between steps | no lost update |
| Server, dashboard, CLI, installers, adapters of single hosts, canaries, evaluations, chaos | little of their own | calls into the above | I/O | |

How they interact: a host adapter turns a prompt into `reserve_session_turn` and
`run_preflight`; that begins an attempt, routes outside any transaction and commits a
recipe (`mark_preflight_ready`); tool callbacks record evidence on the open turn; a Stop
hook reads a snapshot, validates the response outside any transaction and commits a
verdict with the revision it read (`commit_terminal_finalization`); maintenance retires
inactive turns and deletes old ones. Children run the same preflight under their own
turn, and share routes through the child routing tables of their parent. A persistent
host gets the resident-manager kernel once per context: the preflight claims its delivery
with the commit of the recipe and the Stop hook acknowledges it. A child that has ended may
become the answer of its parent turn. Every entry point first asks the
runtime control whether Agency is on, and `agency off` ends the servers on the roll.

The hazards of this code, each at its line and with the properties that watch it, are the
`hazards` of `PROJECT.json`.

## Modules

| Module | What it is |
|---|---|
| `TurnStore` | the Store: one action per transaction on the `runs` row of a turn |
| `TurnAuthority` | what the Store promises a reader: a turn is opened once, closed once, with at most one verified response, and forgotten for good |
| `TurnLifecycle` | the processes around it: extends `TurnStore`, adds callers and finalizers whose steps are Store transactions |
| `ChildRouting` | the routes that the native children of a parent turn share: leases, cache, budget, heartbeats, waiters |
| `NativeChild` | the receipts and work units of the children of one turn, plain callbacks and the OpenClaw plugin with its bridge processes |
| `ResidentBinding` | the delivery of the resident-manager kernel to one session: the row, the prompt hooks, Stop, the host, the switches |
| `MasterSwitch` | what the switch promises its writers and readers: one document that a request changes by compare and swap (the docstring of `set_master_enabled`), a confirmed change that survives a loss of power, reads of a value that held during them |
| `RuntimeControl` | the master switch as it is built: the writers' system calls under the lock and the readers' cache |
| `OwnedProcesses` | the roll of long-lived servers, their lives, and `agency off` |
| `TurnStoreProofs`, `TurnPromiseProofs` | the Store: outcomes and identities; then attempts, reservations, revisions and that it implements `TurnAuthority` |
| `TurnLifecycleProofs` | the callers and finalizers use the Store as specified, and what they tell their hosts stays true |
| `ChildRoutingProofs`, `NativeChildProofs`, `ResidentBindingProofs`, `RuntimeControlProofs`, `OwnedProcessesProofs` | the inductive invariants of these five components and their TLAPS proofs |
| `MCTurnStore`, `MCTurnLifecycle`, `MCChildRouting`, `MCNativeChild`, `MCResidentBinding`, `MCRuntimeControl`, `MCOwnedProcesses` | small instances |

`TurnLifecycle` is the composition: it extends the Store with its callers. The other five
components stand alone; the turn they belong to is reduced to what they read of it (open or not, its
answer, its status), and the switches that `ResidentBinding` reads are one step each, which
`RuntimeControl` justifies: it implements `MasterSwitch`, where a change is one step.

Some properties are conjunctions of named parts, each stated and commented in its module:

| Property | Parts |
|---|---|
| `OutcomeConsistent` | `TerminalBindingExact`, `OpenTurnConsistent`, `FailureReceiptTruth` |
| `TurnsAreDistinct` | `NoResurrection`, `SequencesDistinct` |
| `StopMeetsOneTurn` | `UniqueReservedTurn`, `ClaimedOnce` |
| `AttemptIsolated` | `EvidenceOfCurrentAttempt`, `ReadyIsOwners` |
| `AttemptsAreKept` | `ReadyIsStable`, `RetentionSparesLeases` |
| `CallersAgree` | `OneRecipePerTurn`, `FailureReleasesAttempt` |
| `ParentLimitsHold` | `BudgetHolds`, `LimitHolds` |
| `AnswersHold` | `AcknowledgedSurvives`, `NoLostUpdate`, `ResponsesConsistent` |
| `ClaimIsUsable` | `CommittedIsRendered`, `StopIsAcknowledged` |
| `ReceiptsConsistent` | `TypeOK`, `DelegationFollows` |

### TurnStore

A Store method is one `BEGIN IMMEDIATE` transaction, so one action. A method that raises or
returns a refusal writes nothing (rollback) and is a stuttering step; only its accepting
paths are actions. `Next` lets anybody call any method at any time with any token the
Store has issued: more than the adapters do, so what holds here does not depend on
callers behaving.

State and code: `runs` is the table of that name, a function from trace ids to records whose
fields are its lifecycle columns; `events` is `finalization_events` (terminal ones and
continuations); `receipts` the traces with a failure receipt; `evidence` lumps the tables
correlated to a turn, each row tagged with the attempt it was recorded under;
`specialists` the expiry states of `specialists_loaded`; `tombstones` and `turnSequence`
what survives deletion; `clock` the Store clock and `uuids` the tokens handed out. The
schema's triggers (revision, activity, turn sequence) are part of every action that
fires them (`Bump`, `NextSequence`).

Abstractions. The host column and host conflicts are left out. A recipe is identified with
the attempt that built it (`result`). Number of triggers a statement fires is
approximated by one count per action: properties use only that a revision grows. Statuses
that a caller chooses freely (`specialist_disabled`, `failed`, ...) are represented by
`"failed"`. Retention decides per table what is old; the model lets it choose any subset
(`swept`, `failed`, `old`) that the code's guards admit, which covers every window and
ranking. The Store clock does not go back.

### TurnLifecycle

A caller is one `run_preflight` invocation: from the prompt hook (reserve, then begin) or
direct (begin at once, as the MCP server does). `Begin` is `begin_preflight_attempt` with its
outcomes started, recovered, reused; `Work` everything between it and the ready commit, which
succeeds or fails for reasons not modelled (routing, hiring, continuation and binding guards);
`Read` and `ReadFails` the reading of the ready recipe by owner, reuser and waiter; `Fail` the
exact-token cleanup; `CloseDisabled` the second transaction that closes a turn whose recipe
names a disabled specialist. A hook may be killed between any two transactions (`Crash`). A
finalizer reads a snapshot and later commits, replays, is refused, asks for a
continuation or gives up. Host evidence, retention and time are the environment.

### ChildRouting

A child that needs a route computes a cache key from its parent turn and its task and calls
`reserve_child_routing`, which answers with the cached route (`ReuseCached`), asks it to wait
for another child (`Coalesce`), tells it to do without inference (`Abstain`: the budget or
the concurrency of the parent is exhausted) or grants a lease (`Grant`). The owner of a
lease routes outside any transaction (`Route`, `RouteFails`), starts a heartbeat thread,
passes the check that rejects routes without specialists (`RejectRoute` or `Guard`), builds
the rest of its preflight (`BuildFails`) and publishes (`Publish`), unless it lost its lease
meanwhile (`LosePublish`). A waiter polls until a route appears or its deadline passes
(`CacheHit`, `WaitTimeout`); it never takes the lease over.

State and code: `lease`, `cache` and `usage` are the tables `child_routing_leases`,
`child_routing_cache` and `child_routing_usage`, keyed by cache key or parent turn; 0 stands
for a missing row. A cached decision is identified with the owner token that published it.
`granted` is a history of the leases granted: a token is the index of its grant, so tokens
are fresh and ordered as the code's UUIDs are fresh. `child` holds the program counter of
each preflight and what it read, `beats` the heartbeat threads, `open` the parent turns that
retention spares.

`reserve_child_routing` and `renew_child_routing` read the wall clock before `BEGIN
IMMEDIATE`, which may wait up to `busy_timeout` (5 s) for another writer. So each is two
steps: one that reads the clock (`Arrive`, `Wake`), and a transaction that uses the reading
up to `LockWait` ticks later or fails (`LockTimeout`, `BeatDies`). The assumption `LockWait <
LeaseLength` is the code's: the shortest lease is 6 s. `Exit` is the end of the process of a
preflight, orderly or killed, in any state.

Abstractions: the polls of a waiter before a route appears are stuttering steps; a cache row
that cannot be decoded (deleted and treated as absent) is left out; the parent turn is only
open or over. A preflight tries at most `MaxTries` times: a continuation reroute or a guard
conflict calls the reservation again.

### NativeChild

One parent turn and its children. The Store part has one operator per method of
`core/store/native_child.py` on `worker` (`worker_runs`) and `delegation`
(`delegation_events`): `RecordDelegated`, `RecordStarted`, `BindLaunch`, `RecordObserved`,
`Terminated`, `Stopped`, `RecordDelivery`, `Reconcile`, and the join `Resolvable` under which
an answer of a child may become the `answer` of the turn. Statuses merge by rank (`Merged`).
Hosts with plain callbacks call these in any order and repeatedly (`Callback`); anybody may
report a status of the work unit (`Report`).

The OpenClaw plugin is `plugin`: per child what its maps hold (launching, observed end,
whether start and end were recorded), how far the completion message is, the bridge call it
waits for and the completion run. Its actions are its host callbacks (`Spawned`, `Accepted`,
`AgentEnd`, `SubagentEnded`, `Prompt`, `Message`, `Sending`, `MessageSent`, `CompletionEnd`).
Each call goes through a bridge process: `Serve` commits or is refused and the plugin
continues; `Lose` is a timeout or a lost reply, with or without the commit; calls nobody waits
for, those a loss of memory leaves behind included, are `strays`, which commit or vanish at
any later time. `Forget` is a restart of the gateway, or a reply that Agency is off, which
clears the same maps; `GatewayStart` reconciles.

Abstractions. Outcomes are ok, error and killed (the exit codes 0, 1 and the others).
`started` and `running` are treated like `delegated`. Backend, worker and run names are
reduced to whether a row names this child (`exact`). `startAgain`/`delegateAgain` are the
repetition of the first two calls by the middleware's own `post_tool_call`, which carries no
launch. Not modelled: `reconcile_native_child_ended`, which the plugin does not call; the
claims and promotions of Codex spawns; tool evidence, activation receipts and staffing.

What the model shows and no property forbids, because nothing in the code repairs it: a
public report that closes the work unit of a running OpenClaw child before its end is
observed leaves the receipt open for ever (observation, delivery and reconciliation require
the status `delegated`); a `SubagentStop` of Codex before the parent's `PostToolUse` leaves
the work unit `delegated` and the receipt unlinked; a completion prompt that meets an observation in
flight gives its run up until a restart; the second child of a turn cannot deliver once the
first has become the answer.

### ResidentBinding

`row` is the row of one session in `resident_manager_bindings`, `turns` the runs with the
binding each recorded, `hook` the prompt hook of each turn with the plan and the recipe it holds
between transactions, `host` and `context` the host session, `master` and `control` the two
switches whose generations make the epoch. A hook goes through `Begin`, `Plan`, `Commit` (claim
and ready turn in one transaction) or `CommitRefused`, `Replan`, `Read`, and on errors `Fail`,
which closes the attempt and claims what was planned first, then `Capsule` or `Silent`. The host
runs `Prompt`, `Stop`, `Interrupt`, `Timeout`, `LoseContext` (a compaction and its hook),
`SessionEnd`; `Retention` sweeps, `SwitchMaster`, `SwitchHost` and `Flicker` (an
unreadable control document) change the epoch. Hooks of interrupted prompts run on.

Abstractions. One version of the kernel is installed. The snapshot and the acknowledgement of a
Stop are one step. A compaction and its hook are one step, outside the wait for a prompt
hook; a lost PostCompact signal is not modelled, since nothing retries it. Retention may sweep
any ended turn. Direct callers and request-scoped hosts, which keep no row, are left out. What
may go wrong is chosen at the start (`failures`) from `FailureSets`, so that each property
can name the failures under which it holds: with those in `Unprinted` (error, ceiling,
timeout, unreadable) a claim may be recorded of which nothing is printed, and the claims
of turns that were closed for the inline ceiling or deleted by retention stay pinned
(`docs/` issue AR-371 describes them as released).

### RuntimeControl

A step is a system call another process can observe. `file` is the document under its path,
`durable` what a loss of power leaves, `lock` the holder of the advisory lock. A writer asks
with the generation it read (`Ask`, `Look`), takes the lock or gives up at its deadline
(`Acquire`, `Busy`), compares (`Conflict`, `Keep`), publishes (`Prepare`, `Replace`,
`FsyncParent`, `Confirm`) and leaves; each publishing step may fail (`PublishFails`) or be
the last (`Killed`). A reader stats the file (`Stat`, `ReadAbsent`), takes the cached document
and confirms it (`CacheGet`, `ConfirmHit`) or reads (`CacheMiss`, `ReadFile`, `ReadStable`), and
fails enabled when the file changed under it (`FailEnabled`). `PowerLoss` replaces `file` by
either version and ends every process. The identity of a file (inode, size, times) is a
number that every publication makes new. Left out: the per-host switches (one row, in
`ResidentBinding`), the Windows path and the permission checks of the directory.

`RuntimeControl` implements `MasterSwitch` (`ImplementsSwitch`). The mapping shows of a writer
whether it has asked, has changed the switch and what it was told (`CallOf`), and of a reader
whether it reads and what held since (`ReadOf`). The change is the rename (`Replace`), which
makes the compare and swap of `set_master_enabled` and the default of
`ensure_runtime_control_materialized` one step although the comparison is made several system
calls earlier; the flush of the directory is the save; taking the lock, the second look of the
dashboard, the temporary file and the cache are invisible; an error or a kill leaves the caller
without knowing whether its change was made. The promise is exact about one thing: a request
that finds the switch as it wants it is answered without a flush, so this answer (`kept`) does
not say that the document is saved, as a `confirmed` change does.

### OwnedProcesses

`proc` says who has each process id, `roll` is the file. Every change of the roll is a read
step and a later write step (`RegisterRead`/`RegisterWrite`, `ForgetRead`/`ForgetWrite`,
`OffBegin`/`OffReport`). The identity of a process, of which its start time is the mark, is the
number of the process among all that ever started. `Runs` says that the recorded process
itself runs; what the code concludes is `MayBeCurrent` and `Current`. On a machine where every
start time can be read when it is asked for (`legible`) the two agree. Elsewhere, on every
system without `/proc` above all, `_entry_is_current` goes by the process id alone, and each
call of it may count an entry whose id was reused or not. `Readings` is what `_read_entries`
returns: the roll, or nothing when the file cannot be opened or decoded. A signal may end
whoever has the id or be survived. `abandoned` stands for the idle timer of a server whose
client has fallen silent; the intervals of its polling are left out.

`overwritten` is a history: a write has replaced a roll that its writer had not read, because
another was written in between or because the reading had failed and was taken for an empty
roll. `RecordedUnlessOverwritten` says that recorded servers leave the roll in no other way.

What is modelled and no property forbids, because nothing in the code prevents it: after such a
write `agency off` leaves a recorded server running; where start times cannot be read, a
reused id counts against the ceiling, so that a server is refused below it
(`RefusedOnlyAtCeiling` speaks of the other machines), and `agency off` may signal a process
that has the id of an ended server, although the docstring of `terminate_owned_processes`
(`core/owned_process_registry.py:307`) excludes it; and everywhere `agency off` signals an id
without verifying its start time again (line 290), so that a process that got the id meanwhile
may be hit. `ReportIsTrue` holds in all of these cases.

## Runs

| Run | Question | Instance | Size |
|---|---|---|---|
| `turns` | do outcome, evidence, revision and identity of a turn stay consistent under every order of Store calls, and does the Store implement `TurnAuthority`? | one turn deeply (two competing requests, two responses, leases of 1 tick, clock to 4, 5 tokens, revision to 3), or two symmetric turns of one session with clock to 1, 2 tokens, revision to 3 | about 84,000 states |
| `promotion` | is a reserved turn promoted by `create_run`, as `reserve_session_turn` documents? No. | as `turns`, smaller | violation |
| `races` | who delivers and who fails a turn that two callers serve; do verdicts rest on current evidence and agree? | two callers (hook or direct), one kill, one finalizer; or one caller and two finalizers with two responses; clock to 3, 5 tokens | about 1,650,000 |
| `progress` | does every call end and every preflight settle? | two callers, one kill, fair | about 16,000 |
| `children` | is a live lease taken from nobody, does the newest route win, do budget and limit hold? | two children (symmetric), two keys of one parent up to the budget and one beyond it, budget 2, limit 1, lease 2 ticks, clock to 3, 3 grants, 2 tries | about 1,930,000 |
| `waiters` | does the preflight of every child end? | two children, one key, budget 1, clock to 2, 4 grants, 2 tries, fair | about 587,000 |
| `release` | does a failed child give its lease back, as the code's docstring says? No. | as `children`, one key, one try | violation |
| `control` | do answers stay true and reads return what held, through kills and a loss of power, and is it one atomic register (`MasterSwitch`)? | two writers, two readers, one loss of power after which one reader reads | about 548,000 |
| `processes` | what the roll says, whom it refuses, what `agency off` reports, do abandoned servers end? | two process ids, ceiling 1, three births, one `agency off`, start times readable or not, every reading of the roll may fail | about 369,000 |
| `resident` | is the kernel there when it is only referred to, and is every claim usable and released? | up to three turns, two switches, one compaction, four scenarios | about 2,230,000 |
| `resident_unsent` | was the kernel sent whenever a failing attempt claims its delivery, as the code's comment says? No. | two turns, errors only | violation |
| `native` | do receipts, work units and the completion message agree under every order of callbacks, calls and late commits? | one child of a plain or of the OpenClaw host with two failing calls of any kind (four of a delivery) and one loss of memory, or two children without failures | about 424,000 |

Why these bounds are enough. The conflicts of this code are between two: an old and a new
owner of an attempt, an owner and a waiter, a finalizer and a close, two finalizers, two
writers of a file, two children of a turn. One turn shows all of the Store's. Two turns are
needed for rotation and for what deletion does to order, three in `resident`, where the claim
of a first is moved by a second while the hook of a third runs. The clock bound lets a lease be
taken, expire, be recovered and expire again and still lets retirement (`MinInactivity` 2)
happen; five tokens cover a reservation, two attempts and two events. `MaxRevision` bounds
only recorded evidence. In `ChildRouting` a lease of two ticks
and a lock wait of one let a reservation and a renewal use a stale reading while the lease
they judge expires, a third grant lets a key change hands twice, and one more than the
budget would be a third grant. In `control` two writers contend and one loss of power can
come before or after each flush; the identities a reader compares are at most two publications
apart; after a loss all processes are new, and one reader meets whatever file was left. In
`processes` the third birth reuses an id. In `native` four losses are what all tries to report
one delivery cost, two in `message_sent` and two at the end of the run, so that the receipt
that then stays open is reached; of other calls two may fail. `DeliveredChildCloses` starts from
states in which the bound leaves room for the two losses that it excepts. One loss of memory
lets old bridge processes meet a fresh plugin. `resident` explores the calm scenario (unstaffed turns, interrupts) with three turns
and two switches, or one and the compaction; every failure except `ceiling` and `retention`;
every failure except the unprinted ones; and all of them. The last three have two turns, and
one switch where unprinted claims may be recorded.

Where a configuration has a `CONSTRAINT`, its MC module says which states it keeps: it cuts
combinations of two bounds, each of which is explored to the full without the other. In
`native` the second child runs while nothing fails and nobody else reports, and a third and a
fourth call fail only for the receipt of a sent message. In `processes` only the client of one of
the two ids, which are alike, falls silent; and the machine whose start times may be unreadable
is followed until a roll is overwritten, with clients that speak. The theorems on the
safety properties of this component make no such cut.
`CHECK_DEADLOCK FALSE` is in every configuration because the bounds, or the end of all
processes, end a behaviour: there is nothing left to call.

Fairness (`LifecycleFairness`): each caller that was not killed is a running thread and takes its
next step (weak fairness of `CallerStep`), and time passes. Arrivals, kills, evidence,
finalizers and retention are not fair. In `progress` `MaxUuids` is large enough that no
caller is refused a token by the bound, and a waiter's deadline is capped at `MaxClock` so
that the bounded clock can reach it.

In `waiters` (`FairSpec`) the same holds of a preflight that was not killed (weak fairness of
`ChildStep`; `Exit`, heartbeats, retention and the end of the parent are not fair) and of
time. `MaxGrants` is above what the tries of two children can use, so the bound refuses nobody.

In `control` a writer that holds the lock runs on (weak fairness of `Holding`): nothing in
the `with` block waits for another process; kills and failures are not fair. In `processes`
the lifetime bound is polled by a thread of its own, a server that leaves runs on, and so does
`agency off`. In `native` (`FairSpec`) the gateway ends the completion runs it started and a
bridge call returns, at its timeout at the latest.

Three findings. `create_run` on a reserved row sets `status = 'active'` and leaves
`preflight_state = 'reserved'`; the docstring of `reserve_session_turn` says that this call
promotes the reservation. The promotion is `begin_preflight_attempt`'s.

`_prepare_preflight_evidence` checks a routed result for specialists
(`core/preflight.py:1176`) after the heartbeat of its lease was started and before the guard
that releases the lease is registered (line 1185): a rejected route leaves the lease and
its heartbeat behind for as long as the process lives, while
`_abort_child_routing_bundle` promises to release it "after any preparation failure"
(line 817). Until then the lease occupies a slot of the parent's concurrency and children
with the same key, a reroute of the same preflight among them, wait for nothing.

`run_preflight` claims the planned kernel delivery when it fails for any reason
(`core/preflight.py:1736`), but only an unstaffed turn is answered with a capsule; after any other
error the hook prints `{}`. Its Stop acknowledges the claim and the next turn is
only referred to a kernel that its model never received. The comments at the claim
(`core/store/preflight.py:2308`, `core/preflight.py:919`) say that the kernel went out.

## Proofs

`TurnStoreProofs`, for all sets of turns, sessions, requests and responses and all bounds:

| Theorem | Property |
|---|---|
| `Invariance` | `IInv` below |
| `TypeCorrect` | `TypeOK` |
| `OutcomesAgree` | `OutcomeConsistent`; its parts are `OpenTurnsAreUnbound`, `BindingIsExact`, `ReceiptsAreTrue` |
| `IdentitiesAreDistinct` | `TurnsAreDistinct`; its parts are `TracesAreNotReused`, `SequencesIdentifyTurns` |
| `OutcomesAreFinal` | `TerminalIsForever` (an action property) |

Argument. `IInv` is the conjunction of the type invariant, two bounds (no row, event or
tombstone carries an id or a sequence number that was not issued) and the five safety
invariants. None of these is inductive alone: that a commit binds a fresh event needs the
bound on event ids; that it does not collide needs that open turns are unbound; that a new
row does not revive a deleted turn's events needs the tombstones. Every action is shown to have one
of three shapes: an *ordinary* step leaves events of closed turns and outcomes alone, a
*commit* adds one terminal event and binds it to one open turn, a *sweep* deletes. Each
shape preserves `IInv`; an action's lemma says only which shape it has. The assumptions used are the
named ones of `TurnStore` (`BoundsAssumption`, `LeaseAssumption`, `EmptyAssumption`).

`TurnPromiseProofs`, with the same constants:

| Theorem | Property |
|---|---|
| `PromiseInvariance` | `PInv` below |
| `AttemptsAreIsolated` | `AttemptIsolated` |
| `StopsMeetOneTurn` | `StopMeetsOneTurn` |
| `AttemptsStay` | `AttemptsAreKept` (an action property, as the next three) |
| `RevisionsFenceVerdicts` | `ChangeAdvancesRevision` |
| `AuthorityIsMonotone` | `AuthorityNeverReturns` |
| `StoreImplementsAuthority` | `ImplementsAuthority`: the Store implements `TurnAuthority` |

Argument. `PInv` adds to `IInv` how the columns of an attempt fit together
(`AttemptColumns`), that no row shows an attempt without a turn, that all event ids are
issued, one open reserved turn in a session and one claimed continuation of a turn. Again the
actions are reduced to shapes, now as a caller sees them: a turn goes on, starts an attempt,
publishes one, appears, ends or rests, and at most one event is added (`Moves`). Two parts of
`AttemptColumns` carry the weight. The lease of the attempt in progress is at most
`LeaseLength` after the last activity, so a sweep that waits for `MinInactivity` never meets a
live lease (`LeaseAssumption`); and rows of an attempt name it or the time before any
attempt, so a recovery, which takes a fresh token, shows nothing of its predecessor.
The refinement goes by turn: under the mapping of `TurnStore` every step of the Store opens a
turn, closes it with or without an answer, forgets turns that a sweep deletes, or leaves the
view as it was; it needs from `PInv` that a commit binds the one new event.

`TurnLifecycleProofs`, for all sets of callers and finalizers as well:

| Theorem | Property |
|---|---|
| `LifecycleInvariance` | `LInv` below |
| `ProcessesUseStore` | the safety part of the composition implies the specification of `TurnStore` |
| `LifecycleImplementsAuthority` | `ImplementsAuthority`, of the composition |
| `CallersAreToldOneThing` | `CallersAgree` |
| `AcceptedResponsesStay` | `AcceptedIsAuthoritative` |
| `VerdictsAreCurrent` | `VerdictOnCurrentEvidence` (an action property, as the next) |
| `OwnersFailTurns` | `OnlyOwnerFailsTurn` |

Argument. `TurnStore` alone lets its environment call any transaction at any time with any
issued token; a process of `TurnLifecycle` is one such environment if the tokens it passes
were issued and its turn and session exist. That is part of `LInv`, which consists of `PInv`
with a session for every open turn and issued tokens (`StoreInv`), the types of the records,
what the record of a caller says of its turn (`CallerFits`: the recipe it delivered is
the turn's as long as the turn is open, the attempt whose failure it reported is over), what
the record of a finalizer says (`FinalizerFits`: its snapshot is current or its
revision outdated, the response it reported as accepted is the answer of its turn or the turn
is forgotten) and `OneRecipePerTurn`. So `ProcessesUseStore`, and with it every theorem about
the Store, holds of the composition.
The proof separates the two actors of a step: whatever transaction the Store performs, the
records of the processes that do not take part stay true (`CallerStays`, `FinalizerStays`, from
`Moves` and from the lemma that closed turns keep their answers); then one lemma per
action treats the process that moves. For `OnlyOwnerFailsTurn` every transaction except the
failure and the abandonment spares open turns from that status (`Spared`). The assumptions used are
`CallsAssumption`, `WaitAssumption` and those of `TurnStore`; kills are steps like any other, and
their number is not needed.

`ChildRoutingProofs`, for all sets of children and parents, every finite set of keys, all
limits, lengths and bounds:

| Theorem | Property |
|---|---|
| `Invariance` | `IInv` of child routing |
| `TypeCorrect` | `TypeOK` |
| `BudgetIsBounded` | `BudgetHolds`, a part of `ParentLimitsHold` |
| `ConcurrencyIsBounded` | `LimitHolds`, the other part |
| `LimitsAreKept` | `ParentLimitsHold` |
| `RoutesAreMonotone` | `RoutesGetNewer` (an action property, as the next) |
| `LiveLeasesStay` | `LiveLeaseIsSafe` |

Argument. `IInv` is `TypeInv` (types, and that the clock reading of a preflight is past),
`LimitHolds`, `BudgetCounted` (the usage row of an open parent equals the number of its
grants: what a grant checks is the row, what the property counts is the history) and
`RoutesOlder` (a lease is newer than the cached route of its key, and both are no newer than
the last grant). Every step but `Grant` is *quiet*: it grants nothing, lets no lease change
hands, keeps the count of open parents, and replaces a route only by the one of a lease that
goes. A quiet step preserves `IInv`; a grant is treated on its own, with the library's facts
on cardinality. The assumptions used are `KeysAssumption`, `LimitsAssumption` and
`TimesAssumption`; that a lock wait is shorter than a lease is not needed for safety.

`NativeChildProofs`, for all sets of children, any host of each and any number of lost calls and
restarts:

| Theorem | Property |
|---|---|
| `Invariance` | `IInv` of the native children |
| `ReceiptsAgree` | `ReceiptsConsistent` |
| `SentOnce` | `SentIsFinal` |
| `OutcomesStay` | `OutcomeIsFinal` (an action property) |

Argument. `SentIsFinal` speaks of rows and of the channel, but what keeps it is what the
processes between them hold: `IInv` says of the plugin's memory that a completion it has
authorized is the answer and not yet sent, and that it reports a delivery only of an
accepted message (`Sends`), and the same of every bridge process that outlived the memory it came
from (`Reports`); of a receipt that it is delivered only if the channel took the message
(`Delivers`); of a receipt and its work unit that an exit has closed the unit it is linked to
(`Follows`). Which transactions there are is reduced to three facts: what they
may do to one receipt and work unit (`Row`), that a row tells of a delivery only when its caller
knew of it (`Tells`), and that the channel never takes back what it accepted (`Channel`). The
assumptions used are `HostsAssumption`, `BoundsAssumption` and `AnswerAssumption`.

`ResidentBindingProofs`, for any number of turns, switches and losses of context and every
choice of what may go wrong:

| Theorem | Property |
|---|---|
| `Invariance` | `IInv` of the delivery |
| `RowStaysValid` | `TypeOK`, with the integrity checks of the row |
| `ClaimsUsable` | `ClaimIsUsable` |
| `ClaimsReleased` | `ClosedClaimsAreReleased` |
| `ReferencesTrue` | `ReferenceNeedsKernel` (a temporal property) |

Argument. Of the turns only the newest is open (`TurnsHold`); hooks of earlier ones run on, but
their transactions meet a closed turn. So almost everything is said of the one hook the host
waits for (`AwaitedFits`), and of the others that their plans are of epochs that were current
once (`HookKnown`). A hook holds plans that are seconds old. What makes them safe is that an epoch
that was `Seen` and is not current will never be current again, and that a plan whose
epoch is current equals what would be planned now (`PlannedFor`). Hence a claim fails only for a
plan of a past epoch, a second plan is not older than the first, and a claim that succeeded
leaves the row as `ClaimHolds` says until the Stop (`BoundHeld`). That the kernel is in the context
(`KernelLoaded`) is inductive only while every recorded claim is printed, which is the
condition `Printing`; the run `resident_unsent` shows the code without it. The assumption used is
`BoundsAssumption`.

`RuntimeControlProofs`, for any number of writers, readers, generations and losses of power:

| Theorem | Property |
|---|---|
| `Invariance` | `IInv` of the switch |
| `TypeCorrect` | `TypeOK` |
| `AnswersAreKept` | `AnswersHold` |
| `ReadsHeld` | `ReadHeldDuring` |
| `SwitchIsAtomic` | `ImplementsSwitch`: the lock, the files and the cache implement `MasterSwitch` |

Argument. Documents are ordered by publication (`Precedes`), and whatever anyone still holds
precedes the document under the path: what the disk and the cache have (`FilesOrdered`), what
a writer has read, prepared or answered (`WriterInv`), what a reader has (`ReaderInv`). The
document a writer has prepared under the lock is the next one of that order and flips the
switch (`NextDoc`); so two acknowledged changes are different documents (`Distinct`), and a
document no newer than `durable` cannot be lost.

The refinement has one lemma per action. `ChangeSeen` needs `NextDoc`: what was compared before
the temporary file was written still holds at the rename. `ConfirmSeen` needs that the
document of a writer in the last step of its publication is both the visible and the durable
one, so that the check of the postcondition never fails; `ReturnSeen` takes the value that is
returned through the cache, from the file or on a fault from the invariant after the step. The assumption used is `NoOneAssumption`.

`OwnedProcessesProofs`, for every finite set of process ids and all bounds:

| Theorem | Property |
|---|---|
| `Invariance` | `IInv` of the roll |
| `TypeCorrect` | `TypeOK`, with one entry for a process id |
| `RecordedServersAreListed` | `RecordedUnlessOverwritten` |
| `ReportsAreTrue` | `ReportIsTrue` |
| `RefusalsAreRight` | `RefusedOnlyAtCeiling` (an action property) |

Argument. Every step lets a process id end, start anew under a number never used before, or go
on (`Evolves`); so the process of an entry, once ended, does not run again (`SoundStays`),
which is what a snapshot of the roll may rely on although it is stale. A server that is about
to write keeps the running others in its snapshot (`SnapshotInv`), and `agency off` lets go of
an entry only once its process has ended (`OffInv`). All of this is said of `Runs`, the identity of
a process, and not of what the code can see of it: entries that run are kept whatever the
reading of a start time gives (`CurrentEntries`), and a failed reading is a snapshot that is
empty, of which the same holds. Only `RefusalsAreRight` needs `legible`: then the entries that
count inject into the recorded servers (`CountedAreServers`), which bounds the count of
`refuse_beyond_ceiling`. The assumptions used are `CeilingAssumption` and `PidsAssumption`.

Only model-checked. Every safety invariant and every action property that a passing run
checks, and the refinements of `TurnAuthority` and `MasterSwitch`, are theorems. What stays with TLC is liveness
under fairness (`CallersTerminate`, `PreflightSettles`, `ChildrenEnd`, `LockReleased`, `AbandonedEnds`, `DeliveredChildCloses`), because TLAPS reasons neither about
fairness nor about `ENABLED`, and the three runs that expect a violation, which are
counterexamples and not proofs.

## Not modelled

See the components of `PROJECT.json` with status `not_modelled`: content (scoring, rendering,
prompts), operating-system behaviour (process control, installers), read-only views. Of the
modelled parts: schema migration, the content of evidence rows, the guards on
continuation and turn context (a nondeterministic failure of `Work`), and what the sections
above name. The hazards of `PROJECT.json` without a property carry the reason.

## Plan

1. Turn store, its abstraction, the lifecycle around it, the first proofs (done); child routing
   with its heartbeats and waiters, and its safety proofs (done).
2. Runtime control, owned processes, resident manager binding, native children (done).
3. Proofs of the safety properties of all seven components and of the refinements of
   `TurnAuthority`, by the Store alone and among its callers, and of `MasterSwitch` (done); liveness stays with TLC.
4. Parent scopes, composed with the turns of parent and child. The MCP server consumes and
   restores them; nothing under `src/agency_runtime` creates one yet.
5. Continuation and turn-context guards; per-table retention windows; finalization batch.
6. Hiring cases and contracts; activation receipts and the delegation graph; roster generations;
   configuration compare-and-swap; initialization lock; update service.
