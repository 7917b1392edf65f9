---------------------------- MODULE OwnedProcesses ----------------------------
(***************************************************************************)
(* The roll of the long-lived processes Agency owns                        *)
(* (core/owned_process_registry.py), the stdio servers that write          *)
(* themselves into it and out of it (server/mcp.py run_stdio,              *)
(* core/stdio_lifetime.py), and `agency off`, which ends the recorded      *)
(* processes (terminate_owned_processes).                                  *)
(*                                                                         *)
(* The roll is one JSON file, read and replaced as a whole and never       *)
(* locked: every change of it is a read step and a later write step.       *)
(* Process ids are reused: the entry of a process carries the start time,  *)
(* modelled as the number of the process among all that ever started.      *)
(* Where start times cannot be read the code goes by the process id alone, *)
(* and a roll that cannot be read is taken for an empty one.               *)
(***************************************************************************)
EXTENDS Naturals, FiniteSets

CONSTANTS
    Pids,               \* process ids of the machine
    Ceiling,            \* MAX_LIVE_OWNED_PROCESSES
    MaxBirths,          \* bound on the processes that ever start
    MaxOffs             \* bound on the runs of `agency off`

ASSUME CeilingAssumption == Ceiling \in Nat \ {0}
ASSUME PidsAssumption == IsFiniteSet(Pids)

VARIABLES
    proc,               \* who has each process id
    roll,               \* the entries of owned-processes.json
    off,                \* the run of `agency off`
    births,             \* processes started so far
    offs,               \* runs of `agency off` so far
    legible,            \* every start time can be read, on this machine
    overwritten         \* history: a roll its writer had not read was replaced

vars == <<proc, roll, off, births, offs, legible, overwritten>>

Entry == [pid : Pids, born : Nat]

Phases == {"check", "read", "write", "serving", "leaving", "forget"}
Process == [kind : {"free", "stranger", "server"}, born : Nat,
            pc : Phases \cup {"none"},
            snapshot : SUBSET Entry,    \* the roll as this process read it
            entries : SUBSET Entry,     \* the entries of it that it keeps
            recorded : BOOLEAN,         \* register_process returned True
            abandoned : BOOLEAN]        \* the client is silent, the pipe open

Nobody == [kind |-> "free", born |-> 0, pc |-> "none", snapshot |-> {},
           entries |-> {}, recorded |-> FALSE, abandoned |-> FALSE]

NoOff == [pc |-> "idle", base |-> {}, todo |-> {}, current |-> {}, ended |-> {},
          failed |-> {}]
Off == [pc : {"idle", "roll", "verified", "termed", "killed", "report"},
        base : SUBSET Entry,            \* the roll it has read
        todo : SUBSET Entry,            \* entries not yet looked at
        current : SUBSET Entry,         \* the entry it is ending
        ended : SUBSET Entry, failed : SUBSET Entry]

Init ==
    /\ proc = [p \in Pids |-> Nobody]
    /\ roll = {}
    /\ off = NoOff
    /\ births = 0
    /\ offs = 0
    /\ legible \in BOOLEAN
    /\ overwritten = FALSE

Self(p) == [pid |-> p, born |-> proc[p].born]

\* process_is_alive: the process id is in use.
Alive(p) == proc[p].kind # "free"

\* The process that was recorded still runs.
Runs(e) == Alive(e.pid) /\ proc[e.pid].born = e.born

\* _entry_is_current may hold: where a start time is not known, when the entry
\* was written or now, it is enough that the id is in use.
MayBeCurrent(e) == Alive(e.pid) /\ (Runs(e) \/ ~legible)

\* What _entry_is_current may leave of some entries; each call of it may or
\* may not get at the start time.
Current(entries) ==
    {E \in SUBSET {e \in entries : MayBeCurrent(e)} :
        \A e \in entries : Runs(e) => e \in E}

\* What _read_entries may return: a roll that cannot be opened or decoded, or
\* is not one, is read as empty.
Readings == {roll, {}}

IsServer(p, pc) == proc[p].kind = "server" /\ proc[p].pc = pc

Servers == {p \in Pids : proc[p].kind = "server"}

\* The servers that serve and were told that they are on the roll.
RecordedServers == {Self(p) : p \in {q \in Servers :
                                        proc[q].pc = "serving" /\ proc[q].recorded}}

\* os.replace of the roll by a process that has read it as `base`.
WriteRoll(base, entries) ==
    /\ roll' = entries
    /\ overwritten' = (overwritten \/ roll # base)
    /\ UNCHANGED legible

-----------------------------------------------------------------------------
(* The machine *)

Begin(p, kind, pc) ==
    /\ ~Alive(p)
    /\ births < MaxBirths
    /\ births' = births + 1
    /\ proc' = [proc EXCEPT ![p] = [Nobody EXCEPT !.kind = kind, !.born = births + 1,
                                                  !.pc = pc]]
    /\ UNCHANGED <<roll, off, offs, legible, overwritten>>

\* An unrelated program gets a free process id.
StartStranger(p) == Begin(p, "stranger", "none")

\* A host starts a stdio server.
StartServer(p) == Begin(p, "server", "check")

Gone(p) == proc' = [proc EXCEPT ![p] = Nobody]

\* A process ends by itself, or is killed by the user or the system: a server
\* then leaves its entry behind (so does one that refuses an oversized line, or
\* that cannot write the roll when it forgets itself).
Exit(p) ==
    /\ Alive(p)
    /\ Gone(p)
    /\ UNCHANGED <<roll, off, births, offs, legible, overwritten>>

-----------------------------------------------------------------------------
(* run_stdio *)

\* Mutant: every entry counts.
CountedEntries == {roll}

\* live_processes.
Counted == UNION {Current(read) : read \in Readings}

\* refuse_beyond_ceiling.
Refuse(p) ==
    /\ IsServer(p, "check")
    /\ \E counted \in Counted : Cardinality(counted) >= Ceiling
    /\ Gone(p)
    /\ UNCHANGED <<roll, off, births, offs, legible, overwritten>>

PassCeiling(p) ==
    /\ IsServer(p, "check")
    /\ \E counted \in Counted : Cardinality(counted) < Ceiling
    /\ proc' = [proc EXCEPT ![p].pc = "read"]
    /\ UNCHANGED <<roll, off, births, offs, legible, overwritten>>

\* Mutant: an older entry of this id is kept.
KeptAll(p, entries) == Current(entries)

\* Entries of this id are replaced, entries of processes that ended dropped.
Kept(p, entries) == Current({e \in entries : e.pid # p})

\* register_process reads the roll.
RegisterRead(p) ==
    /\ IsServer(p, "read")
    /\ \E read \in Readings : \E kept \in Kept(p, read) :
           proc' = [proc EXCEPT ![p].pc = "write", ![p].snapshot = read,
                                ![p].entries = kept]
    /\ UNCHANGED <<roll, off, births, offs, legible, overwritten>>

RegisterWrite(p) ==
    /\ IsServer(p, "write")
    /\ WriteRoll(proc[p].snapshot, proc[p].entries \cup {Self(p)})
    /\ proc' = [proc EXCEPT ![p].pc = "serving", ![p].recorded = TRUE,
                            ![p].snapshot = {}, ![p].entries = {}]
    /\ UNCHANGED <<off, births, offs>>

\* A roll that cannot be written never stops a server from serving.
RegisterFails(p) ==
    /\ IsServer(p, "write")
    /\ proc' = [proc EXCEPT ![p].pc = "serving", ![p].snapshot = {}, ![p].entries = {}]
    /\ UNCHANGED <<roll, off, births, offs, legible, overwritten>>

\* The client keeps the pipe open and never speaks again.
Abandon(p) ==
    /\ IsServer(p, "serving")
    /\ ~proc[p].abandoned
    /\ proc' = [proc EXCEPT ![p].abandoned = TRUE]
    /\ UNCHANGED <<roll, off, births, offs, legible, overwritten>>

\* Mutant: only the parent is watched, and the parent lives.
ExpiredWithParent(p) == proc[p].abandoned /\ proc[p].kind = "free"

\* expired_reason: the idle timeout passes (a parent that has exited is a
\* client that is gone as well).
Expired(p) == proc[p].abandoned

\* Forgetting begins when the client closes the pipe or the lifetime bound
\* expires.
Leave(p) ==
    /\ IsServer(p, "serving")
    /\ Expired(p) \/ ~proc[p].abandoned
    /\ proc' = [proc EXCEPT ![p].pc = "leaving"]
    /\ UNCHANGED <<roll, off, births, offs, legible, overwritten>>

\* Mutant: the roll is emptied.
ForgottenAll(p, entries) == {e \in entries : e.pid = p /\ e.born # proc[p].born}

Forgotten(p, entries) == {e \in entries : e.pid # p}

\* forget_process reads the roll.
ForgetRead(p) ==
    /\ IsServer(p, "leaving")
    /\ \E read \in Readings :
           proc' = [proc EXCEPT ![p].pc = "forget", ![p].snapshot = read,
                                ![p].entries = Forgotten(p, read)]
    /\ UNCHANGED <<roll, off, births, offs, legible, overwritten>>

\* forget_process replaces the roll and the process ends.
ForgetWrite(p) ==
    /\ IsServer(p, "forget")
    /\ WriteRoll(proc[p].snapshot, proc[p].entries)
    /\ Gone(p)
    /\ UNCHANGED <<off, births, offs>>

-----------------------------------------------------------------------------
(* terminate_owned_processes *)

OffBegin ==
    /\ off.pc = "idle"
    /\ offs < MaxOffs
    /\ offs' = offs + 1
    /\ \E read \in Readings :
           off' = [NoOff EXCEPT !.pc = "roll", !.base = read, !.todo = read]
    /\ UNCHANGED <<proc, roll, births, legible, overwritten>>

\* An entry of a process that ended, or whose id is seen to be reused, is
\* dropped.
OffSkip(e) ==
    /\ off.pc = "roll" /\ e \in off.todo
    /\ ~Runs(e)
    /\ off' = [off EXCEPT !.todo = @ \ {e}]
    /\ UNCHANGED <<proc, roll, births, offs, legible, overwritten>>

\* Where start times are not known this may be an entry whose id was reused.
OffVerify(e) ==
    /\ off.pc = "roll" /\ e \in off.todo
    /\ MayBeCurrent(e)
    /\ off' = [off EXCEPT !.pc = "verified", !.todo = @ \ {e}, !.current = {e}]
    /\ UNCHANGED <<proc, roll, births, offs, legible, overwritten>>

\* os.kill signals whoever has the id now; a process may outlive the signal.
Signal(p) ==
    proc' \in {[proc EXCEPT ![p] = Nobody], proc}

OffTerm(e) ==
    /\ off.pc = "verified" /\ e \in off.current
    /\ off' = [off EXCEPT !.pc = "termed"]
    /\ Signal(e.pid)
    /\ UNCHANGED <<roll, births, offs, legible, overwritten>>

\* process_is_alive stays true for two seconds.
OffKill(e) ==
    /\ off.pc = "termed" /\ e \in off.current
    /\ Alive(e.pid)
    /\ off' = [off EXCEPT !.pc = "killed"]
    /\ Signal(e.pid)
    /\ UNCHANGED <<roll, births, offs, legible, overwritten>>

\* Mutant: a signal that was sent is taken for an end.
SeenSignalled(e) == e \in off.current

SeenGone(e) == ~Alive(e.pid)

OffEnded(e) ==
    /\ off.pc \in {"termed", "killed"} /\ e \in off.current
    /\ SeenGone(e)
    /\ off' = [off EXCEPT !.pc = "roll", !.current = {}, !.ended = @ \cup {e}]
    /\ UNCHANGED <<proc, roll, births, offs, legible, overwritten>>

OffFailed(e) ==
    /\ off.pc = "killed" /\ e \in off.current
    /\ ~SeenGone(e)
    /\ off' = [off EXCEPT !.pc = "roll", !.current = {}, !.failed = @ \cup {e}]
    /\ UNCHANGED <<proc, roll, births, offs, legible, overwritten>>

\* The processes that could not be ended stay on the roll; what was done is
\* reported also when the roll cannot be written.
OffReport ==
    /\ off.pc = "roll" /\ off.todo = {}
    /\ \/ WriteRoll(off.base, off.failed)
       \/ UNCHANGED <<roll, legible, overwritten>>
    /\ off' = [off EXCEPT !.pc = "report"]
    /\ UNCHANGED <<proc, births, offs>>

OffReturn ==
    /\ off.pc = "report"
    /\ off' = NoOff
    /\ UNCHANGED <<proc, roll, births, offs, legible, overwritten>>

-----------------------------------------------------------------------------

ServerNext(p) ==
    \/ Refuse(p) \/ PassCeiling(p) \/ RegisterRead(p) \/ RegisterWrite(p)
    \/ RegisterFails(p) \/ Abandon(p) \/ Leave(p) \/ ForgetRead(p) \/ ForgetWrite(p)

EndEntry(e) ==
    \/ OffSkip(e) \/ OffVerify(e) \/ OffTerm(e) \/ OffKill(e) \/ OffEnded(e) \/ OffFailed(e)

OffNext ==
    \/ OffBegin \/ OffReport \/ OffReturn
    \/ \E e \in off.todo \cup off.current : EndEntry(e)

Next ==
    \/ \E p \in Pids : StartStranger(p) \/ StartServer(p) \/ Exit(p) \/ ServerNext(p)
    \/ OffNext

\* A lifetime bound is polled by a thread of its own; a server that leaves
\* and a run of `agency off` execute on.
Spec ==
    /\ Init /\ [][Next]_vars
    /\ \A p \in Pids :
           /\ WF_vars(Leave(p) /\ proc[p].abandoned)
           /\ WF_vars(ForgetRead(p)) /\ WF_vars(ForgetWrite(p))
    /\ WF_vars(OffReport \/ \E e \in off.todo \cup off.current : EndEntry(e))

-----------------------------------------------------------------------------
(* Properties *)

\* The process table, the roll and the run of `agency off` are well formed, and
\* the roll has one entry for a process id: a reader keeps only the first, so
\* a stale entry would hide the server that has the id now.
TypeOK ==
    /\ proc \in [Pids -> Process]
    /\ roll \subseteq Entry
    /\ off \in Off
    /\ births \in Nat /\ offs \in Nat /\ legible \in BOOLEAN
    /\ overwritten \in BOOLEAN
    /\ \A e, f \in roll : e.pid = f.pid => e = f

\* Every server that was told it is recorded is on the roll, unless a roll was
\* replaced that its writer had not read: because another was written in
\* between, or because the reading had failed and was taken for an empty roll.
\* That start times are not known loses nobody.
RecordedUnlessOverwritten ==
    ~overwritten => RecordedServers \subseteq roll

\* Where start times can be read, a server is refused only when as many other
\* owned servers as the ceiling allows are alive: entries of ended servers and
\* of reused ids do not count, whatever was overwritten or read wrong. (Where
\* they cannot be read, an entry whose id is in use again counts.)
RefusedOnlyAtCeiling ==
    [][\A p \in Pids : Refuse(p) /\ legible =>
           Cardinality({q \in Servers \ {p} : proc[q].recorded}) >= Ceiling]_vars

\* What `agency off` reports is so, with or without start times: each recorded
\* process it reports as ended has ended, and none of those it read is left
\* running that it does not report as failed.
ReportIsTrue ==
    off.pc = "report" =>
        /\ \A e \in off.ended : ~Runs(e)
        /\ \A e \in off.base \ off.failed : ~Runs(e)

\* A server whose client has gone silent ends, whatever became of its entry.
AbandonedEnds ==
    \A p \in Pids : \A n \in 1..MaxBirths :
        proc[p].born = n /\ proc[p].abandoned ~> proc[p].born # n
=============================================================================
