---------------------------- MODULE RuntimeControl ----------------------------
(***************************************************************************)
(* The durable master switch of core/runtime_control.py: the document      *)
(* ~/.agency-runtime/run/control.json, the writers that change it under an *)
(* exclusive advisory lock (set_master_enabled of the CLI and of the       *)
(* dashboard, ensure_runtime_control_materialized of the installer), and   *)
(* the enforcement readers of a long-lived process, which share a cache    *)
(* validated by the identity of the file.                                  *)
(*                                                                         *)
(* A step is one system call that other processes can observe: opening the *)
(* lock, renaming the temporary file over the target, fsync of the         *)
(* directory, an lstat, the read of the file.  What happens to the private *)
(* temporary file before the rename is one step (it is complete and synced *)
(* when it becomes visible).  Writers can be killed, and the machine can   *)
(* lose power: then the directory holds either the visible document or the *)
(* one that was last synced.                                               *)
(***************************************************************************)
EXTENDS Naturals

CONSTANTS
    Writers,            \* invocations that change the switch
    Readers,            \* threads of one process that read it
    NoOne,              \* the lock has no holder
    MaxLosses           \* bound on the losses of power

ASSUME NoOneAssumption == NoOne \notin Writers
ASSUME LossesAssumption == MaxLosses \in Nat

VARIABLES
    file,               \* the document under the target path
    durable,            \* the document that survives a loss of power
    lock,               \* the holder of .control.json.lock
    writer,             \* the local state of each writer
    reader,             \* the local state of each reader
    cache,              \* _state_cache of the readers' process
    losses              \* losses of power so far

vars == <<file, durable, lock, writer, reader, cache, losses>>

\* A document and the identity of its file: id stands for the metadata
\* (inode, size, mtime, ctime) that every publication makes new.
Doc == [id : Nat, enabled : BOOLEAN, gen : Nat]

\* A document that does not exist reads as the default: enabled, generation 0.
AbsentDoc == [id |-> 0, enabled |-> TRUE, gen |-> 0]

Exists(d) == d.id # 0

Kinds == {"cli", "dashboard", "install"}
Locked == {"locked", "prepared", "replaced", "synced"}
Ended == {"done", "conflict", "busy", "failed", "dead"}

Writer == [pc : {"idle", "asked", "looked"} \cup Locked \cup Ended,
           kind : Kinds,
           want : BOOLEAN,      \* the requested value
           base : Doc,          \* the document the request was based on
           before : Doc,        \* the document a handler read before it asked
           doc : Doc,           \* the document it publishes or answers with
           published : BOOLEAN] \* it replaced the target

IdleWriter == [pc |-> "idle", kind |-> "cli", want |-> TRUE, base |-> AbsentDoc,
               before |-> AbsentDoc, doc |-> AbsentDoc, published |-> FALSE]

Reader == [pc : {"idle", "stat", "hit", "miss", "read", "done"},
           before : Nat,        \* identity at the first lstat
           doc : Doc,           \* the document read, from the file or the cache
           result : BOOLEAN,    \* the value the caller enforces
           seen : SUBSET BOOLEAN] \* the values that held since the read began

IdleReader == [pc |-> "idle", before |-> 0, doc |-> AbsentDoc, result |-> TRUE,
               seen |-> {}]

Init ==
    /\ file = AbsentDoc
    /\ durable = AbsentDoc
    /\ lock = NoOne
    /\ writer = [w \in Writers |-> IdleWriter]
    /\ reader = [r \in Readers |-> IdleReader]
    /\ cache = AbsentDoc
    /\ losses = 0

Reading(r) == reader[r].pc \notin {"idle", "done"}

-----------------------------------------------------------------------------
(* Writers *)

\* The caller reads the document its request is based on: the command line
\* just before the request, the dashboard when the page was rendered.
Ask(w) ==
    /\ writer[w].pc = "idle"
    /\ \E kind \in Kinds, want \in BOOLEAN :
           /\ kind = "install" => want
           /\ writer' = [writer EXCEPT ![w] = [@ EXCEPT
                  !.pc = IF kind = "dashboard" THEN "asked" ELSE "looked",
                  !.kind = kind, !.want = want, !.base = file]]
    /\ UNCHANGED <<file, durable, lock, reader, cache, losses>>

\* _handle_runtime_toggle reads the switch again before it asks for the change.
Look(w) ==
    /\ writer[w].pc = "asked"
    /\ writer' = [writer EXCEPT ![w] = [@ EXCEPT !.pc = "looked", !.before = file]]
    /\ UNCHANGED <<file, durable, lock, reader, cache, losses>>

\* Mutant: the lock does not exclude.
LockIsShared == lock \in Writers \cup {NoOne}

LockIsFree == lock = NoOne

Acquire(w) ==
    /\ writer[w].pc = "looked"
    /\ LockIsFree
    /\ lock' = w
    /\ writer' = [writer EXCEPT ![w].pc = "locked"]
    /\ UNCHANGED <<file, durable, reader, cache, losses>>

\* The deadline of _control_lock passes while another process holds the lock.
Busy(w) ==
    /\ writer[w].pc = "looked"
    /\ lock # NoOne
    /\ writer' = [writer EXCEPT ![w].pc = "busy"]
    /\ UNCHANGED <<file, durable, lock, reader, cache, losses>>

\* Mutant: an exception skips the release.
LeaveOnReturn(w, pc) ==
    /\ lock' = IF pc = "done" THEN NoOne ELSE lock
    /\ writer' = [writer EXCEPT ![w].pc = pc]

\* The with-block of _control_lock ends, also through an exception.
Leave(w, pc) ==
    /\ lock' = NoOne
    /\ writer' = [writer EXCEPT ![w].pc = pc]

\* Mutant: the lock is taken to be enough.
LastComesWins(w) == TRUE

Expected(w) == writer[w].kind = "install" \/ writer[w].base.gen = file.gen

\* A switch that has the wanted value, or a document that exists, is kept.
IsNoop(w) ==
    IF writer[w].kind = "install" THEN Exists(file)
    ELSE file.enabled = writer[w].want

NextGeneration(w) == IF writer[w].kind = "install" THEN 0 ELSE file.gen + 1

Conflict(w) ==
    /\ writer[w].pc = "locked"
    /\ ~Expected(w)
    /\ Leave(w, "conflict")
    /\ UNCHANGED <<file, durable, reader, cache, losses>>

Keep(w) ==
    /\ writer[w].pc = "locked"
    /\ Expected(w) /\ IsNoop(w)
    /\ lock' = NoOne
    /\ writer' = [writer EXCEPT ![w] = [@ EXCEPT !.pc = "done", !.doc = file]]
    /\ UNCHANGED <<file, durable, reader, cache, losses>>

\* The temporary file is written and synced.
Prepare(w) ==
    /\ writer[w].pc = "locked"
    /\ Expected(w) /\ ~IsNoop(w)
    /\ writer' = [writer EXCEPT ![w] = [@ EXCEPT
           !.pc = "prepared",
           !.doc = [id |-> file.id + 1, enabled |-> writer[w].want,
                    gen |-> NextGeneration(w)]]]
    /\ UNCHANGED <<file, durable, lock, reader, cache, losses>>

\* Every read under way has now seen one more value of the switch.
Observe(d) ==
    reader' = [r \in Readers |->
                  IF Reading(r)
                  THEN [reader[r] EXCEPT !.seen = @ \cup {d.enabled}]
                  ELSE reader[r]]

Replace(w) ==
    /\ writer[w].pc = "prepared"
    /\ file' = writer[w].doc
    /\ Observe(writer[w].doc)
    /\ writer' = [writer EXCEPT ![w] = [@ EXCEPT !.pc = "replaced", !.published = TRUE]]
    /\ UNCHANGED <<durable, lock, cache, losses>>

\* Mutant: the directory is not synced.
FsyncSkipped(w) ==
    /\ writer[w].pc = "replaced"
    /\ writer' = [writer EXCEPT ![w].pc = "synced"]
    /\ UNCHANGED <<file, durable, lock, reader, cache, losses>>

FsyncParent(w) ==
    /\ writer[w].pc = "replaced"
    /\ durable' = file
    /\ writer' = [writer EXCEPT ![w].pc = "synced"]
    /\ UNCHANGED <<file, lock, reader, cache, losses>>

\* The document is read back under the lock and compared.
Confirm(w) ==
    /\ writer[w].pc = "synced"
    /\ Leave(w, IF file = writer[w].doc THEN "done" ELSE "failed")
    /\ UNCHANGED <<file, durable, reader, cache, losses>>

\* A system call of the publication fails; what was renamed stays.
PublishFails(w) ==
    /\ writer[w].pc \in {"locked", "prepared", "replaced", "synced"}
    /\ Leave(w, "failed")
    /\ UNCHANGED <<file, durable, reader, cache, losses>>

\* The process is killed: the system releases its lock.
Killed(w) ==
    /\ writer[w].pc \notin Ended \cup {"idle"}
    /\ lock' = IF lock = w THEN NoOne ELSE lock
    /\ writer' = [writer EXCEPT ![w].pc = "dead"]
    /\ UNCHANGED <<file, durable, reader, cache, losses>>

-----------------------------------------------------------------------------
(* Readers: read_enforcement_runtime_control *)

\* A missing document is the default.
ReadAbsent(r) ==
    /\ reader[r].pc = "idle"
    /\ ~Exists(file)
    /\ reader' = [reader EXCEPT ![r] = [IdleReader EXCEPT
           !.pc = "done", !.result = TRUE, !.seen = {file.enabled}]]
    /\ UNCHANGED <<file, durable, lock, writer, cache, losses>>

Stat(r) ==
    /\ reader[r].pc = "idle"
    /\ Exists(file)
    /\ reader' = [reader EXCEPT ![r] = [IdleReader EXCEPT
           !.pc = "stat", !.before = file.id, !.seen = {file.enabled}]]
    /\ UNCHANGED <<file, durable, lock, writer, cache, losses>>

\* Mutant: the cache is keyed by the path alone.
CacheOfPath(r) == cache.id # 0

CacheMatches(r) == cache.id = reader[r].before

CacheGet(r) ==
    /\ reader[r].pc = "stat"
    /\ CacheMatches(r)
    /\ reader' = [reader EXCEPT ![r] = [@ EXCEPT !.pc = "hit", !.doc = cache]]
    /\ UNCHANGED <<file, durable, lock, writer, cache, losses>>

\* No entry, an entry of another file, or a directory that has changed since.
CacheMiss(r) ==
    /\ reader[r].pc = "stat"
    /\ reader' = [reader EXCEPT ![r].pc = "miss"]
    /\ UNCHANGED <<file, durable, lock, writer, cache, losses>>

\* The second lstat: the cached document is returned only for the same file.
ConfirmHit(r) ==
    /\ reader[r].pc = "hit"
    /\ reader' = IF file.id = reader[r].before
                 THEN [reader EXCEPT ![r] = [@ EXCEPT !.pc = "done",
                                                      !.result = reader[r].doc.enabled]]
                 ELSE [reader EXCEPT ![r].pc = "miss"]
    /\ UNCHANGED <<file, durable, lock, writer, cache, losses>>

ReadFile(r) ==
    /\ reader[r].pc = "miss"
    /\ reader' = [reader EXCEPT ![r] = [@ EXCEPT !.pc = "read", !.doc = file]]
    /\ UNCHANGED <<file, durable, lock, writer, cache, losses>>

Unchanged(r) == file.id = reader[r].before

ReadStable(r) ==
    /\ reader[r].pc = "read"
    /\ Unchanged(r)
    /\ cache' = reader[r].doc
    /\ reader' = [reader EXCEPT ![r] = [@ EXCEPT !.pc = "done",
                                                 !.result = reader[r].doc.enabled]]
    /\ UNCHANGED <<file, durable, lock, writer, losses>>

\* "changed during read" is a fault, and a fault enforces the enabled state.
FailEnabled(r) ==
    /\ reader[r].pc = "read"
    /\ ~Unchanged(r)
    /\ reader' = [reader EXCEPT ![r] = [@ EXCEPT !.pc = "done", !.result = TRUE]]
    /\ UNCHANGED <<file, durable, lock, writer, cache, losses>>

\* The caller has used the value.
Used(r) ==
    /\ reader[r].pc = "done"
    /\ reader' = [reader EXCEPT ![r] = IdleReader]
    /\ UNCHANGED <<file, durable, lock, writer, cache, losses>>

-----------------------------------------------------------------------------

\* The machine loses power: every process ends, and of a rename that was not
\* synced either result may be found.
PowerLoss ==
    /\ losses < MaxLosses
    /\ losses' = losses + 1
    /\ file' \in {file, durable}
    /\ durable' = file'
    /\ lock' = NoOne
    /\ writer' = [w \in Writers |->
                     IF writer[w].pc \in Ended \cup {"idle"} THEN writer[w]
                     ELSE [writer[w] EXCEPT !.pc = "dead"]]
    /\ reader' = [r \in Readers |-> IdleReader]
    /\ cache' = AbsentDoc

WriterNext(w) ==
    \/ Ask(w) \/ Look(w) \/ Acquire(w) \/ Busy(w) \/ Conflict(w) \/ Keep(w)
    \/ Prepare(w) \/ Replace(w) \/ FsyncParent(w) \/ Confirm(w)
    \/ PublishFails(w) \/ Killed(w)

ReaderNext(r) ==
    \/ ReadAbsent(r) \/ Stat(r) \/ CacheGet(r) \/ CacheMiss(r) \/ ConfirmHit(r)
    \/ ReadFile(r) \/ ReadStable(r) \/ FailEnabled(r) \/ Used(r)

Next ==
    \/ \E w \in Writers : WriterNext(w)
    \/ \E r \in Readers : ReaderNext(r)
    \/ PowerLoss

\* A writer that has the lock runs on until it leaves: nothing in the
\* with-block waits for another process.
Holding(w) ==
    \/ Conflict(w) \/ Keep(w) \/ Prepare(w) \/ Replace(w) \/ FsyncParent(w) \/ Confirm(w)

Spec ==
    /\ Init /\ [][Next]_vars
    /\ \A w \in Writers : WF_vars(Holding(w))

-----------------------------------------------------------------------------
(* Properties *)

\* The state of the switch, the lock, the writers and the readers is well
\* formed, and the lock is held by a writer between Acquire and Leave only.
TypeOK ==
    /\ file \in Doc /\ durable \in Doc /\ cache \in Doc
    /\ lock \in Writers \cup {NoOne}
    /\ writer \in [Writers -> Writer]
    /\ reader \in [Readers -> Reader]
    /\ losses \in Nat
    /\ \A w \in Writers : writer[w].pc \in Locked <=> lock = w

\* Every enforcement read returns a value the switch had at some time during
\* the read, through the cache, from the file, or by failing enabled when the
\* file changed under the reader (which is right only because a publication
\* always flips the value).
ReadHeldDuring ==
    \A r \in Readers : reader[r].pc = "done" => reader[r].result \in reader[r].seen

\* The caller was told that its request has changed the document.
Acknowledged(w) == writer[w].pc = "done" /\ writer[w].published

\* A change that was acknowledged to its caller is undone only by a later
\* change, also when power is lost.
AcknowledgedSurvives ==
    \A w \in Writers : Acknowledged(w) =>
        /\ file.gen >= writer[w].doc.gen
        /\ file.gen = writer[w].doc.gen => file.enabled = writer[w].doc.enabled

\* Two acknowledged changes never produce the same document: no update is lost.
NoLostUpdate ==
    \A v, w \in Writers :
        v # w /\ Acknowledged(v) /\ Acknowledged(w) => writer[v].doc # writer[w].doc

\* The answers of the callers are right: the consistency check of the command
\* line never fails, and the dashboard, which compares the answer with a document
\* it read outside the lock, reports "changed" exactly when its own request
\* changed it (or when the installer materialized the default in between).
ResponsesConsistent ==
    \A w \in Writers : writer[w].pc = "done" =>
        /\ writer[w].kind = "cli" =>
               /\ writer[w].doc.enabled = writer[w].want
               /\ writer[w].doc.gen = writer[w].base.gen
                      + (IF writer[w].base.enabled = writer[w].want THEN 0 ELSE 1)
        /\ writer[w].kind = "dashboard" =>
               IF writer[w].published THEN writer[w].doc # writer[w].before
               ELSE Exists(writer[w].before) => writer[w].doc = writer[w].before

\* What a caller was answered stays true of the document: its change is not
\* lost to another writer nor to a loss of power, and is reported as its own.
AnswersHold == AcknowledgedSurvives /\ NoLostUpdate /\ ResponsesConsistent

\* The lock is released again, also by writers that fail or are killed.
LockReleased == lock # NoOne ~> lock = NoOne

-----------------------------------------------------------------------------
(* RuntimeControl implements MasterSwitch.                                 *)

\* What a writer can be said to have been told, by its local state q: its
\* change is made when the document appears under the target path.
StateOf(q) ==
    CASE q.pc = "idle" -> "none"
      [] q.pc \in {"asked", "looked", "locked", "prepared"} -> "asked"
      [] q.pc \in {"replaced", "synced"} -> "changed"
      [] q.pc = "done" -> IF q.published THEN "confirmed" ELSE "kept"
      [] q.pc = "conflict" -> "refused"
      [] OTHER -> "unknown"

CallOf(q) ==
    [state |-> StateOf(q), kind |-> q.kind, want |-> q.want, base |-> q.base,
     doc |-> IF StateOf(q) \in {"changed", "confirmed", "kept"} THEN q.doc ELSE AbsentDoc]

ReadOf(q) ==
    [state |-> CASE q.pc = "idle" -> "none"
                 [] q.pc = "done" -> "done"
                 [] OTHER -> "reading",
     result |-> q.result, seen |-> q.seen]

Switch == INSTANCE MasterSwitch
    WITH switch <- file, saved <- durable,
         call <- [w \in Writers |-> CallOf(writer[w])],
         read <- [r \in Readers |-> ReadOf(reader[r])]

\* The lock, the two looks of the dashboard, the temporary file, the flush of
\* the directory, the cache and the double lstat amount to one atomic register:
\* a change is a compare and swap on the generation that its caller knew, a
\* confirmed one is saved, and a read returns what held during it.
ImplementsSwitch == Switch!Spec
=============================================================================
