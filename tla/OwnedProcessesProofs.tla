------------------------ MODULE OwnedProcessesProofs ------------------------
(* Theorems about OwnedProcesses, for every value of its constants. *)
EXTENDS OwnedProcesses, FiniteSetTheorems, TLAPS

-----------------------------------------------------------------------------
(* The inductive invariant                                                 *)

\* Entries name processes that were started, and those that still run have
\* registered themselves.
Sound(E) ==
    \A e \in E : e.born <= births /\ (Runs(e) => proc[e.pid].recorded)

\* A process id has one entry.
Functional(E) == \A e, f \in E : e.pid = f.pid => e = f

\* A process that is on the roll has passed its registration.
ProcessInv(p) ==
    /\ proc[p].born <= births
    /\ proc[p].recorded => /\ proc[p].kind = "server"
                           /\ proc[p].pc \in {"serving", "leaving", "forget"}

\* A server that is about to replace the roll keeps the other running servers
\* of the roll it has read, which is empty if the reading failed.
SnapshotInv(p) ==
    proc[p].pc \in {"write", "forget"} =>
        /\ Sound(proc[p].snapshot) /\ Functional(proc[p].snapshot)
        /\ proc[p].entries \subseteq proc[p].snapshot
        /\ \A e \in proc[p].entries : e.pid # p
        /\ \A e \in proc[p].snapshot : e.pid # p /\ Runs(e) => e \in proc[p].entries

\* What `agency off` has read is either not looked at yet, being ended, failed,
\* or gone.
OffInv ==
    /\ Sound(off.base) /\ Functional(off.base)
    /\ off.todo \cup off.current \cup off.ended \cup off.failed \subseteq off.base
    /\ \A e \in off.base \ (off.todo \cup off.current \cup off.failed) : ~Runs(e)
    /\ \A e \in off.ended : ~Runs(e)
    /\ \A e, f \in off.current : e = f
    /\ off.pc \in {"idle", "roll", "report"} => off.current = {}
    /\ off.pc \in {"idle", "report"} => off.todo = {}

IInv ==
    /\ TypeOK
    /\ Sound(roll)
    /\ \A p \in Pids : ProcessInv(p) /\ SnapshotInv(p)
    /\ OffInv
    /\ RecordedUnlessOverwritten

LEMMA InitInv == Init => IInv
<1> SUFFICES ASSUME Init PROVE IInv
  OBVIOUS
<1>1. /\ Nobody \in Process /\ Nobody.kind = "free" /\ Nobody.born = 0
      /\ Nobody.pc = "none" /\ Nobody.recorded = FALSE
  BY DEF Nobody, Process
<1>2. /\ NoOff \in Off /\ NoOff.base = {} /\ NoOff.todo = {} /\ NoOff.current = {}
      /\ NoOff.ended = {} /\ NoOff.failed = {} /\ NoOff.pc = "idle"
  BY DEF NoOff, Off
<1>3. \A p \in Pids : proc[p] = Nobody
  BY DEF Init
<1>4. TypeOK
  BY <1>1, <1>2 DEF Init, TypeOK
<1>5. Sound(roll)
  BY DEF Init, Sound
<1>6. \A p \in Pids : ProcessInv(p) /\ SnapshotInv(p)
  BY <1>1, <1>3 DEF ProcessInv, SnapshotInv, Init
<1>7. OffInv
  BY <1>2 DEF Init, OffInv, Sound, Functional
<1>8. RecordedUnlessOverwritten
  BY <1>1, <1>3 DEF RecordedUnlessOverwritten, RecordedServers, Servers
<1> QED
  BY <1>4, <1>5, <1>6, <1>7, <1>8 DEF IInv

-----------------------------------------------------------------------------
(* What every step does to the processes                                   *)

LEMMA Types ==
    ASSUME IInv
    PROVE  /\ proc \in [Pids -> Process] /\ roll \subseteq Entry /\ off \in Off
           /\ births \in Nat /\ offs \in Nat
           /\ legible \in BOOLEAN /\ overwritten \in BOOLEAN
           /\ Sound(roll) /\ Functional(roll) /\ OffInv
           /\ \A p \in Pids : /\ proc[p] \in Process /\ ProcessInv(p) /\ SnapshotInv(p)
                              /\ proc[p].snapshot \subseteq Entry
                              /\ proc[p].entries \subseteq Entry
                              /\ proc[p].born \in Nat
BY DEF IInv, TypeOK, Functional, Process

\* A process ends, starts under a number never used before, or goes on.
Evolves ==
    /\ births' \in Nat /\ births <= births'
    /\ \A p \in Pids :
          \/ proc'[p].kind = "free"
          \/ proc'[p].born > births
          \/ /\ proc[p].kind # "free" /\ proc'[p].born = proc[p].born
             /\ proc[p].recorded => proc'[p].recorded

\* The process of an entry, once ended, does not run again, although another may
\* get its id.
LEMMA SoundStays ==
    ASSUME IInv, Evolves, NEW E, E \subseteq Entry, Sound(E)
    PROVE  /\ Sound(E)'
           /\ \A e \in E : Runs(e)' => Runs(e)
<1> SUFFICES ASSUME NEW e \in E
             PROVE  /\ e.born <= births'
                    /\ Runs(e)' => Runs(e) /\ proc'[e.pid].recorded
  BY DEF Sound
<1>1. e.pid \in Pids /\ e.born \in Nat /\ e.born <= births /\ births \in Nat
  BY Types DEF Entry, Sound
<1>2. births' \in Nat /\ births <= births'
  BY DEF Evolves
<1>3. e.born <= births'
  BY <1>1, <1>2
<1>4. ASSUME Runs(e)' PROVE Runs(e) /\ proc'[e.pid].recorded
  <2>1. proc'[e.pid].kind # "free" /\ proc'[e.pid].born = e.born
    BY <1>4 DEF Runs, Alive
  <2>2. ~(proc'[e.pid].born > births)
    BY <1>1, <2>1
  <2>3. /\ proc[e.pid].kind # "free" /\ proc'[e.pid].born = proc[e.pid].born
        /\ proc[e.pid].recorded => proc'[e.pid].recorded
    BY <1>1, <2>1, <2>2 DEF Evolves
  <2>4. Runs(e)
    BY <2>1, <2>3 DEF Runs, Alive
  <2> QED
    BY <2>3, <2>4 DEF Sound
<1> QED
  BY <1>3, <1>4

LEMMA SnapshotStays ==
    ASSUME IInv, Evolves, NEW q \in Pids, proc'[q] = proc[q]
    PROVE  ProcessInv(q)' /\ SnapshotInv(q)'
<1>1. births \in Nat /\ births' \in Nat /\ births <= births' /\ proc[q].born \in Nat
  BY Types DEF Evolves
<1>2. ProcessInv(q)'
  BY <1>1, Types DEF ProcessInv
<1>3. ASSUME proc[q].pc \in {"write", "forget"} PROVE SnapshotInv(q)'
  <2>0. PICK E : E = proc[q].snapshot
    OBVIOUS
  <2>1. E \subseteq Entry /\ Sound(E) /\ SnapshotInv(q)
    BY <1>3, <2>0, Types DEF SnapshotInv
  <2>2. Sound(E)' /\ \A e \in E : Runs(e)' => Runs(e)
    BY <2>1, SoundStays
  <2>3. Sound(proc[q].snapshot)'
    BY <2>0, <2>2 DEF Sound
  <2>4. Functional(proc'[q].snapshot)
    BY <1>3, <2>1 DEF SnapshotInv
  <2> QED
    BY <1>3, <2>0, <2>1, <2>2, <2>3, <2>4 DEF SnapshotInv, Functional
<1> QED
  BY <1>2, <1>3 DEF SnapshotInv

LEMMA OffStays ==
    ASSUME IInv, Evolves, off' = off
    PROVE  OffInv'
<1>0. PICK E : E = off.base
  OBVIOUS
<1>1. E \subseteq Entry /\ Sound(E) /\ OffInv
  BY <1>0, Types DEF OffInv, Off
<1>2. Sound(E)' /\ \A e \in E : Runs(e)' => Runs(e)
  BY <1>1, SoundStays
<1>3. Sound(off.base)'
  BY <1>0, <1>2 DEF Sound
<1>4. Functional(off.base)'
  BY <1>1 DEF OffInv, Functional
<1> QED
  BY <1>0, <1>1, <1>2, <1>3, <1>4 DEF OffInv

\* The step of one process that leaves the roll alone.
LEMMA QuietStep ==
    ASSUME IInv, NEW p \in Pids, NEW x \in Process,
           proc' = [proc EXCEPT ![p] = x],
           births' \in {births, births + 1},
           UNCHANGED <<roll, offs, legible, overwritten>>,
           off' = off \/ (off' \in Off /\ (Evolves => OffInv')),
           \/ x = Nobody
           \/ births' = births + 1 /\ x.born = births' /\ ~x.recorded
           \/ /\ proc[p].kind # "free" /\ x.born = proc[p].born
              /\ x.recorded = proc[p].recorded
              /\ x.pc = "serving" /\ x.recorded => proc[p].pc = "serving",
           ProcessInv(p)', SnapshotInv(p)'
    PROVE  IInv'
<1>1. /\ proc' \in [Pids -> Process] /\ proc'[p] = x
      /\ \A q \in Pids \ {p} : proc'[q] = proc[q]
  BY Types
<1>2. Nobody.kind = "free" /\ ~Nobody.recorded
  BY DEF Nobody
<1>3. births \in Nat /\ births' \in Nat /\ births <= births'
  BY Types
<1>4. Evolves
  <2> SUFFICES ASSUME NEW q \in Pids
               PROVE  \/ proc'[q].kind = "free"
                      \/ proc'[q].born > births
                      \/ /\ proc[q].kind # "free" /\ proc'[q].born = proc[q].born
                         /\ proc[q].recorded => proc'[q].recorded
    BY <1>3 DEF Evolves
  <2>1. CASE q = p
    BY <1>1, <1>2, <1>3, <2>1
  <2>2. CASE q # p
    BY <1>1, <2>2
  <2> QED
    BY <2>1, <2>2
<1>5. TypeOK'
  BY <1>1, <1>3 DEF IInv, TypeOK
<1>6. Sound(roll)'
  <2>1. \A e \in roll : e.born <= births' /\ (Runs(e)' => proc'[e.pid].recorded)
    BY <1>4, Types, SoundStays DEF Sound
  <2> QED
    BY <2>1 DEF Sound
<1>7. \A q \in Pids : ProcessInv(q)' /\ SnapshotInv(q)'
  BY <1>1, <1>4, SnapshotStays
<1>8. OffInv'
  BY <1>4, OffStays
<1>9. RecordedServers' \subseteq RecordedServers
  <2> SUFFICES ASSUME NEW q \in Pids, proc'[q].kind = "server", proc'[q].pc = "serving",
                      proc'[q].recorded
               PROVE  /\ proc[q].kind = "server" /\ proc[q].pc = "serving"
                      /\ proc[q].recorded /\ Self(q)' = Self(q)
    BY DEF RecordedServers, Servers
  <2>1. CASE q = p
    <3>1. proc[p].recorded /\ proc[p].pc = "serving" /\ x.born = proc[p].born
      BY <1>1, <1>2, <2>1
    <3> QED
      BY <1>1, <2>1, <3>1, Types DEF Self, ProcessInv
  <2>2. CASE q # p
    BY <1>1, <2>2 DEF Self
  <2> QED
    BY <2>1, <2>2
<1>10. RecordedUnlessOverwritten'
  BY <1>9 DEF IInv, RecordedUnlessOverwritten
<1> QED
  BY <1>5, <1>6, <1>7, <1>8, <1>10 DEF IInv

-----------------------------------------------------------------------------
(* Processes that start, end, or change only their own state               *)

LEMMA GoneInv ==
    ASSUME IInv, NEW p \in Pids, Gone(p), UNCHANGED <<roll, off, births, offs, legible, overwritten>>
    PROVE  IInv'
<1>1. Nobody \in Process /\ Nobody.born = 0 /\ ~Nobody.recorded /\ Nobody.pc = "none"
  BY DEF Nobody, Process
<1>2. proc' = [proc EXCEPT ![p] = Nobody] /\ proc'[p] = Nobody
  BY Types DEF Gone
<1>3. ProcessInv(p)' /\ SnapshotInv(p)'
  BY <1>1, <1>2, Types DEF ProcessInv, SnapshotInv
<1> QED
  BY <1>1, <1>2, <1>3, QuietStep, Types

LEMMA BeginInv ==
    ASSUME IInv, NEW p \in Pids, NEW kind \in {"stranger", "server"},
           NEW pc \in {"none", "check"}, Begin(p, kind, pc)
    PROVE  IInv'
<1> DEFINE x == [Nobody EXCEPT !.kind = kind, !.born = births + 1, !.pc = pc]
<1>1. births \in Nat /\ births' = births + 1 /\ UNCHANGED <<roll, off, offs, legible, overwritten>>
  BY Types DEF Begin
<1>2. x \in Process /\ x.born = births + 1 /\ ~x.recorded /\ x.pc = pc
  <2>1. Nobody \in Process /\ Nobody.recorded = FALSE
    BY DEF Nobody, Process
  <2>2. /\ births + 1 \in Nat /\ pc \in Phases \cup {"none"}
        /\ kind \in {"free", "stranger", "server"}
    BY <1>1 DEF Phases
  <2> QED
    BY <2>1, <2>2 DEF Process
<1>3. proc' = [proc EXCEPT ![p] = x] /\ proc'[p] = x
  BY Types DEF Begin
<1> HIDE DEF x
<1>4. ProcessInv(p)' /\ SnapshotInv(p)'
  BY <1>1, <1>2, <1>3 DEF ProcessInv, SnapshotInv
<1> QED
  BY <1>1, <1>2, <1>3, <1>4, QuietStep

\* A process goes on, with what it has read of the roll.
LEMMA GoesOn ==
    ASSUME IInv, NEW p \in Pids, NEW x \in Process,
           proc' = [proc EXCEPT ![p] = x], proc[p].kind = "server",
           UNCHANGED <<roll, off, births, offs, legible, overwritten>>,
           x.kind = proc[p].kind, x.born = proc[p].born, x.recorded = proc[p].recorded,
           x.pc = "serving" => proc[p].pc = "serving" \/ ~x.recorded,
           x.recorded => x.pc \in {"serving", "leaving", "forget"},
           SnapshotInv(p)'
    PROVE  IInv'
<1>1. proc'[p] = x
  BY Types
<1>2. ProcessInv(p)'
  BY <1>1, Types DEF ProcessInv
<1> QED
  BY <1>2, QuietStep, Types

LEMMA PassCeilingInv == ASSUME IInv, NEW p \in Pids, PassCeiling(p) PROVE IInv'
<1> DEFINE x == [proc[p] EXCEPT !.pc = "read"]
<1>1. /\ x \in Process /\ x.pc = "read" /\ x.kind = proc[p].kind
      /\ x.born = proc[p].born /\ x.recorded = proc[p].recorded
  BY Types DEF Process, Phases
<1>2. /\ proc' = [proc EXCEPT ![p] = x] /\ proc'[p] = x
      /\ proc[p].kind = "server" /\ proc[p].pc = "check"
      /\ UNCHANGED <<roll, off, births, offs, legible, overwritten>>
  BY Types DEF PassCeiling, IsServer
<1>3. SnapshotInv(p)' /\ ~proc[p].recorded
  BY <1>1, <1>2, Types DEF SnapshotInv, ProcessInv
<1> QED
  BY <1>1, <1>2, <1>3, GoesOn

\* A snapshot of the roll is as sound as the roll.
LEMMA SnapshotTaken ==
    ASSUME IInv, NEW p \in Pids, NEW read \in Readings, NEW E, NEW x \in Process,
           proc' = [proc EXCEPT ![p] = x], births' = births,
           x.kind = proc[p].kind, x.born = proc[p].born,
           x.recorded = proc[p].recorded, x.snapshot = read, x.entries = E,
           E \subseteq {e \in read : e.pid # p},
           \A e \in read : e.pid # p /\ Runs(e) => e \in E
    PROVE  SnapshotInv(p)'
<1>0. read \subseteq roll
  BY DEF Readings
<1>1. proc'[p] = x /\ \A q \in Pids \ {p} : proc'[q] = proc[q]
  BY Types
<1>2. \A e \in read : /\ Runs(e)' = Runs(e)
                      /\ proc'[e.pid].recorded = proc[e.pid].recorded
  <2> SUFFICES ASSUME NEW e \in read
               PROVE  /\ proc'[e.pid].kind = proc[e.pid].kind
                      /\ proc'[e.pid].born = proc[e.pid].born
                      /\ proc'[e.pid].recorded = proc[e.pid].recorded
    BY DEF Runs, Alive
  <2>1. e.pid \in Pids
    BY <1>0, Types DEF Entry
  <2> QED
    BY <1>1, <2>1
<1>3. Sound(proc[p].snapshot)'
  BY <1>0, <1>1, <1>2, Types DEF Sound
<1>4. Functional(proc'[p].snapshot)
  BY <1>0, <1>1, Types DEF Functional
<1> QED
  BY <1>1, <1>2, <1>3, <1>4 DEF SnapshotInv, Functional

\* The entries that are kept are some of those read, and all that run.
LEMMA CurrentEntries ==
    ASSUME NEW entries, NEW E \in Current(entries)
    PROVE  E \subseteq entries /\ \A e \in entries : Runs(e) => e \in E
BY DEF Current

LEMMA RegisterReadInv == ASSUME IInv, NEW p \in Pids, RegisterRead(p) PROVE IInv'
<1>read. PICK read \in Readings : \E kept \in Kept(p, read) :
          proc' = [proc EXCEPT ![p].pc = "write", ![p].snapshot = read,
                               ![p].entries = kept]
  BY DEF RegisterRead
<1>0. PICK kept \in Kept(p, read) :
          proc' = [proc EXCEPT ![p].pc = "write", ![p].snapshot = read,
                               ![p].entries = kept]
  BY <1>read
<1> DEFINE x == [proc[p] EXCEPT !.pc = "write", !.snapshot = read, !.entries = kept]
<1>1. /\ kept \subseteq {e \in read : e.pid # p}
      /\ \A e \in read : e.pid # p /\ Runs(e) => e \in kept
  BY CurrentEntries DEF Kept
<1>2. read \subseteq roll
  BY DEF Readings
<1>3. /\ x \in Process /\ x.pc = "write" /\ x.kind = proc[p].kind
      /\ x.born = proc[p].born /\ x.recorded = proc[p].recorded
      /\ x.snapshot = read /\ x.entries = kept
  BY <1>1, <1>2, Types DEF Process, Phases
<1>4. /\ proc' = [proc EXCEPT ![p] = x] /\ proc'[p] = x
      /\ proc[p].kind = "server" /\ proc[p].pc = "read"
      /\ UNCHANGED <<roll, off, births, offs, legible, overwritten>>
  BY <1>0, Types DEF RegisterRead, IsServer
<1> HIDE DEF x
<1>5. SnapshotInv(p)'
  BY <1>1, <1>3, <1>4, SnapshotTaken
<1>6. ~proc[p].recorded
  BY <1>4, Types DEF ProcessInv
<1> QED
  BY <1>3, <1>4, <1>5, <1>6, GoesOn

LEMMA RegisterFailsInv == ASSUME IInv, NEW p \in Pids, RegisterFails(p) PROVE IInv'
<1> DEFINE x == [proc[p] EXCEPT !.pc = "serving", !.snapshot = {}, !.entries = {}]
<1>1. /\ x \in Process /\ x.pc = "serving" /\ x.kind = proc[p].kind
      /\ x.born = proc[p].born /\ x.recorded = proc[p].recorded
  BY Types DEF Process, Phases
<1>2. /\ proc' = [proc EXCEPT ![p] = x] /\ proc'[p] = x
      /\ proc[p].kind = "server" /\ proc[p].pc = "write"
      /\ UNCHANGED <<roll, off, births, offs, legible, overwritten>>
  BY Types DEF RegisterFails, IsServer
<1>3. SnapshotInv(p)' /\ ~proc[p].recorded
  BY <1>1, <1>2, Types DEF SnapshotInv, ProcessInv
<1> QED
  BY <1>1, <1>2, <1>3, GoesOn

LEMMA AbandonInv == ASSUME IInv, NEW p \in Pids, Abandon(p) PROVE IInv'
<1> DEFINE x == [proc[p] EXCEPT !.abandoned = TRUE]
<1>1. /\ x \in Process /\ x.pc = proc[p].pc /\ x.kind = proc[p].kind
      /\ x.born = proc[p].born /\ x.recorded = proc[p].recorded
  BY Types DEF Process
<1>2. /\ proc' = [proc EXCEPT ![p] = x] /\ proc'[p] = x
      /\ proc[p].kind = "server" /\ proc[p].pc = "serving"
      /\ UNCHANGED <<roll, off, births, offs, legible, overwritten>>
  BY Types DEF Abandon, IsServer
<1>3. SnapshotInv(p)'
  BY <1>1, <1>2 DEF SnapshotInv
<1> QED
  BY <1>1, <1>2, <1>3, GoesOn

LEMMA LeaveInv == ASSUME IInv, NEW p \in Pids, Leave(p) PROVE IInv'
<1> DEFINE x == [proc[p] EXCEPT !.pc = "leaving"]
<1>1. /\ x \in Process /\ x.pc = "leaving" /\ x.kind = proc[p].kind
      /\ x.born = proc[p].born /\ x.recorded = proc[p].recorded
  BY Types DEF Process, Phases
<1>2. /\ proc' = [proc EXCEPT ![p] = x] /\ proc'[p] = x
      /\ proc[p].kind = "server" /\ proc[p].pc = "serving"
      /\ UNCHANGED <<roll, off, births, offs, legible, overwritten>>
  BY Types DEF Leave, IsServer
<1>3. SnapshotInv(p)'
  BY <1>1, <1>2 DEF SnapshotInv
<1> QED
  BY <1>1, <1>2, <1>3, GoesOn

LEMMA ForgetReadInv == ASSUME IInv, NEW p \in Pids, ForgetRead(p) PROVE IInv'
<1>0. PICK read \in Readings :
          proc' = [proc EXCEPT ![p].pc = "forget", ![p].snapshot = read,
                               ![p].entries = Forgotten(p, read)]
  BY DEF ForgetRead
<1> DEFINE x == [proc[p] EXCEPT !.pc = "forget", !.snapshot = read,
                                !.entries = Forgotten(p, read)]
<1>1. Forgotten(p, read) = {e \in read : e.pid # p} /\ read \subseteq roll
  BY DEF Forgotten, Readings
<1>2. /\ x \in Process /\ x.pc = "forget" /\ x.kind = proc[p].kind
      /\ x.born = proc[p].born /\ x.recorded = proc[p].recorded
      /\ x.snapshot = read /\ x.entries = Forgotten(p, read)
  BY <1>1, Types DEF Process, Phases
<1>3. /\ proc' = [proc EXCEPT ![p] = x] /\ proc'[p] = x
      /\ proc[p].kind = "server"
      /\ UNCHANGED <<roll, off, births, offs, legible, overwritten>>
  BY <1>0, Types DEF ForgetRead, IsServer
<1> HIDE DEF x
<1>4. SnapshotInv(p)'
  BY <1>1, <1>2, <1>3, SnapshotTaken
<1> QED
  BY <1>2, <1>3, <1>4, GoesOn

-----------------------------------------------------------------------------
(* Steps that replace the roll                                             *)

LEMMA RegisterWriteInv == ASSUME IInv, NEW p \in Pids, RegisterWrite(p) PROVE IInv'
<1> DEFINE x == [proc[p] EXCEPT !.pc = "serving", !.recorded = TRUE,
                                !.snapshot = {}, !.entries = {}]
<1>1. /\ x \in Process /\ x.pc = "serving" /\ x.kind = proc[p].kind
      /\ x.born = proc[p].born /\ x.recorded = TRUE
  BY Types DEF Process, Phases
<1>2. /\ proc' = [proc EXCEPT ![p] = x]
      /\ proc[p].kind = "server" /\ proc[p].pc = "write"
      /\ UNCHANGED <<off, births, offs>>
      /\ roll' = proc[p].entries \cup {Self(p)}
      /\ overwritten' = (overwritten \/ roll # proc[p].snapshot)
      /\ legible' = legible
  BY DEF RegisterWrite, IsServer, WriteRoll
<1> HIDE DEF x
<1>3. /\ proc' \in [Pids -> Process] /\ proc'[p] = x
      /\ \A q \in Pids \ {p} : proc'[q] = proc[q]
  BY <1>1, <1>2, Types
<1>4. PICK S, E, s : S = proc[p].snapshot /\ E = proc[p].entries /\ s = Self(p)
  OBVIOUS
<1>5. /\ S \subseteq Entry /\ Sound(S) /\ Functional(S) /\ E \subseteq S
      /\ \A e \in E : e.pid # p
      /\ \A e \in S : e.pid # p /\ Runs(e) => e \in E
  BY <1>2, <1>4, Types DEF SnapshotInv
<1>6. s \in Entry /\ s.pid = p /\ s.born = proc[p].born /\ s.born <= births
  BY <1>4, Types DEF Self, Entry, ProcessInv
<1>7. Evolves
  <2> SUFFICES ASSUME NEW q \in Pids
               PROVE  \/ proc'[q].kind = "free"
                      \/ /\ proc[q].kind # "free" /\ proc'[q].born = proc[q].born
                         /\ proc[q].recorded => proc'[q].recorded
    BY <1>2, Types DEF Evolves
  <2>1. CASE q = p
    BY <1>1, <1>2, <1>3, <2>1
  <2>2. CASE q # p
    BY <1>3, <2>2
  <2> QED
    BY <2>1, <2>2
<1>8. roll' = E \cup {s} /\ roll' \subseteq Entry
  BY <1>2, <1>4, <1>5, <1>6
<1>9. \A e, f \in roll' : e.pid = f.pid => e = f
  BY <1>5, <1>6, <1>8 DEF Functional
<1>10. TypeOK'
  <2>1. overwritten' \in BOOLEAN
    BY <1>2, Types
  <2> QED
    BY <1>2, <1>3, <1>8, <1>9, <2>1, Types DEF TypeOK
<1>11. Sound(roll)'
  <2>1. Sound(S)'
    BY <1>5, <1>7, SoundStays
  <2>2. proc'[s.pid].recorded /\ s.born <= births'
    BY <1>1, <1>2, <1>3, <1>6
  <2> QED
    BY <1>5, <1>8, <2>1, <2>2 DEF Sound
<1>12. \A q \in Pids : ProcessInv(q)' /\ SnapshotInv(q)'
  <2>1. ProcessInv(p)' /\ SnapshotInv(p)'
    BY <1>1, <1>2, <1>3, Types DEF ProcessInv, SnapshotInv
  <2> QED
    BY <1>3, <1>7, <2>1, SnapshotStays
<1>13. OffInv'
  BY <1>2, <1>7, OffStays
<1>14. RecordedUnlessOverwritten'
  <2> SUFFICES ASSUME ~overwritten', NEW q \in Pids, proc'[q].kind = "server",
                      proc'[q].pc = "serving", proc'[q].recorded
               PROVE  [pid |-> q, born |-> proc'[q].born] \in roll'
    BY DEF RecordedUnlessOverwritten, RecordedServers, Servers, Self
  <2>1. CASE q = p
    BY <1>1, <1>3, <1>4, <1>8, <2>1 DEF Self
  <2>2. CASE q # p
    <3>1. ~overwritten /\ roll = S /\ proc'[q] = proc[q]
      BY <1>2, <1>3, <1>4, <2>2
    <3>2. Self(q) \in RecordedServers
      BY <3>1 DEF RecordedServers, Servers
    <3>3. Self(q) \in S
      BY <3>1, <3>2 DEF IInv, RecordedUnlessOverwritten
    <3>4. Self(q).pid # p /\ Runs(Self(q))
      BY <2>2, <3>1 DEF Self, Runs, Alive
    <3> QED
      BY <1>5, <1>8, <3>1, <3>3, <3>4 DEF Self
  <2> QED
    BY <2>1, <2>2
<1> QED
  BY <1>10, <1>11, <1>12, <1>13, <1>14 DEF IInv

LEMMA ForgetWriteInv == ASSUME IInv, NEW p \in Pids, ForgetWrite(p) PROVE IInv'
<1>1. /\ proc' = [proc EXCEPT ![p] = Nobody] /\ proc[p].pc = "forget"
      /\ UNCHANGED <<off, births, offs>>
      /\ roll' = proc[p].entries
      /\ overwritten' = (overwritten \/ roll # proc[p].snapshot)
      /\ legible' = legible
  BY DEF ForgetWrite, IsServer, WriteRoll, Gone
<1>2. /\ Nobody \in Process /\ Nobody.kind = "free" /\ Nobody.born = 0
      /\ ~Nobody.recorded /\ Nobody.pc = "none"
  BY DEF Nobody, Process
<1>3. /\ proc' \in [Pids -> Process] /\ proc'[p] = Nobody
      /\ \A q \in Pids \ {p} : proc'[q] = proc[q]
  BY <1>1, <1>2, Types
<1>4. PICK S, E : S = proc[p].snapshot /\ E = proc[p].entries
  OBVIOUS
<1>5. /\ S \subseteq Entry /\ Sound(S) /\ Functional(S) /\ E \subseteq S
      /\ \A e \in S : e.pid # p /\ Runs(e) => e \in E
  BY <1>1, <1>4, Types DEF SnapshotInv
<1>6. Evolves
  BY <1>1, <1>2, <1>3, Types DEF Evolves
<1>7. TypeOK'
  <2>1. overwritten' \in BOOLEAN
    BY <1>1, Types
  <2>2. roll' \subseteq Entry /\ \A e, f \in roll' : e.pid = f.pid => e = f
    BY <1>1, <1>4, <1>5 DEF Functional
  <2> QED
    BY <1>1, <1>3, <2>1, <2>2, Types DEF TypeOK
<1>8. Sound(roll)'
  <2>1. Sound(S)'
    BY <1>5, <1>6, SoundStays
  <2> QED
    BY <1>1, <1>4, <1>5, <2>1 DEF Sound
<1>9. \A q \in Pids : ProcessInv(q)' /\ SnapshotInv(q)'
  <2>1. ProcessInv(p)' /\ SnapshotInv(p)'
    BY <1>1, <1>2, <1>3, Types DEF ProcessInv, SnapshotInv
  <2> QED
    BY <1>3, <1>6, <2>1, SnapshotStays
<1>10. OffInv'
  BY <1>1, <1>6, OffStays
<1>11. RecordedUnlessOverwritten'
  <2> SUFFICES ASSUME ~overwritten', NEW q \in Pids, proc'[q].kind = "server",
                      proc'[q].pc = "serving", proc'[q].recorded
               PROVE  [pid |-> q, born |-> proc'[q].born] \in roll'
    BY DEF RecordedUnlessOverwritten, RecordedServers, Servers, Self
  <2>1. q # p
    BY <1>2, <1>3
  <2>2. ~overwritten /\ roll = S /\ proc'[q] = proc[q]
    BY <1>1, <1>3, <1>4, <2>1
  <2>3. Self(q) \in RecordedServers
    BY <2>2 DEF RecordedServers, Servers
  <2>4. Self(q) \in S
    BY <2>2, <2>3 DEF IInv, RecordedUnlessOverwritten
  <2>5. Self(q).pid # p /\ Runs(Self(q))
    BY <2>1, <2>2 DEF Self, Runs, Alive
  <2> QED
    BY <1>1, <1>4, <1>5, <2>2, <2>4, <2>5 DEF Self
<1> QED
  BY <1>7, <1>8, <1>9, <1>10, <1>11 DEF IInv

-----------------------------------------------------------------------------
(* `agency off`                                                            *)

\* A step of `agency off` that touches no process and not the roll.
LEMMA OffOnly ==
    ASSUME IInv, off' \in Off, offs' \in Nat, UNCHANGED <<proc, births, roll, legible, overwritten>>,
           OffInv'
    PROVE  IInv'
<1>1. TypeOK'
  BY DEF IInv, TypeOK
<1>2. Sound(roll)'
  BY Types DEF Sound, Runs, Alive
<1>3. \A p \in Pids : ProcessInv(p)' /\ SnapshotInv(p)'
  <2> SUFFICES ASSUME NEW p \in Pids PROVE ProcessInv(p)' /\ SnapshotInv(p)'
    OBVIOUS
  <2>1. ProcessInv(p) /\ SnapshotInv(p)
    BY Types
  <2> QED
    BY <2>1 DEF ProcessInv, SnapshotInv, Sound, Functional, Runs, Alive
<1>4. RecordedUnlessOverwritten'
  BY DEF IInv, RecordedUnlessOverwritten, RecordedServers, Servers, Self
<1> QED
  BY <1>1, <1>2, <1>3, <1>4 DEF IInv

\* `agency off` lets go of an entry only when its process no longer runs.
LEMMA OffMoves ==
    ASSUME IInv, Evolves, NEW o \in Off, off' = o, o.base = off.base,
           o.todo \cup o.current \cup o.ended \cup o.failed \subseteq off.base,
           \A e \in off.base \ (o.todo \cup o.current \cup o.failed) : ~Runs(e),
           \A e \in o.ended : ~Runs(e),
           \A e, f \in o.current : e = f,
           o.pc \in {"idle", "roll", "report"} => o.current = {},
           o.pc \in {"idle", "report"} => o.todo = {}
    PROVE  OffInv'
<1>0. PICK E : E = off.base
  OBVIOUS
<1>1. E \subseteq Entry /\ Sound(E) /\ Functional(E)
  BY <1>0, Types DEF OffInv, Off
<1>2. Sound(E)' /\ \A e \in E : Runs(e)' => Runs(e)
  BY <1>1, SoundStays
<1>3. Sound(off.base)' /\ Functional(off.base)'
  BY <1>0, <1>1, <1>2 DEF Sound, Functional
<1> QED
  BY <1>0, <1>2, <1>3 DEF OffInv

LEMMA OffBeginInv == ASSUME IInv, OffBegin PROVE IInv'
<1>0. PICK read \in Readings :
          off' = [NoOff EXCEPT !.pc = "roll", !.base = read, !.todo = read]
  BY DEF OffBegin
<1>1. /\ read \subseteq roll /\ offs' \in Nat
      /\ UNCHANGED <<proc, births, roll, legible, overwritten>>
  BY Types DEF OffBegin, Readings
<1>2. off' = [pc |-> "roll", base |-> read, todo |-> read, current |-> {}, ended |-> {},
              failed |-> {}]
  BY <1>0 DEF NoOff
<1>3. off' \in Off
  BY <1>1, <1>2, Types DEF Off
<1>4. /\ off'.base = read /\ off'.todo = read /\ off'.current = {}
      /\ off'.ended = {} /\ off'.failed = {} /\ off'.pc = "roll"
  BY <1>2
<1>5. Sound(read)' /\ Functional(read)
  BY <1>1, Types DEF Sound, Functional, Runs, Alive
<1>6. Sound(off.base)' /\ Functional(off.base)'
  BY <1>1, <1>4, <1>5 DEF Sound, Functional, Runs, Alive
<1>7. OffInv'
  BY <1>4, <1>6 DEF OffInv
<1> QED
  BY <1>1, <1>3, <1>7, OffOnly

LEMMA OffReturnInv == ASSUME IInv, OffReturn PROVE IInv'
<1>1. /\ off' = NoOff /\ offs' \in Nat /\ UNCHANGED <<proc, births, roll, legible, overwritten>>
  BY Types DEF OffReturn
<1>2. /\ NoOff \in Off /\ NoOff.base = {} /\ NoOff.todo = {} /\ NoOff.current = {}
      /\ NoOff.ended = {} /\ NoOff.failed = {}
  BY DEF NoOff, Off
<1>3. OffInv'
  BY <1>1, <1>2 DEF OffInv, Sound, Functional
<1> QED
  BY <1>1, <1>2, <1>3, OffOnly

\* A step of `agency off` that looks at an entry and signals nobody.
LEMMA OffLooks ==
    ASSUME IInv, NEW o \in Off, off' = o, o.base = off.base,
           UNCHANGED <<proc, roll, births, offs, legible, overwritten>>,
           o.todo \cup o.current \cup o.ended \cup o.failed \subseteq off.base,
           \A e \in off.base \ (o.todo \cup o.current \cup o.failed) : ~Runs(e),
           \A e \in o.ended : ~Runs(e),
           \A e, f \in o.current : e = f,
           o.pc \in {"idle", "roll", "report"} => o.current = {},
           o.pc \in {"idle", "report"} => o.todo = {}
    PROVE  IInv'
<1>1. Evolves
  BY Types DEF Evolves
<1>2. OffInv'
  BY <1>1, OffMoves
<1> QED
  BY <1>2, OffOnly, Types

LEMMA OffSkipInv == ASSUME IInv, NEW e \in off.todo, OffSkip(e) PROVE IInv'
<1>1. PICK o : o = [off EXCEPT !.todo = @ \ {e}]
  OBVIOUS
<1>2. /\ o \in Off /\ o.base = off.base /\ o.todo = off.todo \ {e}
      /\ o.current = off.current /\ o.ended = off.ended /\ o.failed = off.failed
      /\ o.pc = "roll" /\ off.pc = "roll"
  BY <1>1, Types DEF Off, OffSkip
<1>3. off' = o /\ ~Runs(e) /\ UNCHANGED <<proc, roll, births, offs, legible, overwritten>>
  BY <1>1 DEF OffSkip
<1>4. OffInv
  BY Types
<1> QED
  BY <1>2, <1>3, <1>4, OffLooks DEF OffInv

LEMMA OffVerifyInv == ASSUME IInv, NEW e \in off.todo, OffVerify(e) PROVE IInv'
<1>1. PICK o : o = [off EXCEPT !.pc = "verified", !.todo = @ \ {e}, !.current = {e}]
  OBVIOUS
<1>2. OffInv /\ off \in Off
  BY Types
<1>3. e \in Entry
  BY <1>2 DEF Off
<1>4. /\ o \in Off /\ o.base = off.base /\ o.todo = off.todo \ {e}
      /\ o.current = {e} /\ o.ended = off.ended /\ o.failed = off.failed
      /\ o.pc = "verified" /\ off.pc = "roll"
  BY <1>1, <1>2, <1>3 DEF Off, OffVerify
<1>5. off' = o /\ UNCHANGED <<proc, roll, births, offs, legible, overwritten>>
  BY <1>1 DEF OffVerify
<1>6. off.current = {}
  BY <1>2, <1>4 DEF OffInv
<1> QED
  BY <1>2, <1>4, <1>5, <1>6, OffLooks DEF OffInv

\* Only one entry is looked at at a time.
LEMMA OffEndedInv ==
    ASSUME IInv, NEW e \in off.current, OffEnded(e) PROVE IInv'
<1>1. PICK o : o = [off EXCEPT !.pc = "roll", !.current = {}, !.ended = @ \cup {e}]
  OBVIOUS
<1>2. OffInv /\ off \in Off
  BY Types
<1>3. e \in Entry /\ ~Runs(e)
  BY <1>2 DEF Off, OffEnded, SeenGone, Runs, Alive
<1>4. /\ o \in Off /\ o.base = off.base /\ o.todo = off.todo
      /\ o.current = {} /\ o.ended = off.ended \cup {e} /\ o.failed = off.failed
      /\ o.pc = "roll"
  BY <1>1, <1>2, <1>3 DEF Off
<1>5. off' = o /\ UNCHANGED <<proc, roll, births, offs, legible, overwritten>>
  BY <1>1 DEF OffEnded
<1> QED
  BY <1>2, <1>3, <1>4, <1>5, OffLooks DEF OffInv

LEMMA OffFailedInv ==
    ASSUME IInv, NEW e \in off.current, OffFailed(e) PROVE IInv'
<1>1. PICK o : o = [off EXCEPT !.pc = "roll", !.current = {}, !.failed = @ \cup {e}]
  OBVIOUS
<1>2. OffInv /\ off \in Off
  BY Types
<1>3. e \in Entry
  BY <1>2 DEF Off
<1>4. /\ o \in Off /\ o.base = off.base /\ o.todo = off.todo
      /\ o.current = {} /\ o.ended = off.ended /\ o.failed = off.failed \cup {e}
      /\ o.pc = "roll"
  BY <1>1, <1>2, <1>3 DEF Off
<1>5. off' = o /\ UNCHANGED <<proc, roll, births, offs, legible, overwritten>>
  BY <1>1 DEF OffFailed
<1> QED
  BY <1>2, <1>4, <1>5, OffLooks DEF OffInv

\* A signal ends whoever has the process id, or nobody.
LEMMA SignalInv ==
    ASSUME IInv, NEW e \in off.current, NEW pc \in {"termed", "killed"},
           off' = [off EXCEPT !.pc = pc], Signal(e.pid),
           UNCHANGED <<roll, births, offs, legible, overwritten>>
    PROVE  IInv'
<1>1. PICK o : o = [off EXCEPT !.pc = pc]
  OBVIOUS
<1>2. OffInv /\ off \in Off
  BY Types
<1>3. e.pid \in Pids
  BY <1>2 DEF Off, Entry
<1>4. /\ o \in Off /\ off' = o /\ o.base = off.base /\ o.todo = off.todo
      /\ o.current = off.current /\ o.ended = off.ended /\ o.failed = off.failed
      /\ o.pc = pc
  BY <1>1, <1>2 DEF Off
<1>5. Evolves => OffInv'
  BY <1>2, <1>4, OffMoves DEF OffInv
<1>6. CASE proc' = proc
  <2>1. Evolves
    BY <1>6, Types DEF Evolves
  <2> QED
    BY <1>4, <1>5, <1>6, <2>1, OffOnly, Types
<1>7. CASE proc' = [proc EXCEPT ![e.pid] = Nobody]
  <2>1. /\ Nobody \in Process /\ Nobody.born = 0 /\ ~Nobody.recorded
        /\ Nobody.pc = "none"
    BY DEF Nobody, Process
  <2>2. proc'[e.pid] = Nobody
    BY <1>3, <1>7, Types
  <2>3. ProcessInv(e.pid)' /\ SnapshotInv(e.pid)'
    BY <2>1, <2>2, Types DEF ProcessInv, SnapshotInv
  <2> QED
    BY <1>3, <1>4, <1>5, <1>7, <2>1, <2>3, QuietStep
<1> QED
  BY <1>6, <1>7 DEF Signal

\* The report after the roll was replaced.
LEMMA OffWritten ==
    ASSUME IInv, OffReport, WriteRoll(off.base, off.failed)
    PROVE  IInv'
<1>1. /\ off.pc = "roll" /\ off.todo = {} /\ UNCHANGED <<proc, births, offs>>
      /\ roll' = off.failed /\ overwritten' = (overwritten \/ roll # off.base)
      /\ off' = [off EXCEPT !.pc = "report"] /\ legible' = legible
  BY DEF OffReport, WriteRoll
<1>2. OffInv /\ off \in Off
  BY Types
<1>3. /\ off.current = {} /\ off.failed \subseteq off.base /\ off.base \subseteq Entry
      /\ Sound(off.base) /\ Functional(off.base)
  BY <1>1, <1>2 DEF OffInv, Off
<1>4. PICK o : o = [off EXCEPT !.pc = "report"]
  OBVIOUS
<1>5. /\ o \in Off /\ off' = o /\ o.base = off.base /\ o.todo = off.todo
      /\ o.current = off.current /\ o.ended = off.ended /\ o.failed = off.failed
      /\ o.pc = "report"
  BY <1>1, <1>2, <1>4 DEF Off
<1>6. Evolves
  BY <1>1, Types DEF Evolves
<1>7. OffInv'
  BY <1>1, <1>2, <1>3, <1>5, <1>6, OffMoves DEF OffInv
<1>8. TypeOK'
  <2>1. overwritten' \in BOOLEAN
    BY <1>1, Types
  <2>2. roll' \subseteq Entry /\ \A e, f \in roll' : e.pid = f.pid => e = f
    BY <1>1, <1>3 DEF Functional
  <2> QED
    BY <1>1, <1>5, <2>1, <2>2, Types DEF TypeOK
<1>9. Sound(roll)'
  BY <1>1, <1>3 DEF Sound, Runs, Alive
<1>10. \A q \in Pids : ProcessInv(q)' /\ SnapshotInv(q)'
  BY <1>1, <1>6, SnapshotStays
<1>11. RecordedUnlessOverwritten'
  <2> SUFFICES ASSUME ~overwritten', NEW q \in Pids, proc[q].kind = "server",
                      proc[q].pc = "serving", proc[q].recorded
               PROVE  Self(q) \in roll'
    BY <1>1 DEF RecordedUnlessOverwritten, RecordedServers, Servers, Self
  <2>1. ~overwritten /\ roll = off.base
    BY <1>1
  <2>2. Self(q) \in RecordedServers
    BY DEF RecordedServers, Servers
  <2>3. Self(q) \in off.base /\ Runs(Self(q))
    BY <2>1, <2>2 DEF IInv, RecordedUnlessOverwritten, Self, Runs, Alive
  <2> QED
    BY <1>1, <1>2, <1>3, <2>3 DEF OffInv
<1> QED
  BY <1>7, <1>8, <1>9, <1>10, <1>11 DEF IInv

\* The report when the roll could not be written.
LEMMA OffUnwritten ==
    ASSUME IInv, OffReport, UNCHANGED <<roll, legible, overwritten>>
    PROVE  IInv'
<1>1. /\ off.pc = "roll" /\ off.todo = {} /\ UNCHANGED <<proc, births, offs>>
      /\ off' = [off EXCEPT !.pc = "report"]
  BY DEF OffReport
<1>2. OffInv /\ off \in Off
  BY Types
<1>3. off.current = {}
  BY <1>1, <1>2 DEF OffInv
<1>4. PICK o : o = [off EXCEPT !.pc = "report"]
  OBVIOUS
<1>5. /\ o \in Off /\ off' = o /\ o.base = off.base /\ o.todo = off.todo
      /\ o.current = off.current /\ o.ended = off.ended /\ o.failed = off.failed
      /\ o.pc = "report"
  BY <1>1, <1>2, <1>4 DEF Off
<1> QED
  BY <1>1, <1>2, <1>3, <1>5, OffLooks DEF OffInv

LEMMA OffReportInv == ASSUME IInv, OffReport PROVE IInv'
BY OffWritten, OffUnwritten DEF OffReport

-----------------------------------------------------------------------------
(* The theorems                                                            *)

LEMMA NextInv == ASSUME IInv, [Next]_vars PROVE IInv'
<1>1. ASSUME NEW p \in Pids, StartStranger(p) \/ StartServer(p) PROVE IInv'
  BY <1>1, BeginInv DEF StartStranger, StartServer
<1>2. ASSUME NEW p \in Pids, Exit(p) \/ Refuse(p) PROVE IInv'
  BY <1>2, GoneInv DEF Exit, Refuse
<1>3. ASSUME NEW p \in Pids, ServerNext(p) PROVE IInv'
  BY <1>2, <1>3, PassCeilingInv, RegisterReadInv, RegisterWriteInv, RegisterFailsInv,
     AbandonInv, LeaveInv, ForgetReadInv, ForgetWriteInv DEF ServerNext
<1>4. ASSUME NEW e, EndEntry(e) PROVE IInv'
  <2>1. CASE OffSkip(e)
    BY <2>1, OffSkipInv DEF OffSkip
  <2>2. CASE OffVerify(e)
    BY <2>2, OffVerifyInv DEF OffVerify
  <2>3. CASE OffTerm(e)
    BY <2>3, SignalInv DEF OffTerm
  <2>4. CASE OffKill(e)
    BY <2>4, SignalInv DEF OffKill
  <2>5. CASE OffEnded(e)
    BY <2>5, OffEndedInv DEF OffEnded
  <2>6. CASE OffFailed(e)
    BY <2>6, OffFailedInv DEF OffFailed
  <2> QED
    BY <1>4, <2>1, <2>2, <2>3, <2>4, <2>5, <2>6 DEF EndEntry
<1>5. ASSUME OffNext PROVE IInv'
  BY <1>4, <1>5, OffBeginInv, OffReportInv, OffReturnInv DEF OffNext
<1>6. CASE UNCHANGED vars
  BY <1>6, OffOnly, Types, OffStays DEF vars, Evolves
<1> QED
  BY <1>1, <1>2, <1>3, <1>5, <1>6 DEF Next

\* In every state, with or without readable start times: an entry of the roll,
\* or of what a server or `agency off` has read of it, whose process runs names a
\* server that has registered itself; a server about to replace the roll keeps
\* the other running servers it has read; and `agency off` has let go only of
\* processes that run no more.
THEOREM Invariance == Spec => []IInv
<1>1. Init => IInv
  BY InitInv
<1>2. IInv /\ [Next]_vars => IInv'
  BY NextInv
<1> QED
  BY <1>1, <1>2, PTL DEF Spec

\* The process table, the roll and the run of `agency off` stay well formed, and
\* the roll never has two entries for a process id.
THEOREM TypeCorrect == Spec => []TypeOK
<1>1. IInv => TypeOK
  BY DEF IInv
<1> QED
  BY <1>1, Invariance, PTL

\* As long as no roll is replaced that its writer has not read, be it for another
\* write in between or for a failed reading, register_process, forget_process and
\* terminate_owned_processes keep every recorded server on it, whatever is known
\* of start times.
THEOREM RecordedServersAreListed == Spec => []RecordedUnlessOverwritten
<1>1. IInv => RecordedUnlessOverwritten
  BY DEF IInv
<1> QED
  BY <1>1, Invariance, PTL

\* However process ids are reused while it runs, and whether or not start times
\* can be read, what `agency off` reports about the processes it has read is true.
THEOREM ReportsAreTrue == Spec => []ReportIsTrue
<1>1. IInv => ReportIsTrue
  BY DEF IInv, OffInv, ReportIsTrue
<1> QED
  BY <1>1, Invariance, PTL

\* Where start times can be read, the entries that count are recorded servers,
\* each a process of its own.
LEMMA CountedAreServers ==
    ASSUME IInv, legible, NEW p \in Pids, proc[p].pc = "check", NEW E \in Counted
    PROVE  /\ IsFiniteSet(E)
           /\ Cardinality(E) <= Cardinality({q \in Servers \ {p} : proc[q].recorded})
<1> DEFINE R == {q \in Servers \ {p} : proc[q].recorded}
           f == [e \in E |-> e.pid]
<1>0. E \subseteq roll /\ \A e \in E : Runs(e)
  BY DEF Counted, Current, Readings, MayBeCurrent
<1>1. IsFiniteSet(R)
  <2>1. R \in SUBSET Pids
    BY DEF Servers
  <2> QED
    BY <2>1, PidsAssumption, FS_Subset
<1>2. \A e \in E : e.pid \in R
  <2> SUFFICES ASSUME NEW e \in roll, Runs(e) PROVE e.pid \in R
    BY <1>0
  <2>1. e.pid \in Pids /\ proc[e.pid].recorded
    BY Types DEF Entry, Sound
  <2>2. ProcessInv(e.pid) /\ ProcessInv(p)
    BY <2>1, Types
  <2> QED
    BY <2>1, <2>2 DEF ProcessInv, Servers
<1>3. \A e, g \in E : f[e] = f[g] => e = g
  BY <1>0, Types DEF Functional
<1>4. f \in Injection(E, R)
  BY <1>2, <1>3 DEF Injection, IsInjective
<1> HIDE DEF R, f
<1> QED
  BY <1>1, <1>4, FS_Injection DEF R

\* Where start times can be read, refuse_beyond_ceiling refuses a server only
\* when that many other recorded servers run: the entries of ended servers and of
\* reused ids are not counted, whatever has been overwritten or read wrong.
THEOREM RefusalsAreRight == Spec => RefusedOnlyAtCeiling
<1>1. ASSUME IInv, NEW p \in Pids, Refuse(p), legible
      PROVE  Cardinality({q \in Servers \ {p} : proc[q].recorded}) >= Ceiling
  <2> DEFINE R == {q \in Servers \ {p} : proc[q].recorded}
  <2>1. PICK E \in Counted : Cardinality(E) >= Ceiling
    BY <1>1 DEF Refuse
  <2>2. proc[p].pc = "check"
    BY <1>1 DEF Refuse, IsServer
  <2>3. IsFiniteSet(E) /\ Cardinality(E) <= Cardinality(R)
    BY <1>1, <2>2, CountedAreServers
  <2>4. Cardinality(E) \in Nat /\ Cardinality(R) \in Nat
    <3>1. R \in SUBSET Pids
      BY DEF Servers
    <3>2. IsFiniteSet(R)
      BY <3>1, PidsAssumption, FS_Subset
    <3> QED
      BY <2>3, <3>2, FS_CardinalityType
  <2> HIDE DEF R
  <2>5. Ceiling \in Nat
    BY CeilingAssumption
  <2>6. Cardinality(R) >= Ceiling
    BY <2>1, <2>3, <2>4, <2>5
  <2> QED
    BY <2>6 DEF R
<1>2. IInv => \A p \in Pids : Refuse(p) /\ legible =>
                  Cardinality({q \in Servers \ {p} : proc[q].recorded}) >= Ceiling
  BY <1>1
<1> QED
  BY <1>2, Invariance, PTL DEF RefusedOnlyAtCeiling
=============================================================================
