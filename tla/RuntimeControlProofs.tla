------------------------ MODULE RuntimeControlProofs ------------------------
(* Theorems about RuntimeControl, for every value of its constants. *)
EXTENDS RuntimeControl, TLAPS

-----------------------------------------------------------------------------
(* The inductive invariant                                                 *)

\* The order of publication: d was published before e, or is e.  Only the
\* default that the installer materializes repeats a generation.
Precedes(d, e) ==
    /\ d.id <= e.id /\ d.gen <= e.gen
    /\ d.gen = e.gen => d.enabled = e.enabled
    /\ d.id = e.id \/ (Exists(d) /\ d.gen = e.gen) => d = e

\* What is on the disk and in the cache was published before the document
\* under the path.
FilesOrdered ==
    /\ ~Exists(file) => file = AbsentDoc
    /\ Precedes(AbsentDoc, durable)
    /\ Precedes(durable, file)
    /\ Precedes(cache, file)

\* The answer a writer gives or is about to give (ResponsesConsistent).
AnswerRight(w) ==
    /\ writer[w].kind = "cli" =>
           /\ writer[w].doc.enabled = writer[w].want
           /\ writer[w].doc.gen = writer[w].base.gen
                  + (IF writer[w].base.enabled = writer[w].want THEN 0 ELSE 1)
    /\ writer[w].kind = "dashboard" =>
           IF writer[w].published THEN writer[w].doc # writer[w].before
           ELSE Exists(writer[w].before) => writer[w].doc = writer[w].before

\* The document a writer has prepared is the next one after the visible one.
NextDoc(w) ==
    /\ writer[w].doc.id = file.id + 1
    /\ writer[w].doc.enabled = writer[w].want
    /\ IF writer[w].kind = "install"
       THEN file = AbsentDoc /\ writer[w].doc.gen = 0 /\ writer[w].want
       ELSE /\ writer[w].doc.gen = file.gen + 1
            /\ writer[w].base.gen = file.gen
            /\ writer[w].want # file.enabled

Live == {"asked", "looked"} \cup Locked

\* What a writer read is older than what is visible, what it published is
\* visible as long as it holds the lock, and survives once it was answered.
WriterInv(w) ==
    /\ writer[w].kind = "install" => writer[w].want
    /\ writer[w].pc \in Live => Precedes(writer[w].base, file)
    /\ writer[w].pc \in Live \ {"asked"} /\ writer[w].kind = "dashboard" =>
           /\ Precedes(writer[w].base, writer[w].before)
           /\ Precedes(writer[w].before, file)
    /\ writer[w].pc \in ({"idle"} \cup Live) \ {"replaced", "synced"} =>
           ~writer[w].published
    /\ writer[w].pc = "prepared" => NextDoc(w)
    /\ writer[w].pc \in {"replaced", "synced"} =>
           writer[w].doc = file /\ writer[w].published /\ AnswerRight(w)
    /\ writer[w].pc = "synced" => durable = file
    /\ writer[w].pc = "done" => AnswerRight(w)
    /\ Acknowledged(w) => Precedes(writer[w].doc, durable)

\* An acknowledged document is older than the one of any other writer that
\* holds the lock after its own publication, and differs from any other
\* acknowledged one.
Distinct(v, w) ==
    v # w /\ Acknowledged(v) =>
        /\ writer[w].pc \in {"replaced", "synced"} => writer[v].doc.id < writer[w].doc.id
        /\ Acknowledged(w) => writer[v].doc # writer[w].doc

\* A read knows one value that the switch had, and that it was enabled at some
\* time if the file is no longer the one it saw first.
ReaderInv(r) ==
    /\ Reading(r) =>
           /\ reader[r].before # 0 /\ reader[r].before <= file.id
           /\ file.enabled \in reader[r].seen
           /\ file.id # reader[r].before => TRUE \in reader[r].seen
    /\ reader[r].pc = "hit" => reader[r].doc.id = reader[r].before
    /\ reader[r].pc = "read" => reader[r].before <= reader[r].doc.id
    /\ reader[r].pc \in {"hit", "read"} => Precedes(reader[r].doc, file)
    /\ reader[r].pc = "done" => reader[r].result \in reader[r].seen

IInv ==
    /\ TypeOK
    /\ FilesOrdered
    /\ \A w \in Writers : WriterInv(w)
    /\ \A v, w \in Writers : Distinct(v, w)
    /\ \A r \in Readers : ReaderInv(r)
LEMMA InitInv == Init => IInv
<1> SUFFICES ASSUME Init PROVE IInv
  OBVIOUS
<1>0. /\ IdleWriter.pc = "idle" /\ IdleWriter.kind = "cli" /\ ~IdleWriter.published
      /\ IdleReader.pc = "idle"
  BY DEF IdleWriter, IdleReader
<1>1. AbsentDoc \in Doc /\ IdleWriter \in Writer /\ IdleReader \in Reader
  BY DEF AbsentDoc, Doc, IdleWriter, Writer, IdleReader, Reader, Kinds
<1>2. /\ \A w \in Writers : writer[w] = IdleWriter
      /\ \A r \in Readers : reader[r] = IdleReader
  BY DEF Init
<1>3. TypeOK
  BY <1>0, <1>1, <1>2, NoOneAssumption DEF Init, TypeOK, Locked
<1>4. FilesOrdered
  BY DEF Init, FilesOrdered, Precedes, AbsentDoc
<1>5. \A w \in Writers : WriterInv(w)
  BY <1>0, <1>2 DEF WriterInv, Live, Locked, Acknowledged
<1>6. \A v, w \in Writers : Distinct(v, w)
  BY <1>0, <1>2 DEF Distinct, Acknowledged
<1>7. \A r \in Readers : ReaderInv(r)
  BY <1>0, <1>2 DEF ReaderInv, Reading
<1> QED
  BY <1>3, <1>4, <1>5, <1>6, <1>7 DEF IInv

-----------------------------------------------------------------------------
(* The order of documents                                                  *)

LEMMA PrecedesItself ==
    ASSUME NEW d \in Doc PROVE Precedes(d, d)
BY DEF Precedes, Doc

LEMMA PrecedesTransitive ==
    ASSUME NEW d \in Doc, NEW e \in Doc, NEW f \in Doc,
           Precedes(d, e), Precedes(e, f)
    PROVE  Precedes(d, f)
BY DEF Precedes, Doc, Exists

-----------------------------------------------------------------------------
(* Steps that leave the visible document alone                             *)

\* What the step of a writer leaves of the invariant of another one: the
\* documents on the disk change only under the lock.
LEMMA OtherWriter ==
    ASSUME NEW v \in Writers, WriterInv(v), writer'[v] = writer[v],
           writer[v] \in Writer,
           file \in Doc, durable \in Doc, file' \in Doc, durable' \in Doc,
           Precedes(file, file'), Precedes(durable, durable'),
           writer[v].pc \in Locked => file' = file /\ durable' = durable
    PROVE  WriterInv(v)'
<1> DEFINE x == writer[v]
<1>1. x.base \in Doc /\ x.before \in Doc /\ x.doc \in Doc
  BY DEF Writer
<1>2. x.pc \in Live => Precedes(x.base, file')
  BY <1>1, PrecedesTransitive DEF WriterInv
<1>3. x.pc \in Live \ {"asked"} /\ x.kind = "dashboard" =>
          Precedes(x.base, x.before) /\ Precedes(x.before, file')
  BY <1>1, PrecedesTransitive DEF WriterInv
<1>4. Acknowledged(v) => Precedes(x.doc, durable')
  BY <1>1, PrecedesTransitive DEF WriterInv
<1>5. AnswerRight(v)' = AnswerRight(v) /\ Acknowledged(v)' = Acknowledged(v)
  BY DEF AnswerRight, Acknowledged
<1>6. x.pc = "prepared" => NextDoc(v)'
  BY DEF WriterInv, NextDoc, Locked
<1>7. x.pc \in {"replaced", "synced"} => x.doc = file'
  BY DEF WriterInv, Locked
<1>8. x.pc = "synced" => durable' = file'
  BY DEF WriterInv, Locked
<1> QED
  BY <1>2, <1>3, <1>4, <1>5, <1>6, <1>7, <1>8 DEF WriterInv

\* A step of a writer that publishes nothing preserves the invariant when it
\* preserves the writer's own part of it.
LEMMA QuietStep ==
    ASSUME IInv, NEW w \in Writers, NEW x \in Writer,
           writer' = [writer EXCEPT ![w] = x],
           file' = file, cache' = cache, reader' = reader, losses' = losses,
           \/ durable' = durable
           \/ durable' = file /\ writer[w].pc \in Locked,
           lock' = IF x.pc \in Locked THEN w
                   ELSE IF writer[w].pc \in Locked THEN NoOne ELSE lock,
           x.pc \in Locked => lock \in {w, NoOne},
           x.pc \in {"replaced", "synced", "done"} =>
               \/ writer[w].pc \in {"replaced", "synced"} /\ x.doc = writer[w].doc
               \/ x.pc = "done" /\ ~x.published,
           WriterInv(w)'
    PROVE  IInv'
<1>1. /\ writer \in [Writers -> Writer] /\ lock \in Writers \cup {NoOne}
      /\ file \in Doc /\ durable \in Doc /\ cache \in Doc
  BY DEF IInv, TypeOK
<1>2. /\ writer' \in [Writers -> Writer] /\ writer'[w] = x
      /\ \A v \in Writers \ {w} : writer'[v] = writer[v]
  BY <1>1
<1>3. \A v \in Writers \ {w} : /\ writer[v].pc \in Locked <=> lock = v
                              /\ lock' = v <=> lock = v
  BY <1>1, NoOneAssumption DEF IInv, TypeOK
<1>4. TypeOK'
  <2>1. \A v \in Writers : writer'[v].pc \in Locked <=> lock' = v
    BY <1>1, <1>2, <1>3, NoOneAssumption DEF IInv, TypeOK
  <2>2. lock' \in Writers \cup {NoOne} /\ durable' \in Doc
    BY <1>1
  <2> QED
    BY <1>1, <1>2, <2>1, <2>2 DEF IInv, TypeOK
<1>5. Precedes(durable, durable') /\ Precedes(file, file')
  BY <1>1, PrecedesItself DEF IInv, FilesOrdered
<1>6. FilesOrdered'
  <2>1. AbsentDoc \in Doc
    BY DEF AbsentDoc, Doc
  <2>2. Precedes(AbsentDoc, file)
    BY <1>1, <2>1, PrecedesTransitive DEF IInv, FilesOrdered
  <2> QED
    BY <1>1, <2>2, PrecedesItself DEF IInv, FilesOrdered
<1>7. \A v \in Writers : WriterInv(v)'
  <2> SUFFICES ASSUME NEW v \in Writers \ {w} PROVE WriterInv(v)'
    OBVIOUS
  <2>1. writer[v].pc \in Locked => durable' = durable
    BY <1>1, <1>3 DEF IInv, TypeOK
  <2>2. durable' \in Doc /\ file' \in Doc /\ WriterInv(v) /\ writer[v] \in Writer
    BY <1>1 DEF IInv
  <2> QED
    BY <1>1, <1>2, <1>5, <2>1, <2>2, OtherWriter
<1>8. \A u, v \in Writers : Distinct(u, v)'
  <2> SUFFICES ASSUME NEW u \in Writers, NEW v \in Writers, u # v,
                      Acknowledged(u)'
               PROVE  /\ writer'[v].pc \in {"replaced", "synced"} =>
                             writer'[u].doc.id < writer'[v].doc.id
                      /\ Acknowledged(v)' => writer'[u].doc # writer'[v].doc
    BY DEF Distinct
  <2>0. Distinct(u, v) /\ Distinct(v, u)
    BY DEF IInv
  <2>00. writer[u].doc.id \in Nat /\ writer[v].doc.id \in Nat
    BY <1>1 DEF Writer, Doc
  <2>1. CASE u # w /\ v # w
    BY <1>2, <2>0, <2>1 DEF Distinct, Acknowledged
  <2>2. CASE v = w
    BY <1>2, <2>0, <2>00, <2>2 DEF Distinct, Acknowledged
  <2>3. CASE u = w
    <3>1. writer[w].pc \in {"replaced", "synced"} /\ writer'[w].doc = writer[w].doc
      BY <1>2, <2>3 DEF Acknowledged
    <3>2. writer'[v] = writer[v] /\ writer[v].pc \notin Locked
      BY <1>2, <1>3, <2>3, <3>1 DEF IInv, TypeOK, Locked
    <3> QED
      BY <2>0, <2>00, <2>3, <3>1, <3>2 DEF Distinct, Acknowledged, Locked
  <2> QED
    BY <2>1, <2>2, <2>3
<1>9. \A r \in Readers : ReaderInv(r)'
  BY DEF IInv, ReaderInv, Reading
<1> QED
  BY <1>4, <1>6, <1>7, <1>8, <1>9 DEF IInv

-----------------------------------------------------------------------------
(* The steps of a writer that publish nothing                              *)

\* A writer of the invariant and what is known of the documents it holds.
LEMMA WriterFacts ==
    ASSUME IInv, NEW w \in Writers
    PROVE  /\ writer \in [Writers -> Writer] /\ writer[w] \in Writer
           /\ file \in Doc /\ durable \in Doc /\ WriterInv(w)
           /\ FilesOrdered /\ Precedes(file, file)
           /\ writer[w].pc \in Locked <=> lock = w
BY PrecedesItself DEF IInv, TypeOK

LEMMA AskInv == ASSUME IInv, NEW w \in Writers, Ask(w) PROVE IInv'
<1>1. PICK x \in Writer :
          /\ writer' = [writer EXCEPT ![w] = x]
          /\ x.pc \in {"asked", "looked"}
          /\ x.pc = "looked" => x.kind # "dashboard"
          /\ x.kind = "install" => x.want
          /\ x.base = file /\ x.published = writer[w].published
  <2>1. PICK kind \in Kinds, want \in BOOLEAN :
            /\ kind = "install" => want
            /\ writer' = [writer EXCEPT ![w] = [@ EXCEPT
                   !.pc = IF kind = "dashboard" THEN "asked" ELSE "looked",
                   !.kind = kind, !.want = want, !.base = file]]
    BY DEF Ask
  <2> DEFINE pc == IF kind = "dashboard" THEN "asked" ELSE "looked"
             x == [writer[w] EXCEPT !.pc = pc, !.kind = kind, !.want = want,
                                    !.base = file]
  <2>2. x \in Writer /\ writer' = [writer EXCEPT ![w] = x]
    BY <2>1, WriterFacts DEF Writer
  <2>3. /\ x.pc = pc /\ x.kind = kind /\ x.want = want /\ x.base = file
        /\ x.published = writer[w].published
    BY WriterFacts DEF Writer
  <2>4. x.pc \in {"asked", "looked"} /\ (x.pc = "looked" => x.kind # "dashboard")
    BY <2>3
  <2>5. x.kind = "install" => x.want
    BY <2>1, <2>3
  <2> QED
    BY <2>2, <2>3, <2>4, <2>5
<1>2. writer'[w] = x
  BY <1>1, WriterFacts
<1>3. /\ writer[w].pc = "idle" /\ lock' = lock
      /\ UNCHANGED <<file, durable, reader, cache, losses>>
  BY DEF Ask
<1>4. ~x.published
  BY <1>1, <1>3, WriterFacts DEF WriterInv
<1>5. WriterInv(w)'
  BY <1>1, <1>2, <1>3, <1>4, WriterFacts DEF WriterInv, Acknowledged, Live, Locked
<1>6. /\ x.pc \notin Locked /\ x.pc \notin {"replaced", "synced", "done"}
      /\ writer[w].pc \notin Locked
  BY <1>1, <1>3 DEF Locked
<1> QED
  BY <1>1, <1>3, <1>5, <1>6, QuietStep

LEMMA LookInv == ASSUME IInv, NEW w \in Writers, Look(w) PROVE IInv'
<1> DEFINE x == [writer[w] EXCEPT !.pc = "looked", !.before = file]
<1>1. x \in Writer /\ writer' = [writer EXCEPT ![w] = x] /\ writer'[w] = x
  BY WriterFacts DEF Writer, Look
<1>2. WriterInv(w)'
  BY <1>1, WriterFacts DEF Look, Writer, WriterInv, Acknowledged, Live, Locked
<1> QED
  BY <1>1, <1>2, QuietStep, WriterFacts DEF Look, Writer, Locked

LEMMA AcquireInv == ASSUME IInv, NEW w \in Writers, Acquire(w) PROVE IInv'
<1> DEFINE x == [writer[w] EXCEPT !.pc = "locked"]
<1>1. x \in Writer /\ writer' = [writer EXCEPT ![w] = x] /\ writer'[w] = x
  BY WriterFacts DEF Writer, Acquire, Locked
<1>2. WriterInv(w)'
  BY <1>1, WriterFacts DEF Acquire, Writer, WriterInv, Acknowledged, Live, Locked
<1> QED
  BY <1>1, <1>2, QuietStep, WriterFacts DEF Acquire, Writer, Locked, LockIsFree

\* A writer that gives up, or is ended, keeps what it has read.
LEMMA EndInv ==
    ASSUME IInv, NEW w \in Writers, NEW pc \in {"busy", "conflict", "failed", "dead"},
           writer' = [writer EXCEPT ![w].pc = pc],
           UNCHANGED <<file, durable, reader, cache, losses>>,
           lock' = IF writer[w].pc \in Locked THEN NoOne ELSE lock
    PROVE  IInv'
<1> DEFINE x == [writer[w] EXCEPT !.pc = pc]
<1>1. x \in Writer /\ writer' = [writer EXCEPT ![w] = x] /\ writer'[w] = x
  BY WriterFacts DEF Writer, Ended
<1>2. x.pc = pc /\ x.kind = writer[w].kind /\ x.want = writer[w].want
  BY WriterFacts DEF Writer
<1>3. WriterInv(w)'
  BY <1>1, <1>2, WriterFacts DEF WriterInv, Acknowledged, Live, Locked
<1> QED
  BY <1>1, <1>2, <1>3, QuietStep, WriterFacts DEF Locked

LEMMA BusyInv == ASSUME IInv, NEW w \in Writers, Busy(w) PROVE IInv'
BY EndInv DEF Busy, Locked

LEMMA ConflictInv == ASSUME IInv, NEW w \in Writers, Conflict(w) PROVE IInv'
BY EndInv DEF Conflict, Leave, Locked

LEMMA PublishFailsInv == ASSUME IInv, NEW w \in Writers, PublishFails(w) PROVE IInv'
BY EndInv DEF PublishFails, Leave, Locked

LEMMA KilledInv == ASSUME IInv, NEW w \in Writers, Killed(w) PROVE IInv'
BY EndInv, WriterFacts DEF Killed

\* A writer of a request whose generation is the visible one has based it on
\* the visible value, and the page it compares with is as old.
LEMMA ExpectedBase ==
    ASSUME IInv, NEW w \in Writers, writer[w].pc = "locked", Expected(w)
    PROVE  /\ writer[w].kind # "install" =>
                  writer[w].base.gen = file.gen /\ writer[w].base.enabled = file.enabled
           /\ writer[w].kind = "dashboard" =>
                  /\ writer[w].before.gen = file.gen
                  /\ Exists(writer[w].before) => writer[w].before = file
<1>1. writer[w].base \in Doc /\ writer[w].before \in Doc /\ file \in Doc
  BY WriterFacts DEF Writer
<1>2. Precedes(writer[w].base, file)
  BY WriterFacts DEF WriterInv, Live, Locked
<1>3. writer[w].kind = "dashboard" =>
          Precedes(writer[w].base, writer[w].before) /\ Precedes(writer[w].before, file)
  BY WriterFacts DEF WriterInv, Live, Locked
<1> QED
  BY <1>1, <1>2, <1>3 DEF Expected, Precedes, Doc

LEMMA KeepInv == ASSUME IInv, NEW w \in Writers, Keep(w) PROVE IInv'
<1> DEFINE x == [writer[w] EXCEPT !.pc = "done", !.doc = file]
<1>1. x \in Writer /\ writer' = [writer EXCEPT ![w] = x] /\ writer'[w] = x
  BY WriterFacts DEF Writer, Keep, Ended
<1>2. /\ x.pc = "done" /\ x.doc = file /\ x.kind = writer[w].kind
      /\ x.want = writer[w].want /\ x.base = writer[w].base
      /\ x.before = writer[w].before /\ x.published = writer[w].published
  BY WriterFacts DEF Writer
<1>3. /\ writer[w].pc = "locked" /\ ~writer[w].published /\ Expected(w)
      /\ writer[w].kind # "install" => file.enabled = writer[w].want
  BY WriterFacts DEF Keep, IsNoop, WriterInv, Live, Locked
<1>4. AnswerRight(w)'
  <2>1. file.gen \in Nat /\ writer[w].want \in BOOLEAN
    BY WriterFacts DEF Doc, Writer
  <2>2. writer'[w].kind = writer[w].kind /\ writer'[w].doc = file
    BY <1>1, <1>2
  <2>3. CASE writer[w].kind = "cli"
    <3>1. /\ writer[w].base.gen = file.gen /\ writer[w].base.enabled = writer[w].want
          /\ file.enabled = writer[w].want
      BY <1>3, <2>3, ExpectedBase
    <3>2. /\ writer'[w].base = writer[w].base /\ writer'[w].want = writer[w].want
      BY <1>1, <1>2
    <3> QED
      BY <2>1, <2>2, <2>3, <3>1, <3>2 DEF AnswerRight
  <2>4. CASE writer[w].kind = "dashboard"
    <3>1. Exists(writer[w].before) => writer[w].before = file
      BY <1>3, <2>4, ExpectedBase
    <3>2. writer'[w].before = writer[w].before /\ ~writer'[w].published
      BY <1>1, <1>2, <1>3
    <3> QED
      BY <2>2, <2>4, <3>1, <3>2 DEF AnswerRight
  <2> QED
    BY <2>2, <2>3, <2>4 DEF AnswerRight
<1>5. WriterInv(w)'
  BY <1>1, <1>2, <1>3, <1>4, WriterFacts DEF WriterInv, Acknowledged, Live, Locked
<1>6. lock' = NoOne /\ UNCHANGED <<file, durable, reader, cache, losses>>
  BY DEF Keep
<1> QED
  BY <1>1, <1>2, <1>3, <1>5, <1>6, QuietStep DEF Locked

LEMMA PrepareInv == ASSUME IInv, NEW w \in Writers, Prepare(w) PROVE IInv'
<1> DEFINE d == [id |-> file.id + 1, enabled |-> writer[w].want,
                 gen |-> NextGeneration(w)]
           x == [writer[w] EXCEPT !.pc = "prepared", !.doc = d]
<1>1. file.id \in Nat /\ file.gen \in Nat /\ writer[w].want \in BOOLEAN
  BY WriterFacts DEF Doc, Writer
<1>2. d \in Doc
  BY <1>1 DEF Doc, NextGeneration
<1>3. x \in Writer /\ writer' = [writer EXCEPT ![w] = x] /\ writer'[w] = x
  BY <1>2, WriterFacts DEF Writer, Prepare, Locked
<1>4. /\ x.pc = "prepared" /\ x.doc = d /\ x.kind = writer[w].kind
      /\ x.want = writer[w].want /\ x.base = writer[w].base
      /\ x.before = writer[w].before /\ x.published = writer[w].published
  BY WriterFacts DEF Writer
<1>5. /\ writer[w].pc = "locked" /\ ~writer[w].published /\ Expected(w) /\ ~IsNoop(w)
      /\ UNCHANGED <<file, durable, lock, reader, cache, losses>>
  BY WriterFacts DEF Prepare, WriterInv, Live, Locked
<1>6. NextDoc(w)'
  <2>1. /\ d.id = file.id + 1 /\ d.enabled = writer[w].want
        /\ d.gen = IF writer[w].kind = "install" THEN 0 ELSE file.gen + 1
    BY DEF NextGeneration
  <2>2. /\ writer'[w].doc = d /\ writer'[w].kind = writer[w].kind
        /\ writer'[w].want = writer[w].want /\ writer'[w].base = writer[w].base
        /\ file' = file
    BY <1>3, <1>4, <1>5
  <2> HIDE DEF d, x
  <2>3. CASE writer[w].kind = "install"
    <3>1. file = AbsentDoc /\ writer[w].want
      BY <1>5, <2>3, WriterFacts DEF IsNoop, FilesOrdered, WriterInv
    <3> QED
      BY <2>1, <2>2, <2>3, <3>1 DEF NextDoc
  <2>4. CASE writer[w].kind # "install"
    <3>1. writer[w].base.gen = file.gen /\ writer[w].want # file.enabled
      BY <1>5, <2>4, ExpectedBase DEF IsNoop
    <3> QED
      BY <2>1, <2>2, <2>4, <3>1 DEF NextDoc
  <2> QED
    BY <2>3, <2>4
<1> HIDE DEF d
<1>7. WriterInv(w)'
  BY <1>3, <1>4, <1>5, <1>6, WriterFacts DEF WriterInv, Acknowledged, Live, Locked
<1> QED
  BY <1>3, <1>4, <1>5, <1>7, QuietStep, WriterFacts DEF Locked

LEMMA FsyncParentInv == ASSUME IInv, NEW w \in Writers, FsyncParent(w) PROVE IInv'
<1> DEFINE x == [writer[w] EXCEPT !.pc = "synced"]
<1>1. x \in Writer /\ writer' = [writer EXCEPT ![w] = x] /\ writer'[w] = x
  BY WriterFacts DEF Writer, FsyncParent, Locked
<1>2. /\ x.pc = "synced" /\ x.doc = writer[w].doc /\ x.kind = writer[w].kind
      /\ x.want = writer[w].want /\ x.base = writer[w].base
      /\ x.before = writer[w].before /\ x.published = writer[w].published
  BY WriterFacts DEF Writer
<1>3. /\ writer[w].pc = "replaced" /\ durable' = file
      /\ UNCHANGED <<file, lock, reader, cache, losses>>
  BY DEF FsyncParent
<1>4. AnswerRight(w)'
  BY <1>1, <1>2, <1>3, WriterFacts DEF WriterInv, AnswerRight
<1>5. WriterInv(w)'
  BY <1>1, <1>2, <1>3, <1>4, WriterFacts DEF WriterInv, Acknowledged, Live, Locked
<1> QED
  BY <1>1, <1>2, <1>3, <1>5, QuietStep, WriterFacts DEF Locked

LEMMA ConfirmInv == ASSUME IInv, NEW w \in Writers, Confirm(w) PROVE IInv'
<1> DEFINE x == [writer[w] EXCEPT !.pc = "done"]
<1>1. /\ writer[w].pc = "synced" /\ lock' = NoOne
      /\ UNCHANGED <<file, durable, reader, cache, losses>>
  BY DEF Confirm, Leave
<1>2. file = writer[w].doc /\ durable = file
  BY <1>1, WriterFacts DEF WriterInv
<1>3. x \in Writer /\ writer' = [writer EXCEPT ![w] = x] /\ writer'[w] = x
  BY <1>2, WriterFacts DEF Writer, Confirm, Leave, Ended
<1>4. /\ x.pc = "done" /\ x.doc = writer[w].doc /\ x.kind = writer[w].kind
      /\ x.want = writer[w].want /\ x.base = writer[w].base
      /\ x.before = writer[w].before /\ x.published = writer[w].published
  BY WriterFacts DEF Writer
<1>5. AnswerRight(w)'
  BY <1>1, <1>3, <1>4, WriterFacts DEF WriterInv, AnswerRight
<1>6. WriterInv(w)'
  BY <1>1, <1>2, <1>3, <1>4, <1>5, WriterFacts DEF WriterInv, Acknowledged, Live, Locked
<1> QED
  BY <1>1, <1>3, <1>4, <1>6, QuietStep DEF Locked

-----------------------------------------------------------------------------
(* The publication                                                         *)

\* A prepared document comes after the visible one and flips the switch, except
\* for the default that is materialized.
LEMMA NextDocFollows ==
    ASSUME IInv, NEW w \in Writers, NextDoc(w)
    PROVE  /\ writer[w].doc \in Doc
           /\ file.id < writer[w].doc.id
           /\ Precedes(file, writer[w].doc)
           /\ Exists(file) => writer[w].doc.enabled # file.enabled
<1>1. file \in Doc /\ writer[w].doc \in Doc
  BY WriterFacts DEF Writer
<1>2. AbsentDoc.id = 0 /\ AbsentDoc.gen = 0 /\ AbsentDoc.enabled = TRUE
  BY DEF AbsentDoc
<1>3. file.id \in Nat /\ file.gen \in Nat
  BY <1>1 DEF Doc
<1>4. CASE writer[w].kind = "install"
  <2>1. /\ file = AbsentDoc /\ writer[w].doc.id = file.id + 1 /\ writer[w].doc.gen = 0
        /\ writer[w].doc.enabled = TRUE
    <3>1. writer[w].want \in BOOLEAN
      BY WriterFacts DEF Writer
    <3> QED
      BY <1>4, <3>1 DEF NextDoc
  <2>2. ~Exists(file)
    BY <1>2, <2>1 DEF Exists
  <2>3. /\ file.id = 0 /\ writer[w].doc.id = 1
        /\ file.gen = 0 /\ writer[w].doc.gen = 0
    BY <1>2, <2>1
  <2>5. file.enabled = writer[w].doc.enabled
    BY <1>2, <2>1, Zenon
  <2>4. Precedes(file, writer[w].doc)
    BY <2>2, <2>3, <2>5 DEF Precedes
  <2> QED
    BY <1>1, <2>2, <2>3, <2>4
<1>5. CASE writer[w].kind # "install"
  <2>1. /\ writer[w].doc.id = file.id + 1 /\ writer[w].doc.gen = file.gen + 1
        /\ writer[w].doc.enabled # file.enabled
    BY <1>5 DEF NextDoc
  <2>2. /\ file.id # writer[w].doc.id /\ file.gen # writer[w].doc.gen
        /\ file.id <= writer[w].doc.id /\ file.gen <= writer[w].doc.gen
        /\ file.id < writer[w].doc.id
    BY <1>3, <2>1
  <2>3. Precedes(file, writer[w].doc)
    BY <2>2 DEF Precedes
  <2> QED
    BY <1>1, <2>1, <2>2, <2>3
<1> QED
  BY <1>4, <1>5

\* What a read knows stays right when the switch is flipped under it.
LEMMA ObserveInv ==
    ASSUME IInv, NEW d \in Doc, file.id < d.id, Precedes(file, d),
           Exists(file) => d.enabled # file.enabled,
           file' = d, Observe(d), NEW r \in Readers
    PROVE  ReaderInv(r)' /\ reader'[r] \in Reader
<1>1. /\ reader \in [Readers -> Reader] /\ reader[r] \in Reader /\ ReaderInv(r)
      /\ file \in Doc
  BY DEF IInv, TypeOK
<1>2. reader'[r] = IF Reading(r) THEN [reader[r] EXCEPT !.seen = @ \cup {d.enabled}]
                   ELSE reader[r]
  BY DEF Observe
<1>3. /\ file.id \in Nat /\ d.id \in Nat /\ file.enabled \in BOOLEAN
      /\ d.enabled \in BOOLEAN /\ reader[r].before \in Nat /\ reader[r].doc \in Doc
      /\ reader[r].seen \subseteq BOOLEAN
  BY <1>1 DEF Doc, Reader
<1>4. Precedes(reader[r].doc, file) => Precedes(reader[r].doc, d)
  BY <1>1, <1>3, PrecedesTransitive
<1>5. CASE Reading(r)
  <2>1. /\ reader'[r].pc = reader[r].pc /\ reader'[r].before = reader[r].before
        /\ reader'[r].doc = reader[r].doc
        /\ reader'[r].seen = reader[r].seen \cup {d.enabled}
        /\ reader'[r] \in Reader
    BY <1>1, <1>2, <1>3, <1>5 DEF Reader
  <2>2. /\ reader[r].before # 0 /\ reader[r].before <= file.id
        /\ file.enabled \in reader[r].seen
        /\ reader[r].pc \notin {"idle", "done"}
    BY <1>1, <1>5 DEF ReaderInv, Reading
  <2>3. Exists(file)
    BY <1>3, <2>2 DEF Exists
  <2>4. TRUE \in reader'[r].seen
    <3>1. CASE d.enabled = TRUE
      BY <2>1, <3>1
    <3>2. CASE d.enabled = FALSE
      BY <1>3, <2>1, <2>2, <2>3, <3>2
    <3> QED
      BY <1>3, <3>1, <3>2
  <2>5. Reading(r)' /\ d.enabled \in reader'[r].seen /\ reader'[r].before <= d.id
    BY <1>3, <2>1, <2>2 DEF Reading
  <2>6. /\ reader[r].pc = "hit" => reader[r].doc.id = reader[r].before
        /\ reader[r].pc = "read" => reader[r].before <= reader[r].doc.id
        /\ reader[r].pc \in {"hit", "read"} => Precedes(reader[r].doc, d)
    BY <1>1, <1>4 DEF ReaderInv
  <2> QED
    BY <2>1, <2>2, <2>4, <2>5, <2>6 DEF ReaderInv
<1>6. CASE ~Reading(r)
  BY <1>1, <1>2, <1>6 DEF ReaderInv, Reading
<1> QED
  BY <1>5, <1>6

LEMMA ReplaceInv == ASSUME IInv, NEW w \in Writers, Replace(w) PROVE IInv'
<1> DEFINE d == writer[w].doc
           x == [writer[w] EXCEPT !.pc = "replaced", !.published = TRUE]
<1>1. /\ writer[w].pc = "prepared" /\ file' = d /\ Observe(d)
      /\ UNCHANGED <<durable, lock, cache, losses>>
  BY DEF Replace
<1>2. x \in Writer /\ writer' = [writer EXCEPT ![w] = x] /\ writer'[w] = x
  BY WriterFacts DEF Writer, Replace, Locked
<1>3. /\ x.pc = "replaced" /\ x.doc = d /\ x.kind = writer[w].kind
      /\ x.want = writer[w].want /\ x.base = writer[w].base
      /\ x.before = writer[w].before /\ x.published = TRUE
  BY WriterFacts DEF Writer
<1>4. /\ d \in Doc /\ file.id < d.id /\ Precedes(file, d)
      /\ Exists(file) => d.enabled # file.enabled
      /\ NextDoc(w)
  BY <1>1, NextDocFollows, WriterFacts DEF WriterInv
<1>5. /\ file \in Doc /\ durable \in Doc /\ cache \in Doc /\ lock = w
      /\ file.id \in Nat /\ d.id \in Nat
  BY <1>1, <1>4, WriterFacts DEF IInv, TypeOK, Locked, Doc
<1>6. \A v \in Writers \ {w} : writer'[v] = writer[v] /\ writer[v].pc \notin Locked
  BY <1>2, <1>5, WriterFacts DEF IInv, TypeOK
<1>7. /\ writer[w].base \in Doc /\ writer[w].before \in Doc
      /\ Precedes(writer[w].base, file)
      /\ writer[w].kind = "dashboard" =>
             /\ Precedes(writer[w].base, writer[w].before)
             /\ Precedes(writer[w].before, file)
      /\ writer[w].kind = "install" => writer[w].want
  <2>1. writer[w].base \in Doc /\ writer[w].before \in Doc
    BY WriterFacts DEF Writer
  <2>2. writer[w].pc \in Live /\ writer[w].pc \in Live \ {"asked"}
    BY <1>1 DEF Live, Locked
  <2> QED
    BY <2>1, <2>2, WriterFacts DEF WriterInv
<1>8. TypeOK'
  <2>1. \A r \in Readers : reader'[r] \in Reader
    BY <1>1, <1>4, ObserveInv
  <2>2. reader' \in [Readers -> Reader]
    BY <1>1, <2>1 DEF Observe
  <2>3. writer' \in [Writers -> Writer]
    BY <1>2, WriterFacts
  <2>4. \A v \in Writers : writer'[v].pc \in Locked <=> lock' = v
    BY <1>1, <1>2, <1>3, <1>5, <1>6 DEF Locked
  <2> QED
    BY <1>1, <1>4, <2>2, <2>3, <2>4 DEF IInv, TypeOK
<1>9. FilesOrdered'
  <2>1. Exists(d)
    BY <1>5, <1>4 DEF Exists
  <2>2. Precedes(durable, d) /\ Precedes(cache, d)
    BY <1>4, <1>5, PrecedesTransitive DEF IInv, FilesOrdered
  <2> QED
    BY <1>1, <2>1, <2>2 DEF IInv, FilesOrdered
<1>10. AnswerRight(w)'
  <2>1. /\ writer'[w].doc = d /\ writer'[w].kind = writer[w].kind
        /\ writer'[w].want = writer[w].want /\ writer'[w].base = writer[w].base
        /\ writer'[w].before = writer[w].before /\ writer'[w].published = TRUE
    BY <1>2, <1>3
  <2> HIDE DEF x
  <2>2. CASE writer[w].kind = "cli"
    <3>1. /\ d.enabled = writer[w].want /\ d.gen = file.gen + 1
          /\ writer[w].base.gen = file.gen /\ writer[w].want # file.enabled
      BY <1>4, <2>2 DEF NextDoc
    <3>2. writer[w].base.enabled = file.enabled
      BY <1>7, <3>1 DEF Precedes
    <3> QED
      BY <2>1, <2>2, <3>1, <3>2 DEF AnswerRight
  <2>3. CASE writer[w].kind = "dashboard"
    <3>1. writer[w].before.id <= file.id /\ writer[w].before.id \in Nat
      BY <1>7, <2>3 DEF Precedes, Doc
    <3>2. d # writer[w].before
      BY <1>4, <1>5, <3>1
    <3> QED
      BY <2>1, <2>3, <3>2 DEF AnswerRight
  <2> QED
    <3>1. writer'[w].kind \notin {"cli", "dashboard"} => AnswerRight(w)'
      BY DEF AnswerRight
    <3> QED
      BY <2>1, <2>2, <2>3, <3>1
<1>11. \A v \in Writers : WriterInv(v)'
  <2>1. WriterInv(w)'
    <3>1. Precedes(writer[w].base, d)
      BY <1>4, <1>5, <1>7, PrecedesTransitive
    <3>2. writer[w].kind = "dashboard" => Precedes(writer[w].before, d)
      BY <1>4, <1>5, <1>7, PrecedesTransitive
    <3> QED
      BY <1>1, <1>2, <1>3, <1>7, <1>10, <3>1, <3>2 DEF WriterInv, Acknowledged
  <2>2. ASSUME NEW v \in Writers \ {w} PROVE WriterInv(v)'
    <3>1. WriterInv(v) /\ writer[v] \in Writer /\ Precedes(durable, durable')
      BY <1>1, <1>5, WriterFacts, PrecedesItself
    <3> QED
      BY <1>1, <1>4, <1>5, <1>6, <3>1, OtherWriter
  <2> QED
    BY <2>1, <2>2
<1>12. \A u, v \in Writers : Distinct(u, v)'
  <2> SUFFICES ASSUME NEW u \in Writers, NEW v \in Writers, u # v,
                      Acknowledged(u)'
               PROVE  /\ writer'[v].pc \in {"replaced", "synced"} =>
                             writer'[u].doc.id < writer'[v].doc.id
                      /\ Acknowledged(v)' => writer'[u].doc # writer'[v].doc
    BY DEF Distinct
  <2>1. u # w /\ writer'[u] = writer[u] /\ Acknowledged(u)
    BY <1>2, <1>3, <1>6 DEF Acknowledged
  <2>2. CASE v = w
    <3>1. writer[u].doc \in Doc /\ Precedes(writer[u].doc, durable)
      BY <2>1, WriterFacts DEF WriterInv, Writer
    <3>2. Precedes(writer[u].doc, file)
      BY <1>5, <3>1, PrecedesTransitive DEF IInv, FilesOrdered
    <3>3. writer[u].doc.id < d.id
      BY <1>4, <1>5, <3>1, <3>2 DEF Precedes, Doc
    <3>4. writer'[v].pc = "replaced" /\ writer'[v].doc = d
      BY <1>2, <1>3, <2>2
    <3> QED
      BY <2>1, <3>3, <3>4 DEF Acknowledged
  <2>3. CASE v # w
    BY <1>6, <2>1, <2>3 DEF IInv, Distinct, Acknowledged
  <2> QED
    BY <2>2, <2>3
<1>13. \A r \in Readers : ReaderInv(r)'
  BY <1>1, <1>4, ObserveInv
<1> QED
  BY <1>8, <1>9, <1>11, <1>12, <1>13 DEF IInv

-----------------------------------------------------------------------------
(* The steps of a reader, and the loss of power                            *)

LEMMA ReaderFacts ==
    ASSUME IInv, NEW r \in Readers
    PROVE  /\ reader \in [Readers -> Reader] /\ reader[r] \in Reader
           /\ file \in Doc /\ cache \in Doc /\ ReaderInv(r)
           /\ FilesOrdered /\ Precedes(file, file)
           /\ file.id \in Nat /\ file.enabled \in BOOLEAN
           /\ reader[r].before \in Nat
           /\ reader[r].doc \in Doc /\ reader[r].doc.id \in Nat
<1>1. reader[r] \in Reader /\ file \in Doc
  BY DEF IInv, TypeOK
<1>2. reader[r].before \in Nat /\ reader[r].doc \in Doc
  BY <1>1 DEF Reader
<1>3. reader[r].doc.id \in Nat /\ file.id \in Nat /\ file.enabled \in BOOLEAN
  BY <1>1, <1>2 DEF Doc
<1> QED
  BY <1>1, <1>2, <1>3, PrecedesItself DEF IInv, TypeOK

LEMMA QuietRead ==
    ASSUME IInv, NEW r \in Readers, NEW x \in Reader,
           reader' = [reader EXCEPT ![r] = x],
           UNCHANGED <<file, durable, lock, writer, losses>>,
           cache' \in Doc, Precedes(cache', file),
           ReaderInv(r)'
    PROVE  IInv'
<1>1. reader' \in [Readers -> Reader] /\ \A q \in Readers \ {r} : reader'[q] = reader[q]
  BY ReaderFacts
<1>2. TypeOK'
  BY <1>1 DEF IInv, TypeOK
<1>3. FilesOrdered'
  BY DEF IInv, FilesOrdered
<1>4. \A w \in Writers : WriterInv(w)'
  BY DEF IInv, WriterInv, Acknowledged, AnswerRight, NextDoc
<1>5. \A v, w \in Writers : Distinct(v, w)'
  BY DEF IInv, Distinct, Acknowledged
<1>6. \A q \in Readers : ReaderInv(q)'
  BY <1>1 DEF IInv, ReaderInv, Reading
<1> QED
  BY <1>2, <1>3, <1>4, <1>5, <1>6 DEF IInv

\* A read begins and ends with a value that holds at the moment, or was enabled
\* because the file has changed.
LEMMA ReaderStepInv == ASSUME IInv, NEW r \in Readers, ReaderNext(r) PROVE IInv'
<1>1. IdleReader \in Reader /\ IdleReader.pc = "idle"
  BY DEF IdleReader, Reader, AbsentDoc, Doc
<1>2. CASE ReadAbsent(r)
  <2> DEFINE x == [IdleReader EXCEPT !.pc = "done", !.result = TRUE, !.seen = {file.enabled}]
  <2>1. x \in Reader /\ x.pc = "done" /\ x.result = TRUE /\ x.seen = {file.enabled}
    BY ReaderFacts DEF IdleReader, Reader, AbsentDoc, Doc
  <2>2. file.enabled = TRUE
    BY <1>2, ReaderFacts DEF ReadAbsent, FilesOrdered, AbsentDoc
  <2>3. reader' = [reader EXCEPT ![r] = x] /\ reader'[r] = x
    BY <1>2, ReaderFacts DEF ReadAbsent
  <2> HIDE DEF x
  <2>4. ReaderInv(r)'
    BY <2>1, <2>2, <2>3 DEF ReaderInv, Reading
  <2> QED
    BY <1>2, <2>1, <2>3, <2>4, QuietRead, ReaderFacts DEF ReadAbsent, FilesOrdered
<1>3. CASE Stat(r)
  <2> DEFINE x == [IdleReader EXCEPT !.pc = "stat", !.before = file.id,
                                     !.seen = {file.enabled}]
  <2>1. x \in Reader /\ x.pc = "stat" /\ x.before = file.id /\ x.seen = {file.enabled}
    BY ReaderFacts DEF IdleReader, Reader, AbsentDoc, Doc
  <2>2. reader' = [reader EXCEPT ![r] = x] /\ reader'[r] = x /\ file.id # 0
        /\ UNCHANGED <<file, durable, lock, writer, cache, losses>>
    BY <1>3, ReaderFacts DEF Stat, Exists
  <2> HIDE DEF x
  <2>3. ReaderInv(r)'
    <3>1. /\ reader'[r].pc = "stat" /\ reader'[r].before = file'.id
          /\ file'.enabled \in reader'[r].seen /\ file'.id <= file'.id /\ file'.id # 0
      BY <2>1, <2>2, ReaderFacts
    <3> QED
      BY <3>1 DEF ReaderInv
  <2> QED
    BY <2>1, <2>2, <2>3, QuietRead, ReaderFacts DEF FilesOrdered
<1>4. CASE CacheGet(r)
  <2> DEFINE x == [reader[r] EXCEPT !.pc = "hit", !.doc = cache]
  <2>1. /\ x \in Reader /\ x.pc = "hit" /\ x.doc = cache
        /\ x.before = reader[r].before /\ x.seen = reader[r].seen
    BY ReaderFacts DEF Reader
  <2>2. /\ reader' = [reader EXCEPT ![r] = x] /\ reader'[r] = x
        /\ reader[r].pc = "stat" /\ cache.id = reader[r].before
        /\ UNCHANGED <<file, durable, lock, writer, cache, losses>>
    BY <1>4, ReaderFacts DEF CacheGet, CacheMatches
  <2> HIDE DEF x
  <2>3. ReaderInv(r)'
    BY <2>1, <2>2, ReaderFacts DEF ReaderInv, Reading, FilesOrdered
  <2> QED
    BY <2>1, <2>2, <2>3, QuietRead, ReaderFacts DEF FilesOrdered
<1>5. ASSUME CacheMiss(r) \/ (ConfirmHit(r) /\ file.id # reader[r].before)
      PROVE  IInv'
  <2> DEFINE x == [reader[r] EXCEPT !.pc = "miss"]
  <2>1. /\ x \in Reader /\ x.pc = "miss"
        /\ x.before = reader[r].before /\ x.seen = reader[r].seen
    BY ReaderFacts DEF Reader
  <2>2. /\ reader' = [reader EXCEPT ![r] = x] /\ reader'[r] = x
        /\ reader[r].pc \in {"stat", "hit"}
        /\ UNCHANGED <<file, durable, lock, writer, cache, losses>>
    BY <1>5, ReaderFacts DEF CacheMiss, ConfirmHit
  <2> HIDE DEF x
  <2>3. ReaderInv(r)'
    BY <2>1, <2>2, ReaderFacts DEF ReaderInv, Reading
  <2> QED
    BY <2>1, <2>2, <2>3, QuietRead, ReaderFacts DEF FilesOrdered
<1>6. ASSUME NEW result \in BOOLEAN, result \in reader[r].seen,
             reader' = [reader EXCEPT ![r] = [@ EXCEPT !.pc = "done", !.result = result]],
             UNCHANGED <<file, durable, lock, writer, losses>>,
             cache' \in Doc, Precedes(cache', file)
      PROVE  IInv'
  <2> DEFINE x == [reader[r] EXCEPT !.pc = "done", !.result = result]
  <2>1. x \in Reader /\ x.pc = "done" /\ x.result = result /\ x.seen = reader[r].seen
    BY ReaderFacts DEF Reader
  <2>2. reader' = [reader EXCEPT ![r] = x] /\ reader'[r] = x
    BY <1>6, ReaderFacts
  <2> HIDE DEF x
  <2>3. ReaderInv(r)'
    BY <1>6, <2>1, <2>2 DEF ReaderInv, Reading
  <2> QED
    BY <1>6, <2>1, <2>2, <2>3, QuietRead
<1>7. CASE ConfirmHit(r) /\ file.id = reader[r].before
  <2>1. reader[r].pc = "hit" /\ UNCHANGED <<file, durable, lock, writer, cache, losses>>
        /\ reader' = [reader EXCEPT ![r] = [@ EXCEPT !.pc = "done",
                                                     !.result = reader[r].doc.enabled]]
    BY <1>7 DEF ConfirmHit
  <2>2. reader[r].doc = file /\ file.enabled \in reader[r].seen
    BY <1>7, <2>1, ReaderFacts DEF ReaderInv, Reading, Precedes
  <2> QED
    BY <1>6, <2>1, <2>2, ReaderFacts DEF FilesOrdered
<1>8. CASE ReadFile(r)
  <2> DEFINE x == [reader[r] EXCEPT !.pc = "read", !.doc = file]
  <2>1. /\ x \in Reader /\ x.pc = "read" /\ x.doc = file
        /\ x.before = reader[r].before /\ x.seen = reader[r].seen
    BY ReaderFacts DEF Reader
  <2>2. /\ reader' = [reader EXCEPT ![r] = x] /\ reader'[r] = x
        /\ reader[r].pc = "miss"
        /\ UNCHANGED <<file, durable, lock, writer, cache, losses>>
    BY <1>8, ReaderFacts DEF ReadFile
  <2> HIDE DEF x
  <2>3. ReaderInv(r)'
    BY <2>1, <2>2, ReaderFacts DEF ReaderInv, Reading
  <2> QED
    BY <2>1, <2>2, <2>3, QuietRead, ReaderFacts DEF FilesOrdered
<1>9. CASE ReadStable(r)
  <2>1. /\ reader[r].pc = "read" /\ file.id = reader[r].before
        /\ cache' = reader[r].doc /\ UNCHANGED <<file, durable, lock, writer, losses>>
        /\ reader' = [reader EXCEPT ![r] = [@ EXCEPT !.pc = "done",
                                                     !.result = reader[r].doc.enabled]]
    BY <1>9 DEF ReadStable, Unchanged
  <2>2. Precedes(reader[r].doc, file) /\ file.id <= reader[r].doc.id
        /\ file.enabled \in reader[r].seen
    BY <2>1, ReaderFacts DEF ReaderInv, Reading
  <2>3. reader[r].doc = file
    BY <2>2, ReaderFacts DEF Precedes
  <2> QED
    BY <1>6, <2>1, <2>2, <2>3, ReaderFacts
<1>10. CASE FailEnabled(r)
  <2>1. /\ reader[r].pc = "read" /\ file.id # reader[r].before
        /\ UNCHANGED <<file, durable, lock, writer, cache, losses>>
        /\ reader' = [reader EXCEPT ![r] = [@ EXCEPT !.pc = "done", !.result = TRUE]]
    BY <1>10 DEF FailEnabled, Unchanged
  <2>2. TRUE \in reader[r].seen
    BY <2>1, ReaderFacts DEF ReaderInv, Reading
  <2> QED
    BY <1>6, <2>1, <2>2, ReaderFacts DEF FilesOrdered
<1>11. CASE Used(r)
  <2>1. reader' = [reader EXCEPT ![r] = IdleReader] /\ reader'[r] = IdleReader
        /\ UNCHANGED <<file, durable, lock, writer, cache, losses>>
    BY <1>11, ReaderFacts DEF Used
  <2>2. ReaderInv(r)'
    BY <1>1, <2>1 DEF ReaderInv, Reading
  <2> QED
    BY <1>1, <2>1, <2>2, QuietRead, ReaderFacts DEF FilesOrdered
<1> QED
  BY <1>2, <1>3, <1>4, <1>5, <1>7, <1>8, <1>9, <1>10, <1>11 DEF ReaderNext

LEMMA PowerLossInv == ASSUME IInv, PowerLoss PROVE IInv'
<1>1. /\ file \in Doc /\ durable \in Doc /\ file' \in Doc /\ durable' = file'
      /\ file' \in {file, durable} /\ cache' = AbsentDoc /\ lock' = NoOne
      /\ losses \in Nat /\ losses' = losses + 1
      /\ reader' = [r \in Readers |-> IdleReader]
  BY DEF IInv, TypeOK, PowerLoss
<1>2. Precedes(durable, durable') /\ Precedes(durable', file')
  BY <1>1, PrecedesItself DEF IInv, FilesOrdered
<1>3. ASSUME NEW w \in Writers
      PROVE  /\ writer'[w] \in Writer /\ writer'[w].pc \in Ended \cup {"idle"}
             /\ \/ writer'[w] = writer[w]
                \/ writer'[w].pc = "dead" /\ writer'[w].kind = writer[w].kind
                                         /\ writer'[w].want = writer[w].want
  <2>1. writer[w] \in Writer
    BY DEF IInv, TypeOK
  <2>2. writer'[w] = IF writer[w].pc \in Ended \cup {"idle"} THEN writer[w]
                     ELSE [writer[w] EXCEPT !.pc = "dead"]
    BY DEF PowerLoss
  <2>3. CASE writer[w].pc \in Ended \cup {"idle"}
    BY <2>1, <2>2, <2>3
  <2>4. CASE writer[w].pc \notin Ended \cup {"idle"}
    BY <2>1, <2>2, <2>4 DEF Writer, Ended
  <2> QED
    BY <2>3, <2>4
<1>4. TypeOK'
  <2>1. IdleReader \in Reader /\ AbsentDoc \in Doc
    BY DEF IdleReader, Reader, AbsentDoc, Doc
  <2>2. writer' \in [Writers -> Writer]
    BY <1>3 DEF PowerLoss
  <2>3. \A w \in Writers : writer'[w].pc \notin Locked /\ lock' # w
    BY <1>1, <1>3, NoOneAssumption DEF Locked, Ended
  <2> QED
    BY <1>1, <2>1, <2>2, <2>3 DEF TypeOK
<1>5. FilesOrdered'
  <2>1. AbsentDoc \in Doc
    BY DEF AbsentDoc, Doc
  <2>2. Precedes(AbsentDoc, file')
    BY <1>1, <2>1, PrecedesTransitive DEF IInv, FilesOrdered
  <2>3. ~Exists(file') => file' = AbsentDoc
    BY <2>2 DEF Precedes, Exists, AbsentDoc
  <2> QED
    BY <1>1, <1>2, <2>2, <2>3 DEF FilesOrdered
<1>6. ASSUME NEW w \in Writers PROVE Acknowledged(w)' => Acknowledged(w) /\ writer'[w] = writer[w]
  BY <1>3 DEF Acknowledged
<1>7. \A w \in Writers : WriterInv(w)'
  <2> SUFFICES ASSUME NEW w \in Writers PROVE WriterInv(w)'
    OBVIOUS
  <2>1. WriterInv(w) /\ writer[w] \in Writer
    BY WriterFacts
  <2>2. writer'[w].pc \notin Live /\ writer'[w].pc \notin {"prepared", "replaced", "synced"}
    BY <1>3 DEF Live, Locked, Ended
  <2>3. Acknowledged(w)' => Precedes(writer'[w].doc, durable')
    BY <1>1, <1>2, <1>6, <2>1, PrecedesTransitive DEF WriterInv, Writer
  <2>4. writer'[w].pc = "done" => AnswerRight(w)'
    BY <1>3, <2>1 DEF WriterInv, AnswerRight
  <2>5. writer'[w].pc = "idle" => ~writer'[w].published
    BY <1>3, <2>1 DEF WriterInv
  <2>6. writer'[w].kind = "install" => writer'[w].want
    BY <1>3, <2>1 DEF WriterInv
  <2> QED
    BY <2>2, <2>3, <2>4, <2>5, <2>6 DEF WriterInv
<1>8. \A v, w \in Writers : Distinct(v, w)'
  <2> SUFFICES ASSUME NEW v \in Writers, NEW w \in Writers PROVE Distinct(v, w)'
    OBVIOUS
  <2>1. writer'[w].pc \notin {"replaced", "synced"}
    BY <1>3 DEF Ended
  <2> QED
    BY <1>6, <2>1 DEF IInv, Distinct
<1>9. \A r \in Readers : ReaderInv(r)'
  <2>1. \A r \in Readers : reader'[r].pc = "idle"
    BY <1>1 DEF IdleReader
  <2> QED
    BY <2>1 DEF ReaderInv, Reading
<1> QED
  BY <1>4, <1>5, <1>7, <1>8, <1>9 DEF IInv

-----------------------------------------------------------------------------
(* The theorems                                                            *)

LEMMA NextInv == IInv /\ [Next]_vars => IInv'
<1> SUFFICES ASSUME IInv, [Next]_vars PROVE IInv'
  OBVIOUS
<1>1. ASSUME NEW w \in Writers, WriterNext(w) PROVE IInv'
  BY <1>1, AskInv, LookInv, AcquireInv, BusyInv, ConflictInv, KeepInv, PrepareInv,
     ReplaceInv, FsyncParentInv, ConfirmInv, PublishFailsInv, KilledInv DEF WriterNext
<1>2. CASE UNCHANGED vars
  BY <1>2 DEF vars, IInv, TypeOK, FilesOrdered, WriterInv, NextDoc, AnswerRight,
              Acknowledged, Distinct, ReaderInv, Reading
<1> QED
  BY <1>1, <1>2, ReaderStepInv, PowerLossInv DEF Next

\* The inductive invariant: what writers and readers hold is ordered as it was
\* published.
THEOREM Invariance == Spec => []IInv
BY InitInv, NextInv, PTL DEF Spec

\* Every variable keeps its type, and the lock is held by a writer between
\* its acquisition and its release only.
THEOREM TypeCorrect == Spec => []TypeOK
<1>1. IInv => TypeOK
  BY DEF IInv
<1> QED
  BY <1>1, Invariance, PTL

\* A read by a server never enforces a value that the switch did not have while
\* it was read.
THEOREM ReadsHeld == Spec => []ReadHeldDuring
<1>1. IInv => ReadHeldDuring
  BY DEF IInv, ReaderInv, ReadHeldDuring
<1> QED
  BY <1>1, Invariance, PTL

\* An answered change is neither lost to another writer nor to a loss of power.
THEOREM AnswersAreKept == Spec => []AnswersHold
<1>1. ASSUME IInv PROVE AcknowledgedSurvives
  <2> SUFFICES ASSUME NEW w \in Writers, Acknowledged(w)
               PROVE  /\ file.gen >= writer[w].doc.gen
                      /\ file.gen = writer[w].doc.gen => file.enabled = writer[w].doc.enabled
    BY DEF AcknowledgedSurvives
  <2>1. writer[w].doc \in Doc /\ durable \in Doc /\ file \in Doc
    BY <1>1, WriterFacts DEF Writer
  <2>2. Precedes(writer[w].doc, durable) /\ Precedes(durable, file)
    BY <1>1, WriterFacts DEF WriterInv, FilesOrdered
  <2>3. Precedes(writer[w].doc, file)
    BY <2>1, <2>2, PrecedesTransitive
  <2> QED
    BY <2>1, <2>3 DEF Precedes, Doc
<1>2. IInv => NoLostUpdate
  BY DEF IInv, Distinct, NoLostUpdate
<1>3. IInv => ResponsesConsistent
  BY DEF IInv, WriterInv, AnswerRight, ResponsesConsistent
<1>4. IInv => AnswersHold
  BY <1>1, <1>2, <1>3 DEF AnswersHold
<1> QED
  BY <1>4, Invariance, PTL

-----------------------------------------------------------------------------
(* The implementation of MasterSwitch                                      *)

\* The calls and the reads that MasterSwitch sees.
Calls == [w \in Writers |-> CallOf(writer[w])]
Reads == [r \in Readers |-> ReadOf(reader[r])]

\* The step of one writer changes one call.
LEMMA CallStep ==
    ASSUME IInv, NEW w \in Writers, NEW x, writer' = [writer EXCEPT ![w] = x]
    PROVE  Calls' = [Calls EXCEPT ![w] = CallOf(x)]
<1>1. /\ writer'[w] = x
      /\ \A v \in Writers : v # w => writer'[v] = writer[v]
  BY WriterFacts
<1>2. \A v \in Writers : Calls'[v] = [Calls EXCEPT ![w] = CallOf(x)][v]
  BY <1>1 DEF Calls
<1> QED
  BY <1>2 DEF Calls

\* The step of one reader changes one read.
LEMMA ReadStep ==
    ASSUME IInv, NEW r \in Readers, NEW x, reader' = [reader EXCEPT ![r] = x]
    PROVE  Reads' = [Reads EXCEPT ![r] = ReadOf(x)]
<1>1. /\ reader'[r] = x
      /\ \A q \in Readers : q # r => reader'[q] = reader[q]
  BY ReaderFacts
<1>2. \A q \in Readers : Reads'[q] = [Reads EXCEPT ![r] = ReadOf(x)][q]
  BY <1>1 DEF Reads
<1> QED
  BY <1>2 DEF Reads

\* A step of a writer inside its call is invisible.
LEMMA CallStutters ==
    ASSUME IInv, NEW w \in Writers, NEW x, writer' = [writer EXCEPT ![w] = x],
           CallOf(x) = CallOf(writer[w]),
           UNCHANGED <<file, durable, reader>>
    PROVE  UNCHANGED Switch!svars
<1>1. Calls' = Calls
  BY CallStep DEF Calls
<1>2. Reads' = Reads
  BY DEF Reads
<1> QED
  BY <1>1, <1>2 DEF Switch!svars, Calls, Reads

LEMMA ReadStutters ==
    ASSUME IInv, NEW r \in Readers, NEW x, reader' = [reader EXCEPT ![r] = x],
           ReadOf(x) = ReadOf(reader[r]),
           UNCHANGED <<file, durable, writer>>
    PROVE  UNCHANGED Switch!svars
<1>1. Reads' = Reads
  BY ReadStep DEF Reads
<1>2. Calls' = Calls
  BY DEF Calls
<1> QED
  BY <1>1, <1>2 DEF Switch!svars, Calls, Reads

LEMMA AskSeen == ASSUME IInv, NEW w \in Writers, Ask(w) PROVE Switch!Ask(w)
<1>1. PICK kind \in Kinds, want \in BOOLEAN :
          writer' = [writer EXCEPT ![w] = [@ EXCEPT
              !.pc = IF kind = "dashboard" THEN "asked" ELSE "looked",
              !.kind = kind, !.want = want, !.base = file]]
  BY DEF Ask
<1> DEFINE pc == IF kind = "dashboard" THEN "asked" ELSE "looked"
           x == [writer[w] EXCEPT !.pc = pc, !.kind = kind, !.want = want, !.base = file]
<1>2. writer' = [writer EXCEPT ![w] = x] /\ writer[w].pc = "idle"
      /\ UNCHANGED <<file, durable, reader>>
  BY <1>1, WriterFacts DEF Ask
<1>3. x.pc \in {"asked", "looked"} /\ x.kind = kind /\ x.want = want /\ x.base = file
  BY WriterFacts DEF Writer
<1> HIDE DEF x
<1>4. CallOf(x) = [state |-> "asked", kind |-> kind, want |-> want, base |-> file,
                   doc |-> AbsentDoc]
  BY <1>3 DEF CallOf, StateOf
<1>5. Calls[w].state = "none"
  BY <1>2 DEF Calls, CallOf, StateOf
<1>6. Calls' = [Calls EXCEPT ![w] = [state |-> "asked", kind |-> kind, want |-> want,
                                     base |-> file, doc |-> Switch!Default]]
  BY <1>2, <1>4, CallStep DEF Switch!Default, AbsentDoc
<1>7. Reads' = Reads
  BY <1>2 DEF Reads
<1> QED
  BY <1>2, <1>5, <1>6, <1>7 DEF Switch!Ask, Calls, Reads, Kinds

\* The dashboard looks again, the lock is taken, the temporary file is written.
LEMMA InsideCall ==
    ASSUME IInv, NEW w \in Writers, Look(w) \/ Acquire(w) \/ Prepare(w)
    PROVE  UNCHANGED Switch!svars
<1>1. PICK x : /\ writer' = [writer EXCEPT ![w] = x]
               /\ x.pc \in {"looked", "locked", "prepared"}
               /\ x.kind = writer[w].kind /\ x.want = writer[w].want
               /\ x.base = writer[w].base
  <2>1. CASE Look(w)
    <3> DEFINE x == [writer[w] EXCEPT !.pc = "looked", !.before = file]
    <3>1. writer' = [writer EXCEPT ![w] = x] /\ x.pc = "looked" /\ x.kind = writer[w].kind
          /\ x.want = writer[w].want /\ x.base = writer[w].base
      BY <2>1, WriterFacts DEF Look, Writer
    <3> QED
      BY <3>1
  <2>2. CASE Acquire(w)
    <3> DEFINE x == [writer[w] EXCEPT !.pc = "locked"]
    <3>1. writer' = [writer EXCEPT ![w] = x] /\ x.pc = "locked" /\ x.kind = writer[w].kind
          /\ x.want = writer[w].want /\ x.base = writer[w].base
      BY <2>2, WriterFacts DEF Acquire, Writer
    <3> QED
      BY <3>1
  <2>3. CASE Prepare(w)
    <3> DEFINE d == [id |-> file.id + 1, enabled |-> writer[w].want,
                     gen |-> NextGeneration(w)]
               x == [writer[w] EXCEPT !.pc = "prepared", !.doc = d]
    <3>1. writer' = [writer EXCEPT ![w] = x]
      BY <2>3, WriterFacts DEF Prepare
    <3> HIDE DEF d
    <3>2. x.pc = "prepared" /\ x.kind = writer[w].kind
          /\ x.want = writer[w].want /\ x.base = writer[w].base
      BY WriterFacts DEF Writer
    <3> QED
      BY <3>1, <3>2
  <2> QED
    BY <2>1, <2>2, <2>3
<1>2. writer[w].pc \in {"asked", "looked", "locked"} /\ UNCHANGED <<file, durable, reader>>
  BY DEF Look, Acquire, Prepare
<1>3. CallOf(x) = CallOf(writer[w])
  <2>1. StateOf(x) = "asked" /\ StateOf(writer[w]) = "asked"
    BY <1>1, <1>2 DEF StateOf
  <2> QED
    BY <1>1, <2>1 DEF CallOf
<1> QED
  BY <1>1, <1>2, <1>3, CallStutters

\* A step of a writer that only ends its call, with what it is told.
LEMMA CallEnds ==
    ASSUME IInv, NEW w \in Writers, NEW pc,
           writer' = [writer EXCEPT ![w].pc = pc],
           UNCHANGED <<file, durable, reader>>
    PROVE  /\ \E x : /\ x.pc = pc /\ x.kind = writer[w].kind /\ x.want = writer[w].want
                     /\ x.base = writer[w].base /\ x.doc = writer[w].doc
                     /\ x.published = writer[w].published
                     /\ Calls' = [Calls EXCEPT ![w] = CallOf(x)]
           /\ Reads' = Reads
<1> DEFINE x == [writer[w] EXCEPT !.pc = pc]
<1>1. writer' = [writer EXCEPT ![w] = x]
  BY WriterFacts
<1>2. /\ x.pc = pc /\ x.kind = writer[w].kind /\ x.want = writer[w].want
      /\ x.base = writer[w].base /\ x.doc = writer[w].doc
      /\ x.published = writer[w].published
  BY WriterFacts DEF Writer
<1> HIDE DEF x
<1>3. Calls' = [Calls EXCEPT ![w] = CallOf(x)]
  BY <1>1, CallStep
<1>4. Reads' = Reads
  BY DEF Reads
<1> QED
  BY <1>2, <1>3, <1>4

\* The deadline, an error or a kill: the caller does not hear what became of it.
LEMMA GiveUpSeen ==
    ASSUME IInv, NEW w \in Writers, Busy(w) \/ PublishFails(w) \/ Killed(w)
    PROVE  Switch!GiveUp(w)
<1>1. PICK pc \in {"busy", "failed", "dead"} : writer' = [writer EXCEPT ![w].pc = pc]
  BY DEF Busy, PublishFails, Killed, Leave
<1>2. /\ UNCHANGED <<file, durable, reader>>
      /\ writer[w].pc \in {"asked", "looked"} \cup Locked
  BY WriterFacts DEF Busy, PublishFails, Killed, Leave, Writer, Locked
<1>3. PICK x : /\ x.pc = pc /\ x.kind = writer[w].kind /\ x.want = writer[w].want
               /\ x.base = writer[w].base
               /\ Calls' = [Calls EXCEPT ![w] = CallOf(x)]
  BY <1>1, <1>2, CallEnds
<1>4. Reads' = Reads
  BY <1>2 DEF Reads
<1>5. CallOf(x) = [state |-> "unknown", kind |-> writer[w].kind, want |-> writer[w].want,
                   base |-> writer[w].base, doc |-> AbsentDoc]
  BY <1>1, <1>3 DEF CallOf, StateOf
<1>6. Calls[w].state \in {"asked", "changed"}
  BY <1>2 DEF Calls, CallOf, StateOf, Locked
<1>7. Switch!Default = AbsentDoc
  BY DEF Switch!Default, AbsentDoc
<1>8. Calls' = [Calls EXCEPT ![w] = Switch!Told(Calls[w], "unknown", Switch!Default)]
  BY <1>3, <1>5, <1>7 DEF Calls, CallOf, Switch!Told
<1> QED
  BY <1>2, <1>4, <1>6, <1>8 DEF Switch!GiveUp, Switch!Tell, Calls, Reads

\* Somebody else has changed the generation.
LEMMA RefuseSeen == ASSUME IInv, NEW w \in Writers, Conflict(w) PROVE Switch!Refuse(w)
<1>1. /\ writer' = [writer EXCEPT ![w].pc = "conflict"] /\ writer[w].pc = "locked"
      /\ ~Expected(w) /\ UNCHANGED <<file, durable, reader>>
  BY DEF Conflict, Leave
<1>2. PICK x : /\ x.pc = "conflict" /\ x.kind = writer[w].kind /\ x.want = writer[w].want
               /\ x.base = writer[w].base
               /\ Calls' = [Calls EXCEPT ![w] = CallOf(x)]
  BY <1>1, CallEnds
<1>3. Reads' = Reads
  BY <1>1 DEF Reads
<1>4. CallOf(x) = [state |-> "refused", kind |-> writer[w].kind, want |-> writer[w].want,
                   base |-> writer[w].base, doc |-> AbsentDoc]
  BY <1>2 DEF CallOf, StateOf
<1>5. /\ Calls[w].state = "asked" /\ Calls[w].kind = writer[w].kind
      /\ Calls[w].base = writer[w].base
  BY <1>1 DEF Calls, CallOf, StateOf
<1>6. Switch!Default = AbsentDoc
  BY DEF Switch!Default, AbsentDoc
<1>7. Calls' = [Calls EXCEPT ![w] = Switch!Told(Calls[w], "refused", Switch!Default)]
  BY <1>2, <1>4, <1>6 DEF Calls, CallOf, Switch!Told
<1>8. ~(Calls[w].kind = "install" \/ Calls[w].base.gen = file.gen)
  BY <1>1, <1>5 DEF Expected
<1> QED
  BY <1>1, <1>3, <1>5, <1>7, <1>8 DEF Switch!Refuse, Switch!Fresh, Switch!Tell, Calls, Reads

\* The document is as it is wanted, and is the answer.
LEMMA KeepSeen == ASSUME IInv, NEW w \in Writers, Keep(w) PROVE Switch!Keep(w)
<1> DEFINE x == [writer[w] EXCEPT !.pc = "done", !.doc = file]
<1>1. /\ writer' = [writer EXCEPT ![w] = x] /\ writer[w].pc = "locked"
      /\ Expected(w) /\ IsNoop(w) /\ UNCHANGED <<file, durable, reader>>
  BY WriterFacts DEF Keep
<1>2. /\ x.pc = "done" /\ x.kind = writer[w].kind /\ x.want = writer[w].want
      /\ x.base = writer[w].base /\ x.doc = file /\ ~x.published
  BY <1>1, WriterFacts DEF Writer, WriterInv, Live, Locked
<1> HIDE DEF x
<1>3. CallOf(x) = [state |-> "kept", kind |-> writer[w].kind, want |-> writer[w].want,
                   base |-> writer[w].base, doc |-> file]
  BY <1>2 DEF CallOf, StateOf
<1>4. /\ Calls[w].state = "asked" /\ Calls[w].kind = writer[w].kind
      /\ Calls[w].base = writer[w].base /\ Calls[w].want = writer[w].want
  BY <1>1 DEF Calls, CallOf, StateOf
<1>5. Calls' = [Calls EXCEPT ![w] = CallOf(x)]
  BY <1>1, CallStep
<1>6. Calls' = [Calls EXCEPT ![w] = Switch!Told(Calls[w], "kept", file)]
  BY <1>3, <1>4, <1>5 DEF Switch!Told
<1>7. Calls[w].kind = "install" \/ Calls[w].base.gen = file.gen
  BY <1>1, <1>4 DEF Expected
<1>8. IF Calls[w].kind = "install" THEN file.id # 0 ELSE file.enabled = Calls[w].want
  BY <1>1, <1>4 DEF IsNoop, Exists
<1>9. Reads' = Reads
  BY <1>1 DEF Reads
<1> QED
  BY <1>1, <1>4, <1>6, <1>7, <1>8, <1>9
  DEF Switch!Keep, Switch!Fresh, Switch!Wanted, Switch!Written, Switch!Tell, Calls, Reads

\* The rename makes the change, for the reads under way too.
LEMMA ChangeSeen == ASSUME IInv, NEW w \in Writers, Replace(w) PROVE Switch!Change(w)
<1> DEFINE d == writer[w].doc
           x == [writer[w] EXCEPT !.pc = "replaced", !.published = TRUE]
<1>1. /\ writer[w].pc = "prepared" /\ file' = d /\ Observe(d) /\ durable' = durable
      /\ writer' = [writer EXCEPT ![w] = x]
  BY WriterFacts DEF Replace
<1>2. /\ x.pc = "replaced" /\ x.kind = writer[w].kind /\ x.want = writer[w].want
      /\ x.base = writer[w].base /\ x.doc = d
  BY WriterFacts DEF Writer
<1>3. NextDoc(w) /\ d \in Doc /\ file \in Doc /\ writer[w].want \in BOOLEAN
  BY <1>1, WriterFacts DEF WriterInv, Writer
<1> HIDE DEF x
<1>4. /\ Calls[w].state = "asked" /\ Calls[w].kind = writer[w].kind
      /\ Calls[w].base = writer[w].base /\ Calls[w].want = writer[w].want
  BY <1>1 DEF Calls, CallOf, StateOf
<1>5. Calls' = [Calls EXCEPT ![w] = Switch!Told(Calls[w], "changed", file')]
  <2>1. CallOf(x) = [state |-> "changed", kind |-> writer[w].kind, want |-> writer[w].want,
                     base |-> writer[w].base, doc |-> d]
    BY <1>2 DEF CallOf, StateOf
  <2>2. Calls' = [Calls EXCEPT ![w] = CallOf(x)]
    BY <1>1, CallStep
  <2> QED
    BY <1>1, <1>4, <2>1, <2>2 DEF Switch!Told
<1>6. Calls[w].kind = "install" \/ Calls[w].base.gen = file.gen
  BY <1>3, <1>4 DEF NextDoc
<1>7. ~(IF Calls[w].kind = "install" THEN file.id # 0 ELSE file.enabled = Calls[w].want)
  BY <1>3, <1>4 DEF NextDoc, AbsentDoc
<1>8. file' = [id |-> file.id + 1,
               enabled |-> IF Calls[w].kind = "install" THEN TRUE ELSE ~file.enabled,
               gen |-> IF Calls[w].kind = "install" THEN 0 ELSE file.gen + 1]
  <2>1. d = [id |-> d.id, enabled |-> d.enabled, gen |-> d.gen]
    BY <1>3 DEF Doc
  <2>2. d.id = file.id + 1
    BY <1>3 DEF NextDoc
  <2>3. d.gen = IF Calls[w].kind = "install" THEN 0 ELSE file.gen + 1
    BY <1>3, <1>4 DEF NextDoc
  <2>4. d.enabled = IF Calls[w].kind = "install" THEN TRUE ELSE ~file.enabled
    <3>1. file.enabled \in BOOLEAN
      BY <1>3 DEF Doc
    <3>2. CASE Calls[w].kind = "install"
      <4>1. d.enabled = writer[w].want /\ writer[w].want
        BY <1>3, <1>4, <3>2 DEF NextDoc
      <4>2. d.enabled = TRUE
        BY <1>3, <4>1
      <4> QED
        BY <3>2, <4>2
    <3>3. CASE Calls[w].kind # "install"
      <4>1. d.enabled = writer[w].want /\ writer[w].want # file.enabled
        BY <1>3, <1>4, <3>3 DEF NextDoc
      <4>2. d.enabled = ~file.enabled
        BY <1>3, <3>1, <4>1
      <4> QED
        BY <3>3, <4>2
    <3> QED
      BY <3>2, <3>3
  <2> QED
    BY <1>1, <2>1, <2>2, <2>3, <2>4
<1>9. Reads' = [r \in Readers |->
                   IF Reads[r].state = "reading"
                   THEN Switch!Seeing("reading", Reads[r].result,
                                      Reads[r].seen \cup {file'.enabled})
                   ELSE Reads[r]]
  <2> SUFFICES ASSUME NEW r \in Readers
               PROVE  ReadOf(reader'[r])
                      = IF Reads[r].state = "reading"
                        THEN Switch!Seeing("reading", Reads[r].result,
                                           Reads[r].seen \cup {file'.enabled})
                        ELSE Reads[r]
    BY DEF Reads
  <2>1. Reads[r] = ReadOf(reader[r]) /\ reader[r] \in Reader
    BY ReaderFacts DEF Reads
  <2>2. Reads[r].state = "reading" <=> Reading(r)
    BY <2>1 DEF ReadOf, Reading
  <2>3. CASE ~Reading(r)
    BY <1>1, <2>1, <2>2, <2>3 DEF Observe
  <2>4. CASE Reading(r)
    <3>1. reader'[r] = [reader[r] EXCEPT !.seen = reader[r].seen \cup {d.enabled}]
      BY <1>1, <2>4 DEF Observe
    <3>2. /\ reader'[r].pc = reader[r].pc /\ reader'[r].result = reader[r].result
          /\ reader'[r].seen = reader[r].seen \cup {file'.enabled}
      BY <1>1, <2>1, <3>1 DEF Reader
    <3> QED
      BY <2>1, <2>2, <2>4, <3>2 DEF ReadOf, Reading, Switch!Seeing
  <2> QED
    BY <2>3, <2>4
<1> QED
  BY <1>1, <1>4, <1>5, <1>6, <1>7, <1>8, <1>9
  DEF Switch!Change, Switch!Fresh, Switch!Wanted, Switch!Written, Switch!Tell, Calls, Reads

\* The flush of the directory makes the change last.
LEMMA SaveSeen == ASSUME IInv, NEW w \in Writers, FsyncParent(w) PROVE Switch!Save
<1> DEFINE x == [writer[w] EXCEPT !.pc = "synced"]
<1>1. /\ writer' = [writer EXCEPT ![w] = x] /\ writer[w].pc = "replaced"
      /\ durable' = file /\ UNCHANGED <<file, reader>>
  BY WriterFacts DEF FsyncParent
<1>2. /\ x.pc = "synced" /\ x.kind = writer[w].kind /\ x.want = writer[w].want
      /\ x.base = writer[w].base /\ x.doc = writer[w].doc
  BY WriterFacts DEF Writer
<1> HIDE DEF x
<1>3. CallOf(x) = CallOf(writer[w])
  BY <1>1, <1>2 DEF CallOf, StateOf
<1>4. Calls' = Calls
  BY <1>1, <1>3, CallStep DEF Calls
<1>5. Reads' = Reads
  BY <1>1 DEF Reads
<1> QED
  BY <1>1, <1>4, <1>5 DEF Switch!Save, Calls, Reads

\* The document that is read back under the lock is the one of the writer, and
\* the directory was flushed with it.
LEMMA ConfirmSeen == ASSUME IInv, NEW w \in Writers, Confirm(w) PROVE Switch!Confirm(w)
<1>1. /\ writer[w].pc = "synced" /\ UNCHANGED <<file, durable, reader>>
  BY DEF Confirm
<1>2. writer[w].doc = file /\ durable = file /\ writer[w].published /\ file.id \in Nat
  BY <1>1, WriterFacts DEF WriterInv, Doc
<1>3. writer' = [writer EXCEPT ![w].pc = "done"]
  BY <1>2 DEF Confirm, Leave
<1>4. PICK x : /\ x.pc = "done" /\ x.kind = writer[w].kind /\ x.want = writer[w].want
               /\ x.base = writer[w].base /\ x.doc = writer[w].doc
               /\ x.published = writer[w].published
               /\ Calls' = [Calls EXCEPT ![w] = CallOf(x)]
  BY <1>1, <1>3, CallEnds
<1>5. CallOf(x) = [state |-> "confirmed", kind |-> writer[w].kind, want |-> writer[w].want,
                   base |-> writer[w].base, doc |-> writer[w].doc]
  BY <1>2, <1>4 DEF CallOf, StateOf
<1>6. /\ Calls[w].state = "changed" /\ Calls[w].kind = writer[w].kind
      /\ Calls[w].base = writer[w].base /\ Calls[w].want = writer[w].want
      /\ Calls[w].doc = writer[w].doc
  BY <1>1 DEF Calls, CallOf, StateOf
<1>7. Calls' = [Calls EXCEPT ![w] = Switch!Told(Calls[w], "confirmed", Calls[w].doc)]
  BY <1>4, <1>5, <1>6 DEF Switch!Told
<1>8. Reads' = Reads
  BY <1>1 DEF Reads
<1> QED
  BY <1>1, <1>2, <1>6, <1>7, <1>8 DEF Switch!Confirm, Switch!Tell, Calls, Reads

\* The first lstat begins a read, of a missing document it is all of it.
LEMMA BeginSeen ==
    ASSUME IInv, NEW r \in Readers, ReadAbsent(r) \/ Stat(r)
    PROVE  Switch!Glance(r) \/ Switch!Begin(r)
<1>1. reader[r].pc = "idle" /\ UNCHANGED <<file, durable, writer>>
  BY DEF ReadAbsent, Stat
<1>2. Reads[r].state = "none" /\ Calls' = Calls
  BY <1>1 DEF Reads, ReadOf, Calls
<1>3. CASE ReadAbsent(r)
  <2> DEFINE x == [IdleReader EXCEPT !.pc = "done", !.result = TRUE, !.seen = {file.enabled}]
  <2>1. reader' = [reader EXCEPT ![r] = x] /\ ~Exists(file)
    BY <1>3 DEF ReadAbsent
  <2>2. x.pc = "done" /\ x.result = TRUE /\ x.seen = {file.enabled}
    BY DEF IdleReader
  <2> HIDE DEF x
  <2>3. file.enabled = TRUE
    BY <2>1, ReaderFacts DEF FilesOrdered, AbsentDoc
  <2>4. ReadOf(x) = Switch!Seeing("done", file.enabled, {file.enabled})
    BY <2>2, <2>3 DEF ReadOf, Switch!Seeing
  <2>5. Reads' = [Reads EXCEPT ![r] = ReadOf(x)]
    BY <2>1, ReadStep
  <2> QED
    BY <1>1, <1>2, <2>4, <2>5 DEF Switch!Glance, Calls, Reads
<1>4. CASE Stat(r)
  <2> DEFINE x == [IdleReader EXCEPT !.pc = "stat", !.before = file.id,
                                     !.seen = {file.enabled}]
  <2>1. reader' = [reader EXCEPT ![r] = x]
    BY <1>4 DEF Stat
  <2>2. x.pc = "stat" /\ x.result = TRUE /\ x.seen = {file.enabled}
    BY DEF IdleReader
  <2> HIDE DEF x
  <2>3. ReadOf(x) = Switch!Seeing("reading", TRUE, {file.enabled})
    BY <2>2 DEF ReadOf, Switch!Seeing
  <2>4. Reads' = [Reads EXCEPT ![r] = ReadOf(x)]
    BY <2>1, ReadStep
  <2> QED
    BY <1>1, <1>2, <2>3, <2>4 DEF Switch!Begin, Calls, Reads
<1> QED
  BY <1>3, <1>4

\* The cache and the file are looked at: nothing is returned yet.
LEMMA InsideRead ==
    ASSUME IInv, NEW r \in Readers,
           \/ CacheGet(r) \/ CacheMiss(r) \/ ReadFile(r)
           \/ ConfirmHit(r) /\ file.id # reader[r].before
    PROVE  UNCHANGED Switch!svars
<1>1. PICK x : /\ reader' = [reader EXCEPT ![r] = x]
               /\ x.pc \in {"hit", "miss", "read"}
               /\ x.result = reader[r].result /\ x.seen = reader[r].seen
  <2>1. CASE CacheGet(r)
    <3> DEFINE x == [reader[r] EXCEPT !.pc = "hit", !.doc = cache]
    <3>1. /\ reader' = [reader EXCEPT ![r] = x] /\ x.pc = "hit"
          /\ x.result = reader[r].result /\ x.seen = reader[r].seen
      BY <2>1, ReaderFacts DEF CacheGet, Reader
    <3> QED
      BY <3>1
  <2>2. CASE CacheMiss(r) \/ (ConfirmHit(r) /\ file.id # reader[r].before)
    <3> DEFINE x == [reader[r] EXCEPT !.pc = "miss"]
    <3>1. /\ reader' = [reader EXCEPT ![r] = x] /\ x.pc = "miss"
          /\ x.result = reader[r].result /\ x.seen = reader[r].seen
      BY <2>2, ReaderFacts DEF CacheMiss, ConfirmHit, Reader
    <3> QED
      BY <3>1
  <2>3. CASE ReadFile(r)
    <3> DEFINE x == [reader[r] EXCEPT !.pc = "read", !.doc = file]
    <3>1. /\ reader' = [reader EXCEPT ![r] = x] /\ x.pc = "read"
          /\ x.result = reader[r].result /\ x.seen = reader[r].seen
      BY <2>3, ReaderFacts DEF ReadFile, Reader
    <3> QED
      BY <3>1
  <2> QED
    BY <2>1, <2>2, <2>3
<1>2. /\ reader[r].pc \in {"stat", "hit", "miss"}
      /\ UNCHANGED <<file, durable, writer>>
  BY DEF CacheGet, CacheMiss, ReadFile, ConfirmHit
<1>3. ReadOf(x) = ReadOf(reader[r])
  BY <1>1, <1>2 DEF ReadOf
<1> QED
  BY <1>1, <1>2, <1>3, ReadStutters

\* The cached document, the file or a failure is returned: in each case a value
\* that held during the read, for the invariant holds after the step as well.
LEMMA ReturnSeen ==
    ASSUME IInv, IInv', NEW r \in Readers,
           \/ ConfirmHit(r) /\ file.id = reader[r].before
           \/ ReadStable(r) \/ FailEnabled(r)
    PROVE  Switch!Return(r)
<1>1. PICK result : reader' = [reader EXCEPT ![r] =
                                  [reader[r] EXCEPT !.pc = "done", !.result = result]]
  <2>1. CASE ConfirmHit(r) /\ file.id = reader[r].before
    BY <2>1, ReaderFacts DEF ConfirmHit
  <2>2. CASE ReadStable(r)
    BY <2>2, ReaderFacts DEF ReadStable
  <2>3. CASE FailEnabled(r)
    BY <2>3, ReaderFacts DEF FailEnabled
  <2> QED
    BY <2>1, <2>2, <2>3
<1>2. reader[r].pc \in {"hit", "read"} /\ UNCHANGED <<file, durable, writer>>
  BY DEF ConfirmHit, ReadStable, FailEnabled
<1> DEFINE x == [reader[r] EXCEPT !.pc = "done", !.result = result]
<1>3. x.pc = "done" /\ x.result = result /\ x.seen = reader[r].seen
  BY ReaderFacts DEF Reader
<1>4. reader' = [reader EXCEPT ![r] = x] /\ reader'[r] = x
  BY <1>1, ReaderFacts
<1> HIDE DEF x
<1>5. result \in reader[r].seen
  BY <1>3, <1>4 DEF IInv, ReaderInv
<1>6. Reads[r].state = "reading" /\ Reads[r].seen = reader[r].seen
  BY <1>2 DEF Reads, ReadOf
<1>7. Reads' = [Reads EXCEPT ![r] = Switch!Seeing("done", result, Reads[r].seen)]
  <2>1. ReadOf(x) = Switch!Seeing("done", result, Reads[r].seen)
    BY <1>3, <1>6 DEF ReadOf, Switch!Seeing
  <2>2. Reads' = [Reads EXCEPT ![r] = ReadOf(x)]
    BY <1>4, ReadStep
  <2> QED
    BY <2>1, <2>2
<1>8. Calls' = Calls
  BY <1>2 DEF Calls
<1> QED
  BY <1>2, <1>5, <1>6, <1>7, <1>8 DEF Switch!Return, Calls, Reads

\* A reader that begins anew.
LEMMA IdleRead == ReadOf(IdleReader) = Switch!NoRead
BY DEF ReadOf, IdleReader, Switch!NoRead, Switch!Seeing

LEMMA UsedSeen == ASSUME IInv, NEW r \in Readers, Used(r) PROVE Switch!Used(r)
<1>1. /\ reader[r].pc = "done" /\ reader' = [reader EXCEPT ![r] = IdleReader]
      /\ UNCHANGED <<file, durable, writer>>
  BY DEF Used
<1>2. Reads[r].state = "done"
  BY <1>1 DEF Reads, ReadOf
<1>3. Reads' = [Reads EXCEPT ![r] = Switch!NoRead]
  BY <1>1, IdleRead, ReadStep
<1>4. Calls' = Calls
  BY <1>1 DEF Calls
<1> QED
  BY <1>1, <1>2, <1>3, <1>4 DEF Switch!Used, Calls, Reads

\* Power is lost for all at once.
LEMMA PowerLossSeen == ASSUME IInv, PowerLoss PROVE Switch!PowerLoss
<1>1. file' \in {file, durable} /\ durable' = file'
  BY DEF PowerLoss
<1>2. Reads' = [r \in Readers |-> Switch!NoRead]
  BY IdleRead DEF PowerLoss, Reads
<1>3. Switch!Default = AbsentDoc
  BY DEF Switch!Default, AbsentDoc
<1>4. Calls' = [w \in Writers |->
                   IF Calls[w].state \in {"asked", "changed"}
                   THEN Switch!Told(Calls[w], "unknown", Switch!Default) ELSE Calls[w]]
  <2> SUFFICES ASSUME NEW w \in Writers
               PROVE  CallOf(writer'[w])
                      = IF Calls[w].state \in {"asked", "changed"}
                        THEN Switch!Told(Calls[w], "unknown", Switch!Default) ELSE Calls[w]
    BY DEF Calls
  <2>1. writer[w] \in Writer /\ Calls[w] = CallOf(writer[w])
    BY WriterFacts DEF Calls
  <2>2. CASE writer[w].pc \in Ended \cup {"idle"}
    <3>1. writer'[w] = writer[w]
      BY <2>2 DEF PowerLoss
    <3>2. Calls[w].state \notin {"asked", "changed"}
      BY <2>1, <2>2 DEF CallOf, StateOf, Ended
    <3> QED
      BY <2>1, <3>1, <3>2
  <2>3. CASE writer[w].pc \notin Ended \cup {"idle"}
    <3>1. writer'[w] = [writer[w] EXCEPT !.pc = "dead"]
      BY <2>3 DEF PowerLoss
    <3>2. /\ writer'[w].pc = "dead" /\ writer'[w].kind = writer[w].kind
          /\ writer'[w].want = writer[w].want /\ writer'[w].base = writer[w].base
      BY <2>1, <3>1 DEF Writer
    <3>3. /\ Calls[w].state \in {"asked", "changed"} /\ Calls[w].kind = writer[w].kind
          /\ Calls[w].want = writer[w].want /\ Calls[w].base = writer[w].base
      BY <2>1, <2>3 DEF CallOf, StateOf, Writer, Ended, Locked
    <3>4. StateOf(writer'[w]) = "unknown"
      BY <3>2 DEF StateOf
    <3> QED
      BY <1>3, <3>2, <3>3, <3>4 DEF CallOf, Switch!Told
  <2> QED
    BY <2>2, <2>3
<1> QED
  BY <1>1, <1>2, <1>4 DEF Switch!PowerLoss, Calls, Reads

\* The lock, the two looks of the dashboard, the temporary file, the flush of
\* the directory, the cache and the double lstat of the reader are one atomic
\* register: a change is a compare and swap, a confirmed one is saved, and a
\* read returns what held during it.
THEOREM SwitchIsAtomic == Spec => ImplementsSwitch
<1>1. Init => Switch!Init
  <2> SUFFICES ASSUME Init PROVE Switch!Init
    OBVIOUS
  <2>1. CallOf(IdleWriter) = Switch!NoCall
    BY DEF CallOf, StateOf, IdleWriter, AbsentDoc, Switch!NoCall, Switch!Default
  <2>2. Calls = [w \in Writers |-> Switch!NoCall] /\ Reads = [r \in Readers |-> Switch!NoRead]
    BY <2>1, IdleRead DEF Init, Calls, Reads
  <2> QED
    BY <2>2 DEF Init, Switch!Init, Switch!Default, AbsentDoc, Calls, Reads
<1>2. IInv /\ IInv' /\ [Next]_vars => [Switch!Next]_(Switch!svars)
  <2> SUFFICES ASSUME IInv, IInv', [Next]_vars PROVE [Switch!Next]_(Switch!svars)
    OBVIOUS
  <2>1. ASSUME NEW w \in Writers, WriterNext(w)
        PROVE  \/ Switch!Ask(w) \/ Switch!Change(w) \/ Switch!Confirm(w) \/ Switch!Keep(w)
               \/ Switch!Refuse(w) \/ Switch!GiveUp(w) \/ Switch!Save
               \/ UNCHANGED Switch!svars
    BY <2>1, AskSeen, InsideCall, GiveUpSeen, RefuseSeen, KeepSeen, ChangeSeen, SaveSeen,
       ConfirmSeen DEF WriterNext
  <2>2. ASSUME NEW r \in Readers, ReaderNext(r)
        PROVE  \/ Switch!Begin(r) \/ Switch!Return(r) \/ Switch!Glance(r) \/ Switch!Used(r)
               \/ UNCHANGED Switch!svars
    BY <2>2, BeginSeen, InsideRead, ReturnSeen, UsedSeen DEF ReaderNext
  <2>3. CASE UNCHANGED vars
    BY <2>3 DEF vars, Switch!svars
  <2> QED
    BY <2>1, <2>2, <2>3, PowerLossSeen DEF Next, Switch!Next
<1>3. Spec => Switch!Init /\ [][Switch!Next]_(Switch!svars)
  BY <1>1, <1>2, Invariance, PTL DEF Spec
<1> QED
  BY <1>3, PTL DEF ImplementsSwitch, Switch!Spec

=============================================================================
