----------------------------- MODULE MasterSwitch -----------------------------
(***************************************************************************)
(* What the master switch promises to those who change and read it: it is  *)
(* one document that a request changes at once, by compare and swap on its *)
(* generation; a change that was confirmed survives a loss of power; and a *)
(* read returns a value that the switch had during the read.               *)
(*                                                                         *)
(* There is no lock, no cache, no temporary file and no second look at the *)
(* document here.  RuntimeControl implements this machine.                 *)
(***************************************************************************)
EXTENDS Naturals

CONSTANTS Writers, Readers

VARIABLES
    switch,  \* the document: its publication, its value, its generation
    saved,   \* the document that a loss of power may bring back
    call,    \* the request of each writer and what it was told
    read     \* the read of each reader: the values that held during it

svars == <<switch, saved, call, read>>

Default == [id |-> 0, enabled |-> TRUE, gen |-> 0]
Written(d) == d.id # 0

NoCall == [state |-> "none", kind |-> "cli", want |-> TRUE, base |-> Default,
           doc |-> Default]

\* What a read has returned, and the values that held while it ran.
Seeing(state, result, seen) == [state |-> state, result |-> result, seen |-> seen]
NoRead == Seeing("none", TRUE, {})

Init ==
    /\ switch = Default /\ saved = Default
    /\ call = [w \in Writers |-> NoCall]
    /\ read = [r \in Readers |-> NoRead]

\* What the writer of a request is told: the document of its change or answer.
Told(c, state, doc) ==
    [state |-> state, kind |-> c.kind, want |-> c.want, base |-> c.base, doc |-> doc]

Tell(w, state, doc) == call' = [call EXCEPT ![w] = Told(call[w], state, doc)]

\* A request is based on what the switch is when it is made.
Ask(w) ==
    /\ call[w].state = "none"
    /\ \E kind \in {"cli", "dashboard", "install"}, want \in BOOLEAN :
          call' = [call EXCEPT ![w] = [state |-> "asked", kind |-> kind, want |-> want,
                                       base |-> switch, doc |-> Default]]
    /\ UNCHANGED <<switch, saved, read>>

\* The switch still has the generation that a request for a value is based on.
\* The installer does not care: it only makes a document exist.
Fresh(w) == call[w].kind = "install" \/ call[w].base.gen = switch.gen

Wanted(w) == IF call[w].kind = "install" THEN Written(switch)
             ELSE switch.enabled = call[w].want

\* The change happens at once and flips the value (or writes the default down),
\* and every read under way may return the new one.
Change(w) ==
    LET first == call[w].kind = "install"
    IN  /\ call[w].state = "asked" /\ Fresh(w) /\ ~Wanted(w)
        /\ switch' = [id |-> switch.id + 1, enabled |-> IF first THEN TRUE ELSE ~switch.enabled,
                      gen |-> IF first THEN 0 ELSE switch.gen + 1]
        /\ Tell(w, "changed", switch')
        /\ read' = [r \in Readers |->
               IF read[r].state = "reading"
               THEN Seeing("reading", read[r].result, read[r].seen \cup {switch'.enabled})
               ELSE read[r]]
        /\ UNCHANGED saved

Save ==
    /\ saved' = switch
    /\ UNCHANGED <<switch, call, read>>

\* Only a change that is saved, itself or a later one, is confirmed.
Confirm(w) ==
    /\ call[w].state = "changed" /\ call[w].doc.id <= saved.id
    /\ Tell(w, "confirmed", call[w].doc)
    /\ UNCHANGED <<switch, saved, read>>

\* The switch already is as wanted; that it is saved is not said.
Keep(w) ==
    /\ call[w].state = "asked" /\ Fresh(w) /\ Wanted(w)
    /\ Tell(w, "kept", switch)
    /\ UNCHANGED <<switch, saved, read>>

\* Somebody has changed the switch since the request was made.
Refuse(w) ==
    /\ call[w].state = "asked" /\ ~Fresh(w)
    /\ Tell(w, "refused", Default)
    /\ UNCHANGED <<switch, saved, read>>

\* The writer hears of an error, or nothing: its change may have been made.
GiveUp(w) ==
    /\ call[w].state \in {"asked", "changed"}
    /\ Tell(w, "unknown", Default)
    /\ UNCHANGED <<switch, saved, read>>

Begin(r) ==
    /\ read[r].state = "none"
    /\ read' = [read EXCEPT ![r] = Seeing("reading", TRUE, {switch.enabled})]
    /\ UNCHANGED <<switch, saved, call>>

Return(r) ==
    /\ read[r].state = "reading"
    /\ \E value \in read[r].seen :
          read' = [read EXCEPT ![r] = Seeing("done", value, read[r].seen)]
    /\ UNCHANGED <<switch, saved, call>>

\* A read that takes no time.
Glance(r) ==
    /\ read[r].state = "none"
    /\ read' = [read EXCEPT ![r] = Seeing("done", switch.enabled, {switch.enabled})]
    /\ UNCHANGED <<switch, saved, call>>

Used(r) ==
    /\ read[r].state = "done"
    /\ read' = [read EXCEPT ![r] = NoRead]
    /\ UNCHANGED <<switch, saved, call>>

\* Requests and reads under way are lost, changes since the last save may be.
PowerLoss ==
    /\ switch' \in {switch, saved} /\ saved' = switch'
    /\ call' = [w \in Writers |->
           IF call[w].state \in {"asked", "changed"}
           THEN Told(call[w], "unknown", Default) ELSE call[w]]
    /\ read' = [r \in Readers |-> NoRead]

Next ==
    \/ \E w \in Writers :
          Ask(w) \/ Change(w) \/ Confirm(w) \/ Keep(w) \/ Refuse(w) \/ GiveUp(w)
    \/ \E r \in Readers : Begin(r) \/ Return(r) \/ Glance(r) \/ Used(r)
    \/ Save \/ PowerLoss

Spec == Init /\ [][Next]_svars
=============================================================================
