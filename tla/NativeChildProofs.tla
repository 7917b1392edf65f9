-------------------------- MODULE NativeChildProofs --------------------------
(* What the receipts, the work units and the completion messages of the    *)
(* native children of a turn agree on, for every set of children, every    *)
(* choice of their hosts and any number of lost calls and restarts.        *)
EXTENDS NativeChild, TLAPS

-----------------------------------------------------------------------------
(* The inductive invariant                                                 *)

\* A receipt w and the work unit d.  A unit that nobody reported names no
\* worker; a linked unit that names another one is past every execution.
Follows(d, w) ==
    /\ d.status = "suggested" => ~d.exact
    /\ w.linked => d.exact \/ d.status \in {"skipped", "failed"}
    /\ w.exit # "" => w.ended
    /\ w.linked /\ w.exit # "" =>
          /\ d.status \in Closed
          /\ w.exit # "ok" => d.status # "completed"

\* Nobody observes the end of a plain child, and a child of OpenClaw succeeds
\* by a delivery that the channel took.
Delivers(c) ==
    /\ host[c] = "plain" => worker[c].outcome = ""
    /\ host[c] = "openclaw" /\ worker[c].exit = "ok" => worker[c].delivery = "delivered"
    /\ worker[c].delivery = "delivered" => wire[c] = "accepted"

\* The one message of a turn, and what the plugin remembers of it.
Sends(c) ==
    /\ wire[c] # "twice" /\ (wire[c] # "none" => answer = c)
    /\ plugin[c].completion = "authorized" => answer = c /\ wire[c] = "none"
    /\ plugin[c].completion = "delivered" => wire[c] = "accepted"
    /\ plugin[c].call \in DeliverySteps => wire[c] = "accepted"
    /\ host[c] = "plain" => /\ plugin[c] = Unknown /\ task[c] = "running"
                            /\ wire[c] = "none"

Reports(s) ==
    /\ host[s.child] = "openclaw"
    /\ s.call \in DeliverySteps => wire[s.child] = "accepted"

IInv ==
    /\ TypeOK
    /\ \A c \in Children : Follows(delegation[c], worker[c])
    /\ \A c \in Children : Delivers(c) /\ Sends(c)
    /\ \A s \in strays : Reports(s)

-----------------------------------------------------------------------------
(* One receipt and its work unit                                           *)

Statuses == {"suggested", "delegated", "completed", "skipped", "failed"}

LEMMA Ranks ==
    /\ DOMAIN Rank = Statuses
    /\ Rank["suggested"] = 0 /\ Rank["delegated"] = 3 /\ Rank["completed"] = 4
    /\ Rank["skipped"] = 5 /\ Rank["failed"] = 6
BY DEF Rank, Statuses

LEMMA DelegationType ==
    /\ \A d \in Delegation : d.status \in Statuses /\ d.exact \in BOOLEAN
    /\ \A status \in Statuses, exact \in BOOLEAN :
          /\ [status |-> status, exact |-> exact] \in Delegation
          /\ [status |-> status, exact |-> exact].status = status
          /\ [status |-> status, exact |-> exact].exact = exact
BY Ranks DEF Delegation

\* A status gives way to one of its rank or above.
GivesWay(old, new) ==
    \/ old = "suggested" \/ new = old
    \/ old = "delegated" /\ new \in {"completed", "skipped", "failed"}
    \/ old = "completed" /\ new \in {"skipped", "failed"}
    \/ old = "skipped" /\ new = "failed"

LEMMA RanksOrder ==
    \A old, new \in Statuses : Rank[new] >= Rank[old] <=> GivesWay(old, new)
BY Ranks DEF Statuses, GivesWay

LEMMA MergedIs ==
    ASSUME NEW d \in Delegation, NEW status \in Statuses, NEW exact \in BOOLEAN
    PROVE  /\ Merged(d, status, exact) \in Delegation
           /\ GivesWay(d.status, status) =>
                 /\ Merged(d, status, exact).status = status
                 /\ Merged(d, status, exact).exact = exact
           /\ ~GivesWay(d.status, status) => Merged(d, status, exact) = d
<1> DEFINE new == [status |-> status, exact |-> exact]
<1>1. new \in Delegation /\ new.status = status /\ new.exact = exact
  BY DelegationType
<1>2. d.status \in Statuses
  BY DelegationType
<1>3. Merged(d, status, exact) = IF Rank[status] >= Rank[d.status] THEN new ELSE d
  BY DEF Merged
<1>4. Rank[status] >= Rank[d.status] <=> GivesWay(d.status, status)
  BY <1>2, RanksOrder
<1> HIDE DEF new
<1> QED
  BY <1>1, <1>3, <1>4

\* What a transaction keeps of a receipt and of its work unit.
Keeps(d, w, d1, w1) ==
    /\ w.exit \in {"", w1.exit}
    /\ w.outcome \in {"", w1.outcome}
    /\ w.delivery \in {"delivered", "interrupted"} => w1.delivery = w.delivery
    /\ w.linked => w1.linked
    /\ d.status = "failed" => d1.status = "failed"

Row(d, w, d1, w1) ==
    /\ d1 \in Delegation /\ w1 \in Worker
    /\ Follows(d1, w1) /\ Keeps(d, w, d1, w1)

\* A report of the host or of the public call.
LEMMA ReportRow ==
    ASSUME NEW d \in Delegation, NEW w \in Worker, Follows(d, w),
           NEW status \in Statuses, NEW exact \in BOOLEAN, NEW e \in BOOLEAN,
           ~Conflicts(d, status, exact),
           e <=> exact /\ (status \in Executed \/ d.exact)
    PROVE  Row(d, w, Merged(d, status, e), w)
<1> DEFINE m == Merged(d, status, e)
<1>1. /\ m \in Delegation
      /\ \/ m.status = status /\ m.exact = e /\ GivesWay(d.status, status)
         \/ m = d
  BY MergedIs
<1>2. d.status \in Statuses /\ d.exact \in BOOLEAN /\ w.linked \in BOOLEAN
  BY DelegationType DEF Worker
<1> HIDE DEF m
<1>3. d.status \in Executed /\ status \in Executed => (d.exact <=> exact)
  BY <1>2 DEF Conflicts
<1>4. m.status = "suggested" => ~m.exact
  BY <1>1, <1>2, <1>3 DEF Follows, Executed, Statuses, GivesWay
<1>5. w.linked => m.exact \/ m.status \in {"skipped", "failed"}
  BY <1>1, <1>2, <1>3 DEF Follows, Executed, Statuses, GivesWay
<1>6. w.linked /\ w.exit # "" =>
          /\ m.status \in Closed
          /\ w.exit # "ok" => m.status # "completed"
  BY <1>1, <1>2 DEF Follows, Closed, Statuses, GivesWay
<1>7. d.status = "failed" => m.status = "failed"
  BY <1>1, <1>2 DEF Statuses, GivesWay
<1>8. w.exit # "" => w.ended
  BY DEF Follows
<1>9. Follows(m, w)
  BY <1>4, <1>5, <1>6, <1>8 DEF Follows
<1>10. Keeps(d, w, m, w)
  BY <1>7 DEF Keeps
<1> QED
  BY <1>1, <1>9, <1>10 DEF Row, m

\* The end of a receipt closes the work unit that names its child.
LEMMA EndRow ==
    ASSUME NEW d \in Delegation, NEW w \in Worker, Follows(d, w),
           NEW o \in Outcomes, NEW v \in Worker, NEW e,
           v.exit = o, v.ended = TRUE, v.linked <=> w.linked \/ d.exact,
           w.exit \in {"", o}, w.outcome \in {"", v.outcome},
           w.delivery \in {"delivered", "interrupted"} => v.delivery = w.delivery,
           e = IF d.exact THEN MergedTerminal(d, o) ELSE d
    PROVE  Row(d, w, e, v)
<1>1. d.status \in Statuses /\ d.exact \in BOOLEAN
  BY DelegationType
<1>2. o # ""
  BY DEF Outcomes
<1>3. CASE d.exact
  <2> DEFINE st == IF o = "ok" THEN "completed" ELSE "failed"
  <2>1. st \in Statuses
    BY DEF Statuses
  <2> DEFINE m == Merged(d, st, d.exact)
  <2>2. e = m
    BY <1>3 DEF MergedTerminal
  <2> HIDE DEF st
  <2>8. /\ m \in Delegation
        /\ GivesWay(d.status, st) => m.status = st /\ m.exact = d.exact
        /\ ~GivesWay(d.status, st) => m = d
    <3>1. \A x \in BOOLEAN :
             /\ Merged(d, st, x) \in Delegation
             /\ GivesWay(d.status, st) =>
                   Merged(d, st, x).status = st /\ Merged(d, st, x).exact = x
             /\ ~GivesWay(d.status, st) => Merged(d, st, x) = d
      BY <2>1, MergedIs
    <3> QED
      BY <1>1, <3>1
  <2> HIDE DEF m
  <2>3. /\ e \in Delegation
        /\ GivesWay(d.status, st) => e.status = st /\ e.exact = d.exact
        /\ ~GivesWay(d.status, st) => e = d
    BY <2>2, <2>8
  <2>4. st \in {"completed", "failed"} /\ (st = "failed" <=> o # "ok")
    BY DEF st
  <2>5. e.status \in Closed /\ (o # "ok" => e.status = "failed") /\ e.exact
    BY <1>1, <1>3, <2>3, <2>4 DEF Closed, Statuses, GivesWay, Follows
  <2>6. d.status = "failed" => e.status = "failed"
    BY <2>3, <2>4 DEF GivesWay
  <2>7. Follows(e, v)
    BY <2>5 DEF Follows, Closed
  <2> QED
    BY <2>3, <2>6, <2>7 DEF Row, Keeps
<1>4. CASE ~d.exact
  <2>1. e = d /\ (v.linked <=> w.linked)
    BY <1>4
  <2>2. w.linked => d.status \in {"skipped", "failed"}
    BY <1>4 DEF Follows
  <2>3. Follows(d, v)
    BY <1>4, <2>1, <2>2 DEF Follows, Closed
  <2> QED
    BY <2>1, <2>3 DEF Row, Keeps
<1> QED
  BY <1>3, <1>4

-----------------------------------------------------------------------------
(* The transactions of the Store                                           *)

\* What a receipt w of a child on host h may say when its message is at x.
Tells(h, w, x) ==
    /\ h = "plain" => w.outcome = ""
    /\ h = "openclaw" /\ w.exit = "ok" => w.delivery = "delivered"
    /\ w.delivery = "delivered" => x = "accepted"

\* A message that the channel took stays taken.
Channel == \A c \in Children : wire[c] = "accepted" => wire'[c] = "accepted"

Rows ==
    /\ delegation' \in [Children -> Delegation]
    /\ worker' \in [Children -> Worker]
    /\ \A c \in Children :
          /\ Row(delegation[c], worker[c], delegation'[c], worker'[c])
          /\ Tells(host[c], worker'[c], wire'[c])

LEMMA RowsNow ==
    ASSUME IInv, NEW c \in Children
    PROVE  /\ delegation[c] \in Delegation /\ worker[c] \in Worker
           /\ delegation[c].status \in Statuses /\ delegation[c].exact \in BOOLEAN
           /\ Follows(delegation[c], worker[c])
           /\ Tells(host[c], worker[c], wire[c])
           /\ host[c] \in {"openclaw", "plain"}
<1>1. delegation[c] \in Delegation /\ worker[c] \in Worker
  BY DEF IInv, TypeOK
<1>2. Tells(host[c], worker[c], wire[c])
  BY DEF IInv, Delivers, Tells
<1>3. host[c] \in {"openclaw", "plain"}
  BY HostsAssumption DEF IInv, TypeOK
<1>4. Follows(delegation[c], worker[c])
  BY DEF IInv
<1> QED
  BY <1>1, <1>2, <1>3, <1>4, DelegationType

LEMMA RowStays ==
    ASSUME IInv, Channel, NEW c \in Children
    PROVE  /\ Row(delegation[c], worker[c], delegation[c], worker[c])
           /\ Tells(host[c], worker[c], wire'[c])
<1>1. Row(delegation[c], worker[c], delegation[c], worker[c])
  BY RowsNow DEF Row, Keeps
<1>2. Tells(host[c], worker[c], wire'[c])
  BY RowsNow DEF Tells, Channel
<1> QED
  BY <1>1, <1>2

LEMMA StoreRests ==
    ASSUME IInv, Channel, UNCHANGED <<delegation, worker>>
    PROVE  Rows
<1>1. delegation' \in [Children -> Delegation] /\ worker' \in [Children -> Worker]
  BY DEF IInv, TypeOK
<1> QED
  BY <1>1, RowStays DEF Rows

\* A transaction on the rows of one child.
LEMMA OneRow ==
    ASSUME IInv, Channel, NEW c \in Children,
           delegation' = delegation \/ \E e : delegation' = [delegation EXCEPT ![c] = e],
           worker' = worker \/ \E v : worker' = [worker EXCEPT ![c] = v],
           Row(delegation[c], worker[c], delegation'[c], worker'[c]),
           Tells(host[c], worker'[c], wire'[c])
    PROVE  Rows
<1>1. delegation \in [Children -> Delegation] /\ worker \in [Children -> Worker]
  BY DEF IInv, TypeOK
<1>2. delegation'[c] \in Delegation /\ worker'[c] \in Worker
  BY DEF Row
<1>3. /\ delegation' \in [Children -> Delegation]
      /\ \A b \in Children : b # c => delegation'[b] = delegation[b]
  BY <1>1, <1>2
<1>4. /\ worker' \in [Children -> Worker]
      /\ \A b \in Children : b # c => worker'[b] = worker[b]
  BY <1>1, <1>2
<1>5. ASSUME NEW b \in Children
      PROVE  /\ Row(delegation[b], worker[b], delegation'[b], worker'[b])
             /\ Tells(host[b], worker'[b], wire'[b])
  <2>1. CASE b = c
    BY <2>1
  <2>2. CASE b # c
    BY <1>3, <1>4, <2>2, RowStays
  <2> QED
    BY <2>1, <2>2
<1> QED
  BY <1>3, <1>4, <1>5 DEF Rows

LEMMA UnitReported ==
    ASSUME IInv, Channel, NEW c \in Children, NEW status \in Statuses,
           NEW exact \in BOOLEAN, NEW e \in BOOLEAN,
           ~Conflicts(delegation[c], status, exact),
           e <=> exact /\ (status \in Executed \/ delegation[c].exact),
           delegation' = [delegation EXCEPT ![c] = Merged(@, status, e)],
           UNCHANGED worker
    PROVE  Rows
<1>1. Row(delegation[c], worker[c], Merged(delegation[c], status, e), worker[c])
  BY RowsNow, ReportRow
<1>2. delegation'[c] = Merged(delegation[c], status, e) /\ worker'[c] = worker[c]
  BY DEF IInv, TypeOK
<1> QED
  BY <1>1, <1>2, OneRow, RowStays

LEMMA DelegatedRows ==
    ASSUME IInv, Channel, NEW c \in Children, RecordDelegated(c)
    PROVE  Rows
<1>1. "delegated" \in Statuses /\ "delegated" \in Executed
  BY DEF Statuses, Executed
<1> QED
  BY <1>1, UnitReported DEF RecordDelegated, CanDelegate

\* A receipt that changes in its columns of the start or of the delivery only.
LEMMA Noted ==
    ASSUME IInv, Channel, NEW c \in Children, NEW v \in Worker,
           worker' = [worker EXCEPT ![c] = v], UNCHANGED delegation,
           v.exit = worker[c].exit, worker[c].ended => v.ended,
           v.linked = worker[c].linked, worker[c].outcome \in {"", v.outcome},
           worker[c].delivery \in {"delivered", "interrupted"} =>
               v.delivery = worker[c].delivery,
           Tells(host[c], v, wire'[c])
    PROVE  Rows
<1>1. worker'[c] = v /\ delegation'[c] = delegation[c]
  BY DEF IInv, TypeOK
<1>2. Row(delegation[c], worker[c], delegation[c], v)
  BY RowsNow DEF Row, Follows, Keeps
<1> QED
  BY <1>1, <1>2, OneRow

LEMMA BoundRows ==
    ASSUME IInv, Channel, NEW c \in Children, BindLaunch(c)
    PROVE  Rows
<1> DEFINE v == [worker[c] EXCEPT !.launch = TRUE]
<1>1. worker' = [worker EXCEPT ![c] = v] /\ UNCHANGED delegation
  BY DEF BindLaunch, IInv, TypeOK
<1>2. /\ v \in Worker /\ v.exit = worker[c].exit /\ v.ended = worker[c].ended
      /\ v.linked = worker[c].linked /\ v.outcome = worker[c].outcome
      /\ v.delivery = worker[c].delivery
  BY RowsNow DEF Worker
<1> HIDE DEF v
<1>3. Tells(host[c], v, wire'[c])
  BY <1>2, RowStays DEF Tells
<1> QED
  BY <1>1, <1>2, <1>3, Noted

LEMMA StoppedRows ==
    ASSUME IInv, Channel, NEW c \in Children, Stopped(c)
    PROVE  Rows
<1> DEFINE v == [worker[c] EXCEPT !.ended = TRUE]
<1>1. worker' = [worker EXCEPT ![c] = v] /\ UNCHANGED delegation
  BY DEF Stopped, IInv, TypeOK
<1>2. /\ v \in Worker /\ v.exit = worker[c].exit /\ v.ended = TRUE
      /\ v.linked = worker[c].linked /\ v.outcome = worker[c].outcome
      /\ v.delivery = worker[c].delivery
  BY RowsNow DEF Worker
<1> HIDE DEF v
<1>3. Tells(host[c], v, wire'[c])
  BY <1>2, RowStays DEF Tells
<1> QED
  BY <1>1, <1>2, <1>3, Noted

LEMMA ObservedRows ==
    ASSUME IInv, Channel, NEW c \in OpenClaw, NEW o \in Outcomes \cup {""},
           RecordObserved(c, o)
    PROVE  Rows
<1> DEFINE v == [worker[c] EXCEPT !.outcome = o,
                                  !.delivery = IF @ = "" THEN "pending" ELSE @]
<1>0. c \in Children /\ host[c] = "openclaw"
  BY DEF OpenClaw
<1>1. worker' = [worker EXCEPT ![c] = v] /\ UNCHANGED delegation
  BY <1>0 DEF RecordObserved, IInv, TypeOK
<1>2. /\ v \in Worker /\ v.exit = worker[c].exit /\ v.ended = worker[c].ended
      /\ v.linked = worker[c].linked /\ v.outcome = o
      /\ worker[c].delivery # "" => v.delivery = worker[c].delivery
      /\ v.delivery \in {"pending", worker[c].delivery}
  BY <1>0, RowsNow DEF Worker
<1>3. worker[c].outcome \in {"", o} /\ ~worker[c].ended
  BY DEF RecordObserved, CanObserve, Open
<1>4. worker[c].exit = ""
  BY <1>0, <1>3, RowsNow DEF Follows
<1> HIDE DEF v
<1>5. Tells(host[c], v, wire'[c])
  BY <1>0, <1>2, <1>4, RowStays DEF Tells
<1> QED
  BY <1>0, <1>1, <1>2, <1>3, <1>5, Noted

\* A receipt that was linked late, when it had ended already.
LEMMA LinkRow ==
    ASSUME NEW d \in Delegation, NEW w \in Worker, Follows(d, w), NEW v \in Worker, NEW e,
           v.exit = w.exit, v.ended = w.ended, v.linked <=> w.linked \/ d.exact,
           v.outcome = w.outcome, v.delivery = w.delivery,
           e = IF d.exact /\ w.ended /\ w.exit # "" THEN MergedTerminal(d, w.exit) ELSE d
    PROVE  Row(d, w, e, v)
<1>1. CASE d.exact /\ w.ended /\ w.exit # ""
  <2>1. w.exit \in Outcomes
    BY <1>1 DEF Worker
  <2>2. v.ended = TRUE
    BY <1>1 DEF Worker
  <2>3. e = IF d.exact THEN MergedTerminal(d, w.exit) ELSE d
    BY <1>1
  <2> QED
    BY <2>1, <2>2, <2>3, EndRow
<1>2. CASE ~(d.exact /\ w.ended /\ w.exit # "")
  <2>1. e = d
    BY <1>2
  <2>2. v.linked => d.exact \/ d.status \in {"skipped", "failed"}
    BY DEF Follows
  <2>3. v.linked /\ v.exit # "" => w.linked
    BY <1>2 DEF Follows
  <2>4. Follows(d, v)
    BY <2>2, <2>3 DEF Follows
  <2>5. Keeps(d, w, d, v)
    BY DEF Keeps
  <2> QED
    BY <2>1, <2>4, <2>5 DEF Row
<1> QED
  BY <1>1, <1>2

LEMMA StartedRows ==
    ASSUME IInv, Channel, NEW c \in Children, RecordStarted(c)
    PROVE  Rows
<1> DEFINE d == delegation[c]
           w == worker[c]
           v == [w EXCEPT !.started = TRUE, !.linked = @ \/ Matches(c)]
           e == IF Matches(c) /\ w.ended /\ w.exit # ""
                THEN MergedTerminal(d, w.exit) ELSE d
<1>1. worker' = [worker EXCEPT ![c] = v]
  BY DEF RecordStarted, IInv, TypeOK
<1>2. worker'[c] = v
  BY <1>1 DEF IInv, TypeOK
<1>3. /\ delegation' = delegation \/ delegation' = [delegation EXCEPT ![c] = e]
      /\ delegation'[c] = e
  BY DEF RecordStarted, IInv, TypeOK
<1>4. /\ v \in Worker /\ v.exit = w.exit /\ v.ended = w.ended
      /\ (v.linked <=> w.linked \/ d.exact)
      /\ v.outcome = w.outcome /\ v.delivery = w.delivery
  BY RowsNow DEF Worker, Matches
<1>5. e = IF d.exact /\ w.ended /\ w.exit # "" THEN MergedTerminal(d, w.exit) ELSE d
  BY DEF Matches
<1> HIDE DEF v, e
<1>6. Row(d, w, e, v)
  BY <1>4, <1>5, RowsNow, LinkRow
<1>7. Tells(host[c], v, wire'[c])
  BY <1>4, RowStays DEF Tells
<1> QED
  BY <1>1, <1>2, <1>3, <1>6, <1>7, OneRow

\* The end of a receipt w, which is the one of the child or that one with its
\* delivery noted.
LEMMA EndedRows ==
    ASSUME IInv, Channel, NEW c \in Children, NEW w \in Worker, NEW o \in Outcomes,
           w.exit = worker[c].exit, w.ended = worker[c].ended,
           w.linked = worker[c].linked, w.outcome = worker[c].outcome,
           worker[c].delivery \in {"delivered", "interrupted"} =>
               w.delivery = worker[c].delivery,
           host[c] = "openclaw" => w.delivery = "delivered",
           w.delivery = "delivered" => wire'[c] = "accepted",
           Terminated(c, w, o)
    PROVE  Rows
<1> DEFINE d == delegation[c]
           v == [w EXCEPT !.exit = o, !.ended = TRUE, !.linked = @ \/ Matches(c)]
           e == IF Matches(c) THEN MergedTerminal(d, o) ELSE d
<1>1. worker' = [worker EXCEPT ![c] = v] /\ worker'[c] = v
  BY DEF Terminated, IInv, TypeOK
<1>2. /\ delegation' = delegation \/ delegation' = [delegation EXCEPT ![c] = e]
      /\ delegation'[c] = e
  BY DEF Terminated, IInv, TypeOK
<1>3. /\ v \in Worker /\ v.exit = o /\ v.ended = TRUE
      /\ (v.linked <=> worker[c].linked \/ d.exact)
      /\ v.outcome = worker[c].outcome /\ v.delivery = w.delivery
  BY DEF Worker, Matches
<1>4. worker[c].exit \in {"", o}
  BY RowsNow DEF Terminated, CanEnd, Follows
<1>5. e = IF d.exact THEN MergedTerminal(d, o) ELSE d
  BY DEF Matches
<1> HIDE DEF v, e
<1>6. Row(d, worker[c], e, v)
  BY <1>3, <1>4, <1>5, RowsNow, EndRow
<1>7. Tells(host[c], v, wire'[c])
  BY <1>3, RowsNow DEF Tells
<1> QED
  BY <1>1, <1>2, <1>6, <1>7, OneRow


LEMMA DeliveryRows ==
    ASSUME IInv, Channel, NEW c \in OpenClaw, NEW status \in {"delivered", "failed"},
           status = "delivered" => wire'[c] = "accepted",
           RecordDelivery(c, status)
    PROVE  Rows
<1> DEFINE w == [worker[c] EXCEPT !.delivery = status]
<1>0. c \in Children /\ host[c] = "openclaw"
  BY DEF OpenClaw
<1>1. /\ w \in Worker /\ w.exit = worker[c].exit /\ w.ended = worker[c].ended
      /\ w.linked = worker[c].linked /\ w.outcome = worker[c].outcome
      /\ w.delivery = status
  BY <1>0, RowsNow DEF Worker
<1>2. /\ CanDeliver(c, status)
      /\ \/ worker[c].delivery = status /\ UNCHANGED store
         \/ status = "delivered" /\ Terminated(c, w, w.outcome)
         \/ /\ worker[c].delivery # status /\ status # "delivered"
            /\ worker' = [worker EXCEPT ![c] = w]
            /\ UNCHANGED <<answer, delegation>>
  BY DEF RecordDelivery
<1>3. /\ worker[c].outcome # "" /\ worker[c].delivery \in {"pending", status}
      /\ worker[c].ended = (worker[c].delivery = "delivered")
  BY <1>2 DEF CanDeliver
<1> HIDE DEF w
<1>4. CASE worker[c].delivery = status /\ UNCHANGED store
  BY <1>4, StoreRests DEF store
<1>5. CASE status = "delivered" /\ Terminated(c, w, w.outcome)
  <2>1. w.outcome \in Outcomes
    BY <1>0, <1>1, <1>3, RowsNow DEF Worker
  <2> QED
    BY <1>0, <1>1, <1>3, <1>5, <2>1, EndedRows
<1>6. CASE /\ worker[c].delivery # status /\ status # "delivered"
           /\ worker' = [worker EXCEPT ![c] = w]
           /\ UNCHANGED <<answer, delegation>>
  <2>1. worker[c].delivery = "pending"
    BY <1>3, <1>6
  <2>2. worker[c].exit # "ok"
    BY <1>0, <2>1, RowsNow DEF Tells
  <2>3. Tells(host[c], w, wire'[c])
    BY <1>0, <1>1, <1>6, <2>2 DEF Tells
  <2> QED
    BY <1>0, <1>1, <1>6, <2>1, <2>3, Noted
<1> QED
  BY <1>2, <1>4, <1>5, <1>6

LEMMA ReconciledRows ==
    ASSUME IInv, Channel, Reconcile
    PROVE  Rows
<1>1. ASSUME NEW c \in Children
      PROVE  /\ Row(delegation[c], worker[c], delegation'[c], worker'[c])
             /\ Tells(host[c], worker'[c], wire'[c])
  <2>1. CASE c \notin Interrupted
    <3>1. delegation'[c] = delegation[c] /\ worker'[c] = worker[c]
      BY <2>1 DEF Reconcile
    <3> QED
      BY <3>1, RowStays
  <2>2. CASE c \in Interrupted
    <3> DEFINE v == [worker[c] EXCEPT !.delivery = "interrupted", !.exit = "error",
                                      !.ended = TRUE]
    <3>1. worker'[c] = v /\ delegation'[c] = MergedTerminal(delegation[c], "error")
      BY <2>2 DEF Reconcile
    <3>2. /\ host[c] = "openclaw" /\ worker[c].linked /\ delegation[c].exact
          /\ ~worker[c].ended /\ worker[c].delivery \in {"pending", "failed"}
      BY <2>2 DEF Interrupted, Open, Joined, Matches, OpenClaw
    <3>3. /\ v \in Worker /\ v.exit = "error" /\ v.ended = TRUE
          /\ v.linked = worker[c].linked /\ v.outcome = worker[c].outcome
          /\ v.delivery = "interrupted"
      BY RowsNow DEF Worker, Outcomes
    <3>4. worker[c].exit = "" /\ "error" \in Outcomes
      BY <3>2, RowsNow DEF Follows, Outcomes
    <3> HIDE DEF v
    <3>5. v.linked <=> worker[c].linked \/ delegation[c].exact
      BY <3>2, <3>3
    <3>6. Row(delegation[c], worker[c], MergedTerminal(delegation[c], "error"), v)
      BY <3>2, <3>3, <3>4, <3>5, RowsNow, EndRow
    <3>7. Tells(host[c], v, wire'[c])
      BY <3>2, <3>3 DEF Tells
    <3> QED
      BY <3>1, <3>6, <3>7
  <2> QED
    BY <2>1, <2>2
<1>2. delegation' \in [Children -> Delegation] /\ worker' \in [Children -> Worker]
  <2>1. \A c \in Children : delegation'[c] \in Delegation /\ worker'[c] \in Worker
    BY <1>1 DEF Row
  <2> QED
    BY <2>1 DEF Reconcile
<1> QED
  BY <1>1, <1>2 DEF Rows

\* The answer of the turn is given once.
Answers ==
    /\ answer' = answer \/ (answer = "" /\ answer' \in Children \cup {"other"})

\* The transaction of a bridge process.
LEMMA CommittedRows ==
    ASSUME IInv, Channel, NEW c \in OpenClaw, NEW call, NEW o \in Outcomes \cup {""},
           call \in DeliverySteps => wire'[c] = "accepted",
           Commits(c, call, o)
    PROVE  Rows /\ Answers
<1>0. c \in Children
  BY DEF OpenClaw
<1>1. CASE RecordDelegated(c)
  BY <1>0, <1>1, DelegatedRows DEF RecordDelegated, Answers
<1>2. CASE RecordStarted(c)
  BY <1>0, <1>2, StartedRows DEF RecordStarted, Answers
<1>3. CASE BindLaunch(c)
  BY <1>0, <1>3, BoundRows DEF BindLaunch, Answers
<1>4. CASE call = "observe" /\ RecordObserved(c, o)
  BY <1>4, ObservedRows DEF RecordObserved, Answers
<1>5. CASE call \in DeliverySteps /\ RecordDelivery(c, "delivered")
  <2>1. Rows
    BY <1>5, DeliveryRows
  <2>2. UNCHANGED answer
    BY <1>5 DEF RecordDelivery, Terminated, store
  <2> QED
    BY <2>1, <2>2 DEF Answers
<1>6. CASE Resolvable(c) /\ answer' = c /\ UNCHANGED <<delegation, worker>>
  BY <1>0, <1>6, StoreRests DEF Resolvable, Answers
<1> QED
  BY <1>1, <1>2, <1>3, <1>4, <1>5, <1>6 DEF Commits


-----------------------------------------------------------------------------
(* The plugin, the channel and the bridge processes                        *)

Tasks == Outcomes \cup {"unspawned", "running"}
Wires == {"none", "sent", "accepted", "rejected", "twice"}

\* What the plugin may remember, m, of a child whose message is at x, when the
\* turn has the answer a.
Recalls(c, m, x, a) ==
    /\ x # "twice" /\ (x # "none" => a = c)
    /\ m.completion = "authorized" => a = c /\ x = "none"
    /\ m.completion = "delivered" => x = "accepted"
    /\ m.call \in DeliverySteps => x = "accepted"

\* The part of a step that is outside the Store.
Talks ==
    /\ UNCHANGED host /\ Answers /\ Channel
    /\ plugin' \in [Children -> Memory] /\ task' \in [Children -> Tasks]
    /\ wire' \in [Children -> Wires]
    /\ \A c \in Children : Sends(c)'

\* The bridge processes that a step leaves.
Leaves ==
    \A s \in strays' :
        \/ s \in strays
        \/ /\ s \in StrayCalls /\ host[s.child] = "openclaw"
           /\ s.call \in DeliverySteps => wire[s.child] = "accepted"

Counts ==
    /\ starting' \in BOOLEAN
    /\ losses' \in 0 .. MaxLosses /\ restarts' \in 0 .. MaxRestarts

LEMMA TalksNow ==
    ASSUME IInv
    PROVE  /\ plugin \in [Children -> Memory] /\ task \in [Children -> Tasks]
           /\ wire \in [Children -> Wires]
           /\ answer \in Children \cup {"", "other"}
           /\ "" \notin Children /\ "other" \notin Children
           /\ \A c \in Children :
                 /\ plugin[c] \in Memory /\ task[c] \in Tasks /\ wire[c] \in Wires
                 /\ Recalls(c, plugin[c], wire[c], answer)
                 /\ host[c] = "plain" => /\ plugin[c] = Unknown /\ task[c] = "running"
                                         /\ wire[c] = "none"
<1>1. /\ plugin \in [Children -> Memory] /\ task \in [Children -> Tasks]
      /\ wire \in [Children -> Wires] /\ answer \in Children \cup {"", "other"}
  BY DEF IInv, TypeOK, Tasks, Wires
<1>2. \A c \in Children :
         /\ Recalls(c, plugin[c], wire[c], answer)
         /\ host[c] = "plain" => /\ plugin[c] = Unknown /\ task[c] = "running"
                                 /\ wire[c] = "none"
  BY DEF IInv, Sends, Recalls
<1>3. "" \notin Children /\ "other" \notin Children
  BY AnswerAssumption
<1> QED
  BY <1>1, <1>2, <1>3

\* Before the turn has an answer nothing was sent and nothing is authorized.
LEMMA Unanswered ==
    ASSUME IInv, answer = "", NEW c \in Children
    PROVE  /\ wire[c] = "none" /\ plugin[c].completion \notin {"authorized", "delivered"}
           /\ plugin[c].call \notin DeliverySteps
BY TalksNow DEF Recalls

LEMMA StepKeepsIInv ==
    ASSUME IInv, Talks, Rows, Leaves, Counts
    PROVE  IInv'
<1>1. host' \in Hosts /\ answer' \in Children \cup {"", "other"}
  BY DEF IInv, TypeOK, Talks, Answers
<1>2. strays' \subseteq StrayCalls
  BY DEF Leaves, IInv, TypeOK
<1>3. TypeOK'
  BY <1>1, <1>2 DEF TypeOK, Talks, Rows, Counts, Tasks, Wires
<1>4. \A c \in Children : Follows(delegation[c], worker[c])'
  BY DEF Rows, Row
<1>5. \A c \in Children : Delivers(c)' /\ Sends(c)'
  BY DEF Rows, Tells, Talks, Delivers
<1>6. ASSUME NEW s \in strays'
      PROVE  Reports(s)'
  <2>1. /\ s \in StrayCalls /\ host[s.child] = "openclaw"
        /\ s.call \in DeliverySteps => wire[s.child] = "accepted"
    BY DEF Leaves, IInv, TypeOK, Reports
  <2>2. s.child \in Children
    BY <2>1 DEF StrayCalls
  <2> QED
    BY <2>1, <2>2 DEF Reports, Talks, Channel
<1> QED
  BY <1>3, <1>4, <1>5, <1>6 DEF IInv

\* A step changes f at one child only.
Only(c, f, g, S) ==
    /\ g \in [Children -> S]
    /\ \A b \in Children : b # c => g[b] = f[b]

\* A step of the plugin, of its host or of the channel, for one child of OpenClaw.
LEMMA OneChild ==
    ASSUME IInv, NEW c \in Children, host[c] = "openclaw", host' = host, Answers,
           Only(c, plugin, plugin', Memory), Only(c, task, task', Tasks),
           Only(c, wire, wire', Wires), Recalls(c, plugin'[c], wire'[c], answer'),
           wire[c] = "accepted" => wire'[c] = "accepted"
    PROVE  Talks
<1>1. /\ plugin' \in [Children -> Memory]
      /\ \A b \in Children : b # c => plugin'[b] = plugin[b]
  BY DEF Only
<1>2. /\ task' \in [Children -> Tasks]
      /\ \A b \in Children : b # c => task'[b] = task[b]
  BY DEF Only
<1>3. /\ wire' \in [Children -> Wires]
      /\ \A b \in Children : b # c => wire'[b] = wire[b]
  BY DEF Only
<1>4. ASSUME NEW b \in Children
      PROVE  Sends(b)'
  <2>1. CASE b = c
    BY <1>1, <1>3, <2>1 DEF Sends, Recalls
  <2>2. CASE b # c
    <3>1. plugin'[b] = plugin[b] /\ wire'[b] = wire[b] /\ task'[b] = task[b]
      BY <1>1, <1>2, <1>3, <2>2
    <3>2. CASE answer' = answer
      BY <3>1, <3>2, TalksNow DEF Sends, Recalls
    <3>3. CASE answer = ""
      <4>1. /\ wire[b] = "none" /\ plugin[b].completion \notin {"authorized", "delivered"}
            /\ plugin[b].call \notin DeliverySteps
        BY <3>3, Unanswered
      <4>2. host[b] = "plain" => plugin[b] = Unknown /\ task[b] = "running"
        BY TalksNow
      <4> QED
        BY <3>1, <4>1, <4>2 DEF Sends
    <3> QED
      BY <3>2, <3>3 DEF Answers
  <2> QED
    BY <2>1, <2>2
<1>5. Channel
  BY <1>3 DEF Channel
<1> QED
  BY <1>1, <1>2, <1>3, <1>4, <1>5 DEF Talks

\* A step that leaves the plugin, its children and the channel alone.
LEMMA Silent ==
    ASSUME IInv, UNCHANGED <<host, task, plugin, wire>>, Answers
    PROVE  Talks
<1>1. ASSUME NEW b \in Children
      PROVE  Sends(b)'
  <2>1. CASE answer' = answer
    BY <2>1, TalksNow DEF Sends, Recalls
  <2>2. CASE answer = ""
    BY <2>2, TalksNow, Unanswered DEF Sends, Recalls
  <2> QED
    BY <2>1, <2>2 DEF Answers
<1> QED
  BY <1>1, TalksNow DEF Talks, Channel


-----------------------------------------------------------------------------
(* One lemma for each action                                               *)

Steps == Talks /\ Rows /\ Leaves /\ Counts

LEMMA MemoryNow ==
    ASSUME NEW m \in Memory
    PROVE  /\ m.launching \in BOOLEAN /\ m.known \in BOOLEAN /\ m.started \in BOOLEAN
           /\ m.recorded \in BOOLEAN /\ m.end \in Outcomes \cup {""}
           /\ m.seen \in Outcomes \cup {"none", "seen", "terminal"}
           /\ m.call \in Calls \cup {""}
           /\ m.run \in {"none", "persisting", "preparing", "prepared", "finalizing",
                         "authorized", "over"}
           /\ m.completion \in {"pending", "attempted", "authorized", "sending",
                                "delivered", "failed"}
BY DEF Memory

LEMMA PluginNow ==
    ASSUME IInv, NEW c \in Children
    PROVE  plugin[c] \in Memory /\ task[c] \in Tasks /\ wire[c] \in Wires
BY TalksNow

LEMMA UnknownIs ==
    /\ Unknown \in Memory /\ Unknown.launching = FALSE /\ Unknown.seen = "none"
    /\ Unknown.known = FALSE /\ Unknown.started = FALSE /\ Unknown.end = ""
    /\ Unknown.recorded = FALSE /\ Unknown.completion = "pending"
    /\ Unknown.call = "" /\ Unknown.run = "none"
BY DEF Unknown, Memory

\* Whatever the plugin remembers is about a child of OpenClaw.
LEMMA OfOpenClaw ==
    ASSUME IInv, NEW c \in Children,
           \/ plugin[c].launching \/ plugin[c].known \/ plugin[c].seen # "none"
           \/ plugin[c].call # "" \/ plugin[c].run # "none"
           \/ plugin[c].completion # "pending" \/ wire[c] # "none" \/ task[c] # "running"
    PROVE  host[c] = "openclaw" /\ c \in OpenClaw
<1>1. host[c] # "plain"
  BY TalksNow, UnknownIs
<1> QED
  BY <1>1, RowsNow DEF OpenClaw

LEMMA CountsRest ==
    ASSUME IInv, UNCHANGED <<starting, bounds>>
    PROVE  Counts
BY DEF IInv, TypeOK, Counts, bounds

LEMMA StraysRest ==
    ASSUME UNCHANGED strays
    PROVE  Leaves
BY DEF Leaves

\* A memory that tells nothing new of the completion.
LEMMA Recalled ==
    ASSUME IInv, NEW c \in Children, NEW m,
           m.completion \in {plugin[c].completion, "pending", "attempted"},
           m.call = plugin[c].call \/ m.call \notin DeliverySteps
    PROVE  Recalls(c, m, wire[c], answer)
BY TalksNow DEF Recalls

\* A step of the plugin that changes only its memory of one child, and may leave a
\* bridge process.
LEMMA PluginStep ==
    ASSUME IInv, NEW c \in Children, host[c] = "openclaw", NEW m \in Memory,
           plugin' = [plugin EXCEPT ![c] = m], Recalls(c, m, wire[c], answer),
           UNCHANGED <<host, store, task, starting, wire, bounds>>, Leaves
    PROVE  Steps
<1>1. Answers /\ answer' = answer /\ UNCHANGED <<delegation, worker>>
  BY DEF Answers, store
<1>2. Talks
  <2>1. plugin'[c] = m /\ Only(c, plugin, plugin', Memory)
    BY TalksNow DEF Only
  <2>2. Only(c, task, task', Tasks) /\ Only(c, wire, wire', Wires)
    BY TalksNow DEF Only
  <2>3. Recalls(c, plugin'[c], wire'[c], answer')
    BY <1>1, <2>1
  <2> QED
    BY <1>1, <2>1, <2>2, <2>3, OneChild
<1>3. Rows
  BY <1>1, <1>2, StoreRests DEF Talks
<1>4. Counts
  BY CountsRest
<1> QED
  BY <1>2, <1>3, <1>4 DEF Steps

\* The same, of a memory that tells nothing new of the completion.
LEMMA MemoryStep ==
    ASSUME IInv, NEW c \in Children, host[c] = "openclaw", NEW m \in Memory,
           plugin' = [plugin EXCEPT ![c] = m],
           m.completion \in {plugin[c].completion, "pending", "attempted"},
           m.call = plugin[c].call \/ m.call \notin DeliverySteps,
           UNCHANGED <<host, store, task, starting, wire, bounds>>, Leaves
    PROVE  Steps
<1>1. Recalls(c, m, wire[c], answer)
  BY Recalled
<1> QED
  BY <1>1, PluginStep

LEMMA SpawnStep ==
    ASSUME IInv, NEW c \in Children, Spawn(c)
    PROVE  Steps
<1> DEFINE m == [plugin[c] EXCEPT !.launching = TRUE]
<1>1. /\ plugin' = [plugin EXCEPT ![c] = m] /\ host[c] = "openclaw"
      /\ UNCHANGED <<host, store, strays, starting, wire, bounds>>
      /\ task' = [task EXCEPT ![c] = "running"] /\ "running" \in Tasks
  BY TalksNow DEF Spawn, Tasks
<1>2. m \in Memory /\ m.completion = plugin[c].completion /\ m.call = plugin[c].call
  BY PluginNow DEF Memory
<1> HIDE DEF m
<1>3. Recalls(c, m, wire[c], answer)
  BY <1>2, Recalled
<1>4. Answers /\ answer' = answer /\ UNCHANGED <<delegation, worker>>
  BY <1>1 DEF Answers, store
<1>5. Talks
  <2>1. plugin'[c] = m /\ Only(c, plugin, plugin', Memory)
    BY <1>1, <1>2, TalksNow DEF Only
  <2>2. Only(c, task, task', Tasks) /\ Only(c, wire, wire', Wires)
    BY <1>1, TalksNow DEF Only
  <2>3. Recalls(c, plugin'[c], wire'[c], answer')
    BY <1>3, <1>1, <1>4, <2>1
  <2> QED
    BY <1>1, <1>4, <2>1, <2>2, <2>3, OneChild
<1>6. Rows
  BY <1>4, <1>5, StoreRests DEF Talks
<1> QED
  BY <1>1, <1>5, <1>6, CountsRest, StraysRest DEF Steps

LEMMA SpawnedStep ==
    ASSUME IInv, NEW c \in Children, Spawned(c)
    PROVE  Steps
<1> DEFINE m == [plugin[c] EXCEPT !.seen = "seen"]
<1>1. /\ plugin' = [plugin EXCEPT ![c] = m] /\ host[c] = "openclaw"
      /\ UNCHANGED <<host, store, task, strays, starting, wire, bounds>>
  BY TalksNow DEF Spawned
<1>2. m \in Memory /\ m.completion = plugin[c].completion /\ m.call = plugin[c].call
  BY PluginNow DEF Memory
<1> HIDE DEF m
<1> QED
  BY <1>1, <1>2, StraysRest, MemoryStep

LEMMA AcceptedStep ==
    ASSUME IInv, NEW c \in Children, Accepted(c)
    PROVE  Steps
<1> DEFINE m == [Unknown EXCEPT !.known = TRUE, !.call = "delegate",
                                !.run = plugin[c].run,
                                !.end = IF plugin[c].seen \in Outcomes
                                        THEN plugin[c].seen ELSE ""]
<1>1. /\ plugin' = [plugin EXCEPT ![c] = m] /\ plugin[c].launching
      /\ UNCHANGED <<host, store, task, strays, starting, wire, bounds>>
  BY DEF Accepted, Remembers
<1>2. m \in Memory /\ m.completion = "pending" /\ m.call = "delegate"
  <2>1. plugin[c].run \in {"none", "persisting", "preparing", "prepared", "finalizing",
                         "authorized", "over"}
    BY TalksNow, MemoryNow
  <2>2. "delegate" \in Calls
    BY DEF Calls, StartSteps
  <2> QED
    BY <2>1, <2>2 DEF Memory, Unknown
<1> HIDE DEF m
<1>3. m.call \notin DeliverySteps
  BY <1>2 DEF DeliverySteps
<1>4. host[c] = "openclaw"
  BY <1>1, OfOpenClaw
<1> QED
  BY <1>1, <1>2, <1>3, <1>4, StraysRest, MemoryStep

LEMMA ChildEndsStep ==
    ASSUME IInv, NEW c \in Children, ChildEnds(c)
    PROVE  Steps
<1>1. /\ host[c] = "openclaw" /\ UNCHANGED <<host, store, plugin, strays, starting, wire, bounds>>
      /\ \E o \in {"ok", "killed"} : task' = [task EXCEPT ![c] = o]
  BY DEF ChildEnds
<1>2. PICK o \in {"ok", "killed"} : task' = [task EXCEPT ![c] = o]
  BY <1>1
<1>3. o \in Tasks
  BY DEF Tasks, Outcomes
<1>4. Answers /\ answer' = answer /\ UNCHANGED <<delegation, worker>>
  BY <1>1 DEF Answers, store
<1>5. Talks
  <2>1. Only(c, plugin, plugin', Memory)
    BY <1>1, TalksNow DEF Only
  <2>2. Only(c, task, task', Tasks) /\ Only(c, wire, wire', Wires)
    BY <1>1, <1>2, <1>3, TalksNow DEF Only
  <2>3. Recalls(c, plugin'[c], wire'[c], answer')
    BY TalksNow, <1>1, <1>4, <2>1
  <2> QED
    BY <1>1, <1>4, <2>1, <2>2, <2>3, OneChild
<1>6. Rows
  BY <1>4, <1>5, StoreRests DEF Talks
<1> QED
  BY <1>1, <1>5, <1>6, CountsRest, StraysRest DEF Steps

LEMMA PersistingIs ==
    ASSUME NEW m \in Memory
    PROVE  /\ Persisting(m) \in Memory
           /\ Persisting(m).completion = m.completion
           /\ Persisting(m).call = m.call \/ Persisting(m).call = "observe"
<1>1. "observe" \in Calls
  BY DEF Calls
<1>2. [m EXCEPT !.call = "observe"] \in Memory
  BY <1>1 DEF Memory
<1>3. /\ [m EXCEPT !.call = "observe"].completion = m.completion
      /\ [m EXCEPT !.call = "observe"].call = "observe"
  BY DEF Memory
<1> QED
  BY <1>2, <1>3 DEF Persisting

LEMMA KnownEndStep ==
    ASSUME IInv, NEW c \in Children, NEW o \in Outcomes, KnownEnd(c, o),
           UNCHANGED <<host, store, task, starting, wire, bounds>>
    PROVE  Steps
<1> DEFINE n == [plugin[c] EXCEPT !.end = o]
           m == Persisting(n)
<1>1. plugin' = [plugin EXCEPT ![c] = m] /\ plugin[c].known /\ UNCHANGED strays
  BY DEF KnownEnd, Remembers
<1>2. n \in Memory /\ n.completion = plugin[c].completion /\ n.call = plugin[c].call
  BY PluginNow DEF Memory
<1> HIDE DEF n
<1>3. /\ m \in Memory /\ m.completion = plugin[c].completion
      /\ m.call = plugin[c].call \/ m.call = "observe"
  BY <1>2, PersistingIs
<1> HIDE DEF m
<1>4. m.call = plugin[c].call \/ m.call \notin DeliverySteps
  BY <1>3 DEF DeliverySteps
<1>5. host[c] = "openclaw"
  BY <1>1, OfOpenClaw
<1> QED
  BY <1>1, <1>3, <1>4, <1>5, StraysRest, MemoryStep

LEMMA AgentEndStep ==
    ASSUME IInv, NEW c \in Children, AgentEnd(c)
    PROVE  Steps
<1>1. PICK o : o = IF task[c] = "ok" THEN "ok" ELSE "error"
  OBVIOUS
<1>2. o \in Outcomes
  BY <1>1 DEF Outcomes
<1>3. /\ task[c] \in Outcomes
      /\ UNCHANGED <<host, store, task, starting, wire, bounds>>
      /\ \/ KnownEnd(c, o)
         \/ /\ plugin' = [plugin EXCEPT ![c].seen = o]
            /\ UNCHANGED strays
  BY <1>1 DEF AgentEnd
<1>4. CASE KnownEnd(c, o)
  BY <1>2, <1>3, <1>4, KnownEndStep
<1>5. CASE plugin' = [plugin EXCEPT ![c].seen = o] /\ UNCHANGED strays
  <2> DEFINE m == [plugin[c] EXCEPT !.seen = o]
  <2>1. plugin' = [plugin EXCEPT ![c] = m]
    BY <1>5, TalksNow
  <2>2. m \in Memory /\ m.completion = plugin[c].completion /\ m.call = plugin[c].call
    BY <1>2, PluginNow DEF Memory
  <2> HIDE DEF m
  <2>3. host[c] = "openclaw"
    BY <1>3, OfOpenClaw DEF Outcomes
  <2> QED
    BY <1>3, <1>5, <2>1, <2>2, <2>3, StraysRest, MemoryStep
<1> QED
  BY <1>3, <1>4, <1>5

LEMMA SubagentEndedStep ==
    ASSUME IInv, NEW c \in Children, SubagentEnded(c)
    PROVE  Steps
<1>1. PICK o : o = task[c]
  OBVIOUS
<1>2. /\ o \in Outcomes
      /\ UNCHANGED <<host, store, task, starting, wire, bounds>>
      /\ \/ KnownEnd(c, o)
         \/ /\ plugin' = [plugin EXCEPT ![c].seen = IF @ = "seen" THEN o ELSE @]
            /\ strays' = strays \cup {[child |-> c, call |-> "observe", outcome |-> o]}
  BY <1>1 DEF SubagentEnded
<1>3. CASE KnownEnd(c, o)
  BY <1>2, <1>3, KnownEndStep
<1>4. CASE /\ plugin' = [plugin EXCEPT ![c].seen = IF @ = "seen" THEN o ELSE @]
           /\ strays' = strays \cup {[child |-> c, call |-> "observe", outcome |-> o]}
  <2> DEFINE m == [plugin[c] EXCEPT !.seen = IF @ = "seen" THEN o ELSE @]
  <2>1. plugin' = [plugin EXCEPT ![c] = m]
    BY <1>4, TalksNow
  <2>2. m \in Memory /\ m.completion = plugin[c].completion /\ m.call = plugin[c].call
    BY <1>2, PluginNow DEF Memory
  <2> HIDE DEF m
  <2>3. host[c] = "openclaw"
    BY <1>1, <1>2, OfOpenClaw DEF Outcomes
  <2>4. Leaves
    <3> DEFINE new == [child |-> c, call |-> "observe", outcome |-> o]
    <3>1. new \in StrayCalls /\ new.child = c /\ new.call \notin DeliverySteps
      BY <1>2 DEF StrayCalls, Calls, DeliverySteps
    <3> HIDE DEF new
    <3>2. strays' = strays \cup {new}
      BY <1>4 DEF new
    <3> QED
      BY <2>3, <3>1, <3>2 DEF Leaves
  <2> QED
    BY <1>2, <2>1, <2>2, <2>3, <2>4, MemoryStep
<1> QED
  BY <1>2, <1>3, <1>4


LEMMA PromptStep ==
    ASSUME IInv, NEW c \in Children, Prompt(c)
    PROVE  Steps
<1> DEFINE p == plugin[c]
           resolved == p.known /\ p.started /\ p.completion = "pending"
           next == CASE resolved /\ p.recorded -> [p EXCEPT !.run = "preparing"]
                     [] resolved /\ Persistable(p) ->
                            [p EXCEPT !.run = "persisting", !.call = "observe"]
                     [] OTHER -> [p EXCEPT !.run = "over"]
<1>0. \/ next = [p EXCEPT !.run = "preparing"]
      \/ next = [p EXCEPT !.run = "persisting", !.call = "observe"]
      \/ next = [p EXCEPT !.run = "over"]
  <2>1. CASE resolved /\ Persistable(p) /\ p.recorded
    BY <2>1 DEF Persistable
  <2>2. CASE resolved /\ Persistable(p) /\ ~p.recorded
    BY <2>2
  <2>3. CASE ~(resolved /\ Persistable(p)) /\ resolved /\ p.recorded
    BY <2>3
  <2>4. CASE ~(resolved /\ Persistable(p)) /\ ~(resolved /\ p.recorded)
    BY <2>4
  <2> QED
    BY <2>1, <2>2, <2>3, <2>4
<1>8. /\ plugin' = [plugin EXCEPT ![c] = next] /\ host[c] = "openclaw"
      /\ UNCHANGED <<host, store, task, strays, starting, wire, bounds>>
  BY DEF Prompt, Remembers
<1> HIDE DEF next
<1>1. /\ host[c] = "openclaw"
      /\ UNCHANGED <<host, store, task, strays, starting, wire, bounds>>
      /\ \/ plugin' = [plugin EXCEPT ![c] = [p EXCEPT !.run = "preparing"]]
         \/ plugin' = [plugin EXCEPT ![c] = [p EXCEPT !.run = "persisting",
                                                      !.call = "observe"]]
         \/ plugin' = [plugin EXCEPT ![c] = [p EXCEPT !.run = "over"]]
  BY <1>0, <1>8
<1>2. ASSUME NEW m \in Memory, m.completion = p.completion,
             m.call = p.call \/ m.call = "observe", plugin' = [plugin EXCEPT ![c] = m]
      PROVE  Steps
  <2>1. m.call = p.call \/ m.call \notin DeliverySteps
    BY <1>2 DEF DeliverySteps
  <2> QED
    BY <1>1, <1>2, <2>1, StraysRest, MemoryStep
<1>3. ASSUME NEW run \in {"preparing", "over"}
      PROVE  /\ [p EXCEPT !.run = run] \in Memory
             /\ [p EXCEPT !.run = run].completion = p.completion
             /\ [p EXCEPT !.run = run].call = p.call
  BY PluginNow DEF Memory
<1>4. /\ [p EXCEPT !.run = "persisting", !.call = "observe"] \in Memory
      /\ [p EXCEPT !.run = "persisting", !.call = "observe"].completion = p.completion
      /\ [p EXCEPT !.run = "persisting", !.call = "observe"].call = "observe"
  BY PluginNow DEF Memory, Calls
<1>5. CASE plugin' = [plugin EXCEPT ![c] = [p EXCEPT !.run = "preparing"]]
  BY <1>2, <1>3, <1>5
<1>6. CASE plugin' = [plugin EXCEPT ![c] = [p EXCEPT !.run = "persisting",
                                                     !.call = "observe"]]
  BY <1>2, <1>4, <1>6
<1>7. CASE plugin' = [plugin EXCEPT ![c] = [p EXCEPT !.run = "over"]]
  BY <1>2, <1>3, <1>7
<1> QED
  BY <1>1, <1>5, <1>6, <1>7

LEMMA PrepareStep ==
    ASSUME IInv, NEW c \in Children, Prepare(c)
    PROVE  Steps
<1> PICK run \in {"prepared", "over"} : plugin' = [plugin EXCEPT ![c].run = run]
  BY DEF Prepare
<1> DEFINE m == [plugin[c] EXCEPT !.run = run]
<1>1. /\ plugin' = [plugin EXCEPT ![c] = m] /\ plugin[c].run = "preparing"
      /\ UNCHANGED <<host, store, task, strays, starting, wire, bounds>>
  BY TalksNow DEF Prepare
<1>2. m \in Memory /\ m.completion = plugin[c].completion /\ m.call = plugin[c].call
  BY PluginNow DEF Memory
<1> HIDE DEF m
<1>3. host[c] = "openclaw"
  BY <1>1, OfOpenClaw
<1> QED
  BY <1>1, <1>2, <1>3, StraysRest, MemoryStep

LEMMA MessageStep ==
    ASSUME IInv, NEW c \in Children, Message(c)
    PROVE  Steps
<1> PICK run \in {"finalizing", "over"} :
          plugin' = [plugin EXCEPT ![c].completion = "attempted", ![c].run = run]
  BY DEF Message
<1> DEFINE m == [plugin[c] EXCEPT !.completion = "attempted", !.run = run]
<1>1. /\ plugin' = [plugin EXCEPT ![c] = m] /\ plugin[c].run = "prepared"
      /\ UNCHANGED <<host, store, task, strays, starting, wire, bounds>>
  BY TalksNow DEF Message
<1>2. m \in Memory /\ m.completion = "attempted" /\ m.call = plugin[c].call
  BY PluginNow DEF Memory
<1> HIDE DEF m
<1>3. host[c] = "openclaw"
  BY <1>1, OfOpenClaw
<1> QED
  BY <1>1, <1>2, <1>3, StraysRest, MemoryStep

LEMMA FinalizeStep ==
    ASSUME IInv, NEW c \in Children, Finalize(c)
    PROVE  Steps
<1>1. /\ plugin[c].run = "finalizing"
      /\ UNCHANGED <<host, delegation, worker, task, strays, starting, wire, bounds>>
  BY DEF Finalize
<1>2. host[c] = "openclaw"
  BY <1>1, OfOpenClaw
<1>3. CASE /\ Resolvable(c) /\ answer' = c
           /\ plugin' = [plugin EXCEPT ![c].completion = "authorized",
                                       ![c].run = "authorized"]
  <2> DEFINE m == [plugin[c] EXCEPT !.completion = "authorized", !.run = "authorized"]
  <2>1. plugin' = [plugin EXCEPT ![c] = m] /\ answer = ""
    BY <1>3, TalksNow DEF Resolvable
  <2>2. m \in Memory /\ m.completion = "authorized" /\ m.call = plugin[c].call
    BY PluginNow DEF Memory
  <2> HIDE DEF m
  <2>3. wire[c] = "none" /\ plugin[c].call \notin DeliverySteps
    BY <2>1, Unanswered
  <2>4. plugin'[c] = m /\ Only(c, plugin, plugin', Memory)
    BY <2>1, <2>2, TalksNow DEF Only
  <2>5. Only(c, task, task', Tasks) /\ Only(c, wire, wire', Wires) /\ wire' = wire
    BY <1>1, TalksNow DEF Only
  <2>6. Recalls(c, plugin'[c], wire'[c], answer')
    BY <1>3, <2>2, <2>3, <2>4, <2>5 DEF Recalls
  <2>7. Answers /\ host' = host
    BY <1>1, <1>3, <2>1 DEF Answers
  <2>8. Talks
    BY <1>2, <2>4, <2>5, <2>6, <2>7, OneChild
  <2>9. Rows
    BY <1>1, <2>8, StoreRests DEF Talks
  <2> QED
    BY <1>1, <2>8, <2>9, CountsRest, StraysRest DEF Steps
<1>4. CASE plugin' = [plugin EXCEPT ![c].run = "over"] /\ UNCHANGED answer
  <2> DEFINE m == [plugin[c] EXCEPT !.run = "over"]
  <2>1. /\ plugin' = [plugin EXCEPT ![c] = m]
        /\ UNCHANGED <<host, store, task, starting, wire, bounds>>
    BY <1>1, <1>4, TalksNow DEF store
  <2>2. m \in Memory /\ m.completion = plugin[c].completion /\ m.call = plugin[c].call
    BY PluginNow DEF Memory
  <2> HIDE DEF m
  <2> QED
    BY <1>1, <1>2, <2>1, <2>2, StraysRest, MemoryStep
<1> QED
  BY <1>3, <1>4 DEF Finalize

LEMMA SendingStep ==
    ASSUME IInv, NEW c \in Children, Sending(c)
    PROVE  Steps
<1>1. /\ plugin[c].completion = "authorized"
      /\ UNCHANGED <<host, store, task, strays, starting, bounds>>
  BY DEF Sending
<1>2. /\ host[c] = "openclaw" /\ answer = c /\ wire[c] = "none"
      /\ plugin[c].call \notin DeliverySteps
  BY <1>1, OfOpenClaw, TalksNow DEF Recalls
<1>3. CASE /\ plugin' = [plugin EXCEPT ![c].completion = "sending"]
           /\ wire' = [wire EXCEPT ![c] = IF @ = "none" THEN "sent" ELSE "twice"]
  <2> DEFINE m == [plugin[c] EXCEPT !.completion = "sending"]
  <2>1. plugin' = [plugin EXCEPT ![c] = m] /\ wire' = [wire EXCEPT ![c] = "sent"]
    BY <1>2, <1>3, TalksNow
  <2>2. m \in Memory /\ m.completion = "sending" /\ m.call = plugin[c].call
    BY PluginNow DEF Memory
  <2> HIDE DEF m
  <2>3. plugin'[c] = m /\ Only(c, plugin, plugin', Memory)
    BY <2>1, <2>2, TalksNow DEF Only
  <2>4. Only(c, task, task', Tasks) /\ Only(c, wire, wire', Wires) /\ wire'[c] = "sent"
    BY <1>1, <2>1, TalksNow DEF Only, Wires
  <2>5. Answers /\ host' = host /\ answer' = answer /\ UNCHANGED <<delegation, worker>>
    BY <1>1 DEF Answers, store
  <2>6. Recalls(c, plugin'[c], wire'[c], answer')
    BY <1>2, <2>2, <2>3, <2>4, <2>5 DEF Recalls
  <2>7. Talks
    BY <1>2, <2>3, <2>4, <2>5, <2>6, OneChild
  <2>8. Rows
    BY <2>5, <2>7, StoreRests DEF Talks
  <2> QED
    BY <1>1, <2>7, <2>8, CountsRest, StraysRest DEF Steps
<1>4. CASE plugin' = [plugin EXCEPT ![c].completion = "attempted"] /\ UNCHANGED wire
  <2> DEFINE m == [plugin[c] EXCEPT !.completion = "attempted"]
  <2>1. /\ plugin' = [plugin EXCEPT ![c] = m]
        /\ UNCHANGED <<host, store, task, starting, wire, bounds>>
    BY <1>1, <1>4, TalksNow
  <2>2. m \in Memory /\ m.completion = "attempted" /\ m.call = plugin[c].call
    BY PluginNow DEF Memory
  <2> HIDE DEF m
  <2> QED
    BY <1>1, <1>2, <2>1, <2>2, StraysRest, MemoryStep
<1> QED
  BY <1>3, <1>4 DEF Sending

LEMMA CompletionEndStep ==
    ASSUME IInv, NEW c \in Children, CompletionEnd(c)
    PROVE  Steps
<1> DEFINE m == [plugin[c] EXCEPT !.run = "over"]
           n == [m EXCEPT !.call = "delivered"]
<1>1. /\ plugin[c].run \in {"prepared", "authorized"}
      /\ UNCHANGED <<host, store, task, strays, starting, wire, bounds>>
      /\ \/ plugin' = [plugin EXCEPT ![c] = n] /\ m.completion = "delivered"
         \/ plugin' = [plugin EXCEPT ![c] = m]
  BY DEF CompletionEnd, Remembers
<1>2. m \in Memory /\ m.completion = plugin[c].completion /\ m.call = plugin[c].call
  BY PluginNow DEF Memory
<1>3. n \in Memory /\ n.completion = plugin[c].completion
  BY PluginNow DEF Memory, Calls, DeliverySteps
<1> HIDE DEF m, n
<1>4. host[c] = "openclaw"
  BY <1>1, OfOpenClaw
<1>5. CASE plugin' = [plugin EXCEPT ![c] = n] /\ m.completion = "delivered"
  <2>1. Recalls(c, n, wire[c], answer)
    BY <1>2, <1>3, <1>5, TalksNow DEF Recalls
  <2> QED
    BY <1>1, <1>3, <1>4, <1>5, <2>1, StraysRest, PluginStep
<1>6. CASE plugin' = [plugin EXCEPT ![c] = m]
  BY <1>1, <1>2, <1>4, <1>6, StraysRest, MemoryStep
<1> QED
  BY <1>1, <1>5, <1>6


LEMMA CallbackStep ==
    ASSUME IInv, NEW c \in Children, Callback(c)
    PROVE  Steps
<1>1. /\ host[c] = "plain"
      /\ UNCHANGED <<host, task, plugin, strays, starting, wire, bounds>>
  BY DEF Callback
<1>2. UNCHANGED answer
  BY DEF Callback, RecordDelegated, RecordStarted, BindLaunch, Stopped, Terminated
<1>3. Talks
  BY <1>1, <1>2, Silent DEF Answers
<1>4. Channel
  BY <1>3 DEF Talks
<1>5. Rows
  <2>1. CASE RecordDelegated(c)
    BY <1>4, <2>1, DelegatedRows
  <2>2. CASE RecordStarted(c)
    BY <1>4, <2>2, StartedRows
  <2>3. CASE BindLaunch(c)
    BY <1>4, <2>3, BoundRows
  <2>4. CASE Stopped(c)
    BY <1>4, <2>4, StoppedRows
  <2>5. CASE \E o \in Outcomes : worker[c].started /\ Terminated(c, worker[c], o)
    <3>1. PICK o \in Outcomes : Terminated(c, worker[c], o)
      BY <2>5
    <3>2. worker[c] \in Worker /\ Tells(host[c], worker[c], wire[c])
      BY RowsNow
    <3>3. worker[c].delivery = "delivered" => wire'[c] = "accepted"
      BY <1>1, <3>2 DEF Tells
    <3> QED
      BY <1>1, <1>4, <3>1, <3>2, <3>3, EndedRows
  <2> QED
    BY <2>1, <2>2, <2>3, <2>4, <2>5 DEF Callback
<1> QED
  BY <1>1, <1>3, <1>5, CountsRest, StraysRest DEF Steps

LEMMA ReportStep ==
    ASSUME IInv, NEW c \in Children, NEW status \in DOMAIN Rank, NEW exact \in BOOLEAN,
           Report(c, status, exact)
    PROVE  Steps
<1>1. /\ ~Conflicts(delegation[c], status, exact)
      /\ UNCHANGED <<host, answer, worker, task, plugin, strays, starting, wire, bounds>>
  BY DEF Report
<1> DEFINE e == exact /\ (status \in Executed \/ delegation[c].exact)
<1>2. delegation' = [delegation EXCEPT ![c] = Merged(@, status, e)]
  BY DEF Report
<1>3. e \in BOOLEAN /\ (e <=> exact /\ (status \in Executed \/ delegation[c].exact))
  OBVIOUS
<1> HIDE DEF e
<1>4. Talks
  BY <1>1, Silent DEF Answers
<1>5. Rows
  BY <1>1, <1>2, <1>3, <1>4, Ranks, UnitReported DEF Talks
<1> QED
  BY <1>1, <1>4, <1>5, CountsRest, StraysRest DEF Steps

LEMMA TurnEndsStep ==
    ASSUME IInv, TurnEnds
    PROVE  Steps
<1>1. /\ answer = "" /\ answer' = "other"
      /\ UNCHANGED <<host, delegation, worker, task, plugin, strays, starting, wire, bounds>>
  BY DEF TurnEnds
<1>2. Talks
  BY <1>1, Silent DEF Answers
<1>3. Rows
  BY <1>1, <1>2, StoreRests DEF Talks
<1> QED
  BY <1>1, <1>2, <1>3, CountsRest, StraysRest DEF Steps

LEMMA DeliveryAnswers ==
    ASSUME NEW c, NEW status, RecordDelivery(c, status)
    PROVE  UNCHANGED answer
BY DEF RecordDelivery, Terminated, store

LEMMA FinishedIs ==
    ASSUME NEW m \in Memory
    PROVE  /\ Finished(m) \in Memory /\ Finished(m).completion = "pending"
           /\ Finished(m).call = ""
BY DEF Finished, Memory, Unknown

LEMMA MessageSentStep ==
    ASSUME IInv, NEW c \in Children, NEW success \in BOOLEAN, MessageSent(c, success)
    PROVE  Steps
<1>0. PICK status : status = IF success THEN "delivered" ELSE "failed"
  OBVIOUS
<1> DEFINE m == [plugin[c] EXCEPT !.completion = status]
<1>1. /\ wire[c] = "sent"
      /\ wire' = [wire EXCEPT ![c] = IF success THEN "accepted" ELSE "rejected"]
      /\ UNCHANGED <<host, task, strays, starting, restarts>>
  BY DEF MessageSent
<1>2. /\ host[c] = "openclaw" /\ c \in OpenClaw /\ answer = c
      /\ plugin[c].completion \notin {"authorized", "delivered"}
      /\ plugin[c].call \notin DeliverySteps
  BY <1>1, OfOpenClaw, TalksNow DEF Recalls
<1>3. /\ \/ RecordDelivery(c, status) \/ UNCHANGED store
      /\ \/ UNCHANGED plugin
         \/ plugin' = [plugin EXCEPT ![c] = m]
         \/ plugin' = [plugin EXCEPT ![c] = Finished(m)]
      /\ UNCHANGED losses \/ (losses + 2 <= MaxLosses /\ losses' = losses + 2)
  BY <1>0 DEF MessageSent, Remembers
<1>4. m \in Memory /\ m.completion = status /\ m.call = plugin[c].call
  BY <1>0, PluginNow DEF Memory
<1> HIDE DEF m
<1>5. /\ Only(c, wire, wire', Wires) /\ Only(c, task, task', Tasks)
      /\ status = "delivered" => wire'[c] = "accepted"
      /\ wire'[c] \in {"accepted", "rejected"}
  BY <1>0, <1>1, TalksNow DEF Only, Wires
<1>6. answer' = answer /\ Answers
  BY <1>3, DeliveryAnswers DEF store, Answers
<1>7. /\ Only(c, plugin, plugin', Memory)
      /\ \/ plugin'[c].completion = plugin[c].completion
         \/ plugin'[c].completion \in {status, "pending"}
      /\ plugin'[c].call = plugin[c].call \/ plugin'[c].call = ""
  <2>1. CASE UNCHANGED plugin
    BY <2>1, TalksNow DEF Only
  <2>2. CASE plugin' = [plugin EXCEPT ![c] = m]
    BY <1>4, <2>2, TalksNow DEF Only
  <2>3. CASE plugin' = [plugin EXCEPT ![c] = Finished(m)]
    BY <1>4, <2>3, FinishedIs, TalksNow DEF Only
  <2> QED
    BY <1>3, <2>1, <2>2, <2>3
<1>8. Recalls(c, plugin'[c], wire'[c], answer')
  BY <1>0, <1>2, <1>5, <1>6, <1>7 DEF Recalls, DeliverySteps
<1>9. Talks
  BY <1>1, <1>2, <1>5, <1>6, <1>7, <1>8, OneChild
<1>10. Channel
  BY <1>9 DEF Talks
<1>11. Rows
  <2>1. CASE RecordDelivery(c, status)
    BY <1>0, <1>2, <1>5, <1>10, <2>1, DeliveryRows
  <2>2. CASE UNCHANGED store
    BY <1>10, <2>2, StoreRests DEF store
  <2> QED
    BY <1>3, <2>1, <2>2
<1>12. Counts
  <2>1. starting' \in BOOLEAN /\ restarts' \in 0 .. MaxRestarts
    BY <1>1 DEF IInv, TypeOK
  <2>2. losses \in 0 .. MaxLosses /\ MaxLosses \in Nat
    BY BoundsAssumption DEF IInv, TypeOK
  <2>3. losses' \in 0 .. MaxLosses
    BY <1>3, <2>2
  <2> QED
    BY <2>1, <2>3 DEF Counts
<1> QED
  BY <1>1, <1>9, <1>11, <1>12, StraysRest DEF Steps


\* A bridge process of a child commits, is refused or fails, and the plugin goes on.
LEMMA BridgeTalks ==
    ASSUME IInv, NEW c \in Children, host[c] = "openclaw", NEW m \in Memory,
           plugin' = [plugin EXCEPT ![c] = m], UNCHANGED <<host, task, wire>>, Answers,
           m.completion \in {plugin[c].completion, "pending"},
           m.call \in DeliverySteps => plugin[c].call \in DeliverySteps
    PROVE  Talks
<1>1. plugin'[c] = m /\ Only(c, plugin, plugin', Memory)
  BY TalksNow DEF Only
<1>2. Only(c, task, task', Tasks) /\ Only(c, wire, wire', Wires) /\ wire'[c] = wire[c]
  BY TalksNow DEF Only
<1>3. Recalls(c, m, wire[c], answer')
  <2>1. CASE answer' = answer
    BY <2>1, TalksNow DEF Recalls
  <2>2. CASE answer = ""
    BY <2>2, Unanswered DEF Recalls
  <2> QED
    BY <2>1, <2>2 DEF Answers
<1> QED
  BY <1>1, <1>2, <1>3, OneChild

LEMMA DoneIs ==
    ASSUME NEW c, NEW m \in Memory, m.call # "", NEW linked \in BOOLEAN,
           NEW n \in Done(c, m, m.call, linked)
    PROVE  /\ n \in Memory /\ n.completion \in {m.completion, "pending"}
           /\ n.call \notin DeliverySteps
<1>0. m.call \in {"delegate", "start", "bind", "observe"} \cup DeliverySteps
  BY MemoryNow DEF Calls, StartSteps
<1>1. CASE m.call \in {"delegate", "start"}
  <2>1. Following[m.call] \in {"start", "bind"}
    BY <1>1 DEF Following
  <2>2. n = [m EXCEPT !.call = Following[m.call]]
    BY <1>1 DEF Done, DeliverySteps
  <2> QED
    BY <2>1, <2>2 DEF Memory, Calls, StartSteps, DeliverySteps
<1>2. CASE m.call = "bind"
  <2>1. PICK named \in {TRUE, linked} :
            n = Persisting([m EXCEPT !.call = "", !.started = named])
    BY <1>2 DEF Done, DeliverySteps
  <2> DEFINE b == [m EXCEPT !.call = "", !.started = named]
  <2>2. b \in Memory /\ b.completion = m.completion /\ b.call = ""
    BY DEF Memory
  <2>3. n = Persisting(b)
    BY <2>1
  <2> HIDE DEF b
  <2> QED
    BY <2>2, <2>3, PersistingIs DEF DeliverySteps
<1>3. CASE m.call = "observe"
  <2>1. n = [m EXCEPT !.call = "", !.recorded = TRUE,
                      !.run = IF @ = "persisting" THEN "preparing" ELSE @]
    BY <1>3 DEF Done, DeliverySteps
  <2> QED
    BY <2>1 DEF Memory, DeliverySteps
<1>4. CASE m.call \in DeliverySteps
  <2>1. n = Finished(m)
    BY <1>4 DEF Done, DeliverySteps
  <2> QED
    BY <2>1, FinishedIs DEF DeliverySteps
<1> QED
  BY <1>0, <1>1, <1>2, <1>3, <1>4

LEMMA FailedIs ==
    ASSUME NEW m \in Memory, m.call # ""
    PROVE  /\ Failed(m, m.call) \in Memory /\ Failed(m, m.call).completion = m.completion
           /\ Failed(m, m.call).call \in DeliverySteps => m.call \in DeliverySteps
<1>0. m.call \in StartSteps \cup {"redelivered", "observe", "delivered"}
  BY MemoryNow DEF Calls, DeliverySteps
<1>1. CASE m.call \in StartSteps \cup {"redelivered"}
  <2>1. Failed(m, m.call) = [m EXCEPT !.call = ""]
    BY <1>1 DEF Failed, StartSteps
  <2> QED
    BY <2>1 DEF Memory, DeliverySteps
<1>2. CASE m.call = "observe"
  <2>1. Failed(m, m.call) = [m EXCEPT !.call = "",
                                      !.run = IF @ = "persisting" THEN "over" ELSE @]
    BY <1>2 DEF Failed, StartSteps
  <2> QED
    BY <2>1 DEF Memory, DeliverySteps
<1>3. CASE m.call = "delivered"
  <2>1. Failed(m, m.call) = [m EXCEPT !.call = "redelivered"]
    BY <1>3 DEF Failed, StartSteps
  <2>2. "redelivered" \in Calls
    BY DEF Calls, DeliverySteps
  <2> QED
    BY <1>3, <2>1, <2>2 DEF Memory, DeliverySteps
<1> QED
  BY <1>0, <1>1, <1>2, <1>3

LEMMA AfterwardsLeaves ==
    ASSUME NEW c \in Children, host[c] = "openclaw",
           \/ UNCHANGED strays \/ \E call : Afterwards(c, call)
    PROVE  Leaves
<1> DEFINE new == [child |-> c, call |-> "delegateAgain", outcome |-> ""]
<1>1. new \in StrayCalls /\ new.child = c /\ new.call \notin DeliverySteps
  BY DEF StrayCalls, DeliverySteps
<1> HIDE DEF new
<1>2. strays' = strays \/ strays' = strays \cup {new}
  BY DEF Afterwards, new
<1> QED
  BY <1>1, <1>2 DEF Leaves

\* A transaction, or none, on behalf of a child of OpenClaw while the channel rests.
LEMMA BridgeRows ==
    ASSUME IInv, NEW c \in Children, host[c] = "openclaw", UNCHANGED wire,
           NEW call, NEW o \in Outcomes \cup {""},
           call \in DeliverySteps => wire[c] = "accepted",
           Commits(c, call, o) \/ UNCHANGED store
    PROVE  Rows /\ Answers
<1>1. Channel /\ c \in OpenClaw
  BY DEF Channel, OpenClaw
<1>2. CASE Commits(c, call, o)
  BY <1>1, <1>2, CommittedRows
<1>3. CASE UNCHANGED store
  BY <1>1, <1>3, StoreRests DEF store, Answers
<1> QED
  BY <1>2, <1>3

LEMMA ServeStep ==
    ASSUME IInv, NEW c \in Children, Serve(c)
    PROVE  Steps
<1> DEFINE m == plugin[c]
<1>0. m \in Memory /\ m.end \in Outcomes \cup {""} /\ worker[c].linked \in BOOLEAN
  BY PluginNow, MemoryNow, RowsNow DEF Worker
<1>1. /\ m.call # "" /\ UNCHANGED <<host, task, starting, wire, bounds>>
      /\ \/ /\ Commits(c, m.call, m.end)
            /\ \E n \in Done(c, m, m.call, worker[c].linked) :
                  plugin' = [plugin EXCEPT ![c] = n]
         \/ /\ UNCHANGED store
            /\ plugin' = [plugin EXCEPT ![c] = Failed(m, m.call)]
      /\ UNCHANGED strays \/ Afterwards(c, m.call)
  BY DEF Serve, Remembers
<1>2. host[c] = "openclaw" /\ (m.call \in DeliverySteps => wire[c] = "accepted")
  BY <1>1, OfOpenClaw, TalksNow DEF Recalls
<1>3. Rows /\ Answers
  BY <1>0, <1>1, <1>2, BridgeRows
<1>4. PICK n \in Memory : /\ plugin' = [plugin EXCEPT ![c] = n]
                          /\ n.completion \in {m.completion, "pending"}
                          /\ n.call \in DeliverySteps => m.call \in DeliverySteps
  BY <1>0, <1>1, DoneIs, FailedIs
<1> HIDE DEF m
<1>5. Talks
  BY <1>1, <1>2, <1>3, <1>4, BridgeTalks DEF m
<1>6. Leaves
  BY <1>1, <1>2, AfterwardsLeaves
<1> QED
  BY <1>1, <1>3, <1>5, <1>6, CountsRest DEF Steps

LEMMA LoseStep ==
    ASSUME IInv, NEW c \in Children, Lose(c)
    PROVE  Steps
<1> DEFINE m == plugin[c]
           n == IF m.call # "" THEN Failed(m, m.call) ELSE [m EXCEPT !.run = "over"]
<1>0. PICK call : call = IF m.call # "" THEN m.call ELSE "finalize"
  OBVIOUS
<1>1. /\ m \in Memory /\ m.end \in Outcomes \cup {""}
      /\ [m EXCEPT !.run = "over"] \in Memory
      /\ [m EXCEPT !.run = "over"].completion = m.completion
      /\ [m EXCEPT !.run = "over"].call = m.call
  BY PluginNow, MemoryNow DEF Memory
<1>2. /\ n \in Memory /\ n.completion = m.completion
      /\ n.call \in DeliverySteps => m.call \in DeliverySteps
  BY <1>1, FailedIs
<1>3. /\ UNCHANGED <<host, task, starting, wire, restarts>>
      /\ losses < MaxLosses /\ losses' = losses + 1
      /\ Commits(c, call, m.end) \/ UNCHANGED store
      /\ Afterwards(c, call)
      /\ m.call # "" \/ m.run \in {"preparing", "finalizing"}
  BY <1>0 DEF Lose
<1>4. plugin' = [plugin EXCEPT ![c] = n]
  BY <1>0 DEF Lose, Remembers
<1> HIDE DEF n
<1>5. host[c] = "openclaw"
  BY <1>3, OfOpenClaw
<1>6. call \in DeliverySteps => wire[c] = "accepted"
  BY <1>0, TalksNow DEF Recalls, DeliverySteps
<1>7. Rows /\ Answers
  BY <1>1, <1>3, <1>5, <1>6, BridgeRows
<1>8. Talks
  BY <1>2, <1>3, <1>4, <1>5, <1>7, BridgeTalks
<1>9. Leaves
  BY <1>3, <1>5, AfterwardsLeaves
<1>10. Counts
  <2>1. losses \in 0 .. MaxLosses /\ MaxLosses \in Nat
    BY BoundsAssumption DEF IInv, TypeOK
  <2>2. losses < MaxLosses /\ losses' = losses + 1
    BY <1>3
  <2>3. losses' \in 0 .. MaxLosses
    BY <2>1, <2>2
  <2> QED
    BY <1>3, <2>3 DEF Counts, IInv, TypeOK
<1> QED
  BY <1>7, <1>8, <1>9, <1>10 DEF Steps


LEMMA FollowingIs ==
    /\ DOMAIN Following = {"delegate", "start", "delegateAgain"}
    /\ \A call \in DOMAIN Following :
          /\ Following[call] \in Calls \cup {"startAgain"}
          /\ Following[call] \notin DeliverySteps
<1>1. /\ DOMAIN Following = {"delegate", "start", "delegateAgain"}
      /\ Following["delegate"] = "start" /\ Following["start"] = "bind"
      /\ Following["delegateAgain"] = "startAgain"
  BY DEF Following
<1> QED
  BY <1>1 DEF Calls, StartSteps, DeliverySteps

LEMMA StrayStep ==
    ASSUME IInv, Stray
    PROVE  Steps
<1> PICK s \in strays :
        /\ \/ /\ Commits(s.child, s.call, s.outcome)
              /\ strays' = (strays \ {s}) \cup
                    IF s.call \in DOMAIN Following
                    THEN {[s EXCEPT !.call = Following[s.call]]} ELSE {}
           \/ /\ strays' = strays \ {s}
              /\ UNCHANGED store
        /\ UNCHANGED <<host, task, plugin, starting, wire, bounds>>
  BY DEF Stray
<1> DEFINE next == [s EXCEPT !.call = Following[s.call]]
<1>1. /\ s \in StrayCalls /\ host[s.child] = "openclaw"
      /\ s.call \in DeliverySteps => wire[s.child] = "accepted"
  BY DEF IInv, TypeOK, Reports
<1>2. s.child \in Children /\ s.outcome \in Outcomes \cup {""}
  BY <1>1 DEF StrayCalls
<1>3. Rows /\ Answers
  BY <1>1, <1>2, BridgeRows
<1>4. Talks
  BY <1>3, Silent
<1>5. s.call \in DOMAIN Following =>
          next \in StrayCalls /\ next.child = s.child /\ next.call \notin DeliverySteps
  BY <1>1, FollowingIs DEF StrayCalls
<1>6. \A t \in strays' : t \in strays \/ (s.call \in DOMAIN Following /\ t = next)
  OBVIOUS
<1> HIDE DEF next
<1>7. Leaves
  BY <1>1, <1>5, <1>6 DEF Leaves
<1> QED
  BY <1>3, <1>4, <1>7, CountsRest DEF Steps

LEMMA LeftReports ==
    ASSUME IInv, NEW c \in OpenClaw, NEW s \in Left(c)
    PROVE  /\ s \in StrayCalls /\ host[s.child] = "openclaw"
           /\ s.call \in DeliverySteps => wire[s.child] = "accepted"
<1>0. c \in Children /\ host[c] = "openclaw"
  BY DEF OpenClaw
<1>1. plugin[c].call \in Calls \cup {""} /\ plugin[c].end \in Outcomes \cup {""}
  BY <1>0, PluginNow, MemoryNow
<1>2. plugin[c].call \in DeliverySteps => wire[c] = "accepted"
  BY <1>0, TalksNow DEF Recalls
<1>3. CASE plugin[c].call # ""
  <2>1. s = [child |-> c, call |-> plugin[c].call, outcome |-> plugin[c].end]
    BY <1>3 DEF Left
  <2>2. s \in StrayCalls /\ s.child = c /\ s.call = plugin[c].call
    BY <1>0, <1>1, <1>3, <2>1 DEF StrayCalls
  <2> QED
    BY <1>0, <1>2, <2>2
<1>4. CASE plugin[c].call = ""
  <2>1. s = [child |-> c, call |-> "finalize", outcome |-> ""]
    BY <1>4 DEF Left
  <2>2. s \in StrayCalls /\ s.child = c /\ s.call \notin DeliverySteps
    BY <1>0, <2>1 DEF StrayCalls, DeliverySteps
  <2> QED
    BY <1>0, <2>2
<1> QED
  BY <1>3, <1>4

LEMMA ForgetStep ==
    ASSUME IInv, Forget
    PROVE  Steps
<1>1. /\ restarts < MaxRestarts /\ restarts' = restarts + 1
      /\ plugin' = [c \in Children |->
                    [Unknown EXCEPT !.run = IF plugin[c].run = "none" THEN @ ELSE "over"]]
      /\ strays' = strays \cup UNION {Left(c) : c \in OpenClaw}
      /\ starting' \in {TRUE, starting}
      /\ UNCHANGED <<host, store, task, wire, losses>>
  BY DEF Forget
<1>2. answer' = answer /\ Answers /\ UNCHANGED <<delegation, worker>>
  BY <1>1 DEF store, Answers
<1>3. Channel
  BY <1>1 DEF Channel
<1>4. Rows
  BY <1>2, <1>3, StoreRests
<1>5. ASSUME NEW c \in Children
      PROVE  /\ plugin'[c] \in Memory /\ plugin'[c].completion = "pending"
             /\ plugin'[c].call = ""
             /\ plugin[c].run = "none" => plugin'[c] = Unknown
  BY <1>1 DEF Unknown, Memory
<1>6. plugin' \in [Children -> Memory]
  BY <1>1, <1>5
<1>7. ASSUME NEW c \in Children
      PROVE  Sends(c)'
  <2>1. /\ Recalls(c, plugin[c], wire[c], answer)
        /\ host[c] = "plain" => /\ plugin[c] = Unknown /\ task[c] = "running"
                                /\ wire[c] = "none"
    BY TalksNow
  <2>2. host[c] = "plain" => plugin'[c] = Unknown
    BY <1>5, <2>1, UnknownIs
  <2> QED
    BY <1>1, <1>2, <1>5, <2>1, <2>2 DEF Sends, Recalls, DeliverySteps
<1>8. Talks
  BY <1>1, <1>2, <1>3, <1>6, <1>7, TalksNow DEF Talks
<1>9. Leaves
  BY <1>1, LeftReports DEF Leaves
<1>10. Counts
  <2>1. /\ restarts \in 0 .. MaxRestarts /\ MaxRestarts \in Nat
        /\ losses' \in 0 .. MaxLosses /\ starting' \in BOOLEAN
    BY <1>1, BoundsAssumption DEF IInv, TypeOK
  <2>2. restarts < MaxRestarts /\ restarts' = restarts + 1
    BY <1>1
  <2>3. restarts' \in 0 .. MaxRestarts
    BY <2>1, <2>2
  <2> QED
    BY <2>1, <2>3 DEF Counts
<1> QED
  BY <1>4, <1>8, <1>9, <1>10 DEF Steps

LEMMA GatewayStartStep ==
    ASSUME IInv, GatewayStart
    PROVE  Steps
<1>1. /\ starting' = FALSE
      /\ \/ Reconcile /\ UNCHANGED losses
         \/ losses < MaxLosses /\ losses' = losses + 1 /\ UNCHANGED store
      /\ UNCHANGED <<host, task, plugin, strays, wire, restarts>>
  BY DEF GatewayStart
<1>2. answer' = answer /\ Answers
  BY <1>1 DEF Reconcile, store, Answers
<1>3. Talks
  BY <1>1, <1>2, Silent
<1>4. Rows
  <2>1. Channel
    BY <1>3 DEF Talks
  <2> QED
    BY <1>1, <2>1, ReconciledRows, StoreRests DEF store
<1>5. Counts
  <2>1. /\ restarts' \in 0 .. MaxRestarts /\ starting' \in BOOLEAN
        /\ losses \in 0 .. MaxLosses /\ MaxLosses \in Nat
    BY <1>1, BoundsAssumption DEF IInv, TypeOK
  <2>2. losses' = losses \/ (losses < MaxLosses /\ losses' = losses + 1)
    BY <1>1
  <2>3. losses' \in 0 .. MaxLosses
    BY <2>1, <2>2
  <2> QED
    BY <2>1, <2>3 DEF Counts
<1> QED
  BY <1>1, <1>3, <1>4, <1>5, StraysRest DEF Steps

-----------------------------------------------------------------------------
(* The theorems                                                            *)

LEMMA InitIInv == Init => IInv
<1> SUFFICES ASSUME Init PROVE IInv
  OBVIOUS
<1>1. /\ NoWorker \in Worker /\ NoWorker.exit = "" /\ NoWorker.outcome = ""
      /\ NoWorker.delivery = "" /\ NoWorker.linked = FALSE
  BY DEF NoWorker, Worker
<1> DEFINE d == [status |-> "suggested", exact |-> FALSE]
<1>2. d \in Delegation /\ d.status = "suggested" /\ d.exact = FALSE
  BY DelegationType DEF Statuses
<1>3. \A c \in Children : /\ worker[c] = NoWorker /\ delegation[c] = d
                          /\ plugin[c] = Unknown /\ wire[c] = "none"
  BY DEF Init
<1> HIDE DEF d
<1>4. /\ host \in Hosts /\ answer = "" /\ worker \in [Children -> Worker]
      /\ plugin \in [Children -> Memory] /\ strays = {} /\ starting = FALSE
      /\ wire \in [Children -> Wires] /\ losses = 0 /\ restarts = 0
      /\ task \in [Children -> Tasks]
  BY <1>1, UnknownIs DEF Init, Wires, Tasks
<1>5. delegation \in [Children -> Delegation]
  BY <1>2 DEF Init, d
<1>6. 0 \in 0 .. MaxLosses /\ 0 \in 0 .. MaxRestarts
  BY BoundsAssumption
<1>7. TypeOK
  BY <1>4, <1>5, <1>6 DEF TypeOK, Wires, Tasks
<1>8. \A c \in Children : Follows(delegation[c], worker[c])
  BY <1>1, <1>2, <1>3 DEF Follows
<1>9. \A c \in Children : host[c] = "plain" => task[c] = "running"
  BY DEF Init
<1>10. \A c \in Children : Delivers(c) /\ Sends(c)
  BY <1>1, <1>3, <1>9, UnknownIs DEF Delivers, Sends, DeliverySteps
<1> QED
  BY <1>4, <1>7, <1>8, <1>10 DEF IInv

LEMMA NextSteps ==
    ASSUME IInv, Next
    PROVE  Steps
<1>1. ASSUME NEW c \in Children, Plugin(c)
      PROVE  Steps
  BY <1>1, SpawnStep, SpawnedStep, AcceptedStep, ChildEndsStep, AgentEndStep,
     SubagentEndedStep, PromptStep, PrepareStep, MessageStep, FinalizeStep,
     SendingStep, CompletionEndStep, ServeStep, LoseStep, MessageSentStep DEF Plugin
<1> QED
  BY <1>1, CallbackStep, ReportStep, TurnEndsStep, StrayStep, ForgetStep,
     GatewayStartStep DEF Next

LEMMA NextIInv == IInv /\ [Next]_vars => IInv'
<1> SUFFICES ASSUME IInv, [Next]_vars PROVE IInv'
  OBVIOUS
<1>1. CASE Next
  BY <1>1, NextSteps, StepKeepsIInv DEF Steps
<1>2. CASE UNCHANGED vars
  BY <1>2 DEF vars, store, bounds, IInv, TypeOK, Delivers, Sends, Reports
<1> QED
  BY <1>1, <1>2

\* The receipts, the work units, the channel and what the plugin remembers agree
\* in every reachable state as the inductive invariant says.
THEOREM Invariance == Spec => []IInv
BY InitIInv, NextIInv, PTL DEF Spec

\* The rows and the memory are well formed, and a receipt that ended with an
\* outcome has closed the work unit it is linked to, a failed one never as
\* completed, in whatever order callbacks, reports and bridge processes commit.
THEOREM ReceiptsAgree == Spec => []ReceiptsConsistent
<1>1. IInv => ReceiptsConsistent
  BY DEF IInv, Follows, ReceiptsConsistent, DelegationFollows
<1> QED
  BY <1>1, Invariance, PTL

\* A turn sends one completion message at most, its answer, and a receipt says
\* delivered, or observed and successful, only of a message the channel took.
THEOREM SentOnce == Spec => []SentIsFinal
<1>1. ASSUME IInv, NEW c \in Children
      PROVE  /\ wire[c] # "twice" /\ (wire[c] # "none" => answer = c)
             /\ worker[c].delivery = "delivered" => wire[c] = "accepted"
             /\ worker[c].outcome # "" /\ worker[c].exit = "ok" =>
                   worker[c].delivery = "delivered"
  BY <1>1, RowsNow DEF IInv, Sends, Delivers
<1>2. IInv => SentIsFinal
  BY <1>1 DEF SentIsFinal
<1> QED
  BY <1>2, Invariance, PTL

\* No callback, retry or bridge process that commits late takes back an outcome, a
\* delivery or a link of a receipt, or the failure of a work unit.
THEOREM OutcomesStay == Spec => OutcomeIsFinal
<1> DEFINE Stays ==
        \A c \in Children :
            /\ worker[c].exit \in {"", worker'[c].exit}
            /\ worker[c].outcome \in {"", worker'[c].outcome}
            /\ worker[c].delivery \in {"delivered", "interrupted"} =>
                  worker'[c].delivery = worker[c].delivery
            /\ worker[c].linked => worker'[c].linked
            /\ delegation[c].status = "failed" => delegation'[c].status = "failed"
<1>1. ASSUME IInv, Next
      PROVE  Stays
  BY <1>1, NextSteps DEF Steps, Rows, Row, Keeps
<1>2. IInv /\ [Next]_vars => [Stays]_vars
  BY <1>1
<1>3. Spec => [][Stays]_vars
  BY <1>2, Invariance, PTL DEF Spec
<1> QED
  BY <1>3 DEF OutcomeIsFinal


=============================================================================
