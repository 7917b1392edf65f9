------------------------- MODULE ResidentBindingProofs -------------------------
(* What the prompt and Stop hooks may rely on of the row of                *)
(* resident_manager_bindings, for any number of turns, switches and losses *)
(* of context, and whatever may go wrong in a behaviour.                   *)
EXTENDS ResidentBinding, TLAPS

-----------------------------------------------------------------------------
(* The inductive invariant                                                 *)

\* An epoch that was current once, when both switches were on.
Seen(e) ==
    /\ e.master <= master.generation /\ e.control <= control.generation
    /\ e.master = master.generation =>
          master.on /\ (e.materialized <=> master.materialized)
    /\ e.control = control.generation => control.on

\* What is planned in epoch e with the row as it is.
PlannedFor(e) ==
    [mode |-> IF Reusable(e) /\ Current(e) THEN PlannedDelivery ELSE "injected",
     epoch |-> e]

\* As long as every claim is printed, the hooks say what the rows promise.
Printing == failures \cap Unprinted = {}

Running(t) == host.turn = t /\ host.phase = "running"

\* Only the newest turn is open, and nothing is bound before the claim.
TurnsHold ==
    /\ host.phase # "idle" => host.turn # 0
    /\ \A t \in Turns :
          /\ turns[t].status # "none" <=> t <= host.turn
          /\ turns[t].status \in Open => t = host.turn
          /\ turns[t].status \in {"none", "reserved", "in_progress"} =>
                turns[t].bound = NoBinding

\* A delivery in progress belongs to a turn that committed its claim.
PendingClaimed ==
    row.delivery = "pending" =>
        /\ row.last = row.trace
        /\ turns[row.trace].status \notin {"none", "reserved", "in_progress"}
        /\ failures \cap {"ceiling", "retention"} = {} =>
              turns[row.trace].status \in Recoverable \cup {"ready"}

\* A delivery that is not behind the losses is in the context.
KernelLoaded ==
    row.delivery # "absent" /\ row.epoch = CurrentEpoch =>
        /\ row.delivery = "acknowledged" /\ row.restore = row.applied => context
        /\ row.delivery = "pending" /\ row.restore = row.pending /\ Running(row.trace)
              => context

RowHolds ==
    /\ row.delivery # "absent" => Seen(row.epoch)
    /\ PendingClaimed
    /\ Printing => KernelLoaded
    /\ "unreadable" \notin failures => readable

\* The row still knows what the turn the host is at has claimed.
BoundHeld ==
    LET t == host.turn
        b == turns[t].bound
    IN  host.phase # "idle" /\ b # NoBinding /\ Reusable(b.epoch) =>
            /\ Current(b.epoch)
            /\ \/ row.delivery = "acknowledged" /\ row.last = t
               \/ row.delivery = "pending" /\ row.trace = t

\* Before its claim the plans of the awaited hook are those of the row, and the
\* second one is not older than the first.
PlansHold(h) ==
    /\ h.plan # NoBinding /\ h.plan = PlannedFor(h.plan.epoch)
    /\ h.recipe # NoBinding /\ h.recipe = PlannedFor(h.recipe.epoch)
    /\ "unreadable" \notin failures =>
          /\ h.plan.epoch.master <= h.recipe.epoch.master
          /\ h.plan.epoch.control <= h.recipe.epoch.control

\* And after it the row is as claimed by binding b.
ClaimHolds(t, b) ==
    /\ row.delivery = "pending" /\ row.trace = t => row.epoch = b.epoch
    /\ Reusable(b.epoch) =>
          /\ Current(b.epoch)
          /\ \/ /\ b.mode # "reused" /\ row.delivery = "pending"
                /\ row.mode = b.mode /\ row.trace = t
             \/ /\ row.delivery = "acknowledged" /\ row.restore = row.applied
                /\ b.mode = "reused"

\* A hook about to say nothing has no claim that is still good.
Unclaimed(t) == row.delivery = "pending" /\ row.trace = t => row.epoch # CurrentEpoch

\* The hook h of the turn t that the host waits for.
AwaitedFits(t, h) ==
    /\ h.pc = "begin" => turns[t].status = "reserved"
    /\ h.pc \in {"plan", "commit", "replan", "recommit"} =>
          turns[t].status = "in_progress"
    /\ h.pc \in {"commit", "replan", "recommit"} => PlansHold(h)
    /\ h.pc = "read" => turns[t].status # "in_progress" /\ ClaimHolds(t, h.recipe)
    /\ Printing =>
          /\ h.pc = "silent" => Unclaimed(t)
          /\ h.pc = "failing" /\ ~h.staffing =>
                /\ Unclaimed(t)
                /\ turns[t].status = "in_progress" /\ h.plan # NoBinding =>
                      ~CanClaim(h.plan, t)
          /\ h.plan.mode = "reused" \/ h.recipe.mode = "reused" => context

\* Any hook h, whether anybody listens to it or not.
HookKnown(t, h) ==
    /\ turns[t].status = "none" => h = IdleHook
    /\ h.pc \in {"begin", "plan"} =>
          h.plan = NoBinding /\ h.recipe = NoBinding /\ ~h.staffing
    /\ h.plan # NoBinding => Seen(h.plan.epoch)
    /\ h.recipe # NoBinding => Seen(h.recipe.epoch)

HookFits(t, h) ==
    /\ HookKnown(t, h)
    /\ host.turn = t /\ host.phase = "waiting" => AwaitedFits(t, h)
    /\ Printing /\ Running(t) => h.pc = "done"

IInv ==
    /\ TypeOK
    /\ TurnsHold
    /\ RowHolds
    /\ BoundHeld
    /\ \A t \in Turns : HookFits(t, hook[t])

-----------------------------------------------------------------------------
(* Types                                                                   *)

PCs == {"idle", "begin", "plan", "commit", "replan", "recommit", "read", "failing",
        "capsule", "silent", "done"}
Hooks == [pc : PCs, staffing : BOOLEAN, plan : Binding \cup {NoBinding},
          recipe : Binding \cup {NoBinding}]
TurnRows == [status : Statuses, bound : Binding \cup {NoBinding}]
Masters == [on : BOOLEAN, generation : Generations, materialized : BOOLEAN]
Controls == [on : BOOLEAN, generation : Generations]
Phases == {"idle", "waiting", "running"}
Hosts == [turn : Turns \cup {0}, phase : Phases]

LEMMA NumbersAre ==
    /\ Generations \subseteq Nat /\ Turns \subseteq Nat \ {0}
    /\ Unreadable \in Int /\ Unreadable < 0 /\ Unreadable \notin Nat
    /\ \A n \in Turns : n # 0 /\ n \in Nat
    /\ \A n \in Generations : n \in Nat /\ n \in Int
BY BoundsAssumption DEF Generations, Turns, Unreadable

LEMMA EpochType ==
    ASSUME NEW e \in Epoch
    PROVE  /\ e.master \in Int /\ e.master \in Generations \cup {Unreadable}
           /\ e.materialized \in BOOLEAN /\ e.control \in Nat /\ e.control \in Generations
<1>1. /\ e.master \in Generations \cup {Unreadable} /\ e.materialized \in BOOLEAN
      /\ e.control \in Generations
  BY DEF Epoch
<1> QED
  BY <1>1, NumbersAre

LEMMA EpochsEqual ==
    ASSUME NEW e \in Epoch, NEW f \in Epoch, e.master = f.master,
           e.control = f.control, e.materialized <=> f.materialized
    PROVE  e = f
<1>1. e.materialized = f.materialized
  BY EpochType
<1> QED
  BY <1>1 DEF Epoch

LEMMA BindingType ==
    /\ \A b \in Binding : /\ b.mode \in Modes /\ b.epoch \in Epoch
                          /\ b.mode # "" /\ b # NoBinding
    /\ NoBinding.mode = "" /\ NoBinding.epoch = NoEpoch /\ NoEpoch \in Epoch
    /\ \A b \in Binding \cup {NoBinding} : b.epoch \in Epoch /\ (b.mode # "" => b \in Binding)
<1>1. NoBinding.mode = "" /\ NoBinding.epoch = NoEpoch
  BY DEF NoBinding
<1>2. NoEpoch \in Epoch
  BY BoundsAssumption DEF NoEpoch, Epoch, Generations
<1>3. \A b \in Binding : b.mode \in Modes /\ b.epoch \in Epoch /\ b.mode # ""
  BY DEF Binding, Modes
<1> QED
  BY <1>1, <1>2, <1>3

LEMMA RowType ==
    ASSUME NEW r \in Row
    PROVE  /\ r.epoch \in Epoch /\ r.restore \in Nat /\ r.applied \in Nat
           /\ r.pending \in Nat /\ r.delivery \in {"absent", "pending", "acknowledged"}
           /\ r.mode \in {"", "injected", "restored"} /\ r.trace \in Turns \cup {0}
           /\ r.last \in Turns \cup {0}
BY DEF Row

LEMMA Types ==
    ASSUME IInv
    PROVE  /\ row \in Row /\ RowIsValid(row) /\ master \in Masters /\ control \in Controls
           /\ turns \in [Turns -> TurnRows] /\ hook \in [Turns -> Hooks] /\ host \in Hosts
           /\ readable \in BOOLEAN /\ context \in BOOLEAN /\ losses \in 0 .. MaxLosses
           /\ failures \in FailureSets
<1>1. TypeOK
  BY DEF IInv
<1> QED
  BY <1>1 DEF TypeOK, Masters, Controls, TurnRows, Hooks, PCs, Hosts, Phases

LEMMA FieldTypes ==
    ASSUME IInv
    PROVE  /\ master.on \in BOOLEAN /\ master.generation \in Nat
           /\ master.generation \in Generations /\ master.materialized \in BOOLEAN
           /\ control.on \in BOOLEAN /\ control.generation \in Nat
           /\ control.generation \in Generations
           /\ host.turn \in Turns \cup {0} /\ host.phase \in Phases
           /\ \A t \in Turns :
                 /\ turns[t].status \in Statuses
                 /\ turns[t].bound \in Binding \cup {NoBinding}
                 /\ hook[t] \in Hooks /\ hook[t].pc \in PCs /\ hook[t].staffing \in BOOLEAN
                 /\ hook[t].plan \in Binding \cup {NoBinding}
                 /\ hook[t].recipe \in Binding \cup {NoBinding}
BY Types, NumbersAre DEF Masters, Controls, TurnRows, Hooks, Hosts

LEMMA HostIs ==
    ASSUME IInv, NEW t \in Turns
    PROVE  /\ Awaited(t) <=> host.turn = t /\ host.phase = "waiting"
           /\ host = [turn |-> t, phase |-> "running"] <=> Running(t)
<1>1. host \in Hosts
  BY Types
<1> QED
  BY <1>1 DEF Hosts, Awaited, Running

\* The primed parts of a well-formed next state.
LEMMA TypesNext ==
    ASSUME row' \in Row, RowIsValid(row'), master' \in Masters, control' \in Controls,
           turns' \in [Turns -> TurnRows], hook' \in [Turns -> Hooks], host' \in Hosts,
           readable' \in BOOLEAN, context' \in BOOLEAN, losses' \in 0 .. MaxLosses,
           failures' \in FailureSets
    PROVE  TypeOK'
BY DEF TypeOK, Masters, Controls, TurnRows, Hooks, PCs, Hosts, Phases

-----------------------------------------------------------------------------
(* Epochs, plans and claims                                                *)

LEMMA CurrentEpochIs ==
    ASSUME IInv
    PROVE  /\ CurrentEpoch \in Epoch /\ CurrentEpoch.control = control.generation
           /\ CurrentEpoch.master = IF readable THEN master.generation ELSE Unreadable
           /\ CurrentEpoch.materialized <=> readable /\ master.materialized
<1>1. /\ control.generation \in Generations /\ master.generation \in Generations
      /\ master.materialized \in BOOLEAN /\ readable \in BOOLEAN
  BY FieldTypes, Types
<1> QED
  BY <1>1 DEF CurrentEpoch, Epoch

\* An epoch that was seen and is current finds both switches on.
LEMMA SeenIsEnabled ==
    ASSUME IInv, Seen(CurrentEpoch)
    PROVE  Enabled
BY CurrentEpochIs DEF Seen, Enabled, MasterOn

LEMMA EnabledIsSeen ==
    ASSUME IInv, Enabled
    PROVE  Seen(CurrentEpoch)
BY CurrentEpochIs, FieldTypes, NumbersAre DEF Seen, Enabled, MasterOn

\* A switch makes every epoch that was seen an old one.
LEMMA SwitchedOn ==
    ASSUME IInv, NEW e \in Epoch, Seen(e),
           \/ /\ master'.generation = master.generation + 1
              /\ UNCHANGED control
           \/ /\ control'.generation = control.generation + 1
              /\ UNCHANGED master
    PROVE  Seen(e)' /\ (readable' => e # CurrentEpoch')
BY FieldTypes, EpochType DEF Seen, CurrentEpoch

LEMMA PlannedIs ==
    ASSUME IInv, NEW e \in Epoch
    PROVE  /\ PlannedFor(e) \in Binding /\ PlannedFor(e).epoch = e
           /\ PlannedFor(e).mode =
                 IF Reusable(e) /\ Current(e) THEN PlannedDelivery ELSE "injected"
           /\ row.delivery # "absent" =>
                 /\ PlannedDelivery \in Modes
                 /\ PlannedDelivery = "reused" =>
                       /\ row.delivery = "acknowledged" /\ row.restore = row.applied
                       /\ row.pending = row.applied
<1>1. row \in Row /\ RowIsValid(row)
  BY Types
<1>2. row.delivery # "absent" =>
          /\ PlannedDelivery \in Modes
          /\ PlannedDelivery = "reused" =>
                /\ row.delivery = "acknowledged" /\ row.restore = row.applied
                /\ row.pending = row.applied
  <2>1. /\ row.restore \in Nat /\ row.applied \in Nat /\ row.pending \in Nat
        /\ row.delivery \in {"absent", "pending", "acknowledged"}
    BY <1>1, RowType
  <2>2. CASE row.delivery = "pending"
    BY <1>1, <2>2 DEF PlannedDelivery, Modes, RowIsValid
  <2>3. CASE row.delivery = "acknowledged"
    <3>1. row.applied <= row.restore /\ row.pending = row.applied
      BY <1>1, <2>1, <2>3 DEF RowIsValid
    <3> QED
      BY <2>1, <2>3, <3>1 DEF PlannedDelivery, Modes
  <2> QED
    BY <2>1, <2>2, <2>3
<1>3. (IF Reusable(e) /\ Current(e) THEN PlannedDelivery ELSE "injected") \in Modes
  BY <1>2 DEF Current, Modes
<1> QED
  BY <1>2, <1>3 DEF PlannedFor, Binding

\* The row that an accepted claim of binding b for turn t leaves: none, one that
\* waits for its acknowledgement, or the acknowledged one.
ClaimLeaves(r, b, t) ==
    \/ r = NoRow /\ ~Reusable(b.epoch)
    \/ /\ Reusable(b.epoch) /\ r.epoch = b.epoch
       /\ r.delivery = "pending" /\ r.trace = t /\ r.last = t
       /\ r.mode = b.mode /\ b.mode # "reused"
    \/ /\ Reusable(b.epoch) /\ r.epoch = b.epoch /\ b.mode = "reused"
       /\ Current(b.epoch) /\ row.delivery = "acknowledged"
       /\ row.restore = row.applied
       /\ r.delivery = "acknowledged" /\ r.last = t
       /\ r.restore = r.applied

LEMMA NoRowIs ==
    NoRow \in Row /\ RowIsValid(NoRow) /\ NoRow.delivery = "absent" /\ NoRow.trace = 0
<1>1. NoRow.delivery = "absent" /\ NoRow.trace = 0
  BY DEF NoRow
<1>2. NoRow \in Row
  BY BindingType DEF NoRow, Row
<1> QED
  BY <1>1, <1>2 DEF RowIsValid

LEMMA ClaimedIs ==
    ASSUME IInv, NEW t \in Turns, NEW b \in Binding \cup {NoBinding}, CanClaim(b, t)
    PROVE  /\ RowAfterClaim(b, t) \in Row /\ RowIsValid(RowAfterClaim(b, t))
           /\ ClaimLeaves(RowAfterClaim(b, t), b, t)
           /\ b \in Binding /\ Seen(b.epoch) /\ b.epoch = CurrentEpoch
<1> DEFINE r == RowAfterClaim(b, t)
           e == b.epoch
<1>1. e = CurrentEpoch /\ e \in Epoch /\ Enabled
  BY BindingType DEF CanClaim
<1>2. row \in Row /\ RowIsValid(row) /\ t # 0
  BY Types, NumbersAre
<1>3. Seen(e)
  BY <1>1, EnabledIsSeen
<1>4. \/ ~(Reusable(e) /\ Current(e)) /\ b.mode = "injected"
      \/ Reusable(e) /\ Current(e) /\ b.mode = PlannedDelivery
  BY DEF CanClaim
<1>5. b \in Binding
  BY <1>1, <1>4, PlannedIs, BindingType DEF Current, Modes
<1>6. CASE ~Reusable(e)
  BY <1>1, <1>3, <1>5, <1>6, NoRowIs DEF RowAfterClaim, ClaimLeaves
<1>7. CASE Reusable(e) /\ ~Current(e)
  <2>1. r = NewRow(e, t)
    BY <1>7 DEF RowAfterClaim
  <2>2. /\ r \in Row /\ r.epoch = e /\ r.restore = 0 /\ r.applied = 0 /\ r.pending = 0
        /\ r.delivery = "pending" /\ r.mode = "injected" /\ r.trace = t /\ r.last = t
    BY <1>1, <2>1 DEF NewRow, Row
  <2> HIDE DEF r
  <2>3. RowIsValid(r)
    <3>1. r.applied <= r.pending /\ r.pending <= r.restore
      BY <2>2
    <3>2. Reusable(r.epoch) /\ r.trace # 0
      BY <1>2, <1>7, <2>2
    <3> QED
      BY <2>2, <3>1, <3>2 DEF RowIsValid
  <2>4. ClaimLeaves(r, b, t)
    BY <1>4, <1>7, <2>2 DEF ClaimLeaves
  <2> QED
    BY <1>1, <1>3, <1>5, <2>2, <2>3, <2>4 DEF r
<1>8. CASE Reusable(e) /\ Current(e) /\ PlannedDelivery = "reused"
  <2>1. r = [row EXCEPT !.last = t]
    BY <1>8 DEF RowAfterClaim, ClaimedRow
  <2>2. /\ r \in Row /\ r.last = t /\ r.epoch = row.epoch /\ r.restore = row.restore
        /\ r.applied = row.applied /\ r.pending = row.pending /\ r.trace = row.trace
        /\ r.delivery = row.delivery /\ r.mode = row.mode
    BY <1>2, <2>1 DEF Row
  <2> HIDE DEF r
  <2>3. RowIsValid(r)
    BY <1>2, <2>2 DEF RowIsValid
  <2>4. row.delivery = "acknowledged" /\ row.restore = row.applied /\ row.epoch = e
    BY <1>1, <1>8, PlannedIs DEF Current
  <2>5. ClaimLeaves(r, b, t)
    BY <1>4, <1>8, <2>2, <2>4 DEF ClaimLeaves
  <2> QED
    BY <1>1, <1>3, <1>5, <2>2, <2>3, <2>5 DEF r
<1>9. CASE Reusable(e) /\ Current(e) /\ PlannedDelivery # "reused"
  <2> DEFINE p == IF row.delivery = "pending" THEN row.pending ELSE row.restore
             m == PlannedDelivery
  <2>1. r = [row EXCEPT !.delivery = "pending", !.mode = m, !.trace = t, !.last = t,
                        !.pending = p]
    BY <1>9 DEF RowAfterClaim, ClaimedRow
  <2>2. /\ row.restore \in Nat /\ row.applied \in Nat /\ row.pending \in Nat
        /\ row.delivery \in {"absent", "pending", "acknowledged"} /\ p \in Nat
    BY <1>2, RowType
  <2>3. /\ m \in {"injected", "restored"} /\ row.delivery # "absent" /\ row.epoch = e
        /\ row.applied <= p /\ p <= row.restore
        /\ m = "restored" => p > row.applied
        /\ m = "injected" => p = row.applied
    <3>1. m \in Modes /\ row.delivery # "absent" /\ row.epoch = e
      BY <1>1, <1>9, PlannedIs DEF Current
    <3>2. CASE row.delivery = "pending"
      BY <1>2, <2>2, <3>1, <3>2 DEF PlannedDelivery, RowIsValid
    <3>3. CASE row.delivery = "acknowledged"
      <4>1. row.restore > row.applied /\ m = "restored"
        BY <1>9, <3>3 DEF PlannedDelivery
      <4> QED
        BY <2>2, <3>1, <3>3, <4>1
    <3> QED
      BY <2>2, <3>1, <3>2, <3>3
  <2> HIDE DEF p, m
  <2>4. /\ r \in Row /\ r.last = t /\ r.epoch = e /\ r.restore = row.restore
        /\ r.applied = row.applied /\ r.pending = p /\ r.trace = t
        /\ r.delivery = "pending" /\ r.mode = m
    BY <1>2, <2>1, <2>2, <2>3 DEF Row
  <2> HIDE DEF r
  <2>5. RowIsValid(r)
    BY <1>2, <1>9, <2>3, <2>4 DEF RowIsValid
  <2>6. ClaimLeaves(r, b, t)
    BY <1>4, <1>9, <2>3, <2>4 DEF ClaimLeaves, m
  <2> QED
    BY <1>1, <1>3, <1>5, <2>4, <2>5, <2>6 DEF r
<1> QED
  BY <1>1, <1>3, <1>5, <1>6, <1>7, <1>8, <1>9

-----------------------------------------------------------------------------
(* What steps of different kinds keep                                      *)

LEMMA ControlsStay ==
    ASSUME unchangedControls
    PROVE  /\ CurrentEpoch' = CurrentEpoch /\ (Enabled' <=> Enabled)
           /\ (MasterOn' <=> MasterOn) /\ (Printing' <=> Printing)
           /\ \A e : Seen(e)' <=> Seen(e)
BY DEF unchangedControls, CurrentEpoch, Enabled, MasterOn, Printing, Seen

LEMMA HookNow ==
    ASSUME IInv, NEW t \in Turns
    PROVE  /\ HookKnown(t, hook[t])
           /\ host.turn = t /\ host.phase = "waiting" => AwaitedFits(t, hook[t])
           /\ Printing /\ Running(t) => hook[t].pc = "done"
           /\ hook[t] \in Hooks
BY FieldTypes DEF IInv, HookFits

LEMMA KnownStays ==
    ASSUME IInv, NEW t \in Turns, unchangedControls, hook'[t] = hook[t],
           turns'[t].status = "none" => turns[t].status = "none"
    PROVE  HookKnown(t, hook[t])'
BY HookNow, ControlsStay DEF HookKnown

LEMMA RowStays ==
    ASSUME UNCHANGED row
    PROVE  /\ PlannedDelivery' = PlannedDelivery
           /\ \A e : (Current(e)' <=> Current(e)) /\ PlannedFor(e)' = PlannedFor(e)
<1>1. PlannedDelivery' = PlannedDelivery
  BY DEF PlannedDelivery
<1>2. \A e : Current(e)' <=> Current(e)
  BY DEF Current
<1> QED
  BY <1>1, <1>2 DEF PlannedFor

LEMMA ClaimsStay ==
    ASSUME UNCHANGED <<row, turns>>, unchangedControls
    PROVE  \A b, t : CanClaim(b, t)' <=> CanClaim(b, t)
<1>1. \A p, t : ClaimCanMove(p, t)' <=> ClaimCanMove(p, t)
  BY DEF ClaimCanMove
<1>2. row' = row
  OBVIOUS
<1> QED
  BY <1>1, <1>2, RowStays, ControlsStay DEF CanClaim

LEMMA AwaitedStays ==
    ASSUME UNCHANGED <<row, turns, context>>, unchangedControls
    PROVE  \A t, h : AwaitedFits(t, h)' <=> AwaitedFits(t, h)
<1>1. \A t : Unclaimed(t)' <=> Unclaimed(t)
  BY ControlsStay DEF Unclaimed
<1>2. \A t, b : ClaimHolds(t, b)' <=> ClaimHolds(t, b)
  BY RowStays DEF ClaimHolds
<1>3. \A h : PlansHold(h)' <=> PlansHold(h)
  BY RowStays DEF PlansHold, unchangedControls
<1>4. (Printing' <=> Printing) /\ context' = context /\ turns' = turns
  BY ControlsStay
<1>5. \A b, t : CanClaim(b, t)' <=> CanClaim(b, t)
  BY ClaimsStay
<1> QED
  BY <1>1, <1>2, <1>3, <1>4, <1>5 DEF AwaitedFits

LEMMA FactsStay ==
    ASSUME IInv, UNCHANGED <<row, turns, host, context, losses>>, unchangedControls
    PROVE  TurnsHold' /\ RowHolds' /\ BoundHeld'
<1>1. TurnsHold'
  BY DEF IInv, TurnsHold
<1>2. RowHolds'
  BY ControlsStay DEF IInv, RowHolds, PendingClaimed, KernelLoaded, Running, unchangedControls
<1>3. BoundHeld'
  BY RowStays DEF IInv, BoundHeld
<1> QED
  BY <1>1, <1>2, <1>3

\* A step of the hook of t that changes nothing else.
LEMMA HookOnly ==
    ASSUME IInv, NEW t \in Turns, NEW h \in Hooks, hook' = [hook EXCEPT ![t] = h],
           UNCHANGED <<row, turns>>, unchangedControls, unchangedHost,
           HookFits(t, h)
    PROVE  IInv'
<1>0. UNCHANGED <<row, turns, host, context, losses>>
  BY DEF unchangedHost
<1>1. /\ hook' \in [Turns -> Hooks] /\ hook'[t] = h
      /\ \A u \in Turns : u # t => hook'[u] = hook[u]
  BY Types
<1>2. TypeOK'
  <2>1. UNCHANGED <<master, readable, control, failures>>
    BY DEF unchangedControls
  <2>2. RowIsValid(row')
    BY <1>0, Types
  <2> QED
    BY <1>0, <1>1, <2>1, <2>2, Types, TypesNext
<1>3. ASSUME NEW u \in Turns
      PROVE  HookFits(u, hook[u])'
  <2>1. HookFits(u, hook'[u])
    <3>1. CASE u = t
      BY <1>1, <3>1
    <3>2. CASE u # t
      BY <1>1, <3>2 DEF IInv
    <3> QED
      BY <3>1, <3>2
  <2>2. HookKnown(u, hook[u])'
    BY <1>0, <2>1, ControlsStay DEF HookFits, HookKnown
  <2>3. (host.turn = u /\ host.phase = "waiting" => AwaitedFits(u, hook[u]))'
    BY <1>0, <2>1, AwaitedStays DEF HookFits
  <2>4. (Printing /\ Running(u) => hook[u].pc = "done")'
    BY <1>0, <2>1, ControlsStay DEF HookFits, Running
  <2> QED
    BY <2>2, <2>3, <2>4 DEF HookFits
<1> QED
  BY <1>0, <1>2, <1>3, FactsStay DEF IInv

-----------------------------------------------------------------------------
(* The prompt hook until its claim                                         *)

\* What a plan made now is good for.
LEMMA PlanIs ==
    ASSUME IInv, Enabled
    PROVE  /\ PlannedBinding \in Binding /\ PlannedBinding # NoBinding
           /\ PlannedBinding.epoch = CurrentEpoch /\ CurrentEpoch \in Epoch
           /\ Seen(PlannedBinding.epoch)
           /\ PlannedBinding = PlannedFor(PlannedBinding.epoch)
           /\ Printing /\ PlannedBinding.mode = "reused" => context
<1>1. PlannedBinding = PlannedFor(CurrentEpoch)
  BY DEF PlannedBinding, PlannedFor
<1>2. CurrentEpoch \in Epoch /\ Seen(CurrentEpoch)
  BY CurrentEpochIs, EnabledIsSeen
<1>3. PlannedBinding \in Binding /\ PlannedBinding.epoch = CurrentEpoch
  BY <1>1, <1>2, PlannedIs
<1>4. ASSUME Printing, PlannedBinding.mode = "reused"
      PROVE  context
  <2>1. /\ row.delivery = "acknowledged" /\ row.restore = row.applied
        /\ row.epoch = CurrentEpoch
    BY <1>1, <1>2, <1>4, PlannedIs DEF Current
  <2> QED
    BY <1>4, <2>1 DEF IInv, RowHolds, KernelLoaded
<1> QED
  BY <1>1, <1>2, <1>3, <1>4, BindingType

LEMMA PlanStep ==
    ASSUME IInv, NEW t \in Turns, Plan(t)
    PROVE  IInv'
<1>1. /\ hook[t].pc = "plan" /\ UNCHANGED <<row, turns>> /\ unchangedControls
      /\ unchangedHost
  BY DEF Plan, At
<1>2. /\ hook[t] \in Hooks /\ HookKnown(t, hook[t]) /\ hook[t].plan = NoBinding
      /\ hook[t].recipe = NoBinding /\ ~hook[t].staffing
      /\ host.turn = t /\ host.phase = "waiting" =>
            turns[t].status = "in_progress" /\ AwaitedFits(t, hook[t])
      /\ ~(Printing /\ Running(t)) /\ turns[t].status # "none"
  BY <1>1, HookNow DEF HookKnown, AwaitedFits, IdleHook
<1>3. CASE Enabled
  <2> DEFINE h == [hook[t] EXCEPT !.pc = "commit", !.plan = PlannedBinding,
                                  !.recipe = PlannedBinding]
  <2>1. hook' = [hook EXCEPT ![t] = h]
    BY <1>3 DEF Plan
  <2>2. /\ h \in Hooks /\ h.pc = "commit" /\ h.plan = PlannedBinding
        /\ h.recipe = PlannedBinding
    BY <1>2, <1>3, PlanIs DEF Hooks, PCs
  <2> HIDE DEF h
  <2>3. HookKnown(t, h)
    BY <1>2, <1>3, <2>2, PlanIs DEF HookKnown
  <2>4. PlansHold(h)
    BY <1>3, <2>2, PlanIs, EpochType, FieldTypes DEF PlansHold
  <2>5. host.turn = t /\ host.phase = "waiting" => AwaitedFits(t, h)
    BY <1>2, <1>3, <2>2, <2>4, PlanIs DEF AwaitedFits
  <2>6. HookFits(t, h)
    BY <1>2, <2>3, <2>5 DEF HookFits
  <2> QED
    BY <1>1, <2>1, <2>2, <2>6, HookOnly
<1>4. CASE ~Enabled
  <2> DEFINE h == [hook[t] EXCEPT !.pc = "failing"]
  <2>1. hook' = [hook EXCEPT ![t] = h]
    BY <1>4 DEF Plan
  <2>2. /\ h \in Hooks /\ h.pc = "failing" /\ h.plan = NoBinding
        /\ h.recipe = NoBinding
    BY <1>2 DEF Hooks, PCs
  <2> HIDE DEF h
  <2>3. HookKnown(t, h)
    BY <1>2, <2>2 DEF HookKnown
  <2>4. host.turn = t /\ host.phase = "waiting" => Unclaimed(t)
    BY <1>2 DEF IInv, RowHolds, PendingClaimed, Unclaimed
  <2>5. host.turn = t /\ host.phase = "waiting" => AwaitedFits(t, h)
    BY <2>2, <2>4, BindingType DEF AwaitedFits
  <2>6. HookFits(t, h)
    BY <1>2, <2>3, <2>5 DEF HookFits
  <2> QED
    BY <1>1, <2>1, <2>2, <2>6, HookOnly
<1> QED
  BY <1>3, <1>4

LEMMA FailsStep ==
    ASSUME IInv, NEW t \in Turns, Fails(t)
    PROVE  IInv'
<1>1. /\ hook[t].pc \in {"commit", "recommit"} /\ UNCHANGED <<row, turns>>
      /\ unchangedControls /\ unchangedHost
  BY DEF Fails, At
<1>2. /\ hook[t] \in Hooks /\ HookKnown(t, hook[t])
      /\ host.turn = t /\ host.phase = "waiting" => AwaitedFits(t, hook[t])
      /\ ~(Printing /\ Running(t)) /\ turns[t].status # "none"
  BY <1>1, HookNow DEF HookKnown, IdleHook
<1>3. PICK s \in BOOLEAN :
          /\ hook' = [hook EXCEPT ![t] = [hook[t] EXCEPT !.pc = "failing", !.staffing = s]]
          /\ s \/ ~Printing
  <2>1. CASE hook' = [hook EXCEPT ![t].pc = "failing", ![t].staffing = TRUE]
    BY <2>1, Types
  <2>2. CASE "error" \in failures /\ Goto(t, "failing")
    <3>1. hook' = [hook EXCEPT ![t] = [hook[t] EXCEPT !.pc = "failing"]]
      BY <2>2 DEF Goto
    <3>2. /\ hook[t].staffing \in BOOLEAN
          /\ [hook[t] EXCEPT !.pc = "failing", !.staffing = hook[t].staffing]
                = [hook[t] EXCEPT !.pc = "failing"]
      BY <1>2 DEF Hooks
    <3>3. ~Printing
      BY <2>2 DEF Printing, Unprinted
    <3> QED
      BY <3>1, <3>2, <3>3
  <2> QED
    BY <2>1, <2>2 DEF Fails
<1> DEFINE h == [hook[t] EXCEPT !.pc = "failing", !.staffing = s]
<1>4. /\ h \in Hooks /\ h.pc = "failing" /\ h.plan = hook[t].plan
      /\ h.recipe = hook[t].recipe /\ h.staffing = s
  BY <1>2 DEF Hooks, PCs
<1>5. hook' = [hook EXCEPT ![t] = h]
  BY <1>3
<1> HIDE DEF h
<1>6. HookKnown(t, h)
  BY <1>2, <1>4 DEF HookKnown
<1>7. host.turn = t /\ host.phase = "waiting" => AwaitedFits(t, h)
  BY <1>2, <1>3, <1>4 DEF AwaitedFits
<1>8. HookFits(t, h)
  BY <1>2, <1>6, <1>7 DEF HookFits
<1> QED
  BY <1>1, <1>4, <1>5, <1>8, HookOnly

\* While it is awaited, a claim that was planned twice and refused is refused for
\* the first plan too.
LEMMA RefusedTwice ==
    ASSUME IInv, NEW t \in Turns, NEW h \in Hooks, PlansHold(h), HookKnown(t, h), Printing,
           CanClaim(h.plan, t)
    PROVE  CanClaim(h.recipe, t)
<1>1. /\ h.plan \in Binding /\ h.recipe \in Binding
      /\ h.plan.epoch \in Epoch /\ h.recipe.epoch \in Epoch
  BY BindingType DEF PlansHold, Hooks
<1>2. h.plan.epoch = CurrentEpoch
  BY DEF CanClaim
<1>3. "unreadable" \notin failures /\ readable
  BY DEF Printing, Unprinted, IInv, RowHolds
<1>4. /\ Seen(h.recipe.epoch)
      /\ h.plan.epoch.master <= h.recipe.epoch.master
      /\ h.plan.epoch.control <= h.recipe.epoch.control
  BY <1>3 DEF PlansHold, HookKnown
<1>5. /\ h.recipe.epoch.master = master.generation
      /\ h.recipe.epoch.control = control.generation
      /\ h.recipe.epoch.materialized <=> master.materialized
  <2>1. h.plan.epoch.master = master.generation /\ h.plan.epoch.control = control.generation
    BY <1>2, <1>3, CurrentEpochIs
  <2> QED
    BY <1>1, <1>4, <2>1, EpochType, FieldTypes DEF Seen
<1>6. h.recipe.epoch = CurrentEpoch
  BY <1>1, <1>3, <1>5, CurrentEpochIs, EpochsEqual
<1>7. h.recipe = h.plan
  BY <1>2, <1>6 DEF PlansHold
<1> QED
  BY <1>7

LEMMA CommitRefusedStep ==
    ASSUME IInv, NEW t \in Turns, CommitRefused(t)
    PROVE  IInv'
<1>1. /\ hook[t].pc \in {"commit", "recommit"} /\ UNCHANGED <<row, turns>>
      /\ unchangedControls /\ unchangedHost
      /\ turns[t].status # "in_progress" \/ ~CanClaim(hook[t].recipe, t)
  BY DEF CommitRefused, At
<1>2. /\ hook[t] \in Hooks /\ HookKnown(t, hook[t])
      /\ host.turn = t /\ host.phase = "waiting" => AwaitedFits(t, hook[t])
      /\ ~(Printing /\ Running(t)) /\ turns[t].status # "none"
  BY <1>1, HookNow DEF HookKnown, IdleHook
<1>3. PICK p \in {"replan", "failing"} : hook' = [hook EXCEPT ![t].pc = p]
  BY DEF CommitRefused, Goto
<1> DEFINE h == [hook[t] EXCEPT !.pc = p]
<1>4. /\ h \in Hooks /\ h.pc = p /\ h.plan = hook[t].plan
      /\ h.recipe = hook[t].recipe /\ h.staffing = hook[t].staffing
  BY <1>2 DEF Hooks, PCs
<1>5. hook' = [hook EXCEPT ![t] = h]
  BY <1>3, Types
<1> HIDE DEF h
<1>6. HookKnown(t, h)
  BY <1>2, <1>4 DEF HookKnown
<1>7. ASSUME host.turn = t /\ host.phase = "waiting"
      PROVE  AwaitedFits(t, h)
  <2>1. /\ turns[t].status = "in_progress" /\ PlansHold(hook[t]) /\ PlansHold(h)
        /\ Printing /\ (h.plan.mode = "reused" \/ h.recipe.mode = "reused") => context
    BY <1>1, <1>2, <1>4, <1>7 DEF AwaitedFits, PlansHold
  <2>2. Unclaimed(t)
    BY <2>1 DEF IInv, RowHolds, PendingClaimed, Unclaimed
  <2>3. Printing => ~CanClaim(h.plan, t)
    BY <1>1, <1>2, <1>4, <2>1, RefusedTwice
  <2> QED
    BY <1>4, <2>1, <2>2, <2>3 DEF AwaitedFits
<1>8. HookFits(t, h)
  BY <1>2, <1>6, <1>7 DEF HookFits
<1> QED
  BY <1>1, <1>4, <1>5, <1>8, HookOnly

LEMMA ReplanStep ==
    ASSUME IInv, NEW t \in Turns, Replan(t)
    PROVE  IInv'
<1>1. /\ hook[t].pc = "replan" /\ UNCHANGED <<row, turns>> /\ unchangedControls
      /\ unchangedHost
  BY DEF Replan, At
<1>2. /\ hook[t] \in Hooks /\ HookKnown(t, hook[t])
      /\ host.turn = t /\ host.phase = "waiting" =>
            /\ turns[t].status = "in_progress" /\ PlansHold(hook[t])
            /\ AwaitedFits(t, hook[t])
      /\ ~(Printing /\ Running(t)) /\ turns[t].status # "none"
  BY <1>1, HookNow DEF HookKnown, AwaitedFits, IdleHook
<1>3. CASE Enabled
  <2> DEFINE h == [hook[t] EXCEPT !.pc = "recommit", !.recipe = PlannedBinding]
  <2>1. hook' = [hook EXCEPT ![t] = h]
    BY <1>3 DEF Replan
  <2>2. /\ h \in Hooks /\ h.pc = "recommit" /\ h.plan = hook[t].plan
        /\ h.recipe = PlannedBinding
    BY <1>2, <1>3, PlanIs DEF Hooks, PCs
  <2> HIDE DEF h
  <2>3. HookKnown(t, h)
    BY <1>2, <1>3, <2>2, PlanIs DEF HookKnown
  <2>4. ASSUME host.turn = t /\ host.phase = "waiting"
        PROVE  AwaitedFits(t, h)
    <3>1. /\ turns[t].status = "in_progress" /\ PlansHold(hook[t])
          /\ Printing /\ h.plan.mode = "reused" => context
      BY <1>2, <2>2, <2>4 DEF AwaitedFits
    <3>2. ASSUME "unreadable" \notin failures
          PROVE  /\ h.plan.epoch.master <= h.recipe.epoch.master
                 /\ h.plan.epoch.control <= h.recipe.epoch.control
      <4>1. readable
        BY <3>2 DEF IInv, RowHolds
      <4>2. Seen(h.plan.epoch)
        BY <2>2, <2>3, <3>1 DEF HookKnown, PlansHold
      <4>3. /\ h.recipe.epoch.master = master.generation
            /\ h.recipe.epoch.control = control.generation
        BY <1>3, <2>2, <4>1, PlanIs, CurrentEpochIs
      <4> QED
        BY <4>2, <4>3 DEF Seen
    <3>3. PlansHold(h)
      BY <1>3, <2>2, <3>1, <3>2, PlanIs DEF PlansHold
    <3> QED
      BY <1>3, <2>2, <3>1, <3>3, PlanIs DEF AwaitedFits
  <2>5. HookFits(t, h)
    BY <1>2, <2>3, <2>4 DEF HookFits
  <2> QED
    BY <1>1, <2>1, <2>2, <2>5, HookOnly
<1>4. CASE ~Enabled
  <2> DEFINE h == [hook[t] EXCEPT !.pc = "failing"]
  <2>1. hook' = [hook EXCEPT ![t] = h]
    BY <1>4 DEF Replan
  <2>2. /\ h \in Hooks /\ h.pc = "failing" /\ h.plan = hook[t].plan
        /\ h.recipe = hook[t].recipe
    BY <1>2 DEF Hooks, PCs
  <2> HIDE DEF h
  <2>3. HookKnown(t, h)
    BY <1>2, <2>2 DEF HookKnown
  <2>4. host.turn = t /\ host.phase = "waiting" => Unclaimed(t)
    BY <1>2 DEF IInv, RowHolds, PendingClaimed, Unclaimed
  <2>5. ~CanClaim(h.plan, t)
    BY <1>4 DEF CanClaim
  <2>6. host.turn = t /\ host.phase = "waiting" => AwaitedFits(t, h)
    BY <1>2, <2>2, <2>4, <2>5 DEF AwaitedFits
  <2>7. HookFits(t, h)
    BY <1>2, <2>3, <2>6 DEF HookFits
  <2> QED
    BY <1>1, <2>1, <2>2, <2>7, HookOnly
<1> QED
  BY <1>3, <1>4

\* What an awaited turn claimed can be rendered while its epoch is current.
LEMMA Renders ==
    ASSUME IInv, NEW t \in Turns, NEW b \in Binding \cup {NoBinding}, ClaimHolds(t, b),
           Enabled, b.epoch = CurrentEpoch
    PROVE  Replayable(b, t)
<1>1. row.delivery = "pending" /\ row.trace = t => row.last = t
  BY DEF IInv, RowHolds, PendingClaimed
<1> QED
  BY <1>1 DEF ClaimHolds, Replayable

LEMMA ReadFailsStep ==
    ASSUME IInv, NEW t \in Turns, ReadFails(t)
    PROVE  IInv'
<1>1. /\ hook[t].pc = "read" /\ UNCHANGED <<row, turns>> /\ unchangedControls
      /\ unchangedHost /\ Goto(t, "failing")
      /\ ~Replayable(hook[t].recipe, t) \/ "error" \in failures
  BY DEF ReadFails, At
<1>2. /\ hook[t] \in Hooks /\ HookKnown(t, hook[t])
      /\ host.turn = t /\ host.phase = "waiting" =>
            /\ turns[t].status # "in_progress" /\ ClaimHolds(t, hook[t].recipe)
            /\ AwaitedFits(t, hook[t])
      /\ ~(Printing /\ Running(t)) /\ turns[t].status # "none"
  BY <1>1, HookNow DEF HookKnown, AwaitedFits, IdleHook
<1> DEFINE h == [hook[t] EXCEPT !.pc = "failing"]
<1>3. hook' = [hook EXCEPT ![t] = h]
  BY <1>1, Types DEF Goto
<1>4. /\ h \in Hooks /\ h.pc = "failing" /\ h.plan = hook[t].plan
      /\ h.recipe = hook[t].recipe /\ h.recipe \in Binding \cup {NoBinding}
  BY <1>2 DEF Hooks, PCs
<1> HIDE DEF h
<1>5. HookKnown(t, h)
  BY <1>2, <1>4 DEF HookKnown
<1>6. ASSUME host.turn = t /\ host.phase = "waiting", Printing
      PROVE  Unclaimed(t)
  <2> SUFFICES ASSUME row.delivery = "pending", row.trace = t, row.epoch = CurrentEpoch
               PROVE  FALSE
    BY DEF Unclaimed
  <2>1. h.recipe.epoch = CurrentEpoch
    BY <1>2, <1>4, <1>6 DEF ClaimHolds
  <2>2. Enabled
    BY SeenIsEnabled DEF IInv, RowHolds
  <2>3. Replayable(h.recipe, t)
    BY <1>2, <1>4, <1>6, <2>1, <2>2, Renders
  <2>4. "error" \notin failures
    BY <1>6 DEF Printing, Unprinted
  <2> QED
    BY <1>1, <1>4, <2>3, <2>4
<1>7. host.turn = t /\ host.phase = "waiting" => AwaitedFits(t, h)
  BY <1>2, <1>4, <1>6 DEF AwaitedFits
<1>8. HookFits(t, h)
  BY <1>2, <1>5, <1>7 DEF HookFits
<1> QED
  BY <1>1, <1>3, <1>4, <1>8, HookOnly

-----------------------------------------------------------------------------
(* The newest turn: its prompt, its claim and its answer                   *)

\* A step on behalf of the newest turn.
LEMMA OwnStep ==
    ASSUME IInv, NEW t \in Turns, host'.turn = t, unchangedControls,
           row' \in Row, RowIsValid(row'), turns' \in [Turns -> TurnRows],
           hook' \in [Turns -> Hooks], host' \in Hosts, context' \in BOOLEAN,
           losses' \in 0 .. MaxLosses,
           \A u \in Turns : u # t => /\ hook'[u] = hook[u]
                                     /\ turns'[u].status = "none" => turns[u].status = "none",
           TurnsHold', RowHolds', BoundHeld', HookKnown(t, hook[t])',
           host'.phase = "waiting" => AwaitedFits(t, hook[t])',
           Printing /\ host'.phase = "running" => hook'[t].pc = "done"
    PROVE  IInv'
<1>1. UNCHANGED <<master, readable, control, failures>>
  BY DEF unchangedControls
<1>2. TypeOK'
  BY <1>1, Types, TypesNext
<1>3. ASSUME NEW u \in Turns
      PROVE  HookFits(u, hook[u])'
  <2>1. CASE u = t
    BY <2>1, ControlsStay DEF HookFits, Running
  <2>2. CASE u # t
    <3>1. HookKnown(u, hook[u])'
      BY <2>2, KnownStays
    <3> QED
      BY <2>2, <3>1 DEF HookFits, Running
  <2> QED
    BY <2>1, <2>2
<1> QED
  BY <1>2, <1>3 DEF IInv

LEMMA PromptStep ==
    ASSUME IInv, NEW t \in Turns, Prompt(t)
    PROVE  IInv'
<1>1. /\ host.phase = "idle" /\ turns[t].status = "none"
      /\ \A u \in Turns : u < t => turns[u].status # "none"
      /\ turns' = [u \in Turns |->
           IF u = t THEN [turns[t] EXCEPT !.status = "reserved"]
           ELSE IF turns[u].status \in Open
                THEN [turns[u] EXCEPT !.status = "ended"] ELSE turns[u]]
      /\ hook' = [hook EXCEPT ![t].pc = "begin"]
      /\ host' = [turn |-> t, phase |-> "waiting"]
      /\ UNCHANGED <<row, context, losses>> /\ unchangedControls
  BY DEF Prompt
<1>2. /\ t \in Nat \ {0} /\ t > host.turn /\ host.turn \in Nat
      /\ \A u \in Turns : u \in Nat
  <2>1. t \in Nat \ {0} /\ host.turn \in Nat /\ \A u \in Turns : u \in Nat
    <3>1. host.turn \in Turns \cup {0}
      BY FieldTypes
    <3>2. \A u \in Turns : u \in Nat \ {0}
      BY NumbersAre
    <3> QED
      BY <3>1, <3>2
  <2>2. ~(t <= host.turn)
    BY <1>1 DEF IInv, TurnsHold
  <2> QED
    BY <2>1, <2>2
<1>3. \A u \in Turns : turns[u] \in TurnRows
  BY Types
<1>4. ASSUME NEW u \in Turns
      PROVE  /\ turns'[u] \in TurnRows /\ turns'[u].bound = turns[u].bound
             /\ u = t => turns'[u].status = "reserved"
             /\ u # t /\ turns[u].status \in Open => turns'[u].status = "ended"
             /\ u # t /\ turns[u].status \notin Open => turns'[u].status = turns[u].status
  BY <1>1, <1>3 DEF TurnRows, Statuses, Open, Recoverable
<1>5. turns' \in [Turns -> TurnRows]
  BY <1>1, <1>4
<1>6. /\ host'.turn = t /\ host'.phase = "waiting" /\ host' \in Hosts
  BY <1>1 DEF Hosts, Phases
<1> DEFINE h == hook'[t]
<1>7. /\ hook' \in [Turns -> Hooks] /\ h.pc = "begin" /\ h.plan = NoBinding
      /\ h.recipe = NoBinding /\ ~h.staffing
      /\ \A u \in Turns : u # t => hook'[u] = hook[u]
  <2>1. hook[t] = IdleHook /\ hook[t] \in Hooks
    BY <1>1, HookNow DEF HookKnown
  <2> DEFINE n == [hook[t] EXCEPT !.pc = "begin"]
  <2>2. /\ n \in Hooks /\ n.pc = "begin" /\ n.plan = NoBinding
        /\ n.recipe = NoBinding /\ ~n.staffing
    <3>1. /\ n \in Hooks /\ n.pc = "begin" /\ n.plan = hook[t].plan
          /\ n.recipe = hook[t].recipe /\ n.staffing = hook[t].staffing
      BY <2>1 DEF Hooks, PCs
    <3>2. /\ hook[t].plan = NoBinding /\ hook[t].recipe = NoBinding
          /\ ~hook[t].staffing
      BY <2>1 DEF IdleHook
    <3> QED
      BY <3>1, <3>2
  <2>3. hook' = [hook EXCEPT ![t] = n]
    BY <1>1, Types
  <2> HIDE DEF n
  <2> QED
    BY <2>2, <2>3, Types
<1>8. ASSUME NEW u \in Turns
      PROVE  turns'[u].status # "none" <=> u <= t
  <2>1. turns[u].status # "none" <=> u <= host.turn
    BY DEF IInv, TurnsHold
  <2>2. CASE u = t
    BY <1>2, <1>4, <2>2
  <2>3. CASE u # t
    <3>1. turns'[u].status # "none" <=> turns[u].status # "none"
      BY <1>4, <2>3 DEF Open
    <3>2. u < t => turns[u].status # "none"
      BY <1>1
    <3>3. /\ u \in Nat /\ t \in Nat /\ host.turn \in Nat /\ t > host.turn
          /\ u <= host.turn => u < t
          /\ u <= t <=> u < t
      BY <1>2, <2>3
    <3> QED
      BY <2>1, <3>1, <3>2, <3>3
  <2> QED
    BY <2>2, <2>3
<1>9. TurnsHold'
  <2>1. ASSUME NEW u \in Turns
        PROVE  /\ turns'[u].status \in Open => u = t
               /\ turns'[u].status \in {"none", "reserved", "in_progress"} =>
                    turns'[u].bound = NoBinding
    <3>1. turns[u].status \in {"none", "reserved", "in_progress"} =>
             turns[u].bound = NoBinding
      BY DEF IInv, TurnsHold
    <3> QED
      BY <1>1, <1>4, <3>1 DEF Open
  <2> QED
    BY <1>2, <1>6, <1>8, <2>1 DEF TurnsHold
<1>10. RowHolds'
  <2>1. row.delivery = "pending" => row.trace \in Turns /\ row.trace # t
    BY <1>1, Types, RowType DEF RowIsValid, IInv, RowHolds, PendingClaimed
  <2>2. PendingClaimed'
    BY <1>1, <1>4, <2>1 DEF PendingClaimed, IInv, RowHolds, Open, Recoverable,
       unchangedControls
  <2>3. Printing' => KernelLoaded'
    BY <1>1, <1>6, ControlsStay DEF IInv, RowHolds, KernelLoaded, Running
  <2> QED
    BY <1>1, <2>2, <2>3, ControlsStay DEF IInv, RowHolds, unchangedControls
<1>11. BoundHeld'
  <2>1. turns'[t].bound = NoBinding
    BY <1>1, <1>4 DEF IInv, TurnsHold
  <2> QED
    BY <1>6, <2>1 DEF BoundHeld
<1>12. HookKnown(t, hook[t])'
  BY <1>4, <1>7 DEF HookKnown
<1>13. AwaitedFits(t, hook[t])'
  BY <1>4, <1>7, BindingType DEF AwaitedFits
<1>14. row' \in Row /\ RowIsValid(row') /\ context' \in BOOLEAN /\ losses' \in 0 .. MaxLosses
  BY <1>1, Types
<1>15. \A u \in Turns : u # t => (turns'[u].status = "none" => turns[u].status = "none")
  BY <1>4
<1> QED
  BY <1>1, <1>5, <1>6, <1>7, <1>9, <1>10, <1>11, <1>12, <1>13, <1>14, <1>15, OwnStep

\* The newest turn claims binding b.
LEMMA ClaimHoldsNext ==
    ASSUME IInv, NEW t \in Turns, NEW b \in Binding \cup {NoBinding}, CanClaim(b, t),
           turns[t].status = "in_progress", hook[t].pc # "done",
           NEW status \in {"ready", "preflight_failed"}, row' = RowAfterClaim(b, t),
           turns' = [turns EXCEPT ![t] = [status |-> status, bound |-> b]],
           unchangedControls, unchangedHost
    PROVE  /\ host.turn = t /\ host'.turn = t /\ host' = host
           /\ row' \in Row /\ RowIsValid(row') /\ turns' \in [Turns -> TurnRows]
           /\ turns'[t].status = status /\ turns'[t].bound = b
           /\ \A u \in Turns : u # t => turns'[u] = turns[u]
           /\ TurnsHold' /\ RowHolds' /\ BoundHeld' /\ ClaimHolds(t, b)'
<1>1. /\ row' \in Row /\ RowIsValid(row') /\ ClaimLeaves(row', b, t)
      /\ b \in Binding /\ Seen(b.epoch) /\ b.epoch = CurrentEpoch
  BY ClaimedIs
<1>2. /\ host' = host /\ context' = context /\ host.turn = t /\ ~(Printing /\ Running(t))
  BY HookNow DEF unchangedHost, IInv, TurnsHold, Open
<1>3. /\ turns' \in [Turns -> TurnRows] /\ turns'[t].status = status
      /\ turns'[t].bound = b /\ \A u \in Turns : u # t => turns'[u] = turns[u]
  <2>1. [status |-> status, bound |-> b] \in TurnRows
    BY DEF TurnRows, Statuses, Open, Recoverable
  <2> QED
    BY <2>1, Types
<1>4. TurnsHold'
  BY <1>2, <1>3 DEF IInv, TurnsHold, Open
<1>5. PendingClaimed'
  <2>1. row'.delivery = "pending" => row'.trace = t /\ row'.last = t
    BY <1>1, NoRowIs DEF ClaimLeaves
  <2> QED
    BY <1>3, <2>1 DEF PendingClaimed, Recoverable
<1>6. Printing' => KernelLoaded'
  <2> SUFFICES ASSUME Printing PROVE KernelLoaded'
    BY ControlsStay
  <2>1. row'.delivery = "pending" => row'.trace = t
    BY <1>1, NoRowIs DEF ClaimLeaves
  <2>2. row'.delivery = "acknowledged" /\ row'.epoch = CurrentEpoch => context
    BY <1>1, NoRowIs DEF ClaimLeaves, Current, IInv, RowHolds, KernelLoaded
  <2>3. ~Running(t)'
    BY <1>2 DEF Running
  <2>4. CurrentEpoch' = CurrentEpoch
    BY ControlsStay
  <2> QED
    BY <1>2, <2>1, <2>2, <2>3, <2>4 DEF KernelLoaded
<1>7. RowHolds'
  <2>1. row'.delivery # "absent" => Seen(row'.epoch)
    BY <1>1, NoRowIs DEF ClaimLeaves
  <2> QED
    BY <1>5, <1>6, <2>1, ControlsStay DEF IInv, RowHolds, unchangedControls
<1>8. BoundHeld'
  BY <1>1, <1>2, <1>3 DEF BoundHeld, ClaimLeaves, Current
<1>9. ClaimHolds(t, b)'
  BY <1>1, NoRowIs DEF ClaimHolds, ClaimLeaves, Current
<1> QED
  BY <1>1, <1>2, <1>3, <1>4, <1>7, <1>8, <1>9


\* The newest turn moves on, and the row and the host do not.
LEMMA TurnMoves ==
    ASSUME IInv, NEW t \in Turns, NEW status \in Statuses \ {"none", "reserved"},
           turns[t].status \in Open, turns' = [turns EXCEPT ![t].status = status],
           status = "in_progress" => turns[t].status = "reserved",
           row.delivery = "pending" /\ row.trace = t =>
               /\ status # "in_progress"
               /\ failures \cap {"ceiling", "retention"} = {} => status \in Recoverable,
           UNCHANGED row, unchangedControls, unchangedHost
    PROVE  /\ host.turn = t /\ host' = host /\ turns' \in [Turns -> TurnRows]
           /\ turns'[t].status = status /\ turns'[t].bound = turns[t].bound
           /\ \A u \in Turns : u # t => turns'[u] = turns[u]
           /\ TurnsHold' /\ RowHolds' /\ BoundHeld'
<1>1. /\ host' = host /\ context' = context /\ host.turn = t
  BY DEF unchangedHost, IInv, TurnsHold
<1>2. /\ turns' \in [Turns -> TurnRows] /\ turns'[t].status = status
      /\ turns'[t].bound = turns[t].bound /\ \A u \in Turns : u # t => turns'[u] = turns[u]
  <2> DEFINE n == [turns[t] EXCEPT !.status = status]
  <2>1. turns[t] \in TurnRows
    BY Types
  <2>2. n \in TurnRows /\ n.status = status /\ n.bound = turns[t].bound
    BY <2>1 DEF TurnRows
  <2>3. turns' = [turns EXCEPT ![t] = n]
    OBVIOUS
  <2> HIDE DEF n
  <2> QED
    BY <2>2, <2>3, Types
<1>3. TurnsHold'
  BY <1>1, <1>2 DEF IInv, TurnsHold, Open
<1>4. PendingClaimed'
  <2>1. UNCHANGED failures
    BY DEF unchangedControls
  <2> QED
    BY <1>2, <2>1 DEF PendingClaimed, IInv, RowHolds
<1>5. Printing' => KernelLoaded'
  BY <1>1, ControlsStay DEF IInv, RowHolds, KernelLoaded, Running
<1>6. RowHolds'
  BY <1>4, <1>5, ControlsStay DEF IInv, RowHolds, unchangedControls
<1>7. BoundHeld'
  BY <1>1, <1>2, RowStays DEF IInv, BoundHeld
<1> QED
  BY <1>1, <1>2, <1>3, <1>6, <1>7

LEMMA BeginStep ==
    ASSUME IInv, NEW t \in Turns, Begin(t)
    PROVE  IInv'
<1>1. hook[t].pc = "begin" /\ UNCHANGED row /\ unchangedControls /\ unchangedHost
  BY DEF Begin, At
<1>2. /\ hook[t] \in Hooks /\ HookKnown(t, hook[t]) /\ hook[t].plan = NoBinding
      /\ hook[t].recipe = NoBinding /\ ~hook[t].staffing
      /\ host.turn = t /\ host.phase = "waiting" => turns[t].status = "reserved"
      /\ ~(Printing /\ Running(t)) /\ turns[t].status # "none"
  BY <1>1, HookNow DEF HookKnown, AwaitedFits, IdleHook
<1>3. PICK p \in {"silent", "plan"} :
         /\ hook' = [hook EXCEPT ![t].pc = p]
         /\ \/ /\ turns[t].status = "reserved"
               /\ turns' = [turns EXCEPT ![t].status =
                               IF p = "plan" THEN "in_progress" ELSE "ended"]
            \/ turns[t].status # "reserved" /\ turns' = turns /\ p = "silent"
  <2>1. CASE turns[t].status = "reserved"
    BY <2>1, Types DEF Begin, Goto
  <2>2. CASE turns[t].status # "reserved"
    <3>1. [turns EXCEPT ![t].status = IF @ = "reserved" THEN "ended" ELSE @] = turns
      BY <2>2, Types DEF TurnRows
    <3> QED
      BY <2>2, <3>1 DEF Begin, Goto
  <2> QED
    BY <2>1, <2>2
<1> DEFINE h == [hook[t] EXCEPT !.pc = p]
<1>4. /\ h \in Hooks /\ h.pc = p /\ h.plan = NoBinding
      /\ h.recipe = NoBinding /\ ~h.staffing
  BY <1>2 DEF Hooks, PCs
<1>5. hook' = [hook EXCEPT ![t] = h]
  BY <1>3, Types
<1> HIDE DEF h
<1>6. /\ hook' \in [Turns -> Hooks] /\ hook'[t] = h
      /\ \A u \in Turns : u # t => hook'[u] = hook[u]
  BY <1>4, <1>5, Types
<1>7. HookKnown(t, h)
  BY <1>2, <1>4 DEF HookKnown
<1>8. CASE turns[t].status # "reserved"
  <2>1. HookFits(t, h)
    BY <1>2, <1>7, <1>8 DEF HookFits
  <2> QED
    BY <1>1, <1>3, <1>4, <1>5, <1>8, <2>1, HookOnly
<1>9. CASE turns[t].status = "reserved"
  <2> DEFINE status == IF p = "plan" THEN "in_progress" ELSE "ended"
  <2>1. /\ status \in Statuses \ {"none", "reserved"} /\ turns[t].status \in Open
        /\ turns' = [turns EXCEPT ![t].status = status]
        /\ status = "in_progress" <=> p = "plan"
    BY <1>3, <1>9 DEF Statuses, Open, Recoverable
  <2> HIDE DEF status
  <2>2. ~(row.delivery = "pending" /\ row.trace = t)
    BY <1>9 DEF IInv, RowHolds, PendingClaimed
  <2>3. /\ host.turn = t /\ host' = host /\ turns' \in [Turns -> TurnRows]
        /\ turns'[t].status = status
        /\ \A u \in Turns : u # t => turns'[u] = turns[u]
        /\ TurnsHold' /\ RowHolds' /\ BoundHeld'
    BY <1>1, <1>9, <2>1, <2>2, TurnMoves
  <2>4. HookKnown(t, hook[t])'
    BY <1>4, <1>6, <2>1, <2>3 DEF HookKnown
  <2>5. AwaitedFits(t, hook[t])'
    BY <1>1, <1>4, <1>6, <2>1, <2>2, <2>3, BindingType DEF AwaitedFits, Unclaimed
  <2>6. /\ host' \in Hosts /\ row' \in Row /\ RowIsValid(row') /\ context' \in BOOLEAN
        /\ losses' \in 0 .. MaxLosses
    BY <1>1, <2>3, Types DEF unchangedHost
  <2>7. ~(Printing /\ host'.phase = "running")
    BY <1>2, <2>3 DEF Running
  <2> QED
    BY <1>1, <1>6, <2>3, <2>4, <2>5, <2>6, <2>7, OwnStep
<1> QED
  BY <1>8, <1>9

LEMMA CommitStep ==
    ASSUME IInv, NEW t \in Turns, Commit(t)
    PROVE  IInv'
<1>0. PICK b : b = hook[t].recipe
  OBVIOUS
<1>1. /\ hook[t].pc \in {"commit", "recommit"} /\ turns[t].status = "in_progress"
      /\ CanClaim(b, t) /\ row' = RowAfterClaim(b, t)
      /\ turns' = [turns EXCEPT ![t] = [status |-> "ready", bound |-> b]]
      /\ Goto(t, "read") /\ unchangedControls /\ unchangedHost
  BY <1>0 DEF Commit, At
<1>2. /\ hook[t] \in Hooks /\ HookKnown(t, hook[t]) /\ b \in Binding \cup {NoBinding}
      /\ host.turn = t /\ host.phase = "waiting" => AwaitedFits(t, hook[t])
      /\ ~(Printing /\ Running(t)) /\ hook[t].pc # "done"
  BY <1>0, <1>1, HookNow, FieldTypes
<1>3. "ready" \in {"ready", "preflight_failed"}
  OBVIOUS
<1>4. /\ host.turn = t /\ host'.turn = t /\ host' = host
      /\ row' \in Row /\ RowIsValid(row') /\ turns' \in [Turns -> TurnRows]
      /\ turns'[t].status = "ready" /\ turns'[t].bound = b
      /\ \A u \in Turns : u # t => turns'[u] = turns[u]
      /\ TurnsHold' /\ RowHolds' /\ BoundHeld' /\ ClaimHolds(t, b)'
  BY <1>1, <1>2, <1>3, ClaimHoldsNext
<1> DEFINE h == [hook[t] EXCEPT !.pc = "read"]
<1>5. /\ h \in Hooks /\ h.pc = "read" /\ h.plan = hook[t].plan
      /\ h.recipe = b /\ h.staffing = hook[t].staffing
  BY <1>0, <1>2 DEF Hooks, PCs
<1>6. hook' = [hook EXCEPT ![t] = h]
  BY <1>1, Types DEF Goto
<1> HIDE DEF h
<1>7. /\ hook' \in [Turns -> Hooks] /\ hook'[t] = h
      /\ \A u \in Turns : u # t => hook'[u] = hook[u]
  BY <1>5, <1>6, Types
<1>8. HookKnown(t, hook[t])'
  <2>1. HookKnown(t, h)
    BY <1>0, <1>1, <1>2, <1>5 DEF HookKnown
  <2> QED
    BY <1>1, <1>4, <1>5, <1>7, <2>1, ControlsStay DEF HookKnown
<1>9. host.phase = "waiting" => AwaitedFits(t, hook[t])'
  <2>1. context' = context /\ (Printing' <=> Printing)
    BY <1>1, ControlsStay DEF unchangedHost
  <2>2. host.phase = "waiting" /\ Printing /\
            (hook'[t].plan.mode = "reused" \/ hook'[t].recipe.mode = "reused") => context
    BY <1>0, <1>2, <1>4, <1>5, <1>7 DEF AwaitedFits
  <2> QED
    BY <1>4, <1>5, <1>7, <2>1, <2>2 DEF AwaitedFits
<1>10. host' \in Hosts /\ context' \in BOOLEAN /\ losses' \in 0 .. MaxLosses
  BY <1>1, Types DEF unchangedHost
<1>11. ~(Printing /\ host'.phase = "running")
  BY <1>2, <1>4 DEF Running
<1> QED
  BY <1>1, <1>4, <1>7, <1>8, <1>9, <1>10, <1>11, OwnStep

LEMMA FailStep ==
    ASSUME IInv, NEW t \in Turns, Fail(t)
    PROVE  IInv'
<1>0. PICK b : b = hook[t].plan
  OBVIOUS
<1>1. /\ hook[t].pc = "failing" /\ unchangedControls /\ unchangedHost
      /\ Goto(t, IF hook[t].staffing THEN "capsule" ELSE "silent")
  BY DEF Fail, At
<1>2. /\ hook[t] \in Hooks /\ HookKnown(t, hook[t]) /\ b \in Binding \cup {NoBinding}
      /\ host.turn = t /\ host.phase = "waiting" => AwaitedFits(t, hook[t])
      /\ ~(Printing /\ Running(t)) /\ hook[t].pc # "done" /\ turns[t].status # "none"
  BY <1>0, <1>1, HookNow, FieldTypes DEF HookKnown, IdleHook
<1>3. PICK p \in {"capsule", "silent"} :
         /\ hook' = [hook EXCEPT ![t].pc = p]
         /\ p = "capsule" <=> hook[t].staffing
  BY <1>1, <1>2 DEF Goto, Hooks
<1> DEFINE h == [hook[t] EXCEPT !.pc = p]
<1>4. /\ h \in Hooks /\ h.pc = p /\ h.plan = hook[t].plan
      /\ h.recipe = hook[t].recipe /\ h.staffing = hook[t].staffing
  BY <1>2 DEF Hooks, PCs
<1>5. hook' = [hook EXCEPT ![t] = h]
  BY <1>3, Types
<1> HIDE DEF h
<1>6. /\ hook' \in [Turns -> Hooks] /\ hook'[t] = h
      /\ \A u \in Turns : u # t => hook'[u] = hook[u]
  BY <1>4, <1>5, Types
<1>7. HookKnown(t, h)
  BY <1>1, <1>2, <1>4 DEF HookKnown
<1>8. ASSUME host.turn = t /\ host.phase = "waiting", Printing
      PROVE  /\ h.pc = "silent" => Unclaimed(t)
             /\ h.pc = "silent" => ~(/\ turns[t].status = "in_progress" /\ b # NoBinding
                                     /\ CanClaim(b, t))
             /\ h.plan.mode = "reused" \/ h.recipe.mode = "reused" => context
  BY <1>0, <1>1, <1>2, <1>3, <1>4, <1>8 DEF AwaitedFits
<1>9. /\ host' \in Hosts /\ context' \in BOOLEAN /\ losses' \in 0 .. MaxLosses
      /\ host' = host /\ context' = context /\ (Printing' <=> Printing)
      /\ ~(Printing /\ Running(t))
  BY <1>1, <1>2, Types, ControlsStay DEF unchangedHost
<1>10. CASE turns[t].status # "in_progress"
  <2>1. row' = row /\ turns' = turns
    <3>1. [turns EXCEPT ![t] = turns[t]] = turns
      BY Types
    <3> QED
      BY <1>10, <3>1 DEF Fail
  <2>2. host.turn = t /\ host.phase = "waiting" => AwaitedFits(t, h)
    BY <1>3, <1>4, <1>8 DEF AwaitedFits
  <2>3. HookFits(t, h)
    BY <1>2, <1>7, <2>2 DEF HookFits
  <2> QED
    BY <1>1, <1>4, <1>5, <2>1, <2>3, HookOnly
<1>11. CASE turns[t].status = "in_progress" /\ b # NoBinding /\ CanClaim(b, t)
  <2>1. /\ row' = RowAfterClaim(b, t)
        /\ turns' = [turns EXCEPT ![t] = [status |-> "preflight_failed", bound |-> b]]
    BY <1>0, <1>11 DEF Fail
  <2>2. "preflight_failed" \in {"ready", "preflight_failed"}
    OBVIOUS
  <2>3. /\ host.turn = t /\ host'.turn = t
        /\ row' \in Row /\ RowIsValid(row') /\ turns' \in [Turns -> TurnRows]
        /\ turns'[t].status = "preflight_failed"
        /\ \A u \in Turns : u # t => turns'[u] = turns[u]
        /\ TurnsHold' /\ RowHolds' /\ BoundHeld'
    BY <1>1, <1>2, <1>11, <2>1, <2>2, ClaimHoldsNext
  <2>4. HookKnown(t, hook[t])'
    BY <1>1, <1>3, <1>4, <1>6, <1>7, <2>3, ControlsStay DEF HookKnown
  <2>5. host.phase = "waiting" => AwaitedFits(t, hook[t])'
    BY <1>3, <1>4, <1>6, <1>8, <1>9, <1>11, <2>3 DEF AwaitedFits
  <2> QED
    BY <1>1, <1>6, <1>9, <2>3, <2>4, <2>5, OwnStep DEF Running
<1>12. CASE turns[t].status = "in_progress" /\ ~(b # NoBinding /\ CanClaim(b, t))
  <2>1. UNCHANGED row /\ turns' = [turns EXCEPT ![t].status = "preflight_failed"]
    <3>1. row' = row /\ turns' = [turns EXCEPT ![t] =
                                    [status |-> "preflight_failed", bound |-> NoBinding]]
      BY <1>0, <1>12 DEF Fail
    <3>2. turns[t].bound = NoBinding /\ turns[t] \in TurnRows
      BY <1>12, Types DEF IInv, TurnsHold
    <3>3. [turns[t] EXCEPT !.status = "preflight_failed"]
             = [status |-> "preflight_failed", bound |-> NoBinding]
      BY <3>2 DEF TurnRows
    <3> QED
      BY <3>1, <3>3
  <2>2. "preflight_failed" \in Statuses \ {"none", "reserved"} /\ turns[t].status \in Open
    BY <1>12 DEF Statuses, Open, Recoverable
  <2>3. ~(row.delivery = "pending" /\ row.trace = t)
    BY <1>12 DEF IInv, RowHolds, PendingClaimed
  <2>4. /\ host.turn = t /\ turns' \in [Turns -> TurnRows]
        /\ turns'[t].status = "preflight_failed"
        /\ \A u \in Turns : u # t => turns'[u] = turns[u]
        /\ TurnsHold' /\ RowHolds' /\ BoundHeld'
    BY <1>1, <2>1, <2>2, <2>3, TurnMoves
  <2>5. HookKnown(t, hook[t])'
    BY <1>1, <1>3, <1>4, <1>6, <1>7, <2>4, ControlsStay DEF HookKnown
  <2>6. Unclaimed(t)'
    BY <2>1, <2>3 DEF Unclaimed
  <2>7. host.phase = "waiting" => AwaitedFits(t, hook[t])'
    BY <1>3, <1>4, <1>6, <1>8, <1>9, <2>4, <2>6 DEF AwaitedFits
  <2>8. row' \in Row /\ RowIsValid(row')
    BY <2>1, Types
  <2> QED
    BY <1>1, <1>6, <1>9, <2>4, <2>5, <2>7, <2>8, OwnStep DEF Running
<1> QED
  BY <1>10, <1>11, <1>12

LEMMA CeilingStep ==
    ASSUME IInv, NEW t \in Turns, Ceiling(t)
    PROVE  IInv'
<1>1. /\ hook[t].pc = "read" /\ UNCHANGED row /\ unchangedControls /\ unchangedHost
      /\ turns' = [turns EXCEPT ![t].status = IF @ \in Open THEN "failed" ELSE @]
      /\ Goto(t, "silent") /\ "ceiling" \in failures
  BY DEF Ceiling, At
<1>2. /\ hook[t] \in Hooks /\ HookKnown(t, hook[t]) /\ turns[t].status # "none" /\ ~Printing
  BY <1>1, HookNow DEF HookKnown, IdleHook, Printing, Unprinted
<1> DEFINE h == [hook[t] EXCEPT !.pc = "silent"]
<1>3. /\ h \in Hooks /\ h.pc = "silent" /\ h.plan = hook[t].plan
      /\ h.recipe = hook[t].recipe
  BY <1>2 DEF Hooks, PCs
<1>4. hook' = [hook EXCEPT ![t] = h]
  BY <1>1, Types DEF Goto
<1> HIDE DEF h
<1>5. /\ hook' \in [Turns -> Hooks] /\ hook'[t] = h
      /\ \A u \in Turns : u # t => hook'[u] = hook[u]
  BY <1>3, <1>4, Types
<1>6. HookKnown(t, h) /\ AwaitedFits(t, h)
  BY <1>1, <1>2, <1>3 DEF HookKnown, AwaitedFits
<1>7. CASE turns[t].status \notin Open
  <2>1. turns' = turns
    <3>1. [turns EXCEPT ![t].status = turns[t].status] = turns
      BY Types DEF TurnRows
    <3> QED
      BY <1>1, <1>7, <3>1
  <2>2. HookFits(t, h)
    BY <1>2, <1>6 DEF HookFits
  <2> QED
    BY <1>1, <1>3, <1>4, <2>1, <2>2, HookOnly
<1>8. CASE turns[t].status \in Open
  <2>1. /\ turns' = [turns EXCEPT ![t].status = "failed"]
        /\ "failed" \in Statuses \ {"none", "reserved"}
        /\ ~(failures \cap {"ceiling", "retention"} = {})
    BY <1>1, <1>8 DEF Statuses
  <2>2. /\ host.turn = t /\ host' = host /\ turns' \in [Turns -> TurnRows]
        /\ turns'[t].status = "failed"
        /\ \A u \in Turns : u # t => turns'[u] = turns[u]
        /\ TurnsHold' /\ RowHolds' /\ BoundHeld'
    BY <1>1, <1>8, <2>1, TurnMoves
  <2>3. HookKnown(t, hook[t])'
    BY <1>1, <1>2, <1>3, <1>5, <1>6, <2>2, ControlsStay DEF HookKnown
  <2>4. AwaitedFits(t, hook[t])'
    BY <1>1, <1>2, <1>3, <1>5, ControlsStay DEF AwaitedFits
  <2>5. /\ host' \in Hosts /\ row' \in Row /\ RowIsValid(row') /\ context' \in BOOLEAN
        /\ losses' \in 0 .. MaxLosses
    BY <1>1, Types DEF unchangedHost
  <2> QED
    BY <1>1, <1>2, <1>5, <2>2, <2>3, <2>4, <2>5, OwnStep
<1> QED
  BY <1>7, <1>8


\* The host goes on with the turn it waited for, or does not notice.
LEMMA AnswerStep ==
    ASSUME IInv, NEW t \in Turns, NEW kernel \in BOOLEAN, Answer(t, kernel), Finish(t),
           UNCHANGED <<row, turns>>, unchangedControls, turns[t].status # "none",
           Printing /\ Awaited(t) => context \/ kernel \/ Unclaimed(t)
    PROVE  IInv'
<1> DEFINE h == [IdleHook EXCEPT !.pc = "done"]
<1>1. h \in Hooks /\ h.pc = "done" /\ h.plan = NoBinding /\ h.recipe = NoBinding
  BY DEF IdleHook, Hooks, PCs
<1>2. hook' = [hook EXCEPT ![t] = h]
  BY DEF Finish
<1> HIDE DEF h
<1>3. /\ hook' \in [Turns -> Hooks] /\ hook'[t] = h
      /\ \A u \in Turns : u # t => hook'[u] = hook[u]
  BY <1>1, <1>2, Types
<1>4. HookKnown(t, h)
  BY <1>1 DEF HookKnown
<1>5. row \in Row /\ RowIsValid(row) /\ context \in BOOLEAN /\ losses \in 0 .. MaxLosses
      /\ turns \in [Turns -> TurnRows] /\ host \in Hosts
  BY Types
<1>6. CASE ~Awaited(t)
  <2>1. unchangedHost
    BY <1>5, <1>6 DEF Answer, unchangedHost
  <2>2. HookFits(t, h)
    BY <1>1, <1>4, <1>6, HostIs DEF HookFits
  <2> QED
    BY <1>1, <1>2, <2>1, <2>2, HookOnly
<1>7. CASE Awaited(t)
  <2>1. host.turn = t /\ host.phase = "waiting"
    BY <1>7, HostIs
  <2>2. /\ host' \in Hosts /\ host'.turn = t /\ host'.phase = "running"
        /\ context' = (context \/ kernel) /\ context' \in BOOLEAN
        /\ losses' = losses
    BY <1>5, <1>7, <2>1 DEF Answer, Hosts, Phases
  <2>3. TurnsHold'
    BY <2>1, <2>2, NumbersAre DEF IInv, TurnsHold
  <2>4. Printing' => KernelLoaded'
    <3> SUFFICES ASSUME Printing, row.delivery # "absent", row.epoch = CurrentEpoch
                 PROVE  /\ row.delivery = "acknowledged" /\ row.restore = row.applied
                              => context'
                        /\ row.delivery = "pending" /\ row.restore = row.pending
                              /\ Running(row.trace)' => context'
      BY ControlsStay DEF KernelLoaded
    <3>1. KernelLoaded
      BY DEF IInv, RowHolds
    <3>2. row.delivery = "pending" /\ Running(row.trace)' => context \/ kernel
      BY <1>7, <2>2 DEF Unclaimed, Running
    <3> QED
      BY <2>2, <3>1, <3>2 DEF KernelLoaded
  <2>5. RowHolds'
    BY <2>4, ControlsStay DEF IInv, RowHolds, PendingClaimed, unchangedControls
  <2>6. BoundHeld'
    BY <2>1, <2>2, RowStays DEF IInv, BoundHeld
  <2>7. HookKnown(t, hook[t])'
    BY <1>1, <1>3 DEF HookKnown
  <2> QED
    BY <1>1, <1>3, <1>5, <2>2, <2>3, <2>5, <2>6, <2>7, OwnStep
<1> QED
  BY <1>6, <1>7

LEMMA ReadStep ==
    ASSUME IInv, NEW t \in Turns, Read(t)
    PROVE  IInv'
<1>1. /\ hook[t].pc = "read" /\ Answer(t, hook[t].recipe.mode # "reused") /\ Finish(t)
      /\ UNCHANGED <<row, turns>> /\ unchangedControls
  BY DEF Read, At
<1>2. turns[t].status # "none"
  BY <1>1, HookNow DEF HookKnown, IdleHook
<1>3. Printing /\ Awaited(t) => context \/ hook[t].recipe.mode # "reused"
  BY HookNow, HostIs DEF AwaitedFits
<1> QED
  BY <1>1, <1>2, <1>3, AnswerStep

LEMMA CapsuleStep ==
    ASSUME IInv, NEW t \in Turns, Capsule(t)
    PROVE  IInv'
<1>1. /\ hook[t].pc = "capsule" /\ Answer(t, hook[t].plan.mode # "reused") /\ Finish(t)
      /\ UNCHANGED <<row, turns>> /\ unchangedControls
  BY DEF Capsule, At
<1>2. turns[t].status # "none"
  BY <1>1, HookNow DEF HookKnown, IdleHook
<1>3. Printing /\ Awaited(t) => context \/ hook[t].plan.mode # "reused"
  BY HookNow, HostIs DEF AwaitedFits
<1> QED
  BY <1>1, <1>2, <1>3, AnswerStep

LEMMA SilentStep ==
    ASSUME IInv, NEW t \in Turns, Silent(t)
    PROVE  IInv'
<1>1. /\ hook[t].pc = "silent" /\ Answer(t, FALSE) /\ Finish(t)
      /\ UNCHANGED <<row, turns>> /\ unchangedControls
  BY DEF Silent, At
<1>2. turns[t].status # "none"
  BY <1>1, HookNow DEF HookKnown, IdleHook
<1>3. Printing /\ Awaited(t) => Unclaimed(t)
  BY <1>1, HookNow, HostIs DEF AwaitedFits
<1> QED
  BY <1>1, <1>2, <1>3, AnswerStep

LEMMA TimeoutStep ==
    ASSUME IInv, NEW t \in Turns, Timeout(t)
    PROVE  IInv'
<1>1. /\ Awaited(t) /\ Finish(t) /\ UNCHANGED <<row, turns, context, losses>>
      /\ host' = [host EXCEPT !.phase = "running"] /\ unchangedControls /\ ~Printing
  BY DEF Timeout, Printing, Unprinted
<1>2. Answer(t, FALSE)
  BY <1>1, Types DEF Answer
<1>3. turns[t].status # "none"
  <2>1. t <= host.turn
    BY <1>1, HostIs, NumbersAre
  <2> QED
    BY <2>1 DEF IInv, TurnsHold
<1> QED
  BY <1>1, <1>2, <1>3, AnswerStep

-----------------------------------------------------------------------------
(* The host session and the switches                                       *)

\* A step that no prompt hook takes, while none is awaited.
LEMMA UnheardStep ==
    ASSUME IInv, host'.turn = host.turn, host'.phase # "waiting",
           host'.phase = "running" => host.phase = "running", UNCHANGED hook,
           unchangedControls, row' \in Row, RowIsValid(row'), turns' \in [Turns -> TurnRows],
           host' \in Hosts, context' \in BOOLEAN, losses' \in 0 .. MaxLosses,
           \A u \in Turns : turns'[u].status = "none" => turns[u].status = "none",
           TurnsHold', RowHolds', BoundHeld'
    PROVE  IInv'
<1>1. UNCHANGED <<master, readable, control, failures>>
  BY DEF unchangedControls
<1>2. TypeOK'
  BY <1>1, Types, TypesNext
<1>3. ASSUME NEW u \in Turns
      PROVE  HookFits(u, hook[u])'
  <2>1. HookKnown(u, hook[u])'
    BY KnownStays
  <2>2. (Printing /\ Running(u))' => hook[u].pc = "done"
    BY HookNow, ControlsStay DEF Running
  <2> QED
    BY <2>1, <2>2 DEF HookFits
<1> QED
  BY <1>2, <1>3 DEF IInv

LEMMA IdleStep ==
    ASSUME IInv, host' = [host EXCEPT !.phase = "idle"],
           UNCHANGED <<row, turns, hook, context, losses>>, unchangedControls
    PROVE  IInv'
<1>1. host' \in Hosts /\ host'.turn = host.turn /\ host'.phase = "idle"
  BY Types DEF Hosts, Phases
<1>2. TurnsHold'
  BY <1>1 DEF IInv, TurnsHold
<1>3. RowHolds'
  BY <1>1, ControlsStay DEF IInv, RowHolds, PendingClaimed, KernelLoaded, Running,
     unchangedControls
<1>4. BoundHeld'
  BY <1>1 DEF BoundHeld
<1>5. /\ row' \in Row /\ RowIsValid(row') /\ turns' \in [Turns -> TurnRows]
      /\ context' \in BOOLEAN /\ losses' \in 0 .. MaxLosses
  BY Types
<1> QED
  BY <1>1, <1>2, <1>3, <1>4, <1>5, UnheardStep


\* An accepted acknowledgement of the delivery that turn t claimed.
LEMMA AcknowledgedIs ==
    ASSUME IInv, row.delivery = "pending"
    PROVE  /\ RowAfterAcknowledge \in Row /\ RowIsValid(RowAfterAcknowledge)
           /\ RowAfterAcknowledge.epoch = row.epoch
           /\ RowAfterAcknowledge.delivery = "acknowledged"
           /\ RowAfterAcknowledge.last = row.last
           /\ RowAfterAcknowledge.restore = row.restore
           /\ RowAfterAcknowledge.applied = row.pending
<1>1. row \in Row /\ RowIsValid(row)
  BY Types
<1>2. /\ row.restore \in Nat /\ row.applied \in Nat /\ row.pending \in Nat
      /\ row.pending <= row.restore /\ Reusable(row.epoch)
      /\ row.mode = "restored" \/ (row.mode = "injected" /\ row.pending = row.applied)
  BY <1>1, RowType DEF RowIsValid
<1>3. (IF row.mode = "restored" THEN row.pending ELSE row.applied) = row.pending
  BY <1>2
<1> DEFINE r == [row EXCEPT !.delivery = "acknowledged", !.mode = "", !.trace = 0,
                            !.applied = row.pending, !.pending = row.pending]
<1>4. RowAfterAcknowledge = r
  BY <1>3 DEF RowAfterAcknowledge
<1>5. /\ r \in Row /\ r.epoch = row.epoch /\ r.delivery = "acknowledged" /\ r.mode = ""
      /\ r.trace = 0 /\ r.last = row.last /\ r.restore = row.restore
      /\ r.applied = row.pending /\ r.pending = row.pending
  BY <1>1, <1>2 DEF Row
<1> HIDE DEF r
<1>6. RowIsValid(r)
  <2>1. row.pending <= row.pending /\ row.pending <= row.restore
    BY <1>2
  <2>2. r.applied <= r.pending /\ r.pending <= r.restore /\ r.pending = r.applied
    BY <1>5, <2>1
  <2> QED
    BY <1>2, <1>5, <2>2, Zenon DEF RowIsValid
<1> QED
  BY <1>4, <1>5, <1>6

LEMMA StopStep ==
    ASSUME IInv, NEW t \in Turns, Stop(t)
    PROVE  IInv'
<1>0. PICK b : b = turns[t].bound
  OBVIOUS
<1>1. /\ Running(t) /\ UNCHANGED <<hook, context, losses>> /\ unchangedControls
      /\ t <= host.turn
  BY HostIs, NumbersAre DEF Stop, Running
<1>2. \/ row' = row
      \/ /\ b # NoBinding /\ CanAcknowledge(b, t) /\ row.delivery = "pending"
         /\ Reusable(b.epoch) /\ row' = RowAfterAcknowledge
  BY <1>0 DEF Stop
<1>3. PICK status \in Statuses :
          /\ turns' = [turns EXCEPT ![t].status = status]
          /\ status = turns[t].status \/ (turns[t].status \in Open /\ status = "ended")
  <2>1. CASE turns' = [turns EXCEPT ![t].status =
                                 IF turns[t].status \in Open THEN "ended" ELSE @]
    <3>1. (IF turns[t].status \in Open THEN "ended" ELSE turns[t].status) \in Statuses
      BY FieldTypes DEF Statuses, Open, Recoverable
    <3> QED
      BY <2>1, <3>1
  <2>2. CASE turns' = turns
    <3>1. [turns EXCEPT ![t].status = turns[t].status] = turns
      BY Types DEF TurnRows
    <3> QED
      BY <2>2, <3>1, FieldTypes
  <2> QED
    BY <2>1, <2>2 DEF Stop
<1>4. /\ host'.turn = t /\ host'.phase \in {"idle", "running"} /\ host' \in Hosts
      /\ host'.turn = host.turn /\ host.phase = "running"
  BY <1>1, Types DEF Stop, Running, Hosts, Phases
<1>5. turns[t].status # "none"
  BY <1>1 DEF IInv, TurnsHold
<1>6. /\ turns' \in [Turns -> TurnRows] /\ turns'[t].status = status
      /\ turns'[t].bound = b /\ \A u \in Turns : u # t => turns'[u] = turns[u]
  <2> DEFINE n == [turns[t] EXCEPT !.status = status]
  <2>1. turns[t] \in TurnRows
    BY Types
  <2>2. n \in TurnRows /\ n.status = status /\ n.bound = b
    BY <1>0, <2>1 DEF TurnRows
  <2>3. turns' = [turns EXCEPT ![t] = n]
    BY <1>3
  <2> HIDE DEF n
  <2> QED
    BY <2>2, <2>3, Types
<1>7. TurnsHold'
  <2>1. ASSUME NEW u \in Turns
        PROVE  /\ turns'[u].status # "none" <=> u <= t
               /\ turns'[u].status \in Open => u = t
               /\ turns'[u].status \in {"none", "reserved", "in_progress"} =>
                    turns'[u].bound = NoBinding
    BY <1>0, <1>1, <1>3, <1>4, <1>5, <1>6 DEF IInv, TurnsHold, Open
  <2> QED
    BY <1>4, <2>1, NumbersAre DEF TurnsHold
<1>8. UNCHANGED failures /\ CurrentEpoch' = CurrentEpoch /\ (Printing' <=> Printing)
  BY <1>1, ControlsStay DEF unchangedControls
<1>9. CASE row' = row
  <2>1. PendingClaimed'
    BY <1>3, <1>6, <1>8, <1>9 DEF PendingClaimed, IInv, RowHolds, Recoverable
  <2>2. Printing' => KernelLoaded'
    BY <1>1, <1>4, <1>8, <1>9 DEF IInv, RowHolds, KernelLoaded, Running
  <2>3. RowHolds'
    BY <1>1, <1>9, <2>1, <2>2, ControlsStay DEF IInv, RowHolds, unchangedControls
  <2>4. BoundHeld'
    BY <1>0, <1>4, <1>6, <1>9, RowStays DEF IInv, BoundHeld
  <2>5. /\ row' \in Row /\ RowIsValid(row') /\ context' \in BOOLEAN
        /\ losses' \in 0 .. MaxLosses
    BY <1>1, <1>9, Types
  <2>6. \A u \in Turns : turns'[u].status = "none" => turns[u].status = "none"
    BY <1>3, <1>5, <1>6
  <2> QED
    BY <1>1, <1>4, <1>6, <1>7, <2>3, <2>4, <2>5, <2>6, UnheardStep
<1>10. CASE /\ b # NoBinding /\ CanAcknowledge(b, t) /\ row.delivery = "pending"
            /\ Reusable(b.epoch) /\ row' = RowAfterAcknowledge
  <2>1. row.epoch = b.epoch /\ row.trace = t /\ row.last = t
    BY <1>10 DEF CanAcknowledge, Current, IInv, RowHolds, PendingClaimed
  <2>2. /\ row' \in Row /\ RowIsValid(row') /\ row'.epoch = row.epoch
        /\ row'.delivery = "acknowledged" /\ row'.last = row.last
        /\ row'.restore = row.restore /\ row'.applied = row.pending
    BY <1>10, AcknowledgedIs
  <2>3. PendingClaimed'
    BY <2>2 DEF PendingClaimed
  <2>4. Printing' => KernelLoaded'
    BY <1>1, <1>8, <1>10, <2>1, <2>2 DEF IInv, RowHolds, KernelLoaded
  <2>5. RowHolds'
    BY <1>1, <1>10, <2>2, <2>3, <2>4, ControlsStay DEF IInv, RowHolds, unchangedControls
  <2>6. BoundHeld'
    BY <1>4, <1>6, <2>1, <2>2 DEF BoundHeld, Current
  <2>7. context' \in BOOLEAN /\ losses' \in 0 .. MaxLosses
    BY <1>1, Types
  <2>8. \A u \in Turns : turns'[u].status = "none" => turns[u].status = "none"
    BY <1>3, <1>5, <1>6
  <2> QED
    BY <1>1, <1>4, <1>6, <1>7, <2>2, <2>5, <2>6, <2>7, <2>8, UnheardStep
<1> QED
  BY <1>2, <1>9, <1>10

LEMMA LoseContextStep ==
    ASSUME IInv, LoseContext
    PROVE  IInv'
<1>1. /\ host.phase # "waiting" /\ losses < MaxLosses /\ context' = FALSE
      /\ losses' = losses + 1 /\ row' = IF MasterOn THEN RestoreRequired ELSE row
      /\ UNCHANGED <<turns, hook, host>> /\ unchangedControls
  BY DEF LoseContext
<1>2. row \in Row /\ RowIsValid(row) /\ losses \in 0 .. MaxLosses
  BY Types
<1>3. /\ row.restore \in Nat /\ row.applied \in Nat /\ row.pending \in Nat
      /\ row.delivery # "absent" => row.applied <= row.pending /\ row.pending <= row.restore
  BY <1>2, RowType DEF RowIsValid
<1>4. /\ row' \in Row /\ row'.epoch = row.epoch /\ row'.applied = row.applied
      /\ row'.pending = row.pending /\ row'.delivery = row.delivery
      /\ row'.mode = row.mode /\ row'.trace = row.trace /\ row'.last = row.last
      /\ row'.restore \in Nat /\ row'.restore >= row.restore
      /\ MasterOn /\ row.delivery # "absent" => row'.restore = row.restore + 1
  <2>0. PICK n \in Nat : n = row.restore + 1
    BY <1>3
  <2> DEFINE r == [row EXCEPT !.restore = n]
  <2>1. /\ r \in Row /\ r.epoch = row.epoch /\ r.applied = row.applied
        /\ r.pending = row.pending /\ r.delivery = row.delivery
        /\ r.mode = row.mode /\ r.trace = row.trace /\ r.last = row.last
        /\ r.restore = n
    BY <1>2 DEF Row
  <2>2. row' = IF MasterOn /\ row.delivery # "absent" THEN r ELSE row
    BY <1>1, <2>0 DEF RestoreRequired
  <2> HIDE DEF r
  <2> QED
    BY <1>2, <1>3, <2>0, <2>1, <2>2
<1>5. RowIsValid(row')
  <2>1. row'.delivery # "absent" => row'.applied <= row'.pending /\ row'.pending <= row'.restore
    BY <1>3, <1>4
  <2>2. row'.delivery # "absent" =>
            /\ Reusable(row.epoch)
            /\ \/ /\ row.delivery = "acknowledged"
                  /\ row.mode = "" /\ row.trace = 0 /\ row.pending = row.applied
               \/ /\ row.delivery = "pending" /\ row.trace # 0
                  /\ \/ row.mode = "restored" /\ row.pending > row.applied
                     \/ row.mode = "injected" /\ row.pending = row.applied
    BY <1>2, <1>4, Zenon DEF RowIsValid
  <2> QED
    BY <1>4, <2>1, <2>2, Zenon DEF RowIsValid
<1>6. Printing' => KernelLoaded'
  <2>1. row.delivery # "absent" /\ row.epoch = CurrentEpoch => MasterOn
    BY SeenIsEnabled DEF IInv, RowHolds, Enabled
  <2>2. row.delivery # "absent" /\ row.epoch = CurrentEpoch =>
            row'.restore # row'.applied /\ row'.restore # row'.pending
    BY <1>3, <1>4, <2>1
  <2> QED
    BY <1>1, <1>4, <2>2, ControlsStay DEF KernelLoaded
<1>7. TurnsHold'
  BY <1>1 DEF IInv, TurnsHold
<1>8. RowHolds'
  <2>1. PendingClaimed'
    BY <1>1, <1>4 DEF IInv, RowHolds, PendingClaimed, unchangedControls
  <2> QED
    BY <1>1, <1>4, <1>6, <2>1, ControlsStay DEF IInv, RowHolds, unchangedControls
<1>9. BoundHeld'
  BY <1>1, <1>4 DEF IInv, BoundHeld, Current
<1>10. /\ turns' \in [Turns -> TurnRows] /\ host' \in Hosts /\ context' \in BOOLEAN
       /\ losses' \in 0 .. MaxLosses
  <2>1. losses + 1 \in 0 .. MaxLosses
    BY <1>1, <1>2, BoundsAssumption
  <2>2. turns \in [Turns -> TurnRows] /\ host \in Hosts
    BY Types
  <2> QED
    BY <1>1, <2>1, <2>2, Zenon
<1> QED
  BY <1>1, <1>4, <1>5, <1>7, <1>8, <1>9, <1>10, UnheardStep


\* Closed or forgotten turns of a host that waits for none.
LEMMA TurnsClose ==
    ASSUME IInv, host.phase = "idle", UNCHANGED <<hook, host, losses>>, unchangedControls,
           context' \in BOOLEAN, row' = NoRow \/ (row' = row /\ context' = context),
           turns' \in [Turns -> TurnRows],
           \A u \in Turns :
               \/ turns'[u] = turns[u]
               \/ /\ turns[u].status # "none" /\ turns'[u].status \in Recoverable
               \/ /\ turns[u].status # "none" /\ turns'[u].status = "deleted"
                  /\ "retention" \in failures
    PROVE  IInv'
<1>1. \A u \in Turns :
          /\ turns'[u].status = "none" <=> turns[u].status = "none"
          /\ turns'[u].status \in Open => turns'[u] = turns[u]
          /\ turns'[u].status \in {"none", "reserved", "in_progress"} => turns'[u] = turns[u]
  BY DEF Open, Recoverable
<1>2. TurnsHold'
  BY <1>1 DEF IInv, TurnsHold
<1>3. BoundHeld'
  BY DEF BoundHeld
<1>4. row' \in Row /\ RowIsValid(row') /\ host' \in Hosts /\ losses' \in 0 .. MaxLosses
  BY Types, NoRowIs
<1>5. UNCHANGED failures
  BY DEF unchangedControls
<1>6. RowHolds'
  <2>1. CASE row' = NoRow
    BY <1>5, <2>1, NoRowIs, ControlsStay DEF IInv, RowHolds, PendingClaimed, KernelLoaded,
       unchangedControls
  <2>2. CASE row' = row /\ context' = context
    <3>1. PendingClaimed'
      <4> SUFFICES ASSUME row.delivery = "pending" PROVE PendingClaimed'
        BY <2>2 DEF PendingClaimed
      <4>1. PendingClaimed
        BY DEF IInv, RowHolds
      <4>2. row.trace \in Turns
        BY Types, RowType DEF RowIsValid
      <4> QED
        BY <1>5, <2>2, <4>1, <4>2 DEF PendingClaimed, Recoverable
    <3>2. Printing' => KernelLoaded'
      BY <2>2, ControlsStay DEF IInv, RowHolds, KernelLoaded, Running
    <3> QED
      BY <2>2, <3>1, <3>2, ControlsStay DEF IInv, RowHolds, unchangedControls
  <2> QED
    BY <2>1, <2>2
<1> QED
  BY <1>1, <1>2, <1>3, <1>4, <1>6, UnheardStep

LEMMA SessionEndStep ==
    ASSUME IInv, SessionEnd
    PROVE  IInv'
<1>1. /\ host.phase = "idle" /\ row' = NoRow /\ context' \in BOOLEAN
      /\ turns' = [u \in Turns |->
            IF turns[u].status \in Open THEN [turns[u] EXCEPT !.status = "ended"]
            ELSE turns[u]]
      /\ UNCHANGED <<hook, host, losses>> /\ unchangedControls
  BY DEF SessionEnd
<1>2. ASSUME NEW u \in Turns
      PROVE  /\ turns'[u] \in TurnRows
             /\ \/ turns'[u] = turns[u]
                \/ turns[u].status # "none" /\ turns'[u].status \in Recoverable
  <2>1. turns[u] \in TurnRows
    BY Types
  <2>2. /\ [turns[u] EXCEPT !.status = "ended"] \in TurnRows
        /\ [turns[u] EXCEPT !.status = "ended"].status = "ended"
    BY <2>1 DEF TurnRows, Statuses, Recoverable
  <2> QED
    BY <1>1, <2>1, <2>2 DEF Open, Recoverable
<1>3. turns' \in [Turns -> TurnRows]
  BY <1>1, <1>2
<1> QED
  BY <1>1, <1>2, <1>3, TurnsClose

LEMMA RetentionStep ==
    ASSUME IInv, Retention
    PROVE  IInv'
<1>1. /\ host.phase = "idle" /\ "retention" \in failures /\ (row' = row \/ row' = NoRow)
      /\ UNCHANGED <<hook, host, context, losses>> /\ unchangedControls
  BY DEF Retention
<1>2. PICK old \in SUBSET {u \in Turns :
                             turns[u].status \in Recoverable \cup {"failed"}} :
          turns' = [u \in Turns |-> IF u \in old
              THEN [status |-> "deleted", bound |-> NoBinding] ELSE turns[u]]
  BY DEF Retention
<1>3. ASSUME NEW u \in Turns
      PROVE  /\ turns'[u] \in TurnRows
             /\ \/ turns'[u] = turns[u]
                \/ turns[u].status # "none" /\ turns'[u].status = "deleted"
  <2>1. turns[u] \in TurnRows
    BY Types
  <2>2. [status |-> "deleted", bound |-> NoBinding] \in TurnRows
    BY DEF TurnRows, Statuses
  <2> QED
    BY <1>2, <2>1, <2>2 DEF Recoverable
<1>4. turns' \in [Turns -> TurnRows]
  BY <1>2, <1>3
<1>5. context' \in BOOLEAN /\ (row' = NoRow \/ (row' = row /\ context' = context))
  BY <1>1, Types
<1>6. \A u \in Turns :
         \/ turns'[u] = turns[u]
         \/ /\ turns[u].status # "none" /\ turns'[u].status \in Recoverable
         \/ /\ turns[u].status # "none" /\ turns'[u].status = "deleted"
            /\ "retention" \in failures
  BY <1>1, <1>3
<1> QED
  BY <1>1, <1>4, <1>5, <1>6, TurnsClose

\* A step of the switches alone.
LEMMA EpochStep ==
    ASSUME IInv, UNCHANGED <<row, turns, hook, failures>>, unchangedHost,
           master' \in Masters, control' \in Controls, readable' \in BOOLEAN,
           \A e \in Epoch : Seen(e) => Seen(e)' /\ (Printing => e # CurrentEpoch'),
           "unreadable" \notin failures => readable'
    PROVE  IInv'
<1>1. UNCHANGED <<host, context, losses>>
  BY DEF unchangedHost
<1>2. TypeOK'
  <2>1. row' \in Row /\ RowIsValid(row')
    BY Types
  <2> QED
    BY <1>1, <2>1, Types, TypesNext
<1>3. TurnsHold'
  BY <1>1 DEF IInv, TurnsHold
<1>4. Printing' <=> Printing
  BY DEF Printing
<1>5. RowHolds'
  <2>1. row.epoch \in Epoch
    BY Types, RowType
  <2>2. PendingClaimed'
    BY DEF IInv, RowHolds, PendingClaimed
  <2>3. row.delivery # "absent" => Seen(row.epoch)' /\ (Printing => row.epoch # CurrentEpoch')
    BY <2>1 DEF IInv, RowHolds
  <2>4. Printing' => KernelLoaded'
    BY <1>4, <2>3 DEF KernelLoaded
  <2> QED
    BY <2>2, <2>3, <2>4 DEF RowHolds
<1>6. BoundHeld'
  BY <1>1, RowStays DEF IInv, BoundHeld
<1>7. ASSUME NEW u \in Turns
      PROVE  HookFits(u, hook[u])'
  <2>1. PICK h : h = hook[u]
    OBVIOUS
  <2>2. /\ hook'[u] = h /\ h \in Hooks /\ HookKnown(u, h)
        /\ host.turn = u /\ host.phase = "waiting" => AwaitedFits(u, h)
        /\ Printing /\ Running(u) => h.pc = "done"
    BY <2>1, HookNow
  <2>3. /\ h.plan # NoBinding => Seen(h.plan.epoch)' /\ (Printing => h.plan.epoch # CurrentEpoch')
        /\ h.recipe # NoBinding => Seen(h.recipe.epoch)'
    <3>1. h.plan.epoch \in Epoch /\ h.recipe.epoch \in Epoch
      BY <2>2, BindingType DEF Hooks
    <3> QED
      BY <2>2, <3>1 DEF HookKnown
  <2>4. HookKnown(u, hook[u])'
    BY <2>2, <2>3 DEF HookKnown
  <2>5. ASSUME host.turn = u /\ host.phase = "waiting"
        PROVE  AwaitedFits(u, hook[u])'
    <3>1. PlansHold(h) => PlansHold(hook[u])'
      BY <2>2, RowStays DEF PlansHold
    <3>2. ClaimHolds(u, h.recipe) => ClaimHolds(u, hook[u].recipe)'
      BY <2>2, RowStays DEF ClaimHolds
    <3>3. Printing => Unclaimed(u)'
      <4>1. row.epoch \in Epoch
        BY Types, RowType
      <4> QED
        BY <4>1 DEF Unclaimed, IInv, RowHolds
    <3>4. Printing /\ h.plan # NoBinding => ~CanClaim(hook[u].plan, u)'
      BY <2>2, <2>3 DEF CanClaim
    <3>5. AwaitedFits(u, h) /\ context' = context /\ turns' = turns
      BY <1>1, <2>2, <2>5
    <3> QED
      BY <1>4, <2>2, <3>1, <3>2, <3>3, <3>4, <3>5 DEF AwaitedFits
  <2> QED
    BY <1>1, <1>4, <2>2, <2>4, <2>5 DEF HookFits, Running
<1> QED
  BY <1>2, <1>3, <1>5, <1>6, <1>7 DEF IInv

LEMMA SwitchesStep ==
    ASSUME IInv, SwitchMaster \/ SwitchHost \/ Flicker
    PROVE  IInv'
<1>1. /\ master \in Masters /\ control \in Controls /\ readable \in BOOLEAN
      /\ master.on \in BOOLEAN /\ control.on \in BOOLEAN
      /\ master.generation \in Nat /\ control.generation \in Nat
  BY Types, FieldTypes
<1>2. Printing \/ "unreadable" \notin failures => readable
  BY DEF IInv, RowHolds, Printing, Unprinted
<1>3. CASE SwitchMaster
  <2>1. /\ master' = [on |-> ~master.on, generation |-> master.generation + 1,
                      materialized |-> TRUE]
        /\ UNCHANGED <<readable, control, row, turns, hook, failures>> /\ unchangedHost
        /\ master.generation + control.generation < MaxSwitches
    BY <1>3 DEF SwitchMaster
  <2>2. master.generation + 1 \in Generations
    BY <1>1, <2>1, BoundsAssumption DEF Generations
  <2>3. master' \in Masters /\ master'.generation = master.generation + 1
    BY <1>1, <2>1, <2>2 DEF Masters
  <2>4. \A e \in Epoch : Seen(e) => Seen(e)' /\ (Printing => e # CurrentEpoch')
    BY <1>2, <2>1, <2>3, SwitchedOn
  <2> QED
    BY <1>1, <1>2, <2>1, <2>3, <2>4, EpochStep
<1>4. CASE SwitchHost
  <2>1. /\ control' = [on |-> ~control.on, generation |-> control.generation + 1]
        /\ UNCHANGED <<master, readable, row, turns, hook, failures>> /\ unchangedHost
        /\ master.generation + control.generation < MaxSwitches
    BY <1>4 DEF SwitchHost
  <2>2. control.generation + 1 \in Generations
    BY <1>1, <2>1, BoundsAssumption DEF Generations
  <2>3. control' \in Controls /\ control'.generation = control.generation + 1
    BY <1>1, <2>1, <2>2 DEF Controls
  <2>4. \A e \in Epoch : Seen(e) => Seen(e)' /\ (Printing => e # CurrentEpoch')
    BY <1>2, <2>1, <2>3, SwitchedOn
  <2> QED
    BY <1>1, <1>2, <2>1, <2>3, <2>4, EpochStep
<1>5. CASE Flicker
  <2>1. /\ "unreadable" \in failures /\ readable' = ~readable /\ ~Printing
        /\ UNCHANGED <<master, control, row, turns, hook, failures>> /\ unchangedHost
    BY <1>5 DEF Flicker, Printing, Unprinted
  <2>2. readable' \in BOOLEAN
    BY <1>1, <2>1
  <2>3. \A e \in Epoch : Seen(e) => Seen(e)' /\ (Printing => e # CurrentEpoch')
    BY <2>1 DEF Seen
  <2> QED
    BY <1>1, <2>1, <2>2, <2>3, EpochStep
<1> QED
  BY <1>3, <1>4, <1>5

-----------------------------------------------------------------------------
(* The invariant                                                           *)

LEMMA InitIInv == Init => IInv
<1> SUFFICES ASSUME Init PROVE IInv
  OBVIOUS
<1>1. /\ master \in [on : {TRUE}, generation : {0}, materialized : BOOLEAN]
      /\ readable = TRUE /\ control \in [on : {TRUE}, generation : {0, 1}]
      /\ row = NoRow /\ context = FALSE /\ losses = 0 /\ failures \in FailureSets
      /\ turns = [t \in Turns |-> [status |-> "none", bound |-> NoBinding]]
      /\ hook = [t \in Turns |-> IdleHook] /\ host = [turn |-> 0, phase |-> "idle"]
  BY DEF Init
<1>2. \A t \in Turns : /\ hook[t] = IdleHook /\ turns[t].status = "none"
                        /\ turns[t].bound = NoBinding
  BY <1>1
<1>3. /\ host.turn = 0 /\ host.phase = "idle" /\ readable
      /\ row.delivery = "absent" /\ row \in Row /\ RowIsValid(row)
  BY <1>1, NoRowIs
<1>4. TypeOK
  <2>1. 0 \in Generations /\ 1 \in Generations /\ losses \in 0 .. MaxLosses
    BY <1>1, BoundsAssumption DEF Generations
  <2>2. master \in Masters /\ control \in Controls
    BY <1>1, <2>1 DEF Masters, Controls
  <2>3. turns \in [Turns -> TurnRows] /\ hook \in [Turns -> Hooks] /\ host \in Hosts
    BY <1>1 DEF TurnRows, Statuses, Hooks, PCs, IdleHook, Hosts, Phases
  <2> QED
    BY <1>1, <1>3, <2>1, <2>2, <2>3
       DEF TypeOK, Masters, Controls, TurnRows, Hooks, PCs, Hosts, Phases
<1>5. TurnsHold
  BY <1>2, <1>3, NumbersAre DEF TurnsHold, Open
<1>6. RowHolds
  BY <1>3 DEF RowHolds, PendingClaimed, KernelLoaded
<1>7. BoundHeld
  BY <1>3 DEF BoundHeld
<1>8. \A t \in Turns : HookFits(t, hook[t])
  <2>1. IdleHook.pc = "idle" /\ IdleHook.plan = NoBinding /\ IdleHook.recipe = NoBinding
    BY DEF IdleHook
  <2>2. \A t \in Turns : HookKnown(t, IdleHook)
    BY <2>1 DEF HookKnown
  <2> QED
    BY <1>2, <1>3, <2>2 DEF HookFits, Running
<1> QED
  BY <1>4, <1>5, <1>6, <1>7, <1>8 DEF IInv

LEMMA NextIInv ==
    ASSUME IInv, [Next]_vars
    PROVE  IInv'
<1>1. ASSUME NEW t \in Turns, HookStep(t)
      PROVE  IInv'
  BY <1>1, BeginStep, PlanStep, FailsStep, CommitStep, CommitRefusedStep, ReplanStep,
     ReadStep, ReadFailsStep, CeilingStep, FailStep, CapsuleStep, SilentStep DEF HookStep
<1>2. ASSUME NEW t \in Turns, StopUnseen(t)
      PROVE  IInv'
  BY <1>2, IdleStep DEF StopUnseen
<1>3. CASE Interrupt
  BY <1>3, IdleStep DEF Interrupt
<1>4. CASE UNCHANGED vars
  <2>1. UNCHANGED <<row, turns, hook, host, context, losses>> /\ unchangedControls
    BY <1>4 DEF vars, unchangedControls
  <2>2. UNCHANGED <<master, readable, control, failures>>
    BY <1>4 DEF vars
  <2>3. TypeOK'
    BY <2>1, <2>2, Types, TypesNext
  <2>4. ASSUME NEW u \in Turns
        PROVE  HookFits(u, hook[u])'
    <3>1. HookKnown(u, hook[u])'
      BY <2>1, KnownStays
    <3>2. host.turn = u /\ host.phase = "waiting" => AwaitedFits(u, hook[u])'
      BY <2>1, HookNow, AwaitedStays
    <3> QED
      BY <2>1, <3>1, <3>2, HookNow, ControlsStay DEF HookFits, Running
  <2> QED
    BY <2>1, <2>3, <2>4, FactsStay DEF IInv
<1> QED
  BY <1>1, <1>2, <1>3, <1>4, PromptStep, StopStep, TimeoutStep, LoseContextStep,
     SessionEndStep, RetentionStep, SwitchesStep DEF Next

-----------------------------------------------------------------------------
(* The theorems                                                            *)

\* The row of the session, its turns, their hooks and the context of the
\* host stay together as the inductive invariant says.
THEOREM Invariance == Spec => []IInv
<1>1. Init => IInv
  BY InitIInv
<1>2. IInv /\ [Next]_vars => IInv'
  BY NextIInv
<1> QED
  BY <1>1, <1>2, PTL DEF Spec

\* Every variable keeps its type, and no transaction leaves a row that the
\* integrity checks of the next one (_validate_current_row) reject.
THEOREM RowStaysValid == Spec => []TypeOK
<1>1. IInv => TypeOK
  BY DEF IInv
<1> QED
  BY <1>1, Invariance, PTL

\* While the controls stay, the replay check of the prompt hook accepts the
\* binding its turn just committed, and the Stop hook of the running turn is
\* granted its acknowledgement.
THEOREM ClaimsUsable == Spec => []ClaimIsUsable
<1>1. ASSUME IInv PROVE CommittedIsRendered
  <2> SUFFICES ASSUME NEW t \in Turns, At(t, "read"), Awaited(t), Enabled,
                      hook[t].recipe.epoch = CurrentEpoch
               PROVE  Replayable(hook[t].recipe, t)
    BY DEF CommittedIsRendered
  <2>1. ClaimHolds(t, hook[t].recipe)
    BY <1>1, HookNow, HostIs DEF AwaitedFits, At
  <2> QED
    BY <1>1, <2>1, FieldTypes, Renders
<1>2. ASSUME IInv PROVE StopIsAcknowledged
  BY <1>2 DEF IInv, BoundHeld, StopIsAcknowledged, CanAcknowledge
<1> QED
  BY <1>1, <1>2, Invariance, PTL DEF ClaimIsUsable

\* A prompt that planned its delivery a second time is not refused again
\* because an earlier turn closed with its delivery unacknowledged.
THEOREM ClaimsReleased == Spec => []ClosedClaimsAreReleased
<1>1. ASSUME IInv PROVE ClosedClaimsAreReleased
  <2> SUFFICES ASSUME failures \cap {"ceiling", "retention"} = {}, NEW t \in Turns,
                      At(t, "recommit"), Awaited(t), turns[t].status = "in_progress",
                      Enabled, hook[t].recipe.epoch = CurrentEpoch
               PROVE  CanClaim(hook[t].recipe, t)
    BY DEF ClosedClaimsAreReleased
  <2>1. PICK b : b = hook[t].recipe
    OBVIOUS
  <2>2. host.turn = t /\ b = PlannedFor(b.epoch) /\ b.epoch \in Epoch
    BY <1>1, <2>1, HookNow, HostIs, FieldTypes, BindingType DEF AwaitedFits, At, PlansHold
  <2>3. b.mode = IF Reusable(b.epoch) /\ Current(b.epoch) THEN PlannedDelivery ELSE "injected"
    BY <1>1, <2>2, PlannedIs
  <2>4. ASSUME row.delivery = "pending", row.trace # t
        PROVE  ClaimCanMove(row.trace, t)
    <3>1. row.trace \in Turns
      BY <1>1, <2>4, Types, RowType DEF RowIsValid
    <3>2. turns[row.trace].status \in Recoverable \cup {"ready"}
      BY <1>1, <2>4 DEF IInv, RowHolds, PendingClaimed
    <3>3. /\ turns[row.trace].status # "none" /\ turns[row.trace].status \in Recoverable
      BY <1>1, <2>2, <2>4, <3>1, <3>2 DEF IInv, TurnsHold, Recoverable, Open
    <3>4. row.trace <= t /\ \A u \in Turns : turns[u].status # "none" => u <= t
      BY <1>1, <2>2, <3>1, <3>3 DEF IInv, TurnsHold
    <3>5. row.trace < t
      <4>1. row.trace \in Nat /\ t \in Nat
        BY <3>1, NumbersAre
      <4> QED
        BY <2>4, <3>4, <4>1
    <3> QED
      BY <3>3, <3>4, <3>5 DEF ClaimCanMove
  <2> QED
    BY <2>1, <2>3, <2>4 DEF CanClaim
<1> QED
  BY <1>1, Invariance, PTL

\* As long as every recorded claim is printed, a prompt answered by a
\* reference to the kernel finds the kernel in the context.
THEOREM ReferencesTrue == Spec => ReferenceNeedsKernel
<1>1. ASSUME IInv
      PROVE  Printing => \A t \in Turns : AnswersByReference(t) => context
  <2> SUFFICES ASSUME Printing, NEW t \in Turns, AnswersByReference(t)
               PROVE  context
    OBVIOUS
  <2>1. AwaitedFits(t, hook[t])
    BY <1>1, HookNow, HostIs DEF AnswersByReference
  <2> QED
    BY <2>1 DEF AwaitedFits, AnswersByReference
<1>2. IInv /\ [Next]_vars =>
         [failures \cap Unprinted = {} =>
             \A t \in Turns : AnswersByReference(t) => context]_vars
  BY <1>1 DEF Printing
<1> QED
  BY <1>2, Invariance, PTL DEF Spec, ReferenceNeedsKernel
=============================================================================
