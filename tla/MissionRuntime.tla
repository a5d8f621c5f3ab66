--------------------------- MODULE MissionRuntime ---------------------------
(***************************************************************************)
(* The Mission Runtime: RuntimeCore (mission_runtime_core.cpp) behind its  *)
(* event ingress and emergency fence, with the ports it drives.            *)
(*                                                                         *)
(* The worker runs one handler of the core at a time, so a handler is one  *)
(* action.  Around it other threads raise the emergency fence at any       *)
(* moment, also in the middle of a handler; the relative-motion Adapter    *)
(* runs, tears down and reports children; the Gate, seen through the       *)
(* authority watermark, changes, fails and is replaced.                    *)
(*                                                                         *)
(* A handler is built from the calls it makes.  Each call maps a world, a  *)
(* record of all the state it may touch, to the set of worlds it can leave *)
(* behind.                                                                 *)
(***************************************************************************)
EXTENDS Integers, FiniteSets

CONSTANTS
  MaxGate,       \* how many Gate processes there are, one after the other
  MaxSeq,        \* the largest control_seq of a Gate
  Shown,         \* the kinds of snapshots that the Gate shows
  MaxEpoch,      \* the largest admission epoch, 2^64 - 1 in the code
  MaxMission,    \* how many Missions are admitted
  MaxSteps,      \* max_steps
  StopId,        \* request identifiers of STOP
  StopSlots,     \* stop_cache_size
  QueueSlots,    \* Gate samples the event queue takes before it overflows
  RegistrySlots  \* capacity of the completion registry

ASSUME RuntimeAssumption ==
  /\ MaxSeq \in Nat
  /\ {MaxGate, MaxEpoch, MaxMission, MaxSteps, StopSlots, QueueSlots, RegistrySlots}
       \subseteq Nat \ {0}
  /\ IsFiniteSet(StopId)

VARIABLES
  core,      \* RuntimeCore
  fence,     \* RuntimeEmergencyFence
  port,      \* the relative-motion Adapter
  registry,  \* NodeCompletionRegistry: delivery owners and records
  auth,      \* snapshot_watermark_ of the authority client
  samples,   \* Gate samples in the event queue
  outcome,   \* what became of each Mission
  answer     \* what the last step told the client of a STOP, if anything

rvars == <<core, fence, port, registry, auth, samples, outcome, answer>>

None == [mission |-> 0]
NoGate == 0

Mission == 1..MaxMission
Epoch == 1..MaxEpoch

\* MotionToken.  The generation of a Mission goes with its id, the generation
\* of a step with its index.
Token == [mission : Mission, epoch : Epoch, step : 1..MaxSteps]

\* The Mission that owns the slot, at the step whose child was started.
Active == [mission : Mission, epoch : Epoch, step : 1..MaxSteps, of : 1..MaxSteps]
TokenOf(a) == [mission |-> a.mission, epoch |-> a.epoch, step |-> a.step]

(***************************************************************************)
(* A Gate snapshot, with what the core tells apart: the endpoint is gone,  *)
(* the Gate is faulted, Inhibited with its zero selected but not published *)
(* (unproven), Inhibited with a proven zero (idle), Prepared with a proven *)
(* or an unproven zero (prepared, settling), or Armed.                     *)
(***************************************************************************)
Kind == {"gone", "faulted", "unproven", "idle", "settling", "prepared", "armed"}
ASSUME ShownAssumption == Shown \subseteq Kind

Snapshot == [gate : 0..MaxGate, seq : 0..MaxSeq, kind : Kind]
NoSnapshot == [gate |-> NoGate, seq |-> 0, kind |-> "gone"]
NoLoss == <<NoGate, 0>>

ZeroProven(s) == s.kind \in {"idle", "prepared"}
GateHealthy(s) == s.kind = "armed" \/ ZeroProven(s)
StartupReady(s) == s.kind = "idle"
CanReassert(s) == s.kind \in {"idle", "unproven"}
SameGate(s, t) == s.gate = t.gate /\ s.gate # NoGate
OtherGate(s, t) == s.gate # t.gate /\ NoGate \notin {s.gate, t.gate}

Availability == {"unavailable", "available", "busy", "faulted"}
\* A Result is a success or one of the others, whose codes are not told apart.
Code == {"succeeded", "other"}
ChildCode == {"succeeded", "failed", "safety"}

\* bound is gate_bound_, handled gate_fault_handled_, lost the identity and
\* sequence of gate_fault_snapshot_, pending gate_replacement_pending_, healthy
\* last_relative_healthy_, stops the identifiers in stop_cache_.
Core == [availability : Availability, epoch : Epoch,
         active : Active \cup {None}, next : 1..(MaxMission + 1),
         gate : Snapshot, bound : BOOLEAN, handled : BOOLEAN,
         lost : (0..MaxGate) \X (0..MaxSeq), pending : BOOLEAN,
         healthy : BOOLEAN, timedOut : BOOLEAN,
         stops : SUBSET StopId]

Fence == [epoch : Epoch, blocked : BOOLEAN, pending : BOOLEAN]

\* active is the token of the child that runs, started says that the startup
\* is over, safe is teardown_complete_ with teardown_safe_ and zero_proven_,
\* sticky is safety_faulted(), rearm is gate_rearm_pending_, fresh says that
\* the dependencies are fresh.
Port == [active : Token \cup {None}, started : BOOLEAN, safe : BOOLEAN,
         sticky : BOOLEAN, rearm : BOOLEAN, fresh : BOOLEAN]

\* What the registry has for a token: an owner that waits, one whose child an
\* emergency stop silenced, or a record.
Entry == {"open", "silent"} \cup ChildCode

\* The world a handler runs in; safe carries TerminalOutcome to STOP.
Now == [core |-> core, fence |-> fence, port |-> port, registry |-> registry,
        auth |-> auth, samples |-> samples, outcome |-> outcome, safe |-> TRUE]

Becomes(w) ==
  /\ core' = w.core /\ fence' = w.fence /\ port' = w.port
  /\ registry' = w.registry /\ auth' = w.auth /\ samples' = w.samples
  /\ outcome' = w.outcome

NoAnswer == answer' = "none"

-----------------------------------------------------------------------------
(***************************************************************************)
(* The emergency fence.                                                    *)
(***************************************************************************)
Raised(f) ==
  IF f.blocked THEN f
  ELSE [epoch |-> IF f.epoch = MaxEpoch THEN f.epoch ELSE f.epoch + 1,
        blocked |-> TRUE, pending |-> TRUE]

Allows(f, e) == ~f.blocked /\ f.epoch = e

\* advance_epoch of the fence, as commit_next_epoch asks for it.
CanAdvance(f, e) == ~f.blocked /\ ~f.pending /\ f.epoch = e /\ e # MaxEpoch

\* Another thread may raise the fence before the next look at it.
Unsettled(w) == {w, [w EXCEPT !.fence = Raised(@)]}

\* A sample enters the event queue; a full queue raises the fence.
Sampled(w, s) ==
  IF w.fence.blocked THEN w
  ELSE IF Cardinality(w.samples \cup {s}) > QueueSlots
       THEN [w EXCEPT !.fence = Raised(@)]
       ELSE [w EXCEPT !.samples = @ \cup {s}]

\* The watermark moves and tells the node.
Watermark(w, s) ==
  IF w.auth = s THEN w ELSE Sampled([w EXCEPT !.auth = s], s)

-----------------------------------------------------------------------------
(***************************************************************************)
(* The relative-motion Adapter.                                            *)
(***************************************************************************)
Healthy(p) == p.started /\ ~p.sticky /\ (p.active # None \/ p.fresh)

\* The child is torn down: to a proven zero and a standstill, or not; a
\* failure latches the admission fault and may leave a rearm candidate.
TornSafely(p) == [p EXCEPT !.active = None, !.safe = TRUE]
TornBadly(p) ==
  UNION {{[p EXCEPT !.active = None, !.safe = s, !.sticky = TRUE, !.rearm = @ \/ r] :
            s \in BOOLEAN} : r \in BOOLEAN}

\* registry.accept; a token without an entry is turned down.
Recorded(g, t, code) ==
  IF t \in DOMAIN g THEN [g EXCEPT ![t] = code] ELSE g

\* cancel, with its wait for the teardown.  A child whose teardown had begun
\* on its own still reports; a missed deadline leaves the child running.
Cancels(w, t) ==
  LET p == w.port
      torn == {TornSafely(p)} \cup TornBadly(p)
      over == [w EXCEPT !.safe = FALSE, !.port.safe = FALSE]
      late == {w.registry} \cup {Recorded(w.registry, t, c) : c \in ChildCode}
  IN  CASE p.active = None /\ p.safe -> {[w EXCEPT !.safe = TRUE]}
        [] p.active = None /\ ~p.safe ->
             {[w EXCEPT !.safe = q.safe, !.port = q] : q \in torn} \cup {over}
        [] p.active \notin {None, t} -> {[w EXCEPT !.safe = FALSE]}
        [] p.active = t /\ t # None ->
             {over} \cup
             UNION {{[w EXCEPT !.safe = q.safe, !.port = q, !.registry = g] : g \in late} :
                      q \in torn}

\* Mutant of PortStarts: a refusal is dropped.
PortStartsMute(w, t) ==
  IF w.port.sticky \/ ~Allows(w.fence, t.epoch) \/ w.port.active # None THEN {w}
  ELSE {[w EXCEPT !.port.active = t, !.port.safe = FALSE]}

\* start: the child runs, or its refusal is reported like a result.  With the
\* child gone it is still refused while the port is not safe, or while the
\* transaction that tore the last one down has not gone idle.
PortStarts(w, t) ==
  LET p == w.port
      refused(code) == [w EXCEPT !.registry = Recorded(@, t, code)]
  IN  IF p.sticky \/ ~Allows(w.fence, t.epoch) THEN {refused("safety")}
      ELSE IF p.active # None THEN {refused("failed")}
      ELSE {[w EXCEPT !.port.active = t, !.port.safe = FALSE], refused("failed")}

-----------------------------------------------------------------------------
(***************************************************************************)
(* The calls the core makes of itself.                                     *)
(***************************************************************************)
Advanced(w) == CanAdvance(w.fence, w.core.epoch)

\* Mutant of CommitNextEpoch: the fence is not told.
CommitNextEpochAlone(w) ==
  IF Advanced(w) THEN [w EXCEPT !.core.epoch = @ + 1]
  ELSE [w EXCEPT !.core.availability = "faulted"]

\* commit_next_epoch: the core and the fence move together or not at all.
CommitNextEpoch(w) ==
  IF Advanced(w)
  THEN [w EXCEPT !.core.epoch = @ + 1, !.fence.epoch = @ + 1]
  ELSE [w EXCEPT !.core.availability = "faulted"]

\* What an idle core advertises for snapshot s and port p.
AvailabilityFor(s, p) ==
  CASE s.kind = "gone" -> "unavailable"
    [] s.kind \in {"faulted", "unproven", "settling"} -> "faulted"
    [] OTHER -> IF Healthy(p) THEN "available" ELSE "unavailable"

Advertised(w, s) ==
  CASE w.core.active # None -> [w EXCEPT !.core.availability = "busy"]
    [] w.core.active = None /\ w.port.sticky ->
         [w EXCEPT !.core.availability = "faulted"]
    [] OTHER -> [w EXCEPT !.core.gate = s,
                          !.core.availability = AvailabilityFor(s, w.port)]

\* set_availability_from_dependencies; a fault is kept.
Settled(w) ==
  IF w.core.availability = "faulted" THEN w ELSE Advertised(w, w.auth)

Faulted(w) == [w EXCEPT !.core.availability = "faulted"]

\* Mutant of Finished: the slot is not given back.
FinishedAndHeld(w, code) ==
  Settled([w EXCEPT !.outcome[w.core.active.mission] = code])

\* finish_active.
Finished(w, code) ==
  Settled([w EXCEPT !.outcome[w.core.active.mission] = code,
                    !.core.active = None])

\* select_terminal_and_stop: what was selected stands only if the teardown is
\* acknowledged and the zero proven, and the epoch moves if it has to.
Terminal(w, t, code, rotate) ==
  LET v == IF rotate THEN CommitNextEpoch(w) ELSE w
      stuck == rotate /\ ~Advanced(w)
  IN  {LET proven == u.safe
           x == IF proven THEN u ELSE Faulted(u)
       IN  [Finished(x, IF proven /\ ~stuck THEN code ELSE "other")
              EXCEPT !.safe = proven /\ ~stuck] : u \in Cancels(v, t)}

TerminalOfChild(w, code, rotate) ==
  Terminal(w, TokenOf(w.core.active), code, rotate)

\* The child never started, so there is nothing of its own to cancel.
TerminalBeforeChild(w) == Terminal(w, None, "other", FALSE)

\* start_step: the fence is looked at before and after the token is made, and
\* again by the Adapter.
RegisterAndStart(w) ==
  LET t == TokenOf(w.core.active)
      owned == [x \in {t} \cup DOMAIN w.registry |-> IF x = t THEN "open" ELSE w.registry[x]]
  IN  IF Cardinality(DOMAIN w.registry) >= RegistrySlots
      THEN TerminalBeforeChild(w)
      ELSE UNION {PortStarts(v, t) : v \in Unsettled([w EXCEPT !.registry = owned])}

StartStep(w) ==
  UNION {IF Allows(v.fence, v.core.active.epoch)
         THEN RegisterAndStart(v) ELSE TerminalBeforeChild(v) : v \in Unsettled(w)}

\* save of the map store runs inside start_step.
SaveMap(w) ==
  UNION {IF Allows(v.fence, v.core.active.epoch)
         THEN UNION {Terminal(IF c = "safety" THEN Faulted(v) ELSE v,
                              None, IF c = "succeeded" THEN c ELSE "other", FALSE) :
                       c \in ChildCode}
         ELSE TerminalBeforeChild(v) : v \in Unsettled(w)}

\* inhibit_and_prove_zero: an INHIBIT of the authority client.
InhibitAndProve(w) ==
  LET s == w.auth
      down == [s EXCEPT !.seq = IF @ < MaxSeq THEN @ + 1 ELSE @, !.kind = "idle"]
  IN  {[w EXCEPT !.core.gate = w.auth, !.safe = FALSE]}
      \cup (IF s.gate = NoGate THEN {}
            ELSE {[Watermark(w, down) EXCEPT !.core.gate = down, !.safe = TRUE]})

\* try_rearm_pending_gate_replacement: the Adapter accepts the replacement, if
\* its own candidate stands and the Gate answers its INHIBIT.
MayRearm(w) ==
  /\ w.core.pending /\ w.core.active = None /\ CanReassert(w.core.gate)
PortMayRearm(w) ==
  /\ w.port.rearm /\ w.port.started /\ w.port.active = None
  /\ SameGate(w.auth, w.core.gate) /\ w.auth.seq >= w.core.gate.seq
  /\ w.auth.kind = "idle"

\* The worlds after a rearm that the Adapter accepted; safe says whether the
\* epoch moved too, which is what the caller is told.
PortRearmed(w) ==
  LET p == [w.port EXCEPT !.sticky = FALSE, !.rearm = FALSE, !.safe = TRUE]
  IN  {[Watermark([w EXCEPT !.port = p], [w.auth EXCEPT !.seq = n]) EXCEPT !.safe = TRUE] :
         n \in {w.auth.seq, w.auth.seq + 1} \cap (0..MaxSeq)}

Cleared(w) ==
  [w EXCEPT !.core.handled = FALSE, !.core.lost = NoLoss,
            !.core.pending = FALSE, !.core.bound = TRUE]

\* Mutant of TryRearm: the epoch is kept.
TryRearmInPlace(w) ==
  {[w EXCEPT !.safe = FALSE]}
  \cup (IF MayRearm(w) /\ PortMayRearm(w)
        THEN {Advertised(Cleared(u), u.auth) : u \in PortRearmed(w)}
        ELSE {})

TryRearm(w) ==
  {[w EXCEPT !.safe = FALSE]}
  \cup (IF MayRearm(w) /\ PortMayRearm(w)
        THEN {LET v == CommitNextEpoch(u)
              IN  IF Advanced(u) THEN Advertised(Cleared(v), u.auth)
                  ELSE [v EXCEPT !.safe = FALSE] : u \in PortRearmed(w)}
        ELSE {})

-----------------------------------------------------------------------------
(***************************************************************************)
(* Handlers of the core, each run by the event worker.  Only STOP and      *)
(* CANCEL still run once the fence is up; a child's result reaches the     *)
(* core over the terminal handoff lane even then.                          *)
(***************************************************************************)
Dispatched == ~fence.blocked

\* A Mission of n steps, or one that saves a map, gets past the checks that
\* reject without a trace; what they change is in AdmitRefused.
AdmissionOpen(w, save) ==
  /\ Allows(w.fence, w.core.epoch)
  /\ w.core.active = None
  /\ w.core.availability # "faulted"
  /\ Healthy(w.port)
  /\ GateHealthy(w.auth)
  /\ save => w.auth.kind = "idle"

\* The core binds the Gate it was admitted against.
Bound(w) ==
  [w EXCEPT !.core.gate = w.auth, !.core.bound = TRUE,
            !.core.handled = FALSE, !.core.lost = NoLoss]

Owned(w, n) ==
  [w EXCEPT !.core.active = [mission |-> w.core.next, epoch |-> w.core.epoch,
                             step |-> 1, of |-> n],
            !.core.availability = "busy",
            !.outcome[w.core.next] = "running"]

\* The permit is looked at before the Mission gets its number and after it.
Admitted(w, n, save) ==
  UNION {IF ~Allows(v.fence, v.core.epoch) THEN {v}
         ELSE UNION {LET x == [u EXCEPT !.core.next = @ + 1] IN
                     IF Allows(u.fence, u.core.epoch)
                     THEN IF save THEN SaveMap([Owned(u, n) EXCEPT !.core.next = @ + 1])
                          ELSE StartStep([Owned(u, n) EXCEPT !.core.next = @ + 1])
                     ELSE {Faulted(y) : y \in InhibitAndProve(x)} :
                     u \in Unsettled(v)} :
         v \in Unsettled(Bound(w))}

Admit(n, save) ==
  /\ Dispatched
  /\ core.next <= MaxMission
  /\ AdmissionOpen(Now, save)
  /\ \E w \in Admitted(Now, n, save) : Becomes(w)
  /\ NoAnswer

\* The rejections that change the state: the fence is up, the Adapter is
\* safety-faulted, the Gate is not fit for a motion or for a map.
AdmitRefused ==
  /\ Dispatched
  /\ \E w \in Unsettled(Now) :
       \/ /\ ~Allows(w.fence, w.core.epoch)
          /\ Becomes(Faulted(w))
       \/ /\ Allows(w.fence, w.core.epoch)
          /\ core.active = None
          /\ port.sticky
          /\ Becomes(Faulted(w))
       \/ /\ Allows(w.fence, w.core.epoch)
          /\ core.active = None /\ core.availability # "faulted" /\ Healthy(port)
          /\ LET v == [w EXCEPT !.core.gate = auth] IN
             \/ auth.kind \in {"unproven", "settling"} /\ Becomes(Faulted(v))
             \/ auth.kind # "idle" /\ Becomes(v)
  /\ NoAnswer

Cancel ==
  /\ core.active # None
  /\ \E w \in TerminalOfChild(Now, "other", FALSE) : Becomes(w)
  /\ NoAnswer

-----------------------------------------------------------------------------
(***************************************************************************)
(* STOP.  A request is malformed, or it has an identifier and a payload,   *)
(* which is the one the identifier came with before or not.                *)
(***************************************************************************)
StopClass(id, same) ==
  CASE id \in core.stops -> IF same THEN "duplicate" ELSE "refused"
    [] id \notin core.stops /\ Cardinality(core.stops) >= StopSlots -> "refused"
    [] OTHER -> "fresh"

\* execute_terminal: the terminal of the active Mission, or the same barrier
\* without one.
StopBarrier(w, rotate) ==
  IF w.core.active # None THEN TerminalOfChild(w, "other", rotate)
  ELSE {[u EXCEPT !.safe = @ /\ (rotate => Advanced(w))] :
          u \in Cancels(IF rotate THEN CommitNextEpoch(w) ELSE w, None)}

\* Malformed, a collision, or no slot left: the barrier, and a fault.
StopRefused ==
  \E w \in StopBarrier(Faulted(Now), FALSE) : Becomes(w) /\ answer' = "safety"

\* Mutant of StopDuplicate: a duplicate is answered without its barrier.
StopDuplicateRemembered ==
  /\ answer' = "duplicate"
  /\ UNCHANGED <<core, fence, port, registry, auth, samples, outcome>>

StopDuplicate ==
  \E w \in StopBarrier(Now, FALSE) :
    Becomes(w) /\ answer' = IF w.safe THEN "duplicate" ELSE "safety"

StopFresh(id) ==
  \E w \in StopBarrier([Now EXCEPT !.core.stops = @ \cup {id}], TRUE) :
    IF w.safe THEN Becomes(Settled(w)) /\ answer' = "applied"
    ELSE Becomes(Faulted(w)) /\ answer' = "safety"

Stop(id, same) ==
  \/ StopClass(id, same) = "refused" /\ StopRefused
  \/ StopClass(id, same) = "duplicate" /\ StopDuplicate
  \/ StopClass(id, same) = "fresh" /\ StopFresh(id)

-----------------------------------------------------------------------------
(***************************************************************************)
(* observe_gate, for a sample from the queue.                              *)
(***************************************************************************)
Same(c, s) == c.bound /\ SameGate(c.gate, s)

\* A sample that says nothing new of the Gate the core is bound to.
Stale(c, s) ==
  /\ Same(c, s)
  /\ \/ s.seq < c.gate.seq
     \/ /\ s.seq = c.gate.seq
        /\ ~(~c.handled /\ GateHealthy(c.gate) /\ ~GateHealthy(s))
        /\ ~(c.pending /\ CanReassert(s))

Seen(w, s) == [w EXCEPT !.core.gate = s]

\* Before the core is bound, an old lease of a Gate is inhibited first.
ObserveUnbound(w, s) ==
  LET tried == IF s.kind \in {"gone", "faulted", "idle"}
               THEN {[Seen(w, s) EXCEPT !.safe = TRUE]}
               ELSE {[v EXCEPT !.core.gate = v.auth] : v \in InhibitAndProve(Seen(w, s))}
      settled(v) ==
        LET ready == StartupReady(v.core.gate)
            x == [v EXCEPT !.core.bound = ready, !.core.handled = ~ready]
        IN  IF ~ready /\ s.kind # "gone" THEN Faulted(x) ELSE Settled(x)
  IN  {IF v.safe THEN settled(v)
       ELSE Faulted([v EXCEPT !.core.bound = FALSE, !.core.handled = TRUE]) : v \in tried}

\* A fault that is latched is left by a rearm of the replacement, or by a
\* newer healthy sample of the same Gate.
ObserveLatched(w, s, replaced) ==
  LET v == [Seen(w, s) EXCEPT !.core.pending = @ \/ replaced] IN
  IF v.core.pending THEN TryRearm(v)
  ELSE IF GateHealthy(s) /\ s.gate = w.core.lost[1] /\ s.seq > w.core.lost[2]
       THEN {Settled([Cleared(v) EXCEPT !.core.pending = FALSE])}
       ELSE {v}

\* Mutant of ObserveLoss: without a Mission the epoch stays.
ObserveLossOfMission(w, s, replaced) ==
  LET v == [Seen(w, s) EXCEPT !.core.pending = replaced, !.core.handled = TRUE,
                              !.core.lost = <<s.gate, s.seq>>]
  IN  IF v.core.active # None THEN TerminalOfChild(CommitNextEpoch(v), "other", FALSE)
      ELSE {[v EXCEPT !.core.availability = "unavailable"]}

\* The Gate failed or was replaced: the epoch moves and a Mission ends.
ObserveLoss(w, s, replaced) ==
  LET v == [Seen(w, s) EXCEPT !.core.pending = replaced]
      after == IF ZeroProven(s) THEN "unavailable" ELSE "faulted"
      lose(u) ==
        LET x == CommitNextEpoch([u EXCEPT !.core.handled = TRUE, !.core.lost = <<s.gate, s.seq>>])
        IN  {[y EXCEPT !.core.availability = after] :
               y \in IF x.core.active # None THEN TerminalOfChild(x, "other", FALSE)
                     ELSE {x}}
  IN  UNION {IF u.safe THEN {u} ELSE lose(u) : u \in TryRearm(v)}

ObserveGate(w, s) ==
  LET c == w.core
      replaced == c.bound /\ OtherGate(c.gate, s)
  IN  CASE Stale(c, s) -> {w}
        [] ~c.bound -> ObserveUnbound(w, s)
        [] ~Stale(c, s) /\ c.bound /\ c.handled -> ObserveLatched(w, s, replaced)
        [] ~Stale(c, s) /\ c.bound /\ ~c.handled
             /\ (replaced \/ (GateHealthy(c.gate) /\ ~GateHealthy(s))) ->
             ObserveLoss(w, s, replaced)
        [] OTHER -> {Settled(Seen(w, s))}

GateSampled ==
  /\ Dispatched
  /\ \E s \in samples : \E v \in Unsettled([Now EXCEPT !.samples = @ \ {s}]) :
       \E w \in ObserveGate(v, s) : Becomes(w)
  /\ NoAnswer

-----------------------------------------------------------------------------
(***************************************************************************)
(* The timer.                                                              *)
(***************************************************************************)
\* observe_dependencies: losing the Adapter's health moves the epoch.
Dropped(w) == w.core.healthy /\ ~Healthy(w.port)

ObserveDependencies(w) ==
  LET h == Healthy(w.port)
      lost(v) == IF w.core.active # None THEN TerminalOfChild(CommitNextEpoch(v), "other", FALSE)
                 ELSE {CommitNextEpoch([v EXCEPT !.core.availability =
                         IF v.port.sticky THEN "faulted" ELSE "unavailable"])}
      rest(v) == LET x == [v EXCEPT !.core.healthy = h]
                 IN  IF x.core.active = None THEN Settled(x) ELSE x
  IN  {rest(v) : v \in IF Dropped(w) THEN lost(w) ELSE {w}}

\* The Gate was not discovered in time.
DiscoveryTimeout(w) ==
  IF ~w.core.bound /\ w.core.gate.kind = "gone" /\ ~w.core.timedOut
  THEN {w, [w EXCEPT !.core.timedOut = TRUE, !.core.availability = "unavailable"]}
  ELSE {w}

\* Mutant of Ticked: the Adapter is trusted with the deadline.
TickedWithoutDeadline(w, late) ==
  UNION {UNION {DiscoveryTimeout(v) : v \in IF u.safe THEN {u} ELSE ObserveDependencies(u)} :
           u \in TryRearm(w)}

\* late says that the deadline of the Mission has passed.
Ticked(w, late) ==
  LET rearmed == TryRearm(w)
      observed == UNION {IF v.safe THEN {v} ELSE ObserveDependencies(v) : v \in rearmed}
      discovered == UNION {DiscoveryTimeout(v) : v \in observed}
  IN  UNION {IF late /\ v.core.active # None
             THEN TerminalOfChild(v, "other", FALSE) ELSE {v} : v \in discovered}

Tick(late) ==
  /\ Dispatched
  /\ \E v \in Unsettled(Now) : \E w \in Ticked(v, late) : Becomes(w)
  /\ NoAnswer

-----------------------------------------------------------------------------
(***************************************************************************)
(* Results of children, and the fence callback.                            *)
(***************************************************************************)
\* Mutant of OnChildResult: the step is counted before its result.
OnChildResultEarly(w, t, code) ==
  LET a == w.core.active IN
  IF a = None \/ TokenOf(a) # t THEN {w}
  ELSE IF code # "succeeded" THEN TerminalOfChild(w, "other", FALSE)
  ELSE IF a.step + 1 >= a.of THEN TerminalOfChild(w, "succeeded", FALSE)
  ELSE StartStep([w EXCEPT !.core.active.step = @ + 1])

\* on_child_result, for the token that was registered.
OnChildResult(w, t, code) ==
  LET a == w.core.active
      next == [w EXCEPT !.core.active.step = @ + 1]
  IN  IF a = None THEN {w}
      ELSE IF TokenOf(a) # t THEN {w}
      ELSE IF code # "succeeded"
           THEN TerminalOfChild(IF code = "safety" THEN Faulted(w) ELSE w, "other", FALSE)
      ELSE IF a.step = a.of THEN TerminalOfChild(w, "succeeded", FALSE)
      ELSE StartStep(next)

ChildResult ==
  /\ \E t \in {x \in DOMAIN registry : registry[x] \in ChildCode} :
       LET g == [x \in DOMAIN registry \ {t} |-> registry[x]] IN
       \E w \in OnChildResult([Now EXCEPT !.registry = g], t, registry[t]) : Becomes(w)
  /\ NoAnswer

\* Mutant of FenceCallback: only a Mission is failed.
FenceCallbackOfMission ==
  /\ fence.pending
  /\ LET w == [Now EXCEPT !.fence.pending = FALSE, !.core.epoch = fence.epoch]
     IN  \E v \in IF w.core.active # None THEN TerminalOfChild(w, "other", FALSE)
                  ELSE {w} : Becomes(v)
  /\ NoAnswer

\* fail_closed_at_epoch, once for the fence that is pending.
FenceCallback ==
  /\ fence.pending
  /\ LET w == [Now EXCEPT !.fence.pending = FALSE,
                          !.core.epoch = IF fence.epoch > @ THEN fence.epoch ELSE @]
     IN  \E v \in IF w.core.active # None THEN TerminalOfChild(w, "other", FALSE)
                  ELSE {w} : Becomes(Faulted(v))
  /\ NoAnswer

-----------------------------------------------------------------------------
(***************************************************************************)
(* What the worker does not do.                                            *)
(***************************************************************************)
\* Any thread: a full queue, an exception, a rejected completion, shutdown.
RaiseFence ==
  /\ ~fence.blocked
  /\ fence' = Raised(fence)
  /\ UNCHANGED <<core, port, registry, auth, samples, outcome>>
  /\ NoAnswer

\* The emergency stop of the Adapter: when the fence goes up, and when a STOP
\* was refused or not answered in time.  It reports nothing.
EmergencyStop ==
  /\ port.active # None
  /\ port' \in {TornSafely(port)} \cup TornBadly(port)
  /\ registry' = Recorded(registry, port.active, "silent")
  /\ UNCHANGED <<core, fence, auth, samples, outcome>>
  /\ NoAnswer

\* The child of a Mission ends by itself: a success or a plain failure needs a
\* safe teardown.  One whose Mission is over may be torn down in silence.
ChildEnds ==
  /\ port.active # None
  /\ \/ \E code \in {"succeeded", "failed"} :
          /\ port' = TornSafely(port)
          /\ registry' = Recorded(registry, port.active, code)
     \/ \E q \in TornBadly(port) :
          /\ port' = q
          /\ registry' = Recorded(registry, port.active, "safety")
     \/ /\ core.active = None
        /\ port' \in {TornSafely(port)} \cup TornBadly(port)
        /\ UNCHANGED registry
  /\ UNCHANGED <<core, fence, auth, samples, outcome>>
  /\ NoAnswer

\* An idle teardown that missed its deadline ends after all.
IdleTeardownEnds ==
  /\ port.active = None /\ port.started /\ ~port.safe
  /\ port' \in {TornSafely(port)} \cup TornBadly(port)
  /\ UNCHANGED <<core, fence, registry, auth, samples, outcome>>
  /\ NoAnswer

\* The startup reconciliation, which the first sight of an idle Gate starts; a
\* STOP meanwhile leaves its teardown to prove the zero.
Startup ==
  /\ ~port.started /\ ~port.sticky /\ auth.kind = "idle"
  /\ \E safe \in BOOLEAN :
       port' \in {[port EXCEPT !.started = TRUE, !.safe = safe],
                 [port EXCEPT !.sticky = TRUE, !.safe = safe]}
  /\ UNCHANGED <<core, fence, registry, auth, samples, outcome>>
  /\ NoAnswer

\* The odometry, the scan or the clock stop or come back.
DependenciesChange ==
  /\ port' = [port EXCEPT !.fresh = ~@]
  /\ UNCHANGED <<core, fence, registry, auth, samples, outcome>>
  /\ NoAnswer

\* The watermark takes a newer snapshot of the same Gate, a snapshot of the
\* next Gate, or for the same tuple a change of its endpoint or the loss of
\* its proof.
SameTuple ==
  CASE auth.kind = "gone" -> Kind \ {"gone", "idle", "prepared"}
    [] auth.kind = "idle" -> {"gone", "unproven"}
    [] auth.kind = "prepared" -> {"gone", "settling"}
    [] OTHER -> {"gone"}

GateMoves ==
  /\ \E k \in Shown :
       \/ /\ auth.gate # NoGate /\ auth.seq < MaxSeq
          /\ Becomes(Watermark(Now, [auth EXCEPT !.seq = @ + 1, !.kind = k]))
       \/ /\ auth.gate # NoGate /\ k \in SameTuple
          /\ Becomes(Watermark(Now, [auth EXCEPT !.kind = k]))
       \/ /\ auth.gate < MaxGate
          /\ \E n \in 0..MaxSeq :
               Becomes(Watermark(Now, [gate |-> auth.gate + 1, seq |-> n, kind |-> k]))
  /\ NoAnswer

-----------------------------------------------------------------------------
Init ==
  /\ core = [availability |-> "unavailable", epoch |-> 1, active |-> None, next |-> 1,
             gate |-> NoSnapshot, bound |-> FALSE, handled |-> FALSE,
             lost |-> NoLoss, pending |-> FALSE, healthy |-> FALSE,
             timedOut |-> FALSE, stops |-> {}]
  /\ fence = [epoch |-> 1, blocked |-> FALSE, pending |-> FALSE]
  /\ port = [active |-> None, started |-> FALSE, safe |-> FALSE,
             sticky |-> FALSE, rearm |-> FALSE, fresh |-> FALSE]
  /\ registry = <<>>
  /\ auth = NoSnapshot
  /\ samples = {NoSnapshot}
  /\ outcome = [m \in Mission |-> "none"]
  /\ answer = "none"

Handler ==
  \/ \E n \in 1..MaxSteps : Admit(n, FALSE)
  \/ Admit(1, TRUE)
  \/ AdmitRefused
  \/ Cancel
  \/ \E id \in StopId, same \in BOOLEAN : Stop(id, same)
  \/ StopRefused
  \/ GateSampled
  \/ \E late \in BOOLEAN : Tick(late)
  \/ ChildResult
  \/ FenceCallback

Environment ==
  \/ RaiseFence \/ EmergencyStop \/ ChildEnds \/ IdleTeardownEnds
  \/ Startup \/ DependenciesChange \/ GateMoves

Next == Handler \/ Environment

Spec == Init /\ [][Next]_rvars

\* The worker comes round: the timer runs until a deadline passes (a timer of
\* the node enqueues it while the fence is down), and a pending fence wakes the
\* worker up.  That a fence goes up meanwhile is nothing to rely on, so the
\* timer that counts is one that leaves it down.
FairSpec ==
  /\ Spec
  /\ WF_rvars(Tick(TRUE) /\ ~fence'.blocked)
  /\ WF_rvars(FenceCallback)

-----------------------------------------------------------------------------
(***************************************************************************)
(* Properties.                                                             *)
(***************************************************************************)
\* The types of the state.
TypeOK ==
  /\ core \in Core /\ fence \in Fence /\ port \in Port
  /\ DOMAIN registry \subseteq Token
  /\ \A t \in DOMAIN registry : registry[t] \in Entry
  /\ auth \in Snapshot /\ samples \subseteq Snapshot
  /\ outcome \in [Mission -> Code \cup {"none", "running"}]
  /\ answer \in {"none", "applied", "duplicate", "safety"}

\* The epoch that the core advertises and the epoch that the fence admits are
\* one epoch, except between a raise and its callback, when the fence is one
\* ahead: no tuple is good for the one and not for the other
\* (commit_next_epoch, raise, fail_closed_at_epoch).
FenceInStep ==
  fence.epoch # core.epoch => fence.pending /\ fence.epoch = core.epoch + 1

\* Once the callback of a raised fence has run, whatever was queued, torn down
\* or stopped meanwhile leaves no Mission and nothing but FAULTED
\* (fail_closed_at_epoch, enqueue, run).
BlockedIsTerminal ==
  fence.blocked /\ ~fence.pending =>
    core.active = None /\ core.availability = "faulted"

\* The Mission that owns the slot has a child that runs or an answer on its
\* way; only an emergency stop, which reports nothing, leaves it to its
\* deadline.  No refusal, teardown or race of the two drops the result
\* (start, relay, on_child_result).
MissionIsBacked ==
  LET t == TokenOf(core.active) IN
  core.active # None =>
    \/ port.active = t
    \/ t \in DOMAIN registry /\ registry[t] # "open"

\* A Mission without a result is the Mission that owns the slot: each gets its
\* result when it gives the slot back (finish_active, admit).
OneRunning == \A m \in Mission : outcome[m] = "running" <=> core.active.mission = m

\* STOP that reports success has ended the Mission and left no child, with a
\* proven zero, whatever else was going on; a first one has moved the epoch of
\* core and fence (stop, select_terminal_and_stop, cancel).
StopMeansStopped ==
  [][answer' \in {"applied", "duplicate"} =>
       /\ core'.active = None /\ port'.active = None /\ port'.safe
       /\ answer' = "applied" =>
            core'.epoch = core.epoch + 1 /\ fence'.epoch = core'.epoch]_rvars

\* A Mission moves to its next step, or succeeds, only by the success of the
\* child of its current step, and succeeds only at its last step with the child
\* gone and a proven zero (on_child_result, select_terminal_and_stop).
StepsAreEarned ==
  [][LET a == core.active
         t == TokenOf(a)
     IN  \/ a = None
         \/ core'.active = a
         \/ core'.active = None /\ outcome'[a.mission] = "other"
         \/ /\ t \in DOMAIN registry /\ registry[t] = "succeeded"
            /\ \/ core'.active = [a EXCEPT !.step = @ + 1]
               \/ /\ core'.active = None /\ a.step = a.of
                  /\ port'.active = None /\ port'.safe]_rvars

\* A bound Gate that fails or is replaced costs every tuple that was advertised
\* before: the epoch moves, or a fence is about to move it (observe_gate).
EpochFollowsLoss ==
  [][core.bound /\ ~core.handled /\ core'.handled =>
       \/ core'.epoch > core.epoch
       \/ fence'.pending
       \/ core.epoch = MaxEpoch]_rvars

\* The safety fault of the Adapter is cleared for a new epoch only, or with a
\* fence that is about to move it: no Goal made for the old Gate runs on the
\* new one (try_rearm_pending_gate_replacement, rearm_after_gate_replacement).
RearmCostsAnEpoch ==
  [][port.sticky /\ ~port'.sticky =>
       \/ core'.epoch > core.epoch
       \/ fence'.pending
       \/ core.epoch = MaxEpoch]_rvars

\* Every Mission that was admitted gives the slot back, and so (OneRunning) gets
\* its result, also when its child was silenced and when the fence is up (on_tick,
\* fail_closed_at_epoch).
MissionEnds == core.active # None ~> core.active = None

\* Between Missions, with no child running and no result on its way, the
\* registry has room for the child of the next one: a STOP is no pause, and a
\* new plan can get a new lease.
RoomForTheNext ==
  core.active = None /\ port.active = None
    /\ (\A t \in DOMAIN registry : registry[t] \notin ChildCode)
  => Cardinality(DOMAIN registry) < RegistrySlots

\* The Runtime is not AVAILABLE while the child of an earlier Mission still
\* waits for its teardown and its proven zero.
AvailableHasNoChild == core.availability = "available" => port.active = None

=============================================================================
