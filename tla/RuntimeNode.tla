---------------------------- MODULE RuntimeNode ----------------------------
(***************************************************************************)
(* The Mission Runtime node (mission_runtime_node.cpp): the threads around *)
(* RuntimeCore and the mutexes they share.                                 *)
(*                                                                         *)
(* Action and service callbacks submit events through the admission gate;  *)
(* one worker takes them from a queue of two lanes; the transaction thread *)
(* of the Adapter runs the side effects of a child under a lease and       *)
(* relays its record; a lane of its own takes the records that the queue   *)
(* refuses; shutdown closes the admission, waits for all of them with a    *)
(* deadline, and joins the worker.                                         *)
(*                                                                         *)
(* What RuntimeCore decides is MissionRuntime's subject.  Here the core is *)
(* the Mission that owns its slot, and every reason to end one is a choice.*)
(***************************************************************************)
EXTENDS Integers, Sequences, FiniteSets

CONSTANTS
  Goal,          \* Action goals; the Mission of a goal goes by its name
  Address,       \* where goal handles are allocated
  Nobody,        \* not a goal
  MaxStops,      \* how many STOP requests are made
  NormalSlots,   \* kNormalCapacity
  ControlSlots,  \* kControlReserve
  TicketSlots,   \* kCapacity of the Action admission tracker
  LaneSlots      \* kCapacity of the terminal handoff lane

ASSUME NodeAssumption ==
  /\ IsFiniteSet(Goal) /\ IsFiniteSet(Address) /\ Nobody \notin Goal
  /\ MaxStops \in Nat
  /\ {NormalSlots, ControlSlots, TicketSlots, LaneSlots} \subseteq Nat \ {0}

VARIABLES
  fence,     \* emergency_fence_
  queue,     \* event_queue_
  gate,      \* admission_gate_, and the emergency callback that has yet to run
  goal,      \* the goals, their handles and their admission tickets
  pending,   \* pending_goal_cancels_: addresses of handles
  goals,     \* goals_
  core,      \* the Mission that owns the slot
  router,    \* the Action result router
  registry,  \* the completion registry
  lane,      \* the terminal handoff lane
  port,      \* the relative-motion Adapter and its transaction lease
  worker,    \* the event worker
  stop,      \* the STOP service
  down       \* the shutdown barrier

vars == <<fence, queue, gate, goal, pending, goals, core, router, registry, lane,
          port, worker, stop, down>>

\* What a thread may change in one of its steps; down and stop are their own.
Now == [fence |-> fence, queue |-> queue, gate |-> gate, goal |-> goal,
        pending |-> pending, goals |-> goals, core |-> core, router |-> router,
        registry |-> registry, lane |-> lane, port |-> port]

Becomes(w) ==
  /\ fence' = w.fence /\ queue' = w.queue /\ gate' = w.gate /\ goal' = w.goal
  /\ pending' = w.pending /\ goals' = w.goals /\ core' = w.core
  /\ router' = w.router /\ registry' = w.registry /\ lane' = w.lane
  /\ port' = w.port

Ended == {"finished", "canceled", "aborted"}
GoalState == {"idle", "refused", "offered", "turned away", "accepted"} \cup Ended
Epoch == 1..(Cardinality(Goal) + MaxStops + 2)

Admit(g) == [kind |-> "admit", goal |-> g]
Cancel(g) == [kind |-> "cancel", goal |-> g]
Result(g) == [kind |-> "result", goal |-> g]
Stop == [kind |-> "stop", goal |-> Nobody]
Fault == [kind |-> "fault", goal |-> Nobody]
\* A tick or a Gate snapshot: the core looks at the clock or at the Gate.
Look == [kind |-> "look", goal |-> Nobody]

Event == {Admit(g) : g \in Goal} \cup {Cancel(g) : g \in Goal}
         \cup {Result(g) : g \in Goal} \cup {Stop, Fault, Look}

LaneOf(e) == IF e.kind \in {"admit", "look"} THEN "normal" ELSE "control"
EmergencyControl(e) == e.kind \in {"cancel", "stop"}
Slots == [normal |-> NormalSlots, control |-> ControlSlots]

-----------------------------------------------------------------------------
(***************************************************************************)
(* The fence, the queue and the ingress.                                   *)
(***************************************************************************)
Allows(f, e) == ~f.blocked /\ f.epoch = e

\* Only the first raise runs the emergency callback.  The callback needs the
\* Adapter's mutex; when the raise came from inside submit, its thread keeps the
\* mutex of the admission gate meanwhile.
Emergency(w, submits) ==
  IF w.fence.blocked THEN w
  ELSE [w EXCEPT !.fence = [epoch |-> @.epoch + 1, blocked |-> TRUE, pending |-> TRUE],
                 !.gate.emergency = IF submits THEN "in submit" ELSE "due"]

HasRoomAndOne(q, l) == ~q.closed /\ Len(q[l]) <= Slots[l]
HasRoomClosed(q, l) == Len(q[l]) < Slots[l]

HasRoom(q, l) == ~q.closed /\ Len(q[l]) < Slots[l]

\* A full normal lane leaves one fault event in the queue, the first time.
FaultRecorded(q) ==
  IF q.closed \/ q.recorded THEN q
  ELSE IF HasRoom(q, "control")
       THEN [q EXCEPT !.recorded = TRUE, !.control = Append(@, Fault)]
       ELSE [q EXCEPT !.recorded = TRUE, !.fault = TRUE]

Takes(w, e) == ~w.fence.blocked /\ HasRoom(w.queue, LaneOf(e))

Enqueued(w, e, submits) ==
  IF Takes(w, e) THEN [w EXCEPT !.queue[LaneOf(e)] = Append(@, e)]
  ELSE IF w.fence.blocked THEN w
  ELSE Emergency([w EXCEPT !.queue =
         IF LaneOf(e) = "normal" THEN FaultRecorded(@) ELSE @], submits)

SubmitsBelow(w, e) == ~w.gate.quiescing /\ ~w.fence.blocked /\ Len(w.queue[LaneOf(e)]) + 1 < Slots[LaneOf(e)]

\* submit of the admission gate.
Submits(w, e) == ~w.gate.quiescing /\ Takes(w, e)
Submitted(w, e) == IF w.gate.quiescing THEN w ELSE Enqueued(w, e, TRUE)

\* admission_allowed of the gate over that of the ingress.
Admissible(w, e) == ~w.gate.quiescing /\ Allows(w.fence, e)

-----------------------------------------------------------------------------
(***************************************************************************)
(* Mutexes.  The worker holds the core's while it dispatches, and the      *)
(* Adapter's while its start waits for the gate's.  All other critical     *)
(* sections are inside one step.                                           *)
(***************************************************************************)
Dispatching == {"claimed", "admitted", "calling", "starting"}
GateFree == gate.emergency # "in submit"
CoreFree == worker.pc \notin Dispatching
PortFree == worker.pc # "starting"

-----------------------------------------------------------------------------
(***************************************************************************)
(* Terminal results.                                                       *)
(***************************************************************************)
Answered(w, g, how) == [w EXCEPT !.goal[g].state = how, !.goal[g].results = @ + 1]

\* abort_goal goes to the handle, whatever the node keeps of the goal.
Aborted(w, g) == Answered(w, g, "aborted")

FinishGoal(w, g, how) ==
  IF g \in w.goals THEN [Answered(w, g, how) EXCEPT !.goals = @ \ {g}] ELSE w

RouterFinishLate(w, g, how) ==
  IF w.router.active = g THEN FinishGoal([w EXCEPT !.router.active = Nobody], g, how) ELSE w

RouterFinish(w, g, how) ==
  IF w.router.active = g
  THEN FinishGoal([w EXCEPT !.router.active = Nobody], g, how)
  ELSE IF w.router.pending /\ w.router.early = "none"
  THEN [w EXCEPT !.router.early = how]
  ELSE w

\* The commit of an admission: an early result is delivered at once.
RouterCommit(w, g) ==
  LET v == [w EXCEPT !.router = [pending |-> FALSE, active |-> g, early |-> "none"]]
  IN  IF w.router.early = "none" THEN v ELSE RouterFinish(v, g, w.router.early)

\* The Adapter is told to stop the child, and does so in its own time.
Inhibited(w) ==
  [w EXCEPT !.port.cancel = @ \/ w.port.child # Nobody]

\* The core ends the Mission: its child stops, the epoch moves on unless the
\* fence has moved it, the goal gets its result.
CoreEnds(w, how) ==
  IF w.core = Nobody THEN w
  ELSE RouterFinish(
         [Inhibited(w) EXCEPT !.core = Nobody,
            !.fence.epoch = IF w.fence.blocked THEN @ ELSE @ + 1],
         w.core, how)

CoreCancel(w, g) == IF w.core = g THEN CoreEnds(w, "canceled") ELSE w
CoreResult(w, g) == IF w.core = g THEN CoreEnds(w, "finished") ELSE w

-----------------------------------------------------------------------------
(***************************************************************************)
(* The completion path.  The mailbox keeps the record of a child and asks  *)
(* the worker to come for it; what the registry or the queue refuses goes  *)
(* to the terminal lane, and the fence goes up.                            *)
(***************************************************************************)
Diverted(w, g) ==
  Emergency([w EXCEPT !.registry[g] = "none",
                      !.lane = IF Len(@) < LaneSlots THEN Append(@, g) ELSE @], FALSE)

Relayed(w, g) ==
  IF w.registry[g] # "open" THEN Diverted(w, g)
  ELSE IF Takes(w, Result(g))
  THEN Enqueued([w EXCEPT !.registry[g] = "record"], Result(g), FALSE)
  ELSE Diverted(Enqueued(w, Result(g), FALSE), g)

LaneTakes ==
  /\ lane # <<>> /\ CoreFree /\ down.stage # "done"
  /\ Becomes(CoreResult([Now EXCEPT !.lane = Tail(@)], Head(lane)))
  /\ UNCHANGED <<worker, stop, down>>

-----------------------------------------------------------------------------
(***************************************************************************)
(* Callbacks of the Action server.  The mutex of ActionCallbackLifetime    *)
(* keeps them apart; after shutdown took them away they do nothing.        *)
(***************************************************************************)
CallbackFree == GateFree /\ \A g \in Goal : goal[g].state # "turned away"
Callbacks == CallbackFree /\ down.stage \notin {"drain", "close", "join", "done"}

Tickets(w) == {g \in Goal : w.goal[g].ticket # "none"}
Live(g) == goal[g].state \in {"offered", "accepted"}

Ticketed(w, S, t) ==
  [w EXCEPT !.goal = [g \in Goal |->
     IF g \in S THEN [w.goal[g] EXCEPT !.ticket = t] ELSE w.goal[g]]]

\* prune_revoked_locked: what was revoked long enough ago, which is a choice.
Pruned(w) == {Ticketed(w, S, "none") : S \in SUBSET {g \in Goal : w.goal[g].ticket = "revoked"}}

\* revoke_provisional_locked, of the tickets whose deadline is over.
Revoked(w) ==
  {Ticketed(w, S, "revoked") : S \in SUBSET {g \in Goal : w.goal[g].ticket = "provisional"}}

OnGoal(g, a) ==
  /\ Callbacks /\ goal[g].state = "idle"
  /\ \A h \in Goal : Live(h) => goal[h].at # a
  /\ \E w \in Pruned(Now) :
       Becomes([w EXCEPT !.goal[g] =
         IF Admissible(w, w.fence.epoch) /\ Cardinality(Tickets(w)) < TicketSlots
         THEN [@ EXCEPT !.state = "offered", !.at = a, !.ticket = "provisional",
                        !.epoch = w.fence.epoch]
         ELSE [@ EXCEPT !.state = "refused"]])
  /\ UNCHANGED <<worker, stop, down>>

OnCancel(g) ==
  /\ Callbacks /\ Live(g) /\ ~goal[g].asked
  /\ LET w == [Now EXCEPT !.goal[g].asked = TRUE]
     IN  Becomes(IF g \in goals THEN Submitted(w, Cancel(g))
                 ELSE [w EXCEPT !.pending = @ \cup {goal[g].at}])
  /\ UNCHANGED <<worker, stop, down>>

OnAccepted(g) ==
  /\ Callbacks /\ goal[g].state = "offered"
  /\ LET fit == goal[g].ticket = "provisional" /\ Admissible(Now, goal[g].epoch)
         w == [Now EXCEPT !.goal[g].ticket = "none",
                 !.goal[g].state = IF fit /\ Submits(Now, Admit(g)) THEN "accepted"
                                   ELSE "turned away"]
     IN  Becomes(IF fit THEN Submitted(w, Admit(g)) ELSE w)
  /\ UNCHANGED <<worker, stop, down>>

\* The rest of on_accepted: it asks the admission gate why, and aborts the goal.
TurnAway(g) ==
  /\ goal[g].state = "turned away" /\ GateFree
  /\ Becomes(Aborted(Now, g))
  /\ UNCHANGED <<worker, stop, down>>

(***************************************************************************)
(* The timer and STOP share a callback group, so no tick comes while STOP  *)
(* waits; snapshots of the Gate do not pass the admission gate.            *)
(***************************************************************************)
Timer ==
  /\ down.stage \in {"up", "closing", "begin"} /\ stop.state \notin {"waiting", "refused"}
  /\ GateFree
  /\ \E w \in Revoked(Now) : \E v \in Pruned(w) : Becomes(Submitted(v, Look))
  /\ UNCHANGED <<worker, stop, down>>

GateSnapshot ==
  /\ down.stage # "done"
  /\ Becomes(Enqueued(Now, Look, FALSE))
  /\ UNCHANGED <<worker, stop, down>>

OnStop ==
  /\ down.stage \in {"up", "closing", "begin"} /\ GateFree
  /\ stop.state \notin {"waiting", "refused"} /\ stop.made < MaxStops
  /\ Becomes(Submitted(Now, Stop))
  /\ stop' = [stop EXCEPT !.state = IF Submits(Now, Stop) THEN "waiting" ELSE "refused",
                          !.made = @ + 1]
  /\ UNCHANGED <<worker, down>>

\* A STOP that could not be queued stops the Adapter itself, and says so.
StopEmergency ==
  /\ stop.state = "refused" /\ GateFree /\ PortFree
  /\ Becomes(Inhibited(Now))
  /\ stop' = [stop EXCEPT !.state = "failed", !.sworn = TRUE]
  /\ UNCHANGED <<worker, down>>

StopDeadline ==
  /\ stop.state = "waiting" /\ PortFree
  /\ Becomes(Inhibited(Now))
  /\ stop' = [stop EXCEPT !.state = "failed"]
  /\ UNCHANGED <<worker, down>>

\* request_emergency_stop of the Adapter, called back by the first raise.
EmergencyCallback ==
  /\ gate.emergency \in {"due", "in submit"} /\ PortFree
  /\ Becomes([Inhibited(Now) EXCEPT !.gate.emergency = "none"])
  /\ UNCHANGED <<worker, stop, down>>

-----------------------------------------------------------------------------
(***************************************************************************)
(* The event worker.                                                       *)
(***************************************************************************)
Idle == [pc |-> "idle", goal |-> Nobody]

\* wait_pop.  While the fence is pending only a cancel or a STOP comes before
\* it; without an event the worker waits, or ends when the queue is closed.
Urgent(q) == {i \in DOMAIN q.control : EmergencyControl(q.control[i])}
Earliest(S) == CHOOSE i \in S : \A j \in S : i <= j

Without(s, i) == SubSeq(s, 1, i - 1) \o SubSeq(s, i + 1, Len(s))

Popped ==
  IF fence.pending
  THEN IF Urgent(queue) = {} THEN <<>>
       ELSE LET i == Earliest(Urgent(queue))
            IN  <<queue.control[i], [queue EXCEPT !.control = Without(@, i)]>>
  ELSE IF queue.control # <<>>
  THEN <<Head(queue.control), [queue EXCEPT !.control = Tail(@)]>>
  ELSE IF queue.fault THEN <<Fault, [queue EXCEPT !.fault = FALSE]>>
  ELSE IF queue.normal # <<>>
  THEN <<Head(queue.normal), [queue EXCEPT !.normal = Tail(@)]>>
  ELSE <<>>

\* The worker takes an event and, unless the fence is up, hands it to process_event.
Pops(kind) ==
  /\ worker.pc = "idle" /\ Popped # <<>> /\ Popped[1].kind = kind
  /\ fence.blocked => EmergencyControl(Popped[1])
Event1 == Popped[1].goal
Taken == [Now EXCEPT !.queue = Popped[2]]

WorkCancel ==
  /\ Pops("cancel") /\ Becomes(CoreCancel(Taken, Event1))
  /\ UNCHANGED <<worker, stop, down>>

WorkStop ==
  /\ Pops("stop") /\ Becomes(CoreEnds(Taken, "aborted"))
  /\ stop' = IF stop.state = "waiting" THEN [stop EXCEPT !.state = "answered"] ELSE stop
  /\ UNCHANGED <<worker, down>>

WorkResult ==
  /\ Pops("result")
  /\ LET w == [Taken EXCEPT !.registry[Event1] = "none"]
     IN  Becomes(IF registry[Event1] = "record" THEN CoreResult(w, Event1) ELSE Taken)
  /\ UNCHANGED <<worker, stop, down>>

\* A deadline of the Mission or the loss of the Gate may end it; a tick also
\* revokes tickets.
WorkLook ==
  /\ Pops("look")
  /\ \E w \in Revoked(Taken) : \E v \in Pruned(w) :
       Becomes(v) \/ Becomes(CoreEnds(v, "aborted"))
  /\ UNCHANGED <<worker, stop, down>>

\* Behind the fence the worker drops all that is neither a cancel nor a STOP.  The
\* fault event never gets further: whoever leaves it raises the fence.
WorkDrop ==
  /\ worker.pc = "idle" /\ fence.blocked /\ Popped # <<>> /\ ~EmergencyControl(Popped[1])
  /\ Becomes(Taken)
  /\ UNCHANGED <<worker, stop, down>>

\* process_pending_fence: the core fails closed.
WorkFence ==
  /\ worker.pc = "idle" /\ fence.pending /\ Urgent(queue) = {}
  /\ Becomes(CoreEnds([Now EXCEPT !.fence.pending = FALSE], "aborted"))
  /\ UNCHANGED <<worker, stop, down>>

\* process_event(AdmitEvent), up to the permit.
WorkAdmit ==
  /\ Pops("admit") /\ GateFree
  /\ IF gate.quiescing
     THEN Becomes(Aborted(Taken, Event1)) /\ UNCHANGED worker
     ELSE /\ Becomes([Taken EXCEPT !.router.pending = TRUE, !.router.early = "none"])
          /\ worker' = [pc |-> "claimed", goal |-> Event1]
  /\ UNCHANGED <<stop, down>>

AdmittedUnregistered(w, g) == RouterCommit(w, g)

\* The end of an admission: an accepted goal is entered in goals_, the result
\* that came early is delivered, and a cancel that came early is made up for.
Admitted(w, g) ==
  LET at == goal[g].at
      v == RouterCommit([w EXCEPT !.goals = @ \cup {g}, !.pending = @ \ {at}], g)
  IN  IF at \in w.pending THEN CoreCancel(v, g) ELSE v

\* RuntimeCore::admit up to the slot.  A second Mission and a revoked permit are
\* turned down; so is any goal that the checks of the goal, the ports and the Gate
\* do not let through, whatever they say.
CoreAdmit ==
  /\ worker.pc = "claimed" /\ GateFree
  /\ LET g == worker.goal
     IN  \/ /\ core = Nobody /\ Admissible(Now, goal[g].epoch)
            /\ Becomes([Now EXCEPT !.core = g]) /\ worker' = [worker EXCEPT !.pc = "admitted"]
         \/ /\ Becomes(Aborted([Now EXCEPT !.router.pending = FALSE,
                                       !.pending = @ \ {goal[g].at}], g))
            /\ worker' = Idle
  /\ UNCHANGED <<stop, down>>

\* start_step: the fence may have gone up meanwhile, and the Mission ends inside
\* its own admission; otherwise it calls the Adapter to start the child.
StartStep ==
  /\ worker.pc = "admitted" /\ GateFree
  /\ IF Admissible(Now, goal[worker.goal].epoch)
     THEN /\ Becomes([Now EXCEPT !.registry[worker.goal] = "open"])
          /\ worker' = [worker EXCEPT !.pc = "calling"]
     ELSE Becomes(Admitted(CoreEnds(Now, "aborted"), worker.goal)) /\ worker' = Idle
  /\ UNCHANGED <<stop, down>>

\* The Adapter's mutex is taken, and not the gate's yet.
EnterPort ==
  /\ worker.pc = "calling" /\ worker' = [worker EXCEPT !.pc = "starting"]
  /\ Becomes(Now) /\ UNCHANGED <<stop, down>>

PortIdle(w) == w.port.child = Nobody /\ w.port.tx = "none"

PortStartsUnchecked(w, g) ==
  IF PortIdle(w) /\ ~w.port.shutting
  THEN [w EXCEPT !.port.child = g, !.port.tx = "queued", !.port.cancel = FALSE]
  ELSE Relayed(w, g)

\* RelativeMotionRosAdapter::start, under its own mutex and then the gate's.
PortStarts(w, g) ==
  IF PortIdle(w) /\ ~w.port.shutting /\ Admissible(w, w.goal[g].epoch)
  THEN [w EXCEPT !.port.child = g, !.port.tx = "queued", !.port.cancel = FALSE]
  ELSE Relayed(w, g)

PortStart ==
  /\ worker.pc = "starting" /\ GateFree
  /\ Becomes(Admitted(PortStarts(Now, worker.goal), worker.goal))
  /\ worker' = Idle
  /\ UNCHANGED <<stop, down>>

WorkerEnds ==
  /\ worker.pc = "idle" /\ Popped = <<>> /\ ~fence.pending /\ queue.closed
  /\ worker' = [Idle EXCEPT !.pc = "ended"]
  /\ Becomes(Now) /\ UNCHANGED <<stop, down>>

-----------------------------------------------------------------------------
(***************************************************************************)
(* The transaction thread of the Adapter.  A side effect runs under a      *)
(* lease of the transaction plane: begun (pending), granted (in flight),   *)
(* checked once more (invoking), done (effected), and committed unless the *)
(* plane was closed meanwhile.                                             *)
(***************************************************************************)
Leased == {"in flight", "invoking", "effected", "rollback"}
PlaneDrainedEarly(t) == t # "pending"
PlaneDrained(t) == t \notin Leased \cup {"pending"}

TxStep(from, to) == port.tx = from /\ Becomes([Now EXCEPT !.port.tx = to])

TxBegin ==
  /\ TxStep("queued", IF gate.quiescing \/ port.cancel THEN "failed" ELSE "pending")
  /\ UNCHANGED <<worker, stop, down>>

TxGrant ==
  /\ TxStep("pending", IF gate.quiescing THEN "failed" ELSE "in flight")
  /\ UNCHANGED <<worker, stop, down>>

TxInvoke ==
  /\ TxStep("in flight", IF gate.quiescing \/ port.cancel THEN "rollback" ELSE "invoking")
  /\ UNCHANGED <<worker, stop, down>>

\* Prepare, open or start of the controller: the request goes out.
TxEffect == TxStep("invoking", "effected") /\ UNCHANGED <<worker, stop, down>>

TxCommit ==
  /\ TxStep("effected", IF gate.quiescing \/ port.cancel THEN "rollback" ELSE "none")
  /\ UNCHANGED <<worker, stop, down>>

\* Only when its rollback is over does a lease let the plane drain.
TxRollback == TxStep("rollback", "failed") /\ UNCHANGED <<worker, stop, down>>

PortEndsMute(w) ==
  LET v == [w EXCEPT !.port.child = Nobody, !.port.cancel = FALSE]
  IN  IF ~w.port.shutting THEN v ELSE Relayed(v, w.port.child)

\* The child is gone and, unless it was told to stop, its record is relayed.
\* A shutdown asks for the record also of a child that it stops.
PortEnds(w) ==
  LET v == [w EXCEPT !.port.child = Nobody, !.port.cancel = FALSE]
  IN  IF w.port.cancel /\ ~w.port.shutting THEN v ELSE Relayed(v, w.port.child)

\* A start that failed by itself is torn down; one that was told to stop leaves
\* that to whoever told it.
TxFails ==
  /\ port.tx = "failed"
  /\ LET w == [Now EXCEPT !.port.tx = "none"]
     IN  Becomes(IF port.child = Nobody \/ port.cancel THEN w ELSE PortEnds(w))
  /\ UNCHANGED <<worker, stop, down>>

\* The motion is over by itself, or has failed.
ChildEnds ==
  /\ port.child # Nobody /\ ~port.cancel /\ port.tx = "none" /\ PortFree
  /\ Becomes(PortEnds(Now))
  /\ UNCHANGED <<worker, stop, down>>

\* The teardown that a cancel or an emergency asked for, on a thread of its own:
\* it does not wait for the transaction.
Teardown ==
  /\ port.child # Nobody /\ port.cancel /\ PortFree
  /\ Becomes(PortEnds(Now))
  /\ UNCHANGED <<worker, stop, down>>

-----------------------------------------------------------------------------
(***************************************************************************)
(* Shutdown: RuntimeShutdownCoordinator::run, then the rest of             *)
(* shutdown_barrier.  Every wait has a deadline but three: for the mutex   *)
(* of the admission gate, for that of the callbacks, and for the worker.   *)
(***************************************************************************)
Goes(to) == down' = [down EXCEPT !.stage = to]
Keeps == Becomes(Now) /\ UNCHANGED <<worker, stop>>

ShutdownAsked == down.stage = "up" /\ Goes("closing") /\ Keeps

CloseGeneration ==
  /\ down.stage = "closing" /\ GateFree
  /\ Becomes([Now EXCEPT !.gate.quiescing = TRUE])
  /\ Goes("begin") /\ UNCHANGED <<worker, stop>>

\* No timer and no STOP any more; the Adapter stops what runs, record included.
BeginRunningShutdown ==
  /\ down.stage = "begin" /\ PortFree
  /\ Becomes([Inhibited(Now) EXCEPT !.port.shutting = TRUE])
  /\ Goes("internal") /\ UNCHANGED <<worker, stop>>

\* The four joint conditions, one after the other before the same deadline; a
\* Gate whose zero is not proven looks like a deadline.
InternalCompletion ==
  /\ down.stage = "internal"
  /\ \E ok \in {PortIdle(Now), FALSE} :
       down' = [down EXCEPT !.stage = "transactions", !.safe = ok]
  /\ Keeps

TransactionDrain ==
  /\ down.stage = "transactions"
  /\ \E ok \in {PlaneDrained(port.tx), FALSE}, zero \in BOOLEAN :
       down' = [down EXCEPT !.stage = "terminal", !.drained = ok,
                            !.safe = @ /\ ok /\ zero]
  /\ Keeps

JointConditions ==
  /\ down.stage = "terminal" /\ down.safe /\ goals = {} /\ CoreFree /\ core = Nobody
  /\ Goes("callbacks") /\ Keeps

JointDeadline == down.stage = "terminal" /\ Goes("emergency") /\ Keeps

JointEmergency ==
  /\ down.stage = "emergency" /\ PortFree
  /\ Becomes(Emergency(Inhibited(Now), FALSE))
  /\ Goes("fail closed") /\ UNCHANGED <<worker, stop>>

CoreFailClosed ==
  /\ down.stage = "fail closed" /\ CoreFree
  /\ Becomes(CoreEnds(Now, "aborted"))
  /\ Goes("callbacks") /\ UNCHANGED <<worker, stop>>

DeactivateCallbacks ==
  /\ down.stage = "callbacks" /\ CallbackFree /\ Goes("drain") /\ Keeps

\* wait_for_action_admission_drain.  Nothing can claim a ticket any more; one
\* that is revoked only now is still there when the second deadline is over.
DrainTickets ==
  /\ down.stage = "drain" /\ PortFree
  /\ \E w \in Pruned(Now) :
       Becomes(IF Tickets(w) = {} THEN w
               ELSE Emergency(Inhibited(Ticketed(w, Tickets(w), "revoked")), FALSE))
  /\ Goes("close") /\ UNCHANGED <<worker, stop>>

CloseQueue ==
  /\ down.stage = "close"
  /\ Becomes([Now EXCEPT !.queue.closed = TRUE])
  /\ Goes("join") /\ UNCHANGED <<worker, stop>>

\* The worker is joined, the tickets are cleared, the Adapter is finalized and
\* the execution plane empties its lane and lets go of the core.
JoinWorker ==
  /\ down.stage = "join" /\ worker.pc = "ended" /\ PortIdle(Now) /\ lane = <<>>
  /\ Becomes([Ticketed(Now, Tickets(Now), "none") EXCEPT !.registry = [g \in Goal |-> "none"]])
  /\ Goes("done") /\ UNCHANGED <<worker, stop>>

-----------------------------------------------------------------------------
Init ==
  /\ fence = [epoch |-> 1, blocked |-> FALSE, pending |-> FALSE]
  /\ queue = [control |-> <<>>, normal |-> <<Look>>, fault |-> FALSE,
               recorded |-> FALSE, closed |-> FALSE]
  /\ gate = [quiescing |-> FALSE, emergency |-> "none"]
  /\ \E a \in Address :
       goal = [g \in Goal |-> [state |-> "idle", epoch |-> 1, at |-> a, ticket |-> "none",
                               asked |-> FALSE, results |-> 0]]
  /\ pending = {} /\ goals = {} /\ core = Nobody
  /\ router = [pending |-> FALSE, active |-> Nobody, early |-> "none"]
  /\ registry = [g \in Goal |-> "none"] /\ lane = <<>>
  /\ port = [child |-> Nobody, tx |-> "none", cancel |-> FALSE, shutting |-> FALSE]
  /\ worker = Idle
  /\ stop = [state |-> "none", made |-> 0, sworn |-> FALSE]
  /\ down = [stage |-> "up", safe |-> FALSE, drained |-> FALSE]

Callback ==
  \/ \E g \in Goal, a \in Address : OnGoal(g, a)
  \/ \E g \in Goal : OnCancel(g)
  \/ \E g \in Goal : OnAccepted(g)
  \/ \E g \in Goal : TurnAway(g)
  \/ Timer \/ GateSnapshot \/ OnStop \/ StopEmergency \/ StopDeadline

Worker ==
  \/ WorkCancel \/ WorkStop \/ WorkResult \/ WorkLook \/ WorkDrop \/ WorkFence
  \/ WorkAdmit \/ CoreAdmit \/ StartStep \/ EnterPort \/ PortStart \/ WorkerEnds

Transaction == TxBegin \/ TxGrant \/ TxInvoke \/ TxEffect \/ TxCommit \/ TxRollback \/ TxFails
PortThread == ChildEnds \/ Teardown

Shutdown ==
  \/ CloseGeneration \/ BeginRunningShutdown \/ InternalCompletion \/ TransactionDrain
  \/ JointConditions \/ JointDeadline \/ JointEmergency \/ CoreFailClosed
  \/ DeactivateCallbacks \/ DrainTickets \/ CloseQueue \/ JoinWorker

Next ==
  \/ Callback \/ EmergencyCallback \/ Worker \/ Transaction \/ PortThread
  \/ LaneTakes \/ ShutdownAsked \/ Shutdown

Spec == Init /\ [][Next]_vars

\* The operating system runs every thread that can go on, and deadlines pass.
FairSpec ==
  /\ Spec
  /\ WF_vars(Worker) /\ WF_vars(Transaction) /\ WF_vars(PortThread) /\ WF_vars(LaneTakes)
  /\ WF_vars(EmergencyCallback) /\ WF_vars(\E g \in Goal : TurnAway(g)) /\ WF_vars(Shutdown)

-----------------------------------------------------------------------------
(***************************************************************************)
(* Properties.                                                             *)
(***************************************************************************)
\* Types.  The queue and the lane stay within their capacities.
TypeOK ==
  /\ fence \in [epoch : Epoch, blocked : BOOLEAN, pending : BOOLEAN]
  /\ queue.control \in Seq(Event) /\ Len(queue.control) <= ControlSlots
  /\ queue.normal \in Seq(Event) /\ Len(queue.normal) <= NormalSlots
  /\ gate.emergency \in {"none", "due", "in submit"}
  /\ \A g \in Goal : goal[g].state \in GoalState /\ goal[g].epoch \in Epoch
  /\ pending \subseteq Address /\ goals \subseteq Goal /\ core \in Goal \cup {Nobody}
  /\ Len(lane) <= LaneSlots /\ port.child \in Goal \cup {Nobody}

\* Every accepted goal is in the queue, with the worker or in goals_, unless the
\* fence has come up.
AcceptedIsSomewhere ==
  \A g \in Goal : goal[g].state = "accepted" =>
    \/ fence.blocked
    \/ g \in goals
    \/ \E i \in DOMAIN queue.normal : queue.normal[i] = Admit(g)
    \/ worker.goal = g

\* Between two dispatches the node, the router and the core name the same goal:
\* no result was delivered too early to be kept or to nobody.
NobodyForgotten ==
  CoreFree => goals = {core} \ {Nobody} /\ router.active = core

\* A goal gets one terminal result, whichever of the queue, the lane, the fence,
\* a cancel and the shutdown come to end it.
OneTerminal == \A g \in Goal : goal[g].results <= 1

\* A Mission whose child is gone has its end on the way: the record, the fence or
\* the STOP that silenced the child, or the shutdown.
NotStranded ==
  core # Nobody /\ CoreFree /\ port.child # core =>
    \/ fence.pending \/ gate.quiescing
    \/ \E i \in DOMAIN queue.control : queue.control[i] \in {Stop, Result(core)}
    \/ \E i \in DOMAIN lane : lane[i] = core

\* After a STOP that could not be queued has stopped the Adapter, no child starts:
\* whatever refused the STOP refuses the start as well.
NoStartAfterRefusedStop ==
  [][port.child = Nobody /\ port.child' # Nobody => ~stop.sworn]_vars

\* Once shutdown saw the transactions drained, no side effect goes out any more.
DrainedIsStill ==
  [][port.tx = "invoking" /\ port.tx' = "effected" => ~down.drained]_vars

\* A thread inside submit that waits for the Adapter's mutex, and the worker that
\* holds it and waits for the admission gate.
LockCycle == gate.emergency = "in submit" /\ worker.pc = "starting"

\* Shutdown ends, if the mutexes let it.
ShutdownEnds == down.stage = "closing" ~> (down.stage = "done" \/ LockCycle)

\* The emergency of a full queue never waits for the Runtime that it is to stop.
NoLockCycle == ~LockCycle

\* When the shutdown is over, every goal that reached the queue has its result.
QueuedIsAnswered ==
  down.stage = "done" => \A g \in Goal : goal[g].state # "accepted"

\* A goal is canceled only when its own client asked for it.
CancelIsAsked ==
  \A g \in Goal : goal[g].state = "canceled" => goal[g].asked
============================================================================
