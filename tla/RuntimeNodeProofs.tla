------------------------- MODULE RuntimeNodeProofs -------------------------
(***************************************************************************)
(* RuntimeNode, for any number of goals, STOP requests and slots: two      *)
(* action properties, its types, and four of its safety invariants.        *)
(*                                                                         *)
(* Most steps are calm: whatever they do to goals, queue and records, the  *)
(* admission gate and the fence stay shut, no lease of the transaction     *)
(* plane moves, and no child appears.  The helpers a step is built from    *)
(* are calm one by one; the steps that are not are the ones to look at.    *)
(*                                                                         *)
(* The invariants follow from two inductive ones.  The books (BInv) say    *)
(* where each goal is and that the queue, the worker, goals_, the router   *)
(* and the core agree on it.  The trail (TInv) says what is left of a      *)
(* Mission whose child was stopped: the event, the record or the fence     *)
(* that will end it.                                                       *)
(***************************************************************************)
EXTENDS RuntimeNode, TLAPS, FiniteSetTheorems, SequenceTheorems, WellFoundedInduction

Shape(w) ==
  /\ DOMAIN w = {"fence", "queue", "gate", "goal", "pending", "goals", "core",
                 "router", "registry", "lane", "port"}
  /\ DOMAIN w.fence = {"epoch", "blocked", "pending"}
  /\ DOMAIN w.gate = {"quiescing", "emergency"}
  /\ DOMAIN w.port = {"child", "tx", "cancel", "shutting"}

Calm(v, w) ==
  /\ Shape(w)
  /\ v.gate.quiescing => w.gate.quiescing
  /\ v.fence.blocked => w.fence.blocked
  /\ w.port.tx = v.port.tx
  /\ v.port.child = Nobody => w.port.child = Nobody

Shapes ==
  /\ Shape(Now)
  /\ DOMAIN stop = {"state", "made", "sworn"}
  /\ DOMAIN down = {"stage", "safe", "drained"}

\* Shutdown closes the admission first, and a drained plane has no lease that could
\* be granted or checked again.
Drained ==
  /\ down.stage \notin {"up", "closing"} => gate.quiescing
  /\ down.drained => gate.quiescing /\ PlaneDrained(port.tx)

\* What refuses a STOP refuses every later start.
Refused == stop.state = "refused" \/ stop.sworn => gate.quiescing \/ fence.blocked

IInv == Shapes /\ Drained /\ Refused

-----------------------------------------------------------------------------
(***************************************************************************)
(* The helpers are calm.                                                   *)
(***************************************************************************)
LEMMA CalmSelf == ASSUME NEW v, Shape(v) PROVE Calm(v, v)
  BY DEF Calm

LEMMA CalmTrans ==
  ASSUME NEW u, NEW v, NEW w, Calm(u, v), Calm(v, w)
  PROVE  Calm(u, w)
  BY DEF Calm

LEMMA EmergencyCalm ==
  ASSUME NEW v, Shape(v), NEW submits
  PROVE  Calm(v, Emergency(v, submits))
  BY DEF Shape, Calm, Emergency

LEMMA EmergencyBlocks ==
  ASSUME NEW v, Shape(v), NEW submits
  PROVE  Emergency(v, submits).fence.blocked
  BY DEF Shape, Emergency

LEMMA EnqueuedCalm ==
  ASSUME NEW v, Shape(v), NEW e, NEW submits
  PROVE  Calm(v, Enqueued(v, e, submits))
<1> DEFINE q == IF LaneOf(e) = "normal" THEN FaultRecorded(v.queue) ELSE v.queue
           u == [v EXCEPT !.queue = q]
<1>1. Calm(v, u) /\ Shape(u)
  BY DEF Shape, Calm
<1>2. Calm(v, [v EXCEPT !.queue[LaneOf(e)] = Append(@, e)])
  BY DEF Shape, Calm
<1>3. Enqueued(v, e, submits) \in
        {[v EXCEPT !.queue[LaneOf(e)] = Append(@, e)], v, Emergency(u, submits)}
  BY DEF Enqueued
<1> HIDE DEF u
<1>4. Calm(v, Emergency(u, submits))
  BY <1>1, EmergencyCalm, CalmTrans
<1> QED
  BY <1>2, <1>3, <1>4, CalmSelf

LEMMA SubmittedCalm ==
  ASSUME NEW v, Shape(v), NEW e
  PROVE  Calm(v, Submitted(v, e))
  BY EnqueuedCalm, CalmSelf DEF Submitted

LEMMA AnsweredCalm ==
  ASSUME NEW v, Shape(v), NEW g, NEW how
  PROVE  Calm(v, Answered(v, g, how))
  BY DEF Shape, Calm, Answered

LEMMA FinishGoalCalm ==
  ASSUME NEW v, Shape(v), NEW g, NEW how
  PROVE  Calm(v, FinishGoal(v, g, how))
<1> DEFINE u == Answered(v, g, how)
<1>1. Calm(v, u)
  BY AnsweredCalm
<1> HIDE DEF u
<1>2. Calm(u, [u EXCEPT !.goals = @ \ {g}])
  BY <1>1 DEF Shape, Calm
<1>3. Calm(v, [u EXCEPT !.goals = @ \ {g}])
  BY <1>1, <1>2, CalmTrans
<1> QED
  BY <1>3, CalmSelf DEF FinishGoal, u

LEMMA RouterFinishCalm ==
  ASSUME NEW v, Shape(v), NEW g, NEW how
  PROVE  Calm(v, RouterFinish(v, g, how))
<1> DEFINE u == [v EXCEPT !.router.active = Nobody]
<1>1. Calm(v, u)
  BY DEF Shape, Calm
<1>2. Calm(v, FinishGoal(u, g, how))
  BY <1>1, FinishGoalCalm, CalmTrans DEF Calm
<1>3. Calm(v, [v EXCEPT !.router.early = how])
  BY DEF Shape, Calm
<1> QED
  BY <1>2, <1>3, CalmSelf DEF RouterFinish

LEMMA RouterCommitCalm ==
  ASSUME NEW v, Shape(v), NEW g
  PROVE  Calm(v, RouterCommit(v, g))
<1> DEFINE u == [v EXCEPT !.router = [pending |-> FALSE, active |-> g, early |-> "none"]]
<1>1. Calm(v, u)
  BY DEF Shape, Calm
<1>2. Calm(v, RouterFinish(u, g, v.router.early))
  BY <1>1, RouterFinishCalm, CalmTrans DEF Calm
<1> QED
  BY <1>1, <1>2 DEF RouterCommit

LEMMA InhibitedCalm ==
  ASSUME NEW v, Shape(v)
  PROVE  Calm(v, Inhibited(v))
  BY DEF Shape, Calm, Inhibited

LEMMA CoreEndsCalm ==
  ASSUME NEW v, Shape(v), NEW how
  PROVE  Calm(v, CoreEnds(v, how))
<1> DEFINE u == Inhibited(v)
           x == [u EXCEPT !.core = Nobody, !.fence.epoch = IF v.fence.blocked THEN @ ELSE @ + 1]
<1>1. Calm(v, u)
  BY InhibitedCalm
<1>2. CoreEnds(v, how) = IF v.core = Nobody THEN v ELSE RouterFinish(x, v.core, how)
  BY DEF CoreEnds
<1> HIDE DEF u
<1>3. Calm(u, x)
  BY <1>1 DEF Shape, Calm
<1>4. Calm(v, x) /\ Shape(x)
  BY <1>1, <1>3, CalmTrans DEF Calm
<1> HIDE DEF x
<1>5. Calm(v, RouterFinish(x, v.core, how))
  BY <1>4, RouterFinishCalm, CalmTrans
<1> QED
  BY <1>2, <1>5, CalmSelf

LEMMA CoreCancelCalm ==
  ASSUME NEW v, Shape(v), NEW g
  PROVE  Calm(v, CoreCancel(v, g))
  BY CoreEndsCalm, CalmSelf DEF CoreCancel

LEMMA CoreResultCalm ==
  ASSUME NEW v, Shape(v), NEW g
  PROVE  Calm(v, CoreResult(v, g))
  BY CoreEndsCalm, CalmSelf DEF CoreResult

LEMMA DivertedCalm ==
  ASSUME NEW v, Shape(v), NEW g
  PROVE  Calm(v, Diverted(v, g))
<1> DEFINE u == [v EXCEPT !.registry[g] = "none",
                          !.lane = IF Len(@) < LaneSlots THEN Append(@, g) ELSE @]
<1>1. Calm(v, u) /\ Shape(u)
  BY DEF Shape, Calm
<1>2. Diverted(v, g) = Emergency(u, FALSE)
  BY DEF Diverted
<1> HIDE DEF u
<1> QED
  BY <1>1, <1>2, EmergencyCalm, CalmTrans

LEMMA RelayedCalm ==
  ASSUME NEW v, Shape(v), NEW g
  PROVE  Calm(v, Relayed(v, g))
<1> DEFINE u == [v EXCEPT !.registry[g] = "record"]
<1>1. Calm(v, u) /\ Shape(u)
  BY DEF Shape, Calm
<1> HIDE DEF u
<1>2. Calm(v, Enqueued(u, Result(g), FALSE))
  BY <1>1, EnqueuedCalm, CalmTrans
<1>3. Calm(v, Enqueued(v, Result(g), FALSE))
  BY EnqueuedCalm
<1>4. Calm(v, Diverted(Enqueued(v, Result(g), FALSE), g))
  BY <1>3, DivertedCalm, CalmTrans DEF Calm
<1> QED
  BY <1>2, <1>4, DivertedCalm DEF Relayed, u

LEMMA TicketedCalm ==
  ASSUME NEW v, Shape(v), NEW S, NEW t
  PROVE  Calm(v, Ticketed(v, S, t))
  BY DEF Shape, Calm, Ticketed

LEMMA PrunedCalm ==
  ASSUME NEW v, Shape(v), NEW w \in Pruned(v) \cup Revoked(v)
  PROVE  Calm(v, w)
  BY TicketedCalm DEF Pruned, Revoked

LEMMA AdmittedCalm ==
  ASSUME NEW v, Shape(v), NEW g
  PROVE  Calm(v, Admitted(v, g))
<1> DEFINE u == [v EXCEPT !.goals = @ \cup {g}, !.pending = @ \ {goal[g].at}]
           x == RouterCommit(u, g)
<1>1. Calm(v, u) /\ Shape(u)
  BY DEF Shape, Calm
<1>2. Admitted(v, g) \in {x, CoreCancel(x, g)}
  BY DEF Admitted
<1> HIDE DEF u
<1>3. Calm(v, x) /\ Shape(x)
  BY <1>1, RouterCommitCalm, CalmTrans DEF Calm
<1> HIDE DEF x
<1>4. Calm(v, CoreCancel(x, g))
  BY <1>3, CoreCancelCalm, CalmTrans
<1> QED
  BY <1>2, <1>3, <1>4

LEMMA PortEndsCalm ==
  ASSUME NEW v, Shape(v)
  PROVE  Calm(v, PortEnds(v))
<1> DEFINE u == [v EXCEPT !.port.child = Nobody, !.port.cancel = FALSE]
<1>1. Calm(v, u) /\ Shape(u)
  BY DEF Shape, Calm
<1>2. PortEnds(v) = IF v.port.cancel /\ ~v.port.shutting THEN u ELSE Relayed(u, v.port.child)
  BY DEF PortEnds
<1> HIDE DEF u
<1>3. Calm(v, Relayed(u, v.port.child))
  BY <1>1, RelayedCalm, CalmTrans
<1> QED
  BY <1>1, <1>2, <1>3

-----------------------------------------------------------------------------
(***************************************************************************)
(* The steps.                                                              *)
(***************************************************************************)
NoStart == port.child = Nobody /\ port.child' # Nobody => ~stop.sworn
NoEffect == port.tx = "invoking" /\ port.tx' = "effected" => ~down.drained
Good == IInv' /\ NoStart /\ NoEffect

LEMMA CalmShapes ==
  ASSUME NEW w, Shape(w), Becomes(w)
  PROVE  Shape(Now)'
  BY DEF Shape, Becomes, Now

LEMMA NowFields ==
  /\ Now.fence = fence /\ Now.gate = gate /\ Now.port = port /\ Now.queue = queue
  /\ Now.goal = goal /\ Now.lane = lane /\ Now.registry = registry /\ Now.core = core
  /\ Now.goals = goals /\ Now.pending = pending /\ Now.router = router
  BY DEF Now

LEMMA CalmStep ==
  ASSUME IInv, NEW w, Calm(Now, w), Becomes(w), UNCHANGED <<stop, down>>
  PROVE  Good
<1>1. Shapes'
  BY CalmShapes DEF Calm, IInv, Shapes
<1>2. Drained'
  BY NowFields DEF Calm, Becomes, IInv, Drained
<1>3. Refused'
  BY NowFields DEF Calm, Becomes, IInv, Refused
<1>4. NoStart /\ NoEffect
  BY NowFields DEF Calm, Becomes, NoStart, NoEffect
<1> QED
  BY <1>1, <1>2, <1>3, <1>4 DEF Good, IInv

\* The world before a step.
LEMMA NowCalm == ASSUME IInv PROVE Shape(Now) /\ Calm(Now, Now)
  BY CalmSelf DEF IInv, Shapes

(***************************************************************************)
(* Callbacks, the timer, STOP and the emergency callback.                  *)
(***************************************************************************)
LEMMA OnGoalGood ==
  ASSUME IInv, NEW g, NEW a, OnGoal(g, a)
  PROVE  Good
<1>1. PICK w \in Pruned(Now) : Becomes([w EXCEPT !.goal[g] =
         IF Admissible(w, w.fence.epoch) /\ Cardinality(Tickets(w)) < TicketSlots
         THEN [@ EXCEPT !.state = "offered", !.at = a, !.ticket = "provisional",
                        !.epoch = w.fence.epoch]
         ELSE [@ EXCEPT !.state = "refused"]])
  BY DEF OnGoal
<1> DEFINE entry == IF Admissible(w, w.fence.epoch) /\ Cardinality(Tickets(w)) < TicketSlots
                    THEN [w.goal[g] EXCEPT !.state = "offered", !.at = a,
                            !.ticket = "provisional", !.epoch = w.fence.epoch]
                    ELSE [w.goal[g] EXCEPT !.state = "refused"]
<1>2. Becomes([w EXCEPT !.goal[g] = entry])
  BY <1>1
<1> HIDE DEF entry
<1>3. Calm(Now, w)
  BY NowCalm, PrunedCalm
<1>4. Calm(w, [w EXCEPT !.goal[g] = entry])
  BY <1>3 DEF Calm, Shape
<1>5. Calm(Now, [w EXCEPT !.goal[g] = entry])
  BY <1>3, <1>4, CalmTrans
<1> QED
  BY <1>2, <1>5, CalmStep DEF OnGoal

LEMMA OnCancelGood ==
  ASSUME IInv, NEW g, OnCancel(g)
  PROVE  Good
<1> DEFINE u == [Now EXCEPT !.goal[g].asked = TRUE]
           x == [u EXCEPT !.pending = @ \cup {goal[g].at}]
<1>1. Calm(Now, u) /\ Shape(u)
  BY NowCalm DEF Calm, Shape
<1>2. Becomes(IF g \in goals THEN Submitted(u, Cancel(g)) ELSE x)
  BY DEF OnCancel
<1> HIDE DEF u
<1>3. Calm(Now, Submitted(u, Cancel(g)))
  BY <1>1, SubmittedCalm, CalmTrans
<1>4. Calm(u, x)
  BY <1>1 DEF Calm, Shape
<1>5. Calm(Now, x)
  BY <1>1, <1>4, CalmTrans
<1> QED
  BY <1>2, <1>3, <1>5, CalmStep DEF OnCancel

LEMMA OnAcceptedGood ==
  ASSUME IInv, NEW g, OnAccepted(g)
  PROVE  Good
<1> DEFINE fit == goal[g].ticket = "provisional" /\ Admissible(Now, goal[g].epoch)
           state == IF fit /\ Submits(Now, Admit(g)) THEN "accepted" ELSE "turned away"
           u == [Now EXCEPT !.goal[g].ticket = "none", !.goal[g].state = state]
<1>1. Becomes(IF fit THEN Submitted(u, Admit(g)) ELSE u)
  BY DEF OnAccepted
<1> HIDE DEF state
<1>2. Calm(Now, u) /\ Shape(u)
  BY NowCalm DEF Calm, Shape
<1> HIDE DEF u, fit
<1>3. Calm(Now, Submitted(u, Admit(g)))
  BY <1>2, SubmittedCalm, CalmTrans
<1> QED
  BY <1>1, <1>2, <1>3, CalmStep DEF OnAccepted

LEMMA TurnAwayGood ==
  ASSUME IInv, NEW g, TurnAway(g)
  PROVE  Good
  BY NowCalm, AnsweredCalm, CalmStep DEF TurnAway, Aborted

LEMMA TimerGood == ASSUME IInv, Timer PROVE Good
<1>1. PICK w \in Revoked(Now) : \E v \in Pruned(w) : Becomes(Submitted(v, Look))
  BY DEF Timer
<1>2. PICK v \in Pruned(w) : Becomes(Submitted(v, Look))
  BY <1>1
<1>3. Calm(Now, w) /\ Shape(w)
  BY NowCalm, PrunedCalm DEF Calm
<1>4. Calm(Now, v) /\ Shape(v)
  BY <1>3, PrunedCalm, CalmTrans DEF Calm
<1>5. Calm(Now, Submitted(v, Look))
  BY <1>4, SubmittedCalm, CalmTrans
<1> QED
  BY <1>2, <1>5, CalmStep DEF Timer

LEMMA GateSnapshotGood == ASSUME IInv, GateSnapshot PROVE Good
  BY NowCalm, EnqueuedCalm, CalmStep DEF GateSnapshot

\* A STOP that the gate or a full lane refuses finds the gate closed or leaves the
\* fence up.
LEMMA RefusedStopShuts ==
  ASSUME IInv, ~Submits(Now, Stop)
  PROVE  LET w == Submitted(Now, Stop) IN w.gate.quiescing \/ w.fence.blocked
<1> DEFINE u == [Now EXCEPT !.queue = IF LaneOf(Stop) = "normal" THEN FaultRecorded(@) ELSE @]
<1>1. Shape(u)
  BY NowCalm DEF Shape
<1>2. CASE gate.quiescing
  BY <1>2, NowFields DEF Submitted
<1>3. CASE ~gate.quiescing
  <2>1. ~Takes(Now, Stop)
    BY <1>3, NowFields DEF Submits
  <2>2. Submitted(Now, Stop) = IF fence.blocked THEN Now ELSE Emergency(u, TRUE)
    BY <1>3, <2>1, NowFields DEF Submitted, Enqueued
  <2> HIDE DEF u
  <2>3. Emergency(u, TRUE).fence.blocked
    BY <1>1, EmergencyBlocks
  <2> QED
    BY <2>2, <2>3, NowFields
<1> QED
  BY <1>2, <1>3

LEMMA OnStopGood == ASSUME IInv, OnStop PROVE Good
<1> DEFINE w == Submitted(Now, Stop)
<1>1. Becomes(w) /\ UNCHANGED down
      /\ stop' = [stop EXCEPT !.state = IF Submits(Now, Stop) THEN "waiting" ELSE "refused",
                              !.made = @ + 1]
  BY DEF OnStop
<1>2. Calm(Now, w)
  BY NowCalm, SubmittedCalm
<1>3. ~Submits(Now, Stop) => w.gate.quiescing \/ w.fence.blocked
  BY RefusedStopShuts
<1> HIDE DEF w
<1>4. /\ DOMAIN stop' = DOMAIN stop /\ stop'.sworn = stop.sworn
      /\ stop'.state = "refused" => ~Submits(Now, Stop)
  BY <1>1 DEF IInv, Shapes
<1>5. Shapes'
  BY <1>1, <1>2, <1>4, CalmShapes DEF Calm, IInv, Shapes
<1>6. Drained'
  BY <1>1, <1>2, NowFields DEF Calm, Becomes, IInv, Drained
<1>7. Refused'
  BY <1>1, <1>2, <1>3, <1>4, NowFields DEF Calm, Becomes, IInv, Refused
<1>8. NoStart /\ NoEffect
  BY <1>1, <1>2, NowFields DEF Calm, Becomes, NoStart, NoEffect
<1> QED
  BY <1>5, <1>6, <1>7, <1>8 DEF Good, IInv

\* The answers of STOP: refused may become sworn, nothing else does.
LEMMA StopAnswered ==
  ASSUME IInv, NEW w, Calm(Now, w), Becomes(w), UNCHANGED down,
         DOMAIN stop' = DOMAIN stop, stop'.state # "refused",
         stop'.sworn => stop.sworn \/ stop.state = "refused"
  PROVE  Good
<1>1. Shapes'
  BY CalmShapes DEF Calm, IInv, Shapes
<1>2. Drained'
  BY NowFields DEF Calm, Becomes, IInv, Drained
<1>3. Refused'
  BY NowFields DEF Calm, Becomes, IInv, Refused
<1>4. NoStart /\ NoEffect
  BY NowFields DEF Calm, Becomes, NoStart, NoEffect
<1> QED
  BY <1>1, <1>2, <1>3, <1>4 DEF Good, IInv

LEMMA StopEmergencyGood == ASSUME IInv, StopEmergency PROVE Good
<1>1. /\ DOMAIN stop' = DOMAIN stop /\ stop'.state # "refused"
      /\ stop'.sworn => stop.sworn \/ stop.state = "refused"
  BY DEF StopEmergency, IInv, Shapes
<1> QED
  BY <1>1, NowCalm, InhibitedCalm, StopAnswered DEF StopEmergency

LEMMA StopDeadlineGood == ASSUME IInv, StopDeadline PROVE Good
<1>1. /\ DOMAIN stop' = DOMAIN stop /\ stop'.state # "refused"
      /\ stop'.sworn => stop.sworn
  BY DEF StopDeadline, IInv, Shapes
<1> QED
  BY <1>1, NowCalm, InhibitedCalm, StopAnswered DEF StopDeadline

LEMMA EmergencyCallbackGood == ASSUME IInv, EmergencyCallback PROVE Good
<1> DEFINE u == Inhibited(Now)
           w == [u EXCEPT !.gate.emergency = "none"]
<1>1. Calm(Now, u) /\ Shape(u)
  BY NowCalm, InhibitedCalm DEF Calm
<1>2. Becomes(w)
  BY DEF EmergencyCallback
<1> HIDE DEF u
<1>3. Calm(u, w)
  BY <1>1 DEF Calm, Shape
<1>4. Calm(Now, w)
  BY <1>1, <1>3, CalmTrans
<1> QED
  BY <1>2, <1>4, CalmStep DEF EmergencyCallback

(***************************************************************************)
(* The worker.                                                             *)
(***************************************************************************)
LEMMA TakenCalm == ASSUME IInv PROVE Calm(Now, Taken) /\ Shape(Taken)
  BY NowCalm DEF Taken, Calm, Shape

LEMMA WorkCancelGood == ASSUME IInv, WorkCancel PROVE Good
<1>1. Calm(Now, CoreCancel(Taken, Event1))
  BY TakenCalm, CoreCancelCalm, CalmTrans
<1> QED
  BY <1>1, CalmStep DEF WorkCancel

LEMMA WorkStopGood == ASSUME IInv, WorkStop PROVE Good
<1>1. Calm(Now, CoreEnds(Taken, "aborted"))
  BY TakenCalm, CoreEndsCalm, CalmTrans
<1>2. CASE stop.state = "waiting"
  <2>1. DOMAIN stop' = DOMAIN stop /\ stop'.state # "refused" /\ stop'.sworn = stop.sworn
    BY <1>2 DEF WorkStop, IInv, Shapes
  <2> QED
    BY <1>1, <2>1, StopAnswered DEF WorkStop
<1>3. CASE stop.state # "waiting"
  BY <1>1, <1>3, CalmStep DEF WorkStop
<1> QED
  BY <1>2, <1>3

LEMMA WorkResultGood == ASSUME IInv, WorkResult PROVE Good
<1> DEFINE u == [Taken EXCEPT !.registry[Event1] = "none"]
<1>1. Calm(Taken, u)
  BY TakenCalm DEF Calm, Shape
<1>2. Calm(Now, u) /\ Shape(u)
  BY <1>1, TakenCalm, CalmTrans DEF Calm
<1>3. Becomes(IF registry[Event1] = "record" THEN CoreResult(u, Event1) ELSE Taken)
  BY DEF WorkResult
<1> HIDE DEF u
<1>4. Calm(Now, CoreResult(u, Event1))
  BY <1>2, CoreResultCalm, CalmTrans
<1> QED
  BY <1>3, <1>4, TakenCalm, CalmStep DEF WorkResult

LEMMA WorkLookGood == ASSUME IInv, WorkLook PROVE Good
<1>1. PICK w \in Revoked(Taken) : \E v \in Pruned(w) :
        Becomes(v) \/ Becomes(CoreEnds(v, "aborted"))
  BY DEF WorkLook
<1>2. PICK v \in Pruned(w) : Becomes(v) \/ Becomes(CoreEnds(v, "aborted"))
  BY <1>1
<1>3. Calm(Now, w) /\ Shape(w)
  BY TakenCalm, PrunedCalm, CalmTrans DEF Calm
<1>4. Calm(Now, v) /\ Shape(v)
  BY <1>3, PrunedCalm, CalmTrans DEF Calm
<1>5. Calm(Now, CoreEnds(v, "aborted"))
  BY <1>4, CoreEndsCalm, CalmTrans
<1> QED
  BY <1>2, <1>4, <1>5, CalmStep DEF WorkLook

LEMMA WorkDropGood == ASSUME IInv, WorkDrop PROVE Good
  BY TakenCalm, CalmStep DEF WorkDrop

LEMMA WorkFenceGood == ASSUME IInv, WorkFence PROVE Good
<1> DEFINE u == [Now EXCEPT !.fence.pending = FALSE]
<1>1. Calm(Now, u) /\ Shape(u)
  BY NowCalm DEF Calm, Shape
<1>2. Becomes(CoreEnds(u, "aborted"))
  BY DEF WorkFence
<1> HIDE DEF u
<1>3. Calm(Now, CoreEnds(u, "aborted"))
  BY <1>1, CoreEndsCalm, CalmTrans
<1> QED
  BY <1>2, <1>3, CalmStep DEF WorkFence

LEMMA WorkAdmitGood == ASSUME IInv, WorkAdmit PROVE Good
<1> DEFINE u == [Taken EXCEPT !.router.pending = TRUE, !.router.early = "none"]
<1>1. Calm(Taken, u)
  BY TakenCalm DEF Calm, Shape
<1>2. Calm(Now, u)
  BY <1>1, TakenCalm, CalmTrans
<1>3. Calm(Now, Aborted(Taken, Event1))
  BY TakenCalm, AnsweredCalm, CalmTrans DEF Aborted
<1>4. Becomes(u) \/ Becomes(Aborted(Taken, Event1))
  BY DEF WorkAdmit
<1> QED
  BY <1>2, <1>3, <1>4, CalmStep DEF WorkAdmit

LEMMA CoreAdmitGood == ASSUME IInv, CoreAdmit PROVE Good
<1> DEFINE g == worker.goal
           u == [Now EXCEPT !.core = g]
           x == [Now EXCEPT !.router.pending = FALSE, !.pending = @ \ {goal[g].at}]
<1>1. Calm(Now, u) /\ Calm(Now, x) /\ Shape(x)
  BY NowCalm DEF Calm, Shape
<1>2. Becomes(u) \/ Becomes(Aborted(x, g))
  BY DEF CoreAdmit
<1> HIDE DEF u, x
<1>3. Calm(Now, Aborted(x, g))
  BY <1>1, AnsweredCalm, CalmTrans DEF Aborted
<1> QED
  BY <1>1, <1>2, <1>3, CalmStep DEF CoreAdmit

LEMMA StartStepGood == ASSUME IInv, StartStep PROVE Good
<1> DEFINE g == worker.goal
           u == [Now EXCEPT !.registry[g] = "open"]
           x == CoreEnds(Now, "aborted")
<1>1. Calm(Now, u)
  BY NowCalm DEF Calm, Shape
<1>2. Becomes(u) \/ Becomes(Admitted(x, g))
  BY DEF StartStep
<1>3. Calm(Now, x) /\ Shape(x)
  BY NowCalm, CoreEndsCalm DEF Calm
<1> HIDE DEF u, x
<1>4. Calm(Now, Admitted(x, g))
  BY <1>3, AdmittedCalm, CalmTrans
<1> QED
  BY <1>1, <1>2, <1>4, CalmStep DEF StartStep

LEMMA EnterPortGood == ASSUME IInv, EnterPort PROVE Good
  BY NowCalm, CalmStep DEF EnterPort

\* The one step that brings a child: neither gate nor fence may be shut, so no STOP
\* was refused and no plane drained.
LEMMA PortStartGood == ASSUME IInv, PortStart PROVE Good
<1> DEFINE g == worker.goal
           u == [Now EXCEPT !.port.child = g, !.port.tx = "queued", !.port.cancel = FALSE]
           open == Admissible(Now, goal[g].epoch)
<1>1. Becomes(Admitted(PortStarts(Now, g), g)) /\ UNCHANGED <<stop, down>>
  BY DEF PortStart
<1>2. PortStarts(Now, g) = Relayed(Now, g) \/ (open /\ PortStarts(Now, g) = u)
  BY NowFields DEF PortStarts
<1>3. CASE PortStarts(Now, g) = Relayed(Now, g)
  <2>1. Calm(Now, Relayed(Now, g)) /\ Shape(Relayed(Now, g))
    BY NowCalm, RelayedCalm DEF Calm
  <2>2. Calm(Now, Admitted(Relayed(Now, g), g))
    BY <2>1, AdmittedCalm, CalmTrans
  <2> QED
    BY <1>1, <1>3, <2>2, CalmStep
<1>4. CASE open /\ PortStarts(Now, g) = u
  <2>1. ~gate.quiescing /\ ~fence.blocked
    BY <1>4, NowFields DEF Admissible, Allows
  <2>2. ~stop.sworn /\ stop.state # "refused" /\ ~down.drained
        /\ down.stage \in {"up", "closing"}
    BY <2>1 DEF IInv, Drained, Refused
  <2>3. Shape(u) /\ u.port.tx = "queued"
    BY NowCalm DEF Shape
  <2> HIDE DEF u
  <2>4. Calm(u, Admitted(u, g))
    BY <2>3, AdmittedCalm
  <2> DEFINE w == Admitted(u, g)
  <2>5. Becomes(w) /\ Shape(w) /\ w.port.tx = "queued"
    BY <1>1, <1>4, <2>3, <2>4 DEF Calm
  <2> HIDE DEF w
  <2>6. Shapes'
    BY <1>1, <2>5, CalmShapes DEF IInv, Shapes
  <2>7. Drained' /\ Refused'
    BY <1>1, <2>2 DEF Drained, Refused
  <2>8. NoStart /\ NoEffect
    BY <2>2 DEF NoStart, NoEffect
  <2> QED
    BY <2>6, <2>7, <2>8 DEF Good, IInv
<1> QED
  BY <1>2, <1>3, <1>4

LEMMA WorkerEndsGood == ASSUME IInv, WorkerEnds PROVE Good
  BY NowCalm, CalmStep DEF WorkerEnds

(***************************************************************************)
(* The transaction thread.                                                 *)
(***************************************************************************)
\* A lease moves to a place a drained plane may have.
LEMMA LeaseStep ==
  ASSUME IInv, NEW to, NEW w, Calm([Now EXCEPT !.port.tx = to], w), Becomes(w),
         UNCHANGED <<stop, down>>, down.drained => PlaneDrained(to)
  PROVE  Good
<1> DEFINE u == [Now EXCEPT !.port.tx = to]
<1>1. /\ u.gate = gate /\ u.fence = fence /\ u.port.tx = to /\ u.port.child = port.child
  BY NowCalm, NowFields DEF Shape
<1>2. Calm(u, w)
  OBVIOUS
<1> HIDE DEF u
<1>3. /\ gate.quiescing => gate'.quiescing
      /\ fence.blocked => fence'.blocked
      /\ port'.tx = to
      /\ port.child = Nobody => port'.child = Nobody
  BY <1>1, <1>2 DEF Calm, Becomes
<1>4. Shapes'
  BY <1>2, CalmShapes DEF Calm, IInv, Shapes
<1>5. Drained'
  BY <1>3 DEF IInv, Drained
<1>6. Refused'
  BY <1>3 DEF IInv, Refused
<1>7. NoStart
  BY <1>3 DEF NoStart
<1>8. NoEffect
  BY <1>3 DEF NoEffect, PlaneDrained, Leased
<1> QED
  BY <1>4, <1>5, <1>6, <1>7, <1>8 DEF Good, IInv

LEMMA TxStepGood ==
  ASSUME IInv, NEW from, NEW to, TxStep(from, to), UNCHANGED <<stop, down>>,
         down.drained => PlaneDrained(to)
  PROVE  Good
<1> DEFINE u == [Now EXCEPT !.port.tx = to]
<1>1. Becomes(u)
  BY DEF TxStep
<1>2. Shape(u)
  BY NowCalm DEF Shape
<1>3. Calm(u, u)
  BY <1>2, CalmSelf
<1> QED
  BY <1>1, <1>3, LeaseStep

\* A drained plane has no step that grants, checks or takes effect.
LEMMA TransactionGood == ASSUME IInv, Transaction PROVE Good
<1>1. down.drained => gate.quiescing /\ PlaneDrained(port.tx)
  BY DEF IInv, Drained
<1>2. CASE TxBegin
  <2>1. PICK to \in {"failed", "pending"} :
          TxStep("queued", to) /\ (gate.quiescing => to = "failed")
    BY <1>2 DEF TxBegin
  <2> QED
    BY <1>1, <1>2, <2>1, TxStepGood DEF TxBegin, PlaneDrained, Leased
<1>3. CASE TxGrant
  <2>1. PICK to \in {"failed", "in flight"} : TxStep("pending", to)
    BY <1>3 DEF TxGrant
  <2> QED
    BY <1>1, <1>3, <2>1, TxStepGood DEF TxGrant, TxStep, PlaneDrained
<1>4. CASE TxInvoke
  <2>1. PICK to \in {"rollback", "invoking"} : TxStep("in flight", to)
    BY <1>4 DEF TxInvoke
  <2> QED
    BY <1>1, <1>4, <2>1, TxStepGood DEF TxInvoke, TxStep, PlaneDrained, Leased
<1>5. CASE TxEffect
  BY <1>1, <1>5, TxStepGood DEF TxEffect, TxStep, PlaneDrained, Leased
<1>6. CASE TxCommit
  <2>1. PICK to \in {"rollback", "none"} : TxStep("effected", to)
    BY <1>6 DEF TxCommit
  <2> QED
    BY <1>1, <1>6, <2>1, TxStepGood DEF TxCommit, TxStep, PlaneDrained, Leased
<1>7. CASE TxRollback
  BY <1>1, <1>7, TxStepGood DEF TxRollback, TxStep, PlaneDrained, Leased
<1>8. CASE TxFails
  <2> DEFINE u == [Now EXCEPT !.port.tx = "none"]
  <2>1. Shape(u)
    BY NowCalm DEF Shape
  <2>2. Becomes(u) \/ Becomes(PortEnds(u))
    BY <1>8 DEF TxFails
  <2>3. Calm(u, u) /\ Calm(u, PortEnds(u))
    BY <2>1, CalmSelf, PortEndsCalm
  <2>4. PlaneDrained("none")
    BY DEF PlaneDrained, Leased
  <2> QED
    BY <1>8, <2>2, <2>3, <2>4, LeaseStep DEF TxFails
<1> QED
  BY <1>2, <1>3, <1>4, <1>5, <1>6, <1>7, <1>8 DEF Transaction

LEMMA PortThreadGood == ASSUME IInv, PortThread PROVE Good
<1>1. Becomes(PortEnds(Now)) /\ UNCHANGED <<stop, down>>
  BY DEF PortThread, ChildEnds, Teardown
<1> QED
  BY <1>1, NowCalm, PortEndsCalm, CalmStep

LEMMA LaneTakesGood == ASSUME IInv, LaneTakes PROVE Good
<1> DEFINE u == [Now EXCEPT !.lane = Tail(@)]
<1>1. Calm(Now, u) /\ Shape(u)
  BY NowCalm DEF Calm, Shape
<1>2. Becomes(CoreResult(u, Head(lane)))
  BY DEF LaneTakes
<1> HIDE DEF u
<1>3. Calm(Now, CoreResult(u, Head(lane)))
  BY <1>1, CoreResultCalm, CalmTrans
<1> QED
  BY <1>2, <1>3, CalmStep DEF LaneTakes

(***************************************************************************)
(* The shutdown.                                                           *)
(***************************************************************************)
\* A stage after the closing of the admission follows another.
LEMMA StageStep ==
  ASSUME IInv, NEW w, Calm(Now, w), Becomes(w), UNCHANGED stop,
         DOMAIN down' = DOMAIN down, down'.drained => down.drained,
         down'.stage \notin {"up", "closing"} => down.stage \notin {"up", "closing"}
  PROVE  Good
<1>1. Shapes'
  BY CalmShapes DEF Calm, IInv, Shapes
<1>2. Drained'
  BY NowFields DEF Calm, Becomes, IInv, Drained
<1>3. Refused'
  BY NowFields DEF Calm, Becomes, IInv, Refused
<1>4. NoStart /\ NoEffect
  BY NowFields DEF Calm, Becomes, NoStart, NoEffect
<1> QED
  BY <1>1, <1>2, <1>3, <1>4 DEF Good, IInv

LEMMA GoesFacts ==
  ASSUME IInv, NEW to, Goes(to)
  PROVE  DOMAIN down' = DOMAIN down /\ down'.drained = down.drained /\ down'.stage = to
  BY DEF IInv, Shapes, Goes

LEMMA ShutdownAskedGood == ASSUME IInv, ShutdownAsked PROVE Good
  BY NowCalm, GoesFacts, StageStep DEF ShutdownAsked, Keeps

LEMMA CloseGenerationGood == ASSUME IInv, CloseGeneration PROVE Good
<1> DEFINE w == [Now EXCEPT !.gate.quiescing = TRUE]
<1>1. Calm(Now, w) /\ w.gate.quiescing
  BY NowCalm DEF Calm, Shape
<1>2. Becomes(w) /\ Goes("begin") /\ UNCHANGED stop
  BY DEF CloseGeneration
<1> HIDE DEF w
<1>3. DOMAIN down' = DOMAIN down /\ down'.drained = down.drained
  BY <1>2, GoesFacts
<1>4. Shapes'
  BY <1>1, <1>2, <1>3, CalmShapes DEF Calm, IInv, Shapes
<1>5. Drained'
  BY <1>1, <1>2, <1>3, NowFields DEF Calm, Becomes, IInv, Drained
<1>6. Refused'
  BY <1>1, <1>2 DEF Becomes, Refused
<1>7. NoStart /\ NoEffect
  BY <1>1, <1>2, NowFields DEF Calm, Becomes, NoStart, NoEffect
<1> QED
  BY <1>4, <1>5, <1>6, <1>7 DEF Good, IInv

LEMMA BeginRunningShutdownGood == ASSUME IInv, BeginRunningShutdown PROVE Good
<1> DEFINE u == Inhibited(Now)
           w == [u EXCEPT !.port.shutting = TRUE]
<1>1. Calm(Now, u) /\ Shape(u)
  BY NowCalm, InhibitedCalm DEF Calm
<1>2. Becomes(w)
  BY DEF BeginRunningShutdown
<1> HIDE DEF u
<1>3. Calm(u, w)
  BY <1>1 DEF Calm, Shape
<1>4. Calm(Now, w)
  BY <1>1, <1>3, CalmTrans
<1> QED
  BY <1>2, <1>4, GoesFacts, StageStep DEF BeginRunningShutdown

LEMMA InternalCompletionGood == ASSUME IInv, InternalCompletion PROVE Good
<1>1. DOMAIN down' = DOMAIN down /\ down'.drained = down.drained
  BY DEF InternalCompletion, IInv, Shapes
<1> QED
  BY <1>1, NowCalm, StageStep DEF InternalCompletion, Keeps

\* The plane counts as drained only when it is, and the admission is closed by then.
LEMMA TransactionDrainGood == ASSUME IInv, TransactionDrain PROVE Good
<1>1. /\ Becomes(Now) /\ UNCHANGED stop /\ gate.quiescing
  BY DEF TransactionDrain, Keeps, IInv, Drained
<1>2. PICK ok \in {PlaneDrained(port.tx), FALSE}, zero \in BOOLEAN :
        down' = [down EXCEPT !.stage = "terminal", !.drained = ok,
                             !.safe = @ /\ ok /\ zero]
  BY DEF TransactionDrain
<1>3. DOMAIN down' = DOMAIN down /\ down'.drained = ok
  BY <1>2 DEF IInv, Shapes
<1>4. down'.drained => PlaneDrained(port.tx)
  BY <1>2, <1>3
<1>5. UNCHANGED <<gate, fence, port>>
  BY <1>1, NowFields DEF Becomes
<1>6. Shapes'
  BY <1>1, <1>3, NowCalm, CalmShapes DEF Calm, IInv, Shapes
<1>7. Drained' /\ Refused'
  BY <1>1, <1>4, <1>5 DEF IInv, Drained, Refused
<1>8. NoStart /\ NoEffect
  BY <1>5 DEF NoStart, NoEffect
<1> QED
  BY <1>6, <1>7, <1>8 DEF Good, IInv

LEMMA DrainTicketsGood == ASSUME IInv, DrainTickets PROVE Good
<1>1. PICK w \in Pruned(Now) : Becomes(IF Tickets(w) = {} THEN w
        ELSE Emergency(Inhibited(Ticketed(w, Tickets(w), "revoked")), FALSE))
  BY DEF DrainTickets
<1> DEFINE u == Ticketed(w, Tickets(w), "revoked")
<1>2. Calm(Now, w) /\ Shape(w)
  BY NowCalm, PrunedCalm DEF Calm
<1>3. Calm(Now, u) /\ Shape(u)
  BY <1>2, TicketedCalm, CalmTrans DEF Calm
<1>4. Calm(Now, Inhibited(u)) /\ Shape(Inhibited(u))
  BY <1>3, InhibitedCalm, CalmTrans DEF Calm
<1>5. Calm(Now, Emergency(Inhibited(u), FALSE))
  BY <1>4, EmergencyCalm, CalmTrans
<1> QED
  BY <1>1, <1>2, <1>5, GoesFacts, StageStep DEF DrainTickets

LEMMA JointEmergencyGood == ASSUME IInv, JointEmergency PROVE Good
<1>1. Calm(Now, Inhibited(Now)) /\ Shape(Inhibited(Now))
  BY NowCalm, InhibitedCalm DEF Calm
<1>2. Calm(Now, Emergency(Inhibited(Now), FALSE))
  BY <1>1, EmergencyCalm, CalmTrans
<1> QED
  BY <1>2, GoesFacts, StageStep DEF JointEmergency

LEMMA JoinWorkerGood == ASSUME IInv, JoinWorker PROVE Good
<1> DEFINE u == Ticketed(Now, Tickets(Now), "none")
           w == [u EXCEPT !.registry = [g \in Goal |-> "none"]]
<1>1. Calm(Now, u) /\ Shape(u)
  BY NowCalm, TicketedCalm DEF Calm
<1>2. Becomes(w)
  BY DEF JoinWorker
<1> HIDE DEF u
<1>3. Calm(u, w)
  BY <1>1 DEF Calm, Shape
<1>4. Calm(Now, w)
  BY <1>1, <1>3, CalmTrans
<1> QED
  BY <1>2, <1>4, GoesFacts, StageStep DEF JoinWorker

LEMMA ShutdownGood == ASSUME IInv, Shutdown PROVE Good
<1>1. CASE JointConditions \/ JointDeadline \/ DeactivateCallbacks
  BY <1>1, NowCalm, GoesFacts, StageStep
     DEF JointConditions, JointDeadline, DeactivateCallbacks, Keeps
<1>2. CASE CoreFailClosed
  <2>1. Calm(Now, CoreEnds(Now, "aborted"))
    BY NowCalm, CoreEndsCalm
  <2> QED
    BY <1>2, <2>1, GoesFacts, StageStep DEF CoreFailClosed
<1>3. CASE CloseQueue
  <2> DEFINE w == [Now EXCEPT !.queue.closed = TRUE]
  <2>1. Calm(Now, w)
    BY NowCalm DEF Calm, Shape
  <2>2. Becomes(w)
    BY <1>3 DEF CloseQueue
  <2> QED
    BY <1>3, <2>1, <2>2, GoesFacts, StageStep DEF CloseQueue
<1> QED
  BY <1>1, <1>2, <1>3, CloseGenerationGood, BeginRunningShutdownGood,
     InternalCompletionGood, TransactionDrainGood, JointEmergencyGood,
     DrainTicketsGood, JoinWorkerGood DEF Shutdown

-----------------------------------------------------------------------------
(***************************************************************************)
(* The two action properties.                                              *)
(***************************************************************************)
LEMMA InitInv == Init => IInv
<1> SUFFICES ASSUME Init PROVE IInv
  OBVIOUS
<1>1. Shape(Now)
  BY DEF Init, Shape, Now
<1>2. DOMAIN stop = {"state", "made", "sworn"} /\ DOMAIN down = {"stage", "safe", "drained"}
  BY DEF Init
<1>3. Drained /\ Refused
  BY DEF Init, Drained, Refused
<1> QED
  BY <1>1, <1>2, <1>3 DEF IInv, Shapes

LEMMA NextGood == ASSUME IInv, [Next]_vars PROVE Good
<1>1. CASE UNCHANGED vars
  BY <1>1, NowCalm, CalmStep DEF vars, Becomes, Now
<1>2. CASE Callback
  BY <1>2, OnGoalGood, OnCancelGood, OnAcceptedGood, TurnAwayGood, TimerGood,
     GateSnapshotGood, OnStopGood, StopEmergencyGood, StopDeadlineGood DEF Callback
<1>3. CASE Worker
  BY <1>3, WorkCancelGood, WorkStopGood, WorkResultGood, WorkLookGood, WorkDropGood,
     WorkFenceGood, WorkAdmitGood, CoreAdmitGood, StartStepGood, EnterPortGood,
     PortStartGood, WorkerEndsGood DEF Worker
<1> QED
  BY <1>1, <1>2, <1>3, EmergencyCallbackGood, TransactionGood, PortThreadGood,
     LaneTakesGood, ShutdownAskedGood, ShutdownGood DEF Next

LEMMA Invariance == Spec => []IInv
<1>1. IInv /\ [Next]_vars => IInv'
  BY NextGood DEF Good
<1> QED
  BY InitInv, <1>1, PTL DEF Spec

\* After a STOP that the queue refused has stopped the Adapter, no child starts: the
\* gate that closed, or the fence that went up when the lane was full, refuses the
\* Adapter's start too (on_stop, RuntimeEventIngress::enqueue, start).
THEOREM RefusedStopHolds == Spec => NoStartAfterRefusedStop
<1>1. IInv /\ [Next]_vars => [port.child = Nobody /\ port.child' # Nobody => ~stop.sworn]_vars
  BY NextGood DEF Good, NoStart
<1> QED
  BY Invariance, <1>1, PTL DEF Spec, NoStartAfterRefusedStop

\* Once the shutdown saw the transactions drained, no side effect of a child goes out:
\* the closed generation lets no lease be granted (RuntimeTransactionPlane).
THEOREM DrainedStaysStill == Spec => DrainedIsStill
<1>1. IInv /\ [Next]_vars => [port.tx = "invoking" /\ port.tx' = "effected" => ~down.drained]_vars
  BY NextGood DEF Good, NoEffect
<1> QED
  BY Invariance, <1>1, PTL DEF Spec, DrainedIsStill

-----------------------------------------------------------------------------
(***************************************************************************)
(* The books and the trail: the state invariants.                          *)
(***************************************************************************)
ControlEvent == {Cancel(g) : g \in Goal} \cup {Result(g) : g \in Goal} \cup {Stop, Fault}
NormalEvent == {Admit(g) : g \in Goal} \cup {Look}
Owner == Goal \cup {Nobody}
Tx == {"none", "queued", "pending", "in flight", "invoking", "effected", "rollback", "failed"}

QueueType ==
  [control : Seq(ControlEvent), normal : Seq(NormalEvent), fault : BOOLEAN,
   recorded : BOOLEAN, closed : BOOLEAN]

Entry ==
  [state : GoalState, epoch : Nat, at : Address,
   ticket : {"none", "provisional", "revoked"}, asked : BOOLEAN, results : Nat]

PortType == [child : Owner, tx : Tx, cancel : BOOLEAN, shutting : BOOLEAN]

World ==
  [fence : [epoch : Nat, blocked : BOOLEAN, pending : BOOLEAN], queue : QueueType,
   gate : [quiescing : BOOLEAN, emergency : {"none", "due", "in submit"}],
   goal : [Goal -> Entry],
   pending : SUBSET Address, goals : SUBSET Goal, core : Owner,
   router : [pending : BOOLEAN, active : Owner, early : {"none"} \cup Ended],
   registry : [Goal -> {"none", "open", "record"}], lane : Seq(Goal), port : PortType]

Workers == [pc : {"idle", "ended"} \cup Dispatching, goal : Owner]

\* From the slot on, the admission itself is what will put the goal into goals_.
Entering == {"admitted", "calling", "starting"}

Has(s, e) == \E i \in DOMAIN s : s[i] = e

\* No lane is over its capacity.
Room(w) ==
  /\ Len(w.queue.control) <= ControlSlots
  /\ Len(w.queue.normal) <= NormalSlots
  /\ Len(w.lane) <= LaneSlots

\* A goal that is over has its one result, and no other goal has any.
Counted(w) == \A g \in Goal :
  w.goal[g].results = IF w.goal[g].state \in Ended THEN 1 ELSE 0

\* The epoch counts the Missions that have ended, and the first raise of the fence.
Over(w) == {g \in Goal : w.goal[g].state \in Ended}
Dated(w) ==
  /\ w.fence.epoch \in 1..(1 + Cardinality(Over(w)) + IF w.fence.blocked THEN 1 ELSE 0)
  /\ \A g \in Goal : w.goal[g].epoch \in 1..w.fence.epoch

\* Core, router and goals_ name one goal, except while an admission is between the
\* slot of the core and its commit; no result comes early from outside of it.
Slot(w, k) ==
  /\ w.router.early = "none"
  /\ IF k.pc \in Entering
     THEN w.core = k.goal /\ w.goals = {} /\ w.router.active = Nobody
     ELSE w.router.active = w.core /\ w.goals = {w.core} \ {Nobody}
  /\ IF k.pc \in Dispatching
     THEN w.router.pending /\ k.goal \in Goal \ w.goals /\ w.goal[k.goal].state = "accepted"
     ELSE k.goal = Nobody
  /\ \A g \in w.goals : w.goal[g].state = "accepted"

\* An admission in the queue is the only one of its goal, which is nowhere else.
Claims(w, k) == \A i \in DOMAIN w.queue.normal : \A g \in Goal :
  w.queue.normal[i] = Admit(g) =>
    /\ w.goal[g].state = "accepted" /\ g \notin w.goals /\ g # k.goal
    /\ \A j \in DOMAIN w.queue.normal : w.queue.normal[j] = Admit(g) => i = j

Somewhere(w, k) == \A g \in Goal : w.goal[g].state = "accepted" =>
    \/ w.fence.blocked
    \/ g \in w.goals
    \/ \E i \in DOMAIN w.queue.normal : w.queue.normal[i] = Admit(g)
    \/ k.goal = g

Books(w, k) ==
  /\ w \in World /\ k \in Workers
  /\ Room(w) /\ Counted(w) /\ Dated(w) /\ Slot(w, k) /\ Claims(w, k) /\ Somewhere(w, k)

BInv == Books(Now, worker)

\* The end of the core's Mission is on the way.
Ending(w) ==
  \/ w.fence.pending \/ Has(w.queue.control, Stop)
  \/ Has(w.queue.control, Result(w.core)) \/ Has(w.lane, w.core)

\* A Mission without a child, or with one that was told to stop, ends.
Way(w, k) ==
  w.core # Nobody /\ k.pc \notin Entering /\ (w.port.child # w.core \/ w.port.cancel)
    => Ending(w)

\* The event that ends a Mission finds the record it comes for.
Recorded(w) ==
  w.core # Nobody /\ Has(w.queue.control, Result(w.core)) =>
    w.registry[w.core] = "record" \/ w.fence.blocked

\* Children and records are those of Missions that were admitted.
Issued(w) == \A g \in Goal :
  Has(w.queue.control, Result(g)) \/ w.port.child = g => g \in w.goals \cup Over(w)

\* Once the worker has seen the fence, the core is empty and stays so.
FailsClosed(w, k) ==
  w.fence.blocked /\ ~w.fence.pending => w.core = Nobody /\ k.pc \notin Dispatching

Called(w) == w.gate.emergency # "none" => w.fence.blocked
Awaited(w, s) == s = "waiting" => Has(w.queue.control, Stop)

\* Once the admission is closed, the shutdown is what ends the Mission.
Trail(w, k, s) ==
  /\ w.gate.quiescing \/ (Way(w, k) /\ Recorded(w) /\ Awaited(w, s))
  /\ Issued(w) /\ FailsClosed(w, k) /\ Called(w)

TInv == Trail(Now, worker, stop.state)

-----------------------------------------------------------------------------
(***************************************************************************)
(* The books: what a step leaves alone.  Most helpers are quiet: they      *)
(* answer nobody, enter and remove nobody, and move the epoch only with    *)
(* the first raise of the fence.                                           *)
(***************************************************************************)
Quiet(v, w) ==
  /\ w \in World /\ Room(w)
  /\ \A g \in Goal : /\ w.goal[g].state = v.goal[g].state
                     /\ w.goal[g].results = v.goal[g].results
                     /\ w.goal[g].epoch = v.goal[g].epoch
  /\ w.goals = v.goals /\ w.core = v.core /\ w.router = v.router
  /\ w.queue.normal = v.queue.normal
  /\ v.fence.blocked => w.fence.blocked
  /\ \/ w.fence.epoch = v.fence.epoch
     \/ ~v.fence.blocked /\ w.fence.blocked /\ w.fence.epoch = v.fence.epoch + 1

LEMMA QuietSelf == ASSUME NEW v \in World, Room(v) PROVE Quiet(v, v)
  BY DEF Quiet

LEMMA QuietWorld == ASSUME NEW v, NEW w, Quiet(v, w) PROVE w \in World /\ Room(w)
  BY DEF Quiet

LEMMA QuietTrans ==
  ASSUME NEW u, NEW v, NEW w, Quiet(u, v), Quiet(v, w)
  PROVE  Quiet(u, w)
  BY DEF Quiet

LEMMA FencedBlocked == ASSUME NEW v \in World PROVE 
  v.fence.blocked \in BOOLEAN /\ v.fence.epoch \in Nat
  BY DEF World

LEMMA OverFinite == ASSUME NEW w PROVE IsFiniteSet(Over(w)) /\ Cardinality(Over(w)) \in Nat
  BY NodeAssumption, FS_Subset, FS_CardinalityType DEF Over

LEMMA QuietDated ==
  ASSUME NEW v \in World, NEW w, Dated(v), Quiet(v, w)
  PROVE  Dated(w)
<1>1. Over(w) = Over(v)
  BY DEF Quiet, Over
<1>2. Cardinality(Over(v)) \in Nat
  BY OverFinite
<1>3. w.fence.blocked \in BOOLEAN /\ v.fence.blocked \in BOOLEAN /\ v.fence.epoch \in Nat
  BY FencedBlocked DEF Quiet
<1>4. w.fence.epoch \in 1..(1 + Cardinality(Over(v)) + IF w.fence.blocked THEN 1 ELSE 0)
      /\ v.fence.epoch <= w.fence.epoch
  BY <1>2, <1>3 DEF Dated, Quiet
<1>5. \A g \in Goal : w.goal[g].epoch \in 1..w.fence.epoch
  BY <1>3, <1>4 DEF Dated, Quiet
<1> QED
  BY <1>1, <1>4, <1>5 DEF Dated

LEMMA QuietBooks ==
  ASSUME NEW v, NEW w, NEW k, Books(v, k), Quiet(v, w)
  PROVE  Books(w, k)
<1>1. Dated(w)
  BY QuietDated DEF Books
<1>2. Counted(w)
  BY DEF Books, Quiet, Counted
<1>3. Slot(w, k)
  <2>1. \A g \in v.goals : g \in Goal
    BY DEF Books, World
  <2>2. \A g \in w.goals : w.goal[g].state = "accepted"
    BY <2>1 DEF Books, Quiet, Slot
  <2>3. k.pc \in Dispatching => k.goal \in Goal /\ w.goal[k.goal].state = "accepted"
    BY DEF Books, Quiet, Slot
  <2> QED
    BY <2>2, <2>3 DEF Books, Quiet, Slot
<1>4. Claims(w, k)
  BY DEF Books, Quiet, Claims
<1>5. Somewhere(w, k)
  BY DEF Books, Quiet, Somewhere
<1> QED
  BY <1>1, <1>2, <1>3, <1>4, <1>5 DEF Books, Quiet

LEMMA InhibitedQuiet == ASSUME NEW v \in World, Room(v) PROVE Quiet(v, Inhibited(v))
<1> DEFINE w == Inhibited(v)
<1>1. w \in World
  BY DEF World, Inhibited, PortType, Tx
<1>2. /\ w.goal = v.goal /\ w.goals = v.goals /\ w.core = v.core /\ w.router = v.router
      /\ w.queue = v.queue /\ w.fence = v.fence /\ w.lane = v.lane
  BY DEF World, Inhibited
<1> QED
  BY <1>1, <1>2 DEF Quiet, Room

LEMMA EmergencyQuiet ==
  ASSUME NEW v \in World, Room(v), NEW submits \in BOOLEAN
  PROVE Quiet(v, Emergency(v, submits))
<1> DEFINE w == Emergency(v, submits)
<1>1. w \in World
  <2>1. CASE v.fence.blocked
    BY <2>1 DEF Emergency
  <2>2. CASE ~v.fence.blocked
    <3> DEFINE f == [epoch |-> v.fence.epoch + 1, blocked |-> TRUE, pending |-> TRUE]
               e == IF submits THEN "in submit" ELSE "due"
    <3>1. w = [v EXCEPT !.fence = f, !.gate.emergency = e]
      BY <2>2 DEF Emergency, World
    <3>2. f \in [epoch : Nat, blocked : BOOLEAN, pending : BOOLEAN]
      BY FencedBlocked
    <3>3. e \in {"none", "due", "in submit"}
      OBVIOUS
    <3> HIDE DEF w, e, f
    <3> QED
      BY <3>1, <3>2, <3>3 DEF World
  <2> QED
    BY <2>1, <2>2
<1>2. /\ w.goal = v.goal /\ w.goals = v.goals /\ w.core = v.core /\ w.router = v.router
      /\ w.queue = v.queue /\ w.lane = v.lane
      /\ w = v \/ (~v.fence.blocked /\ w.fence.blocked /\ w.fence.epoch = v.fence.epoch + 1)
  BY DEF World, Emergency
<1> QED
  BY <1>1, <1>2 DEF Quiet, Room

LEMMA ControlLane == \A e \in ControlEvent : LaneOf(e) = "control"
  BY DEF ControlEvent, LaneOf, Cancel, Result, Stop, Fault

LEMMA Controls == /\ Stop \in ControlEvent /\ Fault \in ControlEvent
                  /\ \A g \in Goal : Cancel(g) \in ControlEvent /\ Result(g) \in ControlEvent
  BY DEF ControlEvent

LEMMA WorldQueue ==
  ASSUME NEW v \in World, NEW q \in QueueType
  PROVE  LET w == [v EXCEPT !.queue = q]
         IN  /\ w \in World /\ w.queue = q /\ w.fence = v.fence /\ w.gate = v.gate
             /\ w.goal = v.goal /\ w.pending = v.pending /\ w.goals = v.goals
             /\ w.core = v.core /\ w.router = v.router /\ w.registry = v.registry
             /\ w.lane = v.lane /\ w.port = v.port
  BY DEF World, QueueType

LEMMA QueueIs == ASSUME NEW v \in World PROVE v.queue \in QueueType
  BY DEF World, QueueType

LEMMA SlotsNat == ControlSlots \in Nat /\ NormalSlots \in Nat /\ LaneSlots \in Nat
  BY NodeAssumption

LEMMA QueueQuiet ==
  ASSUME NEW v \in World, Room(v), NEW q \in QueueType, q.normal = v.queue.normal,
         Len(q.control) <= ControlSlots
  PROVE  Quiet(v, [v EXCEPT !.queue = q])
<1> DEFINE w == [v EXCEPT !.queue = q]
<1>1. /\ w \in World /\ w.queue = q /\ w.fence = v.fence
      /\ w.goal = v.goal /\ w.goals = v.goals
      /\ w.core = v.core /\ w.router = v.router /\ w.lane = v.lane
  BY WorldQueue
<1> HIDE DEF w
<1>2. Quiet(v, w)
  BY <1>1 DEF Quiet, Room
<1> QED
  BY <1>2 DEF w

LEMMA ControlAppended ==
  ASSUME NEW q \in QueueType, NEW e \in ControlEvent, HasRoom(q, "control")
  PROVE  /\ [q EXCEPT !.control = Append(@, e)] \in QueueType
         /\ [q EXCEPT !.control = Append(@, e)].normal = q.normal
         /\ Len([q EXCEPT !.control = Append(@, e)].control) <= ControlSlots
<1> DEFINE s == Append(q.control, e)
           p == [q EXCEPT !.control = s]
<1>1. s \in Seq(ControlEvent) /\ Len(s) = Len(q.control) + 1 /\ Len(q.control) \in Nat
  BY AppendProperties, LenProperties DEF QueueType
<1>2. Len(s) <= ControlSlots
  BY <1>1, SlotsNat DEF HasRoom, Slots
<1> HIDE DEF s
<1>3. p \in QueueType /\ p.normal = q.normal /\ p.control = s
  BY <1>1 DEF QueueType
<1> QED
  BY <1>2, <1>3 DEF s

LEMMA FaultRecordedQuiet ==
  ASSUME NEW v \in World, Room(v)
  PROVE  Quiet(v, [v EXCEPT !.queue = FaultRecorded(@)])
<1> DEFINE q == FaultRecorded(v.queue)
<1>1. q \in QueueType /\ q.normal = v.queue.normal /\ Len(q.control) <= ControlSlots
  <2>1. CASE v.queue.closed \/ v.queue.recorded
    BY <2>1, QueueIs DEF FaultRecorded, Room
  <2>2. CASE ~(v.queue.closed \/ v.queue.recorded) /\ HasRoom(v.queue, "control")
    <3> DEFINE p == [v.queue EXCEPT !.control = Append(@, Fault)]
    <3>1. p \in QueueType /\ p.normal = v.queue.normal /\ Len(p.control) <= ControlSlots
      BY <2>2, QueueIs, Controls, ControlAppended
    <3>2. q = [p EXCEPT !.recorded = TRUE]
      BY <2>2, QueueIs DEF FaultRecorded, QueueType
    <3> HIDE DEF p, q
    <3> QED
      BY <3>1, <3>2 DEF QueueType
  <2>3. CASE ~(v.queue.closed \/ v.queue.recorded) /\ ~HasRoom(v.queue, "control")
    <3>1. q = [v.queue EXCEPT !.recorded = TRUE, !.fault = TRUE]
      BY <2>3 DEF FaultRecorded
    <3> HIDE DEF q
    <3> QED
      BY <3>1, QueueIs DEF QueueType, Room
  <2> QED
    BY <2>1, <2>2, <2>3
<1> HIDE DEF q
<1> QED
  BY <1>1, QueueQuiet DEF q

LEMMA RefusedQuiet ==
  ASSUME NEW v \in World, Room(v), NEW e, NEW submits \in BOOLEAN, ~Takes(v, e)
  PROVE  Quiet(v, Enqueued(v, e, submits))
<1> DEFINE u == [v EXCEPT !.queue = IF LaneOf(e) = "normal" THEN FaultRecorded(@) ELSE @]
<1>1. Enqueued(v, e, submits) = IF v.fence.blocked THEN v ELSE Emergency(u, submits)
  BY DEF Enqueued
<1>2. Quiet(v, u)
  <2>1. CASE LaneOf(e) = "normal"
    BY <2>1, FaultRecordedQuiet
  <2>2. CASE LaneOf(e) # "normal"
    <3>1. u = v
      BY <2>2 DEF World
    <3> QED
      BY <3>1, QuietSelf
  <2> QED
    BY <2>1, <2>2
<1> HIDE DEF u
<1>3. Quiet(v, Emergency(u, submits))
  BY <1>2, EmergencyQuiet, QuietTrans, QuietWorld
<1> QED
  BY <1>1, <1>3, QuietSelf

LEMMA TakenControl ==
  ASSUME NEW v \in World, NEW e \in ControlEvent, NEW submits, Takes(v, e)
  PROVE  Enqueued(v, e, submits) = [v EXCEPT !.queue = [v.queue EXCEPT !.control = Append(@, e)]]
  BY ControlLane DEF Enqueued, World

LEMMA EnqueuedQuiet ==
  ASSUME NEW v \in World, Room(v), NEW e \in ControlEvent, NEW submits \in BOOLEAN
  PROVE  Quiet(v, Enqueued(v, e, submits))
<1> DEFINE q == [v.queue EXCEPT !.control = Append(@, e)]
<1>1. CASE Takes(v, e)
  <2>1. HasRoom(v.queue, "control")
    BY <1>1, ControlLane DEF Takes
  <2>2. q \in QueueType /\ q.normal = v.queue.normal /\ Len(q.control) <= ControlSlots
    BY <2>1, QueueIs, ControlAppended
  <2>3. Enqueued(v, e, submits) = [v EXCEPT !.queue = q]
    BY <1>1, TakenControl
  <2> HIDE DEF q
  <2> QED
    BY <2>2, <2>3, QueueQuiet
<1> QED
  BY <1>1, RefusedQuiet

LEMMA DivertedQuiet ==
  ASSUME NEW v \in World, Room(v), NEW g \in Goal
  PROVE  Quiet(v, Diverted(v, g))
<1> DEFINE l == IF Len(v.lane) < LaneSlots THEN Append(v.lane, g) ELSE v.lane
           r == [v.registry EXCEPT ![g] = "none"]
           u == [v EXCEPT !.registry = r, !.lane = l]
<1>1. l \in Seq(Goal) /\ Len(l) <= LaneSlots
  <2>1. v.lane \in Seq(Goal)
    BY DEF World
  <2>2. Append(v.lane, g) \in Seq(Goal) /\ Len(Append(v.lane, g)) = Len(v.lane) + 1
        /\ Len(v.lane) \in Nat
    BY <2>1, AppendProperties, LenProperties
  <2> QED
    BY <2>1, <2>2, SlotsNat DEF Room
<1>2. r \in [Goal -> {"none", "open", "record"}]
  BY DEF World
<1>3. Diverted(v, g) = Emergency(u, FALSE)
  BY DEF Diverted
<1> HIDE DEF l, r
<1>4. u \in World
  BY <1>1, <1>2 DEF World
<1>5. /\ u.goal = v.goal /\ u.goals = v.goals /\ u.core = v.core /\ u.router = v.router
      /\ u.queue = v.queue /\ u.fence = v.fence /\ u.lane = l
  BY DEF World
<1> HIDE DEF u
<1>6. Quiet(v, u)
  BY <1>1, <1>4, <1>5 DEF Quiet, Room
<1> QED
  BY <1>3, <1>6, EmergencyQuiet, QuietTrans, QuietWorld

LEMMA RegistryQuiet ==
  ASSUME NEW v \in World, Room(v), NEW r \in [Goal -> {"none", "open", "record"}]
  PROVE  Quiet(v, [v EXCEPT !.registry = r])
<1> DEFINE u == [v EXCEPT !.registry = r]
<1>1. u \in World
  BY DEF World
<1>2. /\ u.goal = v.goal /\ u.goals = v.goals /\ u.core = v.core /\ u.router = v.router
      /\ u.queue = v.queue /\ u.fence = v.fence /\ u.lane = v.lane
  BY DEF World
<1> HIDE DEF u
<1>3. Quiet(v, u)
  BY <1>1, <1>2 DEF Quiet, Room
<1> QED
  BY <1>3 DEF u

LEMMA RegistrySet ==
  ASSUME NEW v \in World, NEW g \in Goal, NEW x \in {"none", "open", "record"}
  PROVE  /\ [v EXCEPT !.registry[g] = x] = [v EXCEPT !.registry = [@ EXCEPT ![g] = x]]
         /\ [v.registry EXCEPT ![g] = x] \in [Goal -> {"none", "open", "record"}]
  BY DEF World

LEMMA RelayedQuiet ==
  ASSUME NEW v \in World, Room(v), NEW g \in Goal
  PROVE  Quiet(v, Relayed(v, g))
<1> DEFINE u == [v EXCEPT !.registry[g] = "record"]
           x == Enqueued(v, Result(g), FALSE)
<1>1. Quiet(v, u)
  BY RegistrySet, RegistryQuiet
<1>2. Relayed(v, g) \in {Diverted(v, g), Enqueued(u, Result(g), FALSE), Diverted(x, g)}
  BY DEF Relayed
<1> HIDE DEF u
<1>3. Quiet(v, Enqueued(u, Result(g), FALSE))
  BY <1>1, Controls, EnqueuedQuiet, QuietTrans, QuietWorld
<1>4. Quiet(v, x)
  BY Controls, EnqueuedQuiet
<1> HIDE DEF x
<1>5. Quiet(v, Diverted(x, g))
  BY <1>4, DivertedQuiet, QuietTrans, QuietWorld
<1> QED
  BY <1>2, <1>3, <1>5, DivertedQuiet

LEMMA PortQuiet ==
  ASSUME NEW v \in World, Room(v), NEW w \in World, w = [v EXCEPT !.port = w.port]
  PROVE  Quiet(v, w)
<1>2. /\ w.goal = v.goal /\ w.goals = v.goals /\ w.core = v.core /\ w.router = v.router
      /\ w.queue = v.queue /\ w.fence = v.fence /\ w.lane = v.lane
  BY DEF World
<1> QED
  BY <1>2 DEF Quiet, Room

LEMMA PortEndsQuiet ==
  ASSUME NEW v \in World, Room(v), v.port.child # Nobody
  PROVE  Quiet(v, PortEnds(v))
<1> DEFINE u == [v EXCEPT !.port.child = Nobody, !.port.cancel = FALSE]
<1>1. u \in World /\ u = [v EXCEPT !.port = u.port]
  BY DEF World, Owner, PortType, Tx
<1>2. PortEnds(v) = IF v.port.cancel /\ ~v.port.shutting THEN u ELSE Relayed(u, v.port.child)
  BY DEF PortEnds
<1> HIDE DEF u
<1>3. Quiet(v, u)
  BY <1>1, PortQuiet
<1>4. v.port.child \in Goal
  BY DEF World, Owner, PortType, Tx
<1>5. Quiet(v, Relayed(u, v.port.child))
  BY <1>3, <1>4, RelayedQuiet, QuietTrans, QuietWorld
<1> QED
  BY <1>2, <1>3, <1>5

LEMMA PortStartsQuiet ==
  ASSUME NEW v \in World, Room(v), NEW g \in Goal
  PROVE  Quiet(v, PortStarts(v, g))
<1> DEFINE u == [v EXCEPT !.port.child = g, !.port.tx = "queued", !.port.cancel = FALSE]
<1>1. u \in World /\ u = [v EXCEPT !.port = u.port]
  BY DEF World, Owner, PortType, Tx
<1>2. PortStarts(v, g) \in {u, Relayed(v, g)}
  BY DEF PortStarts
<1> HIDE DEF u
<1> QED
  BY <1>1, <1>2, PortQuiet, RelayedQuiet

LEMMA TicketedQuiet ==
  ASSUME NEW v \in World, Room(v), NEW S, NEW t \in {"none", "provisional", "revoked"}
  PROVE  /\ Quiet(v, Ticketed(v, S, t))
         /\ \A g \in Goal : Ticketed(v, S, t).goal[g].at = v.goal[g].at
<1> DEFINE f == [g \in Goal |->
     IF g \in S THEN [v.goal[g] EXCEPT !.ticket = t] ELSE v.goal[g]]
           u == [v EXCEPT !.goal = f]
<1>1. ASSUME NEW g \in Goal
      PROVE  /\ f[g].state = v.goal[g].state
             /\ f[g].results = v.goal[g].results
             /\ f[g].epoch = v.goal[g].epoch
             /\ f[g].at = v.goal[g].at
             /\ f[g] \in Entry
  <2>1. v.goal[g] \in Entry
    BY DEF World, Entry
  <2> DEFINE e == v.goal[g]
             x == [e EXCEPT !.ticket = t]
  <2>2. f[g] \in {e, x}
    OBVIOUS
  <2> HIDE DEF f, e
  <2>3. x \in Entry /\ x.state = e.state /\ x.results = e.results
        /\ x.epoch = e.epoch /\ x.at = e.at
    BY <2>1 DEF Entry, e
  <2> QED
    BY <2>1, <2>2, <2>3 DEF e
<1>2. f \in [Goal -> Entry]
  <2> DOMAIN f = Goal /\ f = [g \in Goal |-> f[g]]
    OBVIOUS
  <2> HIDE DEF f
  <2> QED
    BY <1>1
<1>3. Ticketed(v, S, t) = u
  BY DEF Ticketed
<1> HIDE DEF f
<1>4. u \in World
  BY <1>2 DEF World, Entry
<1>5. /\ u.goal = f /\ u.goals = v.goals /\ u.core = v.core /\ u.router = v.router
      /\ u.queue = v.queue /\ u.fence = v.fence /\ u.lane = v.lane
  BY DEF World
<1> HIDE DEF u
<1> QED
  BY <1>1, <1>3, <1>4, <1>5 DEF Quiet, Room

LEMMA PrunedQuiet ==
  ASSUME NEW v \in World, Room(v), NEW w \in Pruned(v) \cup Revoked(v)
  PROVE  Quiet(v, w)
  BY TicketedQuiet DEF Pruned, Revoked

-----------------------------------------------------------------------------
(***************************************************************************)
(* The end of a Mission: its goal is for a moment nowhere, then answered.  *)
(***************************************************************************)
LEMMA EntrySet ==
  ASSUME NEW v \in World, NEW g \in Goal, NEW e \in Entry
  PROVE  LET w == [v EXCEPT !.goal[g] = e]
         IN  /\ w \in World /\ w.goal[g] = e
             /\ \A h \in Goal : h # g => w.goal[h] = v.goal[h]
             /\ w.fence = v.fence /\ w.queue = v.queue /\ w.gate = v.gate
             /\ w.pending = v.pending /\ w.goals = v.goals
             /\ w.core = v.core /\ w.router = v.router /\ w.registry = v.registry
             /\ w.lane = v.lane /\ w.port = v.port
<1> DEFINE f == [v.goal EXCEPT ![g] = e]
<1>1. f \in [Goal -> Entry] /\ f[g] = e /\ \A h \in Goal : h # g => f[h] = v.goal[h]
  BY DEF World
<1>2. [v EXCEPT !.goal[g] = e] = [v EXCEPT !.goal = f]
  OBVIOUS
<1> HIDE DEF f
<1> QED
  BY <1>1, <1>2 DEF World

LEMMA EntryOf == ASSUME NEW v \in World, NEW g \in Goal PROVE v.goal[g] \in Entry
  BY DEF World

Loose(w, k, g) ==
  /\ w \in World /\ k \in Workers /\ Room(w) /\ Counted(w) /\ Slot(w, k) /\ Claims(w, k)
  /\ w.goal[g].state \notin Ended /\ g \notin w.goals /\ g # k.goal
  /\ ~Has(w.queue.normal, Admit(g))
  /\ w.fence.epoch \in 1..(2 + Cardinality(Over(w)) + IF w.fence.blocked THEN 1 ELSE 0)
  /\ \A h \in Goal : w.goal[h].epoch \in 1..w.fence.epoch
  /\ \A h \in Goal \ {g} : w.goal[h].state = "accepted" =>
       w.fence.blocked \/ h \in w.goals \/ Has(w.queue.normal, Admit(h)) \/ k.goal = h

LEMMA EntryAnswered ==
  ASSUME NEW x \in Entry, NEW how \in Ended
  PROVE  LET e == [x EXCEPT !.state = how, !.results = @ + 1]
         IN  /\ e \in Entry /\ e.state = how /\ e.results = x.results + 1
             /\ e.epoch = x.epoch /\ e.at = x.at
<1> DEFINE n == x.results + 1
           e == [x EXCEPT !.state = how, !.results = n]
<1>0. n \in Nat
  BY DEF Entry
<1>1. n \in Nat /\ how \in GoalState
  BY <1>0 DEF GoalState
<1> HIDE DEF n
<1>2. e \in Entry /\ e.state = how /\ e.results = n /\ e.epoch = x.epoch /\ e.at = x.at
  BY <1>1 DEF Entry
<1> QED
  BY <1>2 DEF n

LEMMA AnsweredForm ==
  ASSUME NEW v \in World, NEW g \in Goal, NEW how \in Ended
  PROVE  Answered(v, g, how) =
           [v EXCEPT !.goal[g] = [v.goal[g] EXCEPT !.state = how, !.results = @ + 1]]
<1>1. v.goal[g] \in Entry
  BY EntryOf
<1> QED
  BY <1>1 DEF Answered, World, Entry

LEMMA AnsweredIs ==
  ASSUME NEW v \in World, NEW g \in Goal, NEW how \in Ended
  PROVE  LET w == Answered(v, g, how)
         IN  /\ w \in World
             /\ w.goal[g].state = how /\ w.goal[g].results = v.goal[g].results + 1
             /\ w.goal[g].epoch = v.goal[g].epoch
             /\ \A h \in Goal : h # g => w.goal[h] = v.goal[h]
             /\ w.fence = v.fence /\ w.queue = v.queue /\ w.gate = v.gate
             /\ w.pending = v.pending /\ w.goals = v.goals
             /\ w.core = v.core /\ w.router = v.router /\ w.registry = v.registry
             /\ w.lane = v.lane /\ w.port = v.port
<1> DEFINE e == [v.goal[g] EXCEPT !.state = how, !.results = @ + 1]
           w == [v EXCEPT !.goal[g] = e]
<1>1. e \in Entry /\ e.state = how /\ e.results = v.goal[g].results + 1
      /\ e.epoch = v.goal[g].epoch
  BY EntryOf, EntryAnswered
<1>2. Answered(v, g, how) = w
  BY AnsweredForm
<1> HIDE DEF e
<1>3. /\ w \in World /\ w.goal[g] = e
      /\ \A h \in Goal : h # g => w.goal[h] = v.goal[h]
      /\ w.fence = v.fence /\ w.queue = v.queue /\ w.gate = v.gate
      /\ w.pending = v.pending /\ w.goals = v.goals
      /\ w.core = v.core /\ w.router = v.router /\ w.registry = v.registry
      /\ w.lane = v.lane /\ w.port = v.port
  BY <1>1, EntrySet
<1> HIDE DEF w
<1> QED
  BY <1>1, <1>2, <1>3

LEMMA LooseAnswered ==
  ASSUME NEW v, NEW k, NEW g \in Goal, Loose(v, k, g), NEW how \in Ended
  PROVE  Books(Answered(v, g, how), k)
<1> DEFINE w == Answered(v, g, how)
<1>1. v \in World
  BY DEF Loose
<1>2. /\ w \in World
      /\ w.goal[g].state = how /\ w.goal[g].results = v.goal[g].results + 1
      /\ w.goal[g].epoch = v.goal[g].epoch
      /\ \A h \in Goal : h # g => w.goal[h] = v.goal[h]
      /\ w.fence = v.fence /\ w.queue = v.queue /\ w.gate = v.gate
      /\ w.goals = v.goals /\ w.core = v.core /\ w.router = v.router /\ w.lane = v.lane
  BY <1>1, AnsweredIs
<1> HIDE DEF w
<1>3. Room(w)
  BY <1>2 DEF Loose, Room
<1>4. Counted(w)
  BY <1>2 DEF Loose, Counted
<1>5. Over(w) = Over(v) \cup {g} /\ g \notin Over(v)
  BY <1>2 DEF Over, Loose
<1>6. Cardinality(Over(w)) = Cardinality(Over(v)) + 1 /\ Cardinality(Over(v)) \in Nat
  BY <1>5, OverFinite, FS_AddElement
<1>7. Dated(w)
  <2>1. w.fence.epoch \in 1..(1 + Cardinality(Over(w)) + IF w.fence.blocked THEN 1 ELSE 0)
    BY <1>1, <1>2, <1>6, FencedBlocked DEF Loose
  <2>2. \A h \in Goal : w.goal[h].epoch \in 1..w.fence.epoch
    BY <1>2 DEF Loose
  <2> QED
    BY <2>1, <2>2 DEF Dated
<1>8. Slot(w, k)
  <2>0. v.goals \subseteq Goal /\ \A h \in v.goals : v.goal[h].state = "accepted"
    BY <1>1 DEF Loose, Slot, World
  <2>1. \A h \in w.goals : h \in Goal /\ h # g /\ w.goal[h].state = "accepted"
    BY <1>2, <2>0 DEF Loose
  <2>2. k.pc \in Dispatching => k.goal \in Goal /\ w.goal[k.goal].state = "accepted"
    BY <1>2 DEF Loose, Slot
  <2> QED
    BY <1>2, <2>1, <2>2 DEF Loose, Slot
<1>9. Claims(w, k)
  <2> SUFFICES ASSUME NEW i \in DOMAIN w.queue.normal, NEW h \in Goal,
                      w.queue.normal[i] = Admit(h)
               PROVE  /\ w.goal[h].state = "accepted" /\ h \notin w.goals /\ h # k.goal
                      /\ \A j \in DOMAIN w.queue.normal : w.queue.normal[j] = Admit(h) => i = j
    BY DEF Claims
  <2>1. h # g
    BY <1>2 DEF Loose, Has
  <2> QED
    BY <1>2, <2>1 DEF Loose, Claims
<1>10. Somewhere(w, k)
  BY <1>2 DEF Loose, Somewhere, Has, Ended
<1> QED
  BY <1>2, <1>3, <1>4, <1>7, <1>8, <1>9, <1>10 DEF Loose, Books, w

\* The world in which the core has let go of its Mission, and nobody has told the goal.
Released(v) ==
  [Inhibited(v) EXCEPT !.core = Nobody, !.router.active = Nobody, !.goals = {},
     !.fence.epoch = IF v.fence.blocked THEN @ ELSE @ + 1]

LEMMA InhibitedIs ==
  ASSUME NEW v \in World
  PROVE  LET w == Inhibited(v)
         IN  /\ w \in World /\ w.fence = v.fence /\ w.queue = v.queue /\ w.gate = v.gate
             /\ w.goal = v.goal /\ w.pending = v.pending /\ w.goals = v.goals
             /\ w.core = v.core /\ w.router = v.router /\ w.registry = v.registry
             /\ w.lane = v.lane
             /\ w.port.child = v.port.child /\ w.port.tx = v.port.tx
             /\ w.port.shutting = v.port.shutting
             /\ w.port.cancel = (v.port.cancel \/ v.port.child # Nobody)
  BY DEF World, Inhibited, PortType, Tx

LEMMA ReleasedIs ==
  ASSUME NEW v \in World
  PROVE  LET w == Released(v)
         IN  /\ w \in World /\ w.queue = v.queue /\ w.gate = v.gate
             /\ w.goal = v.goal /\ w.pending = v.pending /\ w.goals = {}
             /\ w.core = Nobody /\ w.router.active = Nobody
             /\ w.router.pending = v.router.pending /\ w.router.early = v.router.early
             /\ w.registry = v.registry /\ w.lane = v.lane /\ w.port = Inhibited(v).port
             /\ w.fence.blocked = v.fence.blocked /\ w.fence.pending = v.fence.pending
             /\ w.fence.epoch = v.fence.epoch + IF v.fence.blocked THEN 0 ELSE 1
<1> DEFINE u == Inhibited(v)
<1>1. /\ u \in World /\ u.fence = v.fence /\ u.queue = v.queue /\ u.gate = v.gate
      /\ u.goal = v.goal /\ u.pending = v.pending /\ u.router = v.router
      /\ u.registry = v.registry /\ u.lane = v.lane
  BY InhibitedIs
<1>2. Released(v) = [u EXCEPT !.core = Nobody, !.router.active = Nobody, !.goals = {},
     !.fence.epoch = IF v.fence.blocked THEN @ ELSE @ + 1]
  BY DEF Released
<1> HIDE DEF u
<1> DEFINE n == IF v.fence.blocked THEN u.fence.epoch ELSE u.fence.epoch + 1
           f == [u.fence EXCEPT !.epoch = n]
           r == [u.router EXCEPT !.active = Nobody]
           w == [u EXCEPT !.core = Nobody, !.router = r, !.goals = {}, !.fence = f]
<1>3. Released(v) = w
  BY <1>1, <1>2 DEF World
<1>4. /\ f \in [epoch : Nat, blocked : BOOLEAN, pending : BOOLEAN]
      /\ f.blocked = v.fence.blocked /\ f.pending = v.fence.pending
      /\ f.epoch = v.fence.epoch + IF v.fence.blocked THEN 0 ELSE 1
  <2>1. u.fence \in [epoch : Nat, blocked : BOOLEAN, pending : BOOLEAN]
    BY <1>1 DEF World
  <2>2. n \in Nat /\ n = v.fence.epoch + IF v.fence.blocked THEN 0 ELSE 1
    BY <1>1, FencedBlocked
  <2> HIDE DEF n
  <2>3. f \in [epoch : Nat, blocked : BOOLEAN, pending : BOOLEAN]
        /\ f.blocked = u.fence.blocked /\ f.pending = u.fence.pending /\ f.epoch = n
    BY <2>1, <2>2
  <2> QED
    BY <1>1, <2>2, <2>3
<1>5. /\ r \in [pending : BOOLEAN, active : Owner, early : {"none"} \cup Ended]
      /\ r.active = Nobody /\ r.pending = v.router.pending /\ r.early = v.router.early
  BY <1>1 DEF World, Owner
<1> HIDE DEF f, r
<1>6. /\ w \in World /\ w.queue = u.queue /\ w.gate = u.gate /\ w.goal = u.goal
      /\ w.pending = u.pending /\ w.goals = {} /\ w.core = Nobody /\ w.router = r
      /\ w.registry = u.registry /\ w.lane = u.lane /\ w.port = u.port /\ w.fence = f
  BY <1>1, <1>4, <1>5 DEF World, Owner
<1> HIDE DEF w
<1> QED
  BY <1>1, <1>3, <1>4, <1>5, <1>6 DEF u

LEMMA AnsweredTaken ==
  ASSUME NEW y \in World, NEW g \in Goal, NEW how \in Ended, y.goals = {g}
  PROVE  [Answered(y, g, how) EXCEPT !.goals = @ \ {g}] = Answered([y EXCEPT !.goals = {}], g, how)
<1> DEFINE e == [y.goal[g] EXCEPT !.state = how, !.results = @ + 1]
           z == [y EXCEPT !.goals = {}]
<1>1. Answered(y, g, how) = [y EXCEPT !.goal[g] = e]
  BY AnsweredForm
<1>2. z \in World /\ z.goal = y.goal
  BY DEF World
<1> HIDE DEF z
<1>3. Answered(z, g, how) = [z EXCEPT !.goal[g] = e]
  <2>1. Answered(z, g, how) =
          [z EXCEPT !.goal[g] = [z.goal[g] EXCEPT !.state = how, !.results = @ + 1]]
    BY <1>2, AnsweredForm
  <2> QED
    BY <1>2, <2>1
<1> HIDE DEF e
<1>4. [[y EXCEPT !.goal[g] = e] EXCEPT !.goals = @ \ {g}] = [z EXCEPT !.goal[g] = e]
  BY DEF World, z
<1> QED
  BY <1>1, <1>3, <1>4 DEF z

LEMMA SettledIs ==
  ASSUME NEW v, NEW k, Books(v, k), k.pc \notin Entering, v.core # Nobody
  PROVE  v \in World /\ v.core \in Goal /\ v.router.active = v.core /\ v.goals = {v.core}
<1>1. v \in World
  BY DEF Books
<1>2. v.core \in Owner
  BY <1>1 DEF World
<1>3. v.router.active = v.core /\ v.goals = {v.core} \ {Nobody}
  BY DEF Books, Slot
<1> QED
  BY <1>1, <1>2, <1>3 DEF Owner

LEMMA CoreEndsIs ==
  ASSUME NEW v, NEW k, Books(v, k), k.pc \notin Entering, v.core # Nobody, NEW how \in Ended
  PROVE  CoreEnds(v, how) = Answered(Released(v), v.core, how)
<1> DEFINE g == v.core
           u == Inhibited(v)
           x == [u EXCEPT !.core = Nobody, !.fence.epoch = IF v.fence.blocked THEN @ ELSE @ + 1]
           y == [x EXCEPT !.router.active = Nobody]
<1>1. v \in World /\ g \in Goal /\ v.router.active = g /\ v.goals = {g}
  BY SettledIs
<1>2. u \in World /\ u.router = v.router /\ u.goals = v.goals
  BY <1>1, InhibitedIs
<1>3. CoreEnds(v, how) = RouterFinish(x, g, how)
  BY DEF CoreEnds
<1>r. Released(v) = [u EXCEPT !.core = Nobody, !.router.active = Nobody, !.goals = {},
     !.fence.epoch = IF v.fence.blocked THEN @ ELSE @ + 1]
  BY DEF Released
<1> HIDE DEF u
<1>4. x.router = v.router /\ x.goals = v.goals /\ y.goals = v.goals
  BY <1>2 DEF World
<1>5. RouterFinish(x, g, how) = FinishGoal(y, g, how)
  BY <1>1, <1>4 DEF RouterFinish
<1>6. FinishGoal(y, g, how) = [Answered(y, g, how) EXCEPT !.goals = @ \ {g}]
  BY <1>1, <1>4 DEF FinishGoal
<1>7. Released(v) = [y EXCEPT !.goals = {}]
  BY <1>2, <1>r DEF World
<1>8. y \in World
  <2>1. x \in World
    <3> DEFINE n == IF v.fence.blocked THEN u.fence.epoch ELSE u.fence.epoch + 1
    <3>1. n \in Nat
      BY <1>2, FencedBlocked
    <3>2. x = [u EXCEPT !.core = Nobody, !.fence.epoch = n]
      BY <1>2 DEF World
    <3> HIDE DEF n, x
    <3> QED
      BY <1>2, <3>1, <3>2 DEF World, Owner
  <2> HIDE DEF x
  <2> QED
    BY <2>1 DEF World, Owner
<1>9. [Answered(y, g, how) EXCEPT !.goals = @ \ {g}] = Answered([y EXCEPT !.goals = {}], g, how)
  <2> HIDE DEF y
  <2> QED
    BY <1>1, <1>4, <1>8, AnsweredTaken
<1> QED
  BY <1>3, <1>5, <1>6, <1>7, <1>9

LEMMA ReleasedLoose ==
  ASSUME NEW v, NEW k, Books(v, k), k.pc \notin Entering, v.core # Nobody
  PROVE  Loose(Released(v), k, v.core)
<1> DEFINE g == v.core
           w == Released(v)
<1>1. v \in World /\ g \in Goal /\ v.router.active = g /\ v.goals = {g}
  BY SettledIs
<1>2. /\ w \in World /\ w.queue = v.queue
      /\ w.goal = v.goal /\ w.goals = {}
      /\ w.core = Nobody /\ w.router.active = Nobody
      /\ w.router.pending = v.router.pending /\ w.router.early = v.router.early
      /\ w.lane = v.lane
      /\ w.fence.blocked = v.fence.blocked
      /\ w.fence.epoch = v.fence.epoch + IF v.fence.blocked THEN 0 ELSE 1
  BY <1>1, ReleasedIs
<1> HIDE DEF w
<1>3. v.goal[g].state = "accepted" /\ g # k.goal /\ ~Has(v.queue.normal, Admit(g))
  <2>1. v.goal[g].state = "accepted"
    BY <1>1 DEF Books, Slot
  <2>2. g # k.goal
    BY <1>1 DEF Books, Slot
  <2>3. ~Has(v.queue.normal, Admit(g))
    BY <1>1 DEF Books, Claims, Has
  <2> QED
    BY <2>1, <2>2, <2>3
<1>4. Room(w) /\ Counted(w)
  BY <1>2 DEF Books, Room, Counted
<1>5. Slot(w, k)
  BY <1>1, <1>2 DEF Books, Slot
<1>6. Claims(w, k)
  BY <1>2 DEF Books, Claims
<1>7. Over(w) = Over(v)
  BY <1>2 DEF Over
<1>8. /\ w.fence.epoch \in 1..(2 + Cardinality(Over(w)) + IF w.fence.blocked THEN 1 ELSE 0)
      /\ \A h \in Goal : w.goal[h].epoch \in 1..w.fence.epoch
  <2>1. Cardinality(Over(v)) \in Nat /\ v.fence.epoch \in Nat /\ v.fence.blocked \in BOOLEAN
    BY <1>1, OverFinite, FencedBlocked
  <2>2. w.fence.epoch \in 1..(2 + Cardinality(Over(w)) + IF w.fence.blocked THEN 1 ELSE 0)
    BY <1>2, <1>7, <2>1 DEF Books, Dated
  <2>3. \A h \in Goal : w.goal[h].epoch \in 1..w.fence.epoch
    BY <1>2, <2>1 DEF Books, Dated
  <2> QED
    BY <2>2, <2>3
<1>9. \A h \in Goal \ {g} : w.goal[h].state = "accepted" =>
       w.fence.blocked \/ h \in w.goals \/ Has(w.queue.normal, Admit(h)) \/ k.goal = h
  BY <1>1, <1>2 DEF Books, Somewhere, Has
<1> QED
  BY <1>1, <1>2, <1>3, <1>4, <1>5, <1>6, <1>8, <1>9 DEF Loose, Books, Ended, w

LEMMA CoreEndsBooks ==
  ASSUME NEW v, NEW k, Books(v, k), k.pc \notin Entering, NEW how \in Ended
  PROVE  Books(CoreEnds(v, how), k)
<1>1. CASE v.core = Nobody
  BY <1>1 DEF CoreEnds
<1>2. CASE v.core # Nobody
  BY <1>2, SettledIs, CoreEndsIs, ReleasedLoose, LooseAnswered
<1> QED
  BY <1>1, <1>2

LEMMA CoreCancelBooks ==
  ASSUME NEW v, NEW k, Books(v, k), k.pc \notin Entering, NEW g
  PROVE  Books(CoreCancel(v, g), k) /\ Books(CoreResult(v, g), k)
  BY CoreEndsBooks DEF CoreCancel, CoreResult, Ended

-----------------------------------------------------------------------------
(***************************************************************************)
(* What the normal lane takes.                                             *)
(***************************************************************************)
LEMMA NormalLane == \A e \in NormalEvent : LaneOf(e) = "normal"
  BY DEF NormalEvent, LaneOf, Admit, Look

LEMMA Normals == /\ Look \in NormalEvent /\ \A g \in Goal : Admit(g) \in NormalEvent
                 /\ \A g \in Goal : Look # Admit(g)
                 /\ \A g, h \in Goal : Admit(g) = Admit(h) => g = h
  BY DEF NormalEvent, Look, Admit

LEMMA NormalAppended ==
  ASSUME NEW q \in QueueType, NEW e \in NormalEvent, HasRoom(q, "normal")
  PROVE  LET p == [q EXCEPT !.normal = Append(@, e)]
         IN  /\ p \in QueueType /\ p.control = q.control /\ p.normal = Append(q.normal, e)
             /\ Len(p.normal) <= NormalSlots
<1> DEFINE s == Append(q.normal, e)
           p == [q EXCEPT !.normal = s]
<1>1. s \in Seq(NormalEvent) /\ Len(s) = Len(q.normal) + 1 /\ Len(q.normal) \in Nat
  BY AppendProperties, LenProperties DEF QueueType
<1>2. Len(s) <= NormalSlots
  BY <1>1, SlotsNat DEF HasRoom, Slots
<1> HIDE DEF s
<1>3. p \in QueueType /\ p.normal = s /\ p.control = q.control
  BY <1>1 DEF QueueType
<1> QED
  BY <1>2, <1>3 DEF s

LEMMA TakenNormal ==
  ASSUME NEW v \in World, NEW e \in NormalEvent, NEW submits, Takes(v, e)
  PROVE  /\ Enqueued(v, e, submits) = [v EXCEPT !.queue = [v.queue EXCEPT !.normal = Append(@, e)]]
         /\ HasRoom(v.queue, "normal")
  BY NormalLane DEF Enqueued, World, Takes

LEMMA AppendHas ==
  ASSUME NEW S, NEW s \in Seq(S), NEW e \in S
  PROVE  /\ DOMAIN s = 1..Len(s) /\ Len(s) \in Nat
         /\ DOMAIN Append(s, e) = 1..(Len(s) + 1)
         /\ \A i \in DOMAIN s : Append(s, e)[i] = s[i]
         /\ Append(s, e)[Len(s) + 1] = e
         /\ \A x : Has(Append(s, e), x) <=> Has(s, x) \/ x = e
<1>1. /\ DOMAIN s = 1..Len(s) /\ Len(s) \in Nat
      /\ DOMAIN Append(s, e) = 1..(Len(s) + 1)
      /\ \A i \in DOMAIN s : Append(s, e)[i] = s[i]
      /\ Append(s, e)[Len(s) + 1] = e
  BY AppendProperties, LenProperties
<1>2. \A x : Has(Append(s, e), x) <=> Has(s, x) \/ x = e
  <2> TAKE x
  <2>1. ASSUME Has(Append(s, e), x) PROVE Has(s, x) \/ x = e
    BY <1>1, <2>1 DEF Has
  <2>2. ASSUME Has(s, x) PROVE Has(Append(s, e), x)
    <3>1. PICK i \in DOMAIN s : s[i] = x
      BY <2>2 DEF Has
    <3>2. i \in DOMAIN Append(s, e) /\ Append(s, e)[i] = x
      BY <1>1, <3>1
    <3> QED
      BY <3>2 DEF Has
  <2>3. ASSUME x = e PROVE Has(Append(s, e), x)
    <3>1. Len(s) + 1 \in DOMAIN Append(s, e)
      BY <1>1
    <3> QED
      BY <1>1, <2>3, <3>1 DEF Has
  <2> QED
    BY <2>1, <2>2, <2>3
<1> QED
  BY <1>1, <1>2

LEMMA LookBooks ==
  ASSUME NEW v, NEW k, Books(v, k), NEW submits \in BOOLEAN
  PROVE  Books(Enqueued(v, Look, submits), k)
<1>0. v \in World /\ Room(v)
  BY DEF Books
<1>1. CASE ~Takes(v, Look)
  BY <1>0, <1>1, RefusedQuiet, QuietBooks
<1>2. CASE Takes(v, Look)
  <2> DEFINE n == v.queue.normal
             m == Append(n, Look)
             q == [v.queue EXCEPT !.normal = m]
             w == [v EXCEPT !.queue = q]
  <2>1. Enqueued(v, Look, submits) = w /\ HasRoom(v.queue, "normal")
    BY <1>0, <1>2, Normals, TakenNormal
  <2>2. q \in QueueType /\ q.control = v.queue.control /\ q.normal = m
        /\ Len(q.normal) <= NormalSlots
    BY <1>0, <2>1, QueueIs, Normals, NormalAppended
  <2>3. n \in Seq(NormalEvent)
    BY <1>0, QueueIs DEF QueueType
  <2>4. /\ DOMAIN n = 1..Len(n) /\ Len(n) \in Nat
        /\ DOMAIN m = 1..(Len(n) + 1)
        /\ \A i \in DOMAIN n : m[i] = n[i]
        /\ m[Len(n) + 1] = Look
    BY <2>3, Normals, AppendHas
  <2> HIDE DEF q
  <2>5. /\ w \in World /\ w.queue = q /\ w.fence = v.fence
        /\ w.goal = v.goal /\ w.goals = v.goals /\ w.core = v.core /\ w.router = v.router
        /\ w.lane = v.lane
    BY <1>0, <2>2, WorldQueue
  <2> HIDE DEF w, m
  <2>6. Room(w)
    BY <2>2, <2>5 DEF Books, Room
  <2>7. Counted(w)
    BY <2>5 DEF Books, Counted
  <2>8. Dated(w)
    <3>1. Over(w) = Over(v)
      BY <2>5 DEF Over
    <3> QED
      BY <2>5, <3>1 DEF Books, Dated
  <2>9. Slot(w, k)
    BY <2>5 DEF Books, Slot
  <2>10. \A i \in DOMAIN m : \A g \in Goal : m[i] = Admit(g) => i \in DOMAIN n /\ n[i] = Admit(g)
    BY <2>4, Normals
  <2>11. Claims(w, k)
    BY <2>2, <2>5, <2>10 DEF Books, Claims
  <2>12. Somewhere(w, k)
    <3>1. \A i \in DOMAIN n : i \in DOMAIN m
      BY <2>4
    <3> QED
      BY <2>2, <2>4, <2>5, <3>1 DEF Books, Somewhere
  <2> QED
    BY <2>1, <2>5, <2>6, <2>7, <2>8, <2>9, <2>11, <2>12 DEF Books
<1> QED
  BY <1>1, <1>2

\* A ticket or a state changes that is neither the acceptance nor the end of a goal.
LEMMA EntryBooks ==
  ASSUME NEW v, NEW k, Books(v, k), NEW g \in Goal, NEW e \in Entry,
         v.goal[g].state \notin Ended \cup {"accepted"}, e.state \notin Ended \cup {"accepted"},
         e.results = v.goal[g].results, e.epoch \in 1..v.fence.epoch
  PROVE  Books([v EXCEPT !.goal[g] = e], k)
<1> DEFINE w == [v EXCEPT !.goal[g] = e]
<1>0. v \in World /\ Room(v)
  BY DEF Books
<1>1. /\ w \in World /\ w.goal[g] = e
      /\ \A h \in Goal : h # g => w.goal[h] = v.goal[h]
      /\ w.fence = v.fence /\ w.queue = v.queue /\ w.goals = v.goals
      /\ w.core = v.core /\ w.router = v.router /\ w.lane = v.lane
  BY <1>0, EntrySet
<1> HIDE DEF w
<1>2. Over(w) = Over(v)
  BY <1>1 DEF Over
<1>3. Dated(w)
  BY <1>1, <1>2 DEF Books, Dated
<1>4. Counted(w)
  BY <1>1 DEF Books, Counted
<1>5. Slot(w, k)
  <2>1. v.goals \subseteq Goal /\ \A h \in v.goals : h # g
    BY <1>0 DEF Books, Slot, World
  <2>2. k.pc \in Dispatching => k.goal # g
    BY DEF Books, Slot
  <2> QED
    BY <1>1, <2>1, <2>2 DEF Books, Slot
<1>6. Claims(w, k)
  <2>1. \A i \in DOMAIN v.queue.normal : v.queue.normal[i] # Admit(g)
    BY DEF Books, Claims
  <2> QED
    BY <1>1, <2>1 DEF Books, Claims
<1>7. Somewhere(w, k)
  BY <1>1 DEF Books, Somewhere
<1>8. Room(w)
  BY <1>1 DEF Books, Room
<1> QED
  BY <1>1, <1>3, <1>4, <1>5, <1>6, <1>7, <1>8 DEF Books, w

\* A goal that is accepted goes into the queue with its acceptance.
LEMMA AcceptedBooks ==
  ASSUME NEW v, NEW k, Books(v, k), NEW g \in Goal, NEW e \in Entry,
         v.goal[g].state \notin Ended \cup {"accepted"}, e.state = "accepted",
         e.results = v.goal[g].results, e.epoch = v.goal[g].epoch,
         HasRoom(v.queue, "normal")
  PROVE  Books([v EXCEPT !.goal[g] = e,
                  !.queue = [v.queue EXCEPT !.normal = Append(@, Admit(g))]], k)
<1> DEFINE n == v.queue.normal
           m == Append(n, Admit(g))
           q == [v.queue EXCEPT !.normal = m]
           u == [v EXCEPT !.goal[g] = e]
           w == [u EXCEPT !.queue = q]
<1>0. v \in World /\ Room(v)
  BY DEF Books
<1>1. /\ u \in World /\ u.goal[g] = e
      /\ \A h \in Goal : h # g => u.goal[h] = v.goal[h]
      /\ u.fence = v.fence /\ u.queue = v.queue /\ u.goals = v.goals
      /\ u.core = v.core /\ u.router = v.router /\ u.lane = v.lane
  BY <1>0, EntrySet
<1> HIDE DEF u
<1>2. q \in QueueType /\ q.control = v.queue.control /\ q.normal = m
      /\ Len(q.normal) <= NormalSlots
  BY <1>0, QueueIs, Normals, NormalAppended
<1>3. n \in Seq(NormalEvent)
  BY <1>0, QueueIs DEF QueueType
<1>4. /\ DOMAIN n = 1..Len(n) /\ Len(n) \in Nat
      /\ DOMAIN m = 1..(Len(n) + 1)
      /\ \A i \in DOMAIN n : m[i] = n[i]
      /\ m[Len(n) + 1] = Admit(g)
  BY <1>3, Normals, AppendHas
<1> HIDE DEF q
<1>5. /\ w \in World /\ w.queue = q /\ w.fence = v.fence
      /\ w.goal[g] = e /\ \A h \in Goal : h # g => w.goal[h] = v.goal[h]
      /\ w.goals = v.goals /\ w.core = v.core /\ w.router = v.router
      /\ w.lane = v.lane
  BY <1>1, <1>2, WorldQueue
<1> HIDE DEF w, m
<1>6. Room(w)
  BY <1>2, <1>5 DEF Books, Room
<1>7. Counted(w)
  BY <1>5 DEF Books, Counted, Ended
<1>8. Dated(w)
  <2>1. Over(w) = Over(v)
    BY <1>5 DEF Over, Ended
  <2> QED
    BY <1>5, <2>1 DEF Books, Dated
<1>9. v.goals \subseteq Goal /\ g \notin v.goals /\ (k.pc \in Dispatching => k.goal # g)
  BY <1>0 DEF Books, Slot, World
<1>10. Slot(w, k)
  BY <1>5, <1>9 DEF Books, Slot
<1>11. \A i \in DOMAIN n : n[i] # Admit(g)
  BY DEF Books, Claims
<1>12. Claims(w, k)
  <2> SUFFICES ASSUME NEW i \in DOMAIN m, NEW h \in Goal, m[i] = Admit(h)
               PROVE  /\ w.goal[h].state = "accepted" /\ h \notin w.goals /\ h # k.goal
                      /\ \A j \in DOMAIN m : m[j] = Admit(h) => i = j
    BY <1>2, <1>5 DEF Claims
  <2>1. CASE h = g
    <3>1. i = Len(n) + 1 /\ \A j \in DOMAIN m : m[j] = Admit(h) => j = Len(n) + 1
      BY <1>4, <1>11, <2>1
    <3>2. h # k.goal
      BY <1>9, <2>1, NodeAssumption DEF Books, Slot
    <3> QED
      BY <1>5, <1>9, <2>1, <3>1, <3>2
  <2>2. CASE h # g
    <3>1. \A j \in DOMAIN m : m[j] = Admit(h) => j \in DOMAIN n /\ n[j] = Admit(h)
      BY <1>4, <2>2, Normals
    <3> QED
      BY <1>5, <2>2, <3>1 DEF Books, Claims
  <2> QED
    BY <2>1, <2>2
<1>13. Somewhere(w, k)
  <2> SUFFICES ASSUME NEW h \in Goal, w.goal[h].state = "accepted"
               PROVE  \/ w.fence.blocked \/ h \in w.goals
                      \/ \E i \in DOMAIN m : m[i] = Admit(h)
                      \/ k.goal = h
    BY <1>2, <1>5 DEF Somewhere
  <2>1. \A i \in DOMAIN n : i \in DOMAIN m
    BY <1>4
  <2>2. CASE h = g
    BY <1>4, <2>2
  <2>3. CASE h # g
    BY <1>4, <1>5, <2>1, <2>3 DEF Books, Somewhere
  <2> QED
    BY <2>2, <2>3
<1>14. Books(w, k)
  BY <1>5, <1>6, <1>7, <1>8, <1>10, <1>12, <1>13 DEF Books
<1>15. w = [v EXCEPT !.goal[g] = e, !.queue = q]
  BY DEF w, u
<1> QED
  BY <1>14, <1>15 DEF q, m

-----------------------------------------------------------------------------
(***************************************************************************)
(* What the worker takes out of the lanes.                                 *)
(***************************************************************************)
LEMMA EarliestIn ==
  ASSUME NEW S \in SUBSET Nat, S # {}
  PROVE  Earliest(S) \in S
<1> DEFINE T == {S \cap (0..i) : i \in S}
           R == StrictSubsetOrdering(Nat)
<1>1. T # {} /\ T \subseteq FiniteSubsetsOf(Nat)
  <2>1. \A i \in S : IsFiniteSet(0..i)
    BY FS_Interval
  <2>2. \A i \in S : IsFiniteSet(S \cap (0..i))
    BY <2>1, FS_Subset
  <2> QED
    BY <2>2 DEF FiniteSubsetsOf
<1>2. PICK x \in T : \A y \in T : <<y, x>> \notin R
  <2> HIDE DEF T, R
  <2> QED
    BY <1>1, FS_StrictSubsetOrderingWellFounded, WFMin DEF R
<1>3. PICK i \in S : x = S \cap (0..i)
  OBVIOUS
<1>4. ASSUME NEW j \in S, j < i PROVE FALSE
  <2> DEFINE y == S \cap (0..j)
  <2>1. y \in T /\ y \subseteq x /\ y # x
    BY <1>3, <1>4
  <2>2. <<y, x>> \in R
    BY <2>1 DEF StrictSubsetOrdering
  <2> QED
    BY <1>2, <2>1, <2>2
<1>5. \A j \in S : i <= j
  BY <1>4
<1> QED
  BY <1>5 DEF Earliest

\* What is left of a lane once the entry at i is taken.
LEMMA WithoutIs ==
  ASSUME NEW S, NEW s \in Seq(S), NEW i \in DOMAIN s
  PROVE  /\ Without(s, i) \in Seq(S) /\ Len(Without(s, i)) = Len(s) - 1
         /\ \A x : Has(Without(s, i), x) => Has(s, x)
         /\ \A x : Has(s, x) /\ x # s[i] => Has(Without(s, i), x)
<1> DEFINE a == SubSeq(s, 1, i - 1)
           b == SubSeq(s, i + 1, Len(s))
           t == a \o b
<1>1. DOMAIN s = 1..Len(s) /\ Len(s) \in Nat /\ i \in 1..Len(s)
  BY LenProperties
<1>2. \A j \in 1..Len(s) : s[j] \in S
  BY ElementOfSeq
<1>3. /\ a \in Seq(S) /\ Len(a) = i - 1 /\ \A j \in 1..(i - 1) : a[j] = s[j]
  <2>1. /\ a \in Seq(S)
        /\ Len(a) = IF 1 <= i - 1 THEN i - 1 - 1 + 1 ELSE 0
        /\ \A j \in 1..(i - 1 - 1 + 1) : a[j] = s[1 + j - 1]
    BY <1>1, <1>2, SubSeqProperties
  <2> QED
    BY <1>1, <2>1
<1>4. /\ b \in Seq(S) /\ Len(b) = Len(s) - i /\ \A j \in 1..(Len(s) - i) : b[j] = s[i + j]
  <2>1. /\ b \in Seq(S)
        /\ Len(b) = IF i + 1 <= Len(s) THEN Len(s) - (i + 1) + 1 ELSE 0
        /\ \A j \in 1..(Len(s) - (i + 1) + 1) : b[j] = s[i + 1 + j - 1]
    BY <1>1, <1>2, SubSeqProperties
  <2> QED
    BY <1>1, <2>1
<1> HIDE DEF a, b
<1>5. /\ t \in Seq(S) /\ Len(t) = Len(s) - 1
      /\ \A j \in 1..(Len(s) - 1) : t[j] = IF j <= i - 1 THEN a[j] ELSE b[j - (i - 1)]
  <2>1. /\ t \in Seq(S) /\ Len(t) = Len(a) + Len(b)
        /\ \A j \in 1..(Len(a) + Len(b)) : t[j] = IF j <= Len(a) THEN a[j] ELSE b[j - Len(a)]
    BY <1>3, <1>4, ConcatProperties
  <2> QED
    BY <1>1, <1>3, <1>4, <2>1
<1> HIDE DEF t
<1>6. DOMAIN t = 1..(Len(s) - 1)
  BY <1>5, LenProperties
<1>7. \A j \in 1..(Len(s) - 1) : t[j] = IF j < i THEN s[j] ELSE s[j + 1]
  <2> SUFFICES ASSUME NEW j \in 1..(Len(s) - 1) PROVE t[j] = IF j < i THEN s[j] ELSE s[j + 1]
    OBVIOUS
  <2>1. CASE j < i
    BY <1>1, <1>3, <1>5, <2>1
  <2>2. CASE ~(j < i)
    <3> DEFINE l == j - (i - 1)
    <3>1. l \in 1..(Len(s) - i) /\ i + l = j + 1
      BY <1>1, <2>2
    <3>2. t[j] = b[l]
      BY <1>1, <1>5, <2>2
    <3> HIDE DEF l
    <3>3. b[l] = s[i + l]
      BY <1>4, <3>1
    <3> QED
      BY <2>2, <3>1, <3>2, <3>3
  <2> QED
    BY <2>1, <2>2
<1>8. \A x : Has(t, x) => Has(s, x)
  BY <1>1, <1>6, <1>7 DEF Has
<1>9. ASSUME NEW x, Has(s, x), x # s[i] PROVE Has(t, x)
  <2>1. PICK j \in 1..Len(s) : s[j] = x
    BY <1>1, <1>9 DEF Has
  <2>2. CASE j < i
    BY <1>1, <1>6, <1>7, <2>1, <2>2 DEF Has
  <2>3. CASE j > i
    <3>1. j - 1 \in 1..(Len(s) - 1) /\ ~(j - 1 < i) /\ (j - 1) + 1 = j
      BY <1>1, <2>3
    <3> QED
      BY <1>6, <1>7, <2>1, <3>1 DEF Has
  <2> QED
    BY <1>1, <1>9, <2>1, <2>2, <2>3
<1>10. Without(s, i) = t
  BY DEF Without, t, a, b
<1> QED
  BY <1>5, <1>8, <1>9, <1>10

LEMMA TailIs ==
  ASSUME NEW S, NEW s \in Seq(S), s # <<>>
  PROVE  /\ Head(s) \in S /\ Tail(s) \in Seq(S) /\ Len(Tail(s)) = Len(s) - 1 /\ Len(s) \in Nat \ {0}
         /\ DOMAIN s = 1..Len(s) /\ DOMAIN Tail(s) = 1..(Len(s) - 1)
         /\ Head(s) = s[1] /\ \A j \in 1..(Len(s) - 1) : Tail(s)[j] = s[j + 1]
         /\ \A x : Has(Tail(s), x) => Has(s, x)
         /\ \A x : Has(s, x) /\ x # Head(s) => Has(Tail(s), x)
<1>1. /\ Head(s) \in S /\ Tail(s) \in Seq(S) /\ Len(Tail(s)) = Len(s) - 1
      /\ Len(s) \in Nat \ {0}
      /\ DOMAIN s = 1..Len(s) /\ DOMAIN Tail(s) = 1..(Len(s) - 1)
      /\ \A j \in 1..(Len(s) - 1) : Tail(s)[j] = s[j + 1]
  BY HeadTailProperties, LenProperties, EmptySeq
<1>2. Head(s) = s[1]
  OBVIOUS
<1>3. \A x : Has(Tail(s), x) => Has(s, x)
  BY <1>1 DEF Has
<1>4. ASSUME NEW x, Has(s, x), x # Head(s) PROVE Has(Tail(s), x)
  <2>1. PICK j \in 1..Len(s) : s[j] = x
    BY <1>1, <1>4 DEF Has
  <2>2. j - 1 \in 1..(Len(s) - 1) /\ (j - 1) + 1 = j
    BY <1>1, <1>2, <1>4, <2>1
  <2> QED
    BY <1>1, <2>1, <2>2 DEF Has
<1> QED
  BY <1>1, <1>2, <1>3, <1>4

FromControl(q, e, p) ==
  /\ e \in ControlEvent /\ (e = Fault \/ Has(q.control, e))
  /\ p \in QueueType /\ p.normal = q.normal
  /\ Len(p.control) <= Len(q.control)
  /\ \A x : Has(p.control, x) => Has(q.control, x)
  /\ \A x : Has(q.control, x) /\ x # e => Has(p.control, x)

FromNormal(q, e, p) ==
  /\ q.normal # <<>> /\ e = Head(q.normal) /\ p = [q EXCEPT !.normal = Tail(@)]

LEMMA PoppedIs ==
  ASSUME queue \in QueueType, Popped # <<>>
  PROVE  /\ FromControl(queue, Popped[1], Popped[2]) \/ FromNormal(queue, Popped[1], Popped[2])
         /\ fence.pending => EmergencyControl(Popped[1])
<1>0. /\ queue.control \in Seq(ControlEvent) /\ queue.normal \in Seq(NormalEvent)
      /\ Len(queue.control) \in Nat
  BY DEF QueueType
<1>1. CASE fence.pending
  <2> DEFINE i == Earliest(Urgent(queue))
             e == queue.control[i]
             s == Without(queue.control, i)
             p == [queue EXCEPT !.control = s]
  <2>1. Urgent(queue) # {} /\ Popped = <<e, p>>
    BY <1>1 DEF Popped
  <2>2. i \in Urgent(queue)
    <3>1. Urgent(queue) \in SUBSET Nat
      BY <1>0, LenProperties DEF Urgent
    <3> QED
      BY <2>1, <3>1, EarliestIn
  <2> HIDE DEF i
  <2>3. i \in DOMAIN queue.control /\ EmergencyControl(e)
    BY <2>2 DEF Urgent
  <2>4. e \in ControlEvent /\ Has(queue.control, e)
    BY <1>0, <2>3, LenProperties, ElementOfSeq DEF Has
  <2>5. /\ s \in Seq(ControlEvent) /\ Len(s) = Len(queue.control) - 1
        /\ \A x : Has(s, x) => Has(queue.control, x)
        /\ \A x : Has(queue.control, x) /\ x # e => Has(s, x)
    BY <1>0, <2>3, WithoutIs
  <2> HIDE DEF s, e
  <2>6. p \in QueueType /\ p.normal = queue.normal /\ p.control = s
    BY <2>5 DEF QueueType
  <2> HIDE DEF p
  <2>7. FromControl(queue, e, p)
    BY <1>0, <2>4, <2>5, <2>6 DEF FromControl
  <2> QED
    BY <2>1, <2>3, <2>7
<1>2. CASE ~fence.pending /\ queue.control # <<>>
  <2> DEFINE s == Tail(queue.control)
             e == Head(queue.control)
             p == [queue EXCEPT !.control = s]
  <2>1. Popped = <<e, p>>
    BY <1>2 DEF Popped
  <2>2. /\ e \in ControlEvent /\ s \in Seq(ControlEvent) /\ Len(s) = Len(queue.control) - 1
        /\ \A x : Has(s, x) => Has(queue.control, x)
        /\ \A x : Has(queue.control, x) /\ x # e => Has(s, x)
    BY <1>0, <1>2, TailIs
  <2>5. Has(queue.control, e)
    <3>1. DOMAIN queue.control = 1..Len(queue.control) /\ e = queue.control[1]
          /\ Len(queue.control) \in Nat \ {0}
      BY <1>0, <1>2, TailIs
    <3>2. 1 \in DOMAIN queue.control
      BY <3>1
    <3> QED
      BY <3>1, <3>2 DEF Has
  <2> HIDE DEF s, e
  <2>3. p \in QueueType /\ p.normal = queue.normal /\ p.control = s
    BY <2>2 DEF QueueType
  <2> HIDE DEF p
  <2>4. FromControl(queue, e, p)
    BY <1>0, <2>2, <2>3, <2>5 DEF FromControl
  <2> QED
    BY <1>2, <2>1, <2>4
<1>3. CASE ~fence.pending /\ queue.control = <<>> /\ queue.fault
  <2> DEFINE p == [queue EXCEPT !.fault = FALSE]
  <2>1. Popped = <<Fault, p>>
    BY <1>3 DEF Popped
  <2>2. p \in QueueType /\ p.normal = queue.normal /\ p.control = queue.control
    BY DEF QueueType
  <2> HIDE DEF p
  <2>3. FromControl(queue, Fault, p)
    BY <1>0, <2>2, Controls DEF FromControl
  <2> QED
    BY <1>3, <2>1, <2>3
<1>4. CASE ~fence.pending /\ queue.control = <<>> /\ ~queue.fault
  <2>1. queue.normal # <<>>
        /\ Popped = <<Head(queue.normal), [queue EXCEPT !.normal = Tail(@)]>>
    BY <1>4 DEF Popped
  <2> QED
    BY <1>4, <2>1 DEF FromNormal
<1> QED
  BY <1>1, <1>2, <1>3, <1>4

\* A tick or a snapshot is taken, or behind the fence any event of the lane.
LEMMA TailBooks ==
  ASSUME NEW v, NEW k, Books(v, k), v.queue.normal # <<>>,
         v.fence.blocked \/ Head(v.queue.normal) = Look
  PROVE  Books([v EXCEPT !.queue = [v.queue EXCEPT !.normal = Tail(@)]], k)
<1> DEFINE n == v.queue.normal
           m == Tail(n)
           q == [v.queue EXCEPT !.normal = m]
           w == [v EXCEPT !.queue = q]
<1>0. v \in World /\ Room(v)
  BY DEF Books
<1>1. n \in Seq(NormalEvent)
  BY <1>0, QueueIs DEF QueueType
<1>2. /\ m \in Seq(NormalEvent) /\ Len(m) = Len(n) - 1 /\ Len(n) \in Nat \ {0}
      /\ DOMAIN n = 1..Len(n) /\ DOMAIN m = 1..(Len(n) - 1)
      /\ Head(n) = n[1] /\ \A j \in 1..(Len(n) - 1) : m[j] = n[j + 1]
  BY <1>1, TailIs
<1> HIDE DEF m
<1>3. q \in QueueType /\ q.control = v.queue.control /\ q.normal = m
  BY <1>0, <1>2, QueueIs DEF QueueType
<1> HIDE DEF q
<1>4. /\ w \in World /\ w.queue = q /\ w.fence = v.fence
      /\ w.goal = v.goal /\ w.goals = v.goals /\ w.core = v.core /\ w.router = v.router
      /\ w.lane = v.lane
  BY <1>0, <1>3, WorldQueue
<1> HIDE DEF w
<1>5. Room(w)
  BY <1>2, <1>3, <1>4, SlotsNat DEF Books, Room
<1>6. Counted(w)
  BY <1>4 DEF Books, Counted
<1>7. Dated(w)
  <2>1. Over(w) = Over(v)
    BY <1>4 DEF Over
  <2> QED
    BY <1>4, <2>1 DEF Books, Dated
<1>8. Slot(w, k)
  BY <1>4 DEF Books, Slot
<1>9. Claims(w, k)
  <2> SUFFICES ASSUME NEW i \in DOMAIN m, NEW h \in Goal, m[i] = Admit(h)
               PROVE  /\ w.goal[h].state = "accepted" /\ h \notin w.goals /\ h # k.goal
                      /\ \A j \in DOMAIN m : m[j] = Admit(h) => i = j
    BY <1>3, <1>4 DEF Claims
  <2>1. i + 1 \in DOMAIN n /\ n[i + 1] = Admit(h)
    BY <1>2
  <2>2. /\ v.goal[h].state = "accepted" /\ h \notin v.goals /\ h # k.goal
        /\ \A j \in DOMAIN n : n[j] = Admit(h) => i + 1 = j
    BY <2>1 DEF Books, Claims
  <2>3. ASSUME NEW j \in DOMAIN m, m[j] = Admit(h) PROVE i = j
    <3>1. j + 1 \in DOMAIN n /\ n[j + 1] = Admit(h)
      BY <1>2, <2>3
    <3>2. i + 1 = j + 1
      BY <2>2, <3>1
    <3> QED
      BY <1>2, <3>2
  <2> QED
    BY <1>4, <2>2, <2>3
<1>10. Somewhere(w, k)
  <2>1. CASE v.fence.blocked
    BY <1>4, <2>1 DEF Somewhere
  <2>2. CASE Head(n) = Look
    <3>1. ASSUME NEW h \in Goal, NEW i \in DOMAIN n, n[i] = Admit(h)
          PROVE  \E j \in DOMAIN m : m[j] = Admit(h)
      <4>1. i # 1
        BY <1>2, <2>2, <3>1, Normals
      <4>2. i - 1 \in DOMAIN m /\ m[i - 1] = Admit(h)
        BY <1>2, <3>1, <4>1
      <4> QED
        BY <4>2
    <3> QED
      BY <1>3, <1>4, <3>1 DEF Books, Somewhere
  <2> QED
    BY <2>1, <2>2
<1>11. Books(w, k)
  BY <1>4, <1>5, <1>6, <1>7, <1>8, <1>9, <1>10 DEF Books
<1> QED
  BY <1>11 DEF w, q, m

\* The admission that is taken is for a moment with the worker alone.
LEMMA AdmitLoose ==
  ASSUME NEW v, NEW k, Books(v, k), NEW g \in Goal,
         v.queue.normal # <<>>, Head(v.queue.normal) = Admit(g)
  PROVE  LET w == [v EXCEPT !.queue = [v.queue EXCEPT !.normal = Tail(@)]]
         IN  Loose(w, k, g) /\ w.goal[g].state = "accepted" /\ Dated(w)
<1> DEFINE n == v.queue.normal
           m == Tail(n)
           q == [v.queue EXCEPT !.normal = m]
           w == [v EXCEPT !.queue = q]
<1>0. v \in World /\ Room(v)
  BY DEF Books
<1>1. n \in Seq(NormalEvent)
  BY <1>0, QueueIs DEF QueueType
<1>2. /\ m \in Seq(NormalEvent) /\ Len(m) = Len(n) - 1 /\ Len(n) \in Nat \ {0}
      /\ DOMAIN n = 1..Len(n) /\ DOMAIN m = 1..(Len(n) - 1)
      /\ Head(n) = n[1] /\ \A j \in 1..(Len(n) - 1) : m[j] = n[j + 1]
  BY <1>1, TailIs
<1> HIDE DEF m
<1>3. q \in QueueType /\ q.control = v.queue.control /\ q.normal = m
  BY <1>0, <1>2, QueueIs DEF QueueType
<1> HIDE DEF q
<1>4. /\ w \in World /\ w.queue = q /\ w.fence = v.fence
      /\ w.goal = v.goal /\ w.goals = v.goals /\ w.core = v.core /\ w.router = v.router
      /\ w.lane = v.lane
  BY <1>0, <1>3, WorldQueue
<1> HIDE DEF w
<1>5. Room(w)
  BY <1>2, <1>3, <1>4, SlotsNat DEF Books, Room
<1>6. Counted(w)
  BY <1>4 DEF Books, Counted
<1>7. /\ w.fence.epoch \in 1..(2 + Cardinality(Over(w)) + IF w.fence.blocked THEN 1 ELSE 0)
      /\ \A h \in Goal : w.goal[h].epoch \in 1..w.fence.epoch
  <2>1. Over(w) = Over(v)
    BY <1>4 DEF Over
  <2>2. Cardinality(Over(v)) \in Nat
    BY OverFinite
  <2> QED
    BY <1>4, <2>1, <2>2 DEF Books, Dated
<1>8. Slot(w, k)
  BY <1>4 DEF Books, Slot
<1>9. Claims(w, k)
  <2> SUFFICES ASSUME NEW i \in DOMAIN m, NEW h \in Goal, m[i] = Admit(h)
               PROVE  /\ w.goal[h].state = "accepted" /\ h \notin w.goals /\ h # k.goal
                      /\ \A j \in DOMAIN m : m[j] = Admit(h) => i = j
    BY <1>3, <1>4 DEF Claims
  <2>1. i + 1 \in DOMAIN n /\ n[i + 1] = Admit(h)
    BY <1>2
  <2>2. /\ v.goal[h].state = "accepted" /\ h \notin v.goals /\ h # k.goal
        /\ \A j \in DOMAIN n : n[j] = Admit(h) => i + 1 = j
    BY <2>1 DEF Books, Claims
  <2>3. ASSUME NEW j \in DOMAIN m, m[j] = Admit(h) PROVE i = j
    <3>1. j + 1 \in DOMAIN n /\ n[j + 1] = Admit(h)
      BY <1>2, <2>3
    <3>2. i + 1 = j + 1
      BY <2>2, <3>1
    <3> QED
      BY <1>2, <3>2
  <2> QED
    BY <1>4, <2>2, <2>3
<1>10. /\ w.goal[g].state = "accepted" /\ g \notin w.goals /\ g # k.goal
       /\ ~Has(w.queue.normal, Admit(g))
  <2>1. 1 \in DOMAIN n /\ n[1] = Admit(g)
    BY <1>2
  <2>2. /\ v.goal[g].state = "accepted" /\ g \notin v.goals /\ g # k.goal
        /\ \A j \in DOMAIN n : n[j] = Admit(g) => 1 = j
    BY <2>1 DEF Books, Claims
  <2>3. \A j \in DOMAIN m : m[j] # Admit(g)
    BY <1>2, <2>2
  <2> QED
    BY <1>3, <1>4, <2>2, <2>3 DEF Has
<1>11. \A h \in Goal \ {g} : w.goal[h].state = "accepted" =>
       w.fence.blocked \/ h \in w.goals \/ Has(w.queue.normal, Admit(h)) \/ k.goal = h
  <2> SUFFICES ASSUME NEW h \in Goal \ {g}, w.goal[h].state = "accepted",
                      NEW i \in DOMAIN n, n[i] = Admit(h)
               PROVE  Has(m, Admit(h))
    BY <1>3, <1>4 DEF Books, Somewhere
  <2>1. i # 1
    BY <1>2, Normals
  <2>2. i - 1 \in DOMAIN m /\ m[i - 1] = Admit(h)
    BY <1>2, <2>1
  <2> QED
    BY <2>2 DEF Has
<1>12. Loose(w, k, g)
  BY <1>4, <1>5, <1>6, <1>7, <1>8, <1>9, <1>10, <1>11 DEF Books, Loose, Ended
<1>13. Dated(w)
  <2>1. Over(w) = Over(v)
    BY <1>4 DEF Over
  <2> QED
    BY <1>4, <2>1 DEF Books, Dated
<1> QED
  BY <1>10, <1>12, <1>13 DEF w, q, m

(***************************************************************************)
(* An admission.                                                           *)
(***************************************************************************)
LEMMA ClaimedBooks ==
  ASSUME NEW v, NEW k, NEW g \in Goal, Loose(v, k, g), Dated(v), v.goal[g].state = "accepted",
         k.pc = "idle"
  PROVE  Books([v EXCEPT !.router.pending = TRUE, !.router.early = "none"],
               [pc |-> "claimed", goal |-> g])
<1> DEFINE r == [v.router EXCEPT !.pending = TRUE, !.early = "none"]
           w == [v EXCEPT !.router = r]
           c == [pc |-> "claimed", goal |-> g]
<1>0. v \in World
  BY DEF Loose
<1>1. /\ r \in [pending : BOOLEAN, active : Owner, early : {"none"} \cup Ended]
      /\ r.pending /\ r.active = v.router.active /\ r.early = "none"
  BY <1>0 DEF World
<1> HIDE DEF r
<1>2. /\ w \in World /\ w.fence = v.fence /\ w.queue = v.queue /\ w.goal = v.goal
      /\ w.goals = v.goals /\ w.core = v.core /\ w.router = r /\ w.lane = v.lane
  BY <1>0, <1>1 DEF World
<1>3. w = [v EXCEPT !.router.pending = TRUE, !.router.early = "none"]
  BY <1>0 DEF World, r
<1> HIDE DEF w
<1>4. c \in Workers /\ c.pc = "claimed" /\ c.goal = g
  BY DEF Workers, Dispatching, Owner
<1> HIDE DEF c
<1>5. Room(w) /\ Counted(w) /\ k.goal = Nobody
  BY <1>2 DEF Loose, Room, Counted, Slot, Dispatching
<1>6. Dated(w)
  <2>1. Over(w) = Over(v)
    BY <1>2 DEF Over
  <2> QED
    BY <1>2, <2>1 DEF Dated
<1>7. Slot(w, c)
  BY <1>1, <1>2, <1>4 DEF Loose, Slot, Dispatching, Entering
<1>8. Claims(w, c)
  <2>1. \A i \in DOMAIN v.queue.normal : v.queue.normal[i] # Admit(g)
    BY DEF Loose, Has
  <2> QED
    BY <1>2, <1>4, <2>1 DEF Loose, Claims
<1>9. Somewhere(w, c)
  BY <1>2, <1>4, <1>5, NodeAssumption DEF Loose, Somewhere, Has
<1> QED
  BY <1>2, <1>3, <1>4, <1>5, <1>6, <1>7, <1>8, <1>9 DEF Books, c

LEMMA PcBooks ==
  ASSUME NEW v, NEW k, Books(v, k), NEW c \in Workers, c.goal = k.goal,
         (k.pc \in Entering /\ c.pc \in Entering) \/ (k.pc = "idle" /\ c.pc = "ended")
  PROVE  Books(v, c)
<1>1. Slot(v, c)
  BY DEF Books, Slot, Dispatching, Entering
<1>2. Claims(v, c) /\ Somewhere(v, c)
  BY DEF Books, Claims, Somewhere
<1> QED
  BY <1>1, <1>2 DEF Books

LEMMA SlotBooks ==
  ASSUME NEW v, NEW k, Books(v, k), k.pc = "claimed", v.core = Nobody,
         NEW c, c = [k EXCEPT !.pc = "admitted"]
  PROVE  Books([v EXCEPT !.core = k.goal], c)
<1> DEFINE w == [v EXCEPT !.core = k.goal]
<1>0. v \in World /\ k \in Workers /\ k.goal \in Goal
  BY DEF Books, Slot, Dispatching
<1>1. /\ w \in World /\ w.fence = v.fence /\ w.queue = v.queue /\ w.goal = v.goal
      /\ w.goals = v.goals /\ w.core = k.goal /\ w.router = v.router /\ w.lane = v.lane
  BY <1>0 DEF World, Owner
<1> HIDE DEF w
<1>2. c \in Workers /\ c.pc = "admitted" /\ c.goal = k.goal
  BY <1>0 DEF Workers, Dispatching
<1>3. Room(w) /\ Counted(w)
  BY <1>1 DEF Books, Room, Counted
<1>4. Dated(w)
  <2>1. Over(w) = Over(v)
    BY <1>1 DEF Over
  <2> QED
    BY <1>1, <2>1 DEF Books, Dated
<1>5. Slot(w, c)
  BY <1>1, <1>2 DEF Books, Slot, Dispatching, Entering
<1>6. Claims(w, c) /\ Somewhere(w, c)
  BY <1>1, <1>2 DEF Books, Claims, Somewhere
<1> QED
  BY <1>1, <1>2, <1>3, <1>4, <1>5, <1>6 DEF Books, w

LEMMA IdleIs == Idle \in Workers /\ Idle.pc = "idle" /\ Idle.goal = Nobody
  BY DEF Idle, Workers, Owner

\* The worker lets go of a goal that it has not entered anywhere.
LEMMA DismissedLoose ==
  ASSUME NEW v, NEW k, Books(v, k), k.pc = "claimed", NEW P \in SUBSET Address
  PROVE  Loose([v EXCEPT !.router.pending = FALSE, !.pending = P], Idle, k.goal)
<1> DEFINE g == k.goal
           r == [v.router EXCEPT !.pending = FALSE]
           w == [v EXCEPT !.router = r, !.pending = P]
<1>0. v \in World /\ g \in Goal /\ v.goal[g].state = "accepted" /\ g \notin v.goals
  BY DEF Books, Slot, Dispatching
<1>1. /\ r \in [pending : BOOLEAN, active : Owner, early : {"none"} \cup Ended]
      /\ r.active = v.router.active /\ r.early = v.router.early
  BY <1>0 DEF World
<1>2. w = [v EXCEPT !.router.pending = FALSE, !.pending = P]
  BY <1>0 DEF World
<1> HIDE DEF r
<1>3. /\ w \in World /\ w.fence = v.fence /\ w.queue = v.queue /\ w.goal = v.goal
      /\ w.goals = v.goals /\ w.core = v.core /\ w.router = r /\ w.lane = v.lane
  BY <1>0, <1>1 DEF World
<1> HIDE DEF w
<1>4. Room(w) /\ Counted(w)
  BY <1>3 DEF Books, Room, Counted
<1>5. Slot(w, Idle)
  BY <1>1, <1>3, IdleIs DEF Books, Slot, Entering, Dispatching
<1>6. Claims(w, Idle) /\ ~Has(w.queue.normal, Admit(g))
  BY <1>0, <1>3, IdleIs, NodeAssumption DEF Books, Claims, Has
<1>7. /\ w.fence.epoch \in 1..(2 + Cardinality(Over(w)) + IF w.fence.blocked THEN 1 ELSE 0)
      /\ \A h \in Goal : w.goal[h].epoch \in 1..w.fence.epoch
  <2>1. Over(w) = Over(v)
    BY <1>3 DEF Over
  <2>2. Cardinality(Over(v)) \in Nat
    BY OverFinite
  <2> QED
    BY <1>3, <2>1, <2>2 DEF Books, Dated
<1>8. \A h \in Goal \ {g} : w.goal[h].state = "accepted" =>
       w.fence.blocked \/ h \in w.goals \/ Has(w.queue.normal, Admit(h)) \/ Idle.goal = h
  BY <1>3 DEF Books, Somewhere, Has
<1> QED
  BY <1>0, <1>2, <1>3, <1>4, <1>5, <1>6, <1>7, <1>8, IdleIs, NodeAssumption DEF Loose, Ended

\* The goal is entered and the router knows it.
LEMMA EnteredBooks ==
  ASSUME NEW v, NEW k, Books(v, k), k.pc \in Entering, NEW P \in SUBSET Address
  PROVE  Books([v EXCEPT !.goals = @ \cup {k.goal}, !.pending = P,
                  !.router = [pending |-> FALSE, active |-> k.goal, early |-> "none"]], Idle)
<1> DEFINE g == k.goal
           r == [pending |-> FALSE, active |-> g, early |-> "none"]
           w == [v EXCEPT !.goals = @ \cup {g}, !.pending = P, !.router = r]
<1>0. v \in World /\ g \in Goal /\ v.goal[g].state = "accepted" /\ v.goals = {} /\ v.core = g
  BY DEF Books, Slot, Dispatching, Entering
<1>1. /\ r \in [pending : BOOLEAN, active : Owner, early : {"none"} \cup Ended]
      /\ r.active = g /\ r.early = "none"
  BY <1>0 DEF Owner
<1> HIDE DEF r
<1>3. /\ w \in World /\ w.fence = v.fence /\ w.queue = v.queue /\ w.goal = v.goal
      /\ w.goals = {g} /\ w.core = g /\ w.router = r /\ w.lane = v.lane
  BY <1>0, <1>1 DEF World
<1> HIDE DEF w
<1>4. Room(w) /\ Counted(w)
  BY <1>3 DEF Books, Room, Counted
<1>5. Slot(w, Idle)
  BY <1>0, <1>1, <1>3, IdleIs, NodeAssumption DEF Slot, Entering, Dispatching
<1>6. Claims(w, Idle)
  BY <1>0, <1>3, IdleIs, NodeAssumption DEF Books, Claims
<1>7. Dated(w)
  <2>1. Over(w) = Over(v)
    BY <1>3 DEF Over
  <2> QED
    BY <1>3, <2>1 DEF Books, Dated
<1>8. Somewhere(w, Idle)
  BY <1>0, <1>3 DEF Books, Somewhere
<1> QED
  BY <1>3, <1>4, <1>5, <1>6, <1>7, <1>8, IdleIs DEF Books, w, r

LEMMA AdmittedBooks ==
  ASSUME NEW v, NEW k, Books(v, k), k.pc \in Entering
  PROVE  Books(Admitted(v, k.goal), Idle)
<1> DEFINE g == k.goal
           P == v.pending \ {goal[g].at}
           u == [v EXCEPT !.goals = @ \cup {g}, !.pending = P]
           w == [v EXCEPT !.goals = @ \cup {g}, !.pending = P,
                   !.router = [pending |-> FALSE, active |-> g, early |-> "none"]]
<1>0. v \in World /\ v.router.early = "none"
  BY DEF Books, Slot
<1>1. P \in SUBSET Address
  BY <1>0 DEF World
<1>2. Books(w, Idle)
  BY <1>1, EnteredBooks
<1>3. RouterCommit(u, g) = w
  BY <1>0 DEF RouterCommit, World
<1>4. Admitted(v, g) = IF goal[g].at \in v.pending THEN CoreCancel(w, g) ELSE w
  BY <1>3 DEF Admitted
<1> HIDE DEF w
<1>5. Books(CoreCancel(w, g), Idle)
  BY <1>2, IdleIs, CoreCancelBooks DEF Entering
<1> QED
  BY <1>2, <1>4, <1>5

LEMMA RouterIs ==
  ASSUME NEW p \in [pending : {FALSE}, active : {Nobody}, early : {"none"}]
  PROVE  p = [pending |-> FALSE, active |-> Nobody, early |-> "none"]
  OBVIOUS

LEMMA Unrouted ==
  ASSUME NEW g
  PROVE  [pending |-> FALSE, active |-> Nobody, early |-> "none"] =
           [[pending |-> FALSE, active |-> g, early |-> "none"] EXCEPT !.active = Nobody]
<1> DEFINE q == [pending |-> FALSE, active |-> g, early |-> "none"]
           p == [q EXCEPT !.active = Nobody]
<1>1. q \in [pending : {FALSE}, active : {g}, early : {"none"}]
  OBVIOUS
<1> HIDE DEF q
<1>2. p \in [pending : {FALSE}, active : {Nobody}, early : {"none"}]
  BY <1>1
<1> HIDE DEF p
<1> QED
  BY <1>2, RouterIs DEF p, q

\* The Mission ends inside its own admission: the router keeps the early result and
\* delivers it when the admission commits.
LEMMA EarlyEnd ==
  ASSUME NEW v, NEW k, Books(v, k), k.pc \in Entering, NEW how \in Ended
  PROVE  Admitted(CoreEnds(v, how), k.goal) =
           Answered([Released(v) EXCEPT !.pending = @ \ {goal[k.goal].at},
                       !.router = [pending |-> FALSE, active |-> Nobody, early |-> "none"]],
                    k.goal, how)
<1> DEFINE g == k.goal
           at == goal[g].at
           u == Inhibited(v)
           n == IF v.fence.blocked THEN u.fence.epoch ELSE u.fence.epoch + 1
           x == [u EXCEPT !.core = Nobody, !.fence.epoch = n]
           c == [x EXCEPT !.router.early = how]
           d == [c EXCEPT !.goals = @ \cup {g}, !.pending = @ \ {at}]
           e == [d EXCEPT !.router = [pending |-> FALSE, active |-> g, early |-> "none"]]
           y == [e EXCEPT !.router.active = Nobody]
           z == [y EXCEPT !.goals = {}]
<1>1. /\ v \in World /\ g \in Goal /\ v.core = g /\ v.goals = {} /\ v.router.active = Nobody
      /\ v.router.pending /\ v.router.early = "none" /\ g # Nobody
  BY NodeAssumption DEF Books, Slot, Dispatching, Entering
<1>2. u \in World /\ u.router = v.router /\ u.goals = v.goals /\ u.fence = v.fence
      /\ u.pending = v.pending
  BY <1>1, InhibitedIs
<1>3. n \in Nat
  BY <1>1, <1>2, FencedBlocked
<1>4. CoreEnds(v, how) = RouterFinish(x, g, how)
  BY <1>1, <1>2 DEF CoreEnds, World
<1>5. Released(v) = [x EXCEPT !.router.active = Nobody, !.goals = {}]
  BY <1>2 DEF Released, World
<1> HIDE DEF u, n
<1>6. x \in World /\ x.router = v.router /\ x.goals = {} /\ x.core = Nobody
      /\ x.pending = v.pending
  BY <1>1, <1>2, <1>3 DEF World, Owner
<1> HIDE DEF x
<1>7. RouterFinish(x, g, how) = c
  BY <1>1, <1>6 DEF RouterFinish
<1>8. c \in World /\ c.goals = {} /\ c.core = Nobody /\ c.router.early = how
      /\ c.pending = v.pending
  BY <1>6 DEF World
<1>9. d \in World /\ d.goals = {g} /\ d.router.early = how /\ d.core = Nobody
  <2> HIDE DEF c
  <2> QED
    BY <1>1, <1>8 DEF World
<1>10. e \in World /\ e.goals = {g} /\ e.router.active = g /\ e.core = Nobody
  <2> HIDE DEF d
  <2> QED
    BY <1>1, <1>9 DEF World, Owner
<1>11. y \in World /\ y.goals = {g} /\ y.core = Nobody
  <2> HIDE DEF e
  <2> QED
    BY <1>10 DEF World, Owner
<1>12. RouterCommit(d, g) = RouterFinish(e, g, how)
  <2> HIDE DEF d
  <2>1. how # "none"
    BY DEF Ended
  <2> QED
    BY <1>9, <2>1 DEF RouterCommit
<1>13. RouterFinish(e, g, how) = FinishGoal(y, g, how)
  <2> HIDE DEF e
  <2> QED
    BY <1>10 DEF RouterFinish
<1>14. FinishGoal(y, g, how) = [Answered(y, g, how) EXCEPT !.goals = @ \ {g}]
  <2> HIDE DEF y
  <2> QED
    BY <1>11 DEF FinishGoal
<1>15. [Answered(y, g, how) EXCEPT !.goals = @ \ {g}] = Answered(z, g, how)
  <2> HIDE DEF y
  <2> QED
    BY <1>1, <1>11, AnsweredTaken
<1>16. Answered(z, g, how).core = Nobody
  <2>1. z \in World /\ z.core = Nobody
    <3> HIDE DEF y
    <3> QED
      BY <1>11 DEF World
  <2> HIDE DEF z
  <2> QED
    BY <1>1, <2>1, AnsweredIs
<1>17. RouterCommit(d, g) = Answered(z, g, how)
  BY <1>12, <1>13, <1>14, <1>15
<1>18. Admitted(c, g) = IF at \in c.pending THEN CoreCancel(RouterCommit(d, g), g)
                        ELSE RouterCommit(d, g)
  BY DEF Admitted
<1>19. CoreCancel(Answered(z, g, how), g) = Answered(z, g, how)
  BY <1>1, <1>16 DEF CoreCancel
<1>20. z = [Released(v) EXCEPT !.pending = @ \ {at},
             !.router = [pending |-> FALSE, active |-> Nobody, early |-> "none"]]
  <2> DEFINE r == [pending |-> FALSE, active |-> Nobody, early |-> "none"]
             s == Released(v)
             w == [s EXCEPT !.pending = @ \ {at}, !.router = r]
  <2>1. z = [x EXCEPT !.goals = {}, !.pending = @ \ {at}, !.router = r]
    <3>1. d = [c EXCEPT !.goals = {g}, !.pending = x.pending \ {at}]
      BY <1>6, <1>8
    <3>2. y = [d EXCEPT !.router = r]
      <4> DEFINE q == [pending |-> FALSE, active |-> g, early |-> "none"]
      <4>1. e.router = q
        <5> HIDE DEF d
        <5> QED
          BY <1>9 DEF World
      <4>2. r = [q EXCEPT !.active = Nobody]
        BY Unrouted
      <4>3. y = [e EXCEPT !.router = [q EXCEPT !.active = Nobody]]
        BY <4>1
      <4> HIDE DEF d, q
      <4>4. y = [d EXCEPT !.router = [q EXCEPT !.active = Nobody]]
        BY <4>3, <1>9 DEF World, q
      <4> QED
        BY <4>2, <4>4
    <3> HIDE DEF y, d, r
    <3> QED
      BY <1>6, <3>1, <3>2 DEF World
  <2>2. s = [x EXCEPT !.router.active = Nobody, !.goals = {}]
    BY <1>5
  <2> HIDE DEF s, z, r
  <2>3. w = [x EXCEPT !.goals = {}, !.pending = @ \ {at}, !.router = r]
    BY <1>6, <2>2 DEF World
  <2> QED
    BY <2>1, <2>3 DEF s, r
<1> QED
  BY <1>4, <1>7, <1>17, <1>18, <1>19, <1>20

LEMMA EarlyEndBooks ==
  ASSUME NEW v, NEW k, Books(v, k), k.pc \in Entering, NEW how \in Ended
  PROVE  Books(Admitted(CoreEnds(v, how), k.goal), Idle)
<1> DEFINE g == k.goal
           P == v.pending \ {goal[g].at}
           r == [pending |-> FALSE, active |-> Nobody, early |-> "none"]
           x == Released(v)
           w == [x EXCEPT !.pending = P, !.router = r]
<1>1. /\ v \in World /\ g \in Goal /\ v.core = g /\ v.goals = {}
      /\ v.goal[g].state = "accepted"
  BY DEF Books, Slot, Dispatching, Entering
<1>2. /\ x \in World /\ x.queue = v.queue
      /\ x.goal = v.goal /\ x.pending = v.pending /\ x.goals = {}
      /\ x.core = Nobody
      /\ x.lane = v.lane
      /\ x.fence.blocked = v.fence.blocked
      /\ x.fence.epoch = v.fence.epoch + IF v.fence.blocked THEN 0 ELSE 1
  BY <1>1, ReleasedIs
<1>3. w = [x EXCEPT !.pending = @ \ {goal[g].at}, !.router = r]
  BY <1>2
<1> HIDE DEF x
<1>4. P \in SUBSET Address /\ r \in [pending : BOOLEAN, active : Owner, early : {"none"} \cup Ended]
      /\ r.active = Nobody /\ r.early = "none"
  BY <1>1 DEF World, Owner
<1> HIDE DEF P, r
<1>5. /\ w \in World /\ w.fence = x.fence /\ w.queue = v.queue /\ w.goal = v.goal
      /\ w.goals = {} /\ w.core = Nobody /\ w.router = r /\ w.lane = v.lane
  BY <1>2, <1>4 DEF World
<1> HIDE DEF w
<1>6. Room(w) /\ Counted(w)
  BY <1>5 DEF Books, Room, Counted
<1>7. Slot(w, Idle)
  BY <1>4, <1>5, IdleIs DEF Slot, Entering, Dispatching
<1>8. Claims(w, Idle) /\ ~Has(w.queue.normal, Admit(g))
  BY <1>1, <1>5, IdleIs, NodeAssumption DEF Books, Claims, Has
<1>9. /\ w.fence.epoch \in 1..(2 + Cardinality(Over(w)) + IF w.fence.blocked THEN 1 ELSE 0)
      /\ \A h \in Goal : w.goal[h].epoch \in 1..w.fence.epoch
  <2>1. Over(w) = Over(v)
    BY <1>5 DEF Over
  <2>2. Cardinality(Over(v)) \in Nat /\ v.fence.epoch \in Nat /\ v.fence.blocked \in BOOLEAN
    BY <1>1, OverFinite, FencedBlocked
  <2>3. w.fence.epoch \in 1..(2 + Cardinality(Over(w)) + IF w.fence.blocked THEN 1 ELSE 0)
    BY <1>2, <1>5, <2>1, <2>2 DEF Books, Dated
  <2>4. \A h \in Goal : w.goal[h].epoch \in 1..w.fence.epoch
    BY <1>2, <1>5, <2>2 DEF Books, Dated
  <2> QED
    BY <2>3, <2>4
<1>10. \A h \in Goal \ {g} : w.goal[h].state = "accepted" =>
       w.fence.blocked \/ h \in w.goals \/ Has(w.queue.normal, Admit(h)) \/ Idle.goal = h
  BY <1>1, <1>2, <1>5 DEF Books, Somewhere, Has
<1>11. Loose(w, Idle, g)
  BY <1>1, <1>5, <1>6, <1>7, <1>8, <1>9, <1>10, IdleIs, NodeAssumption DEF Loose, Ended
<1>12. Books(Answered(w, g, how), Idle)
  BY <1>1, <1>11, LooseAnswered
<1> QED
  BY <1>3, <1>12, EarlyEnd DEF r, x

-----------------------------------------------------------------------------
LEMMA NowBecomes == ASSUME NEW w \in World, Becomes(w) PROVE Now' = w
  BY DEF Becomes, Now, World

LEMMA BooksStep ==
  ASSUME NEW w, Becomes(w), NEW k, worker' = k, Books(w, k)
  PROVE  BInv'
<1>1. w \in World
  BY DEF Books
<1>2. Now' = w
  BY <1>1, NowBecomes
<1> QED
  BY <1>2 DEF BInv

LEMMA EntryQuiet ==
  ASSUME NEW v \in World, Room(v), NEW g \in Goal, NEW e \in Entry,
         e.state = v.goal[g].state, e.results = v.goal[g].results, e.epoch = v.goal[g].epoch
  PROVE  Quiet(v, [v EXCEPT !.goal[g] = e])
<1> DEFINE w == [v EXCEPT !.goal[g] = e]
<1>1. /\ w \in World /\ w.goal[g] = e
      /\ \A h \in Goal : h # g => w.goal[h] = v.goal[h]
      /\ w.fence = v.fence /\ w.queue = v.queue /\ w.goals = v.goals
      /\ w.core = v.core /\ w.router = v.router /\ w.lane = v.lane
  BY EntrySet
<1> HIDE DEF w
<1>2. Quiet(v, w)
  BY <1>1 DEF Quiet, Room
<1> QED
  BY <1>2 DEF w

LEMMA PendingQuiet ==
  ASSUME NEW v \in World, Room(v), NEW P \in SUBSET Address
  PROVE  Quiet(v, [v EXCEPT !.pending = P])
<1> DEFINE w == [v EXCEPT !.pending = P]
<1>1. /\ w \in World /\ w.goal = v.goal
      /\ w.fence = v.fence /\ w.queue = v.queue /\ w.goals = v.goals
      /\ w.core = v.core /\ w.router = v.router /\ w.lane = v.lane
  BY DEF World
<1> HIDE DEF w
<1>2. Quiet(v, w)
  BY <1>1 DEF Quiet, Room
<1> QED
  BY <1>2 DEF w

LEMMA GateQuiet ==
  ASSUME NEW v \in World, Room(v),
         NEW x \in [quiescing : BOOLEAN, emergency : {"none", "due", "in submit"}]
  PROVE  Quiet(v, [v EXCEPT !.gate = x])
<1> DEFINE w == [v EXCEPT !.gate = x]
<1>1. /\ w \in World /\ w.goal = v.goal
      /\ w.fence = v.fence /\ w.queue = v.queue /\ w.goals = v.goals
      /\ w.core = v.core /\ w.router = v.router /\ w.lane = v.lane
  BY DEF World
<1> HIDE DEF w
<1>2. Quiet(v, w)
  BY <1>1 DEF Quiet, Room
<1> QED
  BY <1>2 DEF w

LEMMA LaneQuiet ==
  ASSUME NEW v \in World, Room(v), v.lane # <<>>
  PROVE  /\ Quiet(v, [v EXCEPT !.lane = Tail(@)])
         /\ Head(v.lane) \in Goal
<1> DEFINE l == Tail(v.lane)
           w == [v EXCEPT !.lane = l]
<1>0. v.lane \in Seq(Goal)
  BY DEF World
<1>1. l \in Seq(Goal) /\ Len(l) = Len(v.lane) - 1 /\ Len(v.lane) \in Nat \ {0}
      /\ Head(v.lane) \in Goal
  BY <1>0, TailIs
<1> HIDE DEF l
<1>2. /\ w \in World /\ w.goal = v.goal
      /\ w.fence = v.fence /\ w.queue = v.queue /\ w.goals = v.goals
      /\ w.core = v.core /\ w.router = v.router /\ w.lane = l
  BY <1>1 DEF World
<1> HIDE DEF w
<1>3. Quiet(v, w)
  BY <1>1, <1>2, SlotsNat DEF Quiet, Room
<1> QED
  BY <1>1, <1>3 DEF w, l

LEMMA SubmittedQuiet ==
  ASSUME NEW v \in World, Room(v), NEW e \in ControlEvent
  PROVE  Quiet(v, Submitted(v, e))
  BY EnqueuedQuiet, QuietSelf DEF Submitted

LEMMA SubmittedLook ==
  ASSUME NEW v, NEW k, Books(v, k)
  PROVE  Books(Submitted(v, Look), k)
  BY LookBooks DEF Submitted

LEMMA BooksWorld == ASSUME NEW v, NEW k, Books(v, k) PROVE v \in World /\ Room(v)
  BY DEF Books

LEMMA NowWorld == ASSUME BInv PROVE Now \in World /\ Room(Now) /\ Books(Now, worker)
  BY DEF BInv, Books

LEMMA QuietStep ==
  ASSUME BInv, NEW w, Quiet(Now, w), Becomes(w), worker' = worker
  PROVE  BInv'
  BY NowWorld, QuietBooks, BooksStep

LEMMA BooksLoose ==
  ASSUME NEW v, NEW k, Books(v, k), NEW g \in Goal, v.goal[g].state \notin Ended \cup {"accepted"}
  PROVE  Loose(v, k, g)
<1>1. v \in World /\ g \notin v.goals
  BY DEF Books, Slot
<1>2. g # k.goal
  BY NodeAssumption DEF Books, Slot
<1>3. ~Has(v.queue.normal, Admit(g))
  BY DEF Books, Claims, Has
<1>4. /\ v.fence.epoch \in 1..(2 + Cardinality(Over(v)) + IF v.fence.blocked THEN 1 ELSE 0)
      /\ \A h \in Goal : v.goal[h].epoch \in 1..v.fence.epoch
  BY OverFinite DEF Books, Dated
<1>5. \A h \in Goal \ {g} : v.goal[h].state = "accepted" =>
       v.fence.blocked \/ h \in v.goals \/ Has(v.queue.normal, Admit(h)) \/ k.goal = h
  BY DEF Books, Somewhere, Has
<1> QED
  BY <1>1, <1>2, <1>3, <1>4, <1>5 DEF Books, Loose

-----------------------------------------------------------------------------
(***************************************************************************)
(* Callbacks.                                                              *)
(***************************************************************************)
LEMMA OnGoalBooks ==
  ASSUME BInv, NEW g \in Goal, NEW a \in Address, OnGoal(g, a)
  PROVE  BInv'
<1>1. PICK w \in Pruned(Now) : Becomes([w EXCEPT !.goal[g] =
         IF Admissible(w, w.fence.epoch) /\ Cardinality(Tickets(w)) < TicketSlots
         THEN [@ EXCEPT !.state = "offered", !.at = a, !.ticket = "provisional",
                        !.epoch = w.fence.epoch]
         ELSE [@ EXCEPT !.state = "refused"]])
  BY DEF OnGoal
<1> DEFINE x == w.goal[g]
           open == Admissible(w, w.fence.epoch) /\ Cardinality(Tickets(w)) < TicketSlots
           e == IF open THEN [x EXCEPT !.state = "offered", !.at = a,
                               !.ticket = "provisional", !.epoch = w.fence.epoch]
                ELSE [x EXCEPT !.state = "refused"]
<1>2. Becomes([w EXCEPT !.goal[g] = e])
  BY <1>1
<1> HIDE DEF open
<1>3. Quiet(Now, w)
  BY NowWorld, PrunedQuiet
<1>4. Books(w, worker) /\ w \in World
  BY <1>3, NowWorld, QuietBooks, QuietWorld
<1>5. x \in Entry /\ w.fence.epoch \in Nat /\ x.epoch \in 1..w.fence.epoch
      /\ w.fence.epoch \in 1..w.fence.epoch
  BY <1>4, EntryOf, FencedBlocked DEF Books, Dated
<1>6. x.state = "idle"
  BY <1>3, NowFields DEF OnGoal, Quiet
<1> HIDE DEF x
<1>7. e \in Entry /\ e.state \in {"offered", "refused"} /\ e.results = x.results
      /\ e.epoch \in 1..w.fence.epoch
  <2>1. CASE open
    BY <1>5, <2>1 DEF Entry, GoalState
  <2>2. CASE ~open
    BY <1>5, <2>2 DEF Entry, GoalState
  <2> QED
    BY <2>1, <2>2
<1> HIDE DEF e
<1>8. Books([w EXCEPT !.goal[g] = e], worker)
  BY <1>4, <1>6, <1>7, EntryBooks DEF Ended, x
<1> QED
  BY <1>2, <1>8, BooksStep DEF OnGoal

LEMMA OnCancelBooks ==
  ASSUME BInv, NEW g \in Goal, OnCancel(g)
  PROVE  BInv'
<1> DEFINE e == [goal[g] EXCEPT !.asked = TRUE]
           u == [Now EXCEPT !.goal[g] = e]
           x == [u EXCEPT !.pending = @ \cup {goal[g].at}]
<1>0. Now \in World /\ Room(Now) /\ goal[g] \in Entry /\ Now.goal[g] = goal[g]
  BY NowWorld, EntryOf, NowFields
<1>1. e \in Entry /\ e.state = goal[g].state /\ e.results = goal[g].results
      /\ e.epoch = goal[g].epoch
  BY <1>0 DEF Entry
<1>2. [Now EXCEPT !.goal[g].asked = TRUE] = u
  BY <1>0, NowFields DEF Now
<1>3. Becomes(IF g \in goals THEN Submitted(u, Cancel(g)) ELSE x)
  BY <1>2 DEF OnCancel
<1> HIDE DEF e
<1>4. Quiet(Now, u)
  BY <1>0, <1>1, EntryQuiet
<1>5. u \in World /\ Room(u)
  BY <1>4, QuietWorld
<1> HIDE DEF u
<1>6. Quiet(u, Submitted(u, Cancel(g)))
  BY <1>5, SubmittedQuiet, Controls
<1>7. Quiet(u, x)
  <2>1. u.pending \cup {goal[g].at} \in SUBSET Address
    BY <1>0, <1>5 DEF World, Entry
  <2> QED
    BY <1>5, <2>1, PendingQuiet
<1>8. Quiet(Now, Submitted(u, Cancel(g))) /\ Quiet(Now, x)
  BY <1>4, <1>6, <1>7, QuietTrans
<1> QED
  BY <1>3, <1>8, QuietStep DEF OnCancel

LEMMA OnAcceptedBooks ==
  ASSUME BInv, NEW g \in Goal, OnAccepted(g)
  PROVE  BInv'
<1> DEFINE fit == goal[g].ticket = "provisional" /\ Admissible(Now, goal[g].epoch)
           in == fit /\ Submits(Now, Admit(g))
           state == IF in THEN "accepted" ELSE "turned away"
           e == [goal[g] EXCEPT !.ticket = "none", !.state = state]
           u == [Now EXCEPT !.goal[g] = e]
<1>0. Now \in World /\ Room(Now) /\ goal[g] \in Entry /\ Now.goal[g] = goal[g]
      /\ goal[g].state = "offered" /\ worker' = worker
  BY NowWorld, EntryOf, NowFields DEF OnAccepted
<1>1. [Now EXCEPT !.goal[g].ticket = "none", !.goal[g].state = state] = u
  <2> HIDE DEF state
  <2> QED
    BY <1>0, NowFields DEF Now
<1>2. Becomes(IF fit THEN Submitted(u, Admit(g)) ELSE u)
  BY <1>1 DEF OnAccepted
<1>3. e \in Entry /\ e.state = state /\ e.results = goal[g].results /\ e.epoch = goal[g].epoch
  <2>1. state \in GoalState
    BY DEF GoalState
  <2> HIDE DEF state
  <2> QED
    BY <1>0, <2>1 DEF Entry
<1> HIDE DEF fit, e
<1>4. u \in World /\ u.fence = Now.fence /\ u.gate = Now.gate /\ u.queue = Now.queue
  BY <1>0, <1>3, EntrySet
<1>5. CASE in
  <2>1. ~u.gate.quiescing /\ Takes(u, Admit(g)) /\ Takes(Now, Admit(g))
    BY <1>4, <1>5 DEF Submits, Takes
  <2> DEFINE q == [u.queue EXCEPT !.normal = Append(@, Admit(g))]
  <2>2. Submitted(u, Admit(g)) = [u EXCEPT !.queue = q] /\ HasRoom(Now.queue, "normal")
    BY <1>0, <1>4, <2>1, TakenNormal, Normals DEF Submitted
  <2>3. [u EXCEPT !.queue = q] =
          [Now EXCEPT !.goal[g] = e, !.queue = [Now.queue EXCEPT !.normal = Append(@, Admit(g))]]
    BY <1>4
  <2>4. Books([Now EXCEPT !.goal[g] = e,
                 !.queue = [Now.queue EXCEPT !.normal = Append(@, Admit(g))]], worker)
    BY <1>0, <1>3, <1>5, <2>2, NowWorld, AcceptedBooks DEF Ended
  <2> QED
    BY <1>0, <1>2, <1>5, <2>2, <2>3, <2>4, BooksStep
<1>6. CASE ~in
  <2>1. Now.goal[g].epoch \in 1..Now.fence.epoch
    BY NowWorld DEF Books, Dated
  <2>2. Books(u, worker)
    BY <1>0, <1>3, <1>6, <2>1, NowWorld, EntryBooks DEF Ended
  <2>3. fit => u.gate.quiescing \/ ~Takes(u, Admit(g))
    BY <1>4, <1>6 DEF Submits, Takes
  <2> HIDE DEF u
  <2>4. fit => Quiet(u, Submitted(u, Admit(g)))
    BY <2>2, <2>3, BooksWorld, RefusedQuiet, QuietSelf DEF Submitted
  <2>5. fit => Books(Submitted(u, Admit(g)), worker)
    BY <2>2, <2>4, QuietBooks
  <2> QED
    BY <1>0, <1>2, <2>2, <2>5, BooksStep
<1> QED
  BY <1>5, <1>6

LEMMA TurnAwayBooks ==
  ASSUME BInv, NEW g \in Goal, TurnAway(g)
  PROVE  BInv'
<1>1. Now.goal[g].state = "turned away"
  BY NowFields DEF TurnAway
<1>2. Loose(Now, worker, g)
  BY <1>1, NowWorld, BooksLoose DEF Ended
<1>3. Books(Answered(Now, g, "aborted"), worker)
  BY <1>2, LooseAnswered DEF Ended
<1> QED
  BY <1>3, BooksStep DEF TurnAway, Aborted

LEMMA TimerBooks == ASSUME BInv, Timer PROVE BInv'
<1>1. PICK w \in Revoked(Now) : \E v \in Pruned(w) : Becomes(Submitted(v, Look))
  BY DEF Timer
<1>2. PICK v \in Pruned(w) : Becomes(Submitted(v, Look))
  BY <1>1
<1>3. Quiet(Now, w)
  BY NowWorld, PrunedQuiet
<1>4. Quiet(w, v)
  BY <1>3, QuietWorld, PrunedQuiet
<1>5. Books(v, worker)
  BY <1>3, <1>4, NowWorld, QuietBooks
<1> QED
  BY <1>2, <1>5, SubmittedLook, BooksStep DEF Timer

LEMMA GateSnapshotBooks == ASSUME BInv, GateSnapshot PROVE BInv'
  BY NowWorld, LookBooks, BooksStep DEF GateSnapshot

LEMMA StopBooks == ASSUME BInv, OnStop \/ StopEmergency \/ StopDeadline PROVE BInv'
<1>1. Quiet(Now, Submitted(Now, Stop)) /\ Quiet(Now, Inhibited(Now))
  BY NowWorld, SubmittedQuiet, InhibitedQuiet, Controls
<1> QED
  BY <1>1, QuietStep DEF OnStop, StopEmergency, StopDeadline

LEMMA EmergencyCallbackBooks == ASSUME BInv, EmergencyCallback PROVE BInv'
<1> DEFINE u == Inhibited(Now)
           x == [u.gate EXCEPT !.emergency = "none"]
<1>1. Becomes([u EXCEPT !.gate = x]) /\ worker' = worker
  BY DEF EmergencyCallback
<1>2. Quiet(Now, u)
  BY NowWorld, InhibitedQuiet
<1> HIDE DEF u
<1>3. x \in [quiescing : BOOLEAN, emergency : {"none", "due", "in submit"}]
  <2>1. u \in World
    BY <1>2, QuietWorld
  <2>2. u.gate \in [quiescing : BOOLEAN, emergency : {"none", "due", "in submit"}]
    BY <2>1 DEF World
  <2> QED
    BY <2>2
<1>4. Quiet(Now, [u EXCEPT !.gate = x])
  BY <1>2, <1>3, QuietWorld, GateQuiet, QuietTrans
<1> QED
  BY <1>1, <1>4, QuietStep

-----------------------------------------------------------------------------
(***************************************************************************)
(* The worker keeps the books.                                             *)
(***************************************************************************)
LEMMA TakenIs ==
  ASSUME BInv, Popped # <<>>
  PROVE  \/ /\ FromControl(queue, Popped[1], Popped[2])
            /\ Quiet(Now, Taken) /\ Books(Taken, worker) /\ Popped[1] \in ControlEvent
         \/ /\ FromNormal(queue, Popped[1], Popped[2])
            /\ Taken = [Now EXCEPT !.queue = [Now.queue EXCEPT !.normal = Tail(@)]]
            /\ Now.queue.normal # <<>> /\ Popped[1] = Head(Now.queue.normal)
            /\ Popped[1] \in NormalEvent
<1>1. queue \in QueueType /\ Now.queue = queue
  BY NowWorld, QueueIs, NowFields
<1>2. CASE FromControl(queue, Popped[1], Popped[2])
  <2>1. Popped[2] \in QueueType /\ Popped[2].normal = Now.queue.normal
        /\ Len(Popped[2].control) <= Len(Now.queue.control)
    BY <1>1, <1>2 DEF FromControl
  <2>2. Len(Now.queue.control) <= ControlSlots
    BY NowWorld DEF Room
  <2>3. Len(Popped[2].control) \in Nat /\ Len(Now.queue.control) \in Nat
    BY <1>1, <2>1 DEF QueueType
  <2>4. Quiet(Now, Taken)
    BY <2>1, <2>2, <2>3, NowWorld, QueueQuiet, SlotsNat DEF Taken
  <2>5. Books(Taken, worker)
    BY <2>4, NowWorld, QuietBooks
  <2> QED
    BY <1>2, <2>4, <2>5 DEF FromControl
<1>3. CASE FromNormal(queue, Popped[1], Popped[2])
  <2>1. queue.normal \in Seq(NormalEvent)
    BY <1>1 DEF QueueType
  <2>2. queue.normal # <<>> /\ Popped[1] = Head(queue.normal)
        /\ Popped[2] = [queue EXCEPT !.normal = Tail(@)]
    BY <1>3 DEF FromNormal
  <2>3. Popped[1] \in NormalEvent
    BY <2>1, <2>2, TailIs
  <2> QED
    BY <1>1, <1>3, <2>2, <2>3 DEF Taken
<1> QED
  BY <1>1, <1>2, <1>3, PoppedIs

LEMMA Kinds ==
  /\ \A e \in ControlEvent : e.kind \in {"cancel", "result", "stop", "fault"}
  /\ \A e \in NormalEvent : e.kind \in {"admit", "look"}
  /\ \A e \in ControlEvent : e.kind \in {"cancel", "result"} =>
       e.goal \in Goal /\ (e.kind = "result" => e = Result(e.goal))
                       /\ (e.kind = "cancel" => e = Cancel(e.goal))
  /\ \A e \in ControlEvent : e.kind = "stop" => e = Stop
  /\ \A e \in NormalEvent : e.kind = "look" => e = Look
  /\ \A e \in NormalEvent : e.kind = "admit" => e.goal \in Goal /\ e = Admit(e.goal)
  BY DEF ControlEvent, NormalEvent, Cancel, Result, Stop, Fault, Admit, Look

LEMMA WorkerIdle ==
  ASSUME BInv, worker.pc \notin Dispatching
  PROVE  worker.pc \notin Entering /\ worker.goal = Nobody
  BY DEF BInv, Books, Slot, Dispatching, Entering

LEMMA TakenControlBooks ==
  ASSUME BInv, worker.pc = "idle", Popped # <<>>,
         Popped[1].kind \in {"cancel", "result", "stop", "fault"}
  PROVE  /\ FromControl(queue, Popped[1], Popped[2]) /\ Popped[1] \in ControlEvent
         /\ Quiet(Now, Taken) /\ Books(Taken, worker) /\ worker.pc \notin Entering
  BY TakenIs, Kinds DEF Entering

LEMMA WorkControlBooks ==
  ASSUME BInv, WorkCancel \/ WorkStop \/ WorkResult
  PROVE  BInv'
<1>1. worker.pc = "idle" /\ Popped # <<>> /\ Popped[1].kind \in {"cancel", "result", "stop"}
      /\ worker' = worker
  BY DEF WorkCancel, WorkStop, WorkResult, Pops
<1>2. Popped[1] \in ControlEvent /\ Quiet(Now, Taken) /\ Books(Taken, worker)
      /\ worker.pc \notin Entering
  BY <1>1, TakenControlBooks
<1>3. CASE WorkCancel
  BY <1>1, <1>2, <1>3, CoreCancelBooks, BooksStep DEF WorkCancel
<1>4. CASE WorkStop
  BY <1>1, <1>2, <1>4, CoreEndsBooks, BooksStep DEF WorkStop, Ended
<1>5. CASE WorkResult
  <2> DEFINE w == [Taken EXCEPT !.registry[Event1] = "none"]
  <2>1. Event1 \in Goal
    BY <1>2, <1>5, Kinds DEF WorkResult, Pops, Event1
  <2>2. Quiet(Taken, w)
    BY <1>2, <2>1, QuietWorld, RegistrySet, RegistryQuiet
  <2>3. Books(w, worker)
    BY <1>2, <2>2, QuietBooks
  <2>4. Books(CoreResult(w, Event1), worker)
    BY <1>2, <2>3, CoreCancelBooks
  <2>5. Becomes(CoreResult(w, Event1)) \/ Becomes(Taken)
    BY <1>5 DEF WorkResult
  <2> QED
    BY <1>1, <1>2, <2>4, <2>5, BooksStep
<1> QED
  BY <1>3, <1>4, <1>5

LEMMA TakenNormalBooks ==
  ASSUME BInv, Popped # <<>>, fence.blocked \/ Popped[1] = Look,
         FromNormal(queue, Popped[1], Popped[2])
  PROVE  Books(Taken, worker)
<1>1. Books(Taken, worker) \/
            /\ Taken = [Now EXCEPT !.queue = [Now.queue EXCEPT !.normal = Tail(@)]]
            /\ Now.queue.normal # <<>> /\ Popped[1] = Head(Now.queue.normal)
  BY TakenIs
<1>2. Now.fence = fence
  BY NowFields
<1> QED
  BY <1>1, <1>2, NowWorld, TailBooks

LEMMA WorkLookBooks == ASSUME BInv, WorkLook PROVE BInv'
<1>1. worker.pc = "idle" /\ Popped # <<>> /\ Popped[1].kind = "look" /\ worker' = worker
  BY DEF WorkLook, Pops
<1>2. FromNormal(queue, Popped[1], Popped[2]) /\ Popped[1] = Look
  BY <1>1, TakenIs, Kinds
<1>3. Books(Taken, worker)
  BY <1>1, <1>2, TakenNormalBooks
<1>4. PICK w \in Revoked(Taken) : \E v \in Pruned(w) :
        Becomes(v) \/ Becomes(CoreEnds(v, "aborted"))
  BY DEF WorkLook
<1>5. PICK v \in Pruned(w) : Becomes(v) \/ Becomes(CoreEnds(v, "aborted"))
  BY <1>4
<1>6. Quiet(Taken, w)
  BY <1>3, BooksWorld, PrunedQuiet
<1>7. Quiet(w, v)
  BY <1>6, QuietWorld, PrunedQuiet
<1>8. Books(v, worker)
  BY <1>3, <1>6, <1>7, QuietBooks
<1>9. Books(CoreEnds(v, "aborted"), worker)
  BY <1>1, <1>8, CoreEndsBooks DEF Ended, Entering
<1> QED
  BY <1>1, <1>5, <1>8, <1>9, BooksStep

LEMMA WorkDropBooks == ASSUME BInv, WorkDrop PROVE BInv'
<1>1. Books(Taken, worker)
  BY TakenIs, TakenNormalBooks DEF WorkDrop
<1> QED
  BY <1>1, BooksStep DEF WorkDrop

LEMMA FenceQuiet ==
  ASSUME NEW v \in World, Room(v)
  PROVE  Quiet(v, [v EXCEPT !.fence.pending = FALSE])
<1> DEFINE w == [v EXCEPT !.fence.pending = FALSE]
<1>1. w \in World
  BY DEF World
<1>2. /\ w.fence.epoch = v.fence.epoch /\ w.fence.blocked = v.fence.blocked
      /\ w.goal = v.goal /\ w.goals = v.goals /\ w.core = v.core /\ w.router = v.router
      /\ w.queue = v.queue /\ w.lane = v.lane
  BY DEF World
<1> QED
  BY <1>1, <1>2 DEF Quiet, Room

LEMMA WorkFenceBooks == ASSUME BInv, WorkFence PROVE BInv'
<1> DEFINE w == [Now EXCEPT !.fence.pending = FALSE]
<1>1. Books(w, worker)
  BY NowWorld, FenceQuiet, QuietBooks
<1>2. Books(CoreEnds(w, "aborted"), worker)
  BY <1>1, CoreEndsBooks DEF Ended, Entering, WorkFence
<1> QED
  BY <1>2, BooksStep DEF WorkFence

LEMMA WorkAdmitBooks == ASSUME BInv, WorkAdmit PROVE BInv'
<1>1. worker.pc = "idle" /\ Popped # <<>> /\ Popped[1].kind = "admit"
  BY DEF WorkAdmit, Pops
<1>2. /\ Taken = [Now EXCEPT !.queue = [Now.queue EXCEPT !.normal = Tail(@)]]
      /\ Now.queue.normal # <<>> /\ Event1 \in Goal /\ Head(Now.queue.normal) = Admit(Event1)
  BY <1>1, TakenIs, Kinds DEF Event1
<1>3. Loose(Taken, worker, Event1) /\ Taken.goal[Event1].state = "accepted" /\ Dated(Taken)
  BY <1>2, NowWorld, AdmitLoose
<1>4. CASE gate.quiescing
  <2>1. Books(Aborted(Taken, Event1), worker)
    BY <1>2, <1>3, LooseAnswered DEF Aborted, Ended
  <2> QED
    BY <1>4, <2>1, BooksStep DEF WorkAdmit
<1>5. CASE ~gate.quiescing
  <2>1. Books([Taken EXCEPT !.router.pending = TRUE, !.router.early = "none"],
              [pc |-> "claimed", goal |-> Event1])
    BY <1>1, <1>2, <1>3, ClaimedBooks
  <2> QED
    BY <1>5, <2>1, BooksStep DEF WorkAdmit
<1> QED
  BY <1>4, <1>5

LEMMA CoreAdmitBooks == ASSUME BInv, CoreAdmit PROVE BInv'
<1> DEFINE g == worker.goal
<1>1. worker.pc = "claimed" /\ Now.goal = goal /\ Now.core = core /\ Now.pending = pending
  BY NowFields DEF CoreAdmit
<1>2. g \in Goal
  BY <1>1 DEF BInv, Books, Slot, Dispatching
<1>3. CASE /\ core = Nobody /\ Admissible(Now, goal[g].epoch)
           /\ Becomes([Now EXCEPT !.core = g]) /\ worker' = [worker EXCEPT !.pc = "admitted"]
  BY <1>1, <1>3, NowWorld, SlotBooks, BooksStep DEF CoreAdmit
<1>4. CASE /\ Becomes(Aborted([Now EXCEPT !.router.pending = FALSE,
                                      !.pending = @ \ {goal[g].at}], g))
           /\ worker' = Idle
  <2> DEFINE P == Now.pending \ {goal[g].at}
             w == [Now EXCEPT !.router.pending = FALSE, !.pending = P]
  <2>1. P \in SUBSET Address
    <3>1. Now.pending \in SUBSET Address
      BY NowWorld DEF World
    <3> QED
      BY <3>1
  <2>2. Loose(w, Idle, g)
    BY <1>1, <2>1, NowWorld, DismissedLoose
  <2>3. Books(Aborted(w, g), Idle)
    BY <1>2, <2>2, LooseAnswered DEF Aborted, Ended
  <2>4. Becomes(Aborted(w, g)) /\ worker' = Idle
    BY <1>4 DEF CoreAdmit
  <2> QED
    BY <2>3, <2>4, BooksStep
<1> QED
  BY <1>3, <1>4 DEF CoreAdmit

LEMMA StartStepBooks == ASSUME BInv, StartStep PROVE BInv'
<1> DEFINE g == worker.goal
<1>1. worker.pc = "admitted" /\ worker.pc \in Entering /\ worker \in Workers
  BY NowWorld DEF StartStep, Entering, Books
<1>2. g \in Goal
  BY <1>1 DEF BInv, Books, Slot, Dispatching
<1>3. CASE Admissible(Now, goal[g].epoch)
  <2> DEFINE w == [Now EXCEPT !.registry[g] = "open"]
             c == [worker EXCEPT !.pc = "calling"]
  <2>1. Quiet(Now, w)
    BY <1>2, NowWorld, RegistrySet, RegistryQuiet
  <2>2. Books(w, worker)
    BY <2>1, NowWorld, QuietBooks
  <2>3. c \in Workers /\ c.goal = worker.goal /\ c.pc \in Entering
    BY <1>1 DEF Workers, Entering, Dispatching
  <2>4. Books(w, c)
    BY <1>1, <2>2, <2>3, PcBooks
  <2>5. Becomes(w) /\ worker' = c
    BY <1>3 DEF StartStep
  <2> QED
    BY <2>4, <2>5, BooksStep
<1>4. CASE ~Admissible(Now, goal[g].epoch)
  <2>1. Books(Admitted(CoreEnds(Now, "aborted"), g), Idle)
    BY <1>1, NowWorld, EarlyEndBooks DEF Ended
  <2> QED
    BY <1>4, <2>1, BooksStep DEF StartStep
<1> QED
  BY <1>3, <1>4

LEMMA EnterPortBooks == ASSUME BInv, EnterPort PROVE BInv'
<1> DEFINE c == [worker EXCEPT !.pc = "starting"]
<1>1. worker.pc \in Entering /\ worker \in Workers
  BY NowWorld DEF EnterPort, Entering, Books
<1>2. c \in Workers /\ c.goal = worker.goal /\ c.pc \in Entering
  BY <1>1 DEF Workers, Entering, Dispatching
<1>3. Books(Now, c)
  BY <1>1, <1>2, NowWorld, PcBooks
<1> QED
  BY <1>3, BooksStep DEF EnterPort

LEMMA PortStartBooks == ASSUME BInv, PortStart PROVE BInv'
<1> DEFINE g == worker.goal
<1>1. worker.pc \in Entering
  BY DEF PortStart, Entering
<1>2. g \in Goal
  BY <1>1 DEF BInv, Books, Slot, Dispatching, Entering
<1>3. Books(PortStarts(Now, g), worker)
  BY <1>2, NowWorld, PortStartsQuiet, QuietBooks
<1>4. Books(Admitted(PortStarts(Now, g), g), Idle)
  BY <1>1, <1>3, AdmittedBooks
<1> QED
  BY <1>4, BooksStep DEF PortStart

LEMMA WorkerEndsBooks == ASSUME BInv, WorkerEnds PROVE BInv'
<1>1. worker.pc = "idle" /\ worker.goal = Nobody
  BY WorkerIdle DEF WorkerEnds, Dispatching
<1>2. [Idle EXCEPT !.pc = "ended"] \in Workers /\ [Idle EXCEPT !.pc = "ended"].goal = Nobody
      /\ [Idle EXCEPT !.pc = "ended"].pc = "ended"
  BY DEF Idle, Workers, Owner
<1>3. Books(Now, [Idle EXCEPT !.pc = "ended"])
  BY <1>1, <1>2, NowWorld, PcBooks
<1> QED
  BY <1>3, BooksStep DEF WorkerEnds

LEMMA WorkerBooks == ASSUME BInv, Worker PROVE BInv'
  BY WorkControlBooks, WorkLookBooks, WorkDropBooks, WorkFenceBooks, WorkAdmitBooks,
     CoreAdmitBooks, StartStepBooks, EnterPortBooks, PortStartBooks, WorkerEndsBooks DEF Worker

-----------------------------------------------------------------------------
(***************************************************************************)
(* The other threads keep the books.                                       *)
(***************************************************************************)
LEMMA PortSet ==
  ASSUME NEW v \in World, Room(v), NEW p \in PortType
  PROVE  /\ Quiet(v, [v EXCEPT !.port = p])
         /\ [v EXCEPT !.port = p].port = p /\ v.port \in PortType
<1>1. /\ [v EXCEPT !.port = p] \in World /\ [v EXCEPT !.port = p].port = p
      /\ v.port \in PortType
  BY DEF World, PortType, Tx
<1> QED
  BY <1>1, PortQuiet

LEMMA PortOf == ASSUME NEW v \in World PROVE v.port \in PortType
  BY DEF World, PortType, Tx

LEMMA TxQuiet ==
  ASSUME NEW v \in World, Room(v), NEW t \in Tx
  PROVE  /\ Quiet(v, [v EXCEPT !.port.tx = t])
         /\ [v EXCEPT !.port.tx = t].port.child = v.port.child
<1> DEFINE p == [v.port EXCEPT !.tx = t]
<1>1. p \in PortType /\ p.child = v.port.child
  BY PortOf DEF PortType
<1>2. [v EXCEPT !.port.tx = t] = [v EXCEPT !.port = p]
  OBVIOUS
<1> HIDE DEF p
<1> QED
  BY <1>1, <1>2, PortSet

LEMMA TransactionBooks == ASSUME BInv, Transaction PROVE BInv'
<1> DEFINE x(t) == [Now EXCEPT !.port.tx = t]
<1>1. worker' = worker
  BY DEF Transaction, TxBegin, TxGrant, TxInvoke, TxEffect, TxCommit, TxRollback, TxFails
<1>2. CASE \E t \in Tx : Becomes(x(t))
  <2>1. PICK t \in Tx : Becomes(x(t))
    BY <1>2
  <2>2. Quiet(Now, x(t))
    BY NowWorld, TxQuiet
  <2> QED
    BY <1>1, <2>1, <2>2, QuietStep
<1>3. CASE TxFails
  <2> DEFINE w == x("none")
  <2>1. Quiet(Now, w) /\ w.port.child = Now.port.child /\ Now.port = port
    <3>1. "none" \in Tx
      BY DEF Tx
    <3> QED
      BY <3>1, NowWorld, TxQuiet, NowFields
  <2>2. port.child # Nobody => Quiet(Now, PortEnds(w))
    BY <2>1, QuietWorld, PortEndsQuiet, QuietTrans
  <2>3. Becomes(w) \/ (port.child # Nobody /\ Becomes(PortEnds(w)))
    BY <1>3 DEF TxFails
  <2> QED
    BY <1>1, <2>1, <2>2, <2>3, QuietStep
<1>4. Transaction => TxFails \/ \E t \in Tx : Becomes(x(t))
  BY DEF Transaction, TxBegin, TxGrant, TxInvoke, TxEffect, TxCommit, TxRollback, TxStep, Tx
<1> QED
  BY <1>2, <1>3, <1>4

LEMMA PortThreadBooks == ASSUME BInv, PortThread PROVE BInv'
<1>1. port.child # Nobody /\ Becomes(PortEnds(Now)) /\ worker' = worker
  BY DEF PortThread, ChildEnds, Teardown
<1>2. Quiet(Now, PortEnds(Now))
  BY <1>1, NowWorld, NowFields, PortEndsQuiet
<1> QED
  BY <1>1, <1>2, QuietStep

LEMMA LaneTakesBooks == ASSUME BInv, LaneTakes PROVE BInv'
<1> DEFINE w == [Now EXCEPT !.lane = Tail(@)]
<1>1. Now.lane = lane /\ lane # <<>> /\ worker' = worker /\ worker.pc \notin Dispatching
      /\ Becomes(CoreResult(w, Head(lane)))
  BY NowFields DEF LaneTakes, CoreFree
<1>2. Quiet(Now, w)
  BY <1>1, NowWorld, LaneQuiet
<1>3. Books(w, worker)
  BY <1>2, NowWorld, QuietBooks
<1>4. Books(CoreResult(w, Head(lane)), worker)
  BY <1>1, <1>3, CoreCancelBooks DEF Entering, Dispatching
<1> QED
  BY <1>1, <1>4, BooksStep

LEMMA KeepsBooks == ASSUME BInv, Keeps PROVE BInv'
  BY NowWorld, QuietSelf, QuietStep DEF Keeps

LEMMA CloseGenerationBooks == ASSUME BInv, CloseGeneration PROVE BInv'
<1> DEFINE x == [Now.gate EXCEPT !.quiescing = TRUE]
<1>1. [Now EXCEPT !.gate.quiescing = TRUE] = [Now EXCEPT !.gate = x]
  OBVIOUS
<1>2. Now.gate \in [quiescing : BOOLEAN, emergency : {"none", "due", "in submit"}]
  BY NowWorld DEF World
<1>3. x \in [quiescing : BOOLEAN, emergency : {"none", "due", "in submit"}]
  BY <1>2
<1> HIDE DEF x
<1>4. Quiet(Now, [Now EXCEPT !.gate = x])
  BY <1>3, NowWorld, GateQuiet
<1> QED
  BY <1>1, <1>4, QuietStep DEF CloseGeneration

LEMMA BeginRunningShutdownBooks == ASSUME BInv, BeginRunningShutdown PROVE BInv'
<1> DEFINE u == Inhibited(Now)
           p == [u.port EXCEPT !.shutting = TRUE]
<1>1. Quiet(Now, u)
  BY NowWorld, InhibitedQuiet
<1>2. Becomes([u EXCEPT !.port.shutting = TRUE]) /\ worker' = worker
  BY DEF BeginRunningShutdown
<1> HIDE DEF u
<1>3. u \in World /\ Room(u)
  BY <1>1, QuietWorld
<1>4. p \in PortType
  BY <1>3, PortOf DEF PortType
<1>5. [u EXCEPT !.port.shutting = TRUE] = [u EXCEPT !.port = p]
  OBVIOUS
<1> HIDE DEF p
<1>6. Quiet(u, [u EXCEPT !.port = p])
  BY <1>3, <1>4, PortSet
<1>7. Quiet(Now, [u EXCEPT !.port = p])
  BY <1>1, <1>6, QuietTrans
<1> QED
  BY <1>2, <1>5, <1>7, QuietStep

LEMMA JointEmergencyBooks == ASSUME BInv, JointEmergency PROVE BInv'
<1>1. Quiet(Now, Inhibited(Now))
  BY NowWorld, InhibitedQuiet
<1>2. Quiet(Inhibited(Now), Emergency(Inhibited(Now), FALSE))
  BY <1>1, QuietWorld, EmergencyQuiet
<1> QED
  BY <1>1, <1>2, QuietTrans, QuietStep DEF JointEmergency

LEMMA CoreFailClosedBooks == ASSUME BInv, CoreFailClosed PROVE BInv'
<1>1. worker.pc \notin Entering /\ worker' = worker
  BY DEF CoreFailClosed, CoreFree, Dispatching, Entering
<1>2. Books(CoreEnds(Now, "aborted"), worker)
  BY <1>1, NowWorld, CoreEndsBooks DEF Ended
<1> QED
  BY <1>1, <1>2, BooksStep DEF CoreFailClosed

LEMMA DrainTicketsBooks == ASSUME BInv, DrainTickets PROVE BInv'
<1>1. PICK w \in Pruned(Now) :
        Becomes(IF Tickets(w) = {} THEN w
                ELSE Emergency(Inhibited(Ticketed(w, Tickets(w), "revoked")), FALSE))
  BY DEF DrainTickets
<1>2. worker' = worker
  BY DEF DrainTickets
<1>3. Quiet(Now, w)
  BY NowWorld, PrunedQuiet
<1> DEFINE u == Ticketed(w, Tickets(w), "revoked")
<1>4. Quiet(w, u)
  BY <1>3, QuietWorld, TicketedQuiet
<1> HIDE DEF u
<1>5. Quiet(u, Inhibited(u))
  BY <1>4, QuietWorld, InhibitedQuiet
<1>6. Quiet(Inhibited(u), Emergency(Inhibited(u), FALSE))
  BY <1>5, QuietWorld, EmergencyQuiet
<1>7. Quiet(Now, Emergency(Inhibited(u), FALSE))
  BY <1>3, <1>4, <1>5, <1>6, QuietTrans
<1>8. Becomes(w) \/ Becomes(Emergency(Inhibited(u), FALSE))
  BY <1>1 DEF u
<1> QED
  BY <1>2, <1>3, <1>7, <1>8, QuietStep

LEMMA CloseQueueBooks == ASSUME BInv, CloseQueue PROVE BInv'
<1> DEFINE q == [Now.queue EXCEPT !.closed = TRUE]
<1>1. [Now EXCEPT !.queue.closed = TRUE] = [Now EXCEPT !.queue = q]
  OBVIOUS
<1>2. Now.queue \in QueueType /\ Len(Now.queue.control) <= ControlSlots
  BY NowWorld, QueueIs DEF Room
<1>3. q \in QueueType /\ q.normal = Now.queue.normal /\ q.control = Now.queue.control
  BY <1>2 DEF QueueType
<1> HIDE DEF q
<1>4. Quiet(Now, [Now EXCEPT !.queue = q])
  BY <1>2, <1>3, NowWorld, QueueQuiet
<1> QED
  BY <1>1, <1>4, QuietStep DEF CloseQueue

LEMMA JoinWorkerBooks == ASSUME BInv, JoinWorker PROVE BInv'
<1> DEFINE u == Ticketed(Now, Tickets(Now), "none")
           r == [g \in Goal |-> "none"]
<1>1. Quiet(Now, u)
  BY NowWorld, TicketedQuiet
<1>2. Becomes([u EXCEPT !.registry = r]) /\ worker' = worker
  BY DEF JoinWorker
<1>3. r \in [Goal -> {"none", "open", "record"}]
  OBVIOUS
<1> HIDE DEF u, r
<1>4. Quiet(u, [u EXCEPT !.registry = r])
  BY <1>1, <1>3, QuietWorld, RegistryQuiet
<1>5. Quiet(Now, [u EXCEPT !.registry = r])
  BY <1>1, <1>4, QuietTrans
<1> QED
  BY <1>2, <1>5, QuietStep

LEMMA ShutdownBooks == ASSUME BInv, ShutdownAsked \/ Shutdown PROVE BInv'
<1>1. CASE CloseGeneration \/ BeginRunningShutdown \/ JointEmergency \/ CoreFailClosed
           \/ DrainTickets \/ CloseQueue \/ JoinWorker
  BY <1>1, CloseGenerationBooks, BeginRunningShutdownBooks, JointEmergencyBooks,
     CoreFailClosedBooks, DrainTicketsBooks, CloseQueueBooks, JoinWorkerBooks
<1>2. CASE ShutdownAsked \/ InternalCompletion \/ TransactionDrain \/ JointConditions
           \/ JointDeadline \/ DeactivateCallbacks
  <2>1. Keeps
    BY <1>2 DEF ShutdownAsked, InternalCompletion, TransactionDrain, JointConditions,
       JointDeadline, DeactivateCallbacks
  <2> QED
    BY <2>1, KeepsBooks
<1> QED
  BY <1>1, <1>2 DEF Shutdown

LEMMA NowTyped ==
  ASSUME goal \in [Goal -> Entry], queue \in QueueType,
         fence \in [epoch : Nat, blocked : BOOLEAN, pending : BOOLEAN],
         gate \in [quiescing : BOOLEAN, emergency : {"none", "due", "in submit"}],
         pending \in SUBSET Address, goals \in SUBSET Goal, core \in Owner,
         router \in [pending : BOOLEAN, active : Owner, early : {"none"} \cup Ended],
         registry \in [Goal -> {"none", "open", "record"}], lane \in Seq(Goal),
         port \in PortType
  PROVE  Now \in World
<1> DEFINE F == [epoch : Nat, blocked : BOOLEAN, pending : BOOLEAN]
           A == [quiescing : BOOLEAN, emergency : {"none", "due", "in submit"}]
           G == [Goal -> Entry]
           P == SUBSET Address
           S == SUBSET Goal
           R == [pending : BOOLEAN, active : Owner, early : {"none"} \cup Ended]
           Y == [Goal -> {"none", "open", "record"}]
           L == Seq(Goal)
<1>1. World = [fence : F, queue : QueueType, gate : A, goal : G, pending : P, goals : S,
               core : Owner, router : R, registry : Y, lane : L, port : PortType]
  BY DEF World, PortType, Tx
<1>2. /\ fence \in F /\ gate \in A /\ goal \in G /\ pending \in P /\ goals \in S
      /\ router \in R /\ registry \in Y /\ lane \in L
  OBVIOUS
<1> HIDE DEF F, A, G, P, S, R, Y, L
<1>3. Now \in [fence : F, queue : QueueType, gate : A, goal : G, pending : P, goals : S,
               core : Owner, router : R, registry : Y, lane : L, port : PortType]
  BY <1>2 DEF Now
<1> QED
  BY <1>1, <1>3

LEMMA InitBooks == Init => BInv
<1> SUFFICES ASSUME Init PROVE BInv
  OBVIOUS
<1>1. PICK a \in Address : goal = [g \in Goal |-> [state |-> "idle", epoch |-> 1, at |-> a,
                                     ticket |-> "none", asked |-> FALSE, results |-> 0]]
  BY DEF Init
<1>2. /\ fence = [epoch |-> 1, blocked |-> FALSE, pending |-> FALSE]
      /\ queue = [control |-> <<>>, normal |-> <<Look>>, fault |-> FALSE,
                  recorded |-> FALSE, closed |-> FALSE]
      /\ gate = [quiescing |-> FALSE, emergency |-> "none"]
      /\ pending = {} /\ goals = {} /\ core = Nobody
      /\ router = [pending |-> FALSE, active |-> Nobody, early |-> "none"]
      /\ registry = [g \in Goal |-> "none"] /\ lane = <<>>
      /\ port = [child |-> Nobody, tx |-> "none", cancel |-> FALSE, shutting |-> FALSE]
      /\ worker = Idle
  BY DEF Init
<1>3. goal \in [Goal -> Entry]
  BY <1>1 DEF Entry, GoalState
<1>4. queue \in QueueType
  <2>1. <<Look>> \in Seq(NormalEvent)
    BY Normals
  <2>2. <<>> \in Seq(ControlEvent)
    OBVIOUS
  <2> QED
    BY <1>2, <2>1, <2>2 DEF QueueType
<1>5. /\ fence \in [epoch : Nat, blocked : BOOLEAN, pending : BOOLEAN]
      /\ gate \in [quiescing : BOOLEAN, emergency : {"none", "due", "in submit"}]
      /\ pending \in SUBSET Address /\ goals \in SUBSET Goal /\ core \in Owner
      /\ router \in [pending : BOOLEAN, active : Owner, early : {"none"} \cup Ended]
      /\ registry \in [Goal -> {"none", "open", "record"}] /\ lane \in Seq(Goal)
      /\ port \in PortType
  BY <1>2 DEF Owner, PortType, Tx
<1>6. Now \in World
  BY <1>3, <1>4, <1>5, NowTyped
<1>7. worker \in Workers /\ worker.pc = "idle" /\ worker.goal = Nobody
  BY <1>2, IdleIs
<1>8. Room(Now)
  BY <1>2, SlotsNat, NodeAssumption, NowFields DEF Room
<1>9. \A g \in Goal : Now.goal[g].state = "idle" /\ Now.goal[g].epoch = 1
                      /\ Now.goal[g].results = 0
  BY <1>1, NowFields
<1>10. Counted(Now) /\ Over(Now) = {} /\ Somewhere(Now, worker)
  BY <1>9 DEF Counted, Over, Somewhere, Ended
<1>11. Dated(Now)
  <2>1. Now.fence.epoch = 1 /\ Now.fence.blocked = FALSE
    BY <1>2, NowFields
  <2>2. Cardinality(Over(Now)) = 0
    BY <1>10, FS_EmptySet
  <2> QED
    BY <1>9, <2>1, <2>2 DEF Dated
<1>12. Slot(Now, worker)
  BY <1>2, <1>7, NowFields DEF Slot, Entering, Dispatching
<1>13. Claims(Now, worker)
  BY <1>2, NowFields, Normals DEF Claims
<1> QED
  BY <1>6, <1>7, <1>8, <1>10, <1>11, <1>12, <1>13 DEF BInv, Books

LEMMA NextBooks == ASSUME BInv, [Next]_vars PROVE BInv'
<1>1. CASE Callback
  BY <1>1, OnGoalBooks, OnCancelBooks, OnAcceptedBooks, TurnAwayBooks, TimerBooks,
     GateSnapshotBooks, StopBooks DEF Callback
<1>2. CASE EmergencyCallback \/ Worker \/ Transaction \/ PortThread
  BY <1>2, EmergencyCallbackBooks, WorkerBooks, TransactionBooks, PortThreadBooks
<1>3. CASE LaneTakes \/ ShutdownAsked \/ Shutdown
  BY <1>3, LaneTakesBooks, ShutdownBooks
<1>4. CASE UNCHANGED vars
  <2>1. Keeps
    BY <1>4, NowFields DEF vars, Keeps, Becomes
  <2> QED
    BY <2>1, KeepsBooks
<1> QED
  BY <1>1, <1>2, <1>3, <1>4 DEF Next

LEMMA BooksAlways == Spec => []BInv
  BY InitBooks, NextBooks, PTL DEF Spec

LEMMA EventsAre == Seq(ControlEvent) \subseteq Seq(Event) /\ Seq(NormalEvent) \subseteq Seq(Event)
<1>1. ControlEvent \subseteq Event /\ NormalEvent \subseteq Event
  BY DEF ControlEvent, NormalEvent, Event
<1> QED
  BY <1>1

LEMMA BooksTyped == ASSUME BInv PROVE TypeOK
<1>1. Now \in World /\ Room(Now) /\ Dated(Now)
  BY DEF BInv, Books
<1>2. /\ fence.epoch \in Nat /\ fence.blocked \in BOOLEAN /\ fence.pending \in BOOLEAN
      /\ fence = [epoch |-> fence.epoch, blocked |-> fence.blocked, pending |-> fence.pending]
  BY <1>1, NowFields DEF World
<1>3. Cardinality(Over(Now)) <= Cardinality(Goal) /\ Cardinality(Goal) \in Nat
      /\ Cardinality(Over(Now)) \in Nat
  <2>1. Over(Now) \subseteq Goal /\ IsFiniteSet(Goal)
    BY NodeAssumption DEF Over
  <2> QED
    BY <2>1, FS_Subset, FS_CardinalityType
<1>4. MaxStops \in Nat
  BY NodeAssumption
<1>5. fence.epoch \in Epoch /\ \A g \in Goal : goal[g].epoch \in Epoch
  <2>1. /\ fence.epoch >= 1 /\ fence.epoch <= 2 + Cardinality(Goal)
        /\ \A g \in Goal : goal[g].epoch \in 1..fence.epoch
    BY <1>1, <1>2, <1>3, NowFields DEF Dated
  <2> QED
    BY <1>2, <1>3, <1>4, <2>1 DEF Epoch
<1>6. fence \in [epoch : Epoch, blocked : BOOLEAN, pending : BOOLEAN]
  BY <1>2, <1>5
<1>7. queue.control \in Seq(Event) /\ queue.normal \in Seq(Event)
  <2>1. queue.control \in Seq(ControlEvent) /\ queue.normal \in Seq(NormalEvent)
    BY <1>1, QueueIs, NowFields DEF QueueType
  <2> QED
    BY <2>1, EventsAre
<1>8. Len(queue.control) <= ControlSlots /\ Len(queue.normal) <= NormalSlots
      /\ Len(lane) <= LaneSlots
  BY <1>1, NowFields DEF Room
<1>9. /\ gate.emergency \in {"none", "due", "in submit"}
      /\ pending \subseteq Address /\ goals \subseteq Goal
      /\ core \in Goal \cup {Nobody} /\ port.child \in Goal \cup {Nobody}
      /\ \A g \in Goal : goal[g].state \in GoalState
  BY <1>1, NowFields DEF World, Owner, Entry, PortType, Tx
<1> QED
  BY <1>5, <1>6, <1>7, <1>8, <1>9 DEF TypeOK

\* The state has its types, and neither the queue's lanes nor the terminal lane ever
\* exceed their capacity, whatever comes in (RuntimeEventQueue::try_push,
\* RuntimeTerminalHandoffLane).
THEOREM TypeHolds == Spec => []TypeOK
  BY BooksAlways, BooksTyped, PTL

\* An accepted goal is in the queue, with the worker or in goals_ until the fence goes
\* up: acceptance and the push of its AdmitEvent are one critical section of the
\* admission gate (on_accepted, RuntimeAdmissionGate::submit).
THEOREM AcceptedIsKept == Spec => []AcceptedIsSomewhere
<1>1. BInv => AcceptedIsSomewhere
  BY NowFields DEF BInv, Books, Somewhere, AcceptedIsSomewhere
<1> QED
  BY <1>1, BooksAlways, PTL

\* Between two dispatches node, router and core name the same goal: a result that ends
\* a Mission inside its own admission is kept for the commit
\* (ActionResultRouter::finish and commit, process_event).
THEOREM NobodyIsForgotten == Spec => []NobodyForgotten
<1>1. BInv => NobodyForgotten
  BY NowFields DEF BInv, Books, Slot, NobodyForgotten, CoreFree, Dispatching, Entering
<1> QED
  BY <1>1, BooksAlways, PTL

\* A goal gets at most one terminal result, from whichever of the queue, the lane, the
\* fence, a cancel, the refusal and the shutdown ends it (finish_goal, abort_goal).
THEOREM OneResult == Spec => []OneTerminal
<1>1. BInv => OneTerminal
  BY NowFields DEF BInv, Books, Counted, OneTerminal
<1> QED
  BY <1>1, BooksAlways, PTL

-----------------------------------------------------------------------------
(***************************************************************************)
(* The trail: what a step that only adds to it leaves.  S are the goals    *)
(* whose record is relayed meanwhile.                                      *)
(***************************************************************************)
Grows(v, w, S) ==
  /\ w.core = v.core /\ w.goals = v.goals /\ Over(v) \subseteq Over(w)
  /\ w.port.child = v.port.child /\ w.port.cancel = v.port.cancel
  /\ w.gate.quiescing = v.gate.quiescing
  /\ w.gate.emergency # "none" => w.fence.blocked \/ v.gate.emergency # "none"
  /\ v.fence.blocked => w.fence.blocked
  /\ v.fence.pending => w.fence.pending
  /\ w.fence.blocked /\ ~w.fence.pending => v.fence.blocked /\ ~v.fence.pending
  /\ \A x : Has(v.queue.control, x) => Has(w.queue.control, x)
  /\ \A h \in Goal : Has(w.queue.control, Result(h)) => Has(v.queue.control, Result(h)) \/ h \in S
  /\ \A x : Has(v.lane, x) => Has(w.lane, x)
  /\ \A h \in Goal : w.registry[h] = v.registry[h] \/ h \in S

LEMMA GrowsTrans ==
  ASSUME NEW u, NEW v, NEW w, NEW S, Grows(u, v, S), Grows(v, w, S)
  PROVE  Grows(u, w, S)
  BY DEF Grows

LEMMA GrowsSame ==
  ASSUME NEW v, NEW w, NEW S, w.core = v.core, w.goals = v.goals, Over(v) \subseteq Over(w),
         w.port.child = v.port.child, w.port.cancel = v.port.cancel, w.gate = v.gate,
         w.fence = v.fence, w.queue.control = v.queue.control, w.lane = v.lane,
         w.registry = v.registry
  PROVE  Grows(v, w, S)
  BY DEF Grows

LEMMA EmergencyGrows ==
  ASSUME NEW v \in World, NEW submits, NEW S
  PROVE  /\ Grows(v, Emergency(v, submits), S)
         /\ Emergency(v, submits).fence.blocked
<1> DEFINE w == Emergency(v, submits)
<1>1. CASE v.fence.blocked
  BY <1>1, GrowsSame DEF Emergency
<1>2. CASE ~v.fence.blocked
  <2>1. /\ w.core = v.core /\ w.goals = v.goals /\ w.goal = v.goal /\ w.port = v.port
        /\ w.gate.quiescing = v.gate.quiescing /\ w.fence.blocked /\ w.fence.pending
        /\ w.queue = v.queue /\ w.lane = v.lane /\ w.registry = v.registry
    BY <1>2 DEF Emergency, World
  <2>2. Over(w) = Over(v)
    BY <2>1 DEF Over
  <2> HIDE DEF w
  <2>3. Grows(v, w, S)
    BY <2>1, <2>2 DEF Grows
  <2> QED
    BY <2>1, <2>3 DEF w
<1> QED
  BY <1>1, <1>2

LEMMA ControlGrows ==
  ASSUME NEW v \in World, NEW e \in ControlEvent, NEW q \in QueueType, NEW S,
         q.control = v.queue.control \/ q.control = Append(v.queue.control, e),
         \A h \in Goal : e = Result(h) => h \in S
  PROVE  Grows(v, [v EXCEPT !.queue = q], S)
<1> DEFINE w == [v EXCEPT !.queue = q]
<1>1. /\ w.queue = q /\ w.core = v.core /\ w.goals = v.goals /\ w.goal = v.goal
      /\ w.port = v.port /\ w.gate = v.gate /\ w.fence = v.fence /\ w.lane = v.lane
      /\ w.registry = v.registry
  BY WorldQueue
<1>2. Over(w) = Over(v)
  BY <1>1 DEF Over
<1>3. v.queue.control \in Seq(ControlEvent)
  BY QueueIs DEF QueueType
<1> HIDE DEF w
<1>4. /\ \A x : Has(v.queue.control, x) => Has(w.queue.control, x)
      /\ \A h \in Goal : Has(w.queue.control, Result(h)) =>
           Has(v.queue.control, Result(h)) \/ h \in S
  <2>1. CASE q.control = v.queue.control
    BY <1>1, <2>1
  <2>2. CASE q.control = Append(v.queue.control, e)
    <3>1. \A x : Has(q.control, x) <=> Has(v.queue.control, x) \/ x = e
      BY <1>3, <2>2, AppendHas
    <3> QED
      BY <1>1, <3>1
  <2> QED
    BY <2>1, <2>2
<1> QED
  BY <1>1, <1>2, <1>4 DEF Grows, w

LEMMA FaultGrows ==
  ASSUME NEW v \in World, NEW S
  PROVE  Grows(v, [v EXCEPT !.queue = FaultRecorded(@)], S)
<1> DEFINE q == FaultRecorded(v.queue)
<1>1. v.queue \in QueueType
  BY QueueIs
<1>2. q \in QueueType
      /\ (q.control = v.queue.control \/ q.control = Append(v.queue.control, Fault))
  <2>1. CASE v.queue.closed \/ v.queue.recorded
    BY <1>1, <2>1 DEF FaultRecorded
  <2>2. CASE ~(v.queue.closed \/ v.queue.recorded) /\ HasRoom(v.queue, "control")
    <3>1. q = [[v.queue EXCEPT !.control = Append(@, Fault)] EXCEPT !.recorded = TRUE]
      BY <2>2 DEF FaultRecorded
    <3>2. [v.queue EXCEPT !.control = Append(@, Fault)] \in QueueType
      BY <1>1, <2>2, ControlAppended, Controls
    <3> QED
      BY <1>1, <3>1, <3>2 DEF QueueType
  <2>3. CASE ~(v.queue.closed \/ v.queue.recorded) /\ ~HasRoom(v.queue, "control")
    BY <1>1, <2>3 DEF FaultRecorded, QueueType
  <2> QED
    BY <2>1, <2>2, <2>3
<1>3. \A h \in Goal : Fault # Result(h)
  BY DEF Fault, Result
<1> HIDE DEF q
<1>4. Grows(v, [v EXCEPT !.queue = q], S)
  BY <1>2, <1>3, Controls, ControlGrows
<1> QED
  BY <1>4 DEF q

LEMMA EnqueuedGrows ==
  ASSUME NEW v \in World, Room(v), NEW e \in ControlEvent \cup NormalEvent,
         NEW submits \in BOOLEAN, NEW S, \A h \in Goal : e = Result(h) => h \in S
  PROVE  /\ Grows(v, Enqueued(v, e, submits), S)
         /\ ~Takes(v, e) => Enqueued(v, e, submits).fence.blocked
         /\ Takes(v, e) /\ e \in ControlEvent => Has(Enqueued(v, e, submits).queue.control, e)
<1>1. CASE Takes(v, e) /\ e \in ControlEvent
  <2> DEFINE q == [v.queue EXCEPT !.control = Append(@, e)]
  <2>1. Enqueued(v, e, submits) = [v EXCEPT !.queue = q]
    BY <1>1, TakenControl
  <2>2. HasRoom(v.queue, "control")
    BY <1>1, ControlLane DEF Takes
  <2>3. q \in QueueType /\ q.control = Append(v.queue.control, e)
        /\ v.queue.control \in Seq(ControlEvent)
    BY <1>1, <2>2, QueueIs, ControlAppended DEF QueueType
  <2> HIDE DEF q
  <2>4. [v EXCEPT !.queue = q].queue = q
    BY <2>3, WorldQueue
  <2>5. Has(q.control, e)
    BY <1>1, <2>3, AppendHas
  <2> QED
    BY <1>1, <2>1, <2>3, <2>4, <2>5, ControlGrows
<1>2. CASE Takes(v, e) /\ e \notin ControlEvent
  <2> DEFINE q == [v.queue EXCEPT !.normal = Append(@, e)]
  <2>1. Enqueued(v, e, submits) = [v EXCEPT !.queue = q] /\ HasRoom(v.queue, "normal")
    BY <1>2, TakenNormal
  <2>2. q \in QueueType /\ q.control = v.queue.control
    BY <1>2, <2>1, QueueIs, NormalAppended
  <2>3. \A h \in Goal : Fault # Result(h)
    BY DEF Fault, Result
  <2> HIDE DEF q
  <2> QED
    BY <1>2, <2>1, <2>2, <2>3, Controls, ControlGrows
<1>3. CASE ~Takes(v, e) /\ v.fence.blocked
  BY <1>3, GrowsSame DEF Enqueued
<1>4. CASE ~Takes(v, e) /\ ~v.fence.blocked
  <2> DEFINE u == [v EXCEPT !.queue = IF LaneOf(e) = "normal" THEN FaultRecorded(@) ELSE @]
  <2>1. Enqueued(v, e, submits) = Emergency(u, submits)
    BY <1>4 DEF Enqueued
  <2>2. CASE LaneOf(e) = "normal"
    <3>1. u = [v EXCEPT !.queue = FaultRecorded(@)]
      BY <2>2
    <3>2. Grows(v, u, S) /\ u \in World
      BY <3>1, FaultGrows, FaultRecordedQuiet, QuietWorld
    <3> HIDE DEF u
    <3> QED
      BY <1>4, <2>1, <3>2, EmergencyGrows, GrowsTrans
  <2>3. CASE LaneOf(e) # "normal"
    <3>1. u = v
      BY <2>3 DEF World
    <3> QED
      BY <1>4, <2>1, <3>1, EmergencyGrows
  <2> QED
    BY <2>2, <2>3
<1> QED
  BY <1>1, <1>2, <1>3, <1>4

LEMMA SubmittedGrows ==
  ASSUME NEW v \in World, Room(v), NEW e \in ControlEvent \cup NormalEvent,
         \A h \in Goal : e # Result(h)
  PROVE  /\ Grows(v, Submitted(v, e), {})
         /\ Submits(v, e) /\ e \in ControlEvent => Has(Submitted(v, e).queue.control, e)
<1>1. CASE v.gate.quiescing
  BY <1>1, GrowsSame DEF Submitted, Submits
<1>2. CASE ~v.gate.quiescing
  BY <1>2, EnqueuedGrows DEF Submitted, Submits
<1> QED
  BY <1>1, <1>2

LEMMA DivertedGrows ==
  ASSUME NEW v \in World, Room(v), NEW g \in Goal
  PROVE  Grows(v, Diverted(v, g), {g}) /\ Diverted(v, g).fence.blocked
<1> DEFINE l == IF Len(v.lane) < LaneSlots THEN Append(v.lane, g) ELSE v.lane
           r == [v.registry EXCEPT ![g] = "none"]
           u == [v EXCEPT !.registry = r, !.lane = l]
<1>1. Diverted(v, g) = Emergency(u, FALSE)
  BY DEF Diverted
<1>2. v.lane \in Seq(Goal) /\ v.registry \in [Goal -> {"none", "open", "record"}]
  BY DEF World
<1>3. l \in Seq(Goal) /\ (\A x : Has(v.lane, x) => Has(l, x))
  BY <1>2, AppendHas
<1>4. r \in [Goal -> {"none", "open", "record"}] /\ \A h \in Goal : h # g => r[h] = v.registry[h]
  BY <1>2
<1> HIDE DEF l, r
<1>5. u \in World
  BY <1>3, <1>4 DEF World
<1>6. /\ u.core = v.core /\ u.goals = v.goals /\ u.goal = v.goal /\ u.port = v.port
      /\ u.gate = v.gate /\ u.fence = v.fence /\ u.queue = v.queue /\ u.lane = l
      /\ u.registry = r
  BY DEF World
<1> HIDE DEF u
<1>7. Grows(v, u, {g})
  BY <1>3, <1>4, <1>6 DEF Grows, Over
<1> QED
  BY <1>1, <1>5, <1>7, EmergencyGrows, GrowsTrans

LEMMA RelayedGrows ==
  ASSUME NEW v \in World, Room(v), NEW g \in Goal
  PROVE  LET w == Relayed(v, g)
         IN  /\ Grows(v, w, {g})
             /\ w.fence.blocked \/ (w.registry[g] = "record" /\ Has(w.queue.control, Result(g)))
<1>1. \A h \in Goal : Result(g) = Result(h) => h \in {g}
  BY DEF Result
<1>2. CASE v.registry[g] # "open"
  BY <1>2, DivertedGrows DEF Relayed
<1>3. CASE v.registry[g] = "open" /\ Takes(v, Result(g))
  <2> DEFINE r == [v.registry EXCEPT ![g] = "record"]
             u == [v EXCEPT !.registry = r]
             w == Enqueued(u, Result(g), FALSE)
  <2>1. v.registry \in [Goal -> {"none", "open", "record"}]
    BY DEF World
  <2>2. r[g] = "record" /\ (\A h \in Goal : h # g => r[h] = v.registry[h])
        /\ r \in [Goal -> {"none", "open", "record"}]
    BY <2>1
  <2> HIDE DEF r
  <2>3. Quiet(v, u)
    BY <2>2, RegistryQuiet
  <2>4. /\ u.core = v.core /\ u.goals = v.goals /\ u.goal = v.goal /\ u.port = v.port
        /\ u.gate = v.gate /\ u.fence = v.fence /\ u.queue = v.queue /\ u.lane = v.lane
        /\ u.registry = r
    BY DEF World
  <2>5. Relayed(v, g) = w
    BY <1>3 DEF Relayed, r
  <2> HIDE DEF u
  <2>6. Grows(v, u, {g}) /\ Takes(u, Result(g))
    BY <1>3, <2>2, <2>4 DEF Grows, Over, Takes
  <2>7. w.registry = u.registry
    <3>1. w = [u EXCEPT !.queue = [u.queue EXCEPT !.control = Append(@, Result(g))]]
      BY <2>3, <2>6, QuietWorld, TakenControl, Controls
    <3> DEFINE q == [u.queue EXCEPT !.control = Append(@, Result(g))]
    <3>2. w = [u EXCEPT !.queue = q] /\ u \in World
      BY <3>1, <2>3, QuietWorld
    <3> HIDE DEF q, w
    <3> QED
      BY <3>2 DEF World
  <2>8. Grows(u, w, {g}) /\ Has(w.queue.control, Result(g))
    BY <1>1, <2>3, <2>6, QuietWorld, EnqueuedGrows, Controls
  <2>9. w.registry[g] = "record"
    BY <2>2, <2>4, <2>7
  <2> HIDE DEF w
  <2> QED
    BY <2>5, <2>6, <2>8, <2>9, GrowsTrans
<1>4. CASE v.registry[g] = "open" /\ ~Takes(v, Result(g))
  <2> DEFINE u == Enqueued(v, Result(g), FALSE)
  <2>1. Relayed(v, g) = Diverted(u, g)
    BY <1>4 DEF Relayed
  <2>2. Grows(v, u, {g}) /\ Quiet(v, u)
    BY <1>1, EnqueuedGrows, EnqueuedQuiet, Controls
  <2> HIDE DEF u
  <2> QED
    BY <2>1, <2>2, QuietWorld, DivertedGrows, GrowsTrans
<1> QED
  BY <1>2, <1>3, <1>4

-----------------------------------------------------------------------------
(***************************************************************************)
(* The trail of a Mission that ends, and of a child that is gone.          *)
(***************************************************************************)
LEMMA GrowsTrail ==
  ASSUME NEW v, v.core \in Owner, NEW w, Grows(v, w, {}), NEW k, NEW c, NEW s, NEW t,
         Trail(v, k, s),
         c.pc \in Dispatching => k.pc \in Dispatching \/ ~w.fence.blocked,
         c.pc \notin Entering => k.pc \notin Entering,
         t = "waiting" => s = "waiting" \/ Has(w.queue.control, Stop) \/ w.gate.quiescing
  PROVE  Trail(w, c, t)
<1>1. Ending(v) => Ending(w)
  BY DEF Ending, Grows
<1>2. Way(v, k) => Way(w, c)
  BY <1>1 DEF Way, Grows
<1>3. Recorded(v) => Recorded(w)
  BY DEF Recorded, Grows, Owner
<1>4. Awaited(v, s) => w.gate.quiescing \/ Awaited(w, t)
  BY DEF Awaited, Grows
<1>5. Issued(w) /\ FailsClosed(w, c) /\ Called(w)
  BY DEF Trail, Issued, FailsClosed, Called, Grows
<1>6. w.gate.quiescing = v.gate.quiescing
  BY DEF Grows
<1> QED
  BY <1>2, <1>3, <1>4, <1>5, <1>6 DEF Trail

LEMMA GrowsKeeps ==
  ASSUME NEW v, v.core \in Owner, NEW w, Grows(v, w, {}), NEW k, NEW s, Trail(v, k, s)
  PROVE  Trail(w, k, s)
  BY GrowsTrail

LEMMA InhibitedTrail ==
  ASSUME NEW v \in World, NEW k, NEW s, NEW t, Trail(v, k, s),
         v.gate.quiescing \/ v.core = Nobody \/ Ending(v), t = "waiting" => s = "waiting"
  PROVE  Trail(Inhibited(v), k, t)
<1> DEFINE w == Inhibited(v)
<1>1. /\ w.fence = v.fence /\ w.queue = v.queue /\ w.gate = v.gate
      /\ w.goal = v.goal /\ w.goals = v.goals /\ w.core = v.core
      /\ w.registry = v.registry /\ w.lane = v.lane /\ w.port.child = v.port.child
  BY InhibitedIs
<1> HIDE DEF w
<1> QED
  BY <1>1 DEF Trail, Way, Ending, Recorded, Awaited, Issued, FailsClosed, Called, Over, w

Closed(v, w) ==
  /\ w.core = Nobody
  /\ v.goals \subseteq w.goals \cup Over(w) /\ Over(v) \subseteq Over(w)
  /\ w.queue = v.queue /\ w.gate = v.gate
  /\ w.fence.blocked = v.fence.blocked /\ w.port.child = v.port.child

LEMMA ClosedTrail ==
  ASSUME NEW v, NEW w, Closed(v, w), NEW k, k.pc \notin Dispatching, NEW s,
         Issued(v), Called(v), v.gate.quiescing \/ Awaited(v, s)
  PROVE  Trail(w, k, s)
  BY DEF Closed, Trail, Way, Recorded, Awaited, Issued, FailsClosed, Called

LEMMA CoreEndsClosed ==
  ASSUME NEW v, NEW k, Books(v, k), k.pc \notin Entering, NEW how \in Ended
  PROVE  Closed(v, CoreEnds(v, how))
<1>1. CASE v.core = Nobody
  BY <1>1 DEF CoreEnds, Closed
<1>2. CASE v.core # Nobody
  <2> DEFINE r == Released(v)
             w == Answered(r, v.core, how)
  <2>1. v \in World /\ v.core \in Goal /\ v.goals = {v.core}
    BY <1>2, SettledIs
  <2>2. /\ r \in World /\ r.queue = v.queue /\ r.gate = v.gate /\ r.goal = v.goal
        /\ r.goals = {} /\ r.core = Nobody /\ r.fence.blocked = v.fence.blocked
        /\ r.port.child = v.port.child
    BY <2>1, ReleasedIs, InhibitedIs
  <2> HIDE DEF r
  <2>3. /\ w.goal[v.core].state = how
        /\ \A h \in Goal : h # v.core => w.goal[h] = r.goal[h]
        /\ w.fence = r.fence /\ w.queue = r.queue /\ w.gate = r.gate
        /\ w.goals = r.goals /\ w.core = r.core /\ w.port = r.port
    BY <2>1, <2>2, AnsweredIs
  <2>4. CoreEnds(v, how) = w
    BY <1>2, CoreEndsIs DEF r
  <2> HIDE DEF w
  <2>5. v.core \in Over(w) /\ Over(v) \subseteq Over(w)
    BY <2>1, <2>2, <2>3 DEF Over
  <2> QED
    BY <2>1, <2>2, <2>3, <2>4, <2>5 DEF Closed
<1> QED
  BY <1>1, <1>2

LEMMA EarlyEndClosed ==
  ASSUME NEW v, NEW k, Books(v, k), k.pc \in Entering, NEW how \in Ended
  PROVE  Closed(v, Admitted(CoreEnds(v, how), k.goal))
<1> DEFINE g == k.goal
           r == Released(v)
           q == [pending |-> FALSE, active |-> Nobody, early |-> "none"]
           P == r.pending \ {goal[g].at}
           x == [r EXCEPT !.pending = P, !.router = q]
           w == Answered(x, g, how)
<1>1. v \in World /\ g \in Goal /\ v.goals = {}
  BY DEF Books, Slot, Dispatching, Entering
<1>2. Admitted(CoreEnds(v, how), g) = w
  BY EarlyEnd
<1>3. /\ r \in World /\ r.queue = v.queue /\ r.gate = v.gate /\ r.goal = v.goal
      /\ r.goals = {} /\ r.core = Nobody /\ r.fence.blocked = v.fence.blocked
      /\ r.port.child = v.port.child
  BY <1>1, ReleasedIs, InhibitedIs
<1> HIDE DEF r
<1>4. q \in [pending : BOOLEAN, active : Owner, early : {"none"} \cup Ended]
      /\ P \in SUBSET Address
  <2>1. r.pending \in SUBSET Address
    BY <1>3 DEF World
  <2> QED
    BY <2>1 DEF Owner
<1> HIDE DEF q, P
<1>5. /\ x \in World /\ x.queue = r.queue /\ x.gate = r.gate /\ x.goal = r.goal
      /\ x.goals = r.goals /\ x.core = r.core /\ x.fence = r.fence /\ x.port = r.port
  BY <1>3, <1>4 DEF World
<1> HIDE DEF x
<1>6. /\ \A h \in Goal : h # g => w.goal[h] = x.goal[h]
      /\ w.goal[g].state = how
      /\ w.fence = x.fence /\ w.queue = x.queue /\ w.gate = x.gate
      /\ w.goals = x.goals /\ w.core = x.core /\ w.port = x.port
  BY <1>1, <1>5, AnsweredIs
<1> HIDE DEF w
<1>7. Over(v) \subseteq Over(w)
  BY <1>3, <1>5, <1>6 DEF Over
<1> QED
  BY <1>1, <1>2, <1>3, <1>5, <1>6, <1>7 DEF Closed

LEMMA AdmittedIs ==
  ASSUME NEW v, NEW k, Books(v, k), k.pc \in Entering
  PROVE  LET w == Admitted(v, k.goal)
         IN  /\ Closed(v, w) \/ /\ w.core = v.core /\ w.goals = {k.goal} /\ w.goal = v.goal
                                /\ w.queue = v.queue /\ w.gate = v.gate /\ w.fence = v.fence
                                /\ w.port = v.port /\ w.registry = v.registry /\ w.lane = v.lane
             /\ k.goal \in w.goals \cup Over(w)
<1> DEFINE g == k.goal
           P == v.pending \ {goal[g].at}
           u == [v EXCEPT !.goals = @ \cup {g}, !.pending = P]
           q == [pending |-> FALSE, active |-> g, early |-> "none"]
           w == [v EXCEPT !.goals = @ \cup {g}, !.pending = P, !.router = q]
<1>0. v \in World /\ v.router.early = "none" /\ v.goals = {} /\ v.core = g
  BY DEF Books, Slot
<1>1. P \in SUBSET Address
  BY <1>0 DEF World
<1>2. Books(w, Idle)
  BY <1>1, EnteredBooks
<1>3. RouterCommit(u, g) = w
  BY <1>0 DEF RouterCommit, World
<1>4. Admitted(v, g) = IF goal[g].at \in v.pending THEN CoreCancel(w, g) ELSE w
  BY <1>3 DEF Admitted
<1> HIDE DEF q, P
<1>5. /\ w.core = v.core /\ w.goals = {g} /\ w.goal = v.goal
      /\ w.queue = v.queue /\ w.gate = v.gate /\ w.fence = v.fence
      /\ w.port = v.port /\ w.registry = v.registry /\ w.lane = v.lane
  BY <1>0 DEF World
<1> HIDE DEF w
<1>6. CoreCancel(w, g) = CoreEnds(w, "canceled")
  BY <1>0, <1>5 DEF CoreCancel
<1>7. Closed(w, CoreEnds(w, "canceled"))
  BY <1>2, IdleIs, CoreEndsClosed DEF Entering, Ended
<1>8. /\ Closed(v, CoreEnds(w, "canceled"))
      /\ g \in CoreEnds(w, "canceled").goals \cup Over(CoreEnds(w, "canceled"))
  <2>1. Over(w) = Over(v)
    BY <1>5 DEF Over
  <2> QED
    BY <1>0, <1>5, <1>7, <2>1 DEF Closed
<1> QED
  BY <1>4, <1>5, <1>6, <1>8

LEMMA PortEndsTrail ==
  ASSUME NEW v \in World, Room(v), v.port.child # Nobody, NEW k, NEW s, Trail(v, k, s)
  PROVE  Trail(PortEnds(v), k, s)
<1> DEFINE g == v.port.child
           u == [v EXCEPT !.port.child = Nobody, !.port.cancel = FALSE]
<1>1. g \in Goal /\ v.core \in Owner
  BY DEF Owner, World, PortType, Tx
<1>2. u \in World /\ u = [v EXCEPT !.port = u.port] /\ u.port.child = Nobody
  BY DEF World, Owner, PortType, Tx
<1>3. PortEnds(v) = IF v.port.cancel /\ ~v.port.shutting THEN u ELSE Relayed(u, g)
  BY DEF PortEnds
<1>5. /\ u.core = v.core /\ u.goals = v.goals /\ u.goal = v.goal /\ u.queue = v.queue
      /\ u.gate = v.gate /\ u.fence = v.fence /\ u.registry = v.registry /\ u.lane = v.lane
  BY DEF World
<1> HIDE DEF u
<1>4. Quiet(v, u)
  BY <1>2, PortQuiet
<1>6. Over(u) = Over(v)
  BY <1>5 DEF Over
<1>7. CASE v.port.cancel /\ ~v.port.shutting
  <2>1. Issued(u) /\ FailsClosed(u, k) /\ Called(u)
    BY <1>1, <1>2, <1>4, <1>5, <1>6, NodeAssumption
       DEF Trail, Issued, FailsClosed, Called
  <2>2. Way(v, k) => Way(u, k)
    BY <1>5, <1>7 DEF Way, Ending
  <2>3. Recorded(v) /\ Awaited(v, s) => Recorded(u) /\ Awaited(u, s)
    BY <1>5 DEF Recorded, Awaited
  <2>4. Trail(u, k, s)
    BY <1>5, <2>1, <2>2, <2>3 DEF Trail
  <2> QED
    BY <1>3, <1>7, <2>4
<1>8. CASE ~(v.port.cancel /\ ~v.port.shutting)
  <2> DEFINE w == Relayed(u, g)
  <2>1. /\ Grows(u, w, {g})
        /\ w.fence.blocked \/ (w.registry[g] = "record" /\ Has(w.queue.control, Result(g)))
    BY <1>1, <1>4, QuietWorld, RelayedGrows
  <2>2. PortEnds(v) = w
    BY <1>3, <1>8
  <2> HIDE DEF w
  <2>3. FailsClosed(w, k) /\ Called(w)
    BY <1>5, <2>1 DEF Trail, FailsClosed, Called, Grows
  <2>4. Issued(w)
    <3>1. \A h \in Goal : Has(w.queue.control, Result(h)) =>
            Has(v.queue.control, Result(h)) \/ h = g
      BY <1>5, <2>1 DEF Grows
    <3>2. w.port.child = Nobody /\ w.goals = v.goals /\ Over(v) \subseteq Over(w)
      BY <1>2, <1>4, <1>5, <1>6, <2>1 DEF Grows
    <3> QED
      BY <1>1, <3>1, <3>2, NodeAssumption DEF Trail, Issued
  <2>5. w.gate.quiescing = v.gate.quiescing /\ w.core = v.core
    BY <1>5, <2>1 DEF Grows
  <2>6. Awaited(v, s) => Awaited(w, s)
    BY <1>5, <2>1 DEF Awaited, Grows
  <2>7. Recorded(v) => Recorded(w)
    <3>1. SUFFICES ASSUME Recorded(v), w.core # Nobody, Has(w.queue.control, Result(w.core)),
                          ~w.fence.blocked
                   PROVE  w.registry[w.core] = "record"
      BY DEF Recorded
    <3>2. CASE w.core = g
      BY <2>1, <3>1, <3>2
    <3>3. CASE w.core # g
      BY <1>1, <1>5, <2>1, <2>5, <3>1, <3>3 DEF Recorded, Grows, Owner
    <3> QED
      BY <3>2, <3>3
  <2>8. Way(v, k) => Way(w, k)
    <3>1. SUFFICES ASSUME Way(v, k), w.core # Nobody, k.pc \notin Entering
                   PROVE  Ending(w)
      BY DEF Way
    <3>2. CASE w.core = g
      BY <2>1, <2>3, <3>1, <3>2 DEF Ending, FailsClosed
    <3>3. CASE w.core # g
      <4>1. Ending(v)
        BY <2>5, <3>1, <3>3 DEF Way
      <4> QED
        BY <1>5, <2>1, <2>5, <4>1 DEF Ending, Grows
    <3> QED
      BY <3>2, <3>3
  <2>9. Trail(w, k, s)
    BY <2>3, <2>4, <2>5, <2>6, <2>7, <2>8 DEF Trail
  <2> QED
    BY <2>2, <2>9
<1> QED
  BY <1>7, <1>8

-----------------------------------------------------------------------------
(***************************************************************************)
(* Callbacks keep the trail.                                               *)
(***************************************************************************)
LEMMA TrailOf ==
  ASSUME NEW v, NEW w, NEW k, NEW s, Trail(w, k, s),
         v.core = w.core, v.goals = w.goals, v.goal = w.goal, v.port = w.port, v.gate = w.gate,
         v.fence = w.fence, v.queue = w.queue, v.lane = w.lane, v.registry = w.registry
  PROVE  Trail(v, k, s)
  BY DEF Trail, Way, Ending, Recorded, Awaited, Issued, FailsClosed, Called, Over

LEMMA TrailStep ==
  ASSUME NEW w, Becomes(w), NEW k, worker' = k, NEW s, stop'.state = s, Trail(w, k, s)
  PROVE  TInv'
<1>1. /\ Now'.core = w.core /\ Now'.goals = w.goals /\ Now'.goal = w.goal
      /\ Now'.port = w.port /\ Now'.gate = w.gate /\ Now'.fence = w.fence
      /\ Now'.queue = w.queue /\ Now'.lane = w.lane /\ Now'.registry = w.registry
  BY DEF Becomes, Now
<1>2. Trail(Now', k, s)
  BY <1>1, TrailOf
<1>3. TInv' = Trail(Now', worker', stop'.state)
  BY DEF TInv
<1> QED
  BY <1>2, <1>3

LEMMA CoreOf == ASSUME NEW v \in World PROVE v.core \in Owner
  BY DEF World

LEMMA GrowsStep ==
  ASSUME BInv, TInv, NEW w, Grows(Now, w, {}), Becomes(w), worker' = worker,
         stop'.state = "waiting" =>
           stop.state = "waiting" \/ Has(w.queue.control, Stop) \/ w.gate.quiescing
  PROVE  TInv'
<1>1. Trail(w, worker, stop'.state)
  BY NowWorld, CoreOf, GrowsTrail DEF TInv
<1> QED
  BY <1>1, TrailStep

LEMMA TicketedGrows ==
  ASSUME NEW v \in World, Room(v), NEW S, NEW t \in {"none", "provisional", "revoked"}
  PROVE  /\ Grows(v, Ticketed(v, S, t), {})
         /\ Ticketed(v, S, t).gate = v.gate
<1>1. Quiet(v, Ticketed(v, S, t))
  BY TicketedQuiet
<1> DEFINE f == [g \in Goal |->
     IF g \in S THEN [v.goal[g] EXCEPT !.ticket = t] ELSE v.goal[g]]
           w == [v EXCEPT !.goal = f]
<1>2. Ticketed(v, S, t) = w
  BY DEF Ticketed
<1> HIDE DEF f
<1>3. /\ w.port = v.port /\ w.gate = v.gate /\ w.fence = v.fence /\ w.queue = v.queue
      /\ w.lane = v.lane /\ w.registry = v.registry
  BY DEF World
<1> HIDE DEF w
<1>4. w.core = v.core /\ w.goals = v.goals /\ Over(v) \subseteq Over(w)
  BY <1>1, <1>2 DEF Quiet, Over
<1> QED
  BY <1>2, <1>3, <1>4, GrowsSame

LEMMA PrunedGrows ==
  ASSUME NEW v \in World, Room(v), NEW w \in Pruned(v) \cup Revoked(v)
  PROVE  Grows(v, w, {}) /\ w.gate = v.gate /\ w \in World /\ Room(w)
  BY TicketedGrows, TicketedQuiet, QuietWorld DEF Pruned, Revoked

LEMMA EntryGrows ==
  ASSUME NEW v \in World, NEW g \in Goal, NEW e \in Entry,
         v.goal[g].state \in Ended => e.state \in Ended
  PROVE  Grows(v, [v EXCEPT !.goal[g] = e], {})
<1> DEFINE w == [v EXCEPT !.goal[g] = e]
<1>1. /\ w.goal[g] = e /\ \A h \in Goal : h # g => w.goal[h] = v.goal[h]
      /\ w.fence = v.fence /\ w.queue = v.queue /\ w.gate = v.gate
      /\ w.goals = v.goals /\ w.core = v.core /\ w.registry = v.registry
      /\ w.lane = v.lane /\ w.port = v.port
  BY EntrySet
<1> HIDE DEF w
<1>2. Over(v) \subseteq Over(w)
  BY <1>1 DEF Over
<1>3. Grows(v, w, {})
  BY <1>1, <1>2, GrowsSame
<1> QED
  BY <1>3 DEF w

LEMMA AnsweredGrows ==
  ASSUME NEW v \in World, NEW g \in Goal, NEW how \in Ended
  PROVE  Grows(v, Answered(v, g, how), {}) /\ Answered(v, g, how) \in World
<1> DEFINE w == Answered(v, g, how)
<1>1. /\ w \in World /\ w.goal[g].state = how
      /\ \A h \in Goal : h # g => w.goal[h] = v.goal[h]
      /\ w.fence = v.fence /\ w.queue = v.queue /\ w.gate = v.gate
      /\ w.goals = v.goals /\ w.core = v.core /\ w.registry = v.registry
      /\ w.lane = v.lane /\ w.port = v.port
  BY AnsweredIs
<1> HIDE DEF w
<1>2. Over(v) \subseteq Over(w)
  BY <1>1 DEF Over
<1>3. Grows(v, w, {})
  BY <1>1, <1>2, GrowsSame
<1> QED
  BY <1>1, <1>3 DEF w

-----------------------------------------------------------------------------
LEMMA OnGoalTrail ==
  ASSUME BInv, TInv, NEW g \in Goal, NEW a \in Address, OnGoal(g, a)
  PROVE  TInv'
<1>1. PICK w \in Pruned(Now) : Becomes([w EXCEPT !.goal[g] =
         IF Admissible(w, w.fence.epoch) /\ Cardinality(Tickets(w)) < TicketSlots
         THEN [@ EXCEPT !.state = "offered", !.at = a, !.ticket = "provisional",
                        !.epoch = w.fence.epoch]
         ELSE [@ EXCEPT !.state = "refused"]])
  BY DEF OnGoal
<1> DEFINE x == w.goal[g]
           open == Admissible(w, w.fence.epoch) /\ Cardinality(Tickets(w)) < TicketSlots
           e == IF open THEN [x EXCEPT !.state = "offered", !.at = a,
                               !.ticket = "provisional", !.epoch = w.fence.epoch]
                ELSE [x EXCEPT !.state = "refused"]
           z == [w EXCEPT !.goal[g] = e]
<1>2. Becomes(z) /\ worker' = worker /\ stop' = stop
  BY <1>1 DEF OnGoal
<1> HIDE DEF open
<1>3. Quiet(Now, w) /\ Grows(Now, w, {}) /\ w \in World
  BY NowWorld, PrunedQuiet, PrunedGrows
<1>5. x \in Entry /\ w.fence.epoch \in Nat
  BY <1>3, EntryOf, FencedBlocked
<1>6. x.state = "idle"
  BY <1>3, NowFields DEF OnGoal, Quiet
<1> HIDE DEF x
<1>7. e \in Entry
  <2>1. CASE open
    BY <1>5, <2>1 DEF Entry, GoalState
  <2>2. CASE ~open
    BY <1>5, <2>2 DEF Entry, GoalState
  <2> QED
    BY <2>1, <2>2
<1> HIDE DEF e
<1>8. Grows(w, z, {}) /\ z \in World
  BY <1>3, <1>6, <1>7, EntryGrows, EntrySet DEF Ended, x
<1> HIDE DEF z
<1> QED
  BY <1>2, <1>3, <1>8, GrowsTrans, GrowsStep

LEMMA PendingGrows ==
  ASSUME NEW v \in World, NEW P
  PROVE  Grows(v, [v EXCEPT !.pending = P], {})
<1> DEFINE w == [v EXCEPT !.pending = P]
<1>1. /\ w.core = v.core /\ w.goals = v.goals /\ w.goal = v.goal /\ w.port = v.port
      /\ w.gate = v.gate /\ w.fence = v.fence /\ w.queue = v.queue /\ w.lane = v.lane
      /\ w.registry = v.registry
  BY DEF World
<1> HIDE DEF w
<1>2. Grows(v, w, {})
  BY <1>1, GrowsSame DEF Over
<1> QED
  BY <1>2 DEF w

LEMMA NotResult ==
  /\ \A g, h \in Goal : Cancel(g) # Result(h) /\ Admit(g) # Result(h) /\ Stop # Cancel(g)
                        /\ Stop # Result(g)
  /\ \A h \in Goal : Stop # Result(h) /\ Look # Result(h)
  BY DEF Cancel, Result, Admit, Stop, Look

LEMMA OnCancelTrail ==
  ASSUME BInv, TInv, NEW g \in Goal, OnCancel(g)
  PROVE  TInv'
<1> DEFINE e == [goal[g] EXCEPT !.asked = TRUE]
           u == [Now EXCEPT !.goal[g] = e]
           x == [u EXCEPT !.pending = @ \cup {goal[g].at}]
<1>0. Now \in World /\ Room(Now) /\ goal[g] \in Entry /\ Now.goal[g] = goal[g]
  BY NowWorld, EntryOf, NowFields
<1>1. e \in Entry /\ e.state = goal[g].state /\ e.results = goal[g].results
      /\ e.epoch = goal[g].epoch
  BY <1>0 DEF Entry
<1>2. [Now EXCEPT !.goal[g].asked = TRUE] = u
  BY <1>0, NowFields DEF Now
<1>3. Becomes(IF g \in goals THEN Submitted(u, Cancel(g)) ELSE x)
  BY <1>2 DEF OnCancel
<1> HIDE DEF e
<1>4. Quiet(Now, u)
  BY <1>0, <1>1, EntryQuiet
<1>5. u \in World /\ Room(u) /\ Grows(Now, u, {})
  BY <1>0, <1>1, <1>4, QuietWorld, EntryGrows
<1> HIDE DEF u
<1>6. Grows(u, Submitted(u, Cancel(g)), {}) /\ Submitted(u, Cancel(g)) \in World
  BY <1>5, SubmittedGrows, SubmittedQuiet, QuietWorld, Controls, NotResult
<1>7. Grows(u, x, {}) /\ x \in World
  <2>1. u.pending \cup {goal[g].at} \in SUBSET Address
    BY <1>0, <1>5 DEF World, Entry
  <2> QED
    BY <1>5, <2>1, PendingQuiet, PendingGrows, QuietWorld
<1>8. worker' = worker /\ stop' = stop
  BY DEF OnCancel
<1> HIDE DEF x
<1> QED
  BY <1>3, <1>5, <1>6, <1>7, <1>8, GrowsTrans, GrowsStep

LEMMA OnAcceptedTrail ==
  ASSUME BInv, TInv, NEW g \in Goal, OnAccepted(g)
  PROVE  TInv'
<1> DEFINE fit == goal[g].ticket = "provisional" /\ Admissible(Now, goal[g].epoch)
           state == IF fit /\ Submits(Now, Admit(g)) THEN "accepted" ELSE "turned away"
           e == [goal[g] EXCEPT !.ticket = "none", !.state = state]
           u == [Now EXCEPT !.goal[g] = e]
<1>0. Now \in World /\ Room(Now) /\ goal[g] \in Entry /\ Now.goal[g] = goal[g]
      /\ goal[g].state = "offered" /\ worker' = worker /\ stop' = stop
  BY NowWorld, EntryOf, NowFields DEF OnAccepted
<1>1. [Now EXCEPT !.goal[g].ticket = "none", !.goal[g].state = state] = u
  <2> HIDE DEF state
  <2> QED
    BY <1>0, NowFields DEF Now
<1>2. Becomes(IF fit THEN Submitted(u, Admit(g)) ELSE u)
  BY <1>1 DEF OnAccepted
<1>3. e \in Entry
  <2>1. state \in GoalState
    BY DEF GoalState
  <2> HIDE DEF state
  <2> QED
    BY <1>0, <2>1 DEF Entry
<1> HIDE DEF fit, e
<1>4. u \in World /\ Room(u) /\ Grows(Now, u, {})
  <2>1. u \in World /\ u.queue = Now.queue /\ u.lane = Now.lane
    BY <1>0, <1>3, EntrySet
  <2> QED
    BY <1>0, <1>3, <2>1, EntryGrows DEF Ended, Room
<1> HIDE DEF u
<1>5. Grows(u, Submitted(u, Admit(g)), {})
  BY <1>4, SubmittedGrows, Normals, NotResult
<1> QED
  BY <1>0, <1>2, <1>4, <1>5, GrowsTrans, GrowsStep

LEMMA TurnAwayTrail ==
  ASSUME BInv, TInv, NEW g \in Goal, TurnAway(g)
  PROVE  TInv'
<1>1. Grows(Now, Aborted(Now, g), {})
  BY NowWorld, AnsweredGrows DEF Aborted, Ended
<1> QED
  BY <1>1, GrowsStep DEF TurnAway

LEMMA TimerTrail == ASSUME BInv, TInv, Timer PROVE TInv'
<1>1. PICK w \in Revoked(Now) : \E v \in Pruned(w) : Becomes(Submitted(v, Look))
  BY DEF Timer
<1>2. PICK v \in Pruned(w) : Becomes(Submitted(v, Look))
  BY <1>1
<1>3. Grows(Now, w, {}) /\ w \in World /\ Room(w)
  BY NowWorld, PrunedGrows
<1>4. Grows(w, v, {}) /\ v \in World /\ Room(v)
  BY <1>3, PrunedGrows
<1>5. Grows(v, Submitted(v, Look), {})
  BY <1>4, SubmittedGrows, Normals, NotResult
<1>6. Grows(Now, Submitted(v, Look), {})
  BY <1>3, <1>4, <1>5, GrowsTrans
<1> QED
  BY <1>2, <1>6, GrowsStep DEF Timer

LEMMA GateSnapshotTrail == ASSUME BInv, TInv, GateSnapshot PROVE TInv'
<1>1. Grows(Now, Enqueued(Now, Look, FALSE), {})
  BY NowWorld, EnqueuedGrows, Normals, NotResult
<1> QED
  BY <1>1, GrowsStep DEF GateSnapshot

LEMMA OnStopTrail == ASSUME BInv, TInv, IInv, OnStop PROVE TInv'
<1> DEFINE w == Submitted(Now, Stop)
<1>1. /\ Becomes(w) /\ worker' = worker
      /\ stop'.state = IF Submits(Now, Stop) THEN "waiting" ELSE "refused"
  BY DEF OnStop, IInv, Shapes
<1>2. Grows(Now, w, {}) /\ (Submits(Now, Stop) => Has(w.queue.control, Stop))
  BY NowWorld, SubmittedGrows, Controls, NotResult
<1> HIDE DEF w
<1> QED
  BY <1>1, <1>2, GrowsStep

\* Behind the fence the core is empty or its end is pending.
LEMMA FencedEnds ==
  ASSUME NEW v, NEW k, NEW s, Trail(v, k, s), v.fence.blocked
  PROVE  v.core = Nobody \/ Ending(v)
  BY DEF Trail, FailsClosed, Ending

LEMMA InhibitedStep ==
  ASSUME BInv, TInv, gate.quiescing \/ fence.blocked \/ stop.state = "waiting",
         Becomes(Inhibited(Now)), worker' = worker,
         stop'.state = "waiting" => stop.state = "waiting"
  PROVE  TInv'
<1>1. Now.gate.quiescing \/ Now.core = Nobody \/ Ending(Now)
  <2>1. CASE gate.quiescing
    BY <2>1, NowFields
  <2>2. CASE fence.blocked
    BY <2>2, NowFields, FencedEnds DEF TInv
  <2>3. CASE stop.state = "waiting" /\ ~gate.quiescing
    BY <2>3, NowFields DEF TInv, Trail, Awaited, Ending
  <2> QED
    BY <2>1, <2>2, <2>3
<1>2. Trail(Inhibited(Now), worker, stop'.state)
  BY <1>1, NowWorld, InhibitedTrail DEF TInv
<1> QED
  BY <1>2, TrailStep

LEMMA StopTrail == ASSUME BInv, TInv, IInv, StopEmergency \/ StopDeadline PROVE TInv'
<1>1. gate.quiescing \/ fence.blocked \/ stop.state = "waiting"
  BY DEF IInv, Refused, StopEmergency, StopDeadline
<1>2. Becomes(Inhibited(Now)) /\ worker' = worker /\ stop'.state = "failed"
  BY DEF StopEmergency, StopDeadline, IInv, Shapes
<1> QED
  BY <1>1, <1>2, InhibitedStep

LEMMA EmergencyCallbackTrail == ASSUME BInv, TInv, EmergencyCallback PROVE TInv'
<1> DEFINE u == Inhibited(Now)
           x == [u.gate EXCEPT !.emergency = "none"]
           w == [u EXCEPT !.gate = x]
<1>1. Becomes(w) /\ worker' = worker /\ stop' = stop
  BY DEF EmergencyCallback
<1>2. fence.blocked
  BY NowFields DEF EmergencyCallback, TInv, Trail, Called
<1>3. Trail(u, worker, stop.state)
  BY <1>2, NowWorld, NowFields, FencedEnds, InhibitedTrail DEF TInv
<1>4. u \in World
  BY NowWorld, InhibitedIs
<1> HIDE DEF u
<1>5. x.quiescing = u.gate.quiescing /\ x.emergency = "none"
  BY <1>4 DEF World
<1> HIDE DEF x
<1>6. /\ w.core = u.core /\ w.goals = u.goals /\ w.goal = u.goal /\ w.port = u.port
      /\ w.gate = x /\ w.fence = u.fence /\ w.queue = u.queue /\ w.lane = u.lane
      /\ w.registry = u.registry
  BY <1>4 DEF World
<1> HIDE DEF w
<1>7. Grows(u, w, {})
  BY <1>5, <1>6 DEF Grows, Over
<1>8. Trail(w, worker, stop.state)
  BY <1>3, <1>4, <1>7, CoreOf, GrowsKeeps
<1> QED
  BY <1>1, <1>8, TrailStep

-----------------------------------------------------------------------------
LEMMA TakenFields ==
  ASSUME BInv, Popped # <<>>
  PROVE  /\ Taken.core = Now.core /\ Taken.goals = Now.goals /\ Taken.goal = Now.goal
         /\ Taken.port = Now.port /\ Taken.gate = Now.gate /\ Taken.fence = Now.fence
         /\ Taken.lane = Now.lane /\ Taken.registry = Now.registry /\ Taken.queue = Popped[2]
         /\ Over(Taken) = Over(Now)
  BY NowFields DEF Taken, Over, Now

\* What an event leaves in the queue, it leaves of the trail too.
LEMMA TakenTrail ==
  ASSUME BInv, TInv, Popped # <<>>, FromControl(queue, Popped[1], Popped[2]),
         Popped[1] # Stop
  PROVE  /\ Issued(Taken) /\ Called(Taken)
         /\ gate.quiescing \/ Awaited(Taken, stop.state)
         /\ core = Nobody \/ Popped[1] # Result(core) => Trail(Taken, worker, stop.state)
<1>1. /\ \A x : Has(Taken.queue.control, x) => Has(Now.queue.control, x)
      /\ \A x : Has(Now.queue.control, x) /\ x # Popped[1] => Has(Taken.queue.control, x)
  BY TakenFields, NowFields DEF FromControl
<1>2. Issued(Taken) /\ Called(Taken) /\ FailsClosed(Taken, worker)
  BY <1>1, TakenFields DEF TInv, Trail, Issued, Called, FailsClosed
<1>3. Awaited(Now, stop.state) => Awaited(Taken, stop.state)
  BY <1>1 DEF Awaited
<1>4. Recorded(Now) => Recorded(Taken)
  BY <1>1, TakenFields DEF Recorded
<1>5. core = Nobody \/ Popped[1] # Result(core) => (Way(Now, worker) => Way(Taken, worker))
  BY <1>1, TakenFields, NowFields DEF Way, Ending
<1>6. Taken.gate.quiescing = gate.quiescing /\ Now.gate.quiescing = gate.quiescing
  BY TakenFields, NowFields
<1> QED
  BY <1>2, <1>3, <1>4, <1>5, <1>6 DEF TInv, Trail

LEMMA TakenNormalGrows ==
  ASSUME BInv, Popped # <<>>, FromNormal(queue, Popped[1], Popped[2])
  PROVE  Grows(Now, Taken, {})
<1>1. Popped[2].control = queue.control
  BY NowWorld, QueueIs, NowFields DEF FromNormal, QueueType
<1> QED
  BY <1>1, TakenFields, NowFields, GrowsSame

LEMMA EndedStep ==
  ASSUME NEW v, NEW how \in Ended, Books(v, worker), worker.pc \notin Dispatching,
         Issued(v), Called(v), NEW s, v.gate.quiescing \/ Awaited(v, s),
         Becomes(CoreEnds(v, how)), worker' = worker, stop'.state = s
  PROVE  TInv'
<1>1. worker.pc \notin Entering
  BY DEF Entering, Dispatching
<1>2. Trail(CoreEnds(v, how), worker, s)
  BY <1>1, CoreEndsClosed, ClosedTrail
<1> QED
  BY <1>2, TrailStep

LEMMA WorkCancelTrail == ASSUME BInv, TInv, WorkCancel PROVE TInv'
<1>1. /\ worker.pc = "idle" /\ Popped # <<>> /\ Popped[1].kind = "cancel"
      /\ worker' = worker /\ stop' = stop /\ Becomes(CoreCancel(Taken, Event1))
  BY DEF WorkCancel, Pops
<1>2. /\ FromControl(queue, Popped[1], Popped[2]) /\ Books(Taken, worker)
      /\ Popped[1] \in ControlEvent
  BY <1>1, TakenControlBooks
<1>3. Popped[1] # Stop /\ (core = Nobody \/ Popped[1] # Result(core))
  BY <1>1 DEF Stop, Result
<1>4. /\ Issued(Taken) /\ Called(Taken) /\ (Taken.gate.quiescing \/ Awaited(Taken, stop.state))
      /\ Trail(Taken, worker, stop.state)
  BY <1>1, <1>2, <1>3, TakenTrail, TakenFields, NowFields
<1>5. CASE Taken.core = Event1
  BY <1>1, <1>2, <1>4, <1>5, EndedStep DEF CoreCancel, Ended, Dispatching
<1>6. CASE Taken.core # Event1
  BY <1>1, <1>4, <1>6, TrailStep DEF CoreCancel
<1> QED
  BY <1>5, <1>6

LEMMA WorkStopTrail == ASSUME BInv, TInv, IInv, WorkStop PROVE TInv'
<1>1. /\ worker.pc = "idle" /\ Popped # <<>> /\ Popped[1].kind = "stop"
      /\ worker' = worker /\ stop'.state # "waiting" /\ Becomes(CoreEnds(Taken, "aborted"))
  BY DEF WorkStop, Pops, IInv, Shapes
<1>2. FromControl(queue, Popped[1], Popped[2]) /\ Books(Taken, worker)
  BY <1>1, TakenControlBooks
<1>3. Issued(Taken) /\ Called(Taken)
  BY <1>1, <1>2, TakenFields, NowFields
     DEF TInv, Trail, Issued, Called, FromControl
<1>4. Awaited(Taken, stop'.state)
  BY <1>1 DEF Awaited
<1> QED
  BY <1>1, <1>2, <1>3, <1>4, EndedStep DEF Ended, Dispatching

LEMMA RegistryFields ==
  ASSUME NEW v \in World, NEW r
  PROVE  LET w == [v EXCEPT !.registry = r]
         IN  /\ w.core = v.core /\ w.goals = v.goals /\ w.goal = v.goal /\ w.port = v.port
             /\ w.gate = v.gate /\ w.fence = v.fence /\ w.queue = v.queue /\ w.lane = v.lane
             /\ w.registry = r
  BY DEF World

LEMMA WorkResultTrail == ASSUME BInv, TInv, WorkResult PROVE TInv'
<1> DEFINE h == Event1
           r == [Taken.registry EXCEPT ![h] = "none"]
           w == [Taken EXCEPT !.registry = r]
<1>1. /\ worker.pc = "idle" /\ Popped # <<>> /\ Popped[1].kind = "result"
      /\ worker' = worker /\ stop' = stop /\ ~fence.blocked
      /\ Becomes(IF registry[h] = "record" THEN CoreResult(w, h) ELSE Taken)
  BY DEF WorkResult, Pops, EmergencyControl
<1>2. /\ FromControl(queue, Popped[1], Popped[2]) /\ Books(Taken, worker)
      /\ Popped[1] \in ControlEvent /\ Quiet(Now, Taken)
  BY <1>1, TakenControlBooks
<1>3. h \in Goal /\ Popped[1] = Result(h)
  BY <1>1, <1>2, Kinds DEF Event1
<1>4. Popped[1] # Stop /\ \A g \in Goal : g # h => Popped[1] # Result(g)
  BY <1>3, NotResult DEF Result
<1>5. /\ Issued(Taken) /\ Called(Taken) /\ (Taken.gate.quiescing \/ Awaited(Taken, stop.state))
      /\ core # h => Trail(Taken, worker, stop.state)
  <2>1. core \in Owner
    BY NowWorld, NowFields, CoreOf
  <2> QED
    BY <1>1, <1>2, <1>4, <2>1, TakenTrail, TakenFields, NowFields DEF Owner
<1>6. Taken \in World /\ Taken.core = core /\ Taken.registry = registry
  BY <1>1, <1>2, QuietWorld, TakenFields, NowFields
<1>7. CASE registry[h] = "record"
  <2>1. r \in [Goal -> {"none", "open", "record"}] /\ \A g \in Goal : g # h => r[g] = registry[g]
    BY <1>6 DEF World
  <2> HIDE DEF r
  <2>2. Quiet(Taken, w) /\ Books(w, worker)
    BY <1>2, <1>6, <2>1, BooksWorld, RegistryQuiet, QuietBooks
  <2>3. /\ w.core = Taken.core /\ w.goals = Taken.goals /\ w.goal = Taken.goal
        /\ w.port = Taken.port /\ w.gate = Taken.gate /\ w.fence = Taken.fence
        /\ w.queue = Taken.queue /\ w.lane = Taken.lane /\ w.registry = r
    BY <1>6, RegistryFields
  <2> HIDE DEF w
  <2>4. Issued(w) /\ Called(w) /\ (w.gate.quiescing \/ Awaited(w, stop.state))
    BY <1>5, <2>3 DEF Issued, Called, Awaited, Over
  <2>5. CASE w.core = h
    <3>1. Becomes(CoreEnds(w, "finished"))
      BY <1>1, <1>7, <2>5 DEF CoreResult
    <3> QED
      BY <1>1, <2>2, <2>4, <3>1, EndedStep DEF Ended, Dispatching
  <2>6. CASE w.core # h
    <3>1. Becomes(w)
      BY <1>1, <1>7, <2>6 DEF CoreResult
    <3>2. Trail(w, worker, stop.state)
      <4>1. w.core \in Owner /\ Trail(Taken, worker, stop.state)
        BY <1>5, <1>6, <2>3, <2>6, CoreOf
      <4>2. FailsClosed(w, worker) /\ (Way(Taken, worker) => Way(w, worker))
        BY <2>3, <4>1 DEF Trail, FailsClosed, Way, Ending
      <4>3. Recorded(Taken) => Recorded(w)
        BY <1>6, <2>1, <2>3, <2>6, <4>1 DEF Recorded, Owner
      <4> QED
        BY <2>3, <2>4, <4>1, <4>2, <4>3 DEF Trail
    <3> QED
      BY <1>1, <3>1, <3>2, TrailStep
  <2> QED
    BY <2>5, <2>6
<1>8. CASE registry[h] # "record"
  <2>1. Becomes(Taken)
    BY <1>1, <1>8
  <2>2. CASE core # h
    BY <1>1, <1>5, <2>1, <2>2, TrailStep
  <2>3. CASE core = h
    <3>1. Has(queue.control, Result(h)) /\ h # Nobody
      <4>1. Result(h) # Fault
        BY DEF Result, Fault
      <4> QED
        BY <1>2, <1>3, <4>1, NodeAssumption DEF FromControl
    <3>2. ~Recorded(Now)
      BY <1>1, <1>8, <2>3, <3>1, NowFields DEF Recorded
    <3>3. gate.quiescing
      BY <3>2, NowFields DEF TInv, Trail
    <3>4. Trail(Taken, worker, stop.state)
      BY <1>1, <1>5, <3>3, TakenFields, NowFields DEF TInv, Trail, FailsClosed
    <3> QED
      BY <1>1, <2>1, <3>4, TrailStep
  <2> QED
    BY <2>2, <2>3
<1> QED
  BY <1>7, <1>8

-----------------------------------------------------------------------------
(***************************************************************************)
(* The rest of the worker keeps the trail.                                 *)
(***************************************************************************)
LEMMA WorkLookTrail == ASSUME BInv, TInv, WorkLook PROVE TInv'
<1>1. /\ worker.pc = "idle" /\ Popped # <<>> /\ Popped[1].kind = "look"
      /\ worker' = worker /\ stop' = stop
  BY DEF WorkLook, Pops
<1>2. FromNormal(queue, Popped[1], Popped[2]) /\ Popped[1] = Look
  BY <1>1, TakenIs, Kinds
<1>3. Books(Taken, worker) /\ Grows(Now, Taken, {})
  BY <1>1, <1>2, TakenNormalBooks, TakenNormalGrows
<1>4. PICK w \in Revoked(Taken) : \E v \in Pruned(w) :
        Becomes(v) \/ Becomes(CoreEnds(v, "aborted"))
  BY DEF WorkLook
<1>5. PICK v \in Pruned(w) : Becomes(v) \/ Becomes(CoreEnds(v, "aborted"))
  BY <1>4
<1>6. Quiet(Taken, w) /\ Grows(Taken, w, {}) /\ w \in World /\ Room(w)
  BY <1>3, BooksWorld, PrunedQuiet, PrunedGrows
<1>7. Quiet(w, v) /\ Grows(w, v, {})
  BY <1>6, PrunedQuiet, PrunedGrows
<1>8. Books(v, worker) /\ Grows(Now, v, {})
  BY <1>3, <1>6, <1>7, QuietBooks, GrowsTrans
<1>9. Trail(v, worker, stop.state)
  BY <1>8, NowWorld, CoreOf, GrowsKeeps DEF TInv
<1>10. CASE Becomes(v)
  BY <1>1, <1>9, <1>10, TrailStep
<1>11. CASE Becomes(CoreEnds(v, "aborted"))
  BY <1>1, <1>8, <1>9, <1>11, EndedStep DEF Trail, Ended, Dispatching
<1> QED
  BY <1>5, <1>10, <1>11

LEMMA WorkDropTrail == ASSUME BInv, TInv, WorkDrop PROVE TInv'
<1>1. /\ worker.pc = "idle" /\ Popped # <<>> /\ fence.blocked /\ ~EmergencyControl(Popped[1])
      /\ Becomes(Taken) /\ worker' = worker /\ stop' = stop
  BY DEF WorkDrop
<1>2. ~fence.pending
  BY <1>1, NowWorld, QueueIs, NowFields, PoppedIs
<1>3. core = Nobody
  BY <1>1, <1>2, NowFields DEF TInv, Trail, FailsClosed
<1>4. CASE FromControl(queue, Popped[1], Popped[2])
  <2>1. Popped[1] # Stop
    BY <1>1 DEF EmergencyControl, Stop
  <2> QED
    BY <1>1, <1>3, <1>4, <2>1, TakenTrail, TrailStep
<1>5. CASE FromNormal(queue, Popped[1], Popped[2])
  BY <1>1, <1>5, TakenNormalGrows, GrowsStep
<1> QED
  BY <1>1, <1>4, <1>5, TakenIs

LEMMA WorkFenceTrail == ASSUME BInv, TInv, WorkFence PROVE TInv'
<1> DEFINE w == [Now EXCEPT !.fence.pending = FALSE]
<1>1. Becomes(CoreEnds(w, "aborted")) /\ worker' = worker /\ stop' = stop
      /\ worker.pc \notin Dispatching
  BY DEF WorkFence, Dispatching
<1>2. Books(w, worker)
  BY NowWorld, FenceQuiet, QuietBooks
<1>3. /\ w.core = Now.core /\ w.goals = Now.goals /\ w.goal = Now.goal
      /\ w.port = Now.port /\ w.gate = Now.gate /\ w.fence.blocked = Now.fence.blocked
      /\ w.queue = Now.queue
  BY NowWorld DEF World
<1> HIDE DEF w
<1>4. Issued(w) /\ Called(w) /\ (w.gate.quiescing \/ Awaited(w, stop.state))
  BY <1>3 DEF TInv, Trail, Issued, Called, Awaited, Over
<1> QED
  BY <1>1, <1>2, <1>4, EndedStep DEF Ended

LEMMA WorkAdmitTrail == ASSUME BInv, TInv, WorkAdmit PROVE TInv'
<1>1. worker.pc = "idle" /\ Popped # <<>> /\ Popped[1].kind = "admit" /\ ~fence.blocked
      /\ stop' = stop
  BY DEF WorkAdmit, Pops, EmergencyControl
<1>2. /\ Event1 \in Goal /\ FromNormal(queue, Popped[1], Popped[2])
      /\ Taken = [Now EXCEPT !.queue = [Now.queue EXCEPT !.normal = Tail(@)]]
      /\ Now.queue.normal # <<>> /\ Head(Now.queue.normal) = Admit(Event1)
  BY <1>1, TakenIs, Kinds DEF Event1
<1>3. Grows(Now, Taken, {}) /\ Taken \in World
  BY <1>1, <1>2, NowWorld, AdmitLoose, TakenNormalGrows DEF Loose
<1>4. CASE gate.quiescing
  <2>1. Grows(Taken, Aborted(Taken, Event1), {})
    BY <1>2, <1>3, AnsweredGrows DEF Aborted, Ended
  <2>2. Becomes(Aborted(Taken, Event1)) /\ worker' = worker
    BY <1>4 DEF WorkAdmit
  <2> QED
    BY <1>1, <1>3, <2>1, <2>2, GrowsTrans, GrowsStep
<1>5. CASE ~gate.quiescing
  <2> DEFINE w == [Taken EXCEPT !.router.pending = TRUE, !.router.early = "none"]
             c == [pc |-> "claimed", goal |-> Event1]
  <2>1. Becomes(w) /\ worker' = c
    BY <1>5 DEF WorkAdmit
  <2>2. /\ w.core = Taken.core /\ w.goals = Taken.goals /\ w.goal = Taken.goal
        /\ w.port = Taken.port /\ w.gate = Taken.gate /\ w.fence = Taken.fence
        /\ w.queue = Taken.queue /\ w.lane = Taken.lane /\ w.registry = Taken.registry
    BY <1>3 DEF World
  <2> HIDE DEF w
  <2>3. Grows(Taken, w, {})
    BY <2>2, GrowsSame DEF Over
  <2>4. Grows(Now, w, {})
    BY <1>3, <2>3, GrowsTrans
  <2>5. ~w.fence.blocked
    BY <1>1, <2>2, TakenFields, NowFields
  <2>6. Trail(w, c, stop.state)
    BY <1>1, <2>4, <2>5, NowWorld, CoreOf, GrowsTrail DEF TInv, Entering
  <2> QED
    BY <1>1, <2>1, <2>6, TrailStep
<1> QED
  BY <1>4, <1>5

\* No record of the goal being admitted can be on its way yet.
LEMMA NotIssued ==
  ASSUME BInv, TInv, worker.pc \in Dispatching
  PROVE  /\ worker.goal \in Goal /\ worker.goal \notin Now.goals \cup Over(Now)
         /\ ~Has(queue.control, Result(worker.goal)) /\ port.child # worker.goal
<1>1. worker.goal \in Goal \ Now.goals /\ Now.goal[worker.goal].state = "accepted"
  BY DEF BInv, Books, Slot
<1>2. worker.goal \notin Over(Now)
  BY <1>1 DEF Over, Ended
<1> QED
  BY <1>1, <1>2, NowFields DEF TInv, Trail, Issued

LEMMA CoreAdmitTrail == ASSUME BInv, TInv, CoreAdmit PROVE TInv'
<1> DEFINE g == worker.goal
<1>1. worker.pc = "claimed" /\ worker.pc \in Dispatching /\ worker \in Workers /\ stop' = stop
  BY NowWorld DEF CoreAdmit, Dispatching, Books
<1>2. g \in Goal /\ ~Has(queue.control, Result(g))
  BY <1>1, NotIssued
<1>3. CASE /\ core = Nobody /\ Admissible(Now, goal[g].epoch)
           /\ Becomes([Now EXCEPT !.core = g]) /\ worker' = [worker EXCEPT !.pc = "admitted"]
  <2> DEFINE w == [Now EXCEPT !.core = g]
             c == [worker EXCEPT !.pc = "admitted"]
  <2>1. Becomes(w) /\ worker' = c
    BY <1>3 DEF CoreAdmit
  <2>2. ~fence.blocked
    BY <1>3, NowFields DEF Admissible, Allows
  <2>3. /\ w.core = g /\ w.goals = Now.goals /\ w.goal = Now.goal /\ w.port = Now.port
        /\ w.gate = Now.gate /\ w.fence = Now.fence /\ w.queue = Now.queue
        /\ w.lane = Now.lane /\ w.registry = Now.registry
    BY DEF Now
  <2>4. c.pc \in Entering
    BY <1>1 DEF Workers, Entering
  <2> HIDE DEF w, c
  <2>5. Issued(w) /\ FailsClosed(w, c) /\ Called(w) /\ Way(w, c) /\ Recorded(w)
        /\ (w.gate.quiescing \/ Awaited(w, stop.state))
    BY <1>2, <2>2, <2>3, <2>4, NowFields
       DEF TInv, Trail, Issued, FailsClosed, Called, Way, Recorded, Awaited, Over
  <2>6. Trail(w, c, stop.state)
    BY <2>5 DEF Trail
  <2> QED
    BY <1>1, <2>1, <2>6, TrailStep
<1>4. CASE /\ Becomes(Aborted([Now EXCEPT !.router.pending = FALSE,
                                      !.pending = @ \ {goal[g].at}], g))
           /\ worker' = Idle
  <2> DEFINE P == Now.pending \ {goal[g].at}
             w == [Now EXCEPT !.router.pending = FALSE, !.pending = P]
             x == Aborted(w, g)
  <2>1. Becomes(x) /\ worker' = Idle
    BY <1>4 DEF CoreAdmit
  <2>2. P \in SUBSET Address
    <3>1. Now.pending \in SUBSET Address
      BY NowWorld DEF World
    <3> QED
      BY <3>1
  <2>3. w \in World
    BY <1>1, <2>2, NowWorld, DismissedLoose DEF Loose
  <2>4. /\ w.core = Now.core /\ w.goals = Now.goals /\ w.goal = Now.goal /\ w.port = Now.port
        /\ w.gate = Now.gate /\ w.fence = Now.fence /\ w.queue = Now.queue
        /\ w.lane = Now.lane /\ w.registry = Now.registry
    BY DEF Now
  <2> HIDE DEF w
  <2>5. Grows(Now, w, {}) /\ Grows(w, x, {})
    BY <1>2, <2>3, <2>4, GrowsSame, AnsweredGrows DEF Over, Aborted, Ended
  <2>6. Trail(x, Idle, stop.state)
    <3>1. Grows(Now, x, {})
      BY <2>5, GrowsTrans
    <3>2. worker.pc \notin Entering /\ Idle.pc \notin Dispatching
      BY <1>1, IdleIs DEF Entering, Dispatching
    <3> HIDE DEF x
    <3> QED
      BY <3>1, <3>2, NowWorld, CoreOf, GrowsTrail DEF TInv
  <2> QED
    BY <1>1, <2>1, <2>6, TrailStep
<1> QED
  BY <1>3, <1>4 DEF CoreAdmit

LEMMA StartStepTrail == ASSUME BInv, TInv, StartStep PROVE TInv'
<1> DEFINE g == worker.goal
<1>1. worker.pc = "admitted" /\ worker.pc \in Dispatching /\ worker.pc \in Entering
      /\ worker \in Workers /\ stop' = stop
  BY NowWorld DEF StartStep, Dispatching, Entering, Books
<1>2. g \in Goal /\ ~Has(queue.control, Result(g)) /\ core = g
  BY <1>1, NotIssued, NowFields DEF BInv, Books, Slot
<1>3. CASE Admissible(Now, goal[g].epoch)
  <2> DEFINE r == [Now.registry EXCEPT ![g] = "open"]
             w == [Now EXCEPT !.registry = r]
             c == [worker EXCEPT !.pc = "calling"]
  <2>1. Becomes(w) /\ worker' = c
    BY <1>3 DEF StartStep
  <2> HIDE DEF r
  <2>2. /\ w.core = Now.core /\ w.goals = Now.goals /\ w.goal = Now.goal /\ w.port = Now.port
        /\ w.gate = Now.gate /\ w.fence = Now.fence /\ w.queue = Now.queue
        /\ w.lane = Now.lane
    BY NowWorld, RegistryFields
  <2>3. c.pc \in Entering /\ c.pc \in Dispatching
    BY <1>1 DEF Workers, Entering, Dispatching
  <2> HIDE DEF w, c
  <2>4. Issued(w) /\ FailsClosed(w, c) /\ Called(w) /\ Way(w, c) /\ Recorded(w)
        /\ (w.gate.quiescing \/ Awaited(w, stop.state))
    BY <1>1, <1>2, <2>2, <2>3, NowFields
       DEF TInv, Trail, Issued, FailsClosed, Called, Way, Recorded, Awaited, Over
  <2>5. Trail(w, c, stop.state)
    BY <2>4 DEF Trail
  <2> QED
    BY <1>1, <2>1, <2>5, TrailStep
<1>4. CASE ~Admissible(Now, goal[g].epoch)
  <2> DEFINE w == Admitted(CoreEnds(Now, "aborted"), g)
  <2>1. Becomes(w) /\ worker' = Idle
    BY <1>4 DEF StartStep
  <2>2. Closed(Now, w)
    BY <1>1, NowWorld, EarlyEndClosed DEF Ended
  <2> HIDE DEF w
  <2>3. Trail(w, Idle, stop.state)
    BY <2>2, ClosedTrail, IdleIs DEF TInv, Trail, Dispatching
  <2> QED
    BY <1>1, <2>1, <2>3, TrailStep
<1> QED
  BY <1>3, <1>4

LEMMA PcTrail ==
  ASSUME BInv, TInv, Becomes(Now), stop' = stop, NEW c, worker' = c,
         c.pc \in Dispatching => worker.pc \in Dispatching,
         c.pc \notin Entering => worker.pc \notin Entering
  PROVE  TInv'
<1>1. Grows(Now, Now, {})
  BY GrowsSame
<1>2. Trail(Now, c, stop.state)
  BY <1>1, NowWorld, CoreOf, GrowsTrail DEF TInv
<1> QED
  BY <1>2, TrailStep

LEMMA EnterPortTrail == ASSUME BInv, TInv, EnterPort PROVE TInv'
<1>1. worker \in Workers /\ worker.pc = "calling"
  BY NowWorld DEF EnterPort, Books
<1>2. [worker EXCEPT !.pc = "starting"].pc = "starting"
  BY <1>1 DEF Workers
<1> QED
  BY <1>1, <1>2, PcTrail DEF EnterPort, Dispatching, Entering

LEMMA WorkerEndsTrail == ASSUME BInv, TInv, WorkerEnds PROVE TInv'
<1>1. worker.pc = "idle" /\ [Idle EXCEPT !.pc = "ended"].pc = "ended"
  BY DEF WorkerEnds, Idle
<1> QED
  BY <1>1, PcTrail DEF WorkerEnds, Dispatching, Entering

\* What a start leaves, before the admission of g is over.
Started(v, g, s) ==
  /\ \A h \in Goal : Has(v.queue.control, Result(h)) \/ v.port.child = h =>
       h = g \/ h \in v.goals \cup Over(v)
  /\ Called(v) /\ ~(v.fence.blocked /\ ~v.fence.pending)
  /\ v.gate.quiescing \/ (Awaited(v, s) /\ Recorded(v))
  /\ Ending(v) \/ (v.port.child = v.core /\ ~v.port.cancel)

LEMMA PortStarted ==
  ASSUME BInv, TInv, worker.pc \in Entering
  PROVE  Started(PortStarts(Now, worker.goal), worker.goal, stop.state)
<1> DEFINE g == worker.goal
           v == PortStarts(Now, g)
           u == [Now EXCEPT !.port.child = g, !.port.tx = "queued", !.port.cancel = FALSE]
<1>1. worker.pc \in Dispatching /\ g \in Goal /\ Now.core = g /\ g # Nobody
      /\ ~Has(Now.queue.control, Result(g))
  BY NotIssued, NowFields, NodeAssumption DEF Entering, Dispatching, BInv, Books, Slot
<1>2. ~(Now.fence.blocked /\ ~Now.fence.pending)
  BY <1>1 DEF TInv, Trail, FailsClosed
<1>3. v \in {u, Relayed(Now, g)}
  BY DEF PortStarts
<1> HIDE DEF v, g
<1>4. v = u => Started(v, g, stop.state)
  <2>1. /\ u.core = Now.core /\ u.goals = Now.goals /\ u.goal = Now.goal
        /\ u.gate = Now.gate /\ u.fence = Now.fence /\ u.queue = Now.queue
        /\ u.lane = Now.lane /\ u.registry = Now.registry
        /\ u.port.child = g /\ u.port.cancel = FALSE
    BY NowWorld DEF World, PortType, Tx
  <2> HIDE DEF u
  <2>2. Called(u) /\ (u.gate.quiescing \/ (Awaited(u, stop.state) /\ Recorded(u)))
    BY <1>1, <2>1 DEF TInv, Trail, Recorded, Called, Awaited
  <2>3. \A h \in Goal : Has(u.queue.control, Result(h)) \/ u.port.child = h =>
                  h = g \/ h \in u.goals \cup Over(u)
    BY <2>1 DEF TInv, Trail, Issued, Over
  <2> QED
    BY <1>1, <1>2, <2>1, <2>2, <2>3 DEF Started
<1>5. v = Relayed(Now, g) => Started(v, g, stop.state)
  <2> SUFFICES ASSUME v = Relayed(Now, g) PROVE Started(v, g, stop.state)
    OBVIOUS
  <2>1. /\ Grows(Now, v, {g})
        /\ v.fence.blocked \/ (v.registry[g] = "record" /\ Has(v.queue.control, Result(g)))
    BY <1>1, NowWorld, RelayedGrows
  <2>2. Called(v) /\ ~(v.fence.blocked /\ ~v.fence.pending)
        /\ (v.gate.quiescing \/ Awaited(v, stop.state)) /\ v.core = g
    BY <1>1, <1>2, <2>1 DEF TInv, Trail, Called, Awaited, Grows
  <2>3. \A h \in Goal : Has(v.queue.control, Result(h)) \/ v.port.child = h =>
                  h = g \/ h \in v.goals \cup Over(v)
    BY <2>1 DEF TInv, Trail, Issued, Grows
  <2>4. Ending(v) /\ Recorded(v)
    BY <2>1, <2>2 DEF Ending, Recorded
  <2> QED
    BY <2>2, <2>3, <2>4 DEF Started
<1> QED
  BY <1>3, <1>4, <1>5 DEF v, g

LEMMA PortStartTrail == ASSUME BInv, TInv, PortStart PROVE TInv'
<1> DEFINE g == worker.goal
           v == PortStarts(Now, g)
           w == Admitted(v, g)
<1>1. worker.pc \in Entering /\ worker.pc \in Dispatching
      /\ Becomes(w) /\ worker' = Idle /\ stop' = stop
  BY DEF PortStart, Entering, Dispatching
<1>2. g \in Goal
  BY <1>1, NotIssued
<1>3. Started(v, g, stop.state)
  BY <1>1, PortStarted
<1>4. Books(v, worker)
  BY <1>2, NowWorld, PortStartsQuiet, QuietBooks
<1> HIDE DEF v
<1>5. /\ Closed(v, w) \/ /\ w.core = v.core /\ w.goals = {g} /\ w.goal = v.goal
                         /\ w.queue = v.queue /\ w.gate = v.gate /\ w.fence = v.fence
                         /\ w.port = v.port /\ w.registry = v.registry /\ w.lane = v.lane
      /\ g \in w.goals \cup Over(w)
  BY <1>1, <1>4, AdmittedIs
<1>6. v.goals = {}
  BY <1>1, <1>4 DEF Books, Slot
<1> HIDE DEF w
<1>7. CASE Closed(v, w)
  <2>1. Issued(w) /\ Called(w) /\ (w.gate.quiescing \/ Awaited(w, stop.state)) /\ w.core = Nobody
    BY <1>3, <1>5, <1>7 DEF Started, Closed, Issued, Called, Awaited
  <2> QED
    BY <1>1, <2>1, IdleIs, TrailStep
       DEF Trail, Way, Recorded, FailsClosed, Dispatching
<1>8. CASE /\ w.core = v.core /\ w.goals = {g} /\ w.goal = v.goal
           /\ w.queue = v.queue /\ w.gate = v.gate /\ w.fence = v.fence
           /\ w.port = v.port /\ w.registry = v.registry /\ w.lane = v.lane
  <2>1. Issued(w) /\ Called(w) /\ (w.gate.quiescing \/ Awaited(w, stop.state))
    BY <1>3, <1>5, <1>6, <1>8 DEF Started, Issued, Called, Awaited, Over
  <2>2. Way(w, Idle) /\ FailsClosed(w, Idle) /\ (w.gate.quiescing \/ Recorded(w))
    BY <1>3, <1>8 DEF Started, Way, FailsClosed, Recorded, Ending
  <2>3. Trail(w, Idle, stop.state)
    BY <2>1, <2>2 DEF Trail
  <2> QED
    BY <1>1, <2>3, TrailStep
<1> QED
  BY <1>5, <1>7, <1>8

LEMMA WorkerTrail == ASSUME BInv, TInv, IInv, Worker PROVE TInv'
  BY WorkCancelTrail, WorkStopTrail, WorkResultTrail, WorkLookTrail, WorkDropTrail,
     WorkFenceTrail, WorkAdmitTrail, CoreAdmitTrail, StartStepTrail, EnterPortTrail,
     PortStartTrail, WorkerEndsTrail DEF Worker

-----------------------------------------------------------------------------
LEMMA TxGrows ==
  ASSUME NEW v \in World, NEW t
  PROVE  /\ Grows(v, [v EXCEPT !.port.tx = t], {})
         /\ [v EXCEPT !.port.tx = t].port.child = v.port.child
<1> DEFINE w == [v EXCEPT !.port.tx = t]
<1>1. /\ w.core = v.core /\ w.goals = v.goals /\ w.goal = v.goal
      /\ w.gate = v.gate /\ w.fence = v.fence /\ w.queue = v.queue /\ w.lane = v.lane
      /\ w.registry = v.registry
      /\ w.port.child = v.port.child /\ w.port.cancel = v.port.cancel
  BY DEF World, PortType, Tx
<1> HIDE DEF w
<1>2. Grows(v, w, {})
  BY <1>1, GrowsSame DEF Over
<1> QED
  BY <1>1, <1>2 DEF w

LEMMA TransactionTrail == ASSUME BInv, TInv, Transaction PROVE TInv'
<1> DEFINE x(t) == [Now EXCEPT !.port.tx = t]
<1>1. worker' = worker /\ stop' = stop
  BY DEF Transaction, TxBegin, TxGrant, TxInvoke, TxEffect, TxCommit, TxRollback, TxFails
<1>2. ASSUME NEW t, Becomes(x(t))
      PROVE  TInv'
  <2>1. Grows(Now, x(t), {})
    BY NowWorld, TxGrows
  <2> QED
    BY <1>1, <1>2, <2>1, GrowsStep
<1>3. CASE TxFails
  <2> DEFINE w == x("none")
  <2>1. Becomes(w) \/ (port.child # Nobody /\ Becomes(PortEnds(w)))
    BY <1>3 DEF TxFails
  <2>2. "none" \in Tx
    BY DEF Tx
  <2>3. /\ w \in World /\ Room(w) /\ Grows(Now, w, {})
        /\ w.port.child = Now.port.child /\ Now.port = port
    BY <2>2, NowWorld, TxQuiet, TxGrows, QuietWorld, NowFields
  <2> HIDE DEF w
  <2>4. Trail(w, worker, stop.state)
    BY <2>3, NowWorld, CoreOf, GrowsKeeps DEF TInv
  <2>5. port.child # Nobody => Trail(PortEnds(w), worker, stop.state)
    BY <2>3, <2>4, PortEndsTrail
  <2> QED
    BY <1>1, <2>1, <2>4, <2>5, TrailStep
<1>4. Transaction => TxFails \/ \E t \in Tx : Becomes(x(t))
  BY DEF Transaction, TxBegin, TxGrant, TxInvoke, TxEffect, TxCommit, TxRollback, TxStep, Tx
<1> QED
  BY <1>2, <1>3, <1>4

LEMMA PortThreadTrail == ASSUME BInv, TInv, PortThread PROVE TInv'
<1>1. port.child # Nobody /\ Becomes(PortEnds(Now)) /\ worker' = worker /\ stop' = stop
  BY DEF PortThread, ChildEnds, Teardown
<1>2. Trail(PortEnds(Now), worker, stop.state)
  BY <1>1, NowWorld, NowFields, PortEndsTrail DEF TInv
<1> QED
  BY <1>1, <1>2, TrailStep

LEMMA LaneTakesTrail == ASSUME BInv, TInv, LaneTakes PROVE TInv'
<1> DEFINE l == Tail(lane)
           w == [Now EXCEPT !.lane = l]
<1>1. Now.lane = lane /\ lane # <<>> /\ worker' = worker /\ worker.pc \notin Dispatching
      /\ stop' = stop /\ Becomes(CoreResult(w, Head(lane)))
  BY NowFields DEF LaneTakes, CoreFree
<1>2. Quiet(Now, w) /\ Books(w, worker)
  BY <1>1, NowWorld, LaneQuiet, QuietBooks
<1>3. \A x : Has(lane, x) /\ x # Head(lane) => Has(l, x)
  <2>1. lane \in Seq(Goal)
    BY NowWorld, NowFields DEF World
  <2> QED
    BY <1>1, <2>1, TailIs
<1>4. /\ w.core = Now.core /\ w.goals = Now.goals /\ w.goal = Now.goal /\ w.port = Now.port
      /\ w.gate = Now.gate /\ w.fence = Now.fence /\ w.queue = Now.queue /\ w.lane = l
      /\ w.registry = Now.registry
  BY DEF Now
<1> HIDE DEF w
<1>5. Issued(w) /\ Called(w) /\ FailsClosed(w, worker)
      /\ (w.gate.quiescing \/ (Awaited(w, stop.state) /\ Recorded(w)))
  BY <1>4 DEF TInv, Trail, Issued, Called, FailsClosed, Awaited, Recorded, Over
<1>6. CASE w.core = Head(lane)
  <2>1. Becomes(CoreEnds(w, "finished"))
    BY <1>1, <1>6 DEF CoreResult
  <2> QED
    BY <1>1, <1>2, <1>5, <2>1, EndedStep DEF Ended
<1>7. CASE w.core # Head(lane)
  <2>1. Becomes(w)
    BY <1>1, <1>7 DEF CoreResult
  <2>2. Way(Now, worker) => Way(w, worker)
    BY <1>1, <1>3, <1>4, <1>7 DEF Way, Ending
  <2>3. Trail(w, worker, stop.state)
    BY <1>4, <1>5, <2>2 DEF TInv, Trail
  <2> QED
    BY <1>1, <2>1, <2>3, TrailStep
<1> QED
  BY <1>6, <1>7

-----------------------------------------------------------------------------
(***************************************************************************)
(* Shutdown keeps the trail.                                               *)
(***************************************************************************)
LEMMA KeepsTrail == ASSUME BInv, TInv, Keeps PROVE TInv'
  BY PcTrail DEF Keeps

LEMMA CloseGenerationTrail == ASSUME BInv, TInv, CloseGeneration PROVE TInv'
<1> DEFINE w == [Now EXCEPT !.gate.quiescing = TRUE]
<1>1. Becomes(w) /\ worker' = worker /\ stop' = stop
  BY DEF CloseGeneration
<1>2. /\ w.core = Now.core /\ w.goals = Now.goals /\ w.goal = Now.goal /\ w.port = Now.port
      /\ w.gate.emergency = Now.gate.emergency /\ w.gate.quiescing
      /\ w.fence = Now.fence /\ w.queue = Now.queue
  BY NowWorld DEF World
<1> HIDE DEF w
<1>3. Trail(w, worker, stop.state)
  BY <1>2 DEF TInv, Trail, Issued, FailsClosed, Called, Over
<1> QED
  BY <1>1, <1>3, TrailStep

\* From the closing of the admission on, the Adapter may be stopped at any time.
LEMMA QuiescingInhibits ==
  ASSUME NEW v \in World, NEW k, NEW s, Trail(v, k, s), v.gate.quiescing
  PROVE  Trail(Inhibited(v), k, s) /\ Inhibited(v) \in World
  BY InhibitedTrail, InhibitedIs

LEMMA BeginRunningShutdownTrail == ASSUME BInv, TInv, IInv, BeginRunningShutdown PROVE TInv'
<1> DEFINE u == Inhibited(Now)
           w == [u EXCEPT !.port.shutting = TRUE]
<1>1. Becomes(w) /\ worker' = worker /\ stop' = stop
  BY DEF BeginRunningShutdown
<1>2. Trail(u, worker, stop.state) /\ u \in World
  BY NowWorld, NowFields, QuiescingInhibits DEF TInv, IInv, Drained, BeginRunningShutdown
<1> HIDE DEF u
<1>3. /\ w.core = u.core /\ w.goals = u.goals /\ w.goal = u.goal
      /\ w.gate = u.gate /\ w.fence = u.fence /\ w.queue = u.queue /\ w.lane = u.lane
      /\ w.registry = u.registry
      /\ w.port.child = u.port.child /\ w.port.cancel = u.port.cancel
  BY <1>2 DEF World, PortType, Tx
<1> HIDE DEF w
<1>4. Grows(u, w, {})
  BY <1>3, GrowsSame DEF Over
<1>5. Trail(w, worker, stop.state)
  BY <1>2, <1>4, CoreOf, GrowsKeeps
<1> QED
  BY <1>1, <1>5, TrailStep

LEMMA JointEmergencyTrail == ASSUME BInv, TInv, IInv, JointEmergency PROVE TInv'
<1> DEFINE u == Inhibited(Now)
<1>1. Becomes(Emergency(u, FALSE)) /\ worker' = worker /\ stop' = stop
  BY DEF JointEmergency
<1>2. Trail(u, worker, stop.state) /\ u \in World
  BY NowWorld, NowFields, QuiescingInhibits DEF TInv, IInv, Drained, JointEmergency
<1> HIDE DEF u
<1>3. Trail(Emergency(u, FALSE), worker, stop.state)
  BY <1>2, CoreOf, EmergencyGrows, GrowsKeeps
<1> QED
  BY <1>1, <1>3, TrailStep

LEMMA CoreFailClosedTrail == ASSUME BInv, TInv, IInv, CoreFailClosed PROVE TInv'
<1>1. Becomes(CoreEnds(Now, "aborted")) /\ worker' = worker /\ stop' = stop
      /\ worker.pc \notin Dispatching
  BY DEF CoreFailClosed, CoreFree
<1>2. Books(Now, worker) /\ Issued(Now) /\ Called(Now) /\ Now.gate.quiescing
  BY NowWorld, NowFields DEF TInv, Trail, IInv, Drained, CoreFailClosed
<1> QED
  BY <1>1, <1>2, EndedStep DEF Ended

LEMMA DrainTicketsTrail == ASSUME BInv, TInv, IInv, DrainTickets PROVE TInv'
<1>1. PICK w \in Pruned(Now) :
        Becomes(IF Tickets(w) = {} THEN w
                ELSE Emergency(Inhibited(Ticketed(w, Tickets(w), "revoked")), FALSE))
  BY DEF DrainTickets
<1>2. worker' = worker /\ stop' = stop /\ Now.gate.quiescing
  BY NowFields DEF DrainTickets, IInv, Drained
<1> DEFINE u == Ticketed(w, Tickets(w), "revoked")
           x == Inhibited(u)
<1>3. Grows(Now, w, {}) /\ w \in World /\ Room(w)
  BY NowWorld, PrunedGrows
<1>4. Quiet(w, u) /\ Grows(w, u, {})
  BY <1>3, TicketedQuiet, TicketedGrows
<1>5. Becomes(w) \/ Becomes(Emergency(x, FALSE))
  BY <1>1
<1> HIDE DEF u
<1>6. Trail(w, worker, stop.state)
  BY <1>3, NowWorld, CoreOf, GrowsKeeps DEF TInv
<1>7. Trail(u, worker, stop.state) /\ u.gate.quiescing /\ u \in World
  BY <1>2, <1>3, <1>4, <1>6, CoreOf, GrowsKeeps, QuietWorld DEF Grows
<1>8. Trail(x, worker, stop.state) /\ x \in World
  BY <1>7, QuiescingInhibits
<1> HIDE DEF x
<1>9. Trail(Emergency(x, FALSE), worker, stop.state)
  BY <1>8, CoreOf, EmergencyGrows, GrowsKeeps
<1> QED
  BY <1>2, <1>5, <1>6, <1>9, TrailStep

LEMMA CloseQueueTrail == ASSUME BInv, TInv, CloseQueue PROVE TInv'
<1> DEFINE w == [Now EXCEPT !.queue.closed = TRUE]
<1>1. Becomes(w) /\ worker' = worker /\ stop' = stop
  BY DEF CloseQueue
<1>2. /\ w.core = Now.core /\ w.goals = Now.goals /\ w.goal = Now.goal /\ w.port = Now.port
      /\ w.gate = Now.gate /\ w.fence = Now.fence /\ w.queue.control = Now.queue.control
      /\ w.lane = Now.lane /\ w.registry = Now.registry
  BY NowWorld, QueueIs DEF World, QueueType
<1> HIDE DEF w
<1>3. Grows(Now, w, {})
  BY <1>2, GrowsSame DEF Over
<1> QED
  BY <1>1, <1>3, GrowsStep

LEMMA JoinWorkerTrail == ASSUME BInv, TInv, IInv, JoinWorker PROVE TInv'
<1> DEFINE u == Ticketed(Now, Tickets(Now), "none")
           r == [g \in Goal |-> "none"]
           w == [u EXCEPT !.registry = r]
<1>1. Becomes(w) /\ worker' = worker /\ stop' = stop /\ Now.gate.quiescing
  BY NowFields DEF JoinWorker, IInv, Drained
<1>2. Grows(Now, u, {}) /\ u \in World
  BY NowWorld, TicketedGrows, TicketedQuiet, QuietWorld
<1> HIDE DEF u, r
<1>3. Trail(u, worker, stop.state) /\ u.gate.quiescing
  BY <1>1, <1>2, NowWorld, CoreOf, GrowsKeeps DEF TInv, Grows
<1>4. /\ w.core = u.core /\ w.goals = u.goals /\ w.goal = u.goal /\ w.port = u.port
      /\ w.gate = u.gate /\ w.fence = u.fence /\ w.queue = u.queue
  BY <1>2, RegistryFields
<1> HIDE DEF w
<1>5. Trail(w, worker, stop.state)
  BY <1>3, <1>4 DEF Trail, Issued, FailsClosed, Called, Over
<1> QED
  BY <1>1, <1>5, TrailStep

LEMMA ShutdownTrail == ASSUME BInv, TInv, IInv, ShutdownAsked \/ Shutdown PROVE TInv'
<1>1. CASE CloseGeneration \/ BeginRunningShutdown \/ JointEmergency \/ CoreFailClosed
           \/ DrainTickets \/ CloseQueue \/ JoinWorker
  BY <1>1, CloseGenerationTrail, BeginRunningShutdownTrail, JointEmergencyTrail,
     CoreFailClosedTrail, DrainTicketsTrail, CloseQueueTrail, JoinWorkerTrail
<1>2. CASE ShutdownAsked \/ InternalCompletion \/ TransactionDrain \/ JointConditions
           \/ JointDeadline \/ DeactivateCallbacks
  <2>1. Keeps
    BY <1>2 DEF ShutdownAsked, InternalCompletion, TransactionDrain, JointConditions,
       JointDeadline, DeactivateCallbacks
  <2> QED
    BY <2>1, KeepsTrail
<1> QED
  BY <1>1, <1>2 DEF Shutdown

LEMMA InitTrail == Init => TInv
<1> SUFFICES ASSUME Init PROVE TInv
  OBVIOUS
<1>1. /\ Now.core = Nobody /\ Now.fence.blocked = FALSE /\ Now.gate.emergency = "none"
      /\ Now.port.child = Nobody /\ Now.queue.control = <<>> /\ stop.state = "none"
  BY NowFields DEF Init
<1>2. \A x : ~Has(Now.queue.control, x)
  BY <1>1 DEF Has
<1> QED
  BY <1>1, <1>2, NodeAssumption
     DEF TInv, Trail, Way, Recorded, Awaited, Issued, FailsClosed, Called

LEMMA NextTrail == ASSUME BInv, TInv, IInv, [Next]_vars PROVE TInv'
<1>1. CASE Callback
  BY <1>1, OnGoalTrail, OnCancelTrail, OnAcceptedTrail, TurnAwayTrail, TimerTrail,
     GateSnapshotTrail, OnStopTrail, StopTrail DEF Callback
<1>2. CASE EmergencyCallback \/ Worker \/ Transaction \/ PortThread
  BY <1>2, EmergencyCallbackTrail, WorkerTrail, TransactionTrail, PortThreadTrail
<1>3. CASE LaneTakes \/ ShutdownAsked \/ Shutdown
  BY <1>3, LaneTakesTrail, ShutdownTrail
<1>4. CASE UNCHANGED vars
  <2>1. Keeps
    BY <1>4, NowFields DEF vars, Keeps, Becomes
  <2> QED
    BY <1>4, <2>1, PcTrail DEF vars, Keeps
<1> QED
  BY <1>1, <1>2, <1>3, <1>4 DEF Next

LEMMA TrailAlways == Spec => []TInv
  BY InitBooks, NextBooks, InitTrail, NextTrail, InitInv, NextGood, PTL DEF Spec, Good

\* A Mission whose child is gone has its end on the way, unless the shutdown has taken
\* over: what silences a child or refuses its record either comes with an event in the
\* control lane or raises the fence (RuntimeCompletionMailbox, RuntimeEmergencyFence).
THEOREM NobodyIsStranded == Spec => []NotStranded
<1>1. BInv /\ TInv => NotStranded
  <2> SUFFICES ASSUME BInv, TInv, core # Nobody, CoreFree, port.child # core,
                      ~fence.pending, ~gate.quiescing
               PROVE  \/ \E i \in DOMAIN queue.control : queue.control[i] \in {Stop, Result(core)}
                      \/ \E i \in DOMAIN lane : lane[i] = core
    BY DEF NotStranded
  <2>1. worker.pc \notin Entering
    BY DEF CoreFree, Dispatching, Entering
  <2>2. Ending(Now)
    BY <2>1, NowFields DEF TInv, Trail, Way
  <2> QED
    BY <2>2, NowFields DEF Ending, Has
<1> QED
  BY <1>1, BooksAlways, TrailAlways, PTL

=============================================================================
