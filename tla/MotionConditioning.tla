------------------------- MODULE MotionConditioning -------------------------
(***************************************************************************)
(* MotionConditioningPipeline (motion_conditioning_pipeline.cpp): what the *)
(* relative-motion Adapter starts and stops around one motion.             *)
(*                                                                         *)
(* PREPARE takes a lease of the Gate and loads the two Nav2 components;    *)
(* START opens the Gate, activates the components and starts the producer; *)
(* STOP or a failure proves zero at the Gate, waits for whatever is still  *)
(* in flight and takes everything down.  Four threads run this code: the   *)
(* Adapter's transaction thread T, its emergency thread E, which stops     *)
(* what T is starting, the renew callback R, and K, which finishes the     *)
(* cleanup of a stop that could not wait for a start.                      *)
(*                                                                         *)
(* Gate, component container and producer are other processes or modules:  *)
(* each call of one is a step, and every failing outcome costs a fault.    *)
(***************************************************************************)
EXTENDS Integers

CONSTANTS
  MaxPrepares,  \* how many motions are prepared
  MaxStops,     \* how many of them are cancelled while they start
  MaxGates,     \* how many processes the Gate has
  MaxFaults,    \* how many calls fail
  Leftovers     \* what an earlier process may have left in the container

ASSUME ConditioningAssumption ==
  /\ {MaxPrepares, MaxStops, MaxFaults} \subseteq Nat /\ MaxGates \in Nat \ {0}
  /\ Leftovers \subseteq {"none", "loaded", "active"}

VARIABLES
  gate,      \* the Gate process, its lease and what it lets through
  box,       \* the component container: its nodes, and a load nobody waits for
  producer,  \* the producer of raw commands: "on" or "off"
  permit,    \* the open generation of the transaction plane
  pipe,      \* the members of the pipeline
  at,        \* where each thread is
  my,        \* the locals of each thread
  spent      \* the bounds: prepares, stops, faults

vars == <<gate, box, producer, permit, pipe, at, my, spent>>

Thread == {"T", "E", "R", "K"}
Failure == {"none", "dependency", "execution", "safety", "loss"}

\* A terminal result; lost and maybe are the Gate that is or may be lost.
Result(ok, failure, zero) ==
  [ok |-> ok, failure |-> failure, zero |-> zero, lost |-> 0, maybe |-> 0]
NoRecord == Result(FALSE, "none", FALSE)
Nowhere == -1

-----------------------------------------------------------------------------
(***************************************************************************)
(* The Gate and the budget of faults.                                      *)
(***************************************************************************)
Fault == spent.faults < MaxFaults /\ spent' = [spent EXCEPT !.faults = @ + 1]
NoFault == UNCHANGED spent

ProvesZero == gate.up /\ gate.mode = "idle"
Shut(g) == [g EXCEPT !.mode = "idle", !.lease = 0]

\* A request that makes the Gate inhibit, and whether it proves a zero: applied,
\* lost on the way or back, or out of reach.
Tell(reached, zero) ==
  \/ reached /\ zero /\ gate' = Shut(gate) /\ NoFault
  \/ reached /\ ~zero /\ gate' \in {gate, Shut(gate)} /\ Fault
  \/ ~reached /\ ~zero /\ UNCHANGED gate /\ NoFault

\* inhibit_gate: bound to the process that granted the lease; without a lease the
\* snapshot has to do.
InhibitGate(zero) ==
  IF pipe.lease = 0
  THEN UNCHANGED gate /\ NoFault /\ zero = ProvesZero
  ELSE Tell(gate.up /\ pipe.home \in {0, gate.inst}, zero)

\* remember_zero_proof: the proof names the lease it was made for.
Proven(p, zero) == IF zero THEN [p EXCEPT !.proof = p.lease] ELSE p
ProofIsFresh(p) == p.proof = p.lease

\* The component container: load, unload and confirm, activate; a load nobody waits
\* for; what ListNodes shows.
Loaded(b) == [b EXCEPT !.nodes = "loaded"]
Unloaded(b) == [nodes |-> "none", late |-> FALSE]
Activated(b) == [b EXCEPT !.nodes = "active"]
Unanswered(b) == [b EXCEPT !.late = TRUE]
Unresolved(b) == b.late
ListedEmpty(b) == b.nodes = "none"

\* runtime_graph_health: a lost dependency, or a component or deadline.
HealthFailure == {"dependency", "safety"}

\* What happens by itself: a lease ends, the Gate is replaced, the Runtime opens
\* another generation of the transaction plane, the Collision Monitor stops, a
\* load takes place whose answer nobody waited for.
LeaseEnds ==
  /\ gate.mode # "idle" /\ Fault
  /\ gate' = Shut(gate)
  /\ UNCHANGED <<box, producer, permit, pipe, at, my>>

GateDies ==
  /\ gate.up /\ gate.inst < MaxGates /\ Fault
  /\ gate' = [Shut(gate) EXCEPT !.up = FALSE]
  /\ UNCHANGED <<box, producer, permit, pipe, at, my>>

GateStarts ==
  /\ ~gate.up
  /\ gate' = [gate EXCEPT !.up = TRUE, !.inst = @ + 1]
  /\ UNCHANGED <<box, producer, permit, pipe, at, my, spent>>

Revoke ==
  /\ Fault /\ permit' = permit + 1
  /\ UNCHANGED <<gate, box, producer, pipe, at, my>>

CollisionStop ==
  /\ pipe.state = "Running" /\ ~pipe.collision /\ Fault
  /\ pipe' = [pipe EXCEPT !.collision = TRUE]
  /\ UNCHANGED <<gate, box, producer, permit, at, my>>

LateLoad ==
  /\ Unresolved(box) /\ box' = [Loaded(box) EXCEPT !.late = FALSE]
  /\ UNCHANGED <<gate, producer, permit, pipe, at, my, spent>>

World == LeaseEnds \/ GateDies \/ GateStarts \/ Revoke \/ CollisionStop \/ LateLoad

-----------------------------------------------------------------------------
(***************************************************************************)
(* The members of the pipeline.                                            *)
(***************************************************************************)
\* invalidate_activation_locked: whoever holds the old generation is fenced.
Invalidated(p) ==
  [p EXCEPT !.counter = @ + 1, !.gen = p.counter + 1, !.token = 0,
            !.activating = FALSE]

\* reset_generation.
Reset(p) ==
  [p EXCEPT !.lease = 0, !.home = 0, !.dirty = FALSE, !.cleanFailed = FALSE,
            !.proof = Nowhere]

\* remember and finish_teardown.
Finished(p, state, r) ==
  [p EXCEPT !.state = state, !.last = r,
            !.record = IF @ = NoRecord THEN r ELSE @,
            !.owner = IF p.continuation = "running" THEN @ ELSE "none",
            !.teardown = FALSE]

\* begin_teardown as the one that tears down; disable_renew_callbacks.
Claimed(p) ==
  [Invalidated(p) EXCEPT !.owner = "cleanup", !.teardown = TRUE, !.renew = FALSE]

\* A failure that proved zero and left nothing behind lets the next PREPARE in.
Reusable(p) ==
  /\ p.record.zero /\ p.record.failure \in {"dependency", "execution"}
  /\ ~p.blocked /\ ~p.cleanFailed

\* activation_generation_current, activation_current_locked.
ActivationCurrent(p, gen) == p.gen = gen /\ p.state = "Prepared" /\ p.activating
TokenCurrent(th) ==
  /\ my[th].gen # 0 /\ my[th].gen = pipe.token
  /\ pipe.state \in {"Prepared", "Running"}
RunningCurrent(th) ==
  pipe.gen = my[th].gen /\ pipe.state = "Running" /\ pipe.renew
Permitted(th) == my[th].permit = permit

Blank ==
  [gen |-> 0, lease |-> 0, home |-> 0, permit |-> 0, kind |-> "none",
   cause |-> "none", zero |-> FALSE, expect |-> 0, maybe |-> FALSE, seen |-> 0]
Goes(th, pc) == at' = [at EXCEPT ![th] = pc]
Keeps == UNCHANGED my
Still == UNCHANGED <<gate, box, producer, permit, spent>>

Init ==
  /\ gate = [inst |-> 1, up |-> TRUE, lease |-> 0, mode |-> "idle"]
  /\ box \in [nodes : Leftovers, late : {FALSE}]
  /\ producer = "off" /\ permit = 1
  /\ pipe = [state |-> "Stopped", gen |-> 0, counter |-> 0, lease |-> 0,
             home |-> 0, token |-> 0, activating |-> FALSE, cancel |-> FALSE,
             owner |-> "none", teardown |-> FALSE, record |-> NoRecord,
             last |-> NoRecord, proof |-> Nowhere, starts |-> 0,
             continuation |-> "never", blocked |-> FALSE, cleanFailed |-> FALSE,
             dirty |-> FALSE, renew |-> FALSE, renewing |-> FALSE,
             collision |-> FALSE]
  /\ at = [th \in Thread |-> IF th = "T" THEN "boot" ELSE "idle"]
  /\ my = [th \in Thread |-> Blank]
  /\ spent = [prepares |-> 0, stops |-> 0, faults |-> 0]

-----------------------------------------------------------------------------
(***************************************************************************)
(* Startup: prove zero, empty the container, see it empty twice, prove zero *)
(* again.  A failure is final.                                             *)
(***************************************************************************)
StartupZero ==
  /\ at["T"] = "boot"
  /\ \E zero \in BOOLEAN :
       Tell(gate.up, zero) /\ Goes("T", IF zero THEN "sweep" ELSE "giveUp")
  /\ UNCHANGED <<box, producer, permit, pipe, my>>

\* cleanup_startup_components.
StartupSweep ==
  /\ at["T"] = "sweep"
  /\ \/ /\ ProvesZero /\ NoFault
        /\ box' = [box EXCEPT !.nodes = "none"] /\ Goes("T", "confirm")
     \/ /\ ProvesZero /\ Fault
        /\ box' \in [nodes : {box.nodes, "none"}, late : {box.late}]
        /\ Goes("T", "giveUp")
     \/ ~ProvesZero /\ NoFault /\ UNCHANGED box /\ Goes("T", "giveUp")
  /\ my' = [my EXCEPT !["T"].seen = 0]
  /\ UNCHANGED <<gate, producer, permit, pipe>>

\* confirm_startup_graph_clean: one observation; its deadline is a fault.
StartupConfirm ==
  /\ at["T"] = "confirm"
  /\ \/ /\ ProvesZero /\ NoFault
        /\ my' = [my EXCEPT !["T"].seen = IF ListedEmpty(box) THEN @ + 1 ELSE 0]
        /\ Goes("T", IF ~ListedEmpty(box) THEN "sweep"
                  ELSE IF my["T"].seen = 1 THEN "rezero" ELSE "confirm")
     \/ ~ProvesZero /\ NoFault /\ Keeps /\ Goes("T", "giveUp")
     \/ Fault /\ Keeps /\ Goes("T", "giveUp")
  /\ UNCHANGED <<gate, box, producer, permit, pipe>>

StartupEnds ==
  /\ at["T"] = "rezero"
  /\ \/ /\ Tell(gate.up, TRUE) /\ Goes("T", "idle")
        /\ pipe' = [pipe EXCEPT !.last = Result(TRUE, "none", TRUE)]
     \/ Tell(gate.up, FALSE) /\ Goes("T", "giveUp") /\ UNCHANGED pipe
  /\ my' = [my EXCEPT !["T"] = Blank]
  /\ UNCHANGED <<box, producer, permit>>

\* fail_startup.
StartupFails ==
  /\ at["T"] = "giveUp"
  /\ \E zero \in BOOLEAN :
       /\ Tell(gate.up, zero)
       /\ pipe' = [pipe EXCEPT !.state = "Failed", !.blocked = TRUE,
                               !.last = Result(FALSE, "safety", zero)]
  /\ Goes("T", "broken") /\ my' = [my EXCEPT !["T"] = Blank]
  /\ UNCHANGED <<box, producer, permit>>

Startup == StartupZero \/ StartupSweep \/ StartupConfirm \/ StartupEnds \/ StartupFails

-----------------------------------------------------------------------------
(***************************************************************************)
(* prepare.                                                                *)
(***************************************************************************)
\* finish_prepare; a cancelled PREPARE leaves its cleanup to whoever cancelled.
PrepareDone(p, r) ==
  [p EXCEPT !.last = r, !.owner = "none", !.teardown = FALSE]
CancelledFrom(p) ==
  /\ pipe' = PrepareDone([p EXCEPT !.state = "Stopped"], Result(FALSE, "execution", FALSE))
  /\ Goes("T", "idle") /\ my' = [my EXCEPT !["T"] = Blank]
Cancelled == CancelledFrom(pipe)

\* fail_owned by the PREPARE itself, which already owns the teardown.
PrepareFails(p) ==
  /\ pipe' = [p EXCEPT !.renew = FALSE]
  /\ my' = [my EXCEPT !["T"].kind = "prepare", !["T"].cause = "safety"]
  /\ Goes("T", "quiet")

\* begin_prepare.  The Adapter begins a motion once its emergency thread is joined.
PrepareBegins ==
  /\ at["T"] = "idle" /\ at["E"] = "idle" /\ spent.prepares < MaxPrepares
  /\ pipe.continuation # "running" /\ ~pipe.teardown
  /\ pipe.state \in {"Stopped", "Failed"}
  /\ spent' = [spent EXCEPT !.prepares = @ + 1]
  /\ IF pipe.record # NoRecord /\ ~pipe.record.ok /\ ~Reusable(pipe)
     THEN UNCHANGED <<pipe, at>>
     ELSE /\ pipe' = [Invalidated(pipe) EXCEPT !.record = NoRecord, !.cancel = FALSE,
                                               !.owner = "prepare", !.teardown = TRUE]
          /\ Goes("T", IF pipe.dirty \/ pipe.lease # 0 THEN "handover" ELSE "ready")
  /\ UNCHANGED <<gate, box, producer, permit, my>>

\* cleanup_generation.  What gets here left no component behind, so that only the
\* Gate is told again.
PrepareHandsOver ==
  /\ at["T"] = "handover" /\ ~pipe.renewing
  /\ producer' = "off"
  /\ \E zero \in BOOLEAN :
       /\ InhibitGate(zero)
       /\ IF zero /\ ~pipe.dirty
          THEN pipe' = [Proven(pipe, TRUE) EXCEPT !.renew = FALSE] /\ Goes("T", "ready")
          ELSE /\ pipe' = Finished([pipe EXCEPT !.blocked = TRUE, !.renew = FALSE],
                                   "Failed", Result(FALSE, "safety", FALSE))
               /\ Goes("T", "idle")
  /\ UNCHANGED <<box, permit, my>>

\* A new generation, provided the Gate shows an inhibited zero.
PrepareIsReady ==
  /\ at["T"] = "ready"
  /\ LET fresh == [Reset(pipe) EXCEPT !.collision = FALSE]
     IN
     \/ /\ ~ProvesZero /\ Goes("T", "idle") /\ Keeps
        /\ pipe' = Finished(fresh, "Failed", Result(FALSE, "safety", FALSE))
     \/ ProvesZero /\ ~pipe.cancel /\ Goes("T", "ask") /\ Keeps /\ pipe' = fresh
     \/ /\ ProvesZero /\ pipe.cancel /\ Goes("T", "idle") /\ Keeps
        /\ pipe' = PrepareDone([fresh EXCEPT !.state = "Stopped"],
                               Result(FALSE, "execution", FALSE))
  /\ Still

\* The Gate's PREPARE, under a lease of the transaction plane.
PrepareAsks ==
  /\ at["T"] = "ask"
  /\ LET granted == [gate EXCEPT !.mode = "prepared", !.lease = spent.prepares]
         mine == [my["T"] EXCEPT !.permit = permit, !.home = gate.inst]
     IN
     \/ /\ ProvesZero /\ NoFault /\ gate' = granted
        /\ my' = [my EXCEPT !["T"] = [mine EXCEPT !.lease = spent.prepares]]
     \/ /\ gate' \in IF ProvesZero THEN {gate, granted} ELSE {gate}
        /\ IF ProvesZero THEN Fault ELSE NoFault
        /\ my' = [my EXCEPT !["T"] = mine]
  /\ Goes("T", "bind")
  /\ UNCHANGED <<box, producer, permit, pipe>>

PrepareBinds ==
  /\ at["T"] = "bind"
  /\ LET lease == my["T"].lease
         bound == IF lease = 0 THEN pipe
                  ELSE [pipe EXCEPT !.lease = lease, !.home = my["T"].home,
                                    !.counter = @ + 1, !.gen = pipe.counter + 1]
     IN
     \/ /\ pipe.cancel /\ Goes("T", "idle") /\ my' = [my EXCEPT !["T"] = Blank]
        /\ pipe' = PrepareDone([bound EXCEPT !.state = "Stopped"],
                               Result(FALSE, "execution", FALSE))
     \/ ~pipe.cancel /\ (lease = 0 \/ ~Permitted("T")) /\ PrepareFails(bound)
     \/ /\ ~pipe.cancel /\ lease # 0 /\ Permitted("T") /\ Goes("T", "load")
        /\ pipe' = bound /\ my' = [my EXCEPT !["T"].gen = bound.gen]
  /\ Still

\* load_and_configure_components: done or failed, which a load that was not answered
\* records as a failed cleanup.  A PREPARE that was cancelled ends without an error.
PrepareLoads ==
  /\ at["T"] = "load"
  /\ \/ /\ NoFault /\ box' = Loaded(box)
        /\ pipe' = [pipe EXCEPT !.dirty = TRUE] /\ Goes("T", "seal") /\ Keeps
     \/ /\ Fault
        /\ \E unanswered \in BOOLEAN :
             LET p == [pipe EXCEPT !.dirty = TRUE, !.cleanFailed = unanswered]
             IN  /\ box' = IF unanswered THEN Unanswered(box) ELSE Loaded(box)
                 /\ IF pipe.cancel THEN CancelledFrom(p) ELSE PrepareFails(p)
  /\ UNCHANGED <<gate, producer, permit>>

PrepareSeals ==
  /\ at["T"] = "seal"
  /\ \/ pipe.cancel /\ Cancelled
     \/ /\ ~pipe.cancel
        /\ (~Permitted("T") \/ pipe.gen # my["T"].gen \/ pipe.lease # my["T"].lease)
        /\ PrepareFails(pipe)
     \/ /\ ~pipe.cancel /\ Permitted("T")
        /\ pipe.gen = my["T"].gen /\ pipe.lease = my["T"].lease
        /\ pipe' = PrepareDone([pipe EXCEPT !.state = "Prepared"],
                               Result(TRUE, "none", TRUE))
        /\ Goes("T", "prepared") /\ my' = [my EXCEPT !["T"] = Blank]
  /\ Still

Prepare ==
  \/ PrepareBegins \/ PrepareHandsOver \/ PrepareIsReady \/ PrepareAsks
  \/ PrepareBinds \/ PrepareLoads \/ PrepareSeals

-----------------------------------------------------------------------------
(***************************************************************************)
(* start.                                                                  *)
(***************************************************************************)
Aborts(cause) ==
  Goes("T", "check") /\ my' = [my EXCEPT !["T"].cause = cause, !["T"].kind = "sync"]

\* fail_synchronously, whoever the generation belongs to by now.
FailsAtOnce ==
  Goes("T", "claim") /\ my' = [my EXCEPT !["T"].cause = "safety", !["T"].kind = "sync"]

\* begin_start_operation; otherwise the Adapter learns that it may not start.  A
\* PREPARE too long ago is a failure.
StartBegins ==
  /\ at["T"] = "prepared"
  /\ \/ /\ pipe.state = "Prepared" /\ ~pipe.teardown /\ NoFault
        /\ pipe' = [pipe EXCEPT !.starts = 1] /\ Goes("T", "token")
        /\ my' = [my EXCEPT !["T"].gen = pipe.gen, !["T"].lease = pipe.lease,
                            !["T"].home = pipe.home]
     \/ /\ pipe.state = "Prepared" /\ Fault /\ FailsAtOnce /\ UNCHANGED pipe
     \/ /\ pipe.state # "Prepared" \/ pipe.teardown
        /\ NoFault /\ UNCHANGED <<pipe, my>> /\ Goes("T", "idle")
  /\ UNCHANGED <<gate, box, producer, permit>>

\* The correlation token of the activation, unless the deadline passes before.
StartTakesToken ==
  /\ at["T"] = "token"
  /\ LET current == /\ pipe.gen = my["T"].gen /\ pipe.state = "Prepared"
                    /\ gate.inst = pipe.home
     IN
     \/ /\ current /\ NoFault /\ Goes("T", "open") /\ Keeps
        /\ pipe' = [pipe EXCEPT !.token = my["T"].gen, !.activating = TRUE]
     \/ ~current /\ NoFault /\ Aborts("safety") /\ UNCHANGED pipe
     \/ Fault /\ FailsAtOnce /\ UNCHANGED pipe
  /\ UNCHANGED <<gate, box, producer, permit>>

\* The Gate's OPEN.  It may be on its way when the activation is invalidated; the
\* fence behind it finds out.
StartOpens ==
  /\ at["T"] = "open"
  /\ LET bindable == /\ gate.up /\ gate.inst = my["T"].home
                     /\ gate.mode = "prepared" /\ gate.lease = my["T"].lease
         armed == [gate EXCEPT !.mode = "armed"]
     IN
     \/ /\ bindable /\ NoFault /\ gate' = armed
        /\ Goes("T", "activate") /\ my' = [my EXCEPT !["T"].permit = permit]
     \/ /\ bindable /\ Fault
        /\ gate' \in {gate, armed} /\ Aborts("safety")
     \/ /\ ~(ActivationCurrent(pipe, my["T"].gen) /\ bindable) /\ NoFault
        /\ UNCHANGED gate /\ Aborts("safety")
  /\ UNCHANGED <<box, producer, permit, pipe>>

Renewable(lease) == gate.up /\ gate.mode = "armed" /\ gate.lease = lease
Fenced ==
  /\ Permitted("T") /\ ActivationCurrent(pipe, my["T"].gen)
  /\ gate.inst = my["T"].home /\ Renewable(my["T"].lease)

\* renew_for_activation and the activation of both components.
StartActivates ==
  /\ at["T"] = "activate"
  /\ \/ /\ Fenced /\ NoFault /\ box' = Activated(box)
        /\ Goes("T", "fence") /\ Keeps
     \/ /\ Fenced /\ Fault /\ \E cause \in HealthFailure : Aborts(cause)
        /\ box' \in {box, Activated(box)}
     \/ ~Fenced /\ NoFault /\ UNCHANGED box /\ Aborts("safety")
  /\ UNCHANGED <<gate, producer, permit, pipe>>

\* Under producer_mutex_: health, the fence, one more RENEW, the final snapshot.
StartFences ==
  /\ at["T"] = "fence"
  /\ \/ Fenced /\ NoFault /\ Goes("T", "produce") /\ Keeps
     \/ Fenced /\ Fault /\ \E cause \in HealthFailure : Aborts(cause)
     \/ ~Fenced /\ NoFault /\ Aborts("safety")
  /\ UNCHANGED <<gate, box, producer, permit, pipe>>

StartProduces ==
  /\ at["T"] = "produce"
  /\ \/ Permitted("T") /\ producer' = "on" /\ Goes("T", "commit") /\ Keeps
     \/ ~Permitted("T") /\ UNCHANGED producer /\ Aborts("safety")
  /\ UNCHANGED <<gate, box, permit, pipe, spent>>

\* Running and renewing, or the producer is taken back.
StartCommits ==
  /\ at["T"] = "commit"
  /\ LET current == Permitted("T") /\ ActivationCurrent(pipe, my["T"].gen)
     IN
     \/ /\ current /\ Goes("T", "up") /\ UNCHANGED <<producer, my>>
        /\ pipe' = [pipe EXCEPT !.state = "Running", !.activating = FALSE,
                                !.renew = TRUE, !.starts = 0,
                                !.last = Result(TRUE, "none", FALSE)]
     \/ ~current /\ producer' = "off" /\ Aborts("safety") /\ UNCHANGED pipe
  /\ UNCHANGED <<gate, box, permit, spent>>

\* abort_activation: a generation that somebody else ended is theirs to clean up.  The
\* start waits for a teardown that invalidated the generation and was not seen yet.
StartAborts ==
  /\ at["T"] = "check"
  /\ \/ ActivationCurrent(pipe, my["T"].gen) /\ Goes("T", "claim")
     \/ ~ActivationCurrent(pipe, my["T"].gen) /\ Goes("T", "leave")
     \/ ~ActivationCurrent(pipe, my["T"].gen) /\ pipe.teardown /\ Goes("T", "await")
  /\ Keeps /\ UNCHANGED pipe /\ Still

\* The motion is over: stop, or fail with the token of the Adapter.
MotionEnds ==
  /\ at["T"] = "up" /\ Goes("T", "claim")
  /\ \E cause \in {"none", "execution", "loss"} :
       /\ cause = "loss" => ~gate.up \/ gate.inst # my["T"].home
       /\ my' = [my EXCEPT !["T"].cause = cause, !["T"].expect = my["T"].home,
                           !["T"].kind = IF cause = "none" THEN "stop" ELSE "token"]
  /\ UNCHANGED pipe /\ Still

Start ==
  \/ StartBegins \/ StartTakesToken \/ StartOpens \/ StartActivates \/ StartFences
  \/ StartProduces \/ StartCommits \/ StartAborts \/ MotionEnds

-----------------------------------------------------------------------------
(***************************************************************************)
(* The renew callback, and the emergency thread of the Adapter.            *)
(***************************************************************************)
\* RenewCallbackGuard and the look at the members.
RenewLooks ==
  /\ at["R"] = "idle" /\ pipe.renew
  /\ pipe' = [pipe EXCEPT !.renewing = TRUE]
  /\ my' = [my EXCEPT !["R"] = [Blank EXCEPT !.gen = pipe.token, !.lease = pipe.lease,
                                 !.permit = permit, !.kind = "renew",
                                 !.cause = IF pipe.collision THEN "execution" ELSE "none"]]
  /\ Goes("R", IF pipe.state = "Running" /\ pipe.gen = pipe.token THEN "ask" ELSE "leave")
  /\ Still

\* Its health check and RENEW.  What it does when the RENEW fails depends on what
\* it can tell of the Gate; a replaced one it built the request for shows no loss.
RenewAsks ==
  /\ at["R"] = "ask"
  /\ LET current == Permitted("R") /\ RunningCurrent("R")
         fails(cause, maybe) ==
           /\ Goes("R", "match")
           /\ my' = [my EXCEPT !["R"].cause = cause, !["R"].maybe = maybe,
                       !["R"].expect = IF cause = "loss" \/ maybe THEN pipe.home ELSE 0]
         healthy == current /\ my["R"].cause = "none"
         same == gate.inst = pipe.home
     IN
     \/ ~current /\ NoFault /\ Goes("R", "leave") /\ Keeps
     \/ current /\ my["R"].cause = "execution" /\ NoFault /\ fails("execution", FALSE)
     \/ healthy /\ Fault /\ \E cause \in HealthFailure : fails(cause, FALSE)
     \/ healthy /\ same /\ Renewable(my["R"].lease) /\ NoFault /\ Goes("R", "leave") /\ Keeps
     \/ healthy /\ same /\ Fault /\ fails("safety", TRUE)
     \/ healthy /\ same /\ gate.up /\ gate.mode # "armed" /\ NoFault /\ fails("safety", FALSE)
     \/ healthy /\ (~same \/ ~gate.up) /\ NoFault /\ fails("loss", ~gate.up)
     \/ healthy /\ ~same /\ gate.up /\ NoFault /\ fails("safety", FALSE)
  /\ UNCHANGED <<gate, box, producer, permit, pipe>>

\* fail_from_renew_callback: the token under one lock, the teardown under another.
RenewMatches ==
  /\ at["R"] = "match" /\ Goes("R", IF TokenCurrent("R") THEN "grab" ELSE "leave")
  /\ UNCHANGED <<pipe, my>> /\ Still

\* (a callback that does not ask who owns the teardown)
RenewGrabsAnyway ==
  /\ at["R"] = "grab" /\ pipe' = Claimed(pipe) /\ Goes("R", "zero")
  /\ Keeps /\ Still

\* (a callback that waits for the callbacks, itself among them)
RenewGrabsAndWaits ==
  /\ at["R"] = "grab"
  /\ IF pipe.teardown \/ pipe.record # NoRecord
     THEN UNCHANGED pipe /\ Goes("R", "leave")
     ELSE pipe' = Claimed(pipe) /\ Goes("R", "quiet")
  /\ Keeps /\ Still

RenewGrabs ==
  /\ at["R"] = "grab"
  /\ IF pipe.teardown \/ pipe.record # NoRecord
     THEN UNCHANGED pipe /\ Goes("R", "leave")
     ELSE pipe' = Claimed(pipe) /\ Goes("R", "zero")
  /\ Keeps /\ Still

Renew == RenewLooks \/ RenewAsks \/ RenewMatches \/ RenewGrabs

\* The Adapter cancels a motion that T still prepares or starts.
EmergencyStop ==
  /\ at["E"] = "idle" /\ spent.stops < MaxStops
  /\ at["T"] \in {"handover", "ready", "ask", "bind", "load", "seal", "prepared",
                  "token", "open", "activate", "fence", "produce", "commit", "check"}
  /\ Goes("E", "claim") /\ my' = [my EXCEPT !["E"] = [Blank EXCEPT !.kind = "stop"]]
  /\ spent' = [spent EXCEPT !.stops = @ + 1]
  /\ UNCHANGED <<gate, box, producer, permit, pipe>>

-----------------------------------------------------------------------------
(***************************************************************************)
(* The teardown: stop, fail, and the failures of prepare, start and renew. *)
(* Whoever claims it is the only one that cleans up.                       *)
(***************************************************************************)
First(th) == IF my[th].kind = "stop" THEN "zero" ELSE "quiet"

\* begin_teardown, begin_token_teardown.
Claims(th) ==
  /\ at[th] = "claim"
  /\ my[th].kind = "token" => pipe.continuation # "running"
  /\ \/ /\ pipe.teardown /\ pipe.owner = "prepare" /\ my[th].kind # "token"
        /\ pipe' = [Invalidated(pipe) EXCEPT !.cancel = TRUE]
        /\ Goes(th, "takeover")
     \/ /\ pipe.teardown /\ (pipe.owner # "prepare" \/ my[th].kind = "token")
        /\ UNCHANGED pipe /\ Goes(th, "await")
     \/ /\ ~pipe.teardown
        /\ pipe.record # NoRecord \/ (my[th].kind = "token" /\ ~TokenCurrent(th))
        /\ UNCHANGED pipe /\ Goes(th, "leave")
     \/ /\ ~pipe.teardown /\ pipe.record = NoRecord
        /\ my[th].kind = "token" => TokenCurrent(th)
        /\ pipe' = Claimed(pipe) /\ Goes(th, First(th))
  /\ Keeps /\ Still

\* The emergency zero while a PREPARE is in flight.
TakesOver(th) ==
  /\ at[th] = "takeover" /\ Goes(th, "rejoin")
  /\ \E zero \in BOOLEAN : InhibitGate(zero) /\ pipe' = Proven(pipe, zero)
  /\ Keeps /\ UNCHANGED <<box, producer, permit>>

Awaits(th) ==
  /\ at[th] \in {"await", "rejoin"} /\ ~pipe.teardown
  /\ Goes(th, IF at[th] = "await" THEN "leave" ELSE "claim")
  /\ UNCHANGED <<pipe, my>> /\ Still

\* wait_for_renew_callbacks: before the zero of a failure, after that of a stop.
Quiets(th) ==
  /\ at[th] = "quiet" /\ ~pipe.renewing
  /\ Goes(th, IF my[th].kind = "stop" THEN "drain" ELSE "zero")
  /\ UNCHANGED <<pipe, my>> /\ Still

\* The emergency inhibit; a stop makes do with a proof for the lease it ends.
Zeroes(th) ==
  /\ at[th] = "zero"
  /\ Goes(th, IF my[th].kind = "stop" THEN "quiet" ELSE "drain")
  /\ \E zero \in BOOLEAN :
       /\ IF my[th].kind = "stop" /\ ProofIsFresh(pipe)
          THEN zero /\ UNCHANGED gate /\ NoFault
          ELSE InhibitGate(zero)
       /\ pipe' = Proven(pipe, zero) /\ my' = [my EXCEPT ![th].zero = zero]
  /\ UNCHANGED <<box, producer, permit>>

\* (a teardown that does not wait for start operations)
DrainingNothing(th) == 0

\* wait_for_start_operations leaves out the operation of the waiting thread.
Draining(th) == IF th = "T" THEN 0 ELSE pipe.starts

\* The start operations drain, and the producer stops.
Silences(th) ==
  /\ at[th] = "drain" /\ Draining(th) = 0
  /\ producer' = "off" /\ Goes(th, IF my[th].zero THEN "clean" ELSE "again")
  /\ Keeps /\ UNCHANGED <<gate, box, permit, pipe, spent>>

\* Or stop_barrier passes: a continuation cleans up, if none did before.
BarrierPasses(th) ==
  /\ at[th] = "drain" /\ Draining(th) # 0
  /\ LET handed == [pipe EXCEPT !.blocked = TRUE,
                      !.continuation = IF @ = "never" THEN "running" ELSE @,
                      !.owner = IF pipe.continuation = "never" THEN "continuation" ELSE @]
     IN  pipe' = Finished(handed, "Failed", Result(FALSE, "safety", my[th].zero))
  /\ Goes(th, "leave") /\ Keeps /\ Still

\* The second attempt at zero, behind the calls in flight.
TriesAgain(th) ==
  /\ at[th] = "again" /\ Goes(th, "clean")
  /\ \E zero \in BOOLEAN :
       /\ InhibitGate(zero)
       /\ pipe' = Proven(pipe, zero) /\ my' = [my EXCEPT ![th].zero = zero]
  /\ UNCHANGED <<box, producer, permit>>

\* cleanup_components: nothing to do, all unloaded and confirmed, or a residue.
Components(residue) ==
  \/ ~pipe.dirty /\ ~residue /\ UNCHANGED box /\ NoFault
  \/ pipe.dirty /\ ~residue /\ ~Unresolved(box) /\ NoFault /\ box' = Unloaded(box)
  \/ /\ pipe.dirty /\ residue
     /\ IF Unresolved(box) THEN NoFault ELSE Fault
     /\ box' \in {box, [box EXCEPT !.nodes = "none"]}
CleanedUp(p, residue) ==
  IF residue THEN [p EXCEPT !.blocked = TRUE, !.cleanFailed = TRUE]
             ELSE [p EXCEPT !.dirty = FALSE]

\* gate_identity_lost.
IdentityLost(home) == home # 0 /\ (~gate.up \/ gate.inst # home)

\* The tails of stop_owned and fail_owned.
\* (a stop that forgets a residue in the container)
StopEndsUnclean(p, clean, zero) ==
  IF zero
  THEN Finished(Reset(p), "Stopped", Result(TRUE, "none", TRUE))
  ELSE Finished(p, "Failed", Result(FALSE, "safety", FALSE))

StopEnds(p, clean, zero) ==
  IF zero /\ ~p.dirty
  THEN Finished(Reset(p), "Stopped", Result(TRUE, "none", TRUE))
  ELSE LET lost == ~zero /\ clean /\ IdentityLost(p.home)
       IN  Finished(p, "Failed",
             [Result(FALSE, IF lost THEN "loss" ELSE "safety", zero)
                EXCEPT !.lost = IF lost THEN p.home ELSE 0])

\* (a failure that takes the stopped producer for the zero)
FailureEndsHopeful(p, clean, i) ==
  Finished(p, "Failed", Result(FALSE, IF clean THEN i.cause ELSE "safety", TRUE))

FailureEnds(p, clean, i) ==
  LET unproven == clean /\ ~i.zero
      lost == unproven /\ i.cause = "loss" /\ IdentityLost(i.expect)
      maybe == unproven /\ ~lost /\ i.maybe
      failure == IF lost THEN "loss"
                 ELSE IF ~clean \/ ~i.zero \/ i.cause = "loss" THEN "safety"
                 ELSE i.cause
  IN  Finished(p, "Failed",
        [Result(FALSE, failure, i.zero) EXCEPT !.lost = IF lost THEN i.expect ELSE 0,
                                               !.maybe = IF maybe THEN i.expect ELSE 0])

Cleans(th) ==
  /\ at[th] = "clean" /\ Goes(th, "leave") /\ Keeps
  /\ \E residue \in BOOLEAN :
       LET p == CleanedUp(pipe, residue)
           clean == ~p.cleanFailed
       IN  /\ Components(residue)
           /\ pipe' = IF my[th].kind = "stop" THEN StopEnds(p, clean, my[th].zero)
                                              ELSE FailureEnds(p, clean, my[th])
  /\ UNCHANGED <<gate, producer, permit>>

\* The call returns; with it the start operation or the renew callback.
Leaves(th) ==
  /\ at[th] = "leave" /\ Goes(th, "idle") /\ my' = [my EXCEPT ![th] = Blank]
  /\ pipe' = [pipe EXCEPT !.starts = IF th = "T" THEN 0 ELSE @,
                          !.renewing = IF th = "R" THEN FALSE ELSE @]
  /\ Still

Teardown(th) ==
  \/ Claims(th) \/ TakesOver(th) \/ Awaits(th) \/ Quiets(th) \/ Zeroes(th)
  \/ Silences(th) \/ BarrierPasses(th) \/ TriesAgain(th) \/ Cleans(th) \/ Leaves(th)

\* run_cleanup_continuation.
ContinuationSilences ==
  /\ at["K"] = "idle" /\ pipe.continuation = "running" /\ pipe.starts = 0
  /\ producer' = "off" /\ Goes("K", "clean")
  /\ UNCHANGED <<gate, box, permit, pipe, my, spent>>

ContinuationCleans ==
  /\ at["K"] = "clean" /\ Goes("K", "idle") /\ Keeps
  /\ \E residue \in BOOLEAN :
       LET p == CleanedUp(pipe, residue)
       IN  /\ Components(residue)
           /\ pipe' = [IF p.dirty THEN p ELSE [Reset(p) EXCEPT !.blocked = FALSE]
                         EXCEPT !.continuation = "done",
                                !.owner = IF @ = "continuation" THEN "none" ELSE @]
  /\ UNCHANGED <<gate, producer, permit>>

\* rearm_after_gate_replacement: another Gate process lets a lost one be forgotten.
Rearm ==
  /\ at["T"] = "idle" /\ at["E"] = "idle"
  /\ pipe.state = "Failed" /\ ~pipe.teardown /\ pipe.continuation # "running"
  /\ LET failed == IF pipe.last.failure = "loss" THEN pipe.last.lost ELSE pipe.last.maybe
     IN  failed # 0 /\ failed # gate.inst
  /\ ~pipe.dirty /\ ~pipe.blocked /\ ~pipe.cleanFailed /\ ~pipe.activating
  /\ ProvesZero /\ gate' = Shut(gate)
  /\ pipe' = [Reset(pipe) EXCEPT !.state = "Stopped", !.collision = FALSE,
                                 !.record = NoRecord, !.owner = "none",
                                 !.last = Result(TRUE, "none", TRUE)]
  /\ UNCHANGED <<box, producer, permit, at, my, spent>>

-----------------------------------------------------------------------------
\* Nothing is left to do: the last motion is over.
Rest ==
  /\ at["T"] \in {"idle", "broken"} /\ \A th \in Thread \ {"T"} : at[th] = "idle"
  /\ pipe.continuation # "running" /\ ~pipe.teardown /\ UNCHANGED vars

AdapterSteps == Startup \/ Prepare \/ Start \/ Teardown("T")
EmergencySteps == Teardown("E")
RenewSteps == RenewAsks \/ RenewMatches \/ RenewGrabs \/ Teardown("R")
ContinuationSteps == ContinuationSilences \/ ContinuationCleans

Next ==
  \/ AdapterSteps \/ Renew \/ EmergencyStop \/ Rearm \/ ContinuationSteps \/ World
  \/ Rest \/ \E th \in {"E", "R"} : Teardown(th)

Spec == Init /\ [][Next]_vars

\* Every call of another process has a deadline, so that each thread goes on.
FairSpec ==
  /\ Spec
  /\ WF_vars(AdapterSteps) /\ WF_vars(EmergencySteps)
  /\ WF_vars(RenewSteps) /\ WF_vars(ContinuationSteps)

-----------------------------------------------------------------------------
(***************************************************************************)
(* Properties.                                                             *)
(***************************************************************************)
Results == [ok : BOOLEAN, failure : Failure, zero : BOOLEAN,
            lost : 0..MaxGates, maybe : 0..MaxGates]
Generation == 0..(2 * MaxPrepares + 4 * MaxPrepares + 2 * MaxStops)

\* Every variable has its type: the states, owners and results of the pipeline's
\* enumerations, and bounded generations, leases and Gate processes.
TypeOK ==
  /\ gate \in [inst : 1..MaxGates, up : BOOLEAN, lease : 0..MaxPrepares,
               mode : {"idle", "prepared", "armed"}]
  /\ box \in [nodes : {"none", "loaded", "active"}, late : BOOLEAN]
  /\ producer \in {"on", "off"} /\ permit \in 1..(MaxFaults + 1)
  /\ pipe.state \in {"Stopped", "Prepared", "Running", "Failed"}
  /\ {pipe.gen, pipe.counter, pipe.token} \subseteq Generation
  /\ pipe.lease \in 0..MaxPrepares /\ pipe.home \in 0..MaxGates
  /\ pipe.proof \in {Nowhere} \cup 0..MaxPrepares /\ pipe.starts \in 0..1
  /\ pipe.owner \in {"none", "prepare", "cleanup", "continuation"}
  /\ pipe.continuation \in {"never", "running", "done"}
  /\ {pipe.record, pipe.last} \subseteq Results

\* A generation that was stopped without an error (stop, rearm, startup) left
\* nothing that moves or that the next one would find: no producer, no armed Gate,
\* no component in the container and none still on its way.
StoppedIsStill ==
  pipe.state = "Stopped" /\ pipe.last.ok /\ ~pipe.teardown =>
    \/ at["T"] \in {"boot", "sweep", "confirm", "rezero", "giveUp"}
    \/ /\ producer = "off" /\ gate.mode # "armed"
       /\ box = [nodes |-> "none", late |-> FALSE]

\* A result that claims proven zero is true of the Gate for as long as no other
\* generation is prepared, whichever generation, lease or process it was proven at.
ZeroIsTrue ==
  pipe.state \in {"Stopped", "Failed"} /\ pipe.last.zero /\ ~pipe.teardown =>
    gate.mode # "armed"

\* Producer stop and component cleanup belong to one thread at a time, and to the
\* teardown that is open: nobody cleans up behind one that another thread finished,
\* except the continuation it was handed to.
Cleaning(th) == at[th] \in {"drain", "again", "clean", "handover"}
OneCleaner ==
  /\ \A a, b \in Thread : Cleaning(a) /\ Cleaning(b) => a = b
  /\ \A th \in Thread \ {"K"} : Cleaning(th) => pipe.teardown
  /\ at["K"] = "clean" => pipe.continuation = "running"

\* The Gate is asked for a lease only when the generations before left nothing
\* behind, also after failures, cancelled starts and a replaced Gate.
FreshGeneration ==
  at["T"] \in {"ask", "bind"} =>
    producer = "off" /\ box = [nodes |-> "none", late |-> FALSE] /\ pipe.starts = 0

\* Every teardown ends: nobody waits for ever for a start operation, a renew
\* callback, the continuation or another teardown.
TeardownEnds == pipe.teardown ~> ~pipe.teardown

\* The comment above stop_owned's barrier: it passes only "if a start operation is
\* still inside an uncancellable external call".  A start that waits for this very
\* teardown is inside none, and the two wait for each other until it does.
BarrierIsForCalls ==
  [][pipe.continuation = "never" /\ pipe.continuation' = "running"
       => at["T"] # "await"]_vars

=============================================================================
