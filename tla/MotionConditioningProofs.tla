---------------------- MODULE MotionConditioningProofs ----------------------
(***************************************************************************)
(* The safety properties of MotionConditioning, for any number of motions, *)
(* cancels, faults and Gate processes.                                     *)
(*                                                                         *)
(* The invariant IInv says who works under the teardown (Owned), what a    *)
(* teardown that was handed to the continuation leaves behind (HandedOn),  *)
(* which generation a start may still act for (Starting), what the         *)
(* pipeline and a teardown know of the Gate (GateInv, ZeroInv), when the   *)
(* container and the producer can hold something (Remains), and that       *)
(* nothing happens before startup has ended (Begun).                       *)
(*                                                                         *)
(* One lemma per action: its first step says what the action does to the   *)
(* members the invariant looks at, the others are the parts of IInv.       *)
(***************************************************************************)
EXTENDS MotionConditioning, TLAPS

\* Where a thread works under the teardown, and the places of T by phase.
TearPlace == {"quiet", "zero", "drain", "again", "clean"}
PreparePlace == {"handover", "ready", "ask", "bind", "load", "seal"}
StartPlace == {"token", "open", "activate", "fence", "produce", "commit"}
StartupPlace == {"boot", "sweep", "confirm", "rezero", "giveUp"}
WaitPlace == {"claim", "takeover", "rejoin", "await", "leave"}
Place ==
  TearPlace \cup PreparePlace \cup StartPlace \cup StartupPlace \cup WaitPlace
    \cup {"idle", "broken", "prepared", "check", "up", "match", "grab"}

\* The types, without the bounds of the runs.
Outcome ==
  [ok : BOOLEAN, failure : Failure, zero : BOOLEAN, lost : Nat, maybe : Nat]
GateProcess ==
  [inst : Nat, up : BOOLEAN, lease : Nat, mode : {"idle", "prepared", "armed"}]
Container == [nodes : {"none", "loaded", "active"}, late : BOOLEAN]
Pipeline ==
  [state : {"Stopped", "Prepared", "Running", "Failed"}, gen : Nat, counter : Nat,
   lease : Nat, home : Nat, token : Nat, activating : BOOLEAN, cancel : BOOLEAN,
   owner : {"none", "prepare", "cleanup", "continuation"}, teardown : BOOLEAN,
   record : Outcome, last : Outcome, proof : Int, starts : {0, 1},
   continuation : {"never", "running", "done"}, blocked : BOOLEAN,
   cleanFailed : BOOLEAN, dirty : BOOLEAN, renew : BOOLEAN, renewing : BOOLEAN,
   collision : BOOLEAN]
Locals ==
  [gen : Nat, lease : Nat, home : Nat, permit : Nat,
   kind : {"none", "prepare", "sync", "stop", "token", "renew"}, cause : Failure, zero : BOOLEAN, expect : Nat, maybe : BOOLEAN, seen : Nat]

Types ==
  /\ gate \in GateProcess /\ box \in Container /\ producer \in {"on", "off"}
  /\ permit \in Nat /\ pipe \in Pipeline
  /\ at \in [Thread -> Place] /\ my \in [Thread -> Locals]
  /\ spent \in [prepares : Nat, stops : Nat, faults : Nat]

\* K takes no part in a teardown; the others have the duty of one, or of a PREPARE.
Caller == {"T", "E", "R"}
Duty(th) == at[th] \in TearPlace \/ (th = "T" /\ at["T"] \in PreparePlace)

Places ==
  /\ at["T"] \in StartupPlace \cup PreparePlace \cup StartPlace \cup WaitPlace
                   \cup TearPlace \cup {"idle", "broken", "prepared", "check", "up"}
  /\ at["E"] \in {"idle"} \cup WaitPlace \cup TearPlace
  /\ at["R"] \in {"idle", "ask", "match", "grab"} \cup WaitPlace \cup TearPlace
  /\ at["K"] \in {"idle", "clean"}

\* The open teardown has one owner, and no result yet.
Owned ==
  /\ \A a \in Caller : Duty(a) => pipe.teardown
  /\ \A a, b \in Caller : Duty(a) /\ Duty(b) => a = b
  /\ pipe.teardown => pipe.record = NoRecord

\* What was handed to the continuation has failed, with a result that forbids both
\* another PREPARE and a rearm.
HandedOn ==
  /\ at["K"] = "clean" => pipe.continuation = "running"
  /\ pipe.continuation # "never" =>
       /\ ~pipe.teardown /\ pipe.state = "Failed"
       /\ ~pipe.record.ok /\ pipe.record.failure = "safety"
       /\ pipe.last.failure = "safety" /\ pipe.last.maybe = 0

\* A start that still holds the current generation works on a prepared pipeline
\* nobody tears down; every way to end that generation fences it.
Starting ==
  /\ pipe.gen = pipe.counter
  /\ pipe.starts = 1 => at["T"] \in StartPlace \cup WaitPlace \cup TearPlace \cup {"check"}
  /\ at["T"] \in StartPlace =>
       /\ pipe.starts = 1 /\ pipe.dirty /\ my["T"].gen <= pipe.gen
       /\ my["T"].gen = pipe.gen =>
            pipe.state = "Prepared" /\ ~pipe.teardown /\ my["T"].lease = pipe.lease

\* Whether the Gate holds the lease that a start on its way to OPEN has.
Openable ==
  at["T"] \in {"token", "open"} /\ gate.mode # "idle" /\ gate.lease = my["T"].lease
ShutForGood == gate.mode # "armed" /\ ~Openable

\* What a result with a proven zero leaves is not armed, and no start is on its way
\* to open it.
ZeroIsShut ==
  pipe.state \in {"Stopped", "Failed"} /\ pipe.last.zero /\ ~pipe.teardown => ShutForGood

\* Only a PREPARE, which owns the teardown, lets the Gate have a new lease, and only
\* the lease the pipeline holds is ever armed; a fresh proof of zero is about it.
GateInv ==
  /\ gate.mode # "idle" => gate.lease # 0
  /\ gate.mode = "armed" => pipe.lease = gate.lease \/ pipe.continuation # "never"
  /\ at["T"] \in {"ask", "bind"} => pipe.lease = 0
  /\ at["T"] \in {"ready", "ask", "bind"} => gate.mode # "armed"
  /\ at["T"] \in PreparePlace => spent.prepares > 0
  /\ pipe.lease = 0 => pipe.proof \in {Nowhere, 0}
  /\ pipe.lease # 0 /\ pipe.proof = pipe.lease => gate.mode = "idle"
  /\ Openable => pipe.lease = my["T"].lease \/ pipe.continuation # "never"
  /\ ZeroIsShut

\* A zero noted by a teardown holds until it ends.
ZeroInv ==
  \A th \in Caller :
    /\ at[th] \in TearPlace /\ my[th].zero => ShutForGood
    /\ at[th] \notin TearPlace \cup {"leave"} => ~my[th].zero

\* Without dirty_components_ the container is empty for good, a producer implies it,
\* and whoever cleans has found the start operations drained.
Remains ==
  /\ at["T"] \notin StartupPlace \cup {"broken"} /\ ~pipe.dirty =>
       box = [nodes |-> "none", late |-> FALSE]
  /\ pipe.state \in {"Prepared", "Running"} \/ at["T"] = "seal" => pipe.dirty
  /\ at["T"] \in {"ready", "ask", "bind"} => ~pipe.dirty
  /\ producer = "on" => pipe.dirty
  /\ \A th \in {"E", "R", "K"} : at[th] \in {"again", "clean"} => pipe.starts = 0
  /\ \A th \in Thread : at[th] \in {"again", "clean"} => producer = "off"
  /\ pipe.state = "Stopped" /\ pipe.last.ok /\ ~pipe.teardown => ~pipe.dirty /\ pipe.last.zero

\* During startup, and after one that failed, nothing else runs.
Begun ==
  /\ at["T"] \in StartupPlace \cup {"broken"} =>
       /\ at["E"] = "idle" /\ at["R"] = "idle" /\ at["K"] = "idle"
       /\ ~pipe.teardown /\ ~pipe.renew /\ ~pipe.dirty /\ pipe.starts = 0
       /\ pipe.continuation = "never" /\ ~pipe.last.ok /\ producer = "off"
       /\ pipe.lease = 0
  /\ at["T"] \in StartupPlace => ~box.late /\ pipe.state = "Stopped"
  /\ at["T"] = "broken" => pipe.state = "Failed"
  /\ at["T"] = "rezero" => box.nodes = "none"

Parts == Places /\ Owned /\ HandedOn /\ Starting /\ GateInv /\ ZeroInv /\ Remains /\ Begun
IInv == Types /\ Parts

USE DEF TearPlace, PreparePlace, StartPlace, StartupPlace, WaitPlace, Place,
        Caller, Thread, Openable, ShutForGood

LEMMA Known ==
  ASSUME IInv
  PROVE  /\ Types /\ Places /\ Owned /\ HandedOn /\ Starting
         /\ GateInv /\ ZeroInv /\ Remains /\ Begun
BY DEF IInv, Parts

LEMMA Kept ==
  ASSUME (/\ Types /\ Places /\ Owned /\ HandedOn /\ Starting
          /\ GateInv /\ ZeroInv /\ Remains /\ Begun)'
  PROVE  IInv'
BY DEF IInv, Parts

-----------------------------------------------------------------------------
\* What the invariant sees of the pipeline, but for its proof of zero.
Looks(p, q) ==
  /\ q \in Pipeline
  /\ q.state = p.state /\ q.gen = p.gen /\ q.counter = p.counter /\ q.lease = p.lease
  /\ q.teardown = p.teardown /\ q.record = p.record /\ q.last = p.last
  /\ q.starts = p.starts /\ q.continuation = p.continuation /\ q.dirty = p.dirty

LooksButLast(p, q) ==
  /\ q.state = p.state /\ q.gen = p.gen /\ q.counter = p.counter /\ q.lease = p.lease
  /\ q.teardown = p.teardown /\ q.record = p.record
  /\ q.starts = p.starts /\ q.continuation = p.continuation /\ q.dirty = p.dirty

LEMMA BlankIs ==
  Blank \in Locals /\ ~Blank.zero
BY DEF Blank, Locals, Failure

LEMMA LooksSelf == ASSUME NEW p \in Pipeline PROVE Looks(p, p)
BY DEF Looks

LEMMA ProvenIs ==
  ASSUME NEW p \in Pipeline, NEW zero \in BOOLEAN
  PROVE  /\ Looks(p, Proven(p, zero)) /\ Proven(p, zero).renew = p.renew
         /\ Proven(p, zero).proof = IF zero THEN p.lease ELSE p.proof
<1>1. CASE zero
  BY <1>1 DEF Proven, Looks, Pipeline
<1>2. CASE ~zero
  BY <1>2 DEF Proven, Looks
<1> QED
  BY <1>1, <1>2

LEMMA InvalidatedIs ==
  ASSUME NEW p \in Pipeline
  PROVE  LET q == Invalidated(p) IN
         /\ q \in Pipeline
         /\ q.gen = p.counter + 1 /\ q.counter = p.counter + 1
         /\ q.state = p.state /\ q.lease = p.lease /\ q.teardown = p.teardown
         /\ q.record = p.record /\ q.last = p.last /\ q.proof = p.proof
         /\ q.starts = p.starts /\ q.continuation = p.continuation
         /\ q.dirty = p.dirty /\ q.renew = p.renew
<1> DEFINE n == p.counter + 1
<1>1. Invalidated(p) = [p EXCEPT !.counter = n, !.gen = n, !.token = 0, !.activating = FALSE]
  BY DEF Invalidated
<1>2. n \in Nat
  BY DEF Pipeline
<1>3. n = p.counter + 1
  OBVIOUS
<1> HIDE DEF n
<1>4. LET q == [p EXCEPT !.counter = n, !.gen = n, !.token = 0, !.activating = FALSE] IN
      /\ q \in Pipeline
      /\ q.gen = n /\ q.counter = n
      /\ q.state = p.state /\ q.lease = p.lease /\ q.teardown = p.teardown
      /\ q.record = p.record /\ q.last = p.last /\ q.proof = p.proof
      /\ q.starts = p.starts /\ q.continuation = p.continuation
      /\ q.dirty = p.dirty /\ q.renew = p.renew
  BY <1>2 DEF Pipeline
<1> QED
  BY <1>1, <1>3, <1>4

LEMMA ClaimedIs ==
  ASSUME NEW p \in Pipeline
  PROVE  LET q == Claimed(p) IN
         /\ q \in Pipeline
         /\ q.gen = p.counter + 1 /\ q.counter = p.counter + 1
         /\ q.state = p.state /\ q.lease = p.lease /\ q.teardown
         /\ q.record = p.record /\ q.last = p.last /\ q.proof = p.proof
         /\ q.starts = p.starts /\ q.continuation = p.continuation
         /\ q.dirty = p.dirty /\ ~q.renew
<1> DEFINE i == Invalidated(p)
<1>1. Claimed(p) = [i EXCEPT !.owner = "cleanup", !.teardown = TRUE, !.renew = FALSE]
  BY DEF Claimed
<1>2. i \in Pipeline
  BY InvalidatedIs
<1> HIDE DEF i
<1>3. LET q == [i EXCEPT !.owner = "cleanup", !.teardown = TRUE, !.renew = FALSE] IN
         /\ q \in Pipeline
         /\ q.gen = i.gen /\ q.counter = i.counter
         /\ q.state = i.state /\ q.lease = i.lease /\ q.teardown
         /\ q.record = i.record /\ q.last = i.last /\ q.proof = i.proof
         /\ q.starts = i.starts /\ q.continuation = i.continuation
         /\ q.dirty = i.dirty /\ ~q.renew
  BY <1>2 DEF Pipeline
<1> QED
  BY <1>1, <1>3, InvalidatedIs DEF i

LEMMA ResetIs ==
  ASSUME NEW p \in Pipeline
  PROVE  LET q == Reset(p) IN
         /\ q \in Pipeline
         /\ q.lease = 0 /\ q.dirty = FALSE /\ q.proof = Nowhere
         /\ q.gen = p.gen /\ q.counter = p.counter
         /\ q.state = p.state /\ q.teardown = p.teardown
         /\ q.record = p.record /\ q.last = p.last
         /\ q.starts = p.starts /\ q.continuation = p.continuation
         /\ q.renew = p.renew
<1>1. Nowhere \in Int
  BY DEF Nowhere
<1> QED
  BY <1>1 DEF Reset, Pipeline

LEMMA FinishedIs ==
  ASSUME NEW p \in Pipeline, NEW state \in {"Stopped", "Failed"}, NEW r \in Outcome
  PROVE  LET q == Finished(p, state, r) IN
         /\ q \in Pipeline
         /\ q.state = state /\ q.last = r /\ ~q.teardown
         /\ q.record = IF p.record = NoRecord THEN r ELSE p.record
         /\ q.gen = p.gen /\ q.counter = p.counter /\ q.lease = p.lease
         /\ q.dirty = p.dirty /\ q.proof = p.proof
         /\ q.starts = p.starts /\ q.continuation = p.continuation
         /\ q.renew = p.renew
<1> DEFINE rec == IF p.record = NoRecord THEN r ELSE p.record
           own == IF p.continuation = "running" THEN p.owner ELSE "none"
<1>1. Finished(p, state, r) = [p EXCEPT !.state = state, !.last = r, !.record = rec,
                                        !.owner = own, !.teardown = FALSE]
  BY DEF Finished
<1>2. rec \in Outcome /\ own \in {"none", "prepare", "cleanup", "continuation"}
  BY DEF Pipeline
<1>3. rec = IF p.record = NoRecord THEN r ELSE p.record
  OBVIOUS
<1> HIDE DEF rec, own
<1> QED
  BY <1>1, <1>2, <1>3 DEF Pipeline

LEMMA ResultIs ==
  ASSUME NEW ok \in BOOLEAN, NEW failure \in Failure, NEW zero \in BOOLEAN
  PROVE  LET r == Result(ok, failure, zero) IN
         /\ r \in Outcome /\ r.ok = ok /\ r.failure = failure /\ r.zero = zero
         /\ r.lost = 0 /\ r.maybe = 0
BY DEF Result, Outcome

LEMMA PrepareDoneIs ==
  ASSUME NEW p \in Pipeline, NEW r \in Outcome
  PROVE  LET q == PrepareDone(p, r) IN
         /\ q \in Pipeline
         /\ q.last = r /\ ~q.teardown
         /\ q.state = p.state /\ q.record = p.record
         /\ q.gen = p.gen /\ q.counter = p.counter /\ q.lease = p.lease
         /\ q.dirty = p.dirty /\ q.proof = p.proof
         /\ q.starts = p.starts /\ q.continuation = p.continuation
         /\ q.renew = p.renew
BY DEF PrepareDone, Pipeline

-----------------------------------------------------------------------------
\* The facts of a step: the thread that moved, the budget, the Gate.
Went(th, pc) ==
  /\ at' \in [Thread -> Place] /\ at'[th] = pc
  /\ \A u \in Thread : u # th => at'[u] = at[u]

LEMMA GoesWent ==
  ASSUME Types, NEW th \in Thread, NEW pc \in Place, Goes(th, pc)
  PROVE  Went(th, pc)
BY DEF Types, Goes, Went

Budget ==
  /\ spent' \in [prepares : Nat, stops : Nat, faults : Nat]
  /\ spent'.prepares = spent.prepares

LEMMA FaultBudget == ASSUME Types, Fault \/ NoFault PROVE Budget
BY DEF Types, Fault, NoFault, Budget

\* A lease that ends, or nothing.
Softer ==
  /\ gate' \in GateProcess
  /\ gate'.mode = "idle" \/ (gate'.mode = gate.mode /\ gate'.lease = gate.lease)

LEMMA ShutIs ==
  ASSUME NEW g \in GateProcess PROVE Shut(g) \in GateProcess /\ Shut(g).mode = "idle"
BY DEF Shut, GateProcess

LEMMA TellIs ==
  ASSUME Types, NEW reached, NEW zero \in BOOLEAN, Tell(reached, zero)
  PROVE  Softer /\ Budget /\ (zero => gate'.mode = "idle")
<1>1. gate \in GateProcess
  BY DEF Types
<1>2. Budget
  BY FaultBudget DEF Tell
<1>3. gate' \in {gate, Shut(gate)} /\ (zero => gate' = Shut(gate))
  BY DEF Tell
<1> QED
  BY <1>1, <1>2, <1>3, ShutIs DEF Softer

LEMMA InhibitIs ==
  ASSUME Types, NEW zero \in BOOLEAN, InhibitGate(zero)
  PROVE  Softer /\ Budget /\ (zero => gate'.mode = "idle")
<1>1. CASE pipe.lease = 0
  BY <1>1, FaultBudget DEF InhibitGate, Softer, ProvesZero, Types
<1>2. CASE pipe.lease # 0
  BY <1>2, TellIs DEF InhibitGate
<1> QED
  BY <1>1, <1>2

-----------------------------------------------------------------------------
\* What happens by itself leaves the threads alone and never arms the Gate.
LEMMA WorldFacts ==
  ASSUME IInv, World
  PROVE  /\ UNCHANGED <<producer, at, my>> /\ Looks(pipe, pipe')
         /\ pipe'.proof = pipe.proof /\ pipe'.renew = pipe.renew
         /\ Softer /\ Budget /\ permit' \in Nat
         /\ box' \in Container /\ (box' = box \/ box.late)
<1>1. Types
  BY Known
<1>2. gate \in GateProcess /\ box \in Container /\ permit \in Nat /\ pipe \in Pipeline
  BY <1>1 DEF Types
<1>3. Looks(pipe, pipe) /\ permit + 1 \in Nat
  BY <1>2, LooksSelf
<1>4. CASE LeaseEnds
  BY <1>1, <1>2, <1>3, <1>4, FaultBudget, ShutIs DEF LeaseEnds, Softer
<1>5. CASE GateDies
  <2> DEFINE g == Shut(gate)
  <2>1. g \in GateProcess /\ g.mode = "idle"
    BY <1>2, ShutIs
  <2>2. gate' = [g EXCEPT !.up = FALSE]
    BY <1>5 DEF GateDies
  <2> HIDE DEF g
  <2>3. gate' \in GateProcess /\ gate'.mode = "idle"
    BY <2>1, <2>2 DEF GateProcess
  <2> QED
    BY <1>1, <1>2, <1>3, <1>5, <2>3, FaultBudget DEF GateDies, Softer
<1>6. CASE GateStarts
  <2> DEFINE n == gate.inst + 1
  <2>1. n \in Nat
    BY <1>2 DEF GateProcess
  <2>2. gate' = [gate EXCEPT !.up = TRUE, !.inst = n]
    BY <1>6 DEF GateStarts
  <2> HIDE DEF n
  <2>3. gate' \in GateProcess /\ gate'.mode = gate.mode /\ gate'.lease = gate.lease
    BY <1>2, <2>1, <2>2 DEF GateProcess
  <2> QED
    BY <1>1, <1>2, <1>3, <1>6, <2>3, FaultBudget DEF GateStarts, NoFault, Softer
<1>7. CASE Revoke
  BY <1>1, <1>2, <1>3, <1>7, FaultBudget DEF Revoke, Softer
<1>8. CASE CollisionStop
  <2>1. Looks(pipe, pipe') /\ pipe'.proof = pipe.proof /\ pipe'.renew = pipe.renew
    BY <1>2, <1>8 DEF CollisionStop, Looks, Pipeline
  <2> QED
    BY <1>1, <1>2, <1>3, <1>8, <2>1, FaultBudget DEF CollisionStop, Softer
<1>9. CASE LateLoad
  <2>1. box' \in Container /\ box.late
    BY <1>2, <1>9 DEF LateLoad, Loaded, Unresolved, Container
  <2> QED
    BY <1>1, <1>2, <1>3, <1>9, <2>1, FaultBudget DEF LateLoad, NoFault, Softer
<1> QED
  BY <1>4, <1>5, <1>6, <1>7, <1>8, <1>9 DEF World

LEMMA WorldKeeps == ASSUME IInv, World PROVE IInv'
<1>1. /\ UNCHANGED <<producer, at, my>> /\ Looks(pipe, pipe')
      /\ pipe'.proof = pipe.proof /\ pipe'.renew = pipe.renew
      /\ Softer /\ Budget /\ permit' \in Nat
      /\ box' \in Container /\ (box' = box \/ box.late)
  BY WorldFacts
<1>2. Types'
  BY <1>1, Known DEF Types, Looks, Softer, Budget
<1>3. Places'
  BY <1>1, Known DEF Places
<1>4. Owned'
  BY <1>1, Known DEF Owned, Duty, Looks
<1>5. HandedOn'
  BY <1>1, Known DEF HandedOn, Looks
<1>6. Starting'
  BY <1>1, Known DEF Starting, Looks
<1>7. GateInv'
  BY <1>1, Known DEF GateInv, ZeroIsShut, Looks, Softer, Budget
<1>8. ZeroInv'
  BY <1>1, Known DEF ZeroInv, Softer
<1>9. Remains'
  BY <1>1, Known DEF Remains, Looks
<1>10. Begun'
  BY <1>1, Known DEF Begun, Looks
<1> QED
  BY <1>2, <1>3, <1>4, <1>5, <1>6, <1>7, <1>8, <1>9, <1>10, Kept

\* Whoever has a duty owns the teardown, alone, and nobody has ended the generation.
LEMMA DutyIs ==
  ASSUME IInv, NEW th \in Caller, Duty(th)
  PROVE  /\ pipe.teardown /\ pipe.continuation = "never" /\ pipe.record = NoRecord
         /\ at["K"] # "clean"
         /\ \A u \in Caller : u # th => ~Duty(u)
BY Known DEF Owned, HandedOn

\* A generation whose cleanup was handed on is never followed by another one.
LEMMA NeverHandedOn ==
  ASSUME IInv, pipe.record = NoRecord \/ pipe.record.ok \/ Reusable(pipe)
  PROVE  pipe.continuation = "never"
BY Known DEF HandedOn, Reusable, NoRecord, Result

LEMMA StartupZeroKeeps ==
  ASSUME IInv, StartupZero
  PROVE  IInv'
<1>1. /\ at["T"] = "boot" /\ UNCHANGED <<box, producer, permit, pipe, my>>
      /\ Softer /\ Budget
      /\ \E pc \in {"sweep", "giveUp"} : Went("T", pc)
  <2>1. PICK zero \in BOOLEAN : Tell(gate.up, zero) /\ Goes("T", IF zero THEN "sweep" ELSE "giveUp")
    BY DEF StartupZero
  <2> QED
    BY <2>1, Known, TellIs, GoesWent DEF StartupZero
<1>2. Types'
  BY <1>1, Known DEF Types, Looks, LooksButLast, Softer, Budget, Went
<1>3. Places'
  BY <1>1, Known DEF Places, Went
<1>4. Owned'
  BY <1>1, Known DEF Owned, Duty, Went, Looks, LooksButLast
<1>5. HandedOn'
  BY <1>1, Known DEF HandedOn, Went, Looks, LooksButLast
<1>6. Starting'
  BY <1>1, Known DEF Starting, Went, Looks, LooksButLast
<1>7. GateInv'
  BY <1>1, Known DEF GateInv, ZeroIsShut, Went, Looks, LooksButLast, Softer, Budget
<1>8. ZeroInv'
  BY <1>1, Known DEF ZeroInv, Went, Softer
<1>9. Remains'
  BY <1>1, Known DEF Remains, Went, Looks, LooksButLast
<1>10. Begun'
  BY <1>1, Known DEF Begun, Went, Looks, LooksButLast
<1> QED
  BY <1>2, <1>3, <1>4, <1>5, <1>6, <1>7, <1>8, <1>9, <1>10, Kept

LEMMA StartupSweepKeeps ==
  ASSUME IInv, StartupSweep
  PROVE  IInv'
<1>1. /\ at["T"] = "sweep" /\ UNCHANGED <<gate, producer, permit, pipe>>
      /\ box' \in Container /\ box'.late = box.late /\ Budget
      /\ my' \in [Thread -> Locals] /\ \A u \in Thread : my'[u].zero = my[u].zero
      /\ \E pc \in {"confirm", "giveUp"} : Went("T", pc)
  <2>1. Types
    BY Known
  <2>2. my' \in [Thread -> Locals] /\ \A u \in Thread : my'[u].zero = my[u].zero
    BY <2>1 DEF StartupSweep, Types, Locals
  <2>3. box' \in Container /\ box'.late = box.late
    BY <2>1 DEF StartupSweep, Types, Container
  <2> QED
    BY <2>1, <2>2, <2>3, FaultBudget, GoesWent DEF StartupSweep
<1>2. Types'
  BY <1>1, Known DEF Types, Looks, LooksButLast, Softer, Budget, Went
<1>3. Places'
  BY <1>1, Known DEF Places, Went
<1>4. Owned'
  BY <1>1, Known DEF Owned, Duty, Went, Looks, LooksButLast
<1>5. HandedOn'
  BY <1>1, Known DEF HandedOn, Went, Looks, LooksButLast
<1>6. Starting'
  BY <1>1, Known DEF Starting, Went, Looks, LooksButLast
<1>7. GateInv'
  BY <1>1, Known DEF GateInv, ZeroIsShut, Went, Looks, LooksButLast, Softer, Budget
<1>8. ZeroInv'
  BY <1>1, Known DEF ZeroInv, Went, Softer
<1>9. Remains'
  BY <1>1, Known DEF Remains, Went, Looks, LooksButLast
<1>10. Begun'
  BY <1>1, Known DEF Begun, Went, Looks, LooksButLast
<1> QED
  BY <1>2, <1>3, <1>4, <1>5, <1>6, <1>7, <1>8, <1>9, <1>10, Kept

LEMMA StartupConfirmKeeps ==
  ASSUME IInv, StartupConfirm
  PROVE  IInv'
<1>1. /\ at["T"] = "confirm" /\ UNCHANGED <<gate, box, producer, permit, pipe>>
      /\ Budget
      /\ my' \in [Thread -> Locals] /\ \A u \in Thread : my'[u].zero = my[u].zero
      /\ \E pc \in {"sweep", "rezero", "confirm", "giveUp"} :
           Went("T", pc) /\ (pc = "rezero" => box.nodes = "none")
  <2>1. Types
    BY Known
  <2> DEFINE n == IF ListedEmpty(box) THEN my["T"].seen + 1 ELSE 0
  <2>2. n \in Nat
    BY <2>1 DEF Types, Locals
  <2>3. my' \in {my, [my EXCEPT !["T"].seen = n]}
    BY DEF StartupConfirm, Keeps
  <2>4. my' \in [Thread -> Locals] /\ \A u \in Thread : my'[u].zero = my[u].zero
    <3> HIDE DEF n
    <3> QED
      BY <2>1, <2>2, <2>3 DEF Types, Locals
  <2> DEFINE next == IF ~ListedEmpty(box) THEN "sweep"
                     ELSE IF my["T"].seen = 1 THEN "rezero" ELSE "confirm"
  <2>5. next \in {"sweep", "rezero", "confirm"} /\ (next = "rezero" => box.nodes = "none")
    BY DEF ListedEmpty
  <2>6. Goes("T", "giveUp") \/ Goes("T", next)
    BY DEF StartupConfirm
  <2> HIDE DEF next
  <2> QED
    BY <2>1, <2>4, <2>5, <2>6, FaultBudget, GoesWent DEF StartupConfirm
<1>2. Types'
  BY <1>1, Known DEF Types, Looks, LooksButLast, Softer, Budget, Went
<1>3. Places'
  BY <1>1, Known DEF Places, Went
<1>4. Owned'
  BY <1>1, Known DEF Owned, Duty, Went, Looks, LooksButLast
<1>5. HandedOn'
  BY <1>1, Known DEF HandedOn, Went, Looks, LooksButLast
<1>6. Starting'
  BY <1>1, Known DEF Starting, Went, Looks, LooksButLast
<1>7. GateInv'
  BY <1>1, Known DEF GateInv, ZeroIsShut, Went, Looks, LooksButLast, Softer, Budget
<1>8. ZeroInv'
  BY <1>1, Known DEF ZeroInv, Went, Softer
<1>9. Remains'
  BY <1>1, Known DEF Remains, Went, Looks, LooksButLast
<1>10. Begun'
  BY <1>1, Known DEF Begun, Went, Looks, LooksButLast
<1> QED
  BY <1>2, <1>3, <1>4, <1>5, <1>6, <1>7, <1>8, <1>9, <1>10, Kept

LEMMA StartupEndsKeeps ==
  ASSUME IInv, StartupEnds
  PROVE  IInv'
<1>1. /\ at["T"] = "rezero" /\ UNCHANGED <<box, producer, permit>>
      /\ Softer /\ Budget /\ pipe' \in Pipeline
      /\ my' \in [Thread -> Locals] /\ \A u \in Thread : my'[u].zero => my[u].zero
      /\ pipe'.proof = pipe.proof /\ pipe'.renew = pipe.renew
      /\ \/ Went("T", "giveUp") /\ Looks(pipe, pipe')
         \/ /\ Went("T", "idle") /\ gate'.mode = "idle"
            /\ pipe'.last.zero /\ LooksButLast(pipe, pipe')
  <2>1. Types
    BY Known
  <2>2. my' \in [Thread -> Locals] /\ \A u \in Thread : my'[u].zero => my[u].zero
    BY <2>1, BlankIs DEF StartupEnds, Types, Locals
  <2> DEFINE r == Result(TRUE, "none", TRUE)
  <2>3. r \in Outcome /\ r.zero
    BY ResultIs DEF Failure
  <2>4. CASE Tell(gate.up, TRUE) /\ Goes("T", "idle") /\ pipe' = [pipe EXCEPT !.last = r]
    <3> HIDE DEF r
    <3>1. /\ pipe' \in Pipeline /\ pipe'.proof = pipe.proof /\ pipe'.renew = pipe.renew
          /\ pipe'.last.zero /\ LooksButLast(pipe, pipe')
      BY <2>1, <2>3, <2>4 DEF Types, Pipeline, LooksButLast
    <3>2. Softer /\ Budget /\ gate'.mode = "idle" /\ Went("T", "idle")
      BY <2>1, <2>4, TellIs, GoesWent
    <3> QED
      BY <2>2, <3>1, <3>2 DEF StartupEnds
  <2>5. CASE Tell(gate.up, FALSE) /\ Goes("T", "giveUp") /\ UNCHANGED pipe
    <3>1. Softer /\ Budget /\ Went("T", "giveUp")
      BY <2>1, <2>5, TellIs, GoesWent
    <3> QED
      BY <2>1, <2>2, <2>5, <3>1, LooksSelf DEF StartupEnds, Types
  <2> QED
    BY <2>4, <2>5 DEF StartupEnds
<1>2. Types'
  BY <1>1, Known DEF Types, Looks, LooksButLast, Softer, Budget, Went
<1>3. Places'
  BY <1>1, Known DEF Places, Went
<1>4. Owned'
  BY <1>1, Known DEF Owned, Duty, Went, Looks, LooksButLast
<1>5. HandedOn'
  BY <1>1, Known DEF HandedOn, Went, Looks, LooksButLast, Begun
<1>6. Starting'
  BY <1>1, Known DEF Starting, Went, Looks, LooksButLast
<1>7. GateInv'
  BY <1>1, Known DEF GateInv, ZeroIsShut, Went, Looks, LooksButLast, Softer, Budget
<1>8. ZeroInv'
  BY <1>1, Known DEF ZeroInv, Went, Softer
<1>9. Remains'
  <2>1. box = [nodes |-> "none", late |-> FALSE]
    BY <1>1, Known DEF Types, Container, Begun
  <2> QED
    BY <1>1, <2>1, Known DEF Remains, Went, Looks, LooksButLast, Begun
<1>10. Begun'
  BY <1>1, Known DEF Begun, Went, Looks, LooksButLast
<1> QED
  BY <1>2, <1>3, <1>4, <1>5, <1>6, <1>7, <1>8, <1>9, <1>10, Kept

LEMMA StartupFailsKeeps ==
  ASSUME IInv, StartupFails
  PROVE  IInv'
<1>1. /\ at["T"] = "giveUp" /\ UNCHANGED <<box, producer, permit>>
      /\ Softer /\ Budget /\ pipe' \in Pipeline /\ Went("T", "broken")
      /\ my' \in [Thread -> Locals] /\ \A u \in Thread : my'[u].zero => my[u].zero
      /\ pipe'.state = "Failed" /\ ~pipe'.last.ok
      /\ pipe'.last.zero => gate'.mode = "idle"
      /\ pipe'.gen = pipe.gen /\ pipe'.counter = pipe.counter /\ pipe'.lease = pipe.lease
      /\ pipe'.teardown = pipe.teardown /\ pipe'.record = pipe.record
      /\ pipe'.starts = pipe.starts /\ pipe'.continuation = pipe.continuation
      /\ pipe'.dirty = pipe.dirty /\ pipe'.proof = pipe.proof /\ pipe'.renew = pipe.renew
  <2>1. Types
    BY Known
  <2>2. my' \in [Thread -> Locals] /\ \A u \in Thread : my'[u].zero => my[u].zero
    BY <2>1, BlankIs DEF StartupFails, Types, Locals
  <2>3. PICK zero \in BOOLEAN :
          /\ Tell(gate.up, zero)
          /\ pipe' = [pipe EXCEPT !.state = "Failed", !.blocked = TRUE,
                                  !.last = Result(FALSE, "safety", zero)]
    BY DEF StartupFails
  <2> DEFINE r == Result(FALSE, "safety", zero)
  <2>4. r \in Outcome /\ ~r.ok /\ r.zero = zero
    BY ResultIs DEF Failure
  <2>5. Softer /\ Budget /\ (zero => gate'.mode = "idle") /\ Went("T", "broken")
    BY <2>1, <2>3, TellIs, GoesWent DEF StartupFails
  <2>6. pipe' = [pipe EXCEPT !.state = "Failed", !.blocked = TRUE, !.last = r]
    BY <2>3
  <2> HIDE DEF r
  <2>7. /\ pipe' \in Pipeline /\ pipe'.state = "Failed" /\ pipe'.last = r
        /\ pipe'.gen = pipe.gen /\ pipe'.counter = pipe.counter /\ pipe'.lease = pipe.lease
        /\ pipe'.teardown = pipe.teardown /\ pipe'.record = pipe.record
        /\ pipe'.starts = pipe.starts /\ pipe'.continuation = pipe.continuation
        /\ pipe'.dirty = pipe.dirty /\ pipe'.proof = pipe.proof /\ pipe'.renew = pipe.renew
    BY <2>1, <2>4, <2>6 DEF Types, Pipeline
  <2> QED
    BY <2>2, <2>4, <2>5, <2>7 DEF StartupFails
<1>2. Types'
  BY <1>1, Known DEF Types, Looks, LooksButLast, Softer, Budget, Went
<1>3. Places'
  BY <1>1, Known DEF Places, Went
<1>4. Owned'
  BY <1>1, Known DEF Owned, Duty, Went, Looks, LooksButLast
<1>5. HandedOn'
  BY <1>1, Known DEF HandedOn, Went, Looks, LooksButLast, Begun
<1>6. Starting'
  BY <1>1, Known DEF Starting, Went, Looks, LooksButLast
<1>7. GateInv'
  BY <1>1, Known DEF GateInv, ZeroIsShut, Went, Looks, LooksButLast, Softer, Budget
<1>8. ZeroInv'
  BY <1>1, Known DEF ZeroInv, Went, Softer
<1>9. Remains'
  BY <1>1, Known DEF Remains, Went, Looks, LooksButLast, Begun
<1>10. Begun'
  BY <1>1, Known DEF Begun, Went, Looks, LooksButLast
<1> QED
  BY <1>2, <1>3, <1>4, <1>5, <1>6, <1>7, <1>8, <1>9, <1>10, Kept

LEMMA PrepareBeginsKeeps ==
  ASSUME IInv, PrepareBegins
  PROVE  IInv'
<1>1. /\ at["T"] = "idle" /\ UNCHANGED <<gate, box, producer, permit, my>>
      /\ spent' \in [prepares : Nat, stops : Nat, faults : Nat] /\ spent'.prepares > 0
      /\ ~pipe.teardown
      /\ \/ pipe' = pipe /\ at' = at
         \/ /\ pipe.continuation = "never" /\ pipe.state \in {"Stopped", "Failed"}
            /\ \E pc \in {"handover", "ready"} :
                 Went("T", pc) /\ (pc = "ready" => ~pipe.dirty /\ pipe.lease = 0)
            /\ pipe' \in Pipeline /\ pipe'.state = pipe.state
            /\ pipe'.gen = pipe.counter + 1 /\ pipe'.counter = pipe.counter + 1
            /\ pipe'.lease = pipe.lease /\ pipe'.teardown /\ pipe'.record = NoRecord
            /\ pipe'.last = pipe.last /\ pipe'.starts = pipe.starts
            /\ pipe'.continuation = pipe.continuation /\ pipe'.dirty = pipe.dirty
            /\ pipe'.proof = pipe.proof /\ pipe'.renew = pipe.renew
  <2>1. Types
    BY Known
  <2>2. spent' \in [prepares : Nat, stops : Nat, faults : Nat] /\ spent'.prepares > 0
    <3> DEFINE n == spent.prepares + 1
    <3>1. n \in Nat /\ n > 0
      BY <2>1 DEF Types
    <3>2. spent' = [spent EXCEPT !.prepares = n]
      BY DEF PrepareBegins
    <3> HIDE DEF n
    <3> QED
      BY <2>1, <3>1, <3>2 DEF Types
  <2>3. CASE pipe.record # NoRecord /\ ~pipe.record.ok /\ ~Reusable(pipe)
    BY <2>2, <2>3 DEF PrepareBegins
  <2>4. CASE ~(pipe.record # NoRecord /\ ~pipe.record.ok /\ ~Reusable(pipe))
    <3> DEFINE i == Invalidated(pipe)
    <3>1. pipe.continuation = "never"
      BY <2>4, NeverHandedOn
    <3>2. pipe' = [i EXCEPT !.record = NoRecord, !.cancel = FALSE,
                            !.owner = "prepare", !.teardown = TRUE]
      BY <2>4 DEF PrepareBegins
    <3>3. pipe \in Pipeline /\ i \in Pipeline /\ NoRecord \in Outcome
      BY <2>1, InvalidatedIs, ResultIs DEF Types, NoRecord, Failure
    <3> HIDE DEF i
    <3>4. /\ pipe' \in Pipeline /\ pipe'.state = i.state /\ pipe'.gen = i.gen
        /\ pipe'.counter = i.counter /\ pipe'.lease = i.lease /\ pipe'.teardown
        /\ pipe'.record = NoRecord /\ pipe'.last = i.last /\ pipe'.starts = i.starts
        /\ pipe'.continuation = i.continuation /\ pipe'.dirty = i.dirty
        /\ pipe'.proof = i.proof /\ pipe'.renew = i.renew
      BY <3>2, <3>3 DEF Pipeline
    <3> DEFINE pc == IF pipe.dirty \/ pipe.lease # 0 THEN "handover" ELSE "ready"
    <3>5. pc \in {"handover", "ready"} /\ (pc = "ready" => ~pipe.dirty /\ pipe.lease = 0)
      OBVIOUS
    <3>6. Goes("T", pc)
      BY <2>4 DEF PrepareBegins
    <3> HIDE DEF pc
    <3>7. Went("T", pc)
      BY <2>1, <3>5, <3>6, GoesWent
    <3>8. /\ pipe' \in Pipeline /\ pipe'.state = pipe.state
        /\ pipe'.gen = pipe.counter + 1 /\ pipe'.counter = pipe.counter + 1
        /\ pipe'.lease = pipe.lease /\ pipe'.teardown /\ pipe'.record = NoRecord
        /\ pipe'.last = pipe.last /\ pipe'.starts = pipe.starts
        /\ pipe'.continuation = pipe.continuation /\ pipe'.dirty = pipe.dirty
        /\ pipe'.proof = pipe.proof /\ pipe'.renew = pipe.renew
      BY <3>3, <3>4, InvalidatedIs DEF i
    <3> QED
      BY <2>2, <3>1, <3>5, <3>7, <3>8 DEF PrepareBegins
  <2> QED
    BY <2>3, <2>4
<1>2. Types'
  BY <1>1, Known DEF Types, Looks, LooksButLast, Softer, Budget, Went
<1>3. Places'
  BY <1>1, Known DEF Places, Went
<1>4. Owned'
  BY <1>1, Known DEF Owned, Duty, Went, Looks, LooksButLast, HandedOn
<1>5. HandedOn'
  BY <1>1, Known DEF HandedOn, Went, Looks, LooksButLast
<1>6. Starting'
  BY <1>1, Known DEF Starting, Went, Looks, LooksButLast
<1>7. GateInv'
  BY <1>1, Known DEF GateInv, ZeroIsShut, Went, Looks, LooksButLast, Softer, Budget
<1>8. ZeroInv'
  BY <1>1, Known DEF ZeroInv, Went, Softer
<1>9. Remains'
  BY <1>1, Known DEF Remains, Went, Looks, LooksButLast
<1>10. Begun'
  BY <1>1, Known DEF Begun, Went, Looks, LooksButLast
<1> QED
  BY <1>2, <1>3, <1>4, <1>5, <1>6, <1>7, <1>8, <1>9, <1>10, Kept

LEMMA PrepareHandsOverKeeps ==
  ASSUME IInv, PrepareHandsOver
  PROVE  IInv'
<1>1. /\ at["T"] = "handover" /\ UNCHANGED <<box, permit, my>>
      /\ producer' = "off" /\ Softer /\ Budget
      /\ pipe.teardown /\ pipe.continuation = "never"
      /\ \/ /\ Went("T", "ready") /\ gate'.mode = "idle" /\ ~pipe.dirty
            /\ pipe' \in Pipeline /\ pipe'.state = pipe.state /\ pipe'.gen = pipe.gen
            /\ pipe'.counter = pipe.counter /\ pipe'.lease = pipe.lease
            /\ pipe'.teardown = pipe.teardown /\ pipe'.record = pipe.record
            /\ pipe'.last = pipe.last /\ pipe'.starts = pipe.starts
            /\ pipe'.continuation = pipe.continuation /\ pipe'.dirty = pipe.dirty
            /\ pipe'.proof = pipe.lease /\ ~pipe'.renew
         \/ /\ Went("T", "idle") /\ ~pipe'.last.zero /\ ~pipe'.last.ok
            /\ pipe' \in Pipeline /\ pipe'.state = "Failed" /\ pipe'.gen = pipe.gen
            /\ pipe'.counter = pipe.counter /\ pipe'.lease = pipe.lease
            /\ ~pipe'.teardown /\ pipe'.starts = pipe.starts
            /\ pipe'.continuation = pipe.continuation /\ pipe'.dirty = pipe.dirty
            /\ pipe'.proof = pipe.proof /\ ~pipe'.renew
  <2>1. Types
    BY Known
  <2>2. pipe \in Pipeline
    BY <2>1 DEF Types
  <2>3. pipe.teardown /\ pipe.continuation = "never"
    BY DutyIs DEF PrepareHandsOver, Duty
  <2>4. PICK zero \in BOOLEAN :
          /\ InhibitGate(zero)
          /\ IF zero /\ ~pipe.dirty
             THEN pipe' = [Proven(pipe, TRUE) EXCEPT !.renew = FALSE] /\ Goes("T", "ready")
             ELSE /\ pipe' = Finished([pipe EXCEPT !.blocked = TRUE, !.renew = FALSE],
                                      "Failed", Result(FALSE, "safety", FALSE))
                  /\ Goes("T", "idle")
    BY DEF PrepareHandsOver
  <2>5. Softer /\ Budget /\ (zero => gate'.mode = "idle")
    BY <2>1, <2>4, InhibitIs
  <2>6. CASE zero /\ ~pipe.dirty
    <3> DEFINE q == Proven(pipe, TRUE)
    <3>1. pipe' = [q EXCEPT !.renew = FALSE] /\ Goes("T", "ready")
      BY <2>4, <2>6
    <3>2. /\ q \in Pipeline /\ q.state = pipe.state /\ q.gen = pipe.gen
        /\ q.counter = pipe.counter /\ q.lease = pipe.lease
        /\ q.teardown = pipe.teardown /\ q.record = pipe.record
        /\ q.last = pipe.last /\ q.starts = pipe.starts
        /\ q.continuation = pipe.continuation /\ q.dirty = pipe.dirty
        /\ q.proof = pipe.lease /\ q.renew = pipe.renew
      BY <2>2, ProvenIs DEF Looks
    <3> HIDE DEF q
    <3>3. /\ pipe' \in Pipeline /\ pipe'.state = pipe.state /\ pipe'.gen = pipe.gen
        /\ pipe'.counter = pipe.counter /\ pipe'.lease = pipe.lease
        /\ pipe'.teardown = pipe.teardown /\ pipe'.record = pipe.record
        /\ pipe'.last = pipe.last /\ pipe'.starts = pipe.starts
        /\ pipe'.continuation = pipe.continuation /\ pipe'.dirty = pipe.dirty
        /\ pipe'.proof = pipe.lease /\ ~pipe'.renew
      BY <3>1, <3>2 DEF Pipeline
    <3>4. Went("T", "ready")
      BY <2>1, <3>1, GoesWent
    <3> QED
      BY <2>3, <2>5, <2>6, <3>3, <3>4 DEF PrepareHandsOver
  <2>7. CASE ~(zero /\ ~pipe.dirty)
    <3> DEFINE q == [pipe EXCEPT !.blocked = TRUE, !.renew = FALSE]
               r == Result(FALSE, "safety", FALSE)
    <3>1. pipe' = Finished(q, "Failed", r) /\ Goes("T", "idle")
      BY <2>4, <2>7
    <3>2. /\ q \in Pipeline /\ q.state = pipe.state /\ q.gen = pipe.gen
        /\ q.counter = pipe.counter /\ q.lease = pipe.lease
        /\ q.teardown = pipe.teardown /\ q.record = pipe.record
        /\ q.last = pipe.last /\ q.starts = pipe.starts
        /\ q.continuation = pipe.continuation /\ q.dirty = pipe.dirty
        /\ q.proof = pipe.proof /\ ~q.renew
      BY <2>2 DEF Pipeline
    <3>3. r \in Outcome /\ ~r.ok /\ ~r.zero
      BY ResultIs DEF Failure
    <3> HIDE DEF q, r
    <3>4. /\ pipe' \in Pipeline /\ pipe'.state = "Failed" /\ pipe'.gen = pipe.gen
        /\ pipe'.counter = pipe.counter /\ pipe'.lease = pipe.lease
        /\ ~pipe'.teardown /\ pipe'.last = r /\ pipe'.starts = pipe.starts
        /\ pipe'.continuation = pipe.continuation /\ pipe'.dirty = pipe.dirty
        /\ pipe'.proof = pipe.proof /\ ~pipe'.renew
      BY <3>1, <3>2, <3>3, FinishedIs
    <3>5. Went("T", "idle")
      BY <2>1, <3>1, GoesWent
    <3> QED
      BY <2>3, <2>5, <3>3, <3>4, <3>5 DEF PrepareHandsOver
  <2> QED
    BY <2>6, <2>7
<1>2. Types'
  BY <1>1, Known DEF Types, Looks, LooksButLast, Softer, Budget, Went
<1>3. Places'
  BY <1>1, Known DEF Places, Went
<1>4. Owned'
  BY <1>1, Known DEF Owned, Duty, Went, Looks, LooksButLast
<1>5. HandedOn'
  BY <1>1, Known DEF HandedOn, Went, Looks, LooksButLast
<1>6. Starting'
  BY <1>1, Known DEF Starting, Went, Looks, LooksButLast
<1>7. GateInv'
  BY <1>1, Known DEF GateInv, ZeroIsShut, Went, Looks, LooksButLast, Softer, Budget
<1>8. ZeroInv'
  BY <1>1, Known DEF ZeroInv, Went, Softer
<1>9. Remains'
  BY <1>1, Known DEF Remains, Went, Looks, LooksButLast
<1>10. Begun'
  BY <1>1, Known DEF Begun, Went, Looks, LooksButLast
<1> QED
  BY <1>2, <1>3, <1>4, <1>5, <1>6, <1>7, <1>8, <1>9, <1>10, Kept

LEMMA PrepareIsReadyKeeps ==
  ASSUME IInv, PrepareIsReady
  PROVE  IInv'
<1>1. /\ at["T"] = "ready" /\ UNCHANGED <<gate, box, producer, permit, my, spent>>
      /\ pipe.teardown /\ pipe.continuation = "never"
      /\ pipe' \in Pipeline /\ pipe'.gen = pipe.gen
      /\ pipe'.counter = pipe.counter /\ pipe'.lease = 0
      /\ pipe'.starts = pipe.starts /\ pipe'.continuation = pipe.continuation
      /\ ~pipe'.dirty /\ pipe'.proof = Nowhere /\ pipe'.renew = pipe.renew
      /\ \/ Went("T", "idle") /\ pipe'.state = "Failed" /\ ~pipe'.teardown
            /\ ~pipe'.last.zero /\ ~pipe'.last.ok
         \/ /\ Went("T", "ask") /\ pipe'.state = pipe.state /\ pipe'.teardown
            /\ pipe'.record = pipe.record /\ pipe'.last = pipe.last
         \/ Went("T", "idle") /\ pipe'.state = "Stopped" /\ ~pipe'.teardown
            /\ ~pipe'.last.zero /\ ~pipe'.last.ok
  <2>1. Types
    BY Known
  <2>2. pipe \in Pipeline
    BY <2>1 DEF Types
  <2>3. pipe.teardown /\ pipe.continuation = "never"
    BY DutyIs DEF PrepareIsReady, Duty
  <2> DEFINE o == Reset(pipe)
             f == [o EXCEPT !.collision = FALSE]
             g == [f EXCEPT !.state = "Stopped"]
             r == Result(FALSE, "safety", FALSE)
             x == Result(FALSE, "execution", FALSE)
  <2>4. /\ o \in Pipeline /\ o.state = pipe.state /\ o.gen = pipe.gen
        /\ o.counter = pipe.counter /\ o.lease = 0 /\ o.teardown = pipe.teardown
        /\ o.record = pipe.record /\ o.last = pipe.last /\ o.starts = pipe.starts
        /\ o.continuation = pipe.continuation /\ ~o.dirty /\ o.proof = Nowhere
        /\ o.renew = pipe.renew
    BY <2>2, ResetIs
  <2>5. /\ r \in Outcome /\ ~r.ok /\ ~r.zero
        /\ x \in Outcome /\ ~x.ok /\ ~x.zero
    BY ResultIs DEF Failure
  <2>6. \/ pipe' = Finished(f, "Failed", r) /\ Goes("T", "idle")
        \/ pipe' = f /\ Goes("T", "ask")
        \/ pipe' = PrepareDone(g, x) /\ Goes("T", "idle")
    BY DEF PrepareIsReady
  <2>7. UNCHANGED <<gate, box, producer, permit, my, spent>>
    BY DEF PrepareIsReady, Still, Keeps
  <2> HIDE DEF o, r, x
  <2>8. /\ f \in Pipeline /\ f.state = o.state /\ f.gen = o.gen
        /\ f.counter = o.counter /\ f.lease = o.lease /\ f.teardown = o.teardown
        /\ f.record = o.record /\ f.last = o.last /\ f.starts = o.starts
        /\ f.continuation = o.continuation /\ f.dirty = o.dirty /\ f.proof = o.proof
        /\ f.renew = o.renew
    BY <2>4 DEF Pipeline
  <2> HIDE DEF f
  <2>9. /\ g \in Pipeline /\ g.state = "Stopped" /\ g.gen = f.gen
        /\ g.counter = f.counter /\ g.lease = f.lease /\ g.teardown = f.teardown
        /\ g.record = f.record /\ g.last = f.last /\ g.starts = f.starts
        /\ g.continuation = f.continuation /\ g.dirty = f.dirty /\ g.proof = f.proof
        /\ g.renew = f.renew
    BY <2>8 DEF Pipeline
  <2> HIDE DEF g
  <2>10. CASE pipe' = Finished(f, "Failed", r) /\ Goes("T", "idle")
    <3>1. Went("T", "idle")
      BY <2>1, <2>10, GoesWent
    <3>2. /\ pipe' \in Pipeline /\ pipe'.state = "Failed" /\ pipe'.gen = f.gen
        /\ pipe'.counter = f.counter /\ pipe'.lease = f.lease /\ ~pipe'.teardown
        /\ pipe'.last = r /\ pipe'.starts = f.starts
        /\ pipe'.continuation = f.continuation /\ pipe'.dirty = f.dirty
        /\ pipe'.proof = f.proof /\ pipe'.renew = f.renew
      BY <2>5, <2>8, <2>10, FinishedIs
    <3> QED
      BY <2>3, <2>4, <2>5, <2>7, <2>8, <3>1, <3>2 DEF PrepareIsReady
  <2>11. CASE pipe' = f /\ Goes("T", "ask")
    <3>1. Went("T", "ask")
      BY <2>1, <2>11, GoesWent
    <3> QED
      BY <2>3, <2>4, <2>7, <2>8, <2>11, <3>1 DEF PrepareIsReady
  <2>12. CASE pipe' = PrepareDone(g, x) /\ Goes("T", "idle")
    <3>1. Went("T", "idle")
      BY <2>1, <2>12, GoesWent
    <3>2. /\ pipe' \in Pipeline /\ pipe'.state = g.state /\ pipe'.gen = g.gen
        /\ pipe'.counter = g.counter /\ pipe'.lease = g.lease /\ ~pipe'.teardown
        /\ pipe'.record = g.record /\ pipe'.last = x /\ pipe'.starts = g.starts
        /\ pipe'.continuation = g.continuation /\ pipe'.dirty = g.dirty
        /\ pipe'.proof = g.proof /\ pipe'.renew = g.renew
      BY <2>5, <2>9, <2>12, PrepareDoneIs
    <3> QED
      BY <2>3, <2>4, <2>5, <2>7, <2>8, <2>9, <3>1, <3>2 DEF PrepareIsReady
  <2> QED
    BY <2>6, <2>10, <2>11, <2>12
<1>2. Types'
  BY <1>1, Known DEF Types, Looks, LooksButLast, Softer, Budget, Went
<1>3. Places'
  BY <1>1, Known DEF Places, Went
<1>4. Owned'
  BY <1>1, Known DEF Owned, Duty, Went, Looks, LooksButLast
<1>5. HandedOn'
  BY <1>1, Known DEF HandedOn, Went, Looks, LooksButLast
<1>6. Starting'
  BY <1>1, Known DEF Starting, Went, Looks, LooksButLast
<1>7. GateInv'
  BY <1>1, Known DEF GateInv, ZeroIsShut, Went, Looks, LooksButLast, Softer, Budget
<1>8. ZeroInv'
  BY <1>1, Known DEF ZeroInv, Went, Softer
<1>9. Remains'
  BY <1>1, Known DEF Remains, Went, Looks, LooksButLast
<1>10. Begun'
  BY <1>1, Known DEF Begun, Went, Looks, LooksButLast
<1> QED
  BY <1>2, <1>3, <1>4, <1>5, <1>6, <1>7, <1>8, <1>9, <1>10, Kept

LEMMA PrepareAsksKeeps ==
  ASSUME IInv, PrepareAsks
  PROVE  IInv'
<1>1. /\ at["T"] = "ask" /\ UNCHANGED <<box, producer, permit, pipe>>
      /\ Went("T", "bind") /\ Budget
      /\ pipe.teardown
      /\ gate' \in GateProcess
      /\ \/ gate' = gate
         \/ gate'.mode = "prepared" /\ gate'.lease > 0
      /\ my' \in [Thread -> Locals] /\ \A u \in Thread : my'[u].zero = my[u].zero
  <2>1. Types
    BY Known
  <2>2. pipe.teardown /\ spent.prepares > 0
    BY DutyIs, Known DEF PrepareAsks, Duty, GateInv
  <2> DEFINE granted == [gate EXCEPT !.mode = "prepared", !.lease = spent.prepares]
             mine == [my["T"] EXCEPT !.permit = permit, !.home = gate.inst]
  <2>3. granted \in GateProcess /\ granted.mode = "prepared" /\ granted.lease > 0
    BY <2>1, <2>2 DEF Types, GateProcess
  <2>4. mine \in Locals /\ mine.zero = my["T"].zero
    BY <2>1 DEF Types, Locals, GateProcess
  <2>5. gate' \in {gate, granted} /\ Budget
    BY <2>1, FaultBudget DEF PrepareAsks
  <2>6. \E m \in {mine, [mine EXCEPT !.lease = spent.prepares]} : my' = [my EXCEPT !["T"] = m]
    BY DEF PrepareAsks
  <2> HIDE DEF granted, mine
  <2>7. PICK m \in Locals : m.zero = my["T"].zero /\ my' = [my EXCEPT !["T"] = m]
    BY <2>1, <2>4, <2>6 DEF Types, Locals
  <2>8. my' \in [Thread -> Locals] /\ \A u \in Thread : my'[u].zero = my[u].zero
    BY <2>1, <2>7 DEF Types
  <2> QED
    BY <2>1, <2>2, <2>3, <2>5, <2>8, GoesWent DEF PrepareAsks, Types
<1>2. Types'
  BY <1>1, Known DEF Types, Looks, LooksButLast, Softer, Budget, Went
<1>3. Places'
  BY <1>1, Known DEF Places, Went
<1>4. Owned'
  BY <1>1, Known DEF Owned, Duty, Went, Looks, LooksButLast
<1>5. HandedOn'
  BY <1>1, Known DEF HandedOn, Went, Looks, LooksButLast
<1>6. Starting'
  BY <1>1, Known DEF Starting, Went, Looks, LooksButLast
<1>7. GateInv'
  BY <1>1, Known DEF GateInv, ZeroIsShut, Went, Looks, LooksButLast, Softer, Budget
<1>8. ZeroInv'
  BY <1>1, Known DEF ZeroInv, Owned, Duty, Went
<1>9. Remains'
  BY <1>1, Known DEF Remains, Went, Looks, LooksButLast
<1>10. Begun'
  BY <1>1, Known DEF Begun, Went, Looks, LooksButLast
<1> QED
  BY <1>2, <1>3, <1>4, <1>5, <1>6, <1>7, <1>8, <1>9, <1>10, Kept

\* fail_owned by a PREPARE keeps what it has.
LEMMA PrepareFailsIs ==
  ASSUME Types, NEW p \in Pipeline, PrepareFails(p)
  PROVE  /\ Went("T", "quiet")
         /\ pipe' \in Pipeline /\ pipe'.state = p.state /\ pipe'.gen = p.gen
         /\ pipe'.counter = p.counter /\ pipe'.lease = p.lease
         /\ pipe'.teardown = p.teardown /\ pipe'.record = p.record
         /\ pipe'.last = p.last /\ pipe'.starts = p.starts
         /\ pipe'.continuation = p.continuation /\ pipe'.dirty = p.dirty
         /\ pipe'.proof = p.proof /\ ~pipe'.renew
         /\ my' \in [Thread -> Locals] /\ \A u \in Thread : my'[u].zero => my[u].zero
<1>1. Went("T", "quiet")
  BY GoesWent DEF PrepareFails
<1>2. /\ pipe' \in Pipeline /\ pipe'.state = p.state /\ pipe'.gen = p.gen
      /\ pipe'.counter = p.counter /\ pipe'.lease = p.lease
      /\ pipe'.teardown = p.teardown /\ pipe'.record = p.record
      /\ pipe'.last = p.last /\ pipe'.starts = p.starts
      /\ pipe'.continuation = p.continuation /\ pipe'.dirty = p.dirty
      /\ pipe'.proof = p.proof /\ ~pipe'.renew
  BY DEF PrepareFails, Pipeline
<1> DEFINE m == [my["T"] EXCEPT !.kind = "prepare", !.cause = "safety"]
<1>3. my["T"] \in Locals /\ my' = [my EXCEPT !["T"] = m]
  BY DEF PrepareFails, Types
<1>4. m \in Locals /\ m.zero = my["T"].zero
  BY <1>3 DEF Locals, Failure
<1> HIDE DEF m
<1>5. /\ my' \in [Thread -> Locals] /\ \A u \in Thread : my'[u].zero => my[u].zero
  BY <1>3, <1>4 DEF Types
<1> QED
  BY <1>1, <1>2, <1>5

LEMMA PrepareBindsKeeps ==
  ASSUME IInv, PrepareBinds
  PROVE  IInv'
<1>1. /\ at["T"] = "bind" /\ UNCHANGED <<gate, box, producer, permit, spent>>
      /\ pipe.teardown /\ pipe.continuation = "never"
      /\ pipe'.gen = pipe'.counter
      /\ pipe' \in Pipeline /\ pipe'.record = pipe.record
      /\ pipe'.starts = pipe.starts /\ pipe'.continuation = pipe.continuation
      /\ pipe'.dirty = pipe.dirty /\ pipe'.proof = pipe.proof
      /\ my' \in [Thread -> Locals] /\ \A u \in Thread : my'[u].zero => my[u].zero
      /\ \/ Went("T", "idle") /\ pipe'.state = "Stopped" /\ ~pipe'.teardown
            /\ ~pipe'.last.zero /\ ~pipe'.last.ok
         \/ /\ \E pc \in {"quiet", "load"} : Went("T", pc)
            /\ pipe'.state = pipe.state /\ pipe'.teardown /\ pipe'.last = pipe.last
  <2>1. Types
    BY Known
  <2>2. pipe \in Pipeline /\ pipe.gen = pipe.counter
    BY <2>1, Known DEF Types, Starting
  <2>3. pipe.teardown /\ pipe.continuation = "never"
    BY DutyIs DEF PrepareBinds, Duty
  <2> DEFINE n == pipe.counter + 1
             b == [pipe EXCEPT !.lease = my["T"].lease, !.home = my["T"].home,
                               !.counter = n, !.gen = n]
             bound == IF my["T"].lease = 0 THEN pipe ELSE b
             g == [bound EXCEPT !.state = "Stopped"]
             x == Result(FALSE, "execution", FALSE)
  <2>4. n \in Nat /\ my["T"] \in Locals
    BY <2>1, <2>2 DEF Types, Pipeline
  <2>5. my["T"].lease \in Nat /\ my["T"].home \in Nat
    BY <2>4 DEF Locals
  <2>6. x \in Outcome /\ ~x.ok /\ ~x.zero
    BY ResultIs DEF Failure
  <2>7. /\ UNCHANGED <<gate, box, producer, permit, spent>>
        /\ \/ /\ pipe' = PrepareDone(g, x) /\ Goes("T", "idle")
              /\ my' = [my EXCEPT !["T"] = Blank]
           \/ PrepareFails(bound)
           \/ /\ pipe' = bound /\ Goes("T", "load")
              /\ my' = [my EXCEPT !["T"].gen = bound.gen]
    BY DEF PrepareBinds, Still
  <2> HIDE DEF n, x
  <2>8. b \in Pipeline /\ b.gen = b.counter
        /\ b.state = pipe.state /\ b.teardown = pipe.teardown /\ b.record = pipe.record
        /\ b.last = pipe.last /\ b.starts = pipe.starts
        /\ b.continuation = pipe.continuation /\ b.dirty = pipe.dirty
        /\ b.proof = pipe.proof /\ b.renew = pipe.renew
    BY <2>2, <2>4, <2>5 DEF Pipeline
  <2> HIDE DEF b
  <2>9. bound.gen = bound.counter
        /\ bound \in Pipeline /\ bound.state = pipe.state
        /\ bound.teardown = pipe.teardown /\ bound.record = pipe.record
        /\ bound.last = pipe.last /\ bound.starts = pipe.starts
        /\ bound.continuation = pipe.continuation /\ bound.dirty = pipe.dirty
        /\ bound.proof = pipe.proof /\ bound.renew = pipe.renew
    BY <2>2, <2>8
  <2> HIDE DEF bound
  <2>10. /\ g \in Pipeline /\ g.state = "Stopped" /\ g.gen = bound.gen
         /\ g.counter = bound.counter /\ g.lease = bound.lease
         /\ g.teardown = bound.teardown /\ g.record = bound.record
         /\ g.last = bound.last /\ g.starts = bound.starts
         /\ g.continuation = bound.continuation /\ g.dirty = bound.dirty
         /\ g.proof = bound.proof /\ g.renew = bound.renew
    BY <2>9 DEF Pipeline
  <2> HIDE DEF g
  <2>11. CASE /\ pipe' = PrepareDone(g, x) /\ Goes("T", "idle")
              /\ my' = [my EXCEPT !["T"] = Blank]
    <3>1. Went("T", "idle")
      BY <2>1, <2>11, GoesWent
    <3>2. /\ pipe' \in Pipeline /\ pipe'.state = g.state /\ pipe'.gen = g.gen
        /\ pipe'.counter = g.counter /\ pipe'.lease = g.lease /\ ~pipe'.teardown
        /\ pipe'.record = g.record /\ pipe'.last = x /\ pipe'.starts = g.starts
        /\ pipe'.continuation = g.continuation /\ pipe'.dirty = g.dirty
        /\ pipe'.proof = g.proof /\ pipe'.renew = g.renew
      BY <2>6, <2>10, <2>11, PrepareDoneIs
    <3>3. /\ my' \in [Thread -> Locals] /\ \A u \in Thread : my'[u].zero => my[u].zero
      BY <2>1, <2>11, BlankIs DEF Types
    <3> QED
      BY <2>3, <2>6, <2>7, <2>9, <2>10, <3>1, <3>2, <3>3 DEF PrepareBinds
  <2>12. CASE PrepareFails(bound)
    BY <2>1, <2>3, <2>7, <2>9, <2>12, PrepareFailsIs DEF PrepareBinds
  <2>13. CASE /\ pipe' = bound /\ Goes("T", "load")
              /\ my' = [my EXCEPT !["T"].gen = bound.gen]
    <3>1. Went("T", "load")
      BY <2>1, <2>13, GoesWent
    <3>2. bound.gen \in Nat
      BY <2>9 DEF Pipeline
    <3>3. /\ my' \in [Thread -> Locals] /\ \A u \in Thread : my'[u].zero => my[u].zero
      BY <2>1, <2>13, <3>2 DEF Types, Locals
    <3> QED
      BY <2>3, <2>7, <2>9, <2>13, <3>1, <3>3 DEF PrepareBinds
  <2> QED
    BY <2>7, <2>11, <2>12, <2>13
<1>2. Types'
  BY <1>1, Known DEF Types, Looks, LooksButLast, Softer, Budget, Went
<1>3. Places'
  BY <1>1, Known DEF Places, Went
<1>4. Owned'
  BY <1>1, Known DEF Owned, Duty, Went, Looks, LooksButLast
<1>5. HandedOn'
  BY <1>1, Known DEF HandedOn, Went, Looks, LooksButLast
<1>6. Starting'
  BY <1>1, Known DEF Starting, Went, Looks, LooksButLast
<1>7. GateInv'
  BY <1>1, Known DEF GateInv, ZeroIsShut, Went, Looks, LooksButLast, Softer, Budget, Pipeline, Nowhere
<1>8. ZeroInv'
  BY <1>1, Known DEF ZeroInv, Went, Softer
<1>9. Remains'
  BY <1>1, Known DEF Remains, Went, Looks, LooksButLast
<1>10. Begun'
  BY <1>1, Known DEF Begun, Went, Looks, LooksButLast
<1> QED
  BY <1>2, <1>3, <1>4, <1>5, <1>6, <1>7, <1>8, <1>9, <1>10, Kept

LEMMA PrepareLoadsKeeps ==
  ASSUME IInv, PrepareLoads
  PROVE  IInv'
<1>1. /\ at["T"] = "load" /\ UNCHANGED <<gate, producer, permit>>
      /\ pipe.teardown /\ pipe.continuation = "never"
      /\ box' \in Container /\ Budget
      /\ pipe' \in Pipeline /\ pipe'.gen = pipe.gen
      /\ pipe'.counter = pipe.counter /\ pipe'.lease = pipe.lease
      /\ pipe'.record = pipe.record /\ pipe'.starts = pipe.starts
      /\ pipe'.continuation = pipe.continuation /\ pipe'.dirty
      /\ pipe'.proof = pipe.proof
      /\ my' \in [Thread -> Locals] /\ \A u \in Thread : my'[u].zero => my[u].zero
      /\ \/ Went("T", "idle") /\ pipe'.state = "Stopped" /\ ~pipe'.teardown
            /\ ~pipe'.last.zero /\ ~pipe'.last.ok
         \/ /\ \E pc \in {"quiet", "seal"} : Went("T", pc)
            /\ pipe'.state = pipe.state /\ pipe'.teardown /\ pipe'.last = pipe.last
  <2>1. Types
    BY Known
  <2>2. pipe \in Pipeline /\ box \in Container
    BY <2>1, Known DEF Types, Starting
  <2>3. pipe.teardown /\ pipe.continuation = "never"
    BY DutyIs DEF PrepareLoads, Duty
  <2>4. Loaded(box) \in Container /\ Unanswered(box) \in Container
    BY <2>2 DEF Loaded, Unanswered, Container
  <2>5. UNCHANGED <<gate, producer, permit>> /\ Budget /\ box' \in Container
    BY <2>1, <2>4, FaultBudget DEF PrepareLoads
  <2>6. CASE pipe' = [pipe EXCEPT !.dirty = TRUE] /\ Goes("T", "seal") /\ Keeps
    <3>1. Went("T", "seal")
      BY <2>1, <2>6, GoesWent
    <3>2. /\ pipe' \in Pipeline /\ pipe'.state = pipe.state /\ pipe'.gen = pipe.gen
        /\ pipe'.counter = pipe.counter /\ pipe'.lease = pipe.lease
        /\ pipe'.teardown = pipe.teardown /\ pipe'.record = pipe.record
        /\ pipe'.last = pipe.last /\ pipe'.starts = pipe.starts
        /\ pipe'.continuation = pipe.continuation /\ pipe'.dirty
        /\ pipe'.proof = pipe.proof /\ pipe'.renew = pipe.renew
      BY <2>2, <2>6 DEF Pipeline
    <3>3. /\ my' \in [Thread -> Locals] /\ \A u \in Thread : my'[u].zero => my[u].zero
      BY <2>1, <2>6 DEF Keeps, Types
    <3> QED
      BY <2>3, <2>5, <3>1, <3>2, <3>3 DEF PrepareLoads
  <2>7. ASSUME NEW unanswered \in BOOLEAN,
               PrepareFails([pipe EXCEPT !.dirty = TRUE, !.cleanFailed = unanswered])
        PROVE  /\ pipe' \in Pipeline /\ pipe'.state = pipe.state /\ pipe'.gen = pipe.gen
           /\ pipe'.counter = pipe.counter /\ pipe'.lease = pipe.lease
           /\ pipe'.teardown = pipe.teardown /\ pipe'.record = pipe.record
           /\ pipe'.last = pipe.last /\ pipe'.starts = pipe.starts
           /\ pipe'.continuation = pipe.continuation /\ pipe'.dirty
           /\ pipe'.proof = pipe.proof
               /\ Went("T", "quiet")
               /\ my' \in [Thread -> Locals] /\ \A u \in Thread : my'[u].zero => my[u].zero
    <3> DEFINE d == [pipe EXCEPT !.dirty = TRUE, !.cleanFailed = unanswered]
    <3>1. /\ d \in Pipeline /\ d.state = pipe.state /\ d.gen = pipe.gen
        /\ d.counter = pipe.counter /\ d.lease = pipe.lease
        /\ d.teardown = pipe.teardown /\ d.record = pipe.record
        /\ d.last = pipe.last /\ d.starts = pipe.starts
        /\ d.continuation = pipe.continuation /\ d.dirty /\ d.proof = pipe.proof
        /\ d.renew = pipe.renew
      BY <2>2 DEF Pipeline
    <3>2. PrepareFails(d)
      BY <2>7
    <3> HIDE DEF d
    <3> QED
      BY <2>1, <3>1, <3>2, PrepareFailsIs
  <2>8. ASSUME NEW unanswered \in BOOLEAN,
               CancelledFrom([pipe EXCEPT !.dirty = TRUE, !.cleanFailed = unanswered])
        PROVE  /\ pipe' \in Pipeline /\ pipe'.gen = pipe.gen
               /\ pipe'.counter = pipe.counter /\ pipe'.lease = pipe.lease
               /\ pipe'.record = pipe.record /\ pipe'.starts = pipe.starts
               /\ pipe'.continuation = pipe.continuation /\ pipe'.dirty
               /\ pipe'.proof = pipe.proof
               /\ my' \in [Thread -> Locals] /\ \A u \in Thread : my'[u].zero => my[u].zero
               /\ Went("T", "idle") /\ pipe'.state = "Stopped" /\ ~pipe'.teardown
               /\ ~pipe'.last.zero /\ ~pipe'.last.ok
    <3> DEFINE d == [[pipe EXCEPT !.dirty = TRUE, !.cleanFailed = unanswered]
                       EXCEPT !.state = "Stopped"]
               x == Result(FALSE, "execution", FALSE)
    <3>1. x \in Outcome /\ ~x.ok /\ ~x.zero
      BY ResultIs DEF Failure
    <3>2. /\ d \in Pipeline /\ d.state = "Stopped" /\ d.gen = pipe.gen
          /\ d.counter = pipe.counter /\ d.lease = pipe.lease /\ d.record = pipe.record
          /\ d.starts = pipe.starts /\ d.continuation = pipe.continuation /\ d.dirty
          /\ d.proof = pipe.proof
      BY <2>2 DEF Pipeline
    <3>3. /\ pipe' = PrepareDone(d, x) /\ Goes("T", "idle")
          /\ my' = [my EXCEPT !["T"] = Blank]
      BY <2>8 DEF CancelledFrom
    <3> HIDE DEF d, x
    <3>4. Went("T", "idle")
      BY <2>1, <3>3, GoesWent
    <3>5. my' \in [Thread -> Locals] /\ \A u \in Thread : my'[u].zero => my[u].zero
      BY <2>1, <3>3, BlankIs DEF Types
    <3> QED
      BY <3>1, <3>2, <3>3, <3>4, <3>5, PrepareDoneIs
  <2>9. \/ pipe' = [pipe EXCEPT !.dirty = TRUE] /\ Goes("T", "seal") /\ Keeps
        \/ \E unanswered \in BOOLEAN :
             \/ PrepareFails([pipe EXCEPT !.dirty = TRUE, !.cleanFailed = unanswered])
             \/ CancelledFrom([pipe EXCEPT !.dirty = TRUE, !.cleanFailed = unanswered])
    BY DEF PrepareLoads
  <2>10. at["T"] = "load"
    BY DEF PrepareLoads
  <2> QED
    BY <2>3, <2>5, <2>6, <2>7, <2>8, <2>9, <2>10
<1>2. Types'
  BY <1>1, Known DEF Types, Looks, LooksButLast, Softer, Budget, Went
<1>3. Places'
  BY <1>1, Known DEF Places, Went
<1>4. Owned'
  BY <1>1, Known DEF Owned, Duty, Went, Looks, LooksButLast
<1>5. HandedOn'
  BY <1>1, Known DEF HandedOn, Went, Looks, LooksButLast
<1>6. Starting'
  BY <1>1, Known DEF Starting, Went, Looks, LooksButLast
<1>7. GateInv'
  BY <1>1, Known DEF GateInv, ZeroIsShut, Went, Looks, LooksButLast, Softer, Budget
<1>8. ZeroInv'
  BY <1>1, Known DEF ZeroInv, Went, Softer
<1>9. Remains'
  BY <1>1, Known DEF Remains, Went, Looks, LooksButLast
<1>10. Begun'
  BY <1>1, Known DEF Begun, Went, Looks, LooksButLast
<1> QED
  BY <1>2, <1>3, <1>4, <1>5, <1>6, <1>7, <1>8, <1>9, <1>10, Kept

LEMMA PrepareSealsKeeps ==
  ASSUME IInv, PrepareSeals
  PROVE  IInv'
<1>1. /\ at["T"] = "seal" /\ UNCHANGED <<gate, box, producer, permit, spent>>
      /\ pipe.teardown /\ pipe.continuation = "never"
      /\ pipe' \in Pipeline /\ pipe'.gen = pipe.gen
      /\ pipe'.counter = pipe.counter /\ pipe'.lease = pipe.lease
      /\ pipe'.record = pipe.record /\ pipe'.starts = pipe.starts
      /\ pipe'.continuation = pipe.continuation /\ pipe'.dirty = pipe.dirty
      /\ pipe'.proof = pipe.proof
      /\ my' \in [Thread -> Locals] /\ \A u \in Thread : my'[u].zero => my[u].zero
      /\ \/ Went("T", "idle") /\ pipe'.state = "Stopped" /\ ~pipe'.teardown
            /\ ~pipe'.last.zero /\ ~pipe'.last.ok
         \/ Went("T", "quiet") /\ pipe'.state = pipe.state /\ pipe'.teardown
            /\ pipe'.last = pipe.last
         \/ Went("T", "prepared") /\ pipe'.state = "Prepared" /\ ~pipe'.teardown
  <2>1. Types
    BY Known
  <2>2. pipe \in Pipeline
    BY <2>1, Known DEF Types, Starting
  <2>3. pipe.teardown /\ pipe.continuation = "never"
    BY DutyIs DEF PrepareSeals, Duty
  <2> DEFINE g == [pipe EXCEPT !.state = "Stopped"]
             h == [pipe EXCEPT !.state = "Prepared"]
             x == Result(FALSE, "execution", FALSE)
             r == Result(TRUE, "none", TRUE)
  <2>4. x \in Outcome /\ ~x.ok /\ ~x.zero /\ r \in Outcome
    BY ResultIs DEF Failure
  <2>5. /\ UNCHANGED <<gate, box, producer, permit, spent>>
        /\ \/ /\ pipe' = PrepareDone(g, x) /\ Goes("T", "idle")
              /\ my' = [my EXCEPT !["T"] = Blank]
           \/ PrepareFails(pipe)
           \/ /\ pipe' = PrepareDone(h, r) /\ Goes("T", "prepared")
              /\ my' = [my EXCEPT !["T"] = Blank]
    BY DEF PrepareSeals, Still, Cancelled, CancelledFrom
  <2>6. /\ g \in Pipeline /\ g.state = "Stopped" /\ g.gen = pipe.gen
        /\ g.counter = pipe.counter /\ g.lease = pipe.lease
        /\ g.teardown = pipe.teardown /\ g.record = pipe.record
        /\ g.last = pipe.last /\ g.starts = pipe.starts
        /\ g.continuation = pipe.continuation /\ g.dirty = pipe.dirty
        /\ g.proof = pipe.proof /\ g.renew = pipe.renew
    BY <2>2 DEF Pipeline
  <2>7. /\ h \in Pipeline /\ h.state = "Prepared" /\ h.gen = pipe.gen
        /\ h.counter = pipe.counter /\ h.lease = pipe.lease
        /\ h.teardown = pipe.teardown /\ h.record = pipe.record
        /\ h.last = pipe.last /\ h.starts = pipe.starts
        /\ h.continuation = pipe.continuation /\ h.dirty = pipe.dirty
        /\ h.proof = pipe.proof /\ h.renew = pipe.renew
    BY <2>2 DEF Pipeline
  <2> HIDE DEF g, h, x, r
  <2>8. CASE /\ pipe' = PrepareDone(g, x) /\ Goes("T", "idle")
             /\ my' = [my EXCEPT !["T"] = Blank]
    <3>1. Went("T", "idle")
      BY <2>1, <2>8, GoesWent
    <3>2. /\ pipe' \in Pipeline /\ pipe'.state = g.state /\ pipe'.gen = g.gen
        /\ pipe'.counter = g.counter /\ pipe'.lease = g.lease /\ ~pipe'.teardown
        /\ pipe'.record = g.record /\ pipe'.last = x /\ pipe'.starts = g.starts
        /\ pipe'.continuation = g.continuation /\ pipe'.dirty = g.dirty
        /\ pipe'.proof = g.proof /\ pipe'.renew = g.renew
      BY <2>4, <2>6, <2>8, PrepareDoneIs
    <3>3. /\ my' \in [Thread -> Locals] /\ \A u \in Thread : my'[u].zero => my[u].zero
      BY <2>1, <2>8, BlankIs DEF Types
    <3> QED
      BY <2>3, <2>4, <2>5, <2>6, <3>1, <3>2, <3>3 DEF PrepareSeals
  <2>9. CASE PrepareFails(pipe)
    BY <2>1, <2>2, <2>3, <2>5, <2>9, PrepareFailsIs DEF PrepareSeals
  <2>10. CASE /\ pipe' = PrepareDone(h, r) /\ Goes("T", "prepared")
              /\ my' = [my EXCEPT !["T"] = Blank]
    <3>1. Went("T", "prepared")
      BY <2>1, <2>10, GoesWent
    <3>2. /\ pipe' \in Pipeline /\ pipe'.state = h.state /\ pipe'.gen = h.gen
        /\ pipe'.counter = h.counter /\ pipe'.lease = h.lease /\ ~pipe'.teardown
        /\ pipe'.record = h.record /\ pipe'.last = r /\ pipe'.starts = h.starts
        /\ pipe'.continuation = h.continuation /\ pipe'.dirty = h.dirty
        /\ pipe'.proof = h.proof /\ pipe'.renew = h.renew
      BY <2>4, <2>7, <2>10, PrepareDoneIs
    <3>3. /\ my' \in [Thread -> Locals] /\ \A u \in Thread : my'[u].zero => my[u].zero
      BY <2>1, <2>10, BlankIs DEF Types
    <3> QED
      BY <2>3, <2>5, <2>7, <3>1, <3>2, <3>3 DEF PrepareSeals
  <2> QED
    BY <2>5, <2>8, <2>9, <2>10
<1>2. Types'
  BY <1>1, Known DEF Types, Looks, LooksButLast, Softer, Budget, Went
<1>3. Places'
  BY <1>1, Known DEF Places, Went
<1>4. Owned'
  BY <1>1, Known DEF Owned, Duty, Went, Looks, LooksButLast
<1>5. HandedOn'
  BY <1>1, Known DEF HandedOn, Went, Looks, LooksButLast
<1>6. Starting'
  BY <1>1, Known DEF Starting, Went, Looks, LooksButLast
<1>7. GateInv'
  BY <1>1, Known DEF GateInv, ZeroIsShut, Went, Looks, LooksButLast, Softer, Budget
<1>8. ZeroInv'
  BY <1>1, Known DEF ZeroInv, Went, Softer
<1>9. Remains'
  BY <1>1, Known DEF Remains, Went, Looks, LooksButLast
<1>10. Begun'
  BY <1>1, Known DEF Begun, Went, Looks, LooksButLast
<1> QED
  BY <1>2, <1>3, <1>4, <1>5, <1>6, <1>7, <1>8, <1>9, <1>10, Kept

-----------------------------------------------------------------------------
\* abort_activation leaves the generation to the look that follows.
LEMMA AbortsIs ==
  ASSUME Types, NEW cause \in Failure, Aborts(cause)
  PROVE  /\ Went("T", "check")
         /\ my' \in [Thread -> Locals]
         /\ \A u \in Thread : /\ my'[u].zero = my[u].zero /\ my'[u].gen = my[u].gen
                              /\ my'[u].lease = my[u].lease
<1>1. Went("T", "check")
  BY GoesWent DEF Aborts
<1> DEFINE m == [my["T"] EXCEPT !.cause = cause, !.kind = "sync"]
<1>2. my["T"] \in Locals /\ my' = [my EXCEPT !["T"] = m]
  BY DEF Aborts, Types
<1>3. m \in Locals /\ m.zero = my["T"].zero /\ m.gen = my["T"].gen /\ m.lease = my["T"].lease
  BY <1>2 DEF Locals
<1> HIDE DEF m
<1>4. /\ my' \in [Thread -> Locals]
      /\ \A u \in Thread : /\ my'[u].zero = my[u].zero /\ my'[u].gen = my[u].gen
                           /\ my'[u].lease = my[u].lease
  BY <1>2, <1>3 DEF Types
<1> QED
  BY <1>1, <1>4

LEMMA FailsAtOnceIs ==
  ASSUME Types, FailsAtOnce
  PROVE  /\ Went("T", "claim")
         /\ my' \in [Thread -> Locals]
         /\ \A u \in Thread : /\ my'[u].zero = my[u].zero /\ my'[u].gen = my[u].gen
                              /\ my'[u].lease = my[u].lease
<1>1. Went("T", "claim")
  BY GoesWent DEF FailsAtOnce
<1> DEFINE m == [my["T"] EXCEPT !.cause = "safety", !.kind = "sync"]
<1>2. my["T"] \in Locals /\ my' = [my EXCEPT !["T"] = m]
  BY DEF FailsAtOnce, Types
<1>3. m \in Locals /\ m.zero = my["T"].zero /\ m.gen = my["T"].gen /\ m.lease = my["T"].lease
  BY <1>2 DEF Locals, Failure
<1> HIDE DEF m
<1>4. /\ my' \in [Thread -> Locals]
      /\ \A u \in Thread : /\ my'[u].zero = my[u].zero /\ my'[u].gen = my[u].gen
                           /\ my'[u].lease = my[u].lease
  BY <1>2, <1>3 DEF Types
<1> QED
  BY <1>1, <1>4

LEMMA KeepsMine ==
  ASSUME Types, Keeps
  PROVE  /\ my' \in [Thread -> Locals]
         /\ \A u \in Thread : /\ my'[u].zero = my[u].zero /\ my'[u].gen = my[u].gen
                              /\ my'[u].lease = my[u].lease
BY DEF Keeps, Types

LEMMA StartBeginsKeeps ==
  ASSUME IInv, StartBegins
  PROVE  IInv'
<1>1. /\ at["T"] = "prepared" /\ UNCHANGED <<gate, box, producer, permit>> /\ Budget
      /\ my' \in [Thread -> Locals] /\ \A u \in Thread : my'[u].zero = my[u].zero
      /\ \/ (Went("T", "idle") \/ Went("T", "claim")) /\ Looks(pipe, pipe')
            /\ pipe'.proof = pipe.proof /\ pipe'.renew = pipe.renew
         \/ /\ Went("T", "token") /\ pipe.state = "Prepared" /\ ~pipe.teardown
            /\ my'["T"].gen = pipe.gen /\ my'["T"].lease = pipe.lease
            /\ pipe' \in Pipeline /\ pipe'.state = pipe.state /\ pipe'.gen = pipe.gen
            /\ pipe'.counter = pipe.counter /\ pipe'.lease = pipe.lease
            /\ pipe'.teardown = pipe.teardown /\ pipe'.record = pipe.record
            /\ pipe'.last = pipe.last /\ pipe'.starts = 1
            /\ pipe'.continuation = pipe.continuation /\ pipe'.dirty = pipe.dirty
            /\ pipe'.proof = pipe.proof /\ pipe'.renew = pipe.renew
  <2>1. Types
    BY Known
  <2>2. pipe \in Pipeline
    BY <2>1, Known DEF Types, Starting
  <2>3. UNCHANGED <<gate, box, producer, permit>> /\ Budget
    BY <2>1, FaultBudget DEF StartBegins
  <2>4. CASE /\ pipe.state = "Prepared" /\ ~pipe.teardown
             /\ pipe' = [pipe EXCEPT !.starts = 1] /\ Goes("T", "token")
             /\ my' = [my EXCEPT !["T"].gen = pipe.gen, !["T"].lease = pipe.lease,
                                 !["T"].home = pipe.home]
    <3> DEFINE m == [my["T"] EXCEPT !.gen = pipe.gen, !.lease = pipe.lease, !.home = pipe.home]
    <3>1. /\ pipe' = [pipe EXCEPT !.starts = 1] /\ Goes("T", "token")
          /\ my["T"] \in Locals /\ my' = [my EXCEPT !["T"] = m]
      BY <2>1, <2>4 DEF Types
    <3>2. pipe.gen \in Nat /\ pipe.lease \in Nat /\ pipe.home \in Nat
      BY <2>2 DEF Pipeline
    <3>3. m \in Locals /\ m.zero = my["T"].zero /\ m.gen = pipe.gen /\ m.lease = pipe.lease
      BY <3>1, <3>2 DEF Locals
    <3> HIDE DEF m
    <3>4. /\ my' \in [Thread -> Locals] /\ \A u \in Thread : my'[u].zero = my[u].zero
          /\ my'["T"].gen = pipe.gen /\ my'["T"].lease = pipe.lease
      BY <2>1, <3>1, <3>3 DEF Types
    <3>5. /\ pipe' \in Pipeline /\ pipe'.state = pipe.state /\ pipe'.gen = pipe.gen
        /\ pipe'.counter = pipe.counter /\ pipe'.lease = pipe.lease
        /\ pipe'.teardown = pipe.teardown /\ pipe'.record = pipe.record
        /\ pipe'.last = pipe.last /\ pipe'.starts = 1
        /\ pipe'.continuation = pipe.continuation /\ pipe'.dirty = pipe.dirty
        /\ pipe'.proof = pipe.proof /\ pipe'.renew = pipe.renew
      BY <2>2, <3>1 DEF Pipeline
    <3> QED
      BY <2>1, <2>3, <2>4, <3>1, <3>4, <3>5, GoesWent DEF StartBegins
  <2>5. CASE UNCHANGED <<pipe, my>> /\ Goes("T", "idle")
    BY <2>1, <2>2, <2>3, <2>5, GoesWent, LooksSelf DEF StartBegins, Types
  <2>6. CASE FailsAtOnce /\ UNCHANGED pipe
    BY <2>1, <2>2, <2>3, <2>6, FailsAtOnceIs, LooksSelf DEF StartBegins
  <2> QED
    BY <2>4, <2>5, <2>6 DEF StartBegins
<1>2. Types'
  BY <1>1, Known DEF Types, Looks, LooksButLast, Softer, Budget, Went
<1>3. Places'
  BY <1>1, Known DEF Places, Went
<1>4. Owned'
  BY <1>1, Known DEF Owned, Duty, Went, Looks, LooksButLast
<1>5. HandedOn'
  BY <1>1, Known DEF HandedOn, Went, Looks, LooksButLast
<1>6. Starting'
  <2>1. pipe \in Pipeline
    BY Known DEF Types
  <2>2. CASE (Went("T", "idle") \/ Went("T", "claim")) /\ Looks(pipe, pipe')
    BY <1>1, <2>2, Known DEF Starting, Went, Looks
  <2>3. CASE Went("T", "token") /\ ~(Went("T", "idle") \/ Went("T", "claim"))
    BY <1>1, <2>1, <2>3, Known DEF Starting, Remains, Went, Pipeline, Looks
  <2> QED
    BY <1>1, <2>2, <2>3 DEF Went
<1>7. GateInv'
  BY <1>1, Known DEF GateInv, ZeroIsShut, Went, Looks, LooksButLast, Softer, Budget
<1>8. ZeroInv'
  BY <1>1, Known DEF ZeroInv, Owned, Duty, Went, Looks
<1>9. Remains'
  <2>1. CASE (Went("T", "idle") \/ Went("T", "claim")) /\ Looks(pipe, pipe')
    BY <1>1, <2>1, Known DEF Remains, Went, Looks
  <2>2. CASE Went("T", "token") /\ pipe.state = "Prepared" /\ ~pipe.teardown
    <3>1. \A th \in {"E", "R", "K"} : at[th] \notin {"again", "clean"}
      BY <2>2, Known DEF HandedOn, Owned, Duty, Places
    <3> QED
      BY <1>1, <2>2, <3>1, Known DEF Remains, Went, Looks
  <2> QED
    BY <1>1, <2>1, <2>2
<1>10. Begun'
  BY <1>1, Known DEF Begun, Went, Looks, LooksButLast
<1> QED
  BY <1>2, <1>3, <1>4, <1>5, <1>6, <1>7, <1>8, <1>9, <1>10, Kept

LEMMA StartTakesTokenKeeps ==
  ASSUME IInv, StartTakesToken
  PROVE  IInv'
<1>1. /\ at["T"] = "token" /\ UNCHANGED <<gate, box, producer, permit>> /\ Budget
      /\ Looks(pipe, pipe') /\ pipe'.proof = pipe.proof /\ pipe'.renew = pipe.renew
      /\ \E pc \in {"open", "check", "claim"} : Went("T", pc)
      /\ my' \in [Thread -> Locals]
      /\ \A u \in Thread : /\ my'[u].zero = my[u].zero /\ my'[u].gen = my[u].gen
                           /\ my'[u].lease = my[u].lease
  <2>1. Types
    BY Known
  <2>2. pipe \in Pipeline /\ my["T"] \in Locals
    BY <2>1 DEF Types
  <2>3. UNCHANGED <<gate, box, producer, permit>> /\ Budget
    BY <2>1, FaultBudget DEF StartTakesToken
  <2>4. CASE /\ pipe' = [pipe EXCEPT !.token = my["T"].gen, !.activating = TRUE]
             /\ Goes("T", "open") /\ Keeps
    <3>1. my["T"].gen \in Nat
      BY <2>2 DEF Locals
    <3>2. Looks(pipe, pipe') /\ pipe'.proof = pipe.proof /\ pipe'.renew = pipe.renew
      BY <2>2, <2>4, <3>1 DEF Looks, Pipeline
    <3> QED
      BY <2>1, <2>3, <2>4, <3>2, GoesWent, KeepsMine DEF StartTakesToken
  <2>5. CASE Aborts("safety") /\ UNCHANGED pipe
    BY <2>1, <2>2, <2>3, <2>5, AbortsIs, LooksSelf DEF StartTakesToken, Failure
  <2>6. CASE FailsAtOnce /\ UNCHANGED pipe
    BY <2>1, <2>2, <2>3, <2>6, FailsAtOnceIs, LooksSelf DEF StartTakesToken
  <2> QED
    BY <2>4, <2>5, <2>6 DEF StartTakesToken
<1>2. Types'
  BY <1>1, Known DEF Types, Looks, LooksButLast, Softer, Budget, Went
<1>3. Places'
  BY <1>1, Known DEF Places, Went
<1>4. Owned'
  BY <1>1, Known DEF Owned, Duty, Went, Looks, LooksButLast
<1>5. HandedOn'
  BY <1>1, Known DEF HandedOn, Went, Looks, LooksButLast
<1>6. Starting'
  BY <1>1, Known DEF Starting, Went, Looks, LooksButLast
<1>7. GateInv'
  BY <1>1, Known DEF GateInv, ZeroIsShut, Went, Looks, LooksButLast, Softer, Budget
<1>8. ZeroInv'
  BY <1>1, Known DEF ZeroInv, Went, Softer
<1>9. Remains'
  BY <1>1, Known DEF Remains, Went, Looks, LooksButLast
<1>10. Begun'
  BY <1>1, Known DEF Begun, Went, Looks, LooksButLast
<1> QED
  BY <1>2, <1>3, <1>4, <1>5, <1>6, <1>7, <1>8, <1>9, <1>10, Kept

LEMMA StartOpensKeeps ==
  ASSUME IInv, StartOpens
  PROVE  IInv'
<1>1. /\ at["T"] = "open" /\ UNCHANGED <<box, producer, permit>> /\ Budget
      /\ Looks(pipe, pipe') /\ pipe'.proof = pipe.proof /\ pipe'.renew = pipe.renew
      /\ \E pc \in {"activate", "check"} : Went("T", pc)
      /\ my' \in [Thread -> Locals]
      /\ \A u \in Thread : /\ my'[u].zero = my[u].zero /\ my'[u].gen = my[u].gen
                           /\ my'[u].lease = my[u].lease
      /\ gate' \in GateProcess
      /\ \/ gate' = gate
         \/ /\ gate.mode = "prepared" /\ gate.lease = my["T"].lease
            /\ gate'.mode = "armed" /\ gate'.lease = gate.lease
  <2>1. Types
    BY Known
  <2>2. pipe \in Pipeline /\ gate \in GateProcess
    BY <2>1 DEF Types
  <2> DEFINE armed == [gate EXCEPT !.mode = "armed"]
  <2>3. armed \in GateProcess /\ armed.mode = "armed" /\ armed.lease = gate.lease
    BY <2>2 DEF GateProcess
  <2>7. UNCHANGED <<box, producer, permit, pipe>> /\ Budget /\ at["T"] = "open"
    BY <2>1, FaultBudget DEF StartOpens
  <2>8. \/ gate' = gate
        \/ gate' = armed /\ gate.mode = "prepared" /\ gate.lease = my["T"].lease
    BY DEF StartOpens
  <2> HIDE DEF armed
  <2>4. /\ \/ gate' = gate
           \/ gate' = armed /\ gate.mode = "prepared" /\ gate.lease = my["T"].lease
        /\ Looks(pipe, pipe') /\ pipe'.proof = pipe.proof /\ pipe'.renew = pipe.renew
        /\ UNCHANGED <<box, producer, permit>> /\ Budget /\ at["T"] = "open"
    BY <2>2, <2>7, <2>8, LooksSelf
  <2>5. CASE Aborts("safety")
    BY <2>1, <2>2, <2>3, <2>4, <2>5, AbortsIs DEF Failure
  <2>6. CASE Goes("T", "activate") /\ my' = [my EXCEPT !["T"].permit = permit]
    <3>1. /\ my' \in [Thread -> Locals]
        /\ \A u \in Thread : /\ my'[u].zero = my[u].zero /\ my'[u].gen = my[u].gen
                             /\ my'[u].lease = my[u].lease
      BY <2>1, <2>6 DEF Types, Locals
    <3> QED
      BY <2>1, <2>2, <2>3, <2>4, <2>6, <3>1, GoesWent
  <2> QED
    BY <2>5, <2>6, <2>4 DEF StartOpens
<1>2. Types'
  BY <1>1, Known DEF Types, Looks, LooksButLast, Softer, Budget, Went
<1>3. Places'
  BY <1>1, Known DEF Places, Went
<1>4. Owned'
  BY <1>1, Known DEF Owned, Duty, Went, Looks, LooksButLast
<1>5. HandedOn'
  BY <1>1, Known DEF HandedOn, Went, Looks, LooksButLast
<1>6. Starting'
  BY <1>1, Known DEF Starting, Went, Looks, LooksButLast
<1>7. GateInv'
  BY <1>1, Known DEF GateInv, ZeroIsShut, Went, Looks, LooksButLast, Softer, Budget, Starting
<1>8. ZeroInv'
  BY <1>1, Known DEF ZeroInv, Went, Softer, Starting, Owned, Duty
<1>9. Remains'
  BY <1>1, Known DEF Remains, Went, Looks, LooksButLast
<1>10. Begun'
  BY <1>1, Known DEF Begun, Went, Looks, LooksButLast
<1> QED
  BY <1>2, <1>3, <1>4, <1>5, <1>6, <1>7, <1>8, <1>9, <1>10, Kept

LEMMA StartActivatesKeeps ==
  ASSUME IInv, StartActivates
  PROVE  IInv'
<1>1. /\ at["T"] = "activate" /\ UNCHANGED <<gate, producer, permit, pipe>>
      /\ Budget /\ box' \in Container /\ pipe.dirty
      /\ \E pc \in {"fence", "check"} : Went("T", pc)
      /\ my' \in [Thread -> Locals]
      /\ \A u \in Thread : /\ my'[u].zero = my[u].zero /\ my'[u].gen = my[u].gen
                           /\ my'[u].lease = my[u].lease
  <2>1. Types /\ at["T"] = "activate" /\ pipe.dirty
    BY Known DEF StartActivates, Starting
  <2>2. box \in Container /\ Activated(box) \in Container
    BY <2>1 DEF Types, Activated, Container
  <2>3. UNCHANGED <<gate, producer, permit, pipe>> /\ Budget /\ box' \in Container
    BY <2>1, <2>2, FaultBudget DEF StartActivates
  <2>4. CASE Goes("T", "fence") /\ Keeps
    BY <2>1, <2>3, <2>4, GoesWent, KeepsMine
  <2>5. CASE \E cause \in HealthFailure : Aborts(cause)
    BY <2>1, <2>3, <2>5, AbortsIs DEF HealthFailure, Failure
  <2> QED
    BY <2>4, <2>5 DEF StartActivates, HealthFailure
<1>2. Types'
  BY <1>1, Known DEF Types, Looks, LooksButLast, Softer, Budget, Went
<1>3. Places'
  BY <1>1, Known DEF Places, Went
<1>4. Owned'
  BY <1>1, Known DEF Owned, Duty, Went, Looks, LooksButLast
<1>5. HandedOn'
  BY <1>1, Known DEF HandedOn, Went, Looks, LooksButLast
<1>6. Starting'
  BY <1>1, Known DEF Starting, Went, Looks, LooksButLast
<1>7. GateInv'
  BY <1>1, Known DEF GateInv, ZeroIsShut, Went, Looks, LooksButLast, Softer, Budget
<1>8. ZeroInv'
  BY <1>1, Known DEF ZeroInv, Went, Softer
<1>9. Remains'
  BY <1>1, Known DEF Remains, Went, Looks, LooksButLast
<1>10. Begun'
  BY <1>1, Known DEF Begun, Went, Looks, LooksButLast
<1> QED
  BY <1>2, <1>3, <1>4, <1>5, <1>6, <1>7, <1>8, <1>9, <1>10, Kept

LEMMA StartFencesKeeps ==
  ASSUME IInv, StartFences
  PROVE  IInv'
<1>1. /\ at["T"] = "fence" /\ UNCHANGED <<gate, box, producer, permit, pipe>>
      /\ Budget
      /\ \E pc \in {"produce", "check"} : Went("T", pc)
      /\ my' \in [Thread -> Locals]
      /\ \A u \in Thread : /\ my'[u].zero = my[u].zero /\ my'[u].gen = my[u].gen
                           /\ my'[u].lease = my[u].lease
  <2>1. Types /\ at["T"] = "fence"
    BY Known DEF StartFences
  <2>2. UNCHANGED <<gate, box, producer, permit, pipe>> /\ Budget
    BY <2>1, FaultBudget DEF StartFences
  <2>3. CASE Goes("T", "produce") /\ Keeps
    BY <2>1, <2>2, <2>3, GoesWent, KeepsMine
  <2>4. CASE \E cause \in HealthFailure : Aborts(cause)
    BY <2>1, <2>2, <2>4, AbortsIs DEF HealthFailure, Failure
  <2> QED
    BY <2>3, <2>4 DEF StartFences, HealthFailure
<1>2. Types'
  BY <1>1, Known DEF Types, Looks, LooksButLast, Softer, Budget, Went
<1>3. Places'
  BY <1>1, Known DEF Places, Went
<1>4. Owned'
  BY <1>1, Known DEF Owned, Duty, Went, Looks, LooksButLast
<1>5. HandedOn'
  BY <1>1, Known DEF HandedOn, Went, Looks, LooksButLast
<1>6. Starting'
  BY <1>1, Known DEF Starting, Went, Looks, LooksButLast
<1>7. GateInv'
  BY <1>1, Known DEF GateInv, ZeroIsShut, Went, Looks, LooksButLast, Softer, Budget
<1>8. ZeroInv'
  BY <1>1, Known DEF ZeroInv, Went, Softer
<1>9. Remains'
  BY <1>1, Known DEF Remains, Went, Looks, LooksButLast
<1>10. Begun'
  BY <1>1, Known DEF Begun, Went, Looks, LooksButLast
<1> QED
  BY <1>2, <1>3, <1>4, <1>5, <1>6, <1>7, <1>8, <1>9, <1>10, Kept

LEMMA StartProducesKeeps ==
  ASSUME IInv, StartProduces
  PROVE  IInv'
<1>1. /\ at["T"] = "produce" /\ UNCHANGED <<gate, box, permit, pipe, spent>>
      /\ pipe.dirty /\ pipe.starts = 1
      /\ \/ Went("T", "commit") /\ producer' = "on"
         \/ Went("T", "check") /\ producer' = producer
      /\ my' \in [Thread -> Locals]
      /\ \A u \in Thread : /\ my'[u].zero = my[u].zero /\ my'[u].gen = my[u].gen
                           /\ my'[u].lease = my[u].lease
  <2>1. Types /\ at["T"] = "produce" /\ pipe.dirty /\ pipe.starts = 1
    BY Known DEF StartProduces, Starting
  <2>2. CASE producer' = "on" /\ Goes("T", "commit") /\ Keeps
    BY <2>1, <2>2, GoesWent, KeepsMine DEF StartProduces
  <2>3. CASE UNCHANGED producer /\ Aborts("safety")
    BY <2>1, <2>3, AbortsIs DEF StartProduces, Failure
  <2> QED
    BY <2>2, <2>3 DEF StartProduces
<1>2. Types'
  BY <1>1, Known DEF Types, Looks, LooksButLast, Softer, Budget, Went
<1>3. Places'
  BY <1>1, Known DEF Places, Went
<1>4. Owned'
  BY <1>1, Known DEF Owned, Duty, Went, Looks, LooksButLast
<1>5. HandedOn'
  BY <1>1, Known DEF HandedOn, Went, Looks, LooksButLast
<1>6. Starting'
  BY <1>1, Known DEF Starting, Went, Looks, LooksButLast
<1>7. GateInv'
  BY <1>1, Known DEF GateInv, ZeroIsShut, Went, Looks, LooksButLast, Softer, Budget
<1>8. ZeroInv'
  BY <1>1, Known DEF ZeroInv, Went, Softer
<1>9. Remains'
  BY <1>1, Known DEF Remains, Went, Looks, LooksButLast
<1>10. Begun'
  BY <1>1, Known DEF Begun, Went, Looks, LooksButLast
<1> QED
  BY <1>2, <1>3, <1>4, <1>5, <1>6, <1>7, <1>8, <1>9, <1>10, Kept

LEMMA StartCommitsKeeps ==
  ASSUME IInv, StartCommits
  PROVE  IInv'
<1>1. /\ at["T"] = "commit" /\ UNCHANGED <<gate, box, permit, spent>>
      /\ pipe.dirty /\ pipe.starts = 1
      /\ \/ /\ Went("T", "up") /\ producer' = producer
            /\ pipe.state = "Prepared"
            /\ pipe' \in Pipeline /\ pipe'.state = "Running" /\ pipe'.gen = pipe.gen
            /\ pipe'.counter = pipe.counter /\ pipe'.lease = pipe.lease
            /\ pipe'.teardown = pipe.teardown /\ pipe'.record = pipe.record
            /\ pipe'.starts = 0 /\ pipe'.continuation = pipe.continuation
            /\ pipe'.dirty = pipe.dirty /\ pipe'.proof = pipe.proof
         \/ Went("T", "check") /\ producer' = "off" /\ pipe' = pipe
      /\ my' \in [Thread -> Locals]
      /\ \A u \in Thread : /\ my'[u].zero = my[u].zero /\ my'[u].gen = my[u].gen
                           /\ my'[u].lease = my[u].lease
  <2>1. Types /\ at["T"] = "commit" /\ pipe.dirty /\ pipe.starts = 1
    BY Known DEF StartCommits, Starting
  <2>2. UNCHANGED <<gate, box, permit, spent>> /\ pipe \in Pipeline
    BY <2>1 DEF StartCommits, Types
  <2> DEFINE r == Result(TRUE, "none", FALSE)
  <2>3. r \in Outcome
    BY ResultIs DEF Failure
  <2>4. \/ /\ ActivationCurrent(pipe, my["T"].gen)
           /\ Goes("T", "up") /\ UNCHANGED <<producer, my>>
           /\ pipe' = [pipe EXCEPT !.state = "Running", !.activating = FALSE,
                                   !.renew = TRUE, !.starts = 0, !.last = r]
        \/ producer' = "off" /\ Aborts("safety") /\ UNCHANGED pipe
    BY DEF StartCommits
  <2> HIDE DEF r
  <2>5. CASE /\ ActivationCurrent(pipe, my["T"].gen)
             /\ Goes("T", "up") /\ UNCHANGED <<producer, my>>
             /\ pipe' = [pipe EXCEPT !.state = "Running", !.activating = FALSE,
                                     !.renew = TRUE, !.starts = 0, !.last = r]
    <3>1. /\ pipe' \in Pipeline /\ pipe'.state = "Running" /\ pipe'.gen = pipe.gen
          /\ pipe'.counter = pipe.counter /\ pipe'.lease = pipe.lease
          /\ pipe'.teardown = pipe.teardown /\ pipe'.record = pipe.record
          /\ pipe'.starts = 0 /\ pipe'.continuation = pipe.continuation
          /\ pipe'.dirty = pipe.dirty /\ pipe'.proof = pipe.proof
      BY <2>2, <2>3, <2>5 DEF Pipeline
    <3>2. pipe.state = "Prepared"
      BY <2>5 DEF ActivationCurrent
    <3> QED
      BY <2>1, <2>2, <2>5, <3>1, <3>2, GoesWent, KeepsMine DEF Keeps
  <2>6. CASE producer' = "off" /\ Aborts("safety") /\ UNCHANGED pipe
    BY <2>1, <2>2, <2>6, AbortsIs DEF Failure
  <2> QED
    BY <2>4, <2>5, <2>6
<1>2. Types'
  BY <1>1, Known DEF Types, Looks, LooksButLast, Softer, Budget, Went
<1>3. Places'
  BY <1>1, Known DEF Places, Went
<1>4. Owned'
  BY <1>1, Known DEF Owned, Duty, Went, Looks, LooksButLast
<1>5. HandedOn'
  BY <1>1, Known DEF HandedOn, Went, Looks, LooksButLast
<1>6. Starting'
  <2>1. pipe'.gen = pipe'.counter
    BY <1>1, Known DEF Starting
  <2>2. at'["T"] \in {"up", "check"} /\ (at'["T"] = "up" => pipe'.starts = 0)
    BY <1>1 DEF Went
  <2> QED
    BY <2>1, <2>2 DEF Starting
<1>7. GateInv'
  BY <1>1, Known DEF GateInv, ZeroIsShut, Went, Looks, LooksButLast, Softer, Budget
<1>8. ZeroInv'
  BY <1>1, Known DEF ZeroInv, Went, Softer
<1>9. Remains'
  BY <1>1, Known DEF Remains, Went, Looks, LooksButLast
<1>10. Begun'
  BY <1>1, Known DEF Begun, Went, Looks, LooksButLast
<1> QED
  BY <1>2, <1>3, <1>4, <1>5, <1>6, <1>7, <1>8, <1>9, <1>10, Kept

LEMMA StartAbortsKeeps ==
  ASSUME IInv, StartAborts
  PROVE  IInv'
<1>1. /\ at["T"] = "check" /\ UNCHANGED <<gate, box, producer, permit, pipe, spent>>
      /\ \E pc \in {"claim", "leave", "await"} : Went("T", pc)
      /\ my' \in [Thread -> Locals]
      /\ \A u \in Thread : /\ my'[u].zero = my[u].zero /\ my'[u].gen = my[u].gen
                           /\ my'[u].lease = my[u].lease
  <2>1. Types /\ at["T"] = "check"
    BY Known DEF StartAborts
  <2>2. Goes("T", "claim") \/ Goes("T", "leave") \/ Goes("T", "await")
    BY DEF StartAborts
  <2> QED
    BY <2>1, <2>2, GoesWent, KeepsMine DEF StartAborts, Still
<1>2. Types'
  BY <1>1, Known DEF Types, Looks, LooksButLast, Softer, Budget, Went
<1>3. Places'
  BY <1>1, Known DEF Places, Went
<1>4. Owned'
  BY <1>1, Known DEF Owned, Duty, Went, Looks, LooksButLast
<1>5. HandedOn'
  BY <1>1, Known DEF HandedOn, Went, Looks, LooksButLast
<1>6. Starting'
  BY <1>1, Known DEF Starting, Went, Looks, LooksButLast
<1>7. GateInv'
  BY <1>1, Known DEF GateInv, ZeroIsShut, Went, Looks, LooksButLast, Softer, Budget
<1>8. ZeroInv'
  BY <1>1, Known DEF ZeroInv, Went, Softer
<1>9. Remains'
  BY <1>1, Known DEF Remains, Went, Looks, LooksButLast
<1>10. Begun'
  BY <1>1, Known DEF Begun, Went, Looks, LooksButLast
<1> QED
  BY <1>2, <1>3, <1>4, <1>5, <1>6, <1>7, <1>8, <1>9, <1>10, Kept

LEMMA MotionEndsKeeps ==
  ASSUME IInv, MotionEnds
  PROVE  IInv'
<1>1. /\ at["T"] = "up" /\ UNCHANGED <<gate, box, producer, permit, pipe, spent>>
      /\ Went("T", "claim")
      /\ my' \in [Thread -> Locals]
      /\ \A u \in Thread : /\ my'[u].zero = my[u].zero /\ my'[u].gen = my[u].gen
                           /\ my'[u].lease = my[u].lease
  <2>1. Types /\ at["T"] = "up"
    BY Known DEF MotionEnds
  <2>2. PICK cause \in {"none", "execution", "loss"} :
          my' = [my EXCEPT !["T"].cause = cause, !["T"].expect = my["T"].home,
                           !["T"].kind = IF cause = "none" THEN "stop" ELSE "token"]
    BY DEF MotionEnds
  <2> DEFINE m == [my["T"] EXCEPT !.cause = cause, !.expect = my["T"].home,
                                  !.kind = IF cause = "none" THEN "stop" ELSE "token"]
  <2>3. my["T"] \in Locals /\ my' = [my EXCEPT !["T"] = m]
    BY <2>1, <2>2 DEF Types
  <2>4. m \in Locals /\ m.zero = my["T"].zero /\ m.gen = my["T"].gen /\ m.lease = my["T"].lease
    BY <2>3 DEF Locals, Failure
  <2> HIDE DEF m
  <2>5. /\ my' \in [Thread -> Locals]
        /\ \A u \in Thread : /\ my'[u].zero = my[u].zero /\ my'[u].gen = my[u].gen
                             /\ my'[u].lease = my[u].lease
    BY <2>1, <2>3, <2>4 DEF Types
  <2> QED
    BY <2>1, <2>5, GoesWent DEF MotionEnds, Still
<1>2. Types'
  BY <1>1, Known DEF Types, Looks, LooksButLast, Softer, Budget, Went
<1>3. Places'
  BY <1>1, Known DEF Places, Went
<1>4. Owned'
  BY <1>1, Known DEF Owned, Duty, Went, Looks, LooksButLast
<1>5. HandedOn'
  BY <1>1, Known DEF HandedOn, Went, Looks, LooksButLast
<1>6. Starting'
  BY <1>1, Known DEF Starting, Went, Looks, LooksButLast
<1>7. GateInv'
  BY <1>1, Known DEF GateInv, ZeroIsShut, Went, Looks, LooksButLast, Softer, Budget
<1>8. ZeroInv'
  BY <1>1, Known DEF ZeroInv, Went, Softer
<1>9. Remains'
  BY <1>1, Known DEF Remains, Went, Looks, LooksButLast
<1>10. Begun'
  BY <1>1, Known DEF Begun, Went, Looks, LooksButLast
<1> QED
  BY <1>2, <1>3, <1>4, <1>5, <1>6, <1>7, <1>8, <1>9, <1>10, Kept

\* A generation that ends fences the start that holds it.
LEMMA FencesStart ==
  ASSUME IInv, pipe'.gen = pipe.counter + 1, pipe'.counter = pipe.counter + 1,
         pipe'.starts = pipe.starts, pipe'.dirty = pipe.dirty,
         at'["T"] \in {at["T"]} \cup WaitPlace \cup TearPlace, my'["T"].gen = my["T"].gen
  PROVE  Starting'
<1>1. pipe.gen \in Nat /\ pipe.counter \in Nat /\ my["T"].gen \in Nat
  BY Known DEF Types, Pipeline, Locals
<1> QED
  BY <1>1, Known DEF Starting

-----------------------------------------------------------------------------

LEMMA RenewLooksKeeps ==
  ASSUME IInv, RenewLooks
  PROVE  IInv'
<1>1. /\ at["R"] = "idle" /\ pipe.renew
      /\ UNCHANGED <<gate, box, producer, permit, spent>>
      /\ Looks(pipe, pipe') /\ pipe'.proof = pipe.proof /\ pipe'.renew = pipe.renew
      /\ \E pc \in {"ask", "leave"} : Went("R", pc)
      /\ my' \in [Thread -> Locals] /\ \A u \in Thread : my'[u].zero => my[u].zero
      /\ my'["T"] = my["T"]
  <2>1. Types /\ at["R"] = "idle" /\ pipe.renew
    BY Known DEF RenewLooks
  <2>2. pipe \in Pipeline /\ permit \in Nat /\ Blank \in Locals /\ ~Blank.zero
    BY <2>1, BlankIs DEF Types
  <2> DEFINE c == IF pipe.collision THEN "execution" ELSE "none"
             m == [Blank EXCEPT !.gen = pipe.token, !.lease = pipe.lease,
                                !.permit = permit, !.kind = "renew", !.cause = c]
  <2>3. my' = [my EXCEPT !["R"] = m]
    BY DEF RenewLooks
  <2>4. pipe.token \in Nat /\ pipe.lease \in Nat /\ c \in Failure
    BY <2>2 DEF Pipeline, Failure
  <2> HIDE DEF c
  <2>5. m \in Locals /\ ~m.zero
    BY <2>2, <2>4 DEF Locals
  <2> HIDE DEF m
  <2>6. /\ my' \in [Thread -> Locals] /\ \A u \in Thread : my'[u].zero => my[u].zero
        /\ my'["T"] = my["T"]
    BY <2>1, <2>3, <2>5 DEF Types
  <2>7. Looks(pipe, pipe') /\ pipe'.proof = pipe.proof /\ pipe'.renew = pipe.renew
    BY <2>2 DEF RenewLooks, Looks, Pipeline
  <2>8. Goes("R", "ask") \/ Goes("R", "leave")
    BY DEF RenewLooks
  <2> QED
    BY <2>1, <2>6, <2>7, <2>8, GoesWent DEF RenewLooks, Still
<1>2. Types'
  BY <1>1, Known DEF Types, Looks, LooksButLast, Softer, Budget, Went
<1>3. Places'
  BY <1>1, Known DEF Places, Went
<1>4. Owned'
  BY <1>1, Known DEF Owned, Duty, Went, Looks, LooksButLast
<1>5. HandedOn'
  BY <1>1, Known DEF HandedOn, Went, Looks, LooksButLast
<1>6. Starting'
  BY <1>1, Known DEF Starting, Went, Looks, LooksButLast
<1>7. GateInv'
  BY <1>1, Known DEF GateInv, ZeroIsShut, Went, Looks, LooksButLast, Softer, Budget
<1>8. ZeroInv'
  BY <1>1, Known DEF ZeroInv, Went, Softer
<1>9. Remains'
  BY <1>1, Known DEF Remains, Went, Looks, LooksButLast
<1>10. Begun'
  BY <1>1, Known DEF Begun, Went, Looks, LooksButLast
<1> QED
  BY <1>2, <1>3, <1>4, <1>5, <1>6, <1>7, <1>8, <1>9, <1>10, Kept

LEMMA RenewAsksKeeps ==
  ASSUME IInv, RenewAsks
  PROVE  IInv'
<1>1. /\ at["R"] = "ask" /\ UNCHANGED <<gate, box, producer, permit, pipe>>
      /\ Budget
      /\ \E pc \in {"match", "leave"} : Went("R", pc)
      /\ my' \in [Thread -> Locals]
      /\ \A u \in Thread : /\ my'[u].zero = my[u].zero /\ my'[u].gen = my[u].gen
                           /\ my'[u].lease = my[u].lease
  <2>1. Types /\ at["R"] = "ask"
    BY Known DEF RenewAsks
  <2> DEFINE fails(cause, maybe) ==
               /\ Goes("R", "match")
               /\ my' = [my EXCEPT !["R"].cause = cause, !["R"].maybe = maybe,
                           !["R"].expect = IF cause = "loss" \/ maybe THEN pipe.home ELSE 0]
  <2>2. ASSUME NEW cause \in Failure, NEW maybe \in BOOLEAN, fails(cause, maybe)
        PROVE  /\ Went("R", "match")
               /\ my' \in [Thread -> Locals]
               /\ \A u \in Thread : /\ my'[u].zero = my[u].zero /\ my'[u].gen = my[u].gen
                                    /\ my'[u].lease = my[u].lease
    <3> DEFINE e == IF cause = "loss" \/ maybe THEN pipe.home ELSE 0
               m == [my["R"] EXCEPT !.cause = cause, !.maybe = maybe, !.expect = e]
    <3>1. e \in Nat /\ my["R"] \in Locals
      BY <2>1 DEF Types, Pipeline
    <3>2. my' = [my EXCEPT !["R"] = m]
      BY <2>1, <2>2, <3>1 DEF Types
    <3> HIDE DEF e
    <3>3. m \in Locals /\ m.zero = my["R"].zero /\ m.gen = my["R"].gen /\ m.lease = my["R"].lease
      BY <3>1 DEF Locals
    <3> HIDE DEF m
    <3>4. /\ my' \in [Thread -> Locals]
          /\ \A u \in Thread : /\ my'[u].zero = my[u].zero /\ my'[u].gen = my[u].gen
                               /\ my'[u].lease = my[u].lease
      BY <2>1, <3>2, <3>3 DEF Types
    <3> QED
      BY <2>1, <2>2, <3>4, GoesWent
  <2>3. \/ Goes("R", "leave") /\ Keeps
        \/ \E cause \in Failure, maybe \in BOOLEAN : fails(cause, maybe)
    <3>1. /\ {"execution", "dependency", "safety", "loss"} \subseteq Failure
          /\ TRUE \in BOOLEAN /\ FALSE \in BOOLEAN
      BY DEF Failure
    <3>3. (~gate.up) \in BOOLEAN
      BY <2>1 DEF Types, GateProcess
    <3> HIDE DEF fails
    <3>2. \/ Goes("R", "leave") /\ Keeps
          \/ fails("execution", FALSE) \/ fails("dependency", FALSE)
          \/ fails("safety", TRUE) \/ fails("safety", FALSE) \/ fails("loss", ~gate.up)
      BY DEF RenewAsks, HealthFailure, fails
    <3> QED
      BY <3>1, <3>2, <3>3
  <2>4. UNCHANGED <<gate, box, producer, permit, pipe>> /\ Budget
    BY <2>1, FaultBudget DEF RenewAsks
  <2>5. CASE Goes("R", "leave") /\ Keeps
    BY <2>1, <2>4, <2>5, GoesWent, KeepsMine
  <2> HIDE DEF fails
  <2> QED
    BY <2>1, <2>2, <2>3, <2>4, <2>5
<1>2. Types'
  BY <1>1, Known DEF Types, Looks, LooksButLast, Softer, Budget, Went
<1>3. Places'
  BY <1>1, Known DEF Places, Went
<1>4. Owned'
  BY <1>1, Known DEF Owned, Duty, Went, Looks, LooksButLast
<1>5. HandedOn'
  BY <1>1, Known DEF HandedOn, Went, Looks, LooksButLast
<1>6. Starting'
  BY <1>1, Known DEF Starting, Went, Looks, LooksButLast
<1>7. GateInv'
  BY <1>1, Known DEF GateInv, ZeroIsShut, Went, Looks, LooksButLast, Softer, Budget
<1>8. ZeroInv'
  BY <1>1, Known DEF ZeroInv, Went, Softer
<1>9. Remains'
  BY <1>1, Known DEF Remains, Went, Looks, LooksButLast
<1>10. Begun'
  BY <1>1, Known DEF Begun, Went, Looks, LooksButLast
<1> QED
  BY <1>2, <1>3, <1>4, <1>5, <1>6, <1>7, <1>8, <1>9, <1>10, Kept

LEMMA RenewMatchesKeeps ==
  ASSUME IInv, RenewMatches
  PROVE  IInv'
<1>1. /\ at["R"] = "match" /\ UNCHANGED <<gate, box, producer, permit, pipe, my, spent>>
      /\ \E pc \in {"grab", "leave"} : Went("R", pc)
  <2>1. Types /\ at["R"] = "match"
    BY Known DEF RenewMatches
  <2>2. Goes("R", "grab") \/ Goes("R", "leave")
    BY DEF RenewMatches
  <2> QED
    BY <2>1, <2>2, GoesWent DEF RenewMatches, Still
<1>2. Types'
  BY <1>1, Known DEF Types, Looks, LooksButLast, Softer, Budget, Went
<1>3. Places'
  BY <1>1, Known DEF Places, Went
<1>4. Owned'
  BY <1>1, Known DEF Owned, Duty, Went, Looks, LooksButLast
<1>5. HandedOn'
  BY <1>1, Known DEF HandedOn, Went, Looks, LooksButLast
<1>6. Starting'
  BY <1>1, Known DEF Starting, Went, Looks, LooksButLast
<1>7. GateInv'
  BY <1>1, Known DEF GateInv, ZeroIsShut, Went, Looks, LooksButLast, Softer, Budget
<1>8. ZeroInv'
  BY <1>1, Known DEF ZeroInv, Went, Softer
<1>9. Remains'
  BY <1>1, Known DEF Remains, Went, Looks, LooksButLast
<1>10. Begun'
  BY <1>1, Known DEF Begun, Went, Looks, LooksButLast
<1> QED
  BY <1>2, <1>3, <1>4, <1>5, <1>6, <1>7, <1>8, <1>9, <1>10, Kept

LEMMA RenewGrabsKeeps ==
  ASSUME IInv, RenewGrabs
  PROVE  IInv'
<1>1. /\ at["R"] = "grab" /\ UNCHANGED <<gate, box, producer, permit, my, spent>>
      /\ \/ Went("R", "leave") /\ pipe' = pipe
         \/ /\ Went("R", "zero") /\ ~pipe.teardown /\ pipe.record = NoRecord
            /\ pipe.continuation = "never"
            /\ pipe' \in Pipeline /\ pipe'.state = pipe.state
            /\ pipe'.gen = pipe.counter + 1 /\ pipe'.counter = pipe.counter + 1
            /\ pipe'.lease = pipe.lease /\ pipe'.teardown /\ pipe'.record = pipe.record
            /\ pipe'.last = pipe.last /\ pipe'.starts = pipe.starts
            /\ pipe'.continuation = pipe.continuation /\ pipe'.dirty = pipe.dirty
            /\ pipe'.proof = pipe.proof /\ ~pipe'.renew
  <2>1. Types /\ at["R"] = "grab"
    BY Known DEF RenewGrabs
  <2>2. UNCHANGED <<gate, box, producer, permit, my, spent>> /\ pipe \in Pipeline
    BY <2>1 DEF RenewGrabs, Keeps, Still, Types
  <2>3. CASE pipe.teardown \/ pipe.record # NoRecord
    BY <2>1, <2>2, <2>3, GoesWent DEF RenewGrabs
  <2>4. CASE ~pipe.teardown /\ pipe.record = NoRecord
    <3>1. pipe.continuation = "never"
      BY <2>4, NeverHandedOn
    <3>2. pipe' = Claimed(pipe) /\ Goes("R", "zero")
      BY <2>4 DEF RenewGrabs
    <3> QED
      BY <2>1, <2>2, <2>4, <3>1, <3>2, ClaimedIs, GoesWent
  <2> QED
    BY <2>3, <2>4
<1>2. Types'
  BY <1>1, Known DEF Types, Looks, LooksButLast, Softer, Budget, Went
<1>3. Places'
  BY <1>1, Known DEF Places, Went
<1>4. Owned'
  BY <1>1, Known DEF Owned, Duty, Went, Looks, LooksButLast
<1>5. HandedOn'
  BY <1>1, Known DEF HandedOn, Went, Looks, LooksButLast
<1>6. Starting'
  <2>1. CASE pipe' = pipe
    BY <1>1, <2>1, Known DEF Starting, Went
  <2>2. CASE pipe'.gen = pipe.counter + 1 /\ pipe' # pipe
    BY <1>1, <2>2, FencesStart DEF Went
  <2> QED
    BY <1>1, <2>1, <2>2
<1>7. GateInv'
  BY <1>1, Known DEF GateInv, ZeroIsShut, Went, Looks, LooksButLast, Softer, Budget
<1>8. ZeroInv'
  BY <1>1, Known DEF ZeroInv, Went, Softer
<1>9. Remains'
  BY <1>1, Known DEF Remains, Went, Looks, LooksButLast
<1>10. Begun'
  BY <1>1, Known DEF Begun, Went, Looks, LooksButLast
<1> QED
  BY <1>2, <1>3, <1>4, <1>5, <1>6, <1>7, <1>8, <1>9, <1>10, Kept

LEMMA EmergencyStopKeeps ==
  ASSUME IInv, EmergencyStop
  PROVE  IInv'
<1>1. /\ at["E"] = "idle" /\ UNCHANGED <<gate, box, producer, permit, pipe>>
      /\ at["T"] \notin StartupPlace \cup {"broken"}
      /\ Went("E", "claim") /\ Budget
      /\ my' \in [Thread -> Locals] /\ \A u \in Thread : my'[u].zero => my[u].zero
      /\ my'["T"] = my["T"]
  <2>1. Types /\ at["E"] = "idle" /\ at["T"] \notin StartupPlace \cup {"broken"}
    BY Known DEF EmergencyStop
  <2> DEFINE m == [Blank EXCEPT !.kind = "stop"]
             n == spent.stops + 1
  <2>2. m \in Locals /\ ~m.zero
    BY BlankIs DEF Locals
  <2>3. my' = [my EXCEPT !["E"] = m] /\ spent' = [spent EXCEPT !.stops = n]
    BY DEF EmergencyStop
  <2>4. n \in Nat
    BY <2>1 DEF Types
  <2> HIDE DEF m, n
  <2>5. Budget
    BY <2>1, <2>3, <2>4 DEF Budget, Types
  <2>6. /\ my' \in [Thread -> Locals] /\ \A u \in Thread : my'[u].zero => my[u].zero
        /\ my'["T"] = my["T"]
    BY <2>1, <2>2, <2>3 DEF Types
  <2> QED
    BY <2>1, <2>5, <2>6, GoesWent DEF EmergencyStop
<1>2. Types'
  BY <1>1, Known DEF Types, Looks, LooksButLast, Softer, Budget, Went
<1>3. Places'
  BY <1>1, Known DEF Places, Went
<1>4. Owned'
  BY <1>1, Known DEF Owned, Duty, Went, Looks, LooksButLast
<1>5. HandedOn'
  BY <1>1, Known DEF HandedOn, Went, Looks, LooksButLast
<1>6. Starting'
  BY <1>1, Known DEF Starting, Went, Looks, LooksButLast
<1>7. GateInv'
  BY <1>1, Known DEF GateInv, ZeroIsShut, Went, Looks, LooksButLast, Softer, Budget
<1>8. ZeroInv'
  BY <1>1, Known DEF ZeroInv, Went, Softer
<1>9. Remains'
  BY <1>1, Known DEF Remains, Went, Looks, LooksButLast
<1>10. Begun'
  BY <1>1, Known DEF Begun, Went, Looks, LooksButLast
<1> QED
  BY <1>2, <1>3, <1>4, <1>5, <1>6, <1>7, <1>8, <1>9, <1>10, Kept

-----------------------------------------------------------------------------

LEMMA ClaimsKeeps ==
  ASSUME IInv, NEW th \in Caller, Claims(th)
  PROVE  IInv'
<1>1. /\ at[th] = "claim" /\ UNCHANGED <<gate, box, producer, permit, my, spent>>
      /\ \/ pipe' = pipe /\ \E pc \in {"await", "leave"} : Went(th, pc)
         \/ /\ pipe.teardown /\ Went(th, "takeover")
            /\ pipe' \in Pipeline /\ pipe'.state = pipe.state
            /\ pipe'.gen = pipe.counter + 1 /\ pipe'.counter = pipe.counter + 1
            /\ pipe'.lease = pipe.lease /\ pipe'.teardown = pipe.teardown
            /\ pipe'.record = pipe.record /\ pipe'.last = pipe.last
            /\ pipe'.starts = pipe.starts /\ pipe'.continuation = pipe.continuation
            /\ pipe'.dirty = pipe.dirty /\ pipe'.proof = pipe.proof
            /\ pipe'.renew = pipe.renew
         \/ /\ ~pipe.teardown /\ pipe.record = NoRecord /\ pipe.continuation = "never"
            /\ \E pc \in {"zero", "quiet"} : Went(th, pc)
            /\ pipe' \in Pipeline /\ pipe'.state = pipe.state
            /\ pipe'.gen = pipe.counter + 1 /\ pipe'.counter = pipe.counter + 1
            /\ pipe'.lease = pipe.lease /\ pipe'.teardown /\ pipe'.record = pipe.record
            /\ pipe'.last = pipe.last /\ pipe'.starts = pipe.starts
            /\ pipe'.continuation = pipe.continuation /\ pipe'.dirty = pipe.dirty
            /\ pipe'.proof = pipe.proof /\ ~pipe'.renew
  <2>1. Types /\ at[th] = "claim"
    BY Known DEF Claims
  <2>2. UNCHANGED <<gate, box, producer, permit, my, spent>> /\ pipe \in Pipeline
    BY <2>1 DEF Claims, Keeps, Still, Types
  <2> DEFINE i == Invalidated(pipe)
  <2>3. CASE pipe.teardown /\ pipe' = [i EXCEPT !.cancel = TRUE] /\ Goes(th, "takeover")
    <3>1. /\ i \in Pipeline /\ i.state = pipe.state
          /\ i.gen = pipe.counter + 1 /\ i.counter = pipe.counter + 1
          /\ i.lease = pipe.lease /\ i.teardown = pipe.teardown
          /\ i.record = pipe.record /\ i.last = pipe.last
          /\ i.starts = pipe.starts /\ i.continuation = pipe.continuation
          /\ i.dirty = pipe.dirty /\ i.proof = pipe.proof
          /\ i.renew = pipe.renew
      BY <2>2, InvalidatedIs
    <3> HIDE DEF i
    <3>2. /\ pipe' \in Pipeline /\ pipe'.state = i.state /\ pipe'.gen = i.gen
          /\ pipe'.counter = i.counter /\ pipe'.lease = i.lease
          /\ pipe'.teardown = i.teardown /\ pipe'.record = i.record
          /\ pipe'.last = i.last /\ pipe'.starts = i.starts
          /\ pipe'.continuation = i.continuation /\ pipe'.dirty = i.dirty
          /\ pipe'.proof = i.proof /\ pipe'.renew = i.renew
      BY <2>3, <3>1 DEF Pipeline
    <3> QED
      BY <2>1, <2>2, <2>3, <3>1, <3>2, GoesWent
  <2>4. CASE UNCHANGED pipe /\ (Goes(th, "await") \/ Goes(th, "leave"))
    BY <2>1, <2>2, <2>4, GoesWent
  <2>5. CASE /\ ~pipe.teardown /\ pipe.record = NoRecord
             /\ pipe' = Claimed(pipe) /\ Goes(th, First(th))
    <3>1. pipe.continuation = "never" /\ First(th) \in {"zero", "quiet"}
      BY <2>5, NeverHandedOn DEF First
    <3>2. Went(th, First(th))
      BY <2>1, <2>5, <3>1, GoesWent
    <3> QED
      BY <2>1, <2>2, <2>5, <3>1, <3>2, ClaimedIs
  <2> HIDE DEF i
  <2>6. \/ pipe.teardown /\ pipe' = [i EXCEPT !.cancel = TRUE] /\ Goes(th, "takeover")
        \/ UNCHANGED pipe /\ (Goes(th, "await") \/ Goes(th, "leave"))
        \/ /\ ~pipe.teardown /\ pipe.record = NoRecord
           /\ pipe' = Claimed(pipe) /\ Goes(th, First(th))
    BY DEF Claims, i
  <2> QED
    BY <2>3, <2>4, <2>5, <2>6
<1>2. Types'
  BY <1>1, Known DEF Types, Looks, LooksButLast, Softer, Budget, Went
<1>3. Places'
  BY <1>1, Known DEF Places, Went
<1>4. Owned'
  BY <1>1, Known DEF Owned, Duty, Went, Looks, LooksButLast
<1>5. HandedOn'
  BY <1>1, Known DEF HandedOn, Went, Looks, LooksButLast
<1>6. Starting'
  <2>1. CASE pipe' = pipe
    BY <1>1, <2>1, Known DEF Starting, Went
  <2>2. CASE pipe'.gen = pipe.counter + 1 /\ pipe' # pipe
    BY <1>1, <2>2, FencesStart DEF Went
  <2> QED
    BY <1>1, <2>1, <2>2
<1>7. GateInv'
  BY <1>1, Known DEF GateInv, ZeroIsShut, Went, Looks, LooksButLast, Softer, Budget
<1>8. ZeroInv'
  BY <1>1, Known DEF ZeroInv, Went, Softer
<1>9. Remains'
  BY <1>1, Known DEF Remains, Went, Looks, LooksButLast
<1>10. Begun'
  BY <1>1, Known DEF Begun, Went, Looks, LooksButLast
<1> QED
  BY <1>2, <1>3, <1>4, <1>5, <1>6, <1>7, <1>8, <1>9, <1>10, Kept

LEMMA TakesOverKeeps ==
  ASSUME IInv, NEW th \in Caller, TakesOver(th)
  PROVE  IInv'
<1>1. /\ at[th] = "takeover" /\ UNCHANGED <<box, producer, permit, my>>
      /\ Went(th, "rejoin")
      /\ Looks(pipe, pipe') /\ pipe'.renew = pipe.renew
      /\ Softer /\ Budget
      /\ \/ pipe'.proof = pipe.proof
         \/ pipe'.proof = pipe.lease /\ gate'.mode = "idle"
  <2>1. Types /\ at[th] = "takeover" /\ Went(th, "rejoin")
    BY Known, GoesWent DEF TakesOver
  <2>2. PICK zero \in BOOLEAN : InhibitGate(zero) /\ pipe' = Proven(pipe, zero)
    BY DEF TakesOver
  <2>3. pipe \in Pipeline
    BY <2>1 DEF Types
  <2> QED
    BY <2>1, <2>2, <2>3, ProvenIs, InhibitIs DEF TakesOver, Keeps
<1>2. Types'
  BY <1>1, Known DEF Types, Looks, LooksButLast, Softer, Budget, Went
<1>3. Places'
  BY <1>1, Known DEF Places, Went
<1>4. Owned'
  BY <1>1, Known DEF Owned, Duty, Went, Looks, LooksButLast
<1>5. HandedOn'
  BY <1>1, Known DEF HandedOn, Went, Looks, LooksButLast
<1>6. Starting'
  BY <1>1, Known DEF Starting, Went, Looks, LooksButLast
<1>7. GateInv'
  BY <1>1, Known DEF GateInv, ZeroIsShut, Went, Looks, LooksButLast, Softer, Budget
<1>8. ZeroInv'
  BY <1>1, Known DEF ZeroInv, Went, Softer
<1>9. Remains'
  BY <1>1, Known DEF Remains, Went, Looks, LooksButLast
<1>10. Begun'
  BY <1>1, Known DEF Begun, Went, Looks, LooksButLast
<1> QED
  BY <1>2, <1>3, <1>4, <1>5, <1>6, <1>7, <1>8, <1>9, <1>10, Kept

LEMMA AwaitsKeeps ==
  ASSUME IInv, NEW th \in Caller, Awaits(th)
  PROVE  IInv'
<1>1. /\ at[th] \in {"await", "rejoin"}
      /\ UNCHANGED <<gate, box, producer, permit, pipe, my, spent>>
      /\ \E pc \in {"leave", "claim"} : Went(th, pc)
  <2>1. Types
    BY Known
  <2>2. Goes(th, "leave") \/ Goes(th, "claim")
    BY DEF Awaits
  <2> QED
    BY <2>1, <2>2, GoesWent DEF Awaits, Still
<1>2. Types'
  BY <1>1, Known DEF Types, Looks, LooksButLast, Softer, Budget, Went
<1>3. Places'
  BY <1>1, Known DEF Places, Went
<1>4. Owned'
  BY <1>1, Known DEF Owned, Duty, Went, Looks, LooksButLast
<1>5. HandedOn'
  BY <1>1, Known DEF HandedOn, Went, Looks, LooksButLast
<1>6. Starting'
  BY <1>1, Known DEF Starting, Went, Looks, LooksButLast
<1>7. GateInv'
  BY <1>1, Known DEF GateInv, ZeroIsShut, Went, Looks, LooksButLast, Softer, Budget
<1>8. ZeroInv'
  BY <1>1, Known DEF ZeroInv, Went, Softer
<1>9. Remains'
  BY <1>1, Known DEF Remains, Went, Looks, LooksButLast
<1>10. Begun'
  BY <1>1, Known DEF Begun, Went, Looks, LooksButLast
<1> QED
  BY <1>2, <1>3, <1>4, <1>5, <1>6, <1>7, <1>8, <1>9, <1>10, Kept

LEMMA QuietsKeeps ==
  ASSUME IInv, NEW th \in Caller, Quiets(th)
  PROVE  IInv'
<1>1. /\ at[th] = "quiet"
      /\ UNCHANGED <<gate, box, producer, permit, pipe, my, spent>>
      /\ \E pc \in {"drain", "zero"} : Went(th, pc)
  <2>1. Types
    BY Known
  <2>2. Goes(th, "drain") \/ Goes(th, "zero")
    BY DEF Quiets
  <2> QED
    BY <2>1, <2>2, GoesWent DEF Quiets, Still
<1>2. Types'
  BY <1>1, Known DEF Types, Looks, LooksButLast, Softer, Budget, Went
<1>3. Places'
  BY <1>1, Known DEF Places, Went
<1>4. Owned'
  BY <1>1, Known DEF Owned, Duty, Went, Looks, LooksButLast
<1>5. HandedOn'
  BY <1>1, Known DEF HandedOn, Went, Looks, LooksButLast
<1>6. Starting'
  BY <1>1, Known DEF Starting, Went, Looks, LooksButLast
<1>7. GateInv'
  BY <1>1, Known DEF GateInv, ZeroIsShut, Went, Looks, LooksButLast, Softer, Budget
<1>8. ZeroInv'
  BY <1>1, Known DEF ZeroInv, Went, Softer
<1>9. Remains'
  BY <1>1, Known DEF Remains, Went, Looks, LooksButLast
<1>10. Begun'
  BY <1>1, Known DEF Begun, Went, Looks, LooksButLast
<1> QED
  BY <1>2, <1>3, <1>4, <1>5, <1>6, <1>7, <1>8, <1>9, <1>10, Kept

\* An attempt at zero notes what it found.
LEMMA AttemptIs ==
  ASSUME IInv, NEW th \in Caller, NEW zero \in BOOLEAN,
         my' = [my EXCEPT ![th].zero = zero]
  PROVE  /\ my' \in [Thread -> Locals]
         /\ \A u \in Thread : my'[u].gen = my[u].gen /\ my'[u].lease = my[u].lease
         /\ \A u \in Thread : u # th => my'[u].zero = my[u].zero
         /\ my'[th].zero = zero
<1>1. my \in [Thread -> Locals] /\ th \in Thread
  BY Known DEF Types
<1> DEFINE m == [my[th] EXCEPT !.zero = zero]
<1>2. m \in Locals /\ m.gen = my[th].gen /\ m.lease = my[th].lease /\ m.zero = zero
  BY <1>1 DEF Locals
<1>3. my' = [my EXCEPT ![th] = m]
  BY <1>1
<1> HIDE DEF m
<1> QED
  BY <1>1, <1>2, <1>3

LEMMA ZeroesKeeps ==
  ASSUME IInv, NEW th \in Caller, Zeroes(th)
  PROVE  IInv'
<1>1. /\ at[th] = "zero" /\ UNCHANGED <<box, producer, permit>>
      /\ \E pc \in {"quiet", "drain"} : Went(th, pc)
      /\ Looks(pipe, pipe') /\ pipe'.renew = pipe.renew
      /\ Softer /\ Budget
      /\ \/ pipe'.proof = pipe.proof
         \/ pipe'.proof = pipe.lease /\ (pipe.lease # 0 => gate'.mode = "idle")
      /\ my' \in [Thread -> Locals]
      /\ \A u \in Thread : my'[u].gen = my[u].gen /\ my'[u].lease = my[u].lease
      /\ \A u \in Thread : u # th => my'[u].zero = my[u].zero
      /\ my'[th].zero => ShutForGood'
  <2>1. Types /\ at[th] = "zero"
    BY Known DEF Zeroes
  <2>2. PICK zero \in BOOLEAN :
          /\ IF my[th].kind = "stop" /\ ProofIsFresh(pipe)
             THEN zero /\ UNCHANGED gate /\ NoFault
             ELSE InhibitGate(zero)
          /\ pipe' = Proven(pipe, zero) /\ my' = [my EXCEPT ![th].zero = zero]
    BY DEF Zeroes
  <2>3. pipe \in Pipeline /\ gate \in GateProcess
    BY <2>1 DEF Types
  <2>4. Softer /\ Budget /\ (zero => gate'.mode = "idle" \/ (gate' = gate /\ ShutForGood))
            /\ (zero /\ pipe.lease # 0 => gate'.mode = "idle")
    <3>1. CASE my[th].kind = "stop" /\ ProofIsFresh(pipe)
      <4>1. UNCHANGED gate /\ NoFault
        BY <2>2, <3>1
      <4>2. pipe.continuation = "never"
        BY <2>1, DutyIs DEF Duty
      <4>3. ShutForGood /\ (pipe.lease # 0 => gate.mode = "idle")
        BY <3>1, <4>2, Known DEF GateInv, ProofIsFresh, Nowhere
      <4> QED
        BY <2>1, <2>3, <4>1, <4>3, FaultBudget DEF Softer
    <3>2. CASE ~(my[th].kind = "stop" /\ ProofIsFresh(pipe))
      BY <2>1, <2>2, <3>2, InhibitIs
    <3> QED
      BY <3>1, <3>2
  <2>5. /\ my' \in [Thread -> Locals]
        /\ \A u \in Thread : my'[u].gen = my[u].gen /\ my'[u].lease = my[u].lease
        /\ \A u \in Thread : u # th => my'[u].zero = my[u].zero
        /\ my'[th].zero = zero
    BY <2>2, AttemptIs
  <2>6. Goes(th, "quiet") \/ Goes(th, "drain")
    BY DEF Zeroes
  <2>7. \E pc \in {"quiet", "drain"} : Went(th, pc)
    BY <2>1, <2>6, GoesWent
  <2>8. zero => ShutForGood'
    BY <2>1, <2>4, <2>5, <2>7 DEF Went
  <2> QED
    BY <2>1, <2>2, <2>3, <2>4, <2>5, <2>7, <2>8, ProvenIs DEF Zeroes
<1>2. Types'
  BY <1>1, Known DEF Types, Looks, LooksButLast, Softer, Budget, Went
<1>3. Places'
  BY <1>1, Known DEF Places, Went
<1>4. Owned'
  BY <1>1, Known DEF Owned, Duty, Went, Looks, LooksButLast
<1>5. HandedOn'
  BY <1>1, Known DEF HandedOn, Went, Looks, LooksButLast
<1>6. Starting'
  BY <1>1, Known DEF Starting, Went, Looks, LooksButLast
<1>7. GateInv'
  BY <1>1, Known DEF GateInv, ZeroIsShut, Went, Looks, LooksButLast, Softer, Budget
<1>8. ZeroInv'
  BY <1>1, Known DEF ZeroInv, Went, Softer
<1>9. Remains'
  BY <1>1, Known DEF Remains, Went, Looks, LooksButLast
<1>10. Begun'
  BY <1>1, Known DEF Begun, Went, Looks, LooksButLast
<1> QED
  BY <1>2, <1>3, <1>4, <1>5, <1>6, <1>7, <1>8, <1>9, <1>10, Kept

LEMMA TriesAgainKeeps ==
  ASSUME IInv, NEW th \in Caller, TriesAgain(th)
  PROVE  IInv'
<1>1. /\ at[th] = "again" /\ UNCHANGED <<box, producer, permit>>
      /\ Went(th, "clean")
      /\ Looks(pipe, pipe') /\ pipe'.renew = pipe.renew
      /\ Softer /\ Budget
      /\ \/ pipe'.proof = pipe.proof
         \/ pipe'.proof = pipe.lease /\ gate'.mode = "idle"
      /\ my' \in [Thread -> Locals]
      /\ \A u \in Thread : my'[u].gen = my[u].gen /\ my'[u].lease = my[u].lease
      /\ \A u \in Thread : u # th => my'[u].zero = my[u].zero
      /\ my'[th].zero => ShutForGood'
  <2>1. Types /\ at[th] = "again" /\ Went(th, "clean")
    BY Known, GoesWent DEF TriesAgain
  <2>2. PICK zero \in BOOLEAN :
          /\ InhibitGate(zero)
          /\ pipe' = Proven(pipe, zero) /\ my' = [my EXCEPT ![th].zero = zero]
    BY DEF TriesAgain
  <2>3. pipe \in Pipeline
    BY <2>1 DEF Types
  <2>4. Softer /\ Budget /\ (zero => gate'.mode = "idle")
    BY <2>1, <2>2, InhibitIs
  <2>5. /\ my' \in [Thread -> Locals]
        /\ \A u \in Thread : my'[u].gen = my[u].gen /\ my'[u].lease = my[u].lease
        /\ \A u \in Thread : u # th => my'[u].zero = my[u].zero
        /\ my'[th].zero = zero
    BY <2>2, AttemptIs
  <2> QED
    BY <2>1, <2>2, <2>3, <2>4, <2>5, ProvenIs DEF TriesAgain
<1>2. Types'
  BY <1>1, Known DEF Types, Looks, LooksButLast, Softer, Budget, Went
<1>3. Places'
  BY <1>1, Known DEF Places, Went
<1>4. Owned'
  BY <1>1, Known DEF Owned, Duty, Went, Looks, LooksButLast
<1>5. HandedOn'
  BY <1>1, Known DEF HandedOn, Went, Looks, LooksButLast
<1>6. Starting'
  BY <1>1, Known DEF Starting, Went, Looks, LooksButLast
<1>7. GateInv'
  BY <1>1, Known DEF GateInv, ZeroIsShut, Went, Looks, LooksButLast, Softer, Budget
<1>8. ZeroInv'
  BY <1>1, Known DEF ZeroInv, Went, Softer
<1>9. Remains'
  BY <1>1, Known DEF Remains, Went, Looks, LooksButLast
<1>10. Begun'
  BY <1>1, Known DEF Begun, Went, Looks, LooksButLast
<1> QED
  BY <1>2, <1>3, <1>4, <1>5, <1>6, <1>7, <1>8, <1>9, <1>10, Kept

LEMMA SilencesKeeps ==
  ASSUME IInv, NEW th \in Caller, Silences(th)
  PROVE  IInv'
<1>1. /\ at[th] = "drain" /\ UNCHANGED <<gate, box, permit, pipe, my, spent>>
      /\ producer' = "off" /\ pipe.continuation = "never"
      /\ th = "T" \/ pipe.starts = 0
      /\ \E pc \in {"clean", "again"} : Went(th, pc)
  <2>1. Types /\ at[th] = "drain"
    BY Known DEF Silences
  <2>2. pipe.continuation = "never"
    BY <2>1, DutyIs DEF Duty
  <2>3. Goes(th, "clean") \/ Goes(th, "again")
    BY DEF Silences
  <2> QED
    BY <2>1, <2>2, <2>3, GoesWent DEF Silences, Keeps, Draining
<1>2. Types'
  BY <1>1, Known DEF Types, Looks, LooksButLast, Softer, Budget, Went
<1>3. Places'
  BY <1>1, Known DEF Places, Went
<1>4. Owned'
  BY <1>1, Known DEF Owned, Duty, Went, Looks, LooksButLast
<1>5. HandedOn'
  BY <1>1, Known DEF HandedOn, Went, Looks, LooksButLast
<1>6. Starting'
  BY <1>1, Known DEF Starting, Went, Looks, LooksButLast
<1>7. GateInv'
  BY <1>1, Known DEF GateInv, ZeroIsShut, Went, Looks, LooksButLast, Softer, Budget
<1>8. ZeroInv'
  BY <1>1, Known DEF ZeroInv, Went, Softer
<1>9. Remains'
  BY <1>1, Known DEF Remains, Went, Looks, LooksButLast
<1>10. Begun'
  BY <1>1, Known DEF Begun, Went, Looks, LooksButLast
<1> QED
  BY <1>2, <1>3, <1>4, <1>5, <1>6, <1>7, <1>8, <1>9, <1>10, Kept

LEMMA BarrierPassesKeeps ==
  ASSUME IInv, NEW th \in Caller, BarrierPasses(th)
  PROVE  IInv'
<1>1. /\ at[th] = "drain" /\ UNCHANGED <<gate, box, producer, permit, my, spent>>
      /\ th # "T" /\ Went(th, "leave") /\ pipe.teardown
      /\ \A u \in Caller : u # th => ~Duty(u)
      /\ ~pipe'.record.ok /\ pipe'.record.failure = "safety"
      /\ ~pipe'.last.ok /\ pipe'.last.failure = "safety" /\ pipe'.last.maybe = 0
      /\ pipe'.last.zero => my[th].zero
      /\ pipe' \in Pipeline /\ pipe'.state = "Failed" /\ pipe'.gen = pipe.gen
      /\ pipe'.counter = pipe.counter /\ pipe'.lease = pipe.lease
      /\ ~pipe'.teardown /\ pipe'.starts = pipe.starts
      /\ pipe'.continuation = "running" /\ pipe'.dirty = pipe.dirty
      /\ pipe'.proof = pipe.proof /\ pipe'.renew = pipe.renew
  <2>1. Types /\ at[th] = "drain" /\ pipe \in Pipeline
    BY Known DEF BarrierPasses, Types
  <2>2. /\ pipe.teardown /\ pipe.continuation = "never" /\ pipe.record = NoRecord
        /\ \A u \in Caller : u # th => ~Duty(u)
    BY <2>1, DutyIs DEF Duty
  <2> DEFINE handed == [pipe EXCEPT !.blocked = TRUE, !.continuation = "running",
                                    !.owner = "continuation"]
             r == Result(FALSE, "safety", my[th].zero)
  <2>3. pipe' = Finished(handed, "Failed", r)
    <3>1. [pipe EXCEPT !.blocked = TRUE,
             !.continuation = IF @ = "never" THEN "running" ELSE @,
             !.owner = IF pipe.continuation = "never" THEN "continuation" ELSE @] = handed
      BY <2>2
    <3> QED
      BY <3>1 DEF BarrierPasses
  <2>4. my[th].zero \in BOOLEAN
    BY <2>1 DEF Types, Locals
  <2>5. /\ r \in Outcome /\ ~r.ok /\ r.failure = "safety" /\ r.maybe = 0
        /\ r.zero = my[th].zero
    BY <2>4, ResultIs DEF Failure
  <2>6. /\ handed \in Pipeline /\ handed.state = pipe.state /\ handed.gen = pipe.gen
        /\ handed.counter = pipe.counter /\ handed.lease = pipe.lease
        /\ handed.teardown = pipe.teardown /\ handed.record = pipe.record
        /\ handed.last = pipe.last /\ handed.starts = pipe.starts
        /\ handed.continuation = "running" /\ handed.dirty = pipe.dirty
        /\ handed.proof = pipe.proof /\ handed.renew = pipe.renew
    BY <2>1 DEF Pipeline
  <2> HIDE DEF handed, r
  <2>7. pipe'.record = r /\ pipe'.last = r
    BY <2>2, <2>3, <2>5, <2>6, FinishedIs
  <2>8. /\ pipe' \in Pipeline /\ pipe'.state = "Failed" /\ pipe'.gen = pipe.gen
        /\ pipe'.counter = pipe.counter /\ pipe'.lease = pipe.lease
        /\ ~pipe'.teardown /\ pipe'.starts = pipe.starts
        /\ pipe'.continuation = "running" /\ pipe'.dirty = pipe.dirty
        /\ pipe'.proof = pipe.proof /\ pipe'.renew = pipe.renew
    BY <2>3, <2>5, <2>6, FinishedIs
  <2>9. th # "T" /\ Went(th, "leave")
    BY <2>1, GoesWent DEF BarrierPasses, Draining
  <2> QED
    BY <2>1, <2>2, <2>5, <2>7, <2>8, <2>9 DEF BarrierPasses, Still, Keeps
<1>2. Types'
  BY <1>1, Known DEF Types, Looks, LooksButLast, Softer, Budget, Went
<1>3. Places'
  BY <1>1, Known DEF Places, Went
<1>4. Owned'
  BY <1>1, Known DEF Owned, Duty, Went, Looks, LooksButLast
<1>5. HandedOn'
  BY <1>1, Known DEF HandedOn, Went, Looks, LooksButLast
<1>6. Starting'
  BY <1>1, Known DEF Starting, Went, Looks, LooksButLast
<1>7. GateInv'
  BY <1>1, Known DEF GateInv, ZeroIsShut, Went, Looks, LooksButLast, Softer, Budget, ZeroInv
<1>8. ZeroInv'
  BY <1>1, Known DEF ZeroInv, Went, Softer
<1>9. Remains'
  BY <1>1, Known DEF Remains, Went, Looks, LooksButLast
<1>10. Begun'
  BY <1>1, Known DEF Begun, Went, Looks, LooksButLast
<1> QED
  BY <1>2, <1>3, <1>4, <1>5, <1>6, <1>7, <1>8, <1>9, <1>10, Kept

-----------------------------------------------------------------------------
\* cleanup_components: what is clean afterwards is empty, or was clean before.
LEMMA CleanedIs ==
  ASSUME Types, NEW residue \in BOOLEAN, Components(residue)
  PROVE  LET p == CleanedUp(pipe, residue) IN
         /\ box' \in Container /\ Budget
         /\ p.dirty => pipe.dirty
         /\ ~p.dirty => box' = [nodes |-> "none", late |-> FALSE]
                          \/ (~pipe.dirty /\ box' = box)
         /\ p \in Pipeline /\ p.state = pipe.state /\ p.gen = pipe.gen
         /\ p.counter = pipe.counter /\ p.lease = pipe.lease
         /\ p.teardown = pipe.teardown /\ p.record = pipe.record
         /\ p.last = pipe.last /\ p.starts = pipe.starts
         /\ p.continuation = pipe.continuation /\ p.proof = pipe.proof
         /\ p.renew = pipe.renew
<1>1. box \in Container /\ pipe \in Pipeline
  BY DEF Types
<1>2. Budget
  BY FaultBudget DEF Components
<1>3. box' \in Container
  <2>1. Unloaded(box) \in Container /\ [box EXCEPT !.nodes = "none"] \in Container
    BY <1>1 DEF Unloaded, Container
  <2> QED
    BY <1>1, <2>1 DEF Components
<1>4. CASE residue
  <2>1. pipe.dirty /\ CleanedUp(pipe, residue) = [pipe EXCEPT !.blocked = TRUE, !.cleanFailed = TRUE]
    BY <1>4 DEF Components, CleanedUp
  <2> QED
    BY <1>1, <1>2, <1>3, <2>1 DEF Pipeline
<1>5. CASE ~residue
  <2>1. CleanedUp(pipe, residue) = [pipe EXCEPT !.dirty = FALSE]
    BY <1>5 DEF CleanedUp
  <2>2. box' = [nodes |-> "none", late |-> FALSE] \/ (~pipe.dirty /\ box' = box)
    BY <1>5 DEF Components, Unloaded
  <2> QED
    BY <1>1, <1>2, <1>3, <2>1, <2>2 DEF Pipeline
<1> QED
  BY <1>4, <1>5

\* The tail of stop_owned.
LEMMA StopEndsIs ==
  ASSUME NEW p \in Pipeline, NEW clean, NEW zero \in BOOLEAN,
         pipe' = StopEnds(p, clean, zero)
  PROVE  /\ pipe' \in Pipeline /\ pipe'.gen = p.gen
         /\ pipe'.counter = p.counter /\ ~pipe'.teardown
         /\ pipe'.starts = p.starts /\ pipe'.continuation = p.continuation
         /\ pipe'.renew = p.renew
         /\ pipe'.state \in {"Stopped", "Failed"}
         /\ pipe'.dirty = p.dirty
         /\ pipe'.last.zero => zero
         /\ pipe'.state = "Stopped" => pipe'.last.zero /\ ~pipe'.dirty
         /\ \/ pipe'.lease = p.lease /\ pipe'.proof = p.proof
            \/ pipe'.lease = 0 /\ pipe'.proof = Nowhere /\ zero
<1>1. CASE zero /\ ~p.dirty
  <2> DEFINE r == Result(TRUE, "none", TRUE)
             o == Reset(p)
  <2>1. pipe' = Finished(o, "Stopped", r)
    BY <1>1 DEF StopEnds
  <2>2. r \in Outcome /\ r.zero
    BY ResultIs DEF Failure
  <2>3. /\ o \in Pipeline /\ o.lease = 0 /\ o.dirty = FALSE /\ o.proof = Nowhere
        /\ o.gen = p.gen /\ o.counter = p.counter
        /\ o.starts = p.starts /\ o.continuation = p.continuation /\ o.renew = p.renew
    BY ResetIs
  <2>4. p.dirty = FALSE
    BY <1>1 DEF Pipeline
  <2> HIDE DEF o, r
  <2>5. /\ pipe' \in Pipeline /\ pipe'.state = "Stopped" /\ pipe'.last = r
        /\ ~pipe'.teardown /\ pipe'.gen = o.gen /\ pipe'.counter = o.counter
        /\ pipe'.lease = o.lease /\ pipe'.dirty = o.dirty /\ pipe'.proof = o.proof
        /\ pipe'.starts = o.starts /\ pipe'.continuation = o.continuation
        /\ pipe'.renew = o.renew
    BY <2>1, <2>2, <2>3, FinishedIs
  <2> QED
    BY <1>1, <2>2, <2>3, <2>4, <2>5
<1>2. CASE ~(zero /\ ~p.dirty)
  <2> DEFINE lost == ~zero /\ clean /\ IdentityLost(p.home)
             failure == IF lost THEN "loss" ELSE "safety"
             home == IF lost THEN p.home ELSE 0
             b == Result(FALSE, failure, zero)
             r == [b EXCEPT !.lost = home]
  <2>1. pipe' = Finished(p, "Failed", r)
    BY <1>2 DEF StopEnds
  <2>2. failure \in Failure /\ home \in Nat
    BY DEF Failure, Pipeline
  <2> HIDE DEF lost, failure, home
  <2>3. b \in Outcome /\ b.zero = zero
    BY <2>2, ResultIs
  <2> HIDE DEF b
  <2>4. r \in Outcome /\ r.zero = zero
    BY <2>2, <2>3 DEF Outcome
  <2> HIDE DEF r
  <2> QED
    BY <2>1, <2>4, FinishedIs
<1> QED
  BY <1>1, <1>2

\* The tail of fail_owned.
LEMMA FailureEndsIs ==
  ASSUME NEW p \in Pipeline, NEW clean, NEW i \in Locals,
         pipe' = FailureEnds(p, clean, i)
  PROVE  /\ pipe' \in Pipeline /\ pipe'.gen = p.gen
         /\ pipe'.counter = p.counter /\ ~pipe'.teardown
         /\ pipe'.starts = p.starts /\ pipe'.continuation = p.continuation
         /\ pipe'.renew = p.renew
         /\ pipe'.state \in {"Stopped", "Failed"}
         /\ pipe'.dirty = p.dirty
         /\ pipe'.last.zero => i.zero
         /\ pipe'.state = "Stopped" => pipe'.last.zero /\ ~pipe'.dirty
         /\ \/ pipe'.lease = p.lease /\ pipe'.proof = p.proof
            \/ pipe'.lease = 0 /\ pipe'.proof = Nowhere /\ i.zero
<1> DEFINE unproven == clean /\ ~i.zero
           lost == unproven /\ i.cause = "loss" /\ IdentityLost(i.expect)
           maybe == unproven /\ ~lost /\ i.maybe
           failure == IF lost THEN "loss"
                      ELSE IF ~clean \/ ~i.zero \/ i.cause = "loss" THEN "safety"
                      ELSE i.cause
           l == IF lost THEN i.expect ELSE 0
           m == IF maybe THEN i.expect ELSE 0
           b == Result(FALSE, failure, i.zero)
           r == [b EXCEPT !.lost = l, !.maybe = m]
<1>1. pipe' = Finished(p, "Failed", r)
  BY DEF FailureEnds
<1>2. failure \in Failure /\ l \in Nat /\ m \in Nat /\ i.zero \in BOOLEAN
  BY DEF Failure, Locals
<1> HIDE DEF unproven, lost, maybe, failure, l, m
<1>3. b \in Outcome /\ b.zero = i.zero
  BY <1>2, ResultIs
<1> HIDE DEF b
<1>4. r \in Outcome /\ r.zero = i.zero
  BY <1>2, <1>3 DEF Outcome
<1> HIDE DEF r
<1> QED
  BY <1>1, <1>4, FinishedIs

LEMMA CleansKeeps ==
  ASSUME IInv, NEW th \in Caller, Cleans(th)
  PROVE  IInv'
<1>1. /\ at[th] = "clean" /\ UNCHANGED <<gate, producer, permit, my>>
      /\ Went(th, "leave") /\ producer = "off"
      /\ pipe.continuation = "never" /\ (th = "T" \/ pipe.starts = 0)
      /\ \A u \in Caller : u # th => ~Duty(u)
      /\ box' \in Container /\ Budget
      /\ pipe'.dirty => pipe.dirty
      /\ ~pipe'.dirty => box' = [nodes |-> "none", late |-> FALSE] \/ (~pipe.dirty /\ box' = box)
      /\ pipe' \in Pipeline /\ pipe'.gen = pipe.gen
      /\ pipe'.counter = pipe.counter /\ ~pipe'.teardown
      /\ pipe'.starts = pipe.starts /\ pipe'.continuation = pipe.continuation
      /\ pipe'.renew = pipe.renew
      /\ pipe'.state \in {"Stopped", "Failed"}
      /\ pipe'.last.zero => my[th].zero
      /\ pipe'.state = "Stopped" => pipe'.last.zero /\ ~pipe'.dirty
      /\ \/ pipe'.lease = pipe.lease /\ pipe'.proof = pipe.proof
         \/ pipe'.lease = 0 /\ pipe'.proof = Nowhere /\ my[th].zero
  <2>1. Types /\ at[th] = "clean" /\ Went(th, "leave") /\ UNCHANGED <<gate, producer, permit, my>>
    BY Known, GoesWent DEF Cleans, Keeps
  <2>2. /\ producer = "off" /\ pipe.continuation = "never" /\ (th = "T" \/ pipe.starts = 0)
        /\ \A u \in Caller : u # th => ~Duty(u)
    BY <2>1, DutyIs, Known DEF Duty, Remains
  <2>3. PICK residue \in BOOLEAN :
          /\ Components(residue)
          /\ LET p == CleanedUp(pipe, residue)
                 clean == ~p.cleanFailed
             IN  pipe' = IF my[th].kind = "stop" THEN StopEnds(p, clean, my[th].zero)
                                                 ELSE FailureEnds(p, clean, my[th])
    BY DEF Cleans
  <2> DEFINE p == CleanedUp(pipe, residue)
             clean == ~p.cleanFailed
  <2>4. /\ box' \in Container /\ Budget
        /\ p.dirty => pipe.dirty
        /\ ~p.dirty => box' = [nodes |-> "none", late |-> FALSE]
                         \/ (~pipe.dirty /\ box' = box)
        /\ p \in Pipeline /\ p.state = pipe.state /\ p.gen = pipe.gen
        /\ p.counter = pipe.counter /\ p.lease = pipe.lease
        /\ p.teardown = pipe.teardown /\ p.record = pipe.record
        /\ p.last = pipe.last /\ p.starts = pipe.starts
        /\ p.continuation = pipe.continuation /\ p.proof = pipe.proof
        /\ p.renew = pipe.renew
    BY <2>1, <2>3, CleanedIs
  <2>5. my[th] \in Locals /\ my[th].zero \in BOOLEAN
    BY <2>1 DEF Types, Locals
  <2>6. pipe' = StopEnds(p, clean, my[th].zero) \/ pipe' = FailureEnds(p, clean, my[th])
    BY <2>3
  <2> HIDE DEF p, clean
  <2>7. /\ pipe' \in Pipeline /\ pipe'.gen = p.gen
        /\ pipe'.counter = p.counter /\ ~pipe'.teardown
        /\ pipe'.starts = p.starts /\ pipe'.continuation = p.continuation
        /\ pipe'.renew = p.renew
        /\ pipe'.state \in {"Stopped", "Failed"}
        /\ pipe'.dirty = p.dirty
        /\ pipe'.last.zero => my[th].zero
        /\ pipe'.state = "Stopped" => pipe'.last.zero /\ ~pipe'.dirty
        /\ \/ pipe'.lease = p.lease /\ pipe'.proof = p.proof
           \/ pipe'.lease = 0 /\ pipe'.proof = Nowhere /\ my[th].zero
    BY <2>4, <2>5, <2>6, StopEndsIs, FailureEndsIs
  <2> QED
    BY <2>1, <2>2, <2>4, <2>7
<1>2. Types'
  BY <1>1, Known DEF Types, Looks, LooksButLast, Softer, Budget, Went
<1>3. Places'
  BY <1>1, Known DEF Places, Went
<1>4. Owned'
  BY <1>1, Known DEF Owned, Duty, Went, Looks, LooksButLast
<1>5. HandedOn'
  BY <1>1, Known DEF HandedOn, Went, Looks, LooksButLast
<1>6. Starting'
  BY <1>1, Known DEF Starting, Went, Looks, LooksButLast
<1>7. GateInv'
  BY <1>1, Known DEF GateInv, ZeroIsShut, Went, Looks, LooksButLast, Softer, Budget, ZeroInv, Duty
<1>8. ZeroInv'
  BY <1>1, Known DEF ZeroInv, Went, Softer
<1>9. Remains'
  BY <1>1, Known DEF Remains, Went, Looks, LooksButLast, Duty
<1>10. Begun'
  BY <1>1, Known DEF Begun, Went, Looks, LooksButLast
<1> QED
  BY <1>2, <1>3, <1>4, <1>5, <1>6, <1>7, <1>8, <1>9, <1>10, Kept

LEMMA LeavesKeeps ==
  ASSUME IInv, NEW th \in Caller, Leaves(th)
  PROVE  IInv'
<1>1. /\ at[th] = "leave" /\ UNCHANGED <<gate, box, producer, permit, spent>>
      /\ Went(th, "idle")
      /\ pipe' \in Pipeline /\ pipe'.state = pipe.state /\ pipe'.gen = pipe.gen
      /\ pipe'.counter = pipe.counter /\ pipe'.lease = pipe.lease
      /\ pipe'.teardown = pipe.teardown /\ pipe'.record = pipe.record
      /\ pipe'.last = pipe.last /\ pipe'.continuation = pipe.continuation
      /\ pipe'.dirty = pipe.dirty /\ pipe'.proof = pipe.proof
      /\ pipe'.renew = pipe.renew
      /\ pipe'.starts = IF th = "T" THEN 0 ELSE pipe.starts
      /\ my' \in [Thread -> Locals] /\ \A u \in Thread : my'[u].zero => my[u].zero
      /\ ~my'[th].zero /\ \A u \in Thread : u # th => my'[u] = my[u]
  <2>1. Types /\ at[th] = "leave" /\ Went(th, "idle") /\ UNCHANGED <<gate, box, producer, permit, spent>>
    BY Known, GoesWent DEF Leaves, Still
  <2> DEFINE n == IF th = "T" THEN 0 ELSE pipe.starts
             b == IF th = "R" THEN FALSE ELSE pipe.renewing
  <2>2. pipe \in Pipeline /\ pipe' = [pipe EXCEPT !.starts = n, !.renewing = b]
    BY <2>1 DEF Leaves, Types
  <2>3. n \in {0, 1} /\ b \in BOOLEAN /\ n = IF th = "T" THEN 0 ELSE pipe.starts
    BY <2>2 DEF Pipeline
  <2> HIDE DEF n, b
  <2>4. /\ pipe' \in Pipeline /\ pipe'.state = pipe.state /\ pipe'.gen = pipe.gen
        /\ pipe'.counter = pipe.counter /\ pipe'.lease = pipe.lease
        /\ pipe'.teardown = pipe.teardown /\ pipe'.record = pipe.record
        /\ pipe'.last = pipe.last /\ pipe'.continuation = pipe.continuation
        /\ pipe'.dirty = pipe.dirty /\ pipe'.proof = pipe.proof
        /\ pipe'.renew = pipe.renew
        /\ pipe'.starts = n
    BY <2>2, <2>3 DEF Pipeline
  <2>5. /\ my' \in [Thread -> Locals] /\ \A u \in Thread : my'[u].zero => my[u].zero
        /\ ~my'[th].zero /\ \A u \in Thread : u # th => my'[u] = my[u]
    BY <2>1, BlankIs DEF Leaves, Types
  <2> QED
    BY <2>1, <2>3, <2>4, <2>5
<1>2. Types'
  BY <1>1, Known DEF Types, Looks, LooksButLast, Softer, Budget, Went
<1>3. Places'
  BY <1>1, Known DEF Places, Went
<1>4. Owned'
  BY <1>1, Known DEF Owned, Duty, Went, Looks, LooksButLast
<1>5. HandedOn'
  BY <1>1, Known DEF HandedOn, Went, Looks, LooksButLast
<1>6. Starting'
  BY <1>1, Known DEF Starting, Went, Looks, LooksButLast
<1>7. GateInv'
  BY <1>1, Known DEF GateInv, ZeroIsShut, Went, Looks, LooksButLast, Softer, Budget
<1>8. ZeroInv'
  BY <1>1, Known DEF ZeroInv, Went, Softer
<1>9. Remains'
  BY <1>1, Known DEF Remains, Went, Looks, LooksButLast
<1>10. Begun'
  BY <1>1, Known DEF Begun, Went, Looks, LooksButLast
<1> QED
  BY <1>2, <1>3, <1>4, <1>5, <1>6, <1>7, <1>8, <1>9, <1>10, Kept

-----------------------------------------------------------------------------

LEMMA ContinuationSilencesKeeps ==
  ASSUME IInv, ContinuationSilences
  PROVE  IInv'
<1>1. /\ at["K"] = "idle" /\ UNCHANGED <<gate, box, permit, pipe, my, spent>>
      /\ pipe.continuation = "running" /\ pipe.starts = 0
      /\ producer' = "off" /\ Went("K", "clean")
  <2> QED
    BY Known, GoesWent DEF ContinuationSilences
<1>2. Types'
  BY <1>1, Known DEF Types, Looks, LooksButLast, Softer, Budget, Went
<1>3. Places'
  BY <1>1, Known DEF Places, Went
<1>4. Owned'
  BY <1>1, Known DEF Owned, Duty, Went, Looks, LooksButLast
<1>5. HandedOn'
  BY <1>1, Known DEF HandedOn, Went, Looks, LooksButLast
<1>6. Starting'
  BY <1>1, Known DEF Starting, Went, Looks, LooksButLast
<1>7. GateInv'
  BY <1>1, Known DEF GateInv, ZeroIsShut, Went, Looks, LooksButLast, Softer, Budget
<1>8. ZeroInv'
  BY <1>1, Known DEF ZeroInv, Went, Softer
<1>9. Remains'
  BY <1>1, Known DEF Remains, Went, Looks, LooksButLast
<1>10. Begun'
  BY <1>1, Known DEF Begun, Went, Looks, LooksButLast
<1> QED
  BY <1>2, <1>3, <1>4, <1>5, <1>6, <1>7, <1>8, <1>9, <1>10, Kept

LEMMA ContinuationCleansKeeps ==
  ASSUME IInv, ContinuationCleans
  PROVE  IInv'
<1>1. /\ at["K"] = "clean" /\ UNCHANGED <<gate, producer, permit, my>>
      /\ Went("K", "idle") /\ producer = "off" /\ pipe.starts = 0
      /\ pipe.continuation = "running" /\ pipe.state = "Failed" /\ ~pipe.teardown
      /\ box' \in Container /\ Budget
      /\ pipe'.dirty => pipe.dirty
      /\ ~pipe'.dirty => box' = [nodes |-> "none", late |-> FALSE] \/ (~pipe.dirty /\ box' = box)
      /\ pipe' \in Pipeline /\ pipe'.state = pipe.state /\ pipe'.gen = pipe.gen
      /\ pipe'.counter = pipe.counter /\ pipe'.teardown = pipe.teardown
      /\ pipe'.record = pipe.record /\ pipe'.last = pipe.last
      /\ pipe'.starts = pipe.starts /\ pipe'.continuation = "done"
      /\ pipe'.renew = pipe.renew
      /\ \/ pipe'.lease = pipe.lease /\ pipe'.proof = pipe.proof
         \/ pipe'.lease = 0 /\ pipe'.proof = Nowhere
  <2>1. Types /\ at["K"] = "clean" /\ Went("K", "idle") /\ UNCHANGED <<gate, producer, permit, my>>
    BY Known, GoesWent DEF ContinuationCleans, Keeps
  <2>2. /\ producer = "off" /\ pipe.starts = 0
        /\ pipe.continuation = "running" /\ pipe.state = "Failed" /\ ~pipe.teardown
    BY <2>1, Known DEF HandedOn, Remains
  <2>3. PICK residue \in BOOLEAN :
          /\ Components(residue)
          /\ LET p == CleanedUp(pipe, residue)
             IN  pipe' = [IF p.dirty THEN p ELSE [Reset(p) EXCEPT !.blocked = FALSE]
                           EXCEPT !.continuation = "done",
                                  !.owner = IF @ = "continuation" THEN "none" ELSE @]
    BY DEF ContinuationCleans
  <2> DEFINE p == CleanedUp(pipe, residue)
             o == Reset(p)
             f == [o EXCEPT !.blocked = FALSE]
             q == IF p.dirty THEN p ELSE f
             w == IF q.owner = "continuation" THEN "none" ELSE q.owner
  <2>4. /\ box' \in Container /\ Budget
        /\ p.dirty => pipe.dirty
        /\ ~p.dirty => box' = [nodes |-> "none", late |-> FALSE]
                         \/ (~pipe.dirty /\ box' = box)
        /\ p \in Pipeline /\ p.state = pipe.state /\ p.gen = pipe.gen
        /\ p.counter = pipe.counter /\ p.lease = pipe.lease
        /\ p.teardown = pipe.teardown /\ p.record = pipe.record
        /\ p.last = pipe.last /\ p.starts = pipe.starts
        /\ p.continuation = pipe.continuation /\ p.proof = pipe.proof
        /\ p.renew = pipe.renew
    BY <2>1, <2>3, CleanedIs
  <2>5. pipe' = [q EXCEPT !.continuation = "done", !.owner = w]
    BY <2>3
  <2> HIDE DEF p
  <2>6. /\ o \in Pipeline /\ o.state = p.state /\ o.gen = p.gen
        /\ o.counter = p.counter /\ o.lease = 0 /\ o.teardown = p.teardown
        /\ o.record = p.record /\ o.last = p.last /\ o.starts = p.starts
        /\ o.continuation = p.continuation /\ ~o.dirty /\ o.proof = Nowhere
        /\ o.renew = p.renew
    BY <2>4, ResetIs
  <2> HIDE DEF o
  <2>7. /\ f \in Pipeline /\ f.state = o.state /\ f.gen = o.gen
        /\ f.counter = o.counter /\ f.lease = o.lease /\ f.teardown = o.teardown
        /\ f.record = o.record /\ f.last = o.last /\ f.starts = o.starts
        /\ f.continuation = o.continuation /\ f.dirty = o.dirty /\ f.proof = o.proof
        /\ f.renew = o.renew
    BY <2>6 DEF Pipeline
  <2> HIDE DEF f
  <2>8. /\ q \in Pipeline /\ q.state = p.state /\ q.gen = p.gen
        /\ q.counter = p.counter /\ q.teardown = p.teardown /\ q.record = p.record
        /\ q.last = p.last /\ q.starts = p.starts /\ q.continuation = p.continuation
        /\ q.renew = p.renew
        /\ q.dirty = p.dirty
        /\ \/ q.lease = p.lease /\ q.proof = p.proof
           \/ q.lease = 0 /\ q.proof = Nowhere
    <3>1. CASE p.dirty
      BY <2>4, <3>1
    <3>2. CASE ~p.dirty
      <4>1. p.dirty = FALSE /\ f.dirty = FALSE
        BY <2>4, <2>6, <2>7, <3>2 DEF Pipeline
      <4> QED
        BY <2>6, <2>7, <3>2, <4>1
    <3> QED
      BY <3>1, <3>2
  <2> HIDE DEF q
  <2>9. w \in {"none", "prepare", "cleanup", "continuation"}
    BY <2>8 DEF Pipeline
  <2> HIDE DEF w
  <2>10. /\ pipe' \in Pipeline /\ pipe'.state = q.state /\ pipe'.gen = q.gen
         /\ pipe'.counter = q.counter /\ pipe'.lease = q.lease
         /\ pipe'.teardown = q.teardown /\ pipe'.record = q.record
         /\ pipe'.last = q.last /\ pipe'.starts = q.starts
         /\ pipe'.continuation = "done" /\ pipe'.dirty = q.dirty
         /\ pipe'.proof = q.proof /\ pipe'.renew = q.renew
    BY <2>5, <2>8, <2>9 DEF Pipeline
  <2> QED
    BY <2>1, <2>2, <2>4, <2>8, <2>10
<1>2. Types'
  BY <1>1, Known DEF Types, Looks, LooksButLast, Softer, Budget, Went
<1>3. Places'
  BY <1>1, Known DEF Places, Went
<1>4. Owned'
  BY <1>1, Known DEF Owned, Duty, Went, Looks, LooksButLast
<1>5. HandedOn'
  BY <1>1, Known DEF HandedOn, Went, Looks, LooksButLast
<1>6. Starting'
  BY <1>1, Known DEF Starting, Went, Looks, LooksButLast
<1>7. GateInv'
  BY <1>1, Known DEF GateInv, ZeroIsShut, Went, Looks, LooksButLast, Softer, Budget
<1>8. ZeroInv'
  BY <1>1, Known DEF ZeroInv, Went, Softer
<1>9. Remains'
  BY <1>1, Known DEF Remains, Went, Looks, LooksButLast, Owned, Duty
<1>10. Begun'
  BY <1>1, Known DEF Begun, Went, Looks, LooksButLast
<1> QED
  BY <1>2, <1>3, <1>4, <1>5, <1>6, <1>7, <1>8, <1>9, <1>10, Kept

LEMMA RearmKeeps ==
  ASSUME IInv, Rearm
  PROVE  IInv'
<1>1. /\ at["T"] = "idle" /\ at["E"] = "idle"
      /\ UNCHANGED <<box, producer, permit, at, my, spent>>
      /\ ~pipe.teardown /\ ~pipe.dirty /\ pipe.continuation = "never"
      /\ gate' \in GateProcess /\ gate'.mode = "idle"
      /\ pipe'.last.ok /\ pipe'.last.zero
      /\ pipe' \in Pipeline /\ pipe'.state = "Stopped" /\ pipe'.gen = pipe.gen
      /\ pipe'.counter = pipe.counter /\ pipe'.lease = 0
      /\ pipe'.teardown = pipe.teardown /\ pipe'.record = NoRecord
      /\ pipe'.starts = pipe.starts /\ pipe'.continuation = pipe.continuation
      /\ ~pipe'.dirty /\ pipe'.proof = Nowhere /\ pipe'.renew = pipe.renew
  <2>1. Types /\ at["T"] = "idle" /\ at["E"] = "idle"
    BY Known DEF Rearm
  <2>2. /\ UNCHANGED <<box, producer, permit, at, my, spent>>
        /\ ~pipe.teardown /\ ~pipe.dirty
    BY DEF Rearm
  <2>3. pipe.continuation = "never"
    BY Known DEF Rearm, HandedOn
  <2>4. pipe \in Pipeline /\ gate \in GateProcess /\ NoRecord \in Outcome
    BY <2>1, ResultIs DEF Types, NoRecord, Failure
  <2>5. gate' \in GateProcess /\ gate'.mode = "idle"
    BY <2>4, ShutIs DEF Rearm
  <2> DEFINE o == Reset(pipe)
             r == Result(TRUE, "none", TRUE)
  <2>6. pipe' = [o EXCEPT !.state = "Stopped", !.collision = FALSE, !.record = NoRecord,
                          !.owner = "none", !.last = r]
    BY DEF Rearm
  <2>7. r \in Outcome /\ r.ok /\ r.zero
    BY ResultIs DEF Failure
  <2>8. /\ o \in Pipeline /\ o.state = pipe.state /\ o.gen = pipe.gen
        /\ o.counter = pipe.counter /\ o.lease = 0 /\ o.teardown = pipe.teardown
        /\ o.record = pipe.record /\ o.last = pipe.last /\ o.starts = pipe.starts
        /\ o.continuation = pipe.continuation /\ ~o.dirty /\ o.proof = Nowhere
        /\ o.renew = pipe.renew
    BY <2>4, ResetIs
  <2> HIDE DEF o, r
  <2>9. /\ pipe' \in Pipeline /\ pipe'.state = "Stopped" /\ pipe'.gen = o.gen
        /\ pipe'.counter = o.counter /\ pipe'.lease = o.lease
        /\ pipe'.teardown = o.teardown /\ pipe'.record = NoRecord /\ pipe'.last = r
        /\ pipe'.starts = o.starts /\ pipe'.continuation = o.continuation
        /\ pipe'.dirty = o.dirty /\ pipe'.proof = o.proof /\ pipe'.renew = o.renew
    BY <2>4, <2>6, <2>7, <2>8 DEF Pipeline
  <2> QED
    BY <2>1, <2>2, <2>3, <2>5, <2>7, <2>8, <2>9
<1>2. Types'
  BY <1>1, Known DEF Types, Looks, LooksButLast, Softer, Budget, Went
<1>3. Places'
  BY <1>1, Known DEF Places, Went
<1>4. Owned'
  BY <1>1, Known DEF Owned, Duty, Went, Looks, LooksButLast
<1>5. HandedOn'
  BY <1>1, Known DEF HandedOn, Went, Looks, LooksButLast
<1>6. Starting'
  BY <1>1, Known DEF Starting, Went, Looks, LooksButLast
<1>7. GateInv'
  BY <1>1, Known DEF GateInv, ZeroIsShut, Went, Looks, LooksButLast, Softer, Budget
<1>8. ZeroInv'
  BY <1>1, Known DEF ZeroInv, Went, Softer
<1>9. Remains'
  BY <1>1, Known DEF Remains, Went, Looks, LooksButLast
<1>10. Begun'
  BY <1>1, Known DEF Begun, Went, Looks, LooksButLast
<1> QED
  BY <1>2, <1>3, <1>4, <1>5, <1>6, <1>7, <1>8, <1>9, <1>10, Kept

LEMMA StutterKeeps == ASSUME IInv, UNCHANGED vars PROVE IInv'
BY DEF IInv, Parts, vars, Types, Places, Owned, Duty, HandedOn, Starting, GateInv,
       ZeroIsShut, ZeroInv, Remains, Begun

-----------------------------------------------------------------------------
LEMMA Starts == ASSUME Init PROVE IInv
<1>1. /\ gate = [inst |-> 1, up |-> TRUE, lease |-> 0, mode |-> "idle"]
      /\ box \in [nodes : Leftovers, late : {FALSE}]
      /\ producer = "off" /\ permit = 1
      /\ pipe.state = "Stopped" /\ pipe.gen = 0 /\ pipe.counter = 0 /\ pipe.lease = 0
      /\ pipe.teardown = FALSE /\ pipe.record = NoRecord /\ pipe.last = NoRecord
      /\ pipe.proof = Nowhere /\ pipe.starts = 0 /\ pipe.continuation = "never"
      /\ pipe.dirty = FALSE /\ pipe.renew = FALSE
      /\ at["T"] = "boot" /\ at["E"] = "idle" /\ at["R"] = "idle" /\ at["K"] = "idle"
      /\ my = [th \in Thread |-> Blank]
  BY DEF Init
<1>2. NoRecord \in Outcome /\ ~NoRecord.ok /\ ~NoRecord.zero
  BY ResultIs DEF NoRecord, Failure
<1>3. Types
  <2>1. pipe \in Pipeline
    BY <1>2 DEF Init, Pipeline, Nowhere
  <2>2. gate \in GateProcess /\ producer \in {"on", "off"} /\ permit \in Nat
    BY <1>1 DEF GateProcess
  <2>3. box \in Container
    BY <1>1, ConditioningAssumption DEF ConditioningAssumption, Container
  <2>4. at \in [Thread -> Place] /\ spent \in [prepares : Nat, stops : Nat, faults : Nat]
    BY DEF Init
  <2>5. my \in [Thread -> Locals]
    BY <1>1, BlankIs
  <2> QED
    BY <2>1, <2>2, <2>3, <2>4, <2>5 DEF Types
<1>4. Places
  BY <1>1 DEF Places
<1>5. Owned
  BY <1>1 DEF Owned, Duty
<1>6. HandedOn
  BY <1>1 DEF HandedOn
<1>7. Starting
  BY <1>1 DEF Starting
<1>8. GateInv
  BY <1>1, <1>2 DEF GateInv, ZeroIsShut
<1>9. ZeroInv
  BY <1>1, BlankIs DEF ZeroInv
<1>10. Remains
  BY <1>1, <1>2 DEF Remains
<1>11. Begun
  BY <1>1, <1>2, <1>3 DEF Begun
<1> QED
  BY <1>3, <1>4, <1>5, <1>6, <1>7, <1>8, <1>9, <1>10, <1>11 DEF IInv, Parts

LEMMA TeardownKeeps == ASSUME IInv, NEW th \in Caller, Teardown(th) PROVE IInv'
BY ClaimsKeeps, TakesOverKeeps, AwaitsKeeps, QuietsKeeps, ZeroesKeeps, SilencesKeeps,
   BarrierPassesKeeps, TriesAgainKeeps, CleansKeeps, LeavesKeeps DEF Teardown

LEMMA StepKeeps == ASSUME IInv, [Next]_vars PROVE IInv'
<1>1. CASE Startup
  BY <1>1, StartupZeroKeeps, StartupSweepKeeps, StartupConfirmKeeps, StartupEndsKeeps,
     StartupFailsKeeps DEF Startup
<1>2. CASE Prepare
  BY <1>2, PrepareBeginsKeeps, PrepareHandsOverKeeps, PrepareIsReadyKeeps,
     PrepareAsksKeeps, PrepareBindsKeeps, PrepareLoadsKeeps, PrepareSealsKeeps
     DEF Prepare
<1>3. CASE Start
  BY <1>3, StartBeginsKeeps, StartTakesTokenKeeps, StartOpensKeeps, StartActivatesKeeps,
     StartFencesKeeps, StartProducesKeeps, StartCommitsKeeps, StartAbortsKeeps,
     MotionEndsKeeps DEF Start
<1>4. CASE Renew
  BY <1>4, RenewLooksKeeps, RenewAsksKeeps, RenewMatchesKeeps, RenewGrabsKeeps DEF Renew
<1>5. CASE EmergencyStop
  BY <1>5, EmergencyStopKeeps
<1>6. CASE \E th \in Caller : Teardown(th)
  BY <1>6, TeardownKeeps
<1>7. CASE ContinuationSteps
  BY <1>7, ContinuationSilencesKeeps, ContinuationCleansKeeps DEF ContinuationSteps
<1>8. CASE Rearm
  BY <1>8, RearmKeeps
<1>9. CASE World
  BY <1>9, WorldKeeps
<1>10. CASE Rest \/ UNCHANGED vars
  BY <1>10, StutterKeeps DEF Rest
<1> QED
  BY <1>1, <1>2, <1>3, <1>4, <1>5, <1>6, <1>7, <1>8, <1>9, <1>10 DEF Next, AdapterSteps

LEMMA Invariance == Spec => []IInv
<1>1. Init => IInv
  BY Starts
<1>2. IInv /\ [Next]_vars => IInv'
  BY StepKeeps
<1> QED
  BY <1>1, <1>2, PTL DEF Spec

-----------------------------------------------------------------------------
\* A generation that was stopped without an error, by a stop, a rearm or startup,
\* left no producer, no armed Gate and no component, not even one on its way.
THEOREM StoppedStays == Spec => []StoppedIsStill
<1>1. IInv => StoppedIsStill
  <2> SUFFICES ASSUME IInv, pipe.state = "Stopped", pipe.last.ok, ~pipe.teardown,
                      at["T"] \notin StartupPlace
               PROVE  /\ producer = "off" /\ gate.mode # "armed"
                      /\ box = [nodes |-> "none", late |-> FALSE]
    BY DEF StoppedIsStill
  <2>1. ~pipe.dirty /\ pipe.last.zero /\ at["T"] # "broken"
    BY Known DEF Remains, Begun
  <2>2. producer = "off" /\ box = [nodes |-> "none", late |-> FALSE]
    BY <2>1, Known DEF Remains, Types
  <2>3. gate.mode # "armed"
    BY <2>1, Known DEF GateInv, ZeroIsShut
  <2> QED
    BY <2>2, <2>3
<1> QED
  BY <1>1, Invariance, PTL

\* A claim of proven zero stays true of the Gate until another PREPARE.
THEOREM ZeroHolds == Spec => []ZeroIsTrue
<1>1. IInv => ZeroIsTrue
  BY Known DEF GateInv, ZeroIsShut, ZeroIsTrue
<1> QED
  BY <1>1, Invariance, PTL

\* One thread at a time stops the producer and cleans up, inside the open teardown or
\* as its continuation.
THEOREM OneCleans == Spec => []OneCleaner
<1>1. IInv => OneCleaner
  <2> SUFFICES ASSUME IInv PROVE OneCleaner
    OBVIOUS
  <2>1. \A th \in Caller : Cleaning(th) => Duty(th)
    BY Known DEF Cleaning, Duty, Places
  <2>2. Cleaning("K") => at["K"] = "clean" /\ pipe.continuation = "running" /\ ~pipe.teardown
    BY Known DEF Cleaning, Places, HandedOn
  <2>3. \A th \in Caller : Cleaning(th) => pipe.teardown
    BY <2>1, Known DEF Owned
  <2>4. ASSUME NEW a \in Thread, NEW b \in Thread, Cleaning(a), Cleaning(b)
        PROVE  a = b
    <3>1. CASE a = "K" \/ b = "K"
      BY <2>2, <2>3, <2>4, <3>1
    <3>2. CASE a # "K" /\ b # "K"
      BY <2>1, <2>4, <3>2, Known DEF Owned
    <3> QED
      BY <3>1, <3>2
  <2> QED
    BY <2>3, <2>4, Known DEF OneCleaner, HandedOn
<1> QED
  BY <1>1, Invariance, PTL

\* A lease is asked for only when the generations before it left nothing behind.
THEOREM GenerationIsFresh == Spec => []FreshGeneration
<1>1. IInv => FreshGeneration
  <2> SUFFICES ASSUME IInv, at["T"] \in {"ask", "bind"}
               PROVE  /\ producer = "off" /\ box = [nodes |-> "none", late |-> FALSE]
                      /\ pipe.starts = 0
    BY DEF FreshGeneration
  <2>1. ~pipe.dirty /\ producer \in {"on", "off"}
    BY Known DEF Remains, Types
  <2>2. producer = "off" /\ box = [nodes |-> "none", late |-> FALSE]
    BY <2>1, Known DEF Remains
  <2>3. pipe.starts = 0
    BY Known DEF Starting, Types, Pipeline
  <2> QED
    BY <2>2, <2>3
<1> QED
  BY <1>1, Invariance, PTL
=============================================================================
