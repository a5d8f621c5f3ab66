------------------------ MODULE GateRefinementProofs ------------------------
(***************************************************************************)
(* MotionGate implements what it promises: the lease of GateLease to the   *)
(* rest of the robot, and the service of GateService to its client.        *)
(*                                                                         *)
(* A handler changes the core and then runs the publication barrier, which *)
(* may break it.  The change alone is one of a few moves (CoreMove); the   *)
(* step lemmas say what a move and the barrier after it are in the         *)
(* abstract specification, and each handler is shown to make a move.       *)
(***************************************************************************)
EXTENDS MotionGateSafetyProofs, MCGateService

\* What a handler may do to the core before the barrier.
Stays(g, h) ==
  h.state = g.state /\ h.lease = g.lease /\ h.seq >= g.seq /\ (h.seq = g.seq => h.bound = g.bound)
Ends(g, h) ==
  /\ g.state \in {"prepared", "armed"} /\ h.state = "inhibited"
  /\ h.lease = 0 /\ h.seq > g.seq
Breaks(g, h) ==
  /\ h.state = "faulted" /\ h.lease = 0 /\ h.seq >= g.seq
  /\ h.seq = g.seq => g.seq = MaxSeq
Grants(g, h) ==
  /\ g.state = "inhibited" /\ h.state = "prepared"
  /\ h.seq > g.seq /\ h.lease = h.seq

CoreMove(g, h) == Stays(g, h) \/ Ends(g, h) \/ Breaks(g, h) \/ Grants(g, h)

LEMMA Bounds == MaxSeq \in Nat /\ MaxInstance \in Nat \ {0} /\ NoWriter \notin Writer
BY RequestAssumption, GateAssumption

-----------------------------------------------------------------------------
(***************************************************************************)
(* The moves of the core's helpers.                                        *)
(***************************************************************************)
LEMMA RetiredMove ==
  ASSUME NEW g \in Gate, g.state \in {"prepared", "armed"}
  PROVE  CoreMove(g, Retired(g))
BY Bounds DEF Retired, Exhausted, Closed, CoreMove, Ends, Breaks, Gate

LEMMA FaultedMove ==
  ASSUME NEW g \in Gate, CoreInv(g)
  PROVE  Stays(g, Faulted(g)) \/ Breaks(g, Faulted(g))
BY Bounds DEF Faulted, Closed, Stays, Breaks, Gate

LEMMA AdvancedMove ==
  ASSUME NEW g \in Gate
  PROVE  \/ Breaks(g, Advanced(g))
         \/ SameLease(g, Advanced(g)) /\ Advanced(g).seq = g.seq + 1
BY Bounds DEF Advanced, Exhausted, Closed, Breaks, SameLease, Gate

LEMMA ReconciledMove ==
  ASSUME NEW g \in Gate
  PROVE  Stays(g, Reconciled(g)) \/ Ends(g, Reconciled(g)) \/ Breaks(g, Reconciled(g))
<1>1. CASE Expired(g)
  <2>1. g.state \in {"prepared", "armed"}
    BY <1>1 DEF Expired
  <2>2. ~Grants(g, Retired(g))
    BY <2>1 DEF Grants
  <2> QED
    BY <1>1, <2>1, <2>2, RetiredMove DEF Reconciled, CoreMove
<1>2. CASE ~Expired(g)
  BY <1>2, Bounds DEF Reconciled, Stays, Gate
<1> QED
  BY <1>1, <1>2

-----------------------------------------------------------------------------
(***************************************************************************)
(* What a move and the barrier after it are to the lease.                  *)
(***************************************************************************)
LeaseNext == [Lease!Next]_(Lease!lvars)

\* The step formula of SequenceNamesTuple.
NamesTuple ==
  gate'.seq = gate.seq /\ inst' = inst =>
    \/ <<gate'.state, gate'.lease, gate'.bound>> =
       <<gate.state, gate.lease, gate.bound>>
    \/ gate.seq = MaxSeq /\ gate'.state = "faulted"

\* The barrier of PREPARE left a zero behind, and nothing moves until OPEN.
PreparedIsStill == gate.state = "prepared" => out = "zero"

\* What every step has to be shown to do.
Refines == LeaseNext /\ NamesTuple /\ PreparedIsStill'

\* What the barrier leaves of the core and of the command.
LEMMA BarrierOutcome ==
  ASSUME IInv, NEW h \in Gate, CoreInv(h), NEW rd, NEW rt, Conclude(h, rd, rt)
  PROVE  /\ gate' = h \/ gate' = Faulted(h)
         /\ out' \in {"zero", "moving"}
         /\ h.state # "armed" => out' \in {"zero", out}
         /\ gate' = h /\ h.state \notin {"armed", "faulted"} => out' = "zero"
<1>1. PICK x \in Emissions(h) : gate' = x.gate /\ Published(x.cmd)
  BY DEF Conclude
<1>2. out \in {"zero", "moving"}
  BY DEF IInv, TypeOK, Speed
<1>3. Output(h) \in {"zero", "moving"} /\ (h.state # "armed" => Output(h) = "zero")
  BY DEF Output, Gate, Speed
<1>4. CASE x = [gate |-> h, cmd |-> Output(h)]
  BY <1>1, <1>2, <1>3, <1>4 DEF Published
<1>5. CASE \E c \in {"zero", "none", Output(h)} : x = [gate |-> Faulted(h), cmd |-> c]
  <2>1. h.state \notin {"armed", "faulted"} => Faulted(h) # h
    BY DEF Faulted, Closed
  <2> QED
    BY <1>1, <1>2, <1>3, <1>5, <2>1 DEF Published
<1> QED
  BY <1>4, <1>5 DEF Emissions

\* The step to a broken core is the death of the lease.
LEMMA DeadLease ==
  ASSUME IInv, gate' \in Gate, gate'.state = "faulted", gate'.lease = 0, gate'.seq >= gate.seq,
         inst' = inst, out' \in {"zero", "moving"}, out' \in {out, "zero"} \/ gate.state = "armed"
  PROVE  LeaseNext
<1>1. gate.seq \in Nat /\ gate'.seq \in Nat /\ gate.state \in {"inhibited", "prepared", "armed", "faulted"}
  BY Bounds DEF IInv, TypeOK, Gate
<1> QED
  BY <1>1 DEF LeaseNext, Lease!Next, Lease!Die, Lease!NotEarlier, Lease!Later,
     Lease!OutputRests, Lease!NoLease

LEMMA BarrierRefines ==
  ASSUME IInv, NEW h \in Gate, CoreInv(h), CoreMove(gate, h), NEW rd, NEW rt,
         Conclude(h, rd, rt), inst' = inst
  PROVE  Refines
<1>1. /\ gate' = h \/ gate' = Faulted(h)
      /\ out' \in {"zero", "moving"}
      /\ h.state # "armed" => out' \in {"zero", out}
      /\ gate' = h /\ h.state \notin {"armed", "faulted"} => out' = "zero"
  BY BarrierOutcome
<1>2. /\ gate \in Gate /\ inst \in Nat \ {0} /\ CoreInv(gate)
      /\ gate.seq \in Nat /\ h.seq \in Nat
  BY Bounds DEF IInv, TypeOK, Gate
<1>3. /\ Rests(Faulted(h)) /\ Faulted(h).state = "faulted" /\ Faulted(h) \in Gate
      /\ Stays(h, Faulted(h)) \/ Breaks(h, Faulted(h))
  BY FaultedRests, FaultedType, FaultedMove
<1>4. gate' \in Gate /\ CoreInv(gate') /\ (gate' = h \/ gate'.state = "faulted")
  BY <1>1, <1>3 DEF CoreInv
<1>5. CoreMove(gate, gate')
  <2>1. CASE gate' = h
    BY <2>1
  <2>2. CASE gate' = Faulted(h)
    <3>1. gate'.seq \in Nat /\ h.seq <= MaxSeq
      BY <1>4, Bounds DEF Gate
    <3> QED
      BY <1>2, <1>3, <2>2, <3>1 DEF CoreMove, Stays, Ends, Breaks, Grants, Rests
  <2> QED
    BY <1>1, <2>1, <2>2
<1>6. LeaseNext
  <2>1. CASE gate' = h /\ Stays(gate, h)
    BY <1>1, <1>2, <2>1
       DEF LeaseNext, Lease!Next, Lease!Drive, Lease!Rest, Lease!NotEarlier, Lease!Later,
           Lease!OutputRests, Stays, CoreInv, Rests, Gate
  <2>2. CASE gate' = h /\ Ends(gate, h)
    BY <1>1, <1>2, <2>2
       DEF LeaseNext, Lease!Next, Lease!Close, Lease!Later, Lease!NoLease, Ends
  <2>3. CASE gate' = h /\ Grants(gate, h)
    BY <1>1, <1>2, <2>3
       DEF LeaseNext, Lease!Next, Lease!Grant, Lease!Later, Lease!NoLease, Grants
  <2>4. CASE gate'.state = "faulted"
    <3>1. gate'.lease = 0
      BY <1>4, <2>4 DEF CoreInv, Rests
    <3>2. gate'.seq >= gate.seq
      BY <1>5, <1>2, <1>4, Bounds DEF CoreMove, Stays, Ends, Breaks, Grants, Gate
    <3>3. out' \in {out, "zero"} \/ gate.state = "armed"
      BY <1>1 DEF CoreMove, Stays, Ends, Breaks, Grants
    <3> QED
      BY <1>1, <1>4, <2>4, <3>1, <3>2, <3>3, DeadLease
  <2> QED
    BY <1>4, <2>1, <2>2, <2>3, <2>4 DEF CoreMove, Breaks
<1>7. NamesTuple
  <2>1. gate'.seq \in Nat
    BY <1>4, Bounds DEF Gate
  <2> QED
    BY <1>2, <1>5, <2>1 DEF NamesTuple, CoreMove, Stays, Ends, Breaks, Grants
<1>8. PreparedIsStill'
  BY <1>1, <1>4 DEF PreparedIsStill
<1> QED
  BY <1>6, <1>7, <1>8 DEF Refines

\* A step that leaves the core as it is and publishes nothing, or a zero.
LEMMA RestingRefines ==
  ASSUME IInv, PreparedIsStill, UNCHANGED <<inst, gate>>,
         out' = out \/ (out' = "zero" /\ gate.state = "inhibited")
  PROVE  Refines
<1>1. CASE out' = out
  BY <1>1 DEF Refines, LeaseNext, Lease!lvars, NamesTuple, PreparedIsStill
<1>2. CASE out' = "zero" /\ gate.state = "inhibited"
  <2>1. gate.seq \in Nat
    BY Bounds DEF IInv, TypeOK, Gate
  <2> QED
    BY <1>2, <2>1 DEF Refines, LeaseNext, Lease!Next, Lease!Rest, Lease!NotEarlier,
       Lease!OutputRests, NamesTuple, PreparedIsStill
<1> QED
  BY <1>1, <1>2

-----------------------------------------------------------------------------
(***************************************************************************)
(* The core each handler brings to the barrier.                            *)
(***************************************************************************)
\* A handler may leave the core at h: well formed, and a move away.
Fits(h) == h \in Gate /\ CoreInv(h) /\ CoreMove(gate, h)

LEMMA CoreTyped ==
  ASSUME IInv
  PROVE  gate \in Gate /\ CoreInv(gate) /\ Fits(gate) /\ Fits(Faulted(gate))
         /\ Faulted(gate).state = "faulted"
<1>1. gate \in Gate /\ CoreInv(gate) /\ gate.seq >= gate.seq
  BY Bounds DEF IInv, TypeOK, Gate
<1> QED
  BY <1>1, FaultedType, FaultedMove, FaultedRests DEF Fits, CoreMove, Stays, CoreInv

LEMMA ReconciledFits ==
  ASSUME IInv, Idle
  PROVE  Fits(Reconciled(gate))
BY CoreTyped, ReconciledSafe, ReconciledMove DEF Fits, CoreMove

LEMMA InhibitFits ==
  ASSUME IInv, Idle, NEW r \in Learnt, Verdict(Reconciled(gate), r) = "fit"
  PROVE  Fits(IF Reconciled(gate).state = "inhibited" THEN Advanced(Reconciled(gate))
              ELSE Retired(Reconciled(gate)))
<1> DEFINE g == Reconciled(gate)
           h == IF g.state = "inhibited" THEN Advanced(g) ELSE Retired(g)
<1>1. Fits(g) /\ gate \in Gate /\ CoreInv(gate) /\ (Rests(g) \/ g = gate)
  BY ReconciledFits, CoreTyped, ReconciledSafe
<1>2. g.state # "faulted"
  BY DEF Verdict
<1>3. Stays(gate, g) \/ Ends(gate, g)
  BY <1>1, <1>2 DEF Fits, CoreMove, Breaks, Rests, Grants
<1> HIDE DEF g
<1>4. /\ g \in Gate /\ CoreInv(g) /\ g.seq \in Nat /\ gate.seq \in Nat
      /\ g.seq <= MaxSeq /\ gate.seq <= MaxSeq
  BY <1>1, Bounds DEF Fits, Gate
<1>5. CASE g.state = "inhibited"
  <2>1. h \in Gate /\ Rests(h)
    BY <1>4, <1>5, AdvancedType, AdvancedCore DEF CoreInv, Rests, SameLease
  <2>2. Breaks(g, h) \/ (SameLease(g, h) /\ h.seq = g.seq + 1)
    BY <1>4, <1>5, AdvancedMove
  <2>3. h.seq \in Nat
    BY <2>1, Bounds DEF Gate
  <2> HIDE DEF h
  <2>4. CoreMove(gate, h)
    BY <1>3, <1>4, <1>5, <2>1, <2>2, <2>3 DEF CoreMove, Stays, Ends, Breaks, SameLease, Rests
  <2> QED
    BY <1>5, <2>1, <2>4 DEF Fits, CoreInv, h, g
<1>6. CASE g.state # "inhibited"
  <2>1. g = gate /\ g.state \in {"prepared", "armed"}
    BY <1>1, <1>2, <1>6 DEF Rests, CoreInv, g
  <2>2. h \in Gate /\ Rests(h) /\ CoreMove(gate, h)
    BY <1>4, <1>6, <2>1, RetiredType, RetiredRests, RetiredMove
  <2> QED
    BY <1>6, <2>2 DEF Fits, CoreInv, g
<1> QED
  BY <1>5, <1>6 DEF g

LEMMA RenewFits ==
  ASSUME IInv, gate.state = "armed"
  PROVE  Fits(Renewed(gate))
<1>1. gate \in Gate /\ CoreInv(gate)
  BY CoreTyped
<1>2. Renewed(gate) \in Gate /\ Advanced(gate) \in Gate
  BY <1>1, RenewedType, AdvancedType
<1>3. CASE Advanced(gate).state = "faulted"
  <2>1. Renewed(gate) = Advanced(gate)
    BY <1>3 DEF Renewed
  <2>2. Rests(Advanced(gate)) /\ Breaks(gate, Advanced(gate))
    BY <1>1, <1>3, AdvancedCore, AdvancedMove DEF SameLease
  <2> QED
    BY <1>2, <2>1, <2>2 DEF Fits, CoreMove, CoreInv
<1>4. CASE Advanced(gate).state # "faulted"
  <2>1. SameLease(gate, Advanced(gate)) /\ Advanced(gate).seq = gate.seq + 1
    BY <1>1, <1>4, AdvancedMove DEF Breaks
  <2>2. Renewed(gate) = [Advanced(gate) EXCEPT !.authorityLeft = AuthorityTicks]
    BY <1>4 DEF Renewed
  <2>3. /\ Renewed(gate).state = gate.state /\ Renewed(gate).lease = gate.lease
        /\ Renewed(gate).bound = gate.bound /\ Renewed(gate).seq = gate.seq + 1
    BY <1>2, <2>1, <2>2 DEF SameLease, Gate
  <2>4. gate.seq \in Nat
    BY <1>1, Bounds DEF Gate
  <2> QED
    BY <1>1, <1>2, <2>3, <2>4 DEF Fits, CoreMove, Stays, CoreInv, Rests
<1> QED
  BY <1>3, <1>4

LEMMA GrantFits ==
  ASSUME IInv, gate.state = "inhibited", NEW waited \in Nat
  PROVE  Fits(Prepared(gate, waited))
<1> DEFINE a == Advanced(gate)
           h == Prepared(gate, waited)
           left == IF waited < PrepareTicks THEN PrepareTicks - waited ELSE 0
<1>1. gate \in Gate /\ CoreInv(gate) /\ gate.lease = 0 /\ gate.bound = NoWriter /\ gate.fresh = FALSE
  BY CoreTyped DEF CoreInv, Rests
<1>2. h \in Gate /\ a \in Gate
  BY <1>1, PreparedType, AdvancedType
<1>3. CASE a.state = "faulted"
  <2>1. h = a
    BY <1>3 DEF Prepared
  <2>2. Rests(a) /\ Breaks(gate, a)
    BY <1>1, <1>3, AdvancedCore, AdvancedMove DEF SameLease
  <2> QED
    BY <1>2, <2>1, <2>2 DEF Fits, CoreMove, CoreInv
<1>4. CASE a.state # "faulted"
  <2>1. SameLease(gate, a) /\ a.seq = gate.seq + 1 /\ a.fresh = gate.fresh
    BY <1>1, <1>4, AdvancedCore
  <2>2. h = [a EXCEPT !.state = "prepared", !.lease = a.seq, !.prepareLeft = left]
    BY <1>4 DEF Prepared
  <2>3. gate.seq \in Nat
    BY <1>1, Bounds DEF Gate
  <2> HIDE DEF a, left
  <2>4. /\ h.state = "prepared" /\ h.lease = h.seq /\ h.seq = gate.seq + 1
        /\ h.bound = NoWriter /\ h.fresh = FALSE
    BY <1>1, <1>2, <2>1, <2>2 DEF SameLease, Gate
  <2> HIDE DEF h
  <2>5. CoreMove(gate, h) /\ CoreInv(h)
    BY <2>3, <2>4 DEF CoreMove, Grants, CoreInv
  <2> QED
    BY <1>2, <2>5 DEF Fits, h
<1> QED
  BY <1>3, <1>4

LEMMA WindowFits ==
  ASSUME IInv, gate.state = "armed"
  PROVE  Fits(ArmedWindow(gate))
<1>1. gate \in Gate /\ CoreInv(gate) /\ ArmedWindow(gate) \in Gate
  BY CoreTyped, ArmedWindowType
<1>2. /\ ArmedWindow(gate).state = gate.state /\ ArmedWindow(gate).lease = gate.lease
      /\ ArmedWindow(gate).bound = gate.bound /\ ArmedWindow(gate).seq = gate.seq
  BY <1>1 DEF ArmedWindow, Gate
<1>3. gate.seq \in Nat
  BY <1>1, Bounds DEF Gate
<1> QED
  BY <1>1, <1>2, <1>3 DEF Fits, CoreMove, Stays, CoreInv, Rests

LEMMA CandidateFits ==
  ASSUME IInv, Idle, inbox # NoSample
  PROVE  Fits(Accepted(Reconciled(gate), reader.lease, inbox))
<1> DEFINE g == Reconciled(gate)
           h == Accepted(g, reader.lease, inbox)
<1>1. Fits(g) /\ (Rests(g) \/ g = gate) /\ inbox \in Sample /\ gate \in Gate /\ CoreInv(gate)
  BY ReconciledFits, ReconciledSafe, CoreTyped DEF IInv, TypeOK
<1>2. h \in Gate
  BY <1>1, AcceptedType DEF Fits
<1>3. CASE h = g
  BY <1>1, <1>3
<1>4. CASE h # g
  <2>1. g.state = "armed" /\ g = gate
    BY <1>1, <1>4 DEF Accepted, Rests
  <2>2. h = Retired(gate) \/ h = [gate EXCEPT !.cmd = inbox.kind, !.fresh = TRUE, !.freshLeft = FreshTicks]
    BY <1>4, <2>1 DEF Accepted
  <2>3. CASE h = Retired(gate)
    BY <1>1, <1>2, <2>1, <2>3, RetiredMove, RetiredRests DEF Fits, CoreInv
  <2>4. CASE h = [gate EXCEPT !.cmd = inbox.kind, !.fresh = TRUE, !.freshLeft = FreshTicks]
    <3>1. h.state = gate.state /\ h.lease = gate.lease /\ h.bound = gate.bound /\ h.seq = gate.seq
      BY <1>1, <2>4 DEF Gate
    <3>2. gate.seq \in Nat
      BY <1>1, Bounds DEF Gate
    <3> HIDE DEF h
    <3> QED
      BY <1>1, <1>2, <2>1, <3>1, <3>2 DEF Fits, CoreMove, Stays, CoreInv, Rests, h
  <2> QED
    BY <2>2, <2>3, <2>4
<1> QED
  BY <1>3, <1>4

-----------------------------------------------------------------------------
(***************************************************************************)
(* Each handler keeps the promise of the lease.                            *)
(***************************************************************************)
LEMMA FitsRefines ==
  ASSUME IInv, NEW h, Fits(h), NEW rd, NEW rt, Conclude(h, rd, rt), inst' = inst
  PROVE  Refines
BY BarrierRefines DEF Fits

LEMMA RequestRefines ==
  ASSUME IInv, NEW r \in Learnt, Refuse(r) \/ Inhibit(r) \/ Renew(r)
  PROVE  Refines
<1>1. CASE Refuse(r)
  <2>1. Idle /\ Conclude(Reconciled(gate), reader, retired) /\ inst' = inst
    BY <1>1 DEF Refuse
  <2> QED
    BY <2>1, ReconciledFits, FitsRefines
<1>2. CASE Inhibit(r)
  <2>1. /\ Idle /\ Verdict(Reconciled(gate), r) = "fit" /\ inst' = inst
        /\ Conclude(IF Reconciled(gate).state = "inhibited" THEN Advanced(Reconciled(gate))
                    ELSE Retired(Reconciled(gate)), reader, retired)
    BY <1>2 DEF Inhibit
  <2> QED
    BY <2>1, InhibitFits, FitsRefines
<1>3. CASE Renew(r)
  <2>1. /\ Idle /\ r.op = "renew" /\ Verdict(Reconciled(gate), r) = "fit" /\ inst' = inst
        /\ Conclude(Renewed(Reconciled(gate)), reader, retired)
    BY <1>3 DEF Renew
  <2>2. Reconciled(gate) = gate
    BY <2>1, FitIsCurrent
  <2>3. gate.state = "armed"
    BY <2>1, <2>2 DEF Verdict, RightState
  <2> QED
    BY <2>1, <2>2, <2>3, RenewFits, FitsRefines
<1> QED
  BY <1>1, <1>2, <1>3

LEMMA GrantRefines ==
  ASSUME IInv, gate.state = "inhibited", NEW r, NEW waited \in Nat, Grant(r, waited)
  PROVE  Refines
<1>1. Reconciled(gate) = gate
  BY DEF Reconciled, Expired
<1>2. inst' = inst /\ \E rd : Conclude(Prepared(gate, waited), rd, NoWriter)
  BY <1>1 DEF Grant
<1> QED
  BY <1>2, GrantFits, FitsRefines

LEMMA PrepareRefines ==
  ASSUME IInv, PreparedIsStill,
         \/ \E r \in Learnt : Prepare(r) \/ PrepareBlocks(r)
         \/ PrepareResumes
         \/ PrepareZero
         \/ PrepareFails
         \/ PrepareTimesOut
  PROVE  Refines
<1>1. ASSUME NEW r \in Learnt, Prepare(r) PROVE Refines
  <2>1. Reconciled(gate) = gate
    BY <1>1, FitIsCurrent DEF Prepare
  <2>2. gate.state = "inhibited"
    BY <1>1, <2>1 DEF Prepare, Verdict, RightState
  <2> QED
    BY <1>1, <2>2, GrantRefines DEF Prepare
<1>2. ASSUME NEW r \in Learnt, PrepareBlocks(r) PROVE Refines
  BY <1>2, RestingRefines DEF PrepareBlocks
<1>3. CASE PrepareResumes
  <2>1. job.waited \in Nat
    BY <1>3, JobType, GateAssumption, RequestAssumption DEF IInv, PrepareResumes, PrepareJob
  <2> QED
    BY <1>3, <2>1, GrantRefines DEF PrepareResumes, IInv, JobInv
<1>4. CASE PrepareZero
  BY <1>4, RestingRefines DEF PrepareZero, IInv, JobInv
<1>5. CASE PrepareFails
  <2>1. gate.state = "inhibited" /\ gate' = Faulted(gate) /\ inst' = inst /\ out' \in {"zero", out}
    BY <1>5 DEF PrepareFails, IInv, JobInv, Published
  <2>2. Fits(gate') /\ gate'.state = "faulted" /\ out \in {"zero", "moving"} /\ gate \in Gate
    BY <2>1, CoreTyped DEF IInv, TypeOK, Speed
  <2>3. gate'.lease = 0 /\ gate'.seq >= gate.seq /\ gate' \in Gate
        /\ (gate'.seq = gate.seq => gate.seq = MaxSeq)
    BY <2>1, <2>2 DEF Fits, CoreMove, Stays, Ends, Breaks, Grants
  <2>4. LeaseNext
    BY <2>1, <2>2, <2>3, DeadLease
  <2> QED
    BY <2>2, <2>3, <2>4 DEF Refines, NamesTuple, PreparedIsStill
<1>6. CASE PrepareTimesOut
  BY <1>6, CoreTyped, FitsRefines DEF PrepareTimesOut
<1> QED
  BY <1>1, <1>2, <1>3, <1>4, <1>5, <1>6

LEMMA OpenRefines ==
  ASSUME IInv, PreparedIsStill,
         \/ \E r \in Learnt : OpenBegin(r) \/ OpenUnready(r)
         \/ OpenUnbound
         \/ OpenCompletes
         \/ OpenBreaks
  PROVE  Refines
<1>1. ASSUME NEW r \in Learnt, OpenBegin(r) PROVE Refines
  BY <1>1, RestingRefines DEF OpenBegin
<1>2. ASSUME NEW r \in Learnt, OpenUnready(r) PROVE Refines
  BY <1>2, CoreTyped, FitsRefines DEF OpenUnready
<1>3. CASE OpenUnbound
  BY <1>3, CoreTyped, FitsRefines DEF OpenUnbound
<1>4. CASE OpenCompletes
  <2>1. gate.state = "armed"
    BY <1>4 DEF OpenCompletes, IInv, JobInv
  <2> QED
    BY <1>4, <2>1, WindowFits, FitsRefines DEF OpenCompletes
<1>5. CASE OpenBreaks
  BY <1>5, CoreTyped, FitsRefines DEF OpenBreaks
<1> QED
  BY <1>1, <1>2, <1>3, <1>4, <1>5

\* OPEN arms the lease that PREPARE made, with the zero of PREPARE behind it.
LEMMA BindRefines ==
  ASSUME IInv, PreparedIsStill, OpenBinds
  PROVE  Refines
<1> DEFINE a == Advanced(gate)
<1>1. /\ gate \in Gate /\ gate.state = "prepared" /\ gate.lease # 0 /\ gate.seq # MaxSeq
      /\ inst' = inst /\ out' = "zero" /\ gate' = Bound(gate, job.first)
  BY Bounds DEF OpenBinds, Quiet, PreparedIsStill, IInv, JobInv, TypeOK, Gate, CoreInv, Rests
<1>2. a = [gate EXCEPT !.seq = gate.seq + 1]
  BY <1>1 DEF Advanced
<1>3. a \in Gate /\ a.state = "prepared" /\ a.seq = gate.seq + 1 /\ a.lease = gate.lease
  BY <1>1, <1>2, AdvancedType DEF Gate
<1> HIDE DEF a
<1>4. gate' = [a EXCEPT !.state = "armed", !.bound = job.first, !.prepareLeft = 0,
                        !.authorityLeft = AuthorityTicks, !.freshLeft = 0,
                        !.fresh = FALSE, !.cmd = "zero"]
  BY <1>1, <1>3 DEF Bound, ArmedWindow, Gate, a
<1>5. gate'.state = "armed" /\ gate'.seq = gate.seq + 1 /\ gate'.lease = gate.lease
  BY <1>3, <1>4 DEF Gate
<1>6. gate.seq \in Nat
  BY <1>1, Bounds DEF Gate
<1>7. LeaseNext
  BY <1>1, <1>5, <1>6 DEF LeaseNext, Lease!Next, Lease!Activate, Lease!Later
<1> QED
  BY <1>5, <1>6, <1>7 DEF Refines, NamesTuple, PreparedIsStill

LEMMA SurroundingsRefine ==
  ASSUME IInv, PreparedIsStill, Discard \/ Graph \/ UNCHANGED vars
  PROVE  Refines
<1>1. UNCHANGED <<inst, gate, out>>
  BY DEF Discard, Graph, WriterAppears, WriterDisappears, WriterPublishes, vars
<1> QED
  BY <1>1, RestingRefines

\* Time alone ends no lease: the next handler does.
LEMMA TimeRefines ==
  ASSUME IInv, PreparedIsStill, TimePasses
  PROVE  Refines
<1>1. /\ gate'.state = gate.state /\ gate'.lease = gate.lease
      /\ gate'.seq = gate.seq /\ gate'.bound = gate.bound
  BY DEF TimePasses, IInv, TypeOK, Gate
<1>2. UNCHANGED <<inst, out>>
  BY DEF TimePasses
<1> QED
  BY <1>1, <1>2 DEF Refines, LeaseNext, Lease!lvars, NamesTuple, PreparedIsStill

\* What the constructor leaves behind.
LEMMA FreshStart ==
  ASSUME NEW x \in Emissions(FreshCore)
  PROVE  /\ x.gate.lease = 0 /\ x.gate.seq \in {0, 1}
         /\ \/ x.gate.state = "inhibited" /\ x.cmd = "zero"
            \/ x.gate.state = "faulted" /\ x.cmd \in {"zero", "none"}
<1>1. Output(FreshCore) = "zero"
  BY DEF Output, FreshCore, Closed
<1>2. Faulted(FreshCore) = Closed("faulted", IF 0 = MaxSeq THEN MaxSeq ELSE 1)
  BY DEF Faulted, FreshCore, Closed
<1> QED
  BY <1>1, <1>2 DEF Emissions, FreshCore, Closed

LEMMA RestartRefines ==
  ASSUME IInv, Restart
  PROVE  Refines
<1>1. Start(inst + 1) /\ inst \in Nat \ {0}
  BY Bounds DEF Restart, IInv, TypeOK
<1>2. PICK x \in Emissions(FreshCore) : gate' = x.gate /\ Published(x.cmd)
  BY <1>1 DEF Start
<1>3. inst' = inst + 1
  BY <1>1 DEF Start
<1>4. /\ gate'.lease = 0
      /\ \/ gate'.state = "inhibited" /\ out' = "zero"
         \/ gate'.state = "faulted" /\ out' \in {"zero", out}
  BY <1>2, FreshStart DEF Published
<1>5. LeaseNext
  BY <1>1, <1>3, <1>4
     DEF LeaseNext, Lease!Next, Lease!Reboot, Lease!NoLease, Lease!OutputRests
<1> QED
  BY <1>1, <1>3, <1>4, <1>5 DEF Refines, NamesTuple, PreparedIsStill

LEMMA StepRefines == IInv /\ PreparedIsStill /\ [Next]_vars => Refines
<1> SUFFICES ASSUME IInv, PreparedIsStill, [Next]_vars PROVE Refines
  OBVIOUS
<1>1. CASE OnControl
  <2>1. PICK r \in Learnt :
          \/ Refuse(r) \/ Inhibit(r) \/ Renew(r) \/ Prepare(r)
          \/ PrepareBlocks(r) \/ OpenBegin(r) \/ OpenUnready(r)
    BY <1>1 DEF OnControl
  <2> QED
    BY <2>1, RequestRefines, PrepareRefines, OpenRefines
<1>2. CASE Blocked
  BY <1>2, PrepareRefines, OpenRefines, BindRefines DEF Blocked
<1>3. CASE OnCandidate
  BY <1>3, CandidateFits, FitsRefines DEF OnCandidate
<1>4. CASE OnOutputTimer
  BY <1>4, ReconciledFits, FitsRefines DEF OnOutputTimer
<1>5. CASE Discard \/ Graph \/ UNCHANGED vars
  BY <1>5, SurroundingsRefine
<1>6. CASE TimePasses
  BY <1>6, TimeRefines
<1>7. CASE Restart
  BY <1>7, RestartRefines
<1> QED
  BY <1>1, <1>2, <1>3, <1>4, <1>5, <1>6, <1>7 DEF Next

LEMMA InitRefines == Init => Lease!Init /\ PreparedIsStill
<1> SUFFICES ASSUME Init PROVE Lease!Init /\ PreparedIsStill
  OBVIOUS
<1>1. PICK x \in Emissions(FreshCore) : gate = x.gate
  BY DEF Init
<1>2. gate.lease = 0 /\ gate.seq \in {0, 1} /\ gate.state \in {"inhibited", "faulted"}
  BY <1>1, FreshStart
<1> QED
  BY <1>2 DEF Init, Lease!Init, Lease!NoLease, PreparedIsStill

\* The Gate keeps the promise of GateLease: a lease that was closed never
\* comes back, nothing moves without a live one, and closing one leaves a zero
\* behind, or a broken Gate.
THEOREM GateKeepsTheLease == Spec => LeaseSpec
<1>1. Init => Lease!Init /\ PreparedIsStill
  BY InitRefines
<1>2. IInv /\ PreparedIsStill /\ [Next]_vars => LeaseNext /\ PreparedIsStill'
  BY StepRefines DEF Refines
<1> QED
  BY <1>1, <1>2, Invariance, PTL DEF Spec, LeaseSpec, Lease!Spec, LeaseNext

\* No handler changes the authority tuple without a new control sequence, save
\* by the fault that its exhaustion causes: the client's watermark can rely on
\* it.
THEOREM TupleIsNamed == Spec => SequenceNamesTuple
<1>1. Init => PreparedIsStill
  BY InitRefines
<1>2. IInv /\ PreparedIsStill /\ [Next]_vars => NamesTuple /\ PreparedIsStill'
  BY StepRefines DEF Refines
<1> QED
  BY <1>1, <1>2, Invariance, PTL DEF Spec, SequenceNamesTuple, NamesTuple

-----------------------------------------------------------------------------
(***************************************************************************)
(* The service.  What the client sees of a core, of the blocked handler    *)
(* and of an answer, and what the helpers of the core are to the client.   *)
(***************************************************************************)
Seen(g) == [state |-> g.state, seq |-> g.seq, lease |-> g.lease,
            moving |-> Output(g) = "moving"]
Pending(j) == IF j.step = "third" THEN j.req ELSE [op |-> "none"]
Told(rep, e) ==
  IF rep = NoReply THEN rep
  ELSE [id |-> rep.id, op |-> rep.op, code |-> rep.code, why |-> rep.why, zero |-> e = "zero"]

ServiceNext == [Service!Next]_(Service!svars)

LEMMA SameVerdict ==
  ASSUME NEW g \in Gate, NEW r
  PROVE  Service!Verdict(Seen(g), r) = Verdict(g, r)
BY DEF Service!Verdict, Verdict, Service!Collides, Collides, Service!Replays, Replays,
   Service!Cached, Cached, Service!LeaseRequired, LeaseRequired, Service!RightState,
   RightState, Seen

LEMMA SameMemory ==
  ASSUME NEW r, NEW why
  PROVE  Service!Remember(r, why) = Remember(r, why)
BY DEF Service!Remember, Remember, Service!Cached, Cached

LEMMA SeenClosed ==
  ASSUME NEW state \in {"inhibited", "faulted"}, NEW seq
  PROVE  Seen(Closed(state, seq)) = Service!Shut(state, seq)
<1>1. (Output(Closed(state, seq)) = "moving") = FALSE
  BY DEF Output, Closed
<1> QED
  BY <1>1 DEF Seen, Closed, Service!Shut

LEMMA SeenRetired ==
  ASSUME NEW g \in Gate
  PROVE  Seen(Retired(g)) = Service!Ended(Seen(g))
BY SeenClosed DEF Retired, Exhausted, Service!Ended, Seen

LEMMA SeenFaulted ==
  ASSUME NEW g \in Gate
  PROVE  Seen(Faulted(g)) = Service!Broken(Seen(g))
BY SeenClosed DEF Faulted, Service!Broken, Seen

LEMMA SeenAdvanced ==
  ASSUME NEW g \in Gate
  PROVE  Seen(Advanced(g)) = Service!Stepped(Seen(g))
<1>1. CASE g.seq = MaxSeq
  BY <1>1, SeenClosed DEF Advanced, Exhausted, Service!Stepped, Seen
<1>2. CASE g.seq # MaxSeq
  BY <1>2 DEF Advanced, Service!Stepped, Seen, Output, Gate
<1> QED
  BY <1>1, <1>2

LEMMA SeenPrepared ==
  ASSUME NEW g \in Gate, g.state = "inhibited", NEW waited \in Nat
  PROVE  Seen(Prepared(g, waited)) = Service!Granted(Seen(g))
<1> DEFINE a == Advanced(g)
<1>1. a \in Gate /\ Seen(a) = Service!Stepped(Seen(g))
  BY AdvancedType, SeenAdvanced
<1>2. a.state \in {"inhibited", "faulted"}
  BY DEF Advanced, Exhausted, Closed, Gate
<1> HIDE DEF a
<1>3. CASE a.state = "faulted"
  BY <1>1, <1>3 DEF Prepared, Service!Granted, Seen, a
<1>4. CASE a.state = "inhibited"
  <2>1. (Output(a) = "moving") = FALSE
    BY <1>4 DEF Output
  <2>2. PICK left : Prepared(g, waited) = [a EXCEPT !.state = "prepared", !.lease = a.seq,
                                                    !.prepareLeft = left]
    BY <1>4 DEF Prepared, a
  <2>3. /\ Prepared(g, waited).state = "prepared" /\ Prepared(g, waited).seq = a.seq
        /\ Prepared(g, waited).lease = a.seq
    BY <1>1, <2>2 DEF Gate
  <2>4. Seen(Prepared(g, waited)) = [state |-> "prepared", seq |-> a.seq, lease |-> a.seq,
                                     moving |-> FALSE]
    BY <2>3 DEF Seen, Output
  <2>5. Service!Granted(Seen(g)) = [Seen(a) EXCEPT !.state = "prepared", !.lease = Seen(a).seq]
    <3>1. Seen(a).state = "inhibited"
      BY <1>4 DEF Seen
    <3> QED
      BY <1>1, <3>1 DEF Service!Granted
  <2> QED
    BY <2>1, <2>4, <2>5 DEF Seen
<1> QED
  BY <1>2, <1>3, <1>4

LEMMA SeenRenewed ==
  ASSUME NEW g \in Gate
  PROVE  Seen(Renewed(g)) = Service!Stepped(Seen(g))
<1> DEFINE a == Advanced(g)
<1>1. a \in Gate /\ Seen(a) = Service!Stepped(Seen(g)) /\ Renewed(g) \in Gate
  BY AdvancedType, SeenAdvanced, RenewedType
<1>2. Renewed(g) = a \/ Renewed(g) = [a EXCEPT !.authorityLeft = AuthorityTicks]
  BY DEF Renewed
<1> HIDE DEF a
<1>3. /\ Renewed(g).state = a.state /\ Renewed(g).seq = a.seq /\ Renewed(g).lease = a.lease
      /\ Renewed(g).fresh = a.fresh /\ Renewed(g).cmd = a.cmd
  BY <1>1, <1>2 DEF Gate
<1> QED
  BY <1>1, <1>3 DEF Seen, Output

LEMMA SeenWindow ==
  ASSUME NEW g \in Gate, g.fresh = FALSE
  PROVE  Seen(ArmedWindow(g)) = Seen(g)
<1>1. /\ ArmedWindow(g).state = g.state /\ ArmedWindow(g).seq = g.seq
      /\ ArmedWindow(g).lease = g.lease /\ ArmedWindow(g).fresh = FALSE
  BY DEF ArmedWindow, Gate
<1> QED
  BY <1>1 DEF Seen, Output

LEMMA SeenReconciled ==
  ASSUME NEW g \in Gate
  PROVE  \/ Seen(Reconciled(g)) = Seen(g)
         \/ Service!Leased(Seen(g)) /\ Seen(Reconciled(g)) = Service!Ended(Seen(g))
BY SeenRetired DEF Reconciled, Expired, Service!Leased, Seen

\* A handler that concludes with an answer is answered.
LEMMA BarrierAnswers ==
  ASSUME NEW h \in Gate, NEW rd, NEW rt, Conclude(h, rd, rt), NEW r, NEW why,
         NEW code \in {"applied", "duplicate", "rejected", "faulted"}, Answer(r, code, why)
  PROVE  \E c \in {Seen(h), Service!Broken(Seen(h))} :
           /\ Seen(gate') = c
           /\ \E zero \in IF c.state = "faulted" THEN BOOLEAN ELSE {~c.moving} :
                Told(reply', emit') =
                  [id |-> r.id, op |-> r.op, why |-> why, zero |-> zero,
                   code |-> IF c.state = "faulted" THEN "faulted" ELSE code]
<1>1. PICK x \in Emissions(h) : gate' = x.gate /\ emit' = x.cmd
  BY DEF Conclude
<1>2. Output(h) \in {"zero", "moving"}
  BY DEF Output, Gate, Speed
<1>3. reply' = [id |-> r.id, op |-> r.op, why |-> why,
                code |-> IF gate'.state = "faulted" THEN "faulted" ELSE code]
  BY DEF Answer
<1>4. reply' # NoReply
  BY <1>3 DEF NoReply
<1>5. Told(reply', emit') =
        [id |-> r.id, op |-> r.op, why |-> why, zero |-> emit' = "zero",
         code |-> IF Seen(gate').state = "faulted" THEN "faulted" ELSE code]
  BY <1>3, <1>4 DEF Told, Seen
<1>6. CASE x = [gate |-> h, cmd |-> Output(h)]
  <2>1. Seen(gate') = Seen(h)
    BY <1>1, <1>6
  <2>2. (emit' = "zero") = ~Seen(h).moving
    BY <1>1, <1>2, <1>6 DEF Seen
  <2>3. (emit' = "zero") \in BOOLEAN
    OBVIOUS
  <2>4. (emit' = "zero") \in IF Seen(h).state = "faulted" THEN BOOLEAN ELSE {~Seen(h).moving}
    BY <2>2, <2>3
  <2> QED
    BY <1>5, <2>1, <2>4
<1>7. CASE \E c \in {"zero", "none", Output(h)} : x = [gate |-> Faulted(h), cmd |-> c]
  <2>1. Seen(gate') = Service!Broken(Seen(h))
    BY <1>1, <1>7, SeenFaulted
  <2>2. Seen(gate').state = "faulted"
    BY <1>1, <1>7 DEF Faulted, Closed, Seen
  <2>3. (emit' = "zero") \in BOOLEAN
    OBVIOUS
  <2> QED
    BY <1>5, <2>1, <2>2, <2>3
<1> QED
  BY <1>6, <1>7 DEF Emissions

-----------------------------------------------------------------------------
(***************************************************************************)
(* Each handler serves as promised.  A blocked handler works on a request  *)
(* that still fits: nothing that happens meanwhile touches what it is      *)
(* judged by.                                                              *)
(***************************************************************************)
JobFits ==
  /\ Preparing => job.req.op = "prepare" /\ Verdict(gate, job.req) = "fit"
  /\ job.step = "second" => job.req.op = "open" /\ Verdict(gate, job.req) = "fit"

\* The abstract actions, spelled out with what stands for their variables.
LEMMA AnsweredIs ==
  ASSUME NEW g, NEW r, NEW code, NEW why
  PROVE  Service!Answered(g, r, code, why) =
           \E c \in {g, Service!Broken(g)} :
             /\ Seen(gate') = c
             /\ \E zero \in IF c.state = "faulted" THEN BOOLEAN ELSE {~c.moving} :
                  Told(reply', emit') =
                    [id |-> r.id, op |-> r.op, why |-> why, zero |-> zero,
                     code |-> IF c.state = "faulted" THEN "faulted" ELSE code]
BY DEF Service!Answered, Seen, Told

LEMMA ServiceStep ==
  ASSUME \/ \E r \in Request :
              Service!Ready /\ (Service!Refuse(r) \/ Service!Apply(r) \/ Service!Decline(r) \/ Service!Bind(r))
         \/ Service!Silent \/ Service!Change \/ Service!Opened \/ Service!Reboot
  PROVE  ServiceNext
BY DEF ServiceNext, Service!Next, Service!Serve, Service!Request, Request,
   Service!Operation, Operation, Service!Alien, Alien

LEMMA ReadyIs == Service!Ready = (Pending(job) = [op |-> "none"])
BY DEF Service!Ready, Pending, Service!NoRequest

LEMMA FoundIs ==
  ASSUME gate \in Gate
  PROVE  Seen(gate) \in Service!Found /\ Seen(Reconciled(gate)) \in Service!Found
<1>1. Service!Found = {Seen(gate)} \cup
        (IF Service!Leased(Seen(gate)) THEN {Service!Ended(Seen(gate))} ELSE {})
  BY DEF Service!Found, Seen
<1> QED
  BY <1>1, SeenReconciled

LEMMA ConcludesAnswered ==
  ASSUME NEW h \in Gate, NEW rd, NEW rt, Conclude(h, rd, rt), NEW r, NEW why,
         NEW code \in {"applied", "duplicate", "rejected", "faulted"}, Answer(r, code, why)
  PROVE  Service!Answered(Seen(h), r, code, why)
<1> DEFINE g == Seen(h)
<1>1. \E c \in {g, Service!Broken(g)} :
        /\ Seen(gate') = c
        /\ \E zero \in IF c.state = "faulted" THEN BOOLEAN ELSE {~c.moving} :
             Told(reply', emit') =
               [id |-> r.id, op |-> r.op, why |-> why, zero |-> zero,
                code |-> IF c.state = "faulted" THEN "faulted" ELSE code]
  BY BarrierAnswers
<1> HIDE DEF g
<1>2. Service!Answered(g, r, code, why)
  BY ONLY <1>1, AnsweredIs, Zenon
<1> QED
  BY <1>2 DEF g

\* Nobody waits for an OPEN to complete.
LEMMA NotOpening ==
  ASSUME job.step # "third"
  PROVE  Service!Ready
BY ReadyIs DEF Pending

LEMMA RefuseServes ==
  ASSUME IInv, NEW r \in Learnt, Refuse(r)
  PROVE  ServiceNext
<1> DEFINE g == Reconciled(gate)
           v == Verdict(g, r)
           first == CHOOSE i \in Cached(r) : TRUE
           code == IF v = "replay" THEN "duplicate" ELSE "rejected"
           why == IF v = "replay" THEN cache[first].why
                  ELSE IF v = "stale" THEN "stale" ELSE "refused"
<1>1. /\ Idle /\ v # "fit" /\ Conclude(g, reader, retired)
      /\ cache' = IF v \in {"collision", "replay"} THEN cache ELSE Remember(r, why)
      /\ Answer(r, code, why)
      /\ UNCHANGED <<inst, job>>
  BY DEF Refuse
<1>2. gate \in Gate /\ g \in Gate /\ r \in Request
  BY <1>1, CoreTyped, ReconciledSafe, LearntType DEF IInv
<1>3. Seen(g) \in Service!Found /\ Service!Verdict(Seen(g), r) = v
  BY <1>2, FoundIs, SameVerdict
<1>4. Service!Cached(r) = Cached(r)
  BY DEF Service!Cached, Cached
<1>5. Service!Answered(Seen(g), r, code, why)
  BY <1>1, <1>2, ConcludesAnswered
<1>6. Service!Remember(r, why) = Remember(r, why)
  BY SameMemory
<1>7. Pending(job') = Pending(job) /\ inst' = inst
  BY <1>1
<1> HIDE DEF g, v
<1>8. Service!Refuse(r)
  BY <1>1, <1>3, <1>4, <1>5, <1>6, <1>7 DEF Service!Refuse, Pending
<1> QED
  BY <1>1, <1>2, <1>8, NotOpening, ServiceStep DEF Idle, NoJob

\* What Apply asks of a handler.
LEMMA Applies ==
  ASSUME IInv, NEW r \in Request, NEW g \in Gate, Seen(g) \in Service!Found, job.step # "third",
         r.op # "open", Verdict(g, r) = "fit", NEW h \in Gate,
         Seen(h) = Service!Applied(Seen(g), r.op), NEW rd, NEW rt, Conclude(h, rd, rt),
         Answer(r, "applied", "none"), cache' = Remember(r, "none"), inst' = inst,
         job'.step # "third"
  PROVE  ServiceNext
<1>1. Service!Answered(Service!Applied(Seen(g), r.op), r, "applied", "none")
  BY ConcludesAnswered
<1>2. Service!Verdict(Seen(g), r) = "fit" /\ Service!Remember(r, "none") = Remember(r, "none")
  BY SameVerdict, SameMemory
<1>3. Service!Apply(r)
  BY <1>1, <1>2 DEF Service!Apply, Pending
<1> QED
  BY <1>3, NotOpening, ServiceStep

\* What Decline asks of a handler.
LEMMA Declines ==
  ASSUME IInv, NEW r \in Request, job.step # "third", job'.step # "third",
         r.op \in {"prepare", "open"}, Verdict(gate, r) = "fit",
         \/ \E rd, rt : Conclude(gate, rd, rt) \/ Conclude(Faulted(gate), rd, rt)
         \/ gate' = Faulted(gate),
         Answer(r, "rejected", "refused"), cache' = Remember(r, "refused"), inst' = inst
  PROVE  ServiceNext
<1>1. gate \in Gate /\ Faulted(gate) \in Gate /\ Faulted(gate).state = "faulted"
  BY CoreTyped, FaultedType
<1>2. Service!Answered(Seen(gate), r, "rejected", "refused")
  <2>1. CASE \E rd, rt : Conclude(gate, rd, rt)
    BY <1>1, <2>1, ConcludesAnswered
  <2>2. CASE (\E rd, rt : Conclude(Faulted(gate), rd, rt)) \/ gate' = Faulted(gate)
    <3>1. gate' = Faulted(gate)
      BY <1>1, <2>2 DEF Conclude, Emissions, Faulted
    <3>2. Seen(gate') = Service!Broken(Seen(gate)) /\ Seen(gate').state = "faulted"
      BY <1>1, <3>1, SeenFaulted DEF Seen
    <3>3. reply' = [id |-> r.id, op |-> r.op, why |-> "refused", code |-> "faulted"]
      BY <1>1, <3>1 DEF Answer
    <3>4. Told(reply', emit') = [id |-> r.id, op |-> r.op, why |-> "refused",
                                 zero |-> emit' = "zero", code |-> "faulted"]
      BY <3>3 DEF Told, NoReply
    <3> QED
      BY <3>2, <3>4, AnsweredIs
  <2> QED
    BY <2>1, <2>2
<1>3. Service!Verdict(Seen(gate), r) = "fit"
  BY <1>1, SameVerdict
<1>4. Service!Remember(r, "refused") = Remember(r, "refused")
  BY SameMemory
<1>5. Service!Decline(r)
  BY <1>2, <1>3, <1>4 DEF Service!Decline, Pending, Seen
<1> QED
  BY <1>5, NotOpening, ServiceStep

LEMMA InhibitServes ==
  ASSUME IInv, NEW r \in Learnt, Inhibit(r)
  PROVE  ServiceNext
<1> DEFINE g == Reconciled(gate)
           h == IF g.state = "inhibited" THEN Advanced(g) ELSE Retired(g)
<1>1. /\ Idle /\ r.op = "inhibit" /\ Verdict(g, r) = "fit"
      /\ Conclude(h, reader, retired) /\ cache' = Remember(r, "none")
      /\ Answer(r, "applied", "none") /\ inst' = inst /\ job' = job
  BY DEF Inhibit
<1>2. gate \in Gate /\ g \in Gate /\ r \in Request /\ g.state # "faulted"
  BY <1>1, CoreTyped, ReconciledSafe, LearntType DEF IInv, Verdict
<1>3. Seen(g) \in Service!Found
  BY <1>2, FoundIs
<1> HIDE DEF g
<1>4. h \in Gate
  BY <1>2, AdvancedType, RetiredType
<1>5. Seen(h) = Service!Applied(Seen(g), r.op)
  <2>1. CASE g.state = "inhibited"
    <3>1. ~Service!Leased(Seen(g))
      BY <2>1 DEF Service!Leased, Seen
    <3> QED
      BY <1>1, <1>2, <2>1, <3>1, SeenAdvanced DEF Service!Applied
  <2>2. CASE g.state \in {"prepared", "armed"}
    <3>1. Service!Leased(Seen(g))
      BY <2>2 DEF Service!Leased, Seen
    <3> QED
      BY <1>1, <1>2, <2>2, <3>1, SeenRetired DEF Service!Applied
  <2> QED
    BY <1>2, <2>1, <2>2 DEF Gate
<1> HIDE DEF h
<1> QED
  BY <1>1, <1>2, <1>3, <1>4, <1>5, Applies DEF Idle, NoJob

LEMMA RenewServes ==
  ASSUME IInv, NEW r \in Learnt, Renew(r)
  PROVE  ServiceNext
<1> DEFINE g == Reconciled(gate)
           h == Renewed(g)
<1>1. /\ Idle /\ r.op = "renew" /\ Verdict(g, r) = "fit"
      /\ Conclude(h, reader, retired) /\ cache' = Remember(r, "none")
      /\ Answer(r, "applied", "none") /\ inst' = inst /\ job' = job
  BY DEF Renew
<1>2. gate \in Gate /\ g \in Gate /\ h \in Gate /\ r \in Request
  BY <1>1, CoreTyped, ReconciledSafe, LearntType, RenewedType DEF IInv
<1>3. Seen(g) \in Service!Found /\ Seen(h) = Service!Stepped(Seen(g))
  BY <1>2, FoundIs, SeenRenewed
<1>4. Seen(h) = Service!Applied(Seen(g), r.op)
  BY <1>1, <1>3 DEF Service!Applied
<1> HIDE DEF g, h
<1> QED
  BY <1>1, <1>2, <1>3, <1>4, Applies DEF Idle, NoJob

LEMMA GrantServes ==
  ASSUME IInv, gate.state = "inhibited", NEW r \in Request, r.op = "prepare",
         Verdict(gate, r) = "fit", job.step # "third", NEW waited \in Nat, Grant(r, waited)
  PROVE  ServiceNext
<1> DEFINE h == Prepared(gate, waited)
<1>1. Reconciled(gate) = gate
  BY DEF Reconciled, Expired
<1>2. /\ \E rd : Conclude(h, rd, NoWriter)
      /\ cache' = Remember(r, "none") /\ Answer(r, "applied", "none")
      /\ inst' = inst /\ job' = NoJob
  BY <1>1 DEF Grant
<1>3. gate \in Gate /\ h \in Gate
  BY CoreTyped, PreparedType
<1>4. Seen(gate) \in Service!Found /\ Seen(h) = Service!Granted(Seen(gate))
  BY <1>3, FoundIs, SeenPrepared
<1>5. Seen(h) = Service!Applied(Seen(gate), r.op)
  BY <1>4 DEF Service!Applied
<1> HIDE DEF h
<1> QED
  BY <1>2, <1>3, <1>4, <1>5, Applies DEF NoJob

\* Nobody is answered and the core stays as it is.
LEMMA SilentServes ==
  ASSUME UNCHANGED <<inst, cache>>, Seen(gate') = Seen(gate), Pending(job') = Pending(job),
         reply' = NoReply
  PROVE  ServiceNext
<1>1. Service!Silent
  BY DEF Service!Silent, Service!NoAnswer, Seen, Pending, NoReply
<1> QED
  BY <1>1, ServiceStep

LEMMA PrepareServes ==
  ASSUME IInv, JobFits,
         \/ \E r \in Learnt : Prepare(r) \/ PrepareBlocks(r)
         \/ PrepareResumes
         \/ PrepareZero
         \/ PrepareFails
         \/ PrepareTimesOut
  PROVE  ServiceNext
<1> USE DEF JobFits
<1>1. ASSUME NEW r \in Learnt, Prepare(r) PROVE ServiceNext
  <2>1. Reconciled(gate) = gate
    BY <1>1, FitIsCurrent DEF Prepare
  <2>2. gate.state = "inhibited" /\ r \in Request /\ job.step # "third"
    BY <1>1, <2>1, LearntType DEF Prepare, Verdict, RightState, IInv, Idle, NoJob
  <2> QED
    BY <1>1, <2>1, <2>2, GrantServes DEF Prepare
<1>2. ASSUME NEW r \in Learnt, PrepareBlocks(r) PROVE ServiceNext
  BY <1>2, SilentServes DEF PrepareBlocks, Quiet, Pending, Idle, NoJob
<1>3. CASE PrepareResumes
  <2>1. job.req \in Request /\ job.waited \in Nat
    BY <1>3, JobType, GateAssumption, RequestAssumption DEF IInv, PrepareResumes, PrepareJob
  <2> QED
    BY <1>3, <2>1, GrantServes DEF PrepareResumes, IInv, JobInv, Preparing
<1>4. CASE PrepareZero
  BY <1>4, SilentServes DEF PrepareZero
<1>5. CASE PrepareFails
  <2>1. Preparing /\ job.req \in Request /\ gate' = Faulted(gate)
    BY <1>5, JobType DEF PrepareFails, IInv, PrepareJob
  <2>2. Answer(job.req, "rejected", "refused")
    BY <1>5, <2>1, CoreTyped DEF PrepareFails, Answer
  <2> QED
    BY <1>5, <2>1, <2>2, Declines DEF PrepareFails, Preparing, NoJob
<1>6. CASE PrepareTimesOut
  <2>1. Preparing /\ job.req \in Request
    BY <1>6, JobType DEF PrepareTimesOut, IInv, PrepareJob
  <2> QED
    BY <1>6, <2>1, Declines DEF PrepareTimesOut, Preparing, NoJob
<1> QED
  BY <1>1, <1>2, <1>3, <1>4, <1>5, <1>6

LEMMA OpenServes ==
  ASSUME IInv, JobFits,
         \/ \E r \in Learnt : OpenBegin(r) \/ OpenUnready(r)
         \/ OpenUnbound
  PROVE  ServiceNext
<1> USE DEF JobFits
<1>1. ASSUME NEW r \in Learnt, OpenBegin(r) PROVE ServiceNext
  BY <1>1, SilentServes DEF OpenBegin, Quiet, Pending, Idle, NoJob
<1>2. ASSUME NEW r \in Learnt, OpenUnready(r) PROVE ServiceNext
  <2>1. Reconciled(gate) = gate
    BY <1>2, FitIsCurrent DEF OpenUnready
  <2>2. r \in Request /\ job.step # "third" /\ job'.step # "third"
    BY <1>2, LearntType DEF OpenUnready, IInv, Idle, NoJob
  <2> QED
    BY <1>2, <2>1, <2>2, Declines DEF OpenUnready
<1>3. CASE OpenUnbound
  <2>1. job.step = "second" /\ job.req \in Request
    BY <1>3, JobType DEF OpenUnbound, IInv, OpenJob
  <2> QED
    BY <1>3, <2>1, Declines DEF OpenUnbound, NoJob
<1> QED
  BY <1>1, <1>2, <1>3

LEMMA BindServes ==
  ASSUME IInv, JobFits, OpenBinds
  PROVE  ServiceNext
<1> DEFINE a == Advanced(gate)
           r == job.req
<1>1. /\ job \in OpenJob /\ job.step = "second" /\ gate.seq < MaxSeq /\ gate \in Gate
      /\ gate.state = "prepared" /\ gate.fresh = FALSE /\ gate.seq # MaxSeq
      /\ gate' = Bound(gate, job.first) /\ job' = [job EXCEPT !.step = "third"]
      /\ cache' = Remember(r, "none") /\ reply' = NoReply /\ inst' = inst
  BY JobType, Bounds DEF OpenBinds, Quiet, IInv, JobInv, TypeOK, Gate, CoreInv, Rests
<1>2. r \in Request /\ r.op = "open" /\ Service!Verdict(Seen(gate), r) = "fit"
  BY <1>1, SameVerdict DEF JobFits, OpenJob
<1>3. a = [gate EXCEPT !.seq = gate.seq + 1]
  BY <1>1 DEF Advanced
<1>4. a \in Gate /\ a.state = "prepared" /\ a.seq = gate.seq + 1 /\ a.lease = gate.lease
  BY <1>1, <1>3, AdvancedType DEF Gate
<1> HIDE DEF a
<1>5. gate' = [a EXCEPT !.state = "armed", !.bound = job.first, !.prepareLeft = 0,
                        !.authorityLeft = AuthorityTicks, !.freshLeft = 0,
                        !.fresh = FALSE, !.cmd = "zero"]
  BY <1>1, <1>4 DEF Bound, ArmedWindow, Gate, a
<1>6. /\ gate'.state = "armed" /\ gate'.seq = gate.seq + 1 /\ gate'.lease = gate.lease
      /\ gate'.fresh = FALSE
  BY <1>4, <1>5 DEF Gate
<1>7. Seen(gate') = [Seen(gate) EXCEPT !.state = "armed", !.seq = @ + 1]
  <2>1. (Output(gate) = "moving") = FALSE /\ (Output(gate') = "moving") = FALSE
    BY <1>1, <1>6 DEF Output
  <2>2. gate.seq \in Nat /\ Seen(gate).seq = gate.seq
    BY <1>1, Bounds DEF Gate, Seen
  <2> DEFINE n == gate.seq + 1
             st == gate.state
             l == gate.lease
             m == Output(gate) = "moving"
             s == Seen(gate)
             x == [s EXCEPT !.state = "armed"]
  <2>3. Seen(gate') = [state |-> "armed", seq |-> n, lease |-> l, moving |-> m]
    BY <1>6, <2>1 DEF Seen
  <2>4. s = [state |-> st, seq |-> gate.seq, lease |-> l, moving |-> m]
    BY DEF Seen
  <2>5. [s EXCEPT !.state = "armed", !.seq = n] = [x EXCEPT !.seq = n]
    BY Zenon
  <2> HIDE DEF n, st, l, m, s
  <2>6. x = [state |-> "armed", seq |-> gate.seq, lease |-> l, moving |-> m]
    BY <2>4
  <2> HIDE DEF x
  <2>7. [x EXCEPT !.seq = n] = [state |-> "armed", seq |-> n, lease |-> l, moving |-> m]
    BY <2>6
  <2> QED
    BY <2>2, <2>3, <2>5, <2>7, Zenon DEF n, s
<1>8. Pending(job') = r
  BY <1>1 DEF Pending, OpenJob
<1>9. Told(reply', emit') = [code |-> "none"] /\ Service!Remember(r, "none") = Remember(r, "none")
  BY <1>1, SameMemory DEF Told, NoReply
<1>10. Service!Bind(r)
  BY <1>1, <1>2, <1>7, <1>8, <1>9 DEF Service!Bind, Service!NoAnswer, Seen, Pending, Told
<1> QED
  BY <1>1, <1>2, <1>10, NotOpening, ServiceStep

LEMMA OpenedServes ==
  ASSUME IInv, OpenCompletes \/ OpenBreaks
  PROVE  ServiceNext
<1>1. /\ job.step = "third" /\ job \in OpenJob /\ gate \in Gate /\ gate.fresh = FALSE
      /\ UNCHANGED <<inst, cache>> /\ job' = NoJob
  BY JobType, CoreTyped DEF OpenCompletes, OpenBreaks, IInv, JobInv
<1>2. Pending(job) = job.req /\ job.req.op # "none" /\ Pending(job') = [op |-> "none"]
  BY <1>1 DEF Pending, OpenJob, Request, Operation, NoJob
<1>3. Pending(job) # [op |-> "none"]
  BY <1>2
<1>4. \/ Service!Answered(Seen(gate), job.req, "applied", "none")
      \/ Service!Answered(Service!Broken(Seen(gate)), job.req, "faulted", "refused")
  <2>1. CASE OpenCompletes
    <3>1. ArmedWindow(gate) \in Gate /\ Seen(ArmedWindow(gate)) = Seen(gate)
      BY <1>1, ArmedWindowType, SeenWindow
    <3>2. Conclude(ArmedWindow(gate), reader, retired) /\ Answer(job.req, "applied", "none")
      BY <2>1 DEF OpenCompletes
    <3>3. Service!Answered(Seen(ArmedWindow(gate)), job.req, "applied", "none")
      BY <3>1, <3>2, ConcludesAnswered
    <3> QED
      BY <3>1, <3>3
  <2>2. CASE OpenBreaks
    <3>1. Faulted(gate) \in Gate /\ Seen(Faulted(gate)) = Service!Broken(Seen(gate))
      BY <1>1, FaultedType, SeenFaulted
    <3>2. Conclude(Faulted(gate), NoReader, retired) /\ Answer(job.req, "faulted", "refused")
      BY <2>2 DEF OpenBreaks
    <3>3. Service!Answered(Seen(Faulted(gate)), job.req, "faulted", "refused")
      BY <3>1, <3>2, ConcludesAnswered
    <3> QED
      BY <3>1, <3>3
  <2> QED
    BY <2>1, <2>2
<1>5. Service!Opened
  BY <1>1, <1>2, <1>3, <1>4 DEF Service!Opened, Service!NoRequest, Pending, Seen
<1> QED
  BY <1>5, ServiceStep

\* A deadline, a sample, a failure: what Change asks of a handler.
LEMMA Changes ==
  ASSUME job.step # "third", job' = job, UNCHANGED <<inst, cache>>, reply' = NoReply,
         \/ Seen(gate') \in Service!Found
         \/ \E g \in Service!Found : Seen(gate') = Service!Broken(g)
         \/ gate.state = "armed" /\ \E m \in BOOLEAN : Seen(gate') = [Seen(gate) EXCEPT !.moving = m]
  PROVE  ServiceNext
<1>1. Told(reply', emit') = Service!NoAnswer /\ Pending(job') = Pending(job)
  BY DEF Told, Service!NoAnswer, NoReply
<1>2. gate.state = "armed" => Seen(gate).state = "armed"
  BY DEF Seen
<1>3. Service!Change = (/\ Service!Ready
                        /\ Told(reply', emit') = Service!NoAnswer
                        /\ Seen(gate') \in Service!Found \cup {Service!Broken(g) : g \in Service!Found}
                             \cup {[Seen(gate) EXCEPT !.moving = m] :
                                     m \in {b \in BOOLEAN : Seen(gate).state = "armed"}}
                        /\ UNCHANGED <<inst, cache, Pending(job)>>)
  BY DEF Service!Change, Seen, Told, Pending
<1>4. \E m \in BOOLEAN : gate.state = "armed" /\ Seen(gate') = [Seen(gate) EXCEPT !.moving = m]
        => \E m2 \in {b \in BOOLEAN : Seen(gate).state = "armed"} :
             Seen(gate') = [Seen(gate) EXCEPT !.moving = m2]
  BY <1>2
<1>5. Service!Change
  BY <1>1, <1>2, <1>3, <1>4, NotOpening
<1> QED
  BY <1>5, ServiceStep

LEMMA BarrierChanges ==
  ASSUME IInv, Idle, NEW h \in Gate, NEW rd, NEW rt, Conclude(h, rd, rt),
         UNCHANGED <<inst, cache, job>>, reply' = NoReply,
         \/ Seen(h) \in Service!Found
         \/ /\ gate.state = "armed" /\ h.seq = gate.seq /\ h.state = "armed"
            /\ \E m \in BOOLEAN : Seen(h) = [Seen(gate) EXCEPT !.moving = m]
  PROVE  ServiceNext
<1>1. gate' = h \/ gate' = Faulted(h)
  BY DEF Conclude, Emissions
<1>2. Seen(gate') = Seen(h) \/ Seen(gate') = Service!Broken(Seen(h))
  BY <1>1, SeenFaulted
<1>3. gate \in Gate /\ job.step # "third"
  BY CoreTyped DEF Idle, NoJob
<1>4. CASE Seen(h) \in Service!Found
  BY <1>2, <1>3, <1>4, Changes
<1>5. CASE /\ gate.state = "armed" /\ h.seq = gate.seq /\ h.state = "armed"
           /\ \E m \in BOOLEAN : Seen(h) = [Seen(gate) EXCEPT !.moving = m]
  <2>1. Service!Broken(Seen(h)) = Service!Broken(Seen(gate))
    BY <1>5 DEF Service!Broken, Seen
  <2>2. Seen(gate) \in Service!Found
    BY <1>3, FoundIs
  <2> QED
    BY <1>2, <1>3, <1>5, <2>1, <2>2, Changes
<1> QED
  BY <1>4, <1>5

LEMMA UnaskedServes ==
  ASSUME IInv, OnCandidate \/ OnOutputTimer
  PROVE  ServiceNext
<1> DEFINE g == Reconciled(gate)
           h == Accepted(g, reader.lease, inbox)
<1>1. /\ Idle /\ UNCHANGED <<inst, cache, job>> /\ reply' = NoReply
      /\ OnCandidate => Conclude(h, reader, retired) /\ inbox \in Sample
      /\ OnOutputTimer => Conclude(g, reader, retired)
  BY DEF OnCandidate, OnOutputTimer, IInv, TypeOK
<1>2. /\ gate \in Gate /\ g \in Gate /\ (Rests(g) \/ g = gate)
      /\ Seen(g) \in Service!Found
  BY <1>1, CoreTyped, ReconciledSafe, FoundIs
<1>3. CASE OnOutputTimer
  BY <1>1, <1>2, <1>3, BarrierChanges
<1>4. CASE OnCandidate
  <2>1. inbox \in Sample /\ h \in Gate /\ Conclude(h, reader, retired)
    BY <1>1, <1>2, <1>4, AcceptedType
  <2>2. CASE h = g
    BY <1>1, <1>2, <2>1, <2>2, BarrierChanges
  <2>3. CASE h # g
    <3>1. g.state = "armed" /\ g = gate
      BY <1>2, <2>3 DEF Accepted, Rests
    <3>2. h = Retired(gate) \/ h = [gate EXCEPT !.cmd = inbox.kind, !.fresh = TRUE, !.freshLeft = FreshTicks]
      BY <2>3, <3>1 DEF Accepted
    <3>3. CASE h = Retired(gate)
      <4>1. Seen(h) = Service!Ended(Seen(gate)) /\ Service!Leased(Seen(gate))
        BY <1>2, <3>1, <3>3, SeenRetired DEF Service!Leased, Seen
      <4>2. Seen(h) \in Service!Found
        BY <4>1 DEF Service!Found, Seen
      <4> QED
        BY <1>1, <2>1, <4>2, BarrierChanges
    <3>4. CASE h = [gate EXCEPT !.cmd = inbox.kind, !.fresh = TRUE, !.freshLeft = FreshTicks]
      <4>1. h.state = gate.state /\ h.seq = gate.seq /\ h.lease = gate.lease
        BY <1>2, <3>4 DEF Gate
      <4> HIDE DEF h
      <4> DEFINE m == Output(h) = "moving"
      <4>2. Seen(h) = [Seen(gate) EXCEPT !.moving = m]
        BY <4>1 DEF Seen
      <4>3. m \in BOOLEAN
        OBVIOUS
      <4> HIDE DEF m
      <4> QED
        BY <1>1, <2>1, <3>1, <4>1, <4>2, <4>3, BarrierChanges DEF h
    <3> QED
      BY <3>2, <3>3, <3>4
  <2> QED
    BY <2>2, <2>3
<1> QED
  BY <1>3, <1>4

LEMMA QuietServes ==
  ASSUME IInv, Discard \/ Graph \/ TimePasses
  PROVE  ServiceNext
<1>1. CASE Discard \/ Graph
  <2>1. UNCHANGED <<inst, cache, gate, job>> /\ reply' = NoReply
    BY <1>1 DEF Discard, Graph, WriterAppears, WriterDisappears, WriterPublishes, Quiet
  <2> QED
    BY <2>1, SilentServes
<1>2. CASE TimePasses
  <2>1. /\ gate'.state = gate.state /\ gate'.lease = gate.lease /\ gate'.seq = gate.seq
        /\ gate'.fresh = gate.fresh /\ gate'.cmd = gate.cmd
    BY <1>2 DEF TimePasses, IInv, TypeOK, Gate
  <2>2. Seen(gate') = Seen(gate)
    BY <2>1 DEF Seen, Output
  <2>3. UNCHANGED <<inst, cache>> /\ reply' = NoReply
    BY <1>2 DEF TimePasses, Quiet
  <2>4. Pending(job') = Pending(job)
    <3>1. CASE Preparing
      <4>1. job' = [job EXCEPT !.waited = Up(@, PrepareTicks + GraphTicks)] /\ job \in PrepareJob
        BY <1>2, <3>1, JobType DEF TimePasses, IInv
      <4>2. job'.step = "prepare" /\ job.step = "prepare"
        BY <4>1 DEF PrepareJob
      <4> QED
        BY <4>2 DEF Pending
    <3>2. CASE ~Preparing
      BY <1>2, <3>2 DEF TimePasses
    <3> QED
      BY <3>1, <3>2
  <2> QED
    BY <2>2, <2>3, <2>4, SilentServes
<1> QED
  BY <1>1, <1>2

LEMMA SeenFresh ==
  ASSUME NEW x \in Emissions(FreshCore)
  PROVE  Seen(x.gate) \in {Service!Fresh, Service!Broken(Service!Fresh)}
<1>1. Seen(FreshCore) = Service!Fresh
  BY SeenClosed DEF FreshCore, Service!Fresh
<1>2. Seen(Faulted(FreshCore)) = Service!Broken(Seen(FreshCore))
  BY FreshCoreType, SeenFaulted
<1> QED
  BY <1>1, <1>2 DEF Emissions

LEMMA RestartServes ==
  ASSUME Restart
  PROVE  ServiceNext
<1>1. PICK x \in Emissions(FreshCore) : gate' = x.gate
  BY DEF Restart, Start
<1>2. Seen(gate') \in {Service!Fresh, Service!Broken(Service!Fresh)}
  BY <1>1, SeenFresh
<1>3. /\ inst < MaxInstance /\ inst' = inst + 1 /\ cache' = <<>>
      /\ job' = NoJob /\ reply' = NoReply
  BY DEF Restart, Start
<1>4. Pending(job') = Service!NoRequest /\ Told(reply', emit') = Service!NoAnswer
  BY <1>3 DEF Pending, NoJob, Service!NoRequest, Told, Service!NoAnswer, NoReply
<1>5. Service!Reboot
  BY <1>2, <1>3, <1>4 DEF Service!Reboot, Seen, Pending, Told
<1> QED
  BY <1>5, ServiceStep

LEMMA StepServes == IInv /\ JobFits /\ [Next]_vars => ServiceNext
<1> SUFFICES ASSUME IInv, JobFits, [Next]_vars PROVE ServiceNext
  OBVIOUS
<1>1. CASE OnControl
  <2>1. PICK r \in Learnt :
          \/ Refuse(r) \/ Inhibit(r) \/ Renew(r) \/ Prepare(r)
          \/ PrepareBlocks(r) \/ OpenBegin(r) \/ OpenUnready(r)
    BY <1>1 DEF OnControl
  <2> QED
    BY <2>1, RefuseServes, InhibitServes, RenewServes, PrepareServes, OpenServes
<1>2. CASE Blocked
  BY <1>2, PrepareServes, OpenServes, BindServes, OpenedServes DEF Blocked
<1>3. CASE OnCandidate \/ OnOutputTimer
  BY <1>3, UnaskedServes
<1>4. CASE Discard \/ Graph \/ TimePasses
  BY <1>4, QuietServes
<1>5. CASE Restart
  BY <1>5, RestartServes
<1>6. CASE UNCHANGED vars
  <2>1. UNCHANGED <<inst, cache, gate, job, reply, emit>>
    BY <1>6 DEF vars
  <2> QED
    BY <2>1 DEF ServiceNext, Service!svars
<1> QED
  BY <1>1, <1>2, <1>3, <1>4, <1>5, <1>6 DEF Next

\* A verdict depends on the tuple, the cache and the process alone.
LEMMA StillFits ==
  ASSUME IInv, JobFits, UNCHANGED <<inst, cache>>, job'.step = job.step, job'.req = job.req,
         gate'.state = gate.state, gate'.lease = gate.lease, gate'.seq = gate.seq
  PROVE  JobFits'
BY DEF JobFits, Preparing, Verdict, Collides, Replays, Cached, LeaseRequired, RightState

LEMMA JobKeepsFitting == IInv /\ JobFits /\ [Next]_vars => JobFits'
<1> SUFFICES ASSUME IInv, JobFits, [Next]_vars PROVE JobFits'
  OBVIOUS
<1>1. job' = NoJob \/ job'.step = "third" => JobFits'
  BY DEF JobFits, Preparing, NoJob
<1>2. ASSUME NEW r \in Learnt, PrepareBlocks(r) \/ OpenBegin(r) PROVE JobFits'
  <2>1. Idle /\ Verdict(Reconciled(gate), r) = "fit" /\ UNCHANGED <<inst, cache, gate>>
    BY <1>2 DEF PrepareBlocks, OpenBegin
  <2>2. Verdict(gate, r) = "fit"
    BY <2>1, FitIsCurrent
  <2>3. Verdict(gate, r)' = Verdict(gate, r)
    BY <2>1 DEF Verdict, Collides, Replays, Cached, LeaseRequired, RightState
  <2>4. /\ job'.req = r
        /\ \/ job'.step = "prepare" /\ r.op = "prepare"
           \/ job'.step = "second" /\ r.op = "open"
    BY <1>2 DEF PrepareBlocks, OpenBegin
  <2> QED
    BY <2>2, <2>3, <2>4 DEF JobFits, Preparing
<1>3. ASSUME NEW r \in Learnt,
             Refuse(r) \/ Inhibit(r) \/ Renew(r) \/ Prepare(r) \/ OpenUnready(r)
      PROVE  JobFits'
  BY <1>1, <1>3 DEF Refuse, Inhibit, Renew, Prepare, Grant, OpenUnready, Idle
<1>4. CASE OnControl
  BY <1>2, <1>3, <1>4 DEF OnControl
<1>5. CASE Blocked /\ ~PrepareZero
  <2>1. job' = NoJob \/ (job' = [job EXCEPT !.step = "third"] /\ job.step = "second")
    BY <1>5 DEF Blocked, PrepareResumes, Grant, PrepareFails, PrepareTimesOut, OpenBinds,
       OpenUnbound, OpenCompletes, OpenBreaks
  <2> QED
    BY <1>1, <2>1, JobType DEF IInv, OpenJob
<1>6. CASE OnCandidate \/ OnOutputTimer
  BY <1>1, <1>6 DEF OnCandidate, OnOutputTimer, Idle
<1>7. CASE PrepareZero \/ Discard \/ Graph \/ UNCHANGED vars
  <2>1. UNCHANGED <<inst, cache, gate, job>>
    BY <1>7 DEF PrepareZero, Discard, Graph, WriterAppears, WriterDisappears, WriterPublishes,
       vars
  <2> QED
    BY <2>1, StillFits
<1>8. CASE TimePasses
  <2>1. gate'.state = gate.state /\ gate'.lease = gate.lease /\ gate'.seq = gate.seq
    BY <1>8 DEF TimePasses, IInv, TypeOK, Gate
  <2>2. job'.step = job.step /\ job'.req = job.req
    BY <1>8, JobType DEF TimePasses, IInv, PrepareJob
  <2> QED
    BY <1>8, <2>1, <2>2, StillFits DEF TimePasses
<1>9. CASE Restart
  BY <1>1, <1>9 DEF Restart, Start
<1> QED
  BY <1>4, <1>5, <1>6, <1>7, <1>8, <1>9 DEF Next

LEMMA InitServes == Init => Service!Init /\ JobFits
<1> SUFFICES ASSUME Init PROVE Service!Init /\ JobFits
  OBVIOUS
<1>1. PICK x \in Emissions(FreshCore) : gate = x.gate
  BY DEF Init
<1>2. Seen(gate) \in {Service!Fresh, Service!Broken(Service!Fresh)}
  BY <1>1, SeenFresh
<1>3. inst = 1 /\ cache = <<>> /\ job = NoJob /\ reply = NoReply
  BY DEF Init
<1>4. Pending(job) = Service!NoRequest /\ Told(reply, emit) = Service!NoAnswer
  BY <1>3 DEF Pending, NoJob, Service!NoRequest, Told, Service!NoAnswer, NoReply
<1> QED
  BY <1>2, <1>3, <1>4 DEF Service!Init, Seen, Pending, Told, JobFits, Preparing, NoJob

\* The Gate serves its client as GateService promises: the client's side is
\* checked and proved against that module alone.
THEOREM GateServes == Spec => ServiceSpec
<1>1. Init => Service!Init /\ JobFits
  BY InitServes
<1>2. IInv /\ JobFits /\ [Next]_vars => ServiceNext /\ JobFits'
  BY StepServes, JobKeepsFitting
<1> QED
  BY <1>1, <1>2, Invariance, PTL DEF Spec, ServiceSpec, Service!Spec, ServiceNext

=============================================================================
