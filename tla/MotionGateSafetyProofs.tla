----------------------- MODULE MotionGateSafetyProofs -----------------------
(***************************************************************************)
(* The safety of the Gate, for every value of the constants.               *)
(*                                                                         *)
(* None of the properties is inductive by itself.  The invariant below ties *)
(* the core to what lies around it: the handler that blocks the executor,  *)
(* the candidate reader and its queue, the writers on the graph, and the   *)
(* ages of the authority and of the candidate.                             *)
(***************************************************************************)
EXTENDS MotionGateProofs

\* No lease, no writer, no candidate.
Rests(g) ==
  /\ g.state \in {"inhibited", "faulted"}
  /\ g.lease = 0 /\ g.bound = NoWriter /\ g.fresh = FALSE

\* A lease exists exactly while prepared or armed, a bound writer and a
\* candidate only while armed.
CoreInv(g) ==
  \/ Rests(g)
  \/ g.state = "prepared" /\ g.lease # 0 /\ g.bound = NoWriter /\ g.fresh = FALSE
  \/ g.state = "armed" /\ g.lease # 0 /\ g.bound \in Writer

\* A blocked handler finds the core as it left it.
JobInv ==
  /\ Preparing => gate.state = "inhibited"
  /\ job.step = "second" => gate.state = "prepared"
  /\ job.step = "third" =>
       gate.state = "armed" /\ gate.fresh = FALSE /\ gate.bound = job.first

\* A writer once bound is off the graph, bound, or remembered as retired.
WriterInv ==
  \A w \in everBound :
    /\ home[w] # 0
    /\ home[w] > 0 =>
         \/ gate.state = "armed" /\ w = gate.bound
         \/ gate.state \in {"inhibited", "faulted"} /\ w = retired

\* The deadlines are at most what the ages leave of their windows.
ClockInv ==
  /\ gate.fresh = TRUE => gate.freshLeft + candAge <= FreshTicks
  /\ gate.state = "armed" /\ job.step # "third" =>
       gate.authorityLeft + authAge <= AuthorityTicks

\* The selected command is the last candidate's; that one and any candidate
\* still queued were published after the lease was armed.
SourceInv ==
  /\ gate.state = "armed" =>
       /\ opened.lease = gate.lease /\ opened.writer = gate.bound
       /\ inbox # NoSample => inbox.born = gate.lease
  /\ gate.fresh = TRUE =>
       /\ source.kind = gate.cmd
       /\ source.writer = gate.bound
       /\ source.born = gate.lease

IInv ==
  /\ TypeOK
  /\ CoreInv(gate)
  /\ JobInv
  /\ ReaderFollowsLease
  /\ WriterInv
  /\ ClockInv
  /\ SourceInv
  /\ ProvenZeroHolds
  /\ OutputAuthorised

-----------------------------------------------------------------------------
(***************************************************************************)
(* What the helpers of the core do to a lease.                             *)
(***************************************************************************)
SameLease(g, h) == h.state = g.state /\ h.lease = g.lease /\ h.bound = g.bound

LEMMA ClosedRests ==
  ASSUME NEW state \in {"inhibited", "faulted"}, NEW seq
  PROVE  Rests(Closed(state, seq)) /\ Closed(state, seq).state = state
BY DEF Rests, Closed

\* retire_lease ends the lease.
LEMMA RetiredRests ==
  ASSUME NEW g \in Gate
  PROVE  Rests(Retired(g))
BY ClosedRests DEF Retired, Exhausted

\* force_fault ends the lease and latches.
LEMMA FaultedRests ==
  ASSUME NEW g \in Gate, CoreInv(g)
  PROVE  Rests(Faulted(g)) /\ Faulted(g).state = "faulted"
<1>1. CASE g.state = "faulted"
  BY <1>1 DEF CoreInv, Faulted
<1>2. CASE g.state # "faulted"
  BY <1>2, ClosedRests DEF Faulted
<1> QED
  BY <1>1, <1>2

\* reconcile_deadlines ends an expired lease and touches no other.
LEMMA ReconciledCore ==
  ASSUME NEW g \in Gate
  PROVE  \/ Reconciled(g) = g /\ ~Expired(g)
         \/ Rests(Reconciled(g)) /\ Expired(g)
BY RetiredRests DEF Reconciled

\* A new control sequence leaves the lease as it is, or there is none left.
LEMMA AdvancedCore ==
  ASSUME NEW g \in Gate
  PROVE  \/ /\ Rests(Advanced(g))
            /\ Advanced(g).state = "faulted"
         \/ /\ SameLease(g, Advanced(g))
            /\ Advanced(g).seq = g.seq + 1
            /\ Advanced(g).cmd = g.cmd
            /\ Advanced(g).fresh = g.fresh
            /\ Advanced(g).freshLeft = g.freshLeft
<1>1. CASE g.seq = MaxSeq
  BY <1>1, ClosedRests DEF Advanced, Exhausted
<1>2. CASE g.seq # MaxSeq
  BY <1>2 DEF Advanced, SameLease, Gate
<1> QED
  BY <1>1, <1>2

-----------------------------------------------------------------------------
(***************************************************************************)
(* The publication barrier.                                                *)
(***************************************************************************)

\* It publishes the selected command, a zero or nothing, and leaves the core
\* as the handler made it, or without a lease.
LEMMA EmissionsCore ==
  ASSUME NEW h \in Gate, CoreInv(h), NEW x \in Emissions(h)
  PROVE  /\ x.gate = h \/ (Rests(x.gate) /\ x.gate.state = "faulted")
         /\ x.cmd \in {"zero", "none", "moving"}
         /\ x.cmd = "moving" =>
              h.state = "armed" /\ h.fresh = TRUE /\ h.cmd = "moving"
<1>1. Output(h) = "moving" =>
        h.state = "armed" /\ h.fresh = TRUE /\ h.cmd = "moving"
  BY DEF Output, Gate
<1>2. Output(h) \in {"zero", "moving"}
  BY DEF Output, Gate, Speed
<1>3. Rests(Faulted(h)) /\ Faulted(h).state = "faulted"
  BY FaultedRests
<1>4. CASE x = [gate |-> h, cmd |-> Output(h)]
  BY <1>1, <1>2, <1>4
<1>5. CASE \E c \in {"zero", "none", Output(h)} :
             x = [gate |-> Faulted(h), cmd |-> c]
  BY <1>1, <1>2, <1>3, <1>5
<1> QED
  BY <1>4, <1>5 DEF Emissions

\* A handler that keeps or ends the lease drops the reader and remembers the
\* writer of a lease that ended.
LEMMA ConcludeSafe ==
  ASSUME TypeOK, CoreInv(gate), ReaderFollowsLease, WriterInv,
         NEW h \in Gate, CoreInv(h), Rests(h) \/ SameLease(gate, h),
         Conclude(h, reader, retired), UNCHANGED <<home, everBound>>
  PROVE  /\ gate' = h \/ (Rests(gate') /\ gate'.state = "faulted")
         /\ CoreInv(gate')
         /\ ReaderFollowsLease'
         /\ WriterInv'
         /\ emit' \in {"zero", "none", "moving"}
         /\ emit' = "moving" =>
              h.state = "armed" /\ h.fresh = TRUE /\ h.cmd = "moving"
         /\ emit' = "zero" => out' = "zero"
         /\ emit' = "none" => out' = out
<1>1. PICK x \in Emissions(h) :
        /\ gate' = x.gate
        /\ emit' = x.cmd
        /\ Published(x.cmd)
        /\ reader' = IF Ended(gate, h) \/ Ended(h, x.gate) THEN NoReader ELSE reader
        /\ retired' = IF ArmedEnded(gate, x.gate) THEN gate.bound ELSE retired
  BY DEF Conclude
<1>2. /\ x.gate = h \/ (Rests(x.gate) /\ x.gate.state = "faulted")
      /\ x.cmd \in {"zero", "none", "moving"}
      /\ x.cmd = "moving" =>
           h.state = "armed" /\ h.fresh = TRUE /\ h.cmd = "moving"
  BY EmissionsCore
<1>3. CoreInv(gate')
  BY <1>1, <1>2 DEF CoreInv
<1>4. (emit' = "zero" => out' = "zero") /\ (emit' = "none" => out' = out)
  BY <1>1, <1>2 DEF Published
<1>5. CASE x.gate = h /\ SameLease(gate, h)
  <2>1. ~ArmedEnded(gate, x.gate) /\ ~Ended(gate, h) /\ ~Ended(h, x.gate)
    BY <1>5 DEF Ended, ArmedEnded, PreparedEnded, SameLease
  <2>2. reader' = reader /\ retired' = retired
    BY <1>1, <2>1
  <2>3. ReaderFollowsLease'
    BY <1>1, <1>5, <2>2 DEF ReaderFollowsLease, SameLease
  <2>4. WriterInv'
    BY <1>1, <1>5, <2>2 DEF WriterInv, SameLease
  <2> QED
    BY <1>1, <1>2, <1>3, <1>4, <2>3, <2>4
<1>6. CASE Rests(x.gate)
  <2>1. Rests(h) \/ SameLease(gate, h)
    OBVIOUS
  <2>2. gate'.state \in {"inhibited", "faulted"} /\ gate'.lease = 0
    BY <1>1, <1>6 DEF Rests
  <2>3. NoReader.kind = "none" /\ NoReader.lease = 0
    BY DEF NoReader
  <2>4. ASSUME gate.state = "armed" PROVE ReaderFollowsLease' /\ WriterInv'
    <3>1. ArmedEnded(gate, x.gate)
      BY <1>6, <2>4 DEF ArmedEnded, Rests
    <3>2. Ended(gate, h) \/ Ended(h, x.gate)
      BY <1>6, <2>1, <2>4 DEF Ended, ArmedEnded, Rests, SameLease
    <3>3. reader' = NoReader /\ retired' = gate.bound
      BY <1>1, <3>1, <3>2
    <3>4. ReaderFollowsLease'
      BY <2>2, <2>3, <3>3 DEF ReaderFollowsLease
    <3>5. WriterInv'
      BY <1>1, <1>6, <2>4, <3>3 DEF WriterInv, Rests
    <3> QED
      BY <3>4, <3>5
  <2>5. ASSUME gate.state = "prepared" PROVE ReaderFollowsLease' /\ WriterInv'
    <3>1. Ended(gate, h) \/ Ended(h, x.gate)
      BY <1>6, <2>1, <2>5 DEF Ended, PreparedEnded, Rests, SameLease
    <3>2. reader' = NoReader
      BY <1>1, <3>1
    <3>3. ReaderFollowsLease'
      BY <2>2, <2>3, <3>2 DEF ReaderFollowsLease
    <3>4. WriterInv'
      BY <1>1, <1>6, <2>5 DEF WriterInv, Rests
    <3> QED
      BY <3>3, <3>4
  <2>6. ASSUME Rests(gate) PROVE ReaderFollowsLease' /\ WriterInv'
    <3>1. ~ArmedEnded(gate, x.gate)
      BY <2>6 DEF ArmedEnded, Rests
    <3>2. retired' = retired
      BY <1>1, <3>1
    <3>3. reader' = NoReader \/ reader' = reader
      BY <1>1
    <3>4. ReaderFollowsLease'
      BY <2>6, <2>2, <2>3, <3>3 DEF ReaderFollowsLease, Rests
    <3>5. WriterInv'
      BY <1>1, <1>6, <2>6, <3>2 DEF WriterInv, Rests
    <3> QED
      BY <3>4, <3>5
  <2>7. ReaderFollowsLease' /\ WriterInv'
    BY <2>4, <2>5, <2>6 DEF CoreInv
  <2> QED
    BY <1>1, <1>2, <1>3, <1>4, <2>7
<1> QED
  BY <1>2, <1>5, <1>6

-----------------------------------------------------------------------------
(***************************************************************************)
(* A handler that keeps or ends the lease preserves the invariant when the *)
(* core h it makes agrees with the ages and the candidate it leaves.       *)
(***************************************************************************)
LEMMA HandlerSafe ==
  ASSUME IInv, TypeOK', NEW h \in Gate, CoreInv(h),
         Rests(h) \/ SameLease(gate, h),
         Conclude(h, reader, retired),
         UNCHANGED <<home, everBound, opened>>,
         job' \in {job, NoJob}, job \in {NoJob} \/ job' = NoJob,
         inbox' \in {inbox, NoSample},
         h.fresh = TRUE =>
           /\ h.freshLeft + candAge' <= FreshTicks
           /\ candAge' < FreshTicks
           /\ authAge' < AuthorityTicks
           /\ source'.kind = h.cmd
           /\ source'.writer = h.bound
           /\ source'.born = h.lease,
         h.state = "armed" => h.authorityLeft + authAge' <= AuthorityTicks,
         proof' => \/ proof /\ (Rests(gate) => Rests(h))
                   \/ emit' = "zero" /\ gate'.state = "inhibited"
  PROVE  IInv'
<1> USE DEF IInv
<1>1. /\ gate' = h \/ (Rests(gate') /\ gate'.state = "faulted")
      /\ CoreInv(gate')
      /\ ReaderFollowsLease'
      /\ WriterInv'
      /\ emit' \in {"zero", "none", "moving"}
      /\ emit' = "moving" =>
           h.state = "armed" /\ h.fresh = TRUE /\ h.cmd = "moving"
      /\ emit' = "zero" => out' = "zero"
      /\ emit' = "none" => out' = out
  BY ConcludeSafe
<1>2. JobInv'
  <2>1. job' = NoJob
    OBVIOUS
  <2>2. job'.step = "idle"
    BY <2>1 DEF NoJob
  <2> QED
    BY <2>2 DEF JobInv, Preparing
<1>3. ClockInv'
  <2>1. CASE gate' = h
    BY <2>1 DEF ClockInv
  <2>2. CASE Rests(gate')
    BY <2>2 DEF ClockInv, Rests
  <2> QED
    BY <1>1, <2>1, <2>2
<1>4. SourceInv'
  <2>1. CASE Rests(gate')
    BY <2>1 DEF SourceInv, Rests
  <2>2. CASE gate' = h /\ SameLease(gate, h)
    BY <2>2 DEF SourceInv, SameLease
  <2> QED
    BY <1>1, <2>1, <2>2
<1>5. ProvenZeroHolds'
  <2>1. SUFFICES ASSUME proof' PROVE out' = "zero" /\ gate'.state \in {"inhibited", "faulted"}
    BY DEF ProvenZeroHolds
  <2>2. CASE emit' = "zero" /\ gate'.state = "inhibited"
    BY <1>1, <2>2
  <2>3. CASE proof /\ (Rests(gate) => Rests(h))
    <3>1. out = "zero" /\ Rests(gate)
      BY <2>3 DEF ProvenZeroHolds, CoreInv
    <3>2. Rests(h)
      BY <2>3, <3>1
    <3>3. emit' # "moving"
      BY <1>1, <3>2 DEF Rests
    <3>4. out' = "zero"
      BY <1>1, <3>1, <3>3
    <3> QED
      BY <1>1, <3>2, <3>4 DEF Rests
  <2> QED
    BY <2>1, <2>2, <2>3
<1>6. OutputAuthorised'
  <2>1. SUFFICES ASSUME emit' = "moving"
                 PROVE  /\ authAge' < AuthorityTicks
                        /\ candAge' < FreshTicks
                        /\ source'.kind = "moving"
                        /\ source'.writer = opened'.writer
                        /\ source'.born = opened'.lease
    BY DEF OutputAuthorised
  <2>2. h.state = "armed" /\ h.fresh = TRUE /\ h.cmd = "moving"
    BY <1>1, <2>1
  <2>3. SameLease(gate, h)
    BY <2>2 DEF Rests
  <2>4. opened.lease = h.lease /\ opened.writer = h.bound
    BY <2>2, <2>3 DEF SourceInv, SameLease
  <2> QED
    BY <2>2, <2>4
<1> QED
  BY <1>1, <1>2, <1>3, <1>4, <1>5, <1>6

\* Between handlers the reconciled core agrees with the ages and the candidate.
LEMMA ReconciledSafe ==
  ASSUME IInv, Idle
  PROVE  /\ Reconciled(gate) \in Gate
         /\ CoreInv(Reconciled(gate))
         /\ Rests(Reconciled(gate)) \/ Reconciled(gate) = gate
         /\ Rests(gate) => Reconciled(gate) = gate
         /\ Reconciled(gate).fresh = TRUE =>
              /\ Reconciled(gate).freshLeft + candAge <= FreshTicks
              /\ candAge < FreshTicks
              /\ source.kind = Reconciled(gate).cmd
              /\ source.writer = Reconciled(gate).bound
              /\ source.born = Reconciled(gate).lease
         /\ Reconciled(gate).state = "armed" =>
              /\ Reconciled(gate).authorityLeft + authAge <= AuthorityTicks
              /\ authAge < AuthorityTicks
<1> USE DEF IInv
<1>1. gate \in Gate /\ job.step = "idle"
  BY DEF TypeOK, Idle, NoJob
<1>2. Reconciled(gate) \in Gate
  BY <1>1, ReconciledType
<1>3. CASE Rests(Reconciled(gate)) /\ Expired(gate)
  <2>1. ~Rests(gate)
    BY <1>3 DEF Expired, Rests
  <2> QED
    BY <1>2, <1>3, <2>1 DEF CoreInv, Rests
<1>4. CASE Reconciled(gate) = gate /\ ~Expired(gate)
  <2>1. gate.fresh = TRUE => gate.state = "armed" /\ gate.freshLeft # 0
    BY <1>1, <1>4 DEF Expired, CoreInv, Rests
  <2>2. gate.state = "armed" => gate.authorityLeft # 0
    BY <1>4 DEF Expired
  <2>3. gate.fresh = TRUE => /\ gate.freshLeft + candAge <= FreshTicks
                             /\ candAge < FreshTicks
    BY <1>1, <2>1, GateAssumption, RequestAssumption DEF ClockInv, TypeOK, Gate
  <2>4. gate.state = "armed" => /\ gate.authorityLeft + authAge <= AuthorityTicks
                                /\ authAge < AuthorityTicks
    BY <1>1, <2>2, GateAssumption, RequestAssumption DEF ClockInv, TypeOK, Gate
  <2> QED
    BY <1>2, <1>4, <2>3, <2>4 DEF SourceInv
<1> QED
  BY <1>1, <1>3, <1>4, ReconciledCore

-----------------------------------------------------------------------------
(***************************************************************************)
(* One lemma per handler.                                                  *)
(***************************************************************************)
LEMMA RefuseSafe ==
  ASSUME IInv, TypeOK', NEW r \in Learnt, Refuse(r)
  PROVE  IInv'
<1> DEFINE h == Reconciled(gate)
           v == Verdict(h, r)
           code == IF v = "replay" THEN "duplicate" ELSE "rejected"
<1>1. /\ Idle
      /\ Conclude(h, reader, retired)
      /\ proof' = (proof \/ ProvesZero(r, code))
      /\ KeepInbox
      /\ UNCHANGED <<inst, job, home, authAge, candAge, source, opened, everBound>>
  BY DEF Refuse
<1>2. proof' => \/ proof /\ (Rests(gate) => Rests(h))
                \/ emit' = "zero" /\ gate'.state = "inhibited"
  BY <1>1, ReconciledSafe DEF ProvesZero
<1>3. /\ h \in Gate /\ CoreInv(h) /\ (Rests(h) \/ SameLease(gate, h))
      /\ h.fresh = TRUE =>
           /\ h.freshLeft + candAge <= FreshTicks
           /\ candAge < FreshTicks
           /\ source.kind = h.cmd /\ source.writer = h.bound
           /\ source.born = h.lease
      /\ h.state = "armed" =>
           h.authorityLeft + authAge <= AuthorityTicks /\ authAge < AuthorityTicks
      /\ h.fresh = TRUE => h.state = "armed"
  BY <1>1, ReconciledSafe DEF SameLease, CoreInv, Rests
<1> HIDE DEF h, code
<1> QED
  BY <1>1, <1>2, <1>3, HandlerSafe DEF KeepInbox, Idle

LEMMA TimerSafe ==
  ASSUME IInv, TypeOK', OnOutputTimer
  PROVE  IInv'
<1> DEFINE h == Reconciled(gate)
<1>1. /\ Idle
      /\ Conclude(h, reader, retired)
      /\ KeepInbox
      /\ UNCHANGED <<job, home, authAge, candAge, source, opened, everBound, proof>>
  BY DEF OnOutputTimer, history
<1>2. /\ h \in Gate /\ CoreInv(h) /\ (Rests(h) \/ SameLease(gate, h))
      /\ Rests(gate) => Rests(h)
      /\ h.fresh = TRUE =>
           /\ h.freshLeft + candAge <= FreshTicks
           /\ candAge < FreshTicks
           /\ source.kind = h.cmd /\ source.writer = h.bound
           /\ source.born = h.lease
      /\ h.state = "armed" =>
           h.authorityLeft + authAge <= AuthorityTicks /\ authAge < AuthorityTicks
      /\ h.fresh = TRUE => h.state = "armed"
  BY <1>1, ReconciledSafe DEF SameLease, CoreInv, Rests
<1> HIDE DEF h
<1> QED
  BY <1>1, <1>2, HandlerSafe DEF KeepInbox, Idle

\* A handler that leaves no lease behind.
LEMMA RestingSafe ==
  ASSUME IInv, TypeOK', NEW h \in Gate, Rests(h),
         Conclude(h, reader, retired),
         UNCHANGED <<home, everBound, opened>>,
         job' \in {job, NoJob}, job \in {NoJob} \/ job' = NoJob,
         inbox' \in {inbox, NoSample},
         proof' => proof \/ (emit' = "zero" /\ gate'.state = "inhibited")
  PROVE  IInv'
<1>1. CoreInv(h) /\ h.fresh # TRUE /\ h.state # "armed"
  BY DEF CoreInv, Rests
<1> QED
  BY <1>1, HandlerSafe

LEMMA InhibitSafe ==
  ASSUME IInv, TypeOK', NEW r \in Learnt, Inhibit(r)
  PROVE  IInv'
<1> DEFINE g == Reconciled(gate)
           h == IF g.state = "inhibited" THEN Advanced(g) ELSE Retired(g)
<1>1. /\ Idle
      /\ Conclude(h, reader, retired)
      /\ proof' = (proof \/ ProvesZero(r, "applied"))
      /\ KeepInbox
      /\ UNCHANGED <<inst, job, home, authAge, candAge, source, opened, everBound>>
  BY DEF Inhibit
<1>2. g \in Gate /\ CoreInv(g)
  BY <1>1, ReconciledSafe
<1> HIDE DEF g
<1>3. h \in Gate /\ Rests(h)
  <2>1. CASE g.state = "inhibited"
    BY <1>2, <2>1, AdvancedType, AdvancedCore DEF CoreInv, Rests, SameLease
  <2>2. CASE g.state # "inhibited"
    BY <1>2, <2>2, RetiredType, RetiredRests
  <2> QED
    BY <2>1, <2>2
<1>4. proof' => proof \/ (emit' = "zero" /\ gate'.state = "inhibited")
  BY <1>1 DEF ProvesZero
<1> HIDE DEF h
<1> QED
  BY <1>1, <1>3, <1>4, RestingSafe DEF KeepInbox, Idle

\* An operation on an armed lease was received before any deadline of it.
LEMMA RenewSafe ==
  ASSUME IInv, TypeOK', NEW r \in Learnt, Renew(r)
  PROVE  IInv'
<1> DEFINE g == Reconciled(gate)
           h == Renewed(g)
<1>1. /\ Idle
      /\ r.op = "renew" /\ Verdict(g, r) = "fit"
      /\ Conclude(h, reader, retired)
      /\ authAge' = 0
      /\ KeepInbox
      /\ UNCHANGED <<inst, job, home, candAge, source, opened, everBound, proof>>
  BY DEF Renew
<1>2. g.state = "armed"
  BY <1>1 DEF Verdict, RightState
<1>3. g \in Gate /\ g = gate /\ CoreInv(gate)
  BY <1>1, <1>2, ReconciledSafe DEF Rests, IInv
<1>4. /\ gate.fresh = TRUE =>
           /\ gate.freshLeft + candAge <= FreshTicks
           /\ candAge < FreshTicks
           /\ source.kind = gate.cmd /\ source.writer = gate.bound
           /\ source.born = gate.lease
  BY <1>1, <1>3, ReconciledSafe
<1> HIDE DEF g
<1>5. h \in Gate
  BY <1>3, RenewedType
<1>6. \/ Rests(h)
      \/ /\ SameLease(gate, h)
         /\ h.cmd = gate.cmd /\ h.fresh = gate.fresh
         /\ h.freshLeft = gate.freshLeft /\ h.authorityLeft = AuthorityTicks
  <2>1. Advanced(gate) \in Gate
    BY <1>3, AdvancedType
  <2>2. CASE Rests(Advanced(gate)) /\ Advanced(gate).state = "faulted"
    BY <1>3, <2>2 DEF Renewed
  <2>3. CASE /\ SameLease(gate, Advanced(gate))
             /\ Advanced(gate).cmd = gate.cmd
             /\ Advanced(gate).fresh = gate.fresh
             /\ Advanced(gate).freshLeft = gate.freshLeft
    <3>1. h = [Advanced(gate) EXCEPT !.authorityLeft = AuthorityTicks]
      BY <1>2, <1>3, <2>3 DEF Renewed, SameLease
    <3> QED
      BY <2>1, <2>3, <3>1 DEF Gate, SameLease
  <2> QED
    BY <1>3, <2>2, <2>3, AdvancedCore
<1>7. CASE Rests(h)
  BY <1>1, <1>5, <1>7, RestingSafe DEF KeepInbox, Idle
<1>8. CASE /\ SameLease(gate, h)
           /\ h.cmd = gate.cmd /\ h.fresh = gate.fresh
           /\ h.freshLeft = gate.freshLeft /\ h.authorityLeft = AuthorityTicks
  <2>1. CoreInv(h) /\ ~Rests(gate)
    BY <1>2, <1>3, <1>8 DEF CoreInv, SameLease, Rests
  <2>2. /\ h.fresh = TRUE =>
             /\ h.freshLeft + candAge' <= FreshTicks
             /\ candAge' < FreshTicks
             /\ authAge' < AuthorityTicks
             /\ source'.kind = h.cmd /\ source'.writer = h.bound
             /\ source'.born = h.lease
        /\ h.authorityLeft + authAge' <= AuthorityTicks
    BY <1>1, <1>4, <1>8, GateAssumption, RequestAssumption DEF SameLease
  <2> HIDE DEF h
  <2>3. proof' => proof /\ (Rests(gate) => Rests(h))
    BY <1>1, <2>1
  <2> QED
    BY <1>1, <1>5, <1>8, <2>1, <2>2, <2>3, HandlerSafe DEF KeepInbox, Idle
<1> QED
  BY <1>6, <1>7, <1>8

\* No client holds a tuple of the future: an operation other than INHIBIT that
\* fits found no expired deadline.
LEMMA FitIsCurrent ==
  ASSUME IInv, Idle, NEW r \in Learnt, Verdict(Reconciled(gate), r) = "fit"
  PROVE  Reconciled(gate) = gate
<1> DEFINE g == Reconciled(gate)
<1>1. r.gate = inst /\ r.expected = g.seq /\ g.state # "faulted"
  BY DEF Verdict
<1>2. PICK t \in Held : r.gate = t[1] /\ r.expected = t[2]
  BY DEF Learnt
<1>3. gate \in Gate /\ inst \in 1..MaxInstance
  BY DEF IInv, TypeOK
<1>4. t[1] = inst => t[2] <= gate.seq
  <2>1. CASE t = <<inst, gate.seq, gate.lease>>
    BY <1>3, <2>1 DEF Gate
  <2>2. CASE \E n \in {s \in 0..MaxSeq : gate.seq - Lag <= s /\ s < gate.seq},
                granted \in BOOLEAN : t = <<inst, n, IF granted THEN n ELSE 0>>
    BY <1>3, <2>2, GateAssumption, RequestAssumption DEF Gate
  <2>3. CASE \E n \in 1..(inst - 1) : t = <<n, 0, 0>>
    BY <1>3, <2>3, GateAssumption, RequestAssumption
  <2>4. CASE t = <<inst, gate.seq, Alien>>
    BY <1>3, <2>4 DEF Gate
  <2> QED
    BY <2>1, <2>2, <2>3, <2>4 DEF Held
<1>5. g.seq <= gate.seq
  BY <1>1, <1>2, <1>4
<1>6. CASE Expired(gate)
  <2>1. g = Retired(gate)
    BY <1>6 DEF Reconciled
  <2>2. gate.seq # MaxSeq
    BY <1>1, <2>1, ClosedRests DEF Retired, Exhausted
  <2>3. g.seq = gate.seq + 1
    BY <2>1, <2>2 DEF Retired, Closed
  <2> QED
    BY <1>3, <1>5, <2>3, GateAssumption, RequestAssumption DEF Gate
<1>7. CASE ~Expired(gate)
  BY <1>7 DEF Reconciled
<1> QED
  BY <1>6, <1>7

\* A new lease is granted only when no writer of an earlier one is left.
LEMMA GrantSafe ==
  ASSUME IInv, TypeOK', gate.state = "inhibited", NEW r \in Request,
         NEW waited \in Nat, Grant(r, waited)
  PROVE  IInv'
<1> DEFINE h == Prepared(gate, waited)
           rd == IF h.state = "faulted" THEN reader
                 ELSE [kind |-> "discard", lease |-> h.lease]
<1>1. gate \in Gate /\ Rests(gate)
  BY DEF IInv, TypeOK, CoreInv
<1>2. Reconciled(gate) = gate
  BY DEF Reconciled, Expired
<1>3. /\ ~RetiredPresent
      /\ Conclude(h, rd, NoWriter)
      /\ job' = NoJob
      /\ proof' = FALSE
      /\ KeepInbox
      /\ UNCHANGED <<inst, home, authAge, candAge, source, opened, everBound>>
  BY <1>2 DEF Grant
<1>4. h \in Gate
  BY <1>1, PreparedType
<1>5. \/ Rests(h) /\ h.state = "faulted"
      \/ /\ h.state = "prepared" /\ h.lease # 0
         /\ h.bound = NoWriter /\ h.fresh = FALSE
  <2>1. Advanced(gate) \in Gate
    BY <1>1, AdvancedType
  <2>2. CASE Rests(Advanced(gate)) /\ Advanced(gate).state = "faulted"
    BY <2>2 DEF Prepared
  <2>3. CASE /\ SameLease(gate, Advanced(gate))
             /\ Advanced(gate).seq = gate.seq + 1
             /\ Advanced(gate).fresh = gate.fresh
    <3> DEFINE a == Advanced(gate)
               left == IF waited < PrepareTicks THEN PrepareTicks - waited ELSE 0
    <3>1. h = [a EXCEPT !.state = "prepared", !.lease = a.seq,
                        !.prepareLeft = left]
      BY <2>3 DEF Prepared, SameLease
    <3>2. a \in Gate /\ a.seq # 0 /\ a.bound = NoWriter /\ a.fresh = FALSE
      BY <1>1, <2>1, <2>3, GateAssumption, RequestAssumption DEF SameLease, Rests, Gate
    <3> HIDE DEF a, left
    <3> QED
      BY <3>1, <3>2 DEF Gate
  <2> QED
    BY <1>1, <2>2, <2>3, AdvancedCore
<1>6. CoreInv(h)
  BY <1>5 DEF CoreInv
<1> HIDE DEF h
<1>7. PICK x \in Emissions(h) :
        /\ gate' = x.gate
        /\ emit' = x.cmd
        /\ Published(x.cmd)
        /\ reader' = IF Ended(gate, h) \/ Ended(h, x.gate) THEN NoReader ELSE rd
        /\ retired' = IF ArmedEnded(gate, x.gate) THEN gate.bound ELSE NoWriter
  BY <1>3 DEF Conclude
<1>8. /\ x.gate = h \/ (Rests(x.gate) /\ x.gate.state = "faulted")
      /\ x.cmd \in {"zero", "none"}
  BY <1>4, <1>5, <1>6, EmissionsCore DEF Rests
<1>9. ~Ended(gate, h)
  BY DEF Ended, ArmedEnded, PreparedEnded
<1>10. CoreInv(gate')
  BY <1>6, <1>7, <1>8 DEF CoreInv
<1>11. ReaderFollowsLease'
  <2>1. NoReader.kind = "none" /\ NoReader.lease = 0
    BY DEF NoReader
  <2>2. reader.kind \notin {"accept", "discard"} /\ reader.lease = 0
    BY <1>1 DEF IInv, ReaderFollowsLease, Rests
  <2>3. CASE x.gate = h /\ h.state = "prepared"
    <3>1. ~Ended(h, x.gate)
      BY <2>3 DEF Ended, ArmedEnded, PreparedEnded
    <3>2. reader' = [kind |-> "discard", lease |-> h.lease]
      BY <1>7, <1>9, <2>3, <3>1
    <3> QED
      BY <1>7, <2>3, <3>2 DEF ReaderFollowsLease
  <2>4. CASE Rests(x.gate)
    <3>1. reader' = NoReader \/ reader' = reader
      <4>1. CASE h.state = "prepared"
        BY <1>7, <2>4, <4>1 DEF Ended, PreparedEnded, Rests
      <4>2. CASE h.state = "faulted"
        BY <1>7, <4>2
      <4> QED
        BY <1>5, <4>1, <4>2
    <3>2. gate'.state \notin {"armed", "prepared"} /\ gate'.lease = 0
      BY <1>7, <2>4 DEF Rests
    <3> QED
      BY <2>1, <2>2, <3>1, <3>2 DEF ReaderFollowsLease
  <2> QED
    BY <1>5, <1>8, <2>3, <2>4
<1>12. WriterInv'
  <2>1. SUFFICES ASSUME NEW w \in everBound PROVE home[w] # 0 /\ ~(home[w] > 0)
    BY <1>3 DEF WriterInv
  <2>2. w \in Writer
    BY DEF IInv, TypeOK
  <2>3. home[w] > 0 => w = retired
    BY <2>1 DEF IInv, WriterInv
  <2> QED
    BY <1>3, <2>1, <2>2, <2>3, GateAssumption, RequestAssumption DEF IInv, WriterInv, RetiredPresent
<1>13. gate'.state # "armed" /\ gate'.fresh # TRUE
  BY <1>5, <1>7, <1>8 DEF Rests
<1>14. JobInv'
  <2>1. job'.step = "idle"
    BY <1>3 DEF NoJob
  <2> QED
    BY <2>1 DEF JobInv, Preparing
<1>15. ClockInv' /\ SourceInv'
  BY <1>13 DEF ClockInv, SourceInv
<1>16. ProvenZeroHolds' /\ OutputAuthorised'
  BY <1>3, <1>7, <1>8 DEF ProvenZeroHolds, OutputAuthorised
<1> QED
  BY <1>10, <1>11, <1>12, <1>14, <1>15, <1>16 DEF IInv

LEMMA PrepareSafe ==
  ASSUME IInv, TypeOK',
         \/ \E r \in Learnt : Prepare(r) \/ PrepareBlocks(r)
         \/ PrepareResumes
         \/ PrepareZero
         \/ PrepareFails
         \/ PrepareTimesOut
  PROVE  IInv'
<1> USE DEF IInv
<1>1. ASSUME NEW r \in Learnt, Prepare(r) PROVE IInv'
  <2>1. Reconciled(gate) = gate
    BY <1>1, FitIsCurrent DEF Prepare
  <2>2. gate.state = "inhibited"
    BY <1>1, <2>1 DEF Prepare, Verdict, RightState
  <2> QED
    BY <1>1, <2>2, LearntType, GrantSafe DEF Prepare
<1>2. ASSUME NEW r \in Learnt, PrepareBlocks(r) PROVE IInv'
  <2>1. Reconciled(gate) = gate
    BY <1>2, FitIsCurrent DEF PrepareBlocks
  <2>2. gate.state = "inhibited"
    BY <1>2, <2>1 DEF PrepareBlocks, Verdict, RightState
  <2>3. job' = [step |-> "prepare", req |-> r, waited |-> 0]
    BY <1>2 DEF PrepareBlocks
  <2>4. JobInv'
    BY <1>2, <2>2, <2>3 DEF PrepareBlocks, JobInv, Preparing
  <2> QED
    BY <1>2, <2>2, <2>4 DEF PrepareBlocks, Quiet, history, ReaderFollowsLease,
         WriterInv, ClockInv, SourceInv, ProvenZeroHolds, OutputAuthorised
<1>3. CASE PrepareResumes
  <2>1. job.req \in Request /\ job.waited \in Nat
    BY <1>3, JobType, GateAssumption, RequestAssumption DEF PrepareResumes, PrepareJob
  <2> QED
    BY <1>3, <2>1, GrantSafe DEF PrepareResumes, JobInv
<1>4. CASE PrepareZero
  BY <1>4 DEF PrepareZero, history, JobInv, Preparing, ReaderFollowsLease,
       WriterInv, ClockInv, SourceInv, ProvenZeroHolds, OutputAuthorised
<1>5. CASE PrepareFails
  <2>1. Rests(gate) /\ gate \in Gate
    BY <1>5 DEF PrepareFails, JobInv, CoreInv, TypeOK
  <2>2. Rests(gate') /\ gate'.state = "faulted"
    BY <1>5, <2>1, FaultedRests DEF PrepareFails
  <2>3. UNCHANGED <<reader, inbox, retired, home, authAge, candAge, source,
                    opened, everBound, proof>>
    BY <1>5 DEF PrepareFails, history
  <2>4. job'.step = "idle"
    BY <1>5 DEF PrepareFails, NoJob
  <2>5. JobInv'
    BY <2>4 DEF JobInv, Preparing
  <2>6. ReaderFollowsLease'
    BY <2>1, <2>2, <2>3 DEF ReaderFollowsLease, Rests
  <2>7. WriterInv'
    BY <2>1, <2>2, <2>3 DEF WriterInv, Rests
  <2>8. ClockInv' /\ SourceInv'
    BY <2>2 DEF ClockInv, SourceInv, Rests
  <2>9. ProvenZeroHolds' /\ OutputAuthorised'
    BY <1>5, <2>2, <2>3
       DEF PrepareFails, Published, ProvenZeroHolds, OutputAuthorised
  <2> QED
    BY <2>2, <2>5, <2>6, <2>7, <2>8, <2>9 DEF CoreInv
<1>6. CASE PrepareTimesOut
  <2>1. Rests(gate) /\ gate \in Gate
    BY <1>6 DEF PrepareTimesOut, JobInv, CoreInv, TypeOK
  <2> QED
    BY <1>6, <2>1, RestingSafe DEF PrepareTimesOut, history, KeepInbox
<1> QED
  BY <1>1, <1>2, <1>3, <1>4, <1>5, <1>6

\* A handler of OPEN that fails before anything is armed.
LEMMA OpenRefusedSafe ==
  ASSUME IInv, TypeOK', gate.state = "prepared",
         Conclude(gate, reader, retired) \/ Conclude(Faulted(gate), reader, retired),
         UNCHANGED <<home, history>>, KeepInbox,
         job' \in {job, NoJob}, job \in {NoJob} \/ job' = NoJob
  PROVE  IInv'
<1>1. gate \in Gate /\ CoreInv(gate) /\ gate.fresh # TRUE
  BY DEF IInv, TypeOK, CoreInv, Rests
<1>2. CASE Conclude(gate, reader, retired)
  BY <1>1, <1>2, HandlerSafe DEF SameLease, history, KeepInbox
<1>3. CASE Conclude(Faulted(gate), reader, retired)
  BY <1>1, <1>3, FaultedType, FaultedRests, RestingSafe DEF history, KeepInbox
<1> QED
  BY <1>2, <1>3

LEMMA OpenStartSafe ==
  ASSUME IInv, TypeOK', NEW r \in Learnt, OpenBegin(r) \/ OpenUnready(r)
  PROVE  IInv'
<1> USE DEF IInv
<1>1. Idle /\ Verdict(Reconciled(gate), r) = "fit" /\ r.op = "open"
  BY DEF OpenBegin, OpenUnready
<1>2. gate.state = "prepared"
  BY <1>1, FitIsCurrent DEF Verdict, RightState
<1>3. CASE OpenUnready(r)
  BY <1>2, <1>3, OpenRefusedSafe DEF OpenUnready, Idle
<1>4. CASE OpenBegin(r)
  <2>1. PICK w \in Writer : job' = [step |-> "second", req |-> r, first |-> w]
    BY <1>4 DEF OpenBegin
  <2>2. /\ reader' = [kind |-> "discard", lease |-> gate.lease]
        /\ inbox' = NoSample
        /\ emit' = "none"
        /\ UNCHANGED <<gate, retired, home, out, authAge, candAge, source,
                       opened, everBound, proof>>
    BY <1>4 DEF OpenBegin, Quiet, history
  <2>3. JobInv'
    BY <1>2, <2>1, <2>2 DEF JobInv, Preparing
  <2>4. ReaderFollowsLease'
    BY <1>2, <2>2 DEF ReaderFollowsLease
  <2>5. WriterInv'
    BY <2>2 DEF WriterInv
  <2>6. ClockInv' /\ SourceInv'
    BY <1>2, <2>2 DEF ClockInv, SourceInv, CoreInv, Rests
  <2>7. ProvenZeroHolds' /\ OutputAuthorised'
    BY <2>2 DEF ProvenZeroHolds, OutputAuthorised
  <2> QED
    BY <2>2, <2>3, <2>4, <2>5, <2>6, <2>7
<1> QED
  BY <1>3, <1>4

\* The writer becomes bound with an empty queue behind a new reader.
LEMMA OpenBindsSafe ==
  ASSUME IInv, TypeOK', OpenBinds
  PROVE  IInv'
<1> USE DEF IInv
<1> DEFINE w == job.first
           a == Advanced(gate)
<1>1. gate \in Gate /\ gate.state = "prepared" /\ gate.lease # 0
  BY DEF OpenBinds, JobInv, TypeOK, CoreInv, Rests
<1>2. w \in Writer /\ home[w] = gate.lease
  BY JobType DEF OpenBinds, OpenJob, OnlyWriter, WritersOn
<1>3. a = [gate EXCEPT !.seq = gate.seq + 1]
  BY <1>1 DEF OpenBinds, Advanced, Gate
<1>4. gate' = [a EXCEPT !.state = "armed", !.bound = w, !.prepareLeft = 0,
                        !.authorityLeft = AuthorityTicks, !.freshLeft = 0,
                        !.fresh = FALSE, !.cmd = "zero"]
  <2>1. a \in Gate /\ a.state # "faulted"
    BY <1>1, <1>3, AdvancedType DEF Gate
  <2>2. gate' = ArmedWindow([a EXCEPT !.state = "armed", !.bound = w])
    BY <2>1 DEF OpenBinds, Bound
  <2> QED
    BY <2>1, <2>2 DEF ArmedWindow, Gate
<1>5. /\ gate'.state = "armed" /\ gate'.bound = w /\ gate'.lease = gate.lease
      /\ gate'.fresh = FALSE
  <2>1. a \in Gate /\ a.lease = gate.lease
    BY <1>1, <1>3, AdvancedType DEF Gate
  <2> HIDE DEF a
  <2> QED
    BY <1>4, <2>1 DEF Gate
<1>6. /\ reader' = [kind |-> "accept", lease |-> gate.lease]
      /\ inbox' = NoSample
      /\ job' = [job EXCEPT !.step = "third"]
      /\ opened' = [lease |-> gate.lease, writer |-> w]
      /\ everBound' = everBound \cup {w}
      /\ emit' = "none"
      /\ UNCHANGED <<retired, home, out, authAge, candAge, source, proof>>
  BY DEF OpenBinds, Quiet
<1>7. CoreInv(gate')
  BY <1>1, <1>2, <1>5 DEF CoreInv
<1>8. JobInv'
  <2>1. job \in OpenJob
    BY JobType DEF OpenBinds
  <2>2. job'.step = "third" /\ job'.first = w
    BY <1>6, <2>1 DEF OpenJob
  <2> QED
    BY <1>5, <2>2 DEF JobInv, Preparing
<1>9. ReaderFollowsLease'
  BY <1>5, <1>6 DEF ReaderFollowsLease
<1>10. WriterInv'
  <2>1. home[w] # 0
    BY <1>1, <1>2
  <2>2. \A u \in everBound : home[u] # 0 /\ ~(home[u] > 0)
    BY <1>1 DEF WriterInv
  <2> QED
    BY <1>5, <1>6, <2>1, <2>2 DEF WriterInv
<1>11. ClockInv'
  <2>1. job'.step = "third"
    BY <1>6, JobType DEF OpenBinds, OpenJob
  <2> QED
    BY <1>5, <2>1 DEF ClockInv
<1>12. SourceInv'
  BY <1>5, <1>6 DEF SourceInv
<1>13. ProvenZeroHolds'
  BY <1>1, <1>6 DEF ProvenZeroHolds
<1>14. OutputAuthorised'
  BY <1>6 DEF OutputAuthorised
<1> QED
  BY <1>7, <1>8, <1>9, <1>10, <1>11, <1>12, <1>13, <1>14

LEMMA OpenEndsSafe ==
  ASSUME IInv, TypeOK', OpenUnbound \/ OpenCompletes \/ OpenBreaks
  PROVE  IInv'
<1> USE DEF IInv
<1>1. CASE OpenUnbound
  BY <1>1, OpenRefusedSafe DEF OpenUnbound, JobInv
<1>2. CASE OpenCompletes
  <2> DEFINE h == ArmedWindow(gate)
  <2>1. gate \in Gate /\ gate.state = "armed"
    BY <1>2 DEF OpenCompletes, JobInv, TypeOK
  <2>2. /\ SameLease(gate, h) /\ h.fresh = FALSE
        /\ h.authorityLeft = AuthorityTicks
    BY <2>1 DEF ArmedWindow, SameLease, Gate
  <2>3. h \in Gate
    BY <2>1, ArmedWindowType
  <2>4. CoreInv(h) /\ ~Rests(gate)
    BY <2>1, <2>2 DEF CoreInv, SameLease, Rests
  <2> HIDE DEF h
  <2>5. /\ Conclude(h, reader, retired)
        /\ job' = NoJob /\ authAge' = 0 /\ KeepInbox
        /\ UNCHANGED <<home, everBound, opened, candAge, source, proof>>
    BY <1>2 DEF OpenCompletes, h
  <2>6. h.authorityLeft + authAge' <= AuthorityTicks
    BY <2>2, <2>5, GateAssumption, RequestAssumption
  <2>7. proof' => proof /\ (Rests(gate) => Rests(h))
    BY <2>4, <2>5
  <2> QED
    BY <2>2, <2>3, <2>4, <2>5, <2>6, <2>7, HandlerSafe DEF KeepInbox
<1>3. CASE OpenBreaks
  <2> DEFINE h == Faulted(gate)
  <2>1. gate \in Gate /\ gate.state = "armed"
    BY <1>3 DEF OpenBreaks, JobInv, TypeOK
  <2>2. h \in Gate /\ Rests(h) /\ h.state = "faulted"
    BY <2>1, FaultedType, FaultedRests
  <2> HIDE DEF h
  <2>3. Ended(gate, h)
    BY <2>1, <2>2 DEF Ended, ArmedEnded
  <2>4. Conclude(h, NoReader, retired)
    BY <1>3 DEF OpenBreaks, h
  <2>5. Conclude(h, reader, retired)
    BY <2>3, <2>4 DEF Conclude
  <2> QED
    BY <1>3, <2>2, <2>5, RestingSafe DEF OpenBreaks, history, KeepInbox
<1> QED
  BY <1>1, <1>2, <1>3

\* Only a candidate of the bound writer, published after the lease was armed,
\* becomes the command.
LEMMA CandidateSafe ==
  ASSUME IInv, TypeOK', OnCandidate
  PROVE  IInv'
<1> USE DEF IInv
<1> DEFINE g == Reconciled(gate)
           h == Accepted(g, reader.lease, inbox)
           taken == h.state = "armed" /\ h.fresh
<1>1. /\ Idle /\ inbox # NoSample /\ inbox \in Sample
      /\ Conclude(h, reader, retired)
      /\ inbox' = NoSample
      /\ candAge' = IF taken THEN 0 ELSE candAge
      /\ source' = IF taken THEN inbox ELSE source
      /\ UNCHANGED <<job, home, authAge, opened, everBound, proof>>
  BY DEF OnCandidate, TypeOK
<1>2. /\ g \in Gate /\ CoreInv(g) /\ (Rests(g) \/ g = gate)
      /\ Rests(gate) => Rests(g)
      /\ g.fresh = TRUE =>
           /\ g.freshLeft + candAge <= FreshTicks
           /\ candAge < FreshTicks
           /\ source.kind = g.cmd /\ source.writer = g.bound
           /\ source.born = g.lease
      /\ g.state = "armed" =>
           g.authorityLeft + authAge <= AuthorityTicks /\ authAge < AuthorityTicks
  BY <1>1, ReconciledSafe
<1>3. h \in Gate
  BY <1>1, <1>2, AcceptedType
<1> HIDE DEF g
<1>4. CASE g.state # "armed"
  <2>1. h = g
    BY <1>4 DEF Accepted
  <2>2. CASE Rests(g)
    BY <1>1, <1>3, <2>1, <2>2, RestingSafe DEF Idle
  <2>3. CASE g = gate /\ gate.state = "prepared"
    <3>1. FALSE
      BY <2>3 DEF OnCandidate, ReaderFollowsLease
    <3> QED
      BY <3>1
  <2> QED
    BY <1>2, <1>4, <2>2, <2>3 DEF CoreInv
<1>5. CASE g.state = "armed"
  <2>1. g = gate
    BY <1>2, <1>5 DEF Rests
  <2>2. reader.lease = g.lease /\ inbox.born = g.lease
    BY <1>1, <1>5, <2>1 DEF ReaderFollowsLease, SourceInv
  <2>3. CASE inbox.writer # g.bound \/ inbox.kind = "bad"
    <3>1. h = Retired(g)
      BY <1>5, <2>2, <2>3 DEF Accepted
    <3>2. Rests(h)
      BY <1>2, <3>1, RetiredRests
    <3> QED
      BY <1>1, <1>3, <3>2, RestingSafe DEF Idle
  <2>4. CASE inbox.writer = g.bound /\ inbox.kind # "bad"
    <3>1. h = [g EXCEPT !.cmd = inbox.kind, !.fresh = TRUE,
                        !.freshLeft = FreshTicks]
      BY <1>5, <2>2, <2>4 DEF Accepted
    <3>2. /\ SameLease(g, h) /\ h.fresh = TRUE /\ h.cmd = inbox.kind
          /\ h.freshLeft = FreshTicks /\ h.authorityLeft = g.authorityLeft
      BY <1>2, <3>1 DEF SameLease, Gate
    <3>3. taken /\ candAge' = 0 /\ source' = inbox
      BY <1>1, <1>5, <3>2 DEF SameLease
    <3> HIDE DEF h
    <3>4. CoreInv(h) /\ ~Rests(gate)
      BY <1>2, <1>5, <2>1, <3>2 DEF CoreInv, SameLease, Rests
    <3>5. /\ h.freshLeft + candAge' <= FreshTicks
          /\ candAge' < FreshTicks
          /\ authAge' < AuthorityTicks
          /\ source'.kind = h.cmd /\ source'.writer = h.bound
          /\ source'.born = h.lease
          /\ h.authorityLeft + authAge' <= AuthorityTicks
      BY <1>1, <1>2, <1>5, <2>2, <2>4, <3>2, <3>3, GateAssumption, RequestAssumption DEF SameLease
    <3>6. proof' => proof /\ (Rests(gate) => Rests(h))
      BY <1>1, <3>4
    <3> QED
      BY <1>1, <1>3, <2>1, <3>2, <3>4, <3>5, <3>6, HandlerSafe DEF Idle
  <2> QED
    BY <2>3, <2>4
<1> QED
  BY <1>4, <1>5

\* Nothing that happens around the core disturbs it.
LEMMA SurroundingsSafe ==
  ASSUME IInv, TypeOK', Discard \/ Graph
  PROVE  IInv'
<1> USE DEF IInv
<1>1. CASE Discard
  BY <1>1 DEF Discard, Quiet, history, JobInv, Preparing, ReaderFollowsLease,
       WriterInv, ClockInv, SourceInv, ProvenZeroHolds, OutputAuthorised
<1>2. ASSUME NEW w \in Writer, WriterAppears(w) PROVE IInv'
  <2>1. w \notin everBound
    BY <1>2 DEF WriterAppears, WriterInv
  <2>2. \A u \in everBound : home'[u] = home[u]
    BY <1>2, <2>1 DEF WriterAppears, TypeOK
  <2>3. WriterInv'
    BY <1>2, <2>2 DEF WriterAppears, history, WriterInv
  <2> QED
    BY <1>2, <2>3 DEF WriterAppears, Quiet, history, JobInv, Preparing,
         ReaderFollowsLease, ClockInv, SourceInv, ProvenZeroHolds, OutputAuthorised
<1>3. ASSUME NEW w \in Writer, WriterDisappears(w) PROVE IInv'
  <2>1. \A u \in everBound : home'[u] = home[u] \/ home'[u] = -1
    BY <1>3 DEF WriterDisappears, TypeOK
  <2>2. WriterInv'
    BY <1>3, <2>1 DEF WriterDisappears, history, WriterInv
  <2> QED
    BY <1>3, <2>2 DEF WriterDisappears, Quiet, history, JobInv, Preparing,
         ReaderFollowsLease, ClockInv, SourceInv, ProvenZeroHolds, OutputAuthorised
<1>4. ASSUME NEW w \in Writer, NEW kind \in {"zero", "moving", "bad"},
             WriterPublishes(w, kind)
      PROVE  IInv'
  <2>1. inbox' = [writer |-> w, kind |-> kind,
                  born |-> IF gate.state = "armed" THEN gate.lease ELSE 0]
    BY <1>4 DEF WriterPublishes
  <2>2. SourceInv'
    BY <1>4, <2>1 DEF WriterPublishes, history, SourceInv
  <2> QED
    BY <1>4, <2>2 DEF WriterPublishes, Quiet, history, JobInv, Preparing,
         ReaderFollowsLease, WriterInv, ClockInv, ProvenZeroHolds, OutputAuthorised
<1> QED
  BY <1>1, <1>2, <1>3, <1>4 DEF Graph

\* A deadline runs down as fast as an age runs up.
LEMMA TimeSafe ==
  ASSUME IInv, TypeOK', TimePasses
  PROVE  IInv'
<1> USE DEF IInv
<1>1. gate \in Gate
  BY DEF TypeOK
<1>2. gate' = [gate EXCEPT !.prepareLeft = Down(gate.prepareLeft),
                           !.authorityLeft = Down(gate.authorityLeft),
                           !.freshLeft = Down(gate.freshLeft)]
  BY <1>1 DEF TimePasses, Gate
<1>3. /\ SameLease(gate, gate') /\ gate'.cmd = gate.cmd /\ gate'.fresh = gate.fresh
      /\ gate'.freshLeft = Down(gate.freshLeft)
      /\ gate'.authorityLeft = Down(gate.authorityLeft)
  BY <1>1, <1>2 DEF SameLease, Gate
<1>4. job'.step = job.step /\ (job.step = "third" => job' = job)
  <2>1. CASE Preparing
    BY <2>1, JobType DEF TimePasses, Preparing, PrepareJob
  <2>2. CASE ~Preparing
    BY <2>2 DEF TimePasses
  <2> QED
    BY <2>1, <2>2
<1>5. /\ authAge' = Up(authAge, AuthorityTicks) /\ candAge' = Up(candAge, FreshTicks)
      /\ emit' = "none"
      /\ UNCHANGED <<reader, inbox, retired, home, out, source, opened, everBound,
                     proof>>
  BY DEF TimePasses, Quiet
<1>6. CoreInv(gate')
  BY <1>3 DEF CoreInv, Rests, SameLease
<1>7. JobInv'
  BY <1>3, <1>4 DEF JobInv, Preparing, SameLease
<1>8. ReaderFollowsLease' /\ WriterInv'
  BY <1>3, <1>5 DEF ReaderFollowsLease, WriterInv, SameLease
<1>9. ClockInv'
  <2>1. gate'.fresh = TRUE => gate'.freshLeft + candAge' <= FreshTicks
    <3>1. gate.freshLeft \in Nat /\ candAge \in 0..FreshTicks
      BY <1>1, GateAssumption, RequestAssumption DEF Gate, TypeOK
    <3>2. gate.fresh = TRUE => gate.freshLeft + candAge <= FreshTicks
      BY DEF ClockInv
    <3>3. gate.fresh = TRUE =>
            Down(gate.freshLeft) + Up(candAge, FreshTicks) <= FreshTicks
      BY <3>1, <3>2, GateAssumption, RequestAssumption DEF Up, Down
    <3> QED
      BY <1>3, <1>5, <3>3
  <2>2. gate'.state = "armed" /\ job'.step # "third" =>
          gate'.authorityLeft + authAge' <= AuthorityTicks
    <3>1. gate.authorityLeft \in Nat /\ authAge \in 0..AuthorityTicks
      BY <1>1, GateAssumption, RequestAssumption DEF Gate, TypeOK
    <3>2. gate.state = "armed" /\ job.step # "third" =>
            gate.authorityLeft + authAge <= AuthorityTicks
      BY DEF ClockInv
    <3>3. gate.state = "armed" /\ job.step # "third" =>
            Down(gate.authorityLeft) + Up(authAge, AuthorityTicks) <= AuthorityTicks
      BY <3>1, <3>2, GateAssumption, RequestAssumption DEF Up, Down
    <3> QED
      BY <1>3, <1>4, <1>5, <3>3 DEF SameLease
  <2> QED
    BY <2>1, <2>2 DEF ClockInv
<1>10. SourceInv'
  BY <1>3, <1>5 DEF SourceInv, SameLease
<1>11. ProvenZeroHolds' /\ OutputAuthorised'
  BY <1>3, <1>5 DEF ProvenZeroHolds, OutputAuthorised, SameLease
<1> QED
  BY <1>6, <1>7, <1>8, <1>9, <1>10, <1>11

\* The core of the constructor, through the barrier.
LEMMA FreshEmissions ==
  ASSUME NEW x \in Emissions(FreshCore)
  PROVE  Rests(x.gate) /\ x.cmd \in {"zero", "none"}
<1>1. FreshCore \in Gate /\ Rests(FreshCore)
  BY FreshCoreType, ClosedRests DEF FreshCore
<1>2. CoreInv(FreshCore) /\ FreshCore.fresh # TRUE
  BY <1>1 DEF CoreInv, Rests
<1>3. x.gate = FreshCore \/ Rests(x.gate)
  BY <1>1, <1>2, EmissionsCore
<1>4. x.cmd \in {"zero", "none"}
  BY <1>1, <1>2, EmissionsCore
<1> QED
  BY <1>1, <1>3, <1>4

LEMMA RestartSafe ==
  ASSUME IInv, TypeOK', Restart
  PROVE  IInv'
<1>1. Start(inst + 1)
  BY DEF Restart
<1>2. PICK x \in Emissions(FreshCore) :
        gate' = x.gate /\ emit' = x.cmd /\ Published(x.cmd)
  BY <1>1 DEF Start
<1>3. Rests(gate') /\ emit' \in {"zero", "none"}
  BY <1>2, FreshEmissions
<1>4. /\ reader'.kind = "none" /\ reader'.lease = 0
      /\ job'.step = "idle" /\ everBound' = {} /\ proof' = proof
  BY <1>1 DEF Start, NoReader, NoJob
<1>5. JobInv'
  BY <1>4 DEF JobInv, Preparing
<1>6. ReaderFollowsLease' /\ WriterInv'
  BY <1>3, <1>4 DEF ReaderFollowsLease, WriterInv, Rests
<1>7. ClockInv' /\ SourceInv'
  BY <1>3 DEF ClockInv, SourceInv, Rests
<1>8. ProvenZeroHolds' /\ OutputAuthorised'
  BY <1>2, <1>3, <1>4
     DEF IInv, ProvenZeroHolds, OutputAuthorised, Published, Rests
<1> QED
  BY <1>3, <1>5, <1>6, <1>7, <1>8 DEF IInv, CoreInv

-----------------------------------------------------------------------------
(***************************************************************************)
(* The invariant and what follows from it.                                 *)
(***************************************************************************)
LEMMA InitSafe == Init => IInv
<1> SUFFICES ASSUME Init PROVE IInv
  OBVIOUS
<1>1. PICK x \in Emissions(FreshCore) : gate = x.gate /\ emit = x.cmd
  BY DEF Init
<1>2. Rests(gate) /\ emit \in {"zero", "none"}
  BY <1>1, FreshEmissions
<1>3. /\ reader.kind = "none" /\ reader.lease = 0
      /\ job.step = "idle" /\ everBound = {} /\ proof = FALSE
  BY DEF Init, NoReader, NoJob
<1>4. JobInv
  BY <1>3 DEF JobInv, Preparing
<1>5. ReaderFollowsLease /\ WriterInv
  BY <1>2, <1>3 DEF ReaderFollowsLease, WriterInv, Rests
<1>6. ClockInv /\ SourceInv
  BY <1>2 DEF ClockInv, SourceInv, Rests
<1>7. ProvenZeroHolds /\ OutputAuthorised
  BY <1>2, <1>3 DEF ProvenZeroHolds, OutputAuthorised
<1> QED
  BY <1>2, <1>4, <1>5, <1>6, <1>7, InitType DEF IInv, CoreInv

LEMMA NextSafe == IInv /\ [Next]_vars => IInv'
<1> SUFFICES ASSUME IInv, [Next]_vars PROVE IInv'
  OBVIOUS
<1>1. TypeOK'
  BY NextType DEF IInv
<1>2. CASE OnControl
  <2>1. PICK r \in Learnt :
          \/ Refuse(r) \/ Inhibit(r) \/ Renew(r) \/ Prepare(r)
          \/ PrepareBlocks(r) \/ OpenBegin(r) \/ OpenUnready(r)
    BY <1>2 DEF OnControl
  <2> QED
    BY <1>1, <2>1, RefuseSafe, InhibitSafe, RenewSafe, PrepareSafe, OpenStartSafe
<1>3. CASE Blocked
  BY <1>1, <1>3, PrepareSafe, OpenBindsSafe, OpenEndsSafe DEF Blocked
<1>4. CASE OnCandidate
  BY <1>1, <1>4, CandidateSafe
<1>5. CASE OnOutputTimer
  BY <1>1, <1>5, TimerSafe
<1>6. CASE Discard \/ Graph
  BY <1>1, <1>6, SurroundingsSafe
<1>7. CASE TimePasses
  BY <1>1, <1>7, TimeSafe
<1>8. CASE Restart
  BY <1>1, <1>8, RestartSafe
<1>9. CASE UNCHANGED vars
  <2>1. UNCHANGED <<gate, reader, inbox, retired, job, home, out, emit>>
    BY <1>9 DEF vars
  <2>2. UNCHANGED <<authAge, candAge, source, opened, everBound, proof>>
    BY <1>9 DEF vars, history
  <2>3. CoreInv(gate') /\ JobInv' /\ ReaderFollowsLease' /\ WriterInv'
    BY <2>1, <2>2 DEF IInv, JobInv, Preparing, ReaderFollowsLease, WriterInv
  <2>4. ClockInv' /\ SourceInv' /\ ProvenZeroHolds' /\ OutputAuthorised'
    BY <2>1, <2>2
       DEF IInv, ClockInv, SourceInv, ProvenZeroHolds, OutputAuthorised
  <2> QED
    BY <1>1, <2>3, <2>4 DEF IInv
<1> QED
  BY <1>2, <1>3, <1>4, <1>5, <1>6, <1>7, <1>8, <1>9 DEF Next

LEMMA Invariance == Spec => []IInv
<1>1. Init => IInv
  BY InitSafe
<1>2. IInv /\ [Next]_vars => IInv'
  BY NextSafe
<1> QED
  BY <1>1, <1>2, PTL DEF Spec

\* A moving command reaches the wheels only under a live authority and from a
\* fresh candidate of the bound writer, published after the lease was armed.
THEOREM OutputIsAuthorised == Spec => []OutputAuthorised
<1>1. IInv => OutputAuthorised
  BY DEF IInv
<1> QED
  BY <1>1, Invariance, PTL

\* An INHIBIT answered with a proof of zero is not undone before a PREPARE.
THEOREM ZeroStaysProven == Spec => []ProvenZeroHolds
<1>1. IInv => ProvenZeroHolds
  BY DEF IInv
<1> QED
  BY <1>1, Invariance, PTL

\* PREPARE grants a lease only once every earlier bound writer has gone.
THEOREM RetiredWritersAreGone == Spec => []RetiredWriterGone
<1>1. IInv => RetiredWriterGone
  <2> SUFFICES ASSUME IInv, gate.state \in {"prepared", "armed"},
                      NEW w \in everBound \ {gate.bound}
               PROVE  home[w] <= 0
    BY DEF RetiredWriterGone
  <2>1. ~(home[w] > 0)
    BY DEF IInv, WriterInv
  <2>2. home[w] \in -1..MaxSeq
    BY DEF IInv, TypeOK
  <2> QED
    BY <2>1, <2>2, GateAssumption, RequestAssumption
<1> QED
  BY <1>1, Invariance, PTL

\* The candidate reader is always the one the lease calls for.
THEOREM ReaderIsTheLeases == Spec => []ReaderFollowsLease
<1>1. IInv => ReaderFollowsLease
  BY DEF IInv
<1> QED
  BY <1>1, Invariance, PTL
=============================================================================
