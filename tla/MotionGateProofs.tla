-------------------------- MODULE MotionGateProofs --------------------------
(***************************************************************************)
(* What TLAPS proves about MotionGate for every value of its constants.    *)
(***************************************************************************)
EXTENDS MotionGate, TLAPS

-----------------------------------------------------------------------------
(***************************************************************************)
(* The helpers of the core return a core.                                  *)
(***************************************************************************)

LEMMA ClosedType ==
  ASSUME NEW state \in {"inhibited", "faulted"}, NEW seq \in 0..MaxSeq
  PROVE  Closed(state, seq) \in Gate
BY GateAssumption, RequestAssumption DEF Closed, Gate, Gid, Speed

\* retire_lease leaves an inhibited core, or a faulted one once the control
\* sequence is exhausted.
LEMMA RetiredType ==
  ASSUME NEW g \in Gate
  PROVE  Retired(g) \in Gate
<1>1. g.seq \in 0..MaxSeq
  BY DEF Gate
<1>2. CASE g.seq = MaxSeq
  BY <1>2, ClosedType, GateAssumption, RequestAssumption DEF Retired, Exhausted
<1>3. CASE g.seq # MaxSeq
  <2>1. g.seq + 1 \in 0..MaxSeq
    BY <1>1, <1>3, GateAssumption, RequestAssumption
  <2> QED
    BY <1>3, <2>1, ClosedType DEF Retired
<1> QED
  BY <1>2, <1>3

\* reconcile_deadlines keeps the core or retires its lease.
LEMMA ReconciledType ==
  ASSUME NEW g \in Gate
  PROVE  Reconciled(g) \in Gate
BY RetiredType DEF Reconciled

\* force_fault leaves a faulted core.
LEMMA FaultedType ==
  ASSUME NEW g \in Gate
  PROVE  Faulted(g) \in Gate
<1> DEFINE n == IF g.seq = MaxSeq THEN MaxSeq ELSE g.seq + 1
<1>1. n \in 0..MaxSeq
  BY GateAssumption, RequestAssumption DEF Gate
<1> QED
  BY <1>1, ClosedType DEF Faulted

\* advance_control_seq never passes the limit of the sequence.
LEMMA AdvancedType ==
  ASSUME NEW g \in Gate
  PROVE  Advanced(g) \in Gate
<1>1. CASE g.seq = MaxSeq
  BY <1>1, ClosedType, GateAssumption, RequestAssumption DEF Advanced, Exhausted
<1>2. CASE g.seq # MaxSeq
  BY <1>2, GateAssumption, RequestAssumption DEF Advanced, Gate
<1> QED
  BY <1>1, <1>2

LEMMA FreshCoreType == FreshCore \in Gate
BY ClosedType, GateAssumption, RequestAssumption DEF FreshCore

\* The transitions of PREPARE, OPEN, RENEW and accept_candidate.  An update of
\* several members is a core when each of its fields is in range.
Field == {"state", "seq", "lease", "bound", "cmd", "fresh",
          "prepareLeft", "authorityLeft", "freshLeft"}

LEMMA GateByField ==
  ASSUME NEW h,
         h = [x \in Field |-> h[x]],
         h.state \in {"inhibited", "prepared", "armed", "faulted"},
         h.seq \in 0..MaxSeq, h.lease \in 0..MaxSeq, h.bound \in Gid,
         h.cmd \in Speed, h.fresh \in BOOLEAN,
         h.prepareLeft \in 0..PrepareTicks,
         h.authorityLeft \in 0..AuthorityTicks,
         h.freshLeft \in 0..FreshTicks
  PROVE  h \in Gate
<1>1. h = [state |-> h.state, seq |-> h.seq, lease |-> h.lease,
           bound |-> h.bound, cmd |-> h.cmd, fresh |-> h.fresh,
           prepareLeft |-> h.prepareLeft, authorityLeft |-> h.authorityLeft,
           freshLeft |-> h.freshLeft]
  BY DEF Field
<1> QED
  BY <1>1 DEF Gate

LEMMA PreparedType ==
  ASSUME NEW g \in Gate, NEW waited \in Nat
  PROVE  Prepared(g, waited) \in Gate
<1> DEFINE h == Advanced(g)
           left == IF waited < PrepareTicks THEN PrepareTicks - waited ELSE 0
           p == [h EXCEPT !.state = "prepared", !.lease = h.seq,
                          !.prepareLeft = left]
<1>1. h \in Gate
  BY AdvancedType
<1>2. left \in 0..PrepareTicks
  BY GateAssumption, RequestAssumption
<1> HIDE DEF h, left
<1>3. p = [x \in Field |-> p[x]]
  BY <1>1 DEF Gate, Field
<1>4. /\ p.state = "prepared" /\ p.seq = h.seq /\ p.lease = h.seq
      /\ p.bound = h.bound /\ p.cmd = h.cmd /\ p.fresh = h.fresh
      /\ p.prepareLeft = left /\ p.authorityLeft = h.authorityLeft
      /\ p.freshLeft = h.freshLeft
  BY <1>1 DEF Gate
<1>5. /\ h.seq \in 0..MaxSeq /\ h.bound \in Gid /\ h.cmd \in Speed
      /\ h.fresh \in BOOLEAN /\ h.authorityLeft \in 0..AuthorityTicks
      /\ h.freshLeft \in 0..FreshTicks
  BY <1>1 DEF Gate
<1> HIDE DEF p
<1>6. p \in Gate
  BY <1>2, <1>3, <1>4, <1>5, GateByField
<1> QED
  BY <1>1, <1>6 DEF Prepared, h, left, p

LEMMA ArmedWindowType ==
  ASSUME NEW g \in Gate
  PROVE  ArmedWindow(g) \in Gate
<1>1. ArmedWindow(g) = [x \in Field |-> ArmedWindow(g)[x]]
  BY DEF ArmedWindow, Gate, Field
<1>2. /\ ArmedWindow(g).state = g.state
      /\ ArmedWindow(g).seq = g.seq
      /\ ArmedWindow(g).lease = g.lease
      /\ ArmedWindow(g).bound = g.bound
      /\ ArmedWindow(g).cmd = "zero"
      /\ ArmedWindow(g).fresh = FALSE
      /\ ArmedWindow(g).prepareLeft = 0
      /\ ArmedWindow(g).authorityLeft = AuthorityTicks
      /\ ArmedWindow(g).freshLeft = 0
  BY DEF ArmedWindow, Gate
<1>3. /\ g.state \in {"inhibited", "prepared", "armed", "faulted"}
      /\ g.seq \in 0..MaxSeq /\ g.lease \in 0..MaxSeq /\ g.bound \in Gid
  BY DEF Gate
<1>4. /\ "zero" \in Speed /\ 0 \in 0..PrepareTicks /\ 0 \in 0..FreshTicks
      /\ AuthorityTicks \in 0..AuthorityTicks /\ FALSE \in BOOLEAN
  BY GateAssumption, RequestAssumption DEF Speed
<1> QED
  BY <1>1, <1>2, <1>3, <1>4, GateByField

LEMMA BoundType ==
  ASSUME NEW g \in Gate, NEW w \in Writer
  PROVE  Bound(g, w) \in Gate
<1> DEFINE h == Advanced(g)
           a == [h EXCEPT !.state = "armed", !.bound = w]
<1>1. h \in Gate
  BY AdvancedType
<1> HIDE DEF h
<1>2. a = [x \in Field |-> a[x]]
  BY <1>1 DEF Gate, Field
<1>3. /\ a.state = "armed" /\ a.seq = h.seq /\ a.lease = h.lease
      /\ a.bound = w /\ a.cmd = h.cmd /\ a.fresh = h.fresh
      /\ a.prepareLeft = h.prepareLeft /\ a.authorityLeft = h.authorityLeft
      /\ a.freshLeft = h.freshLeft
  BY <1>1 DEF Gate
<1>4. /\ h.seq \in 0..MaxSeq /\ h.lease \in 0..MaxSeq /\ h.cmd \in Speed
      /\ h.fresh \in BOOLEAN /\ h.prepareLeft \in 0..PrepareTicks
      /\ h.authorityLeft \in 0..AuthorityTicks
      /\ h.freshLeft \in 0..FreshTicks
  BY <1>1 DEF Gate
<1> HIDE DEF a
<1>5. a \in Gate
  BY <1>2, <1>3, <1>4, GateByField DEF Gid
<1> QED
  BY <1>1, <1>5, ArmedWindowType DEF Bound, h, a

LEMMA RenewedType ==
  ASSUME NEW g \in Gate
  PROVE  Renewed(g) \in Gate
<1>1. Advanced(g) \in Gate
  BY AdvancedType
<1> QED
  BY <1>1, GateAssumption, RequestAssumption DEF Renewed, Gate

LEMMA AcceptedType ==
  ASSUME NEW g \in Gate, NEW lease, NEW s \in Sample
  PROVE  Accepted(g, lease, s) \in Gate
<1> DEFINE t == [g EXCEPT !.cmd = s.kind, !.fresh = TRUE, !.freshLeft = FreshTicks]
<1>1. Retired(g) \in Gate
  BY RetiredType
<1>2. t = [x \in Field |-> t[x]]
  BY DEF Gate, Field
<1>3. /\ t.state = g.state /\ t.seq = g.seq /\ t.lease = g.lease
      /\ t.bound = g.bound /\ t.cmd = s.kind /\ t.fresh = TRUE
      /\ t.prepareLeft = g.prepareLeft /\ t.authorityLeft = g.authorityLeft
      /\ t.freshLeft = FreshTicks
  BY DEF Gate
<1>4. /\ g.state \in {"inhibited", "prepared", "armed", "faulted"}
      /\ g.seq \in 0..MaxSeq /\ g.lease \in 0..MaxSeq /\ g.bound \in Gid
      /\ g.prepareLeft \in 0..PrepareTicks
      /\ g.authorityLeft \in 0..AuthorityTicks
  BY DEF Gate
<1>5. /\ s.kind # "bad" => s.kind \in Speed
      /\ FreshTicks \in 0..FreshTicks /\ TRUE \in BOOLEAN
  BY GateAssumption, RequestAssumption DEF Sample, Speed
<1> HIDE DEF t
<1>6. s.kind # "bad" => t \in Gate
  BY <1>2, <1>3, <1>4, <1>5, GateByField
<1> QED
  BY <1>1, <1>6 DEF Accepted, t

-----------------------------------------------------------------------------
(***************************************************************************)
(* Typing of the parts the handlers are made of.                           *)
(***************************************************************************)

\* A client's request is well formed, whichever tuple it holds.
LEMMA LearntType ==
  ASSUME TypeOK, NEW r \in Learnt
  PROVE  r \in Request
<1>1. PICK id \in RequestId, op \in Operation, t \in Held :
        r = [id |-> id, op |-> op, gate |-> t[1], expected |-> t[2],
             lease |-> IF op = "prepare" THEN 0 ELSE t[3]]
  BY DEF Learnt
<1>2. t[1] \in 1..MaxInstance /\ t[2] \in 0..MaxSeq /\ t[3] \in 0..Alien
  <2>1. CASE t = <<inst, gate.seq, gate.lease>>
    BY <2>1, RequestAssumption DEF TypeOK, Gate, Alien
  <2>2. CASE \E n \in {s \in 0..MaxSeq : gate.seq - Lag <= s /\ s < gate.seq},
                granted \in BOOLEAN : t = <<inst, n, IF granted THEN n ELSE 0>>
    BY <2>2, GateAssumption, RequestAssumption DEF TypeOK, Alien
  <2>3. CASE \E n \in 1..(inst - 1) : t = <<n, 0, 0>>
    BY <2>3, GateAssumption, RequestAssumption DEF TypeOK, Alien
  <2>4. CASE t = <<inst, gate.seq, Alien>>
    BY <2>4, RequestAssumption DEF TypeOK, Gate, Alien
  <2> QED
    BY <2>1, <2>2, <2>3, <2>4 DEF Held
<1> QED
  BY <1>1, <1>2, GateAssumption, RequestAssumption DEF Request, Alien

\* remember evicts the oldest entry before it adds one.
LEMMA RememberType ==
  ASSUME cache \in Seq(Entry), Len(cache) <= CacheSize,
         NEW r \in Request, NEW why \in {"none", "stale", "refused"}
  PROVE  /\ Remember(r, why) \in Seq(Entry)
         /\ Len(Remember(r, why)) <= CacheSize
<1> DEFINE entry == [id |-> r.id, op |-> r.op, why |-> why,
                     replay |-> why # "stale"]
           room == IF Len(cache) >= CacheSize THEN Tail(cache) ELSE cache
<1>1. entry \in Entry
  BY DEF Entry, Request
<1>2. room \in Seq(Entry) /\ Len(room) < CacheSize
  BY GateAssumption, RequestAssumption
<1>3. CASE Cached(r) = {}
  <2>1. Remember(r, why) = Append(room, entry)
    BY <1>3 DEF Remember
  <2> QED
    BY <2>1, <1>1, <1>2, GateAssumption, RequestAssumption
<1>4. CASE Cached(r) # {}
  <2>1. Remember(r, why) =
          [i \in 1..Len(cache) |-> IF i \in Cached(r) THEN entry ELSE cache[i]]
    BY <1>4 DEF Remember
  <2>2. \A i \in 1..Len(cache) : cache[i] \in Entry
    OBVIOUS
  <2>3. Remember(r, why) \in Seq(Entry)
    BY <2>1, <2>2, <1>1
  <2>4. Len(Remember(r, why)) = Len(cache)
    BY <2>1, <2>3
  <2> QED
    BY <2>3, <2>4
<1> QED
  BY <1>3, <1>4

\* The publication barrier leaves well-formed state behind.
LEMMA ConcludeType ==
  ASSUME TypeOK, NEW g \in Gate, NEW rd \in Reader, NEW rt \in Gid,
         Conclude(g, rd, rt)
  PROVE  /\ gate' \in Gate
         /\ emit' \in Speed \cup {"none"}
         /\ out' \in Speed
         /\ reader' \in Reader
         /\ retired' \in Gid
<1>1. PICK x \in Emissions(g) :
        /\ gate' = x.gate
        /\ emit' = x.cmd
        /\ Published(x.cmd)
        /\ reader' = IF Ended(gate, g) \/ Ended(g, x.gate) THEN NoReader ELSE rd
        /\ retired' = IF ArmedEnded(gate, x.gate) THEN gate.bound ELSE rt
  BY DEF Conclude
<1>2. Output(g) \in Speed
  BY DEF Output, Gate, Speed
<1>3. x.gate \in Gate /\ x.cmd \in Speed \cup {"none"}
  BY <1>2, FaultedType DEF Emissions, Speed
<1>4. out' \in Speed
  BY <1>1, <1>3 DEF Published, TypeOK
<1>5. reader' \in Reader
  BY <1>1, GateAssumption, RequestAssumption DEF NoReader, Reader
<1>6. retired' \in Gid
  BY <1>1 DEF TypeOK, Gate
<1> QED
  BY <1>1, <1>3, <1>4, <1>5, <1>6

LEMMA KeepInboxType ==
  ASSUME TypeOK, KeepInbox
  PROVE  inbox' \in Sample \cup {NoSample}
BY DEF TypeOK, KeepInbox

LEMMA AnswerType ==
  ASSUME NEW r \in Request, NEW code \in {"applied", "duplicate", "rejected", "faulted"},
         NEW why \in {"none", "stale", "refused"}, Answer(r, code, why)
  PROVE  reply' \in Reply
BY DEF Answer, Reply, Request

-----------------------------------------------------------------------------
(***************************************************************************)
(* Type correctness.                                                       *)
(***************************************************************************)
LEMMA InitType == Init => TypeOK
<1> SUFFICES ASSUME Init PROVE TypeOK
  OBVIOUS
<1>1. PICK x \in Emissions(FreshCore) : gate = x.gate /\ emit = x.cmd
  BY DEF Init
<1>2. x.gate \in Gate /\ x.cmd \in Speed \cup {"none"}
  <2>1. Output(FreshCore) \in Speed
    BY FreshCoreType DEF Output, Gate, Speed
  <2> QED
    BY <2>1, FreshCoreType, FaultedType DEF Emissions, Speed
<1>3. cache \in Seq(Entry) /\ Len(cache) <= CacheSize
  BY GateAssumption, RequestAssumption DEF Init
<1>4. home \in [Writer -> -1..MaxSeq]
  BY GateAssumption, RequestAssumption DEF Init
<1>5. reader \in Reader /\ opened \in [lease : 0..MaxSeq, writer : Gid]
  BY GateAssumption, RequestAssumption DEF Init, NoReader, Reader, Gid
<1>6. inst \in 1..MaxInstance /\ authAge \in 0..AuthorityTicks
      /\ candAge \in 0..FreshTicks
  BY GateAssumption, RequestAssumption DEF Init
<1>7. /\ inbox \in Sample \cup {NoSample} /\ source \in Sample \cup {NoSample}
      /\ retired \in Gid
      /\ job \in {NoJob} \cup PrepareJob \cup OpenJob
      /\ out \in Speed /\ reply \in Reply \cup {NoReply}
      /\ everBound \subseteq Writer /\ proof \in BOOLEAN
  BY DEF Init, Speed, Gid
<1> QED
  BY <1>1, <1>2, <1>3, <1>4, <1>5, <1>6, <1>7 DEF TypeOK

LEMMA RefuseType ==
  ASSUME TypeOK, NEW r \in Learnt, Refuse(r)
  PROVE  TypeOK'
<1> DEFINE g == Reconciled(gate)
           v == Verdict(g, r)
           first == CHOOSE i \in Cached(r) : TRUE
           code == IF v = "replay" THEN "duplicate" ELSE "rejected"
           why == IF v = "replay" THEN cache[first].why
                  ELSE IF v = "stale" THEN "stale" ELSE "refused"
<1>1. /\ Conclude(g, reader, retired)
      /\ cache' = IF v \in {"collision", "replay"} THEN cache ELSE Remember(r, why)
      /\ Answer(r, code, why)
      /\ proof' = (proof \/ ProvesZero(r, code))
      /\ KeepInbox
      /\ UNCHANGED <<inst, job, home, authAge, candAge, source, opened, everBound>>
  BY DEF Refuse
<1>2. why \in {"none", "stale", "refused"}
  <2>1. CASE v = "replay"
    <3>1. Cached(r) # {}
      BY <2>1 DEF Verdict, Replays
    <3>2. first \in DOMAIN cache
      BY <3>1 DEF Cached
    <3>3. cache[first] \in Entry
      BY <3>2 DEF TypeOK
    <3> QED
      BY <2>1, <3>3 DEF Entry
  <2> QED
    BY <2>1
<1>3. code \in {"applied", "duplicate", "rejected", "faulted"}
  OBVIOUS
<1>4. g \in Gate
  BY ReconciledType DEF TypeOK
<1> HIDE DEF g, v, code, why
<1>5. r \in Request
  BY LearntType
<1>6. cache' \in Seq(Entry) /\ Len(cache') <= CacheSize
  BY <1>1, <1>2, <1>5, RememberType DEF TypeOK
<1>7. /\ gate' \in Gate /\ emit' \in Speed \cup {"none"} /\ out' \in Speed
      /\ reader' \in Reader /\ retired' \in Gid
  BY <1>1, <1>4, ConcludeType DEF TypeOK
<1>8. inbox' \in Sample \cup {NoSample}
  BY <1>1, KeepInboxType
<1>9. reply' \in Reply
  BY <1>1, <1>2, <1>3, <1>5, AnswerType
<1>10. proof' \in BOOLEAN
  <2>1. CASE proof \/ ProvesZero(r, code)
    BY <1>1, <2>1
  <2>2. CASE ~(proof \/ ProvesZero(r, code))
    BY <1>1, <2>2
  <2> QED
    BY <2>1, <2>2
<1> QED
  BY <1>1, <1>6, <1>7, <1>8, <1>9, <1>10 DEF TypeOK

\* The verdict "fit" leaves the operations a core of their own state.
LEMMA InhibitType ==
  ASSUME TypeOK, NEW r \in Learnt, Inhibit(r)
  PROVE  TypeOK'
<1> DEFINE g == Reconciled(gate)
           h == IF g.state = "inhibited" THEN Advanced(g) ELSE Retired(g)
<1>1. /\ Conclude(h, reader, retired)
      /\ cache' = Remember(r, "none")
      /\ Answer(r, "applied", "none")
      /\ proof' = (proof \/ ProvesZero(r, "applied"))
      /\ KeepInbox
      /\ UNCHANGED <<inst, job, home, authAge, candAge, source, opened, everBound>>
  BY DEF Inhibit
<1>2. h \in Gate
  BY ReconciledType, AdvancedType, RetiredType DEF TypeOK
<1> HIDE DEF g, h
<1>3. r \in Request
  BY LearntType
<1>4. cache' \in Seq(Entry) /\ Len(cache') <= CacheSize
  BY <1>1, <1>3, RememberType DEF TypeOK
<1>5. /\ gate' \in Gate /\ emit' \in Speed \cup {"none"} /\ out' \in Speed
      /\ reader' \in Reader /\ retired' \in Gid
  BY <1>1, <1>2, ConcludeType DEF TypeOK
<1>6. inbox' \in Sample \cup {NoSample}
  BY <1>1, KeepInboxType
<1>7. reply' \in Reply
  BY <1>1, <1>3, AnswerType
<1>8. proof' \in BOOLEAN
  <2>1. CASE proof \/ ProvesZero(r, "applied")
    BY <1>1, <2>1
  <2>2. CASE ~(proof \/ ProvesZero(r, "applied"))
    BY <1>1, <2>2
  <2> QED
    BY <2>1, <2>2
<1> QED
  BY <1>1, <1>4, <1>5, <1>6, <1>7, <1>8 DEF TypeOK

LEMMA RenewType ==
  ASSUME TypeOK, NEW r \in Learnt, Renew(r)
  PROVE  TypeOK'
<1> DEFINE h == Renewed(Reconciled(gate))
<1>1. /\ Conclude(h, reader, retired)
      /\ cache' = Remember(r, "none")
      /\ Answer(r, "applied", "none")
      /\ authAge' = 0
      /\ KeepInbox
      /\ UNCHANGED <<inst, job, home, candAge, source, opened, everBound, proof>>
  BY DEF Renew
<1>2. h \in Gate
  BY ReconciledType, RenewedType DEF TypeOK
<1> HIDE DEF h
<1>3. r \in Request
  BY LearntType
<1>4. cache' \in Seq(Entry) /\ Len(cache') <= CacheSize
  BY <1>1, <1>3, RememberType DEF TypeOK
<1>5. /\ gate' \in Gate /\ emit' \in Speed \cup {"none"} /\ out' \in Speed
      /\ reader' \in Reader /\ retired' \in Gid
  BY <1>1, <1>2, ConcludeType DEF TypeOK
<1>6. inbox' \in Sample \cup {NoSample}
  BY <1>1, KeepInboxType
<1>7. reply' \in Reply
  BY <1>1, <1>3, AnswerType
<1>8. authAge' \in 0..AuthorityTicks
  BY <1>1, GateAssumption, RequestAssumption
<1> QED
  BY <1>1, <1>4, <1>5, <1>6, <1>7, <1>8 DEF TypeOK

LEMMA GrantType ==
  ASSUME TypeOK, NEW r \in Request, NEW waited \in Nat, Grant(r, waited)
  PROVE  TypeOK'
<1> DEFINE g == Prepared(Reconciled(gate), waited)
           rd == IF g.state = "faulted" THEN reader
                 ELSE [kind |-> "discard", lease |-> g.lease]
<1>1. /\ Conclude(g, rd, NoWriter)
      /\ cache' = Remember(r, "none")
      /\ Answer(r, "applied", "none")
      /\ job' = NoJob
      /\ proof' = FALSE
      /\ KeepInbox
      /\ UNCHANGED <<inst, home, authAge, candAge, source, opened, everBound>>
  BY DEF Grant
<1>2. g \in Gate
  BY ReconciledType, PreparedType DEF TypeOK
<1> HIDE DEF g
<1>3. rd \in Reader
  BY <1>2 DEF Reader, Gate, TypeOK
<1> HIDE DEF rd
<1>4. cache' \in Seq(Entry) /\ Len(cache') <= CacheSize
  BY <1>1, RememberType DEF TypeOK
<1>5. /\ gate' \in Gate /\ emit' \in Speed \cup {"none"} /\ out' \in Speed
      /\ reader' \in Reader /\ retired' \in Gid
  BY <1>1, <1>2, <1>3, ConcludeType DEF Gid
<1>6. inbox' \in Sample \cup {NoSample}
  BY <1>1, KeepInboxType
<1>7. reply' \in Reply
  BY <1>1, AnswerType
<1> QED
  BY <1>1, <1>4, <1>5, <1>6, <1>7 DEF TypeOK

\* The step of the blocked handler says which handler it is.
LEMMA JobType ==
  ASSUME TypeOK
  PROVE  /\ Preparing => job \in PrepareJob
         /\ job.step \in {"second", "third"} => job \in OpenJob
BY DEF TypeOK, Preparing, NoJob, PrepareJob, OpenJob

LEMMA PrepareWaitType ==
  ASSUME TypeOK,
         \/ \E r \in Learnt : PrepareBlocks(r)
         \/ PrepareZero
         \/ PrepareFails
         \/ PrepareTimesOut
  PROVE  TypeOK'
<1>1. ASSUME NEW r \in Learnt, PrepareBlocks(r) PROVE TypeOK'
  <2>1. r \in Request
    BY LearntType
  <2>2. job' \in PrepareJob
    BY <1>1, <2>1, GateAssumption, RequestAssumption DEF PrepareBlocks, PrepareJob
  <2> QED
    BY <1>1, <2>2 DEF PrepareBlocks, Quiet, TypeOK, history
<1>2. CASE PrepareZero
  BY <1>2 DEF PrepareZero, TypeOK, history, Speed
<1>3. CASE PrepareFails
  <2>1. job.req \in Request
    BY <1>3, JobType DEF PrepareFails, PrepareJob
  <2>2. gate' \in Gate
    BY <1>3, FaultedType DEF PrepareFails, TypeOK
  <2>3. emit' \in Speed \cup {"none"} /\ out' \in Speed
    BY <1>3 DEF PrepareFails, Published, TypeOK, Speed
  <2>4. cache' \in Seq(Entry) /\ Len(cache') <= CacheSize
    BY <1>3, <2>1, RememberType DEF PrepareFails, TypeOK
  <2>5. reply' \in Reply
    BY <1>3, <2>1, AnswerType DEF PrepareFails
  <2> QED
    BY <1>3, <2>2, <2>3, <2>4, <2>5 DEF PrepareFails, TypeOK, history
<1>4. CASE PrepareTimesOut
  <2>1. job.req \in Request
    BY <1>4, JobType DEF PrepareTimesOut, PrepareJob
  <2>2. cache' \in Seq(Entry) /\ Len(cache') <= CacheSize
    BY <1>4, <2>1, RememberType DEF PrepareTimesOut, TypeOK
  <2>3. /\ gate' \in Gate /\ emit' \in Speed \cup {"none"} /\ out' \in Speed
        /\ reader' \in Reader /\ retired' \in Gid
    BY <1>4, ConcludeType DEF PrepareTimesOut, TypeOK
  <2>4. inbox' \in Sample \cup {NoSample}
    BY <1>4, KeepInboxType DEF PrepareTimesOut
  <2>5. reply' \in Reply
    BY <1>4, <2>1, AnswerType DEF PrepareTimesOut
  <2> QED
    BY <1>4, <2>2, <2>3, <2>4, <2>5 DEF PrepareTimesOut, TypeOK, history
<1> QED
  BY <1>1, <1>2, <1>3, <1>4

LEMMA OpenBeginType ==
  ASSUME TypeOK, NEW r \in Learnt, OpenBegin(r)
  PROVE  TypeOK'
<1>1. r \in Request
  BY LearntType
<1>2. PICK w \in Writer : job' = [step |-> "second", req |-> r, first |-> w]
  BY DEF OpenBegin
<1>3. job' \in OpenJob
  BY <1>1, <1>2 DEF OpenJob
<1>4. reader' \in Reader
  BY DEF OpenBegin, Reader, TypeOK, Gate
<1> QED
  BY <1>3, <1>4 DEF OpenBegin, Quiet, TypeOK, history

\* OPEN refused at the first or at the second graph snapshot.
LEMMA OpenRefusedType ==
  ASSUME TypeOK, NEW r \in Request,
         Conclude(gate, reader, retired) \/ Conclude(Faulted(gate), reader, retired),
         cache' = Remember(r, "refused"), Answer(r, "rejected", "refused"),
         KeepInbox, job' \in {job, NoJob}, UNCHANGED <<inst, home, history>>
  PROVE  TypeOK'
<1>1. /\ gate' \in Gate /\ emit' \in Speed \cup {"none"} /\ out' \in Speed
      /\ reader' \in Reader /\ retired' \in Gid
  BY ConcludeType, FaultedType DEF TypeOK
<1>2. cache' \in Seq(Entry) /\ Len(cache') <= CacheSize
  BY RememberType DEF TypeOK
<1>3. inbox' \in Sample \cup {NoSample}
  BY KeepInboxType
<1>4. reply' \in Reply
  BY AnswerType
<1> QED
  BY <1>1, <1>2, <1>3, <1>4 DEF TypeOK, history

LEMMA OpenType ==
  ASSUME TypeOK,
         \/ \E r \in Learnt : OpenUnready(r)
         \/ OpenBinds
         \/ OpenUnbound
         \/ OpenCompletes
         \/ OpenBreaks
  PROVE  TypeOK'
<1>1. ASSUME NEW r \in Learnt, OpenUnready(r) PROVE TypeOK'
  <2>1. r \in Request
    BY LearntType
  <2> QED
    BY <1>1, <2>1, OpenRefusedType DEF OpenUnready
<1>2. CASE OpenBinds
  <2>1. job \in OpenJob
    BY <1>2, JobType DEF OpenBinds
  <2>2. job.req \in Request /\ job.first \in Writer
    BY <2>1 DEF OpenJob
  <2>3. gate' \in Gate
    BY <1>2, <2>2, BoundType DEF OpenBinds, TypeOK
  <2>4. reader' \in Reader /\ opened' \in [lease : 0..MaxSeq, writer : Gid]
    BY <1>2, <2>2 DEF OpenBinds, Reader, TypeOK, Gate, Gid
  <2>5. job' \in OpenJob
    BY <1>2, <2>1 DEF OpenBinds, OpenJob
  <2>6. cache' \in Seq(Entry) /\ Len(cache') <= CacheSize
    BY <1>2, <2>2, RememberType DEF OpenBinds, TypeOK
  <2>7. everBound' \subseteq Writer
    BY <1>2, <2>2 DEF OpenBinds, TypeOK
  <2> QED
    BY <1>2, <2>3, <2>4, <2>5, <2>6, <2>7 DEF OpenBinds, Quiet, TypeOK
<1>3. CASE OpenUnbound
  <2>1. job.req \in Request
    BY <1>3, JobType DEF OpenUnbound, OpenJob
  <2> QED
    BY <1>3, <2>1, OpenRefusedType DEF OpenUnbound
<1>4. CASE OpenCompletes
  <2>1. job.req \in Request
    BY <1>4, JobType DEF OpenCompletes, OpenJob
  <2>2. ArmedWindow(gate) \in Gate
    BY ArmedWindowType DEF TypeOK
  <2>3. /\ gate' \in Gate /\ emit' \in Speed \cup {"none"} /\ out' \in Speed
        /\ reader' \in Reader /\ retired' \in Gid
    BY <1>4, <2>2, ConcludeType DEF OpenCompletes, TypeOK
  <2>4. inbox' \in Sample \cup {NoSample}
    BY <1>4, KeepInboxType DEF OpenCompletes
  <2>5. reply' \in Reply
    BY <1>4, <2>1, AnswerType DEF OpenCompletes
  <2>6. authAge' \in 0..AuthorityTicks
    BY <1>4, GateAssumption, RequestAssumption DEF OpenCompletes
  <2> QED
    BY <1>4, <2>3, <2>4, <2>5, <2>6 DEF OpenCompletes, TypeOK
<1>5. CASE OpenBreaks
  <2>1. job.req \in Request
    BY <1>5, JobType DEF OpenBreaks, OpenJob
  <2>2. Faulted(gate) \in Gate /\ NoReader \in Reader
    BY FaultedType, GateAssumption, RequestAssumption DEF TypeOK, NoReader, Reader
  <2>3. /\ gate' \in Gate /\ emit' \in Speed \cup {"none"} /\ out' \in Speed
        /\ reader' \in Reader /\ retired' \in Gid
    BY <1>5, <2>2, ConcludeType DEF OpenBreaks, TypeOK
  <2>4. inbox' \in Sample \cup {NoSample}
    BY <1>5, KeepInboxType DEF OpenBreaks
  <2>5. reply' \in Reply
    BY <1>5, <2>1, AnswerType DEF OpenBreaks
  <2> QED
    BY <1>5, <2>3, <2>4, <2>5 DEF OpenBreaks, TypeOK, history
<1> QED
  BY <1>1, <1>2, <1>3, <1>4, <1>5

\* accept_candidate, the discard-only reader and the output timer.
LEMMA CandidateType ==
  ASSUME TypeOK, OnCandidate \/ Discard \/ OnOutputTimer
  PROVE  TypeOK'
<1>1. CASE OnCandidate
  <2> DEFINE h == Accepted(Reconciled(gate), reader.lease, inbox)
             taken == h.state = "armed" /\ h.fresh
  <2>1. inbox \in Sample
    BY <1>1 DEF OnCandidate, TypeOK
  <2>2. h \in Gate
    BY <2>1, ReconciledType, AcceptedType DEF TypeOK
  <2>3. /\ Conclude(h, reader, retired)
        /\ inbox' = NoSample
        /\ candAge' = IF taken THEN 0 ELSE candAge
        /\ source' = IF taken THEN inbox ELSE source
        /\ reply' = NoReply
        /\ UNCHANGED <<inst, cache, job, home, authAge, opened, everBound, proof>>
    BY <1>1 DEF OnCandidate
  <2> HIDE DEF h, taken
  <2>4. /\ gate' \in Gate /\ emit' \in Speed \cup {"none"} /\ out' \in Speed
        /\ reader' \in Reader /\ retired' \in Gid
    BY <2>2, <2>3, ConcludeType DEF TypeOK
  <2>5. candAge' \in 0..FreshTicks /\ source' \in Sample \cup {NoSample}
    BY <2>1, <2>3, GateAssumption, RequestAssumption DEF TypeOK
  <2> QED
    BY <2>3, <2>4, <2>5 DEF TypeOK
<1>2. CASE Discard
  BY <1>2 DEF Discard, Quiet, TypeOK, history
<1>3. CASE OnOutputTimer
  <2>1. Reconciled(gate) \in Gate
    BY ReconciledType DEF TypeOK
  <2>2. /\ gate' \in Gate /\ emit' \in Speed \cup {"none"} /\ out' \in Speed
        /\ reader' \in Reader /\ retired' \in Gid
    BY <1>3, <2>1, ConcludeType DEF OnOutputTimer, TypeOK
  <2>3. inbox' \in Sample \cup {NoSample}
    BY <1>3, KeepInboxType DEF OnOutputTimer
  <2> QED
    BY <1>3, <2>2, <2>3 DEF OnOutputTimer, TypeOK, history
<1> QED
  BY <1>1, <1>2, <1>3

\* Endpoints come and go and publish.
LEMMA GraphType ==
  ASSUME TypeOK, NEW w \in Writer,
         \/ WriterAppears(w)
         \/ WriterDisappears(w)
         \/ \E kind \in {"zero", "moving", "bad"} : WriterPublishes(w, kind)
  PROVE  TypeOK'
<1>1. CASE WriterAppears(w)
  <2>1. home' \in [Writer -> -1..MaxSeq]
    BY <1>1, GateAssumption, RequestAssumption DEF WriterAppears, TypeOK, Gate
  <2> QED
    BY <1>1, <2>1 DEF WriterAppears, Quiet, TypeOK, history
<1>2. CASE WriterDisappears(w)
  <2>1. home' \in [Writer -> -1..MaxSeq]
    BY <1>2, GateAssumption, RequestAssumption DEF WriterDisappears, TypeOK
  <2> QED
    BY <1>2, <2>1 DEF WriterDisappears, Quiet, TypeOK, history
<1>3. ASSUME NEW kind \in {"zero", "moving", "bad"}, WriterPublishes(w, kind)
      PROVE  TypeOK'
  <2>1. inbox' \in Sample
    BY <1>3, GateAssumption, RequestAssumption DEF WriterPublishes, Sample, TypeOK, Gate
  <2> QED
    BY <1>3, <2>1 DEF WriterPublishes, Quiet, TypeOK, history
<1> QED
  BY <1>1, <1>2, <1>3

\* Deadlines run down to zero, ages and waits up to their caps.
LEMMA TimeType ==
  ASSUME TypeOK, TimePasses
  PROVE  TypeOK'
<1> DEFINE p == [gate EXCEPT !.prepareLeft = Down(@), !.authorityLeft = Down(@),
                             !.freshLeft = Down(@)]
<1>1. p = [x \in Field |-> p[x]]
  BY DEF TypeOK, Gate, Field
<1>2. /\ p.state = gate.state /\ p.seq = gate.seq /\ p.lease = gate.lease
      /\ p.bound = gate.bound /\ p.cmd = gate.cmd /\ p.fresh = gate.fresh
      /\ p.prepareLeft = Down(gate.prepareLeft)
      /\ p.authorityLeft = Down(gate.authorityLeft)
      /\ p.freshLeft = Down(gate.freshLeft)
  BY DEF TypeOK, Gate
<1>3. /\ gate.state \in {"inhibited", "prepared", "armed", "faulted"}
      /\ gate.seq \in 0..MaxSeq /\ gate.lease \in 0..MaxSeq
      /\ gate.bound \in Gid /\ gate.cmd \in Speed /\ gate.fresh \in BOOLEAN
  BY DEF TypeOK, Gate
<1>4. /\ Down(gate.prepareLeft) \in 0..PrepareTicks
      /\ Down(gate.authorityLeft) \in 0..AuthorityTicks
      /\ Down(gate.freshLeft) \in 0..FreshTicks
  BY GateAssumption, RequestAssumption DEF TypeOK, Gate, Down
<1>5. gate' = p
  BY DEF TimePasses
<1> HIDE DEF p
<1>6. gate' \in Gate
  BY <1>1, <1>2, <1>3, <1>4, <1>5, GateByField
<1>7. authAge' \in 0..AuthorityTicks /\ candAge' \in 0..FreshTicks
  BY GateAssumption, RequestAssumption DEF TimePasses, TypeOK, Up
<1>8. job' \in {NoJob} \cup PrepareJob \cup OpenJob
  <2>1. CASE Preparing
    BY <2>1, JobType, GateAssumption, RequestAssumption DEF TimePasses, PrepareJob, Up
  <2>2. CASE ~Preparing
    BY <2>2 DEF TimePasses, TypeOK
  <2> QED
    BY <2>1, <2>2
<1> QED
  BY <1>6, <1>7, <1>8 DEF TimePasses, Quiet, TypeOK

\* A new process starts from the state of the constructor.
LEMMA RestartType ==
  ASSUME TypeOK, Restart
  PROVE  TypeOK'
<1>1. inst < MaxInstance /\ Start(inst + 1)
  BY DEF Restart
<1>2. PICK x \in Emissions(FreshCore) :
        gate' = x.gate /\ emit' = x.cmd /\ Published(x.cmd)
  BY <1>1 DEF Start
<1>3. x.gate \in Gate /\ x.cmd \in Speed \cup {"none"}
  <2>1. Output(FreshCore) \in Speed
    BY FreshCoreType DEF Output, Gate, Speed
  <2> QED
    BY <2>1, FreshCoreType, FaultedType DEF Emissions, Speed
<1>4. out' \in Speed
  BY <1>2, <1>3 DEF Published, TypeOK
<1>5. cache' \in Seq(Entry) /\ Len(cache') <= CacheSize
  BY <1>1, GateAssumption, RequestAssumption DEF Start
<1>6. home' \in [Writer -> -1..MaxSeq]
  BY <1>1, GateAssumption, RequestAssumption DEF Start
<1>7. reader' \in Reader /\ opened' \in [lease : 0..MaxSeq, writer : Gid]
  BY <1>1, GateAssumption, RequestAssumption DEF Start, NoReader, Reader, Gid
<1>8. inst' \in 1..MaxInstance /\ authAge' \in 0..AuthorityTicks
      /\ candAge' \in 0..FreshTicks
  BY <1>1, GateAssumption, RequestAssumption DEF Start, TypeOK
<1>9. /\ inbox' \in Sample \cup {NoSample} /\ source' \in Sample \cup {NoSample}
      /\ retired' \in Gid
      /\ job' \in {NoJob} \cup PrepareJob \cup OpenJob
      /\ reply' \in Reply \cup {NoReply}
      /\ everBound' \subseteq Writer /\ proof' \in BOOLEAN
  BY <1>1 DEF Start, TypeOK, Gid
<1> QED
  BY <1>2, <1>3, <1>4, <1>5, <1>6, <1>7, <1>8, <1>9 DEF TypeOK

LEMMA NextType == TypeOK /\ [Next]_vars => TypeOK'
<1> SUFFICES ASSUME TypeOK, [Next]_vars PROVE TypeOK'
  OBVIOUS
<1>1. CASE OnControl
  <2>1. PICK r \in Learnt :
          \/ Refuse(r) \/ Inhibit(r) \/ Renew(r) \/ Prepare(r)
          \/ PrepareBlocks(r) \/ OpenBegin(r) \/ OpenUnready(r)
    BY <1>1 DEF OnControl
  <2>2. CASE Prepare(r)
    BY <2>2, LearntType, GrantType DEF Prepare
  <2> QED
    BY <2>1, <2>2, RefuseType, InhibitType, RenewType, PrepareWaitType,
       OpenBeginType, OpenType
<1>2. CASE Blocked
  <2>1. CASE PrepareResumes
    <3>1. job.req \in Request /\ job.waited \in Nat
      BY <2>1, JobType, GateAssumption, RequestAssumption DEF PrepareResumes, PrepareJob
    <3> QED
      BY <2>1, <3>1, GrantType DEF PrepareResumes
  <2> QED
    BY <1>2, <2>1, PrepareWaitType, OpenType DEF Blocked
<1>3. CASE OnCandidate \/ Discard \/ OnOutputTimer
  BY <1>3, CandidateType
<1>4. CASE Graph
  BY <1>4, GraphType DEF Graph
<1>5. CASE TimePasses
  BY <1>5, TimeType
<1>6. CASE Restart
  BY <1>6, RestartType
<1>7. CASE UNCHANGED vars
  BY <1>7 DEF vars, history, TypeOK
<1> QED
  BY <1>1, <1>2, <1>3, <1>4, <1>5, <1>6, <1>7 DEF Next

\* Every state of the Gate is well typed: the control sequence stays within its
\* limit and the request cache within request_cache_size, for every limit.
THEOREM TypeCorrect == Spec => []TypeOK
<1>1. Init => TypeOK
  BY InitType
<1>2. TypeOK /\ [Next]_vars => TypeOK'
  BY NextType
<1> QED
  BY <1>1, <1>2, PTL DEF Spec
=============================================================================
