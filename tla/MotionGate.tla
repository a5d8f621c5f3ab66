----------------------------- MODULE MotionGate -----------------------------
(***************************************************************************)
(* motion_gate_core.cpp and the handlers of motion_gate_node.cpp: the only *)
(* publisher of wheel commands.  One executor thread serves control        *)
(* requests, candidate samples and a 20 ms output timer.  PREPARE and OPEN *)
(* block that thread while they look at the ROS graph: job says how far    *)
(* the blocked handler is, and only time and the writers of candidate      *)
(* topics act meanwhile.                                                   *)
(*                                                                         *)
(* A deadline is the number of ticks left to it.  A candidate topic is the *)
(* lease it belongs to.                                                    *)
(***************************************************************************)
EXTENDS GateRequests, FiniteSets

CONSTANTS
  Writer,          \* DDS endpoints that may write candidates
  NoWriter,        \* the all-zero GID
  Lag,             \* how many operations a client's tuple may be behind
  PrepareTicks,    \* prepare_timeout
  AuthorityTicks,  \* authority_lease
  FreshTicks,      \* candidate_freshness
  GraphTicks       \* writer_graph_timeout

\* config_is_valid, and what the identifiers stand for.
ASSUME GateAssumption ==
  /\ Lag \in Nat
  /\ PrepareTicks \in Nat \ {0}
  /\ FreshTicks \in Nat \ {0}
  /\ AuthorityTicks \in Nat
  /\ FreshTicks < AuthorityTicks
  /\ GraphTicks \in Nat
  /\ NoWriter \notin Writer

VARIABLES
  gate,     \* the private members of MotionGateCore
  reader,   \* candidate_subscription_
  inbox,    \* the KEEP_LAST(1) queue of that subscription
  retired,  \* retired_writer_gid_
  job,      \* the control handler that blocks the executor
  home,     \* which candidate topic each writer endpoint is on
  out,      \* the command the wheel controller last received
  emit,     \* the command this step published, if any
  reply     \* the response this step sent, if any

\* History variables, which no action reads.
VARIABLES
  authAge,  \* ticks since authority was last opened or renewed
  candAge,  \* ticks since a candidate was last accepted
  source,   \* the candidate last accepted
  opened,   \* the lease last armed and the writer bound to it
  everBound,\* the writers this Gate process ever bound
  proof     \* an INHIBIT was answered with a proof of zero, no PREPARE since

history == <<authAge, candAge, source, opened, everBound, proof>>
vars == <<inst, gate, cache, reader, inbox, retired, job, home, out, emit,
          reply, history>>

-----------------------------------------------------------------------------
Speed == {"zero", "moving"}
Gid == Writer \cup {NoWriter}

Gate ==
  [state : {"inhibited", "prepared", "armed", "faulted"},
   seq : 0..MaxSeq, lease : 0..MaxSeq, bound : Gid,
   cmd : Speed, fresh : BOOLEAN,
   prepareLeft : 0..PrepareTicks, authorityLeft : 0..AuthorityTicks,
   freshLeft : 0..FreshTicks]

\* born is the lease that was armed when the sample was published, else 0.
Sample == [writer : Writer, kind : {"zero", "moving", "bad"}, born : 0..MaxSeq]
NoSample == [writer |-> NoWriter, kind |-> "none", born |-> 0]

Reader == [kind : {"none", "discard", "accept"}, lease : 0..MaxSeq]
NoReader == [kind |-> "none", lease |-> 0]

\* Where the blocked handler is: PREPARE waiting for the retired writer,
\* OPEN between its first and second, or second and third graph snapshot.
NoJob == [step |-> "idle"]
PrepareJob == [step : {"prepare"}, req : Request, waited : 0..PrepareTicks + GraphTicks]
OpenJob == [step : {"second", "third"}, req : Request, first : Writer]

Idle == job = NoJob

-----------------------------------------------------------------------------
(***************************************************************************)
(* The core: what its private helpers make of its members.                 *)
(***************************************************************************)
\* No lease, no writer, no command.
Closed(state, seq) ==
  [state |-> state, seq |-> seq, lease |-> 0, bound |-> NoWriter,
   cmd |-> "zero", fresh |-> FALSE,
   prepareLeft |-> 0, authorityLeft |-> 0, freshLeft |-> 0]

FreshCore == Closed("inhibited", 0)

\* advance_control_seq at its limit: the Gate faults with the sequence it has.
Exhausted == Closed("faulted", MaxSeq)

Advanced(g) == IF g.seq = MaxSeq THEN Exhausted ELSE [g EXCEPT !.seq = @ + 1]

\* Mutant of Retired: the lease ends without a new control sequence.
RetiredInPlace(g) == Closed("inhibited", g.seq)

\* retire_lease of a prepared or armed lease.
Retired(g) ==
  IF g.seq = MaxSeq THEN Exhausted ELSE Closed("inhibited", g.seq + 1)

\* Mutant of Expired: the candidate has no deadline of its own.
ExpiredAuthorityOnly(g) ==
  \/ g.state = "prepared" /\ g.prepareLeft = 0
  \/ g.state = "armed" /\ g.authorityLeft = 0

Expired(g) ==
  \/ g.state = "prepared" /\ g.prepareLeft = 0
  \/ g.state = "armed" /\ g.authorityLeft = 0
  \/ g.state = "armed" /\ g.fresh /\ g.freshLeft = 0

\* reconcile_deadlines: every entry point of the core starts with it.
Reconciled(g) == IF Expired(g) THEN Retired(g) ELSE g

\* force_fault: latched, and a later fault changes nothing.
Faulted(g) ==
  IF g.state = "faulted" THEN g
  ELSE Closed("faulted", IF g.seq = MaxSeq THEN MaxSeq ELSE g.seq + 1)

\* start_armed_window, also the members OPEN leaves behind.
ArmedWindow(g) ==
  [g EXCEPT !.prepareLeft = 0, !.authorityLeft = AuthorityTicks,
            !.freshLeft = 0, !.fresh = FALSE, !.cmd = "zero"]

\* The command tick returns once the deadlines are reconciled.
Output(g) == IF g.state = "armed" /\ g.fresh THEN g.cmd ELSE "zero"

-----------------------------------------------------------------------------
(***************************************************************************)
(* The publication barrier every handler ends with.  The selected command  *)
(* is published, a zero in its place if that throws, then the Gate state,  *)
(* and another zero if that throws.  A lost simulation clock, an exhausted *)
(* output sequence and every exception fault the core; what the controller *)
(* last received is then the command, a zero, or nothing new.              *)
(***************************************************************************)
Emissions(g) ==
  {[gate |-> g, cmd |-> Output(g)]}
    \cup {[gate |-> Faulted(g), cmd |-> c] : c \in {"zero", "none", Output(g)}}

\* Mutant of Published: a zero is not worth a publication.
PublishedMoving(cmd) == out' = IF cmd = "moving" THEN cmd ELSE out

Published(cmd) == out' = IF cmd = "none" THEN out ELSE cmd

\* reconcile_adapter_transition: the generation of g ended on the way to h.
ArmedEnded(g, h) ==
  g.state = "armed" /\ (h.state # "armed" \/ h.lease # g.lease)
\* Mutant of PreparedEnded: only an armed generation drops its reader.
PreparedNeverEnds(g, h) == FALSE

PreparedEnded(g, h) ==
  g.state = "prepared" /\ h.state \notin {"prepared", "armed"}
Ended(g, h) == ArmedEnded(g, h) \/ PreparedEnded(g, h)

KeepInbox == inbox' = IF reader' = reader THEN inbox ELSE NoSample

\* A handler that leaves the core at g and the candidate reader at rd, with
\* rt the retired writer it has to wait for, ends through the barrier.
Conclude(g, rd, rt) ==
  \E x \in Emissions(g) :
    /\ gate' = x.gate
    /\ emit' = x.cmd
    /\ Published(x.cmd)
    /\ reader' = IF Ended(gate, g) \/ Ended(g, x.gate) THEN NoReader ELSE rd
    /\ retired' = IF ArmedEnded(gate, x.gate) THEN gate.bound ELSE rt

\* on_control answers with the state after the barrier: a Gate that faulted
\* on the way says so whatever the operation came to.
Answer(r, code, why) ==
  reply' = [id |-> r.id, op |-> r.op, why |-> why,
            code |-> IF gate'.state = "faulted" THEN "faulted" ELSE code]

\* Mutant of ProvesZero: the zero published is proof enough.
ProvesZeroByOutput(r, code) ==
  r.op = "inhibit" /\ code \in {"applied", "duplicate"} /\ emit' = "zero"

\* inhibit_result_proves_zero on the response to the caller: inhibited, zero
\* selected, and zero published.
ProvesZero(r, code) ==
  /\ r.op = "inhibit"
  /\ code \in {"applied", "duplicate"}
  /\ gate'.state = "inhibited"
  /\ emit' = "zero"

Quiet == emit' = "none" /\ reply' = NoReply

-----------------------------------------------------------------------------
(***************************************************************************)
(* Control requests.                                                       *)
(***************************************************************************)

\* A request that takes no effect: collision, replay, stale or refused.
Refuse(r) ==
  LET g == Reconciled(gate)
      v == Verdict(g, r)
      first == CHOOSE i \in Cached(r) : TRUE
      code == IF v = "replay" THEN "duplicate" ELSE "rejected"
      why == IF v = "replay" THEN cache[first].why
             ELSE IF v = "stale" THEN "stale" ELSE "refused"
  IN
  /\ Idle
  /\ v # "fit"
  /\ Conclude(g, reader, retired)
  /\ cache' = IF v \in {"collision", "replay"} THEN cache ELSE Remember(r, why)
  /\ Answer(r, code, why)
  /\ proof' = (proof \/ ProvesZero(r, code))
  /\ KeepInbox
  /\ UNCHANGED <<inst, job, home, authAge, candAge, source, opened, everBound>>

\* INHIBIT: closes the current lease, or reasserts zero when there is none.
Inhibit(r) ==
  LET g == Reconciled(gate)
      h == IF g.state = "inhibited" THEN Advanced(g) ELSE Retired(g)
  IN
  /\ Idle
  /\ r.op = "inhibit"
  /\ Verdict(g, r) = "fit"
  /\ Conclude(h, reader, retired)
  /\ cache' = Remember(r, "none")
  /\ Answer(r, "applied", "none")
  /\ proof' = (proof \/ ProvesZero(r, "applied"))
  /\ KeepInbox
  /\ UNCHANGED <<inst, job, home, authAge, candAge, source, opened, everBound>>

\* Mutant of Renewed: a renewal is no new control sequence.
RenewedInPlace(g) == [g EXCEPT !.authorityLeft = AuthorityTicks]

\* RENEW: restarts the authority deadline, never the candidate's.
Renewed(g) ==
  LET h == Advanced(g)
  IN  IF h.state = "faulted" THEN h ELSE [h EXCEPT !.authorityLeft = AuthorityTicks]

Renew(r) ==
  LET g == Reconciled(gate) IN
  /\ Idle
  /\ r.op = "renew"
  /\ Verdict(g, r) = "fit"
  /\ Conclude(Renewed(g), reader, retired)
  /\ cache' = Remember(r, "none")
  /\ Answer(r, "applied", "none")
  /\ authAge' = 0
  /\ KeepInbox
  /\ UNCHANGED <<inst, job, home, candAge, source, opened, everBound, proof>>

-----------------------------------------------------------------------------
(***************************************************************************)
(* PREPARE: no writer of the previous lease may remain on the graph.  While *)
(* one does, the handler blocks and publishes a zero every 20 ms.          *)
(***************************************************************************)
\* Mutant of RetiredPresent: the retired writer is looked for on the topic of
\* the current lease.
RetiredPresentHere == retired # NoWriter /\ home[retired] = gate.lease

RetiredPresent == retired # NoWriter /\ home[retired] > 0

\* A new lease with a discard-only reader; the prepare deadline counts from
\* the arrival of the request, waited ticks ago.  A reader that cannot be
\* created faults the core before the barrier: one of its faulted outcomes.
Prepared(g, waited) ==
  LET h == Advanced(g)
  IN  IF h.state = "faulted" THEN h
      ELSE [h EXCEPT !.state = "prepared", !.lease = h.seq,
                     !.prepareLeft = IF waited < PrepareTicks
                                     THEN PrepareTicks - waited ELSE 0]

Grant(r, waited) ==
  LET g == Prepared(Reconciled(gate), waited)
      rd == IF g.state = "faulted" THEN reader
            ELSE [kind |-> "discard", lease |-> g.lease]
  IN
  /\ ~RetiredPresent
  /\ Conclude(g, rd, NoWriter)
  /\ cache' = Remember(r, "none")
  /\ Answer(r, "applied", "none")
  /\ job' = NoJob
  /\ proof' = FALSE
  /\ KeepInbox
  /\ UNCHANGED <<inst, home, authAge, candAge, source, opened, everBound>>

Prepare(r) ==
  /\ Idle
  /\ r.op = "prepare"
  /\ Verdict(Reconciled(gate), r) = "fit"
  /\ Grant(r, 0)

PrepareBlocks(r) ==
  /\ Idle
  /\ r.op = "prepare"
  /\ Verdict(Reconciled(gate), r) = "fit"
  /\ RetiredPresent
  /\ job' = [step |-> "prepare", req |-> r, waited |-> 0]
  /\ Quiet
  /\ UNCHANGED <<inst, gate, cache, reader, inbox, retired, home, out, history>>

Preparing == job.step = "prepare"

PrepareResumes == Preparing /\ Grant(job.req, job.waited)

\* The zero of the wait; if it cannot be published the provider throws.
PrepareZero ==
  /\ Preparing
  /\ RetiredPresent
  /\ emit' = "zero"
  /\ out' = "zero"
  /\ reply' = NoReply
  /\ UNCHANGED <<inst, gate, cache, reader, inbox, retired, job, home, history>>

PrepareFails ==
  /\ Preparing
  /\ RetiredPresent
  /\ gate' = Faulted(gate)
  /\ \E c \in {"zero", "none"} : emit' = c /\ Published(c)
  /\ cache' = Remember(job.req, "refused")
  /\ Answer(job.req, "faulted", "refused")
  /\ job' = NoJob
  /\ UNCHANGED <<inst, reader, inbox, retired, home, history>>

PrepareTimesOut ==
  /\ Preparing
  /\ RetiredPresent
  /\ job.waited >= GraphTicks
  /\ Conclude(gate, reader, retired)
  /\ cache' = Remember(job.req, "refused")
  /\ Answer(job.req, "rejected", "refused")
  /\ job' = NoJob
  /\ KeepInbox
  /\ UNCHANGED <<inst, home, history>>

-----------------------------------------------------------------------------
(***************************************************************************)
(* OPEN: three graph snapshots that must show the same single writer, with *)
(* the discard-only readers A and B between them and the accepting reader  *)
(* C created once the core is armed with zero selected.                    *)
(***************************************************************************)
WritersOn(lease) == {w \in Writer : home[w] = lease}
OnlyWriter(w, lease) == WritersOn(lease) = {w}

\* Snapshot 1 is ready: reader A and its queue give way to reader B.
OpenBegin(r) ==
  LET g == Reconciled(gate) IN
  /\ Idle
  /\ r.op = "open"
  /\ Verdict(g, r) = "fit"
  /\ \E w \in Writer :
       /\ OnlyWriter(w, gate.lease)
       /\ job' = [step |-> "second", req |-> r, first |-> w]
  /\ reader' = [kind |-> "discard", lease |-> gate.lease]
  /\ inbox' = NoSample
  /\ Quiet
  /\ UNCHANGED <<inst, gate, cache, retired, home, out, history>>

\* No single writer with complete metadata, or no healthy controller, before
\* the graph deadline of snapshot 1; or a provider that throws.
OpenUnready(r) ==
  /\ Idle
  /\ r.op = "open"
  /\ Verdict(Reconciled(gate), r) = "fit"
  /\ \/ Conclude(gate, reader, retired)
     \/ Conclude(Faulted(gate), reader, retired)
  /\ cache' = Remember(r, "refused")
  /\ Answer(r, "rejected", "refused")
  /\ KeepInbox
  /\ UNCHANGED <<inst, job, home, history>>

\* Snapshot 2 shows the same writer: the core is armed at once, and reader C
\* replaces reader B.
Bound(g, w) ==
  LET h == Advanced(g)
  IN  IF h.state = "faulted" THEN h
      ELSE ArmedWindow([h EXCEPT !.state = "armed", !.bound = w])

OpenBinds ==
  /\ job.step = "second"
  /\ OnlyWriter(job.first, gate.lease)
  /\ gate.seq < MaxSeq
  /\ gate' = Bound(gate, job.first)
  /\ reader' = [kind |-> "accept", lease |-> gate.lease]
  /\ inbox' = NoSample
  /\ job' = [job EXCEPT !.step = "third"]
  /\ cache' = Remember(job.req, "none")
  /\ opened' = [lease |-> gate.lease, writer |-> job.first]
  /\ everBound' = everBound \cup {job.first}
  /\ Quiet
  /\ UNCHANGED <<inst, retired, home, out, authAge, candAge, source, proof>>

\* Snapshot 2 shows another writer, none or several; the provider throws; or
\* the control sequence is exhausted.
OpenUnbound ==
  /\ job.step = "second"
  /\ \/ Conclude(gate, reader, retired)
     \/ Conclude(Faulted(gate), reader, retired)
  /\ cache' = Remember(job.req, "refused")
  /\ Answer(job.req, "rejected", "refused")
  /\ job' = NoJob
  /\ KeepInbox
  /\ UNCHANGED <<inst, home, history>>

\* Snapshot 3 shows the same writer and a healthy controller: the windows of
\* the new lease start now, and only now is the request answered.
OpenCompletes ==
  /\ job.step = "third"
  /\ OnlyWriter(job.first, gate.lease)
  /\ Conclude(ArmedWindow(gate), reader, retired)
  /\ Answer(job.req, "applied", "none")
  /\ job' = NoJob
  /\ authAge' = 0
  /\ KeepInbox
  /\ UNCHANGED <<inst, cache, home, candAge, source, opened, everBound, proof>>

\* Anything else latches a fault and drops reader C.
OpenBreaks ==
  /\ job.step = "third"
  /\ Conclude(Faulted(gate), NoReader, retired)
  /\ Answer(job.req, "faulted", "refused")
  /\ job' = NoJob
  /\ KeepInbox
  /\ UNCHANGED <<inst, cache, home, history>>

-----------------------------------------------------------------------------
(***************************************************************************)
(* Candidates, the output timer, time, the graph and the process.          *)
(***************************************************************************)

\* accept_candidate for a sample of the reader created for lease.
Accepted(g, lease, s) ==
  IF g.state # "armed" \/ lease # g.lease THEN g
  ELSE IF s.writer # g.bound \/ s.kind = "bad" THEN Retired(g)
  ELSE [g EXCEPT !.cmd = s.kind, !.fresh = TRUE, !.freshLeft = FreshTicks]

OnCandidate ==
  LET g == Reconciled(gate)
      h == Accepted(g, reader.lease, inbox)
      taken == h.state = "armed" /\ h.fresh
  IN
  /\ Idle
  /\ reader.kind = "accept"
  /\ inbox # NoSample
  /\ Conclude(h, reader, retired)
  /\ inbox' = NoSample
  /\ candAge' = IF taken THEN 0 ELSE candAge
  /\ source' = IF taken THEN inbox ELSE source
  /\ reply' = NoReply
  /\ UNCHANGED <<inst, cache, job, home, authAge, opened, everBound, proof>>

\* The discard-only reader empties its queue and tells the core nothing.
Discard ==
  /\ Idle
  /\ reader.kind = "discard"
  /\ inbox # NoSample
  /\ inbox' = NoSample
  /\ Quiet
  /\ UNCHANGED <<inst, gate, cache, reader, retired, job, home, out, history>>

\* Mutant of OnOutputTimer: the deadlines are left to the other handlers.
OnOutputTimerStale ==
  /\ Idle
  /\ Conclude(gate, reader, retired)
  /\ KeepInbox
  /\ reply' = NoReply
  /\ UNCHANGED <<inst, cache, job, home, history>>

OnOutputTimer ==
  /\ Idle
  /\ Conclude(Reconciled(gate), reader, retired)
  /\ KeepInbox
  /\ reply' = NoReply
  /\ UNCHANGED <<inst, cache, job, home, history>>

\* A writer appears on the topic PREPARE returned, once: a recreated endpoint
\* has another GID.
WriterAppears(w) ==
  /\ home[w] = 0
  /\ gate.lease # 0
  /\ home' = [home EXCEPT ![w] = gate.lease]
  /\ Quiet
  /\ UNCHANGED <<inst, gate, cache, reader, inbox, retired, job, out, history>>

WriterDisappears(w) ==
  /\ home[w] > 0
  /\ home' = [home EXCEPT ![w] = -1]
  /\ Quiet
  /\ UNCHANGED <<inst, gate, cache, reader, inbox, retired, job, out, history>>

\* A volatile writer's sample reaches the reader matched when it is written,
\* replacing the one queued there; a lost sample is no step.
WriterPublishes(w, kind) ==
  /\ home[w] > 0
  /\ reader.kind # "none"
  /\ reader.lease = home[w]
  /\ inbox' = [writer |-> w, kind |-> kind,
               born |-> IF gate.state = "armed" THEN gate.lease ELSE 0]
  /\ Quiet
  /\ UNCHANGED <<inst, gate, cache, reader, retired, job, home, out, history>>

Down(t) == IF t = 0 THEN 0 ELSE t - 1
Up(t, top) == IF t < top THEN t + 1 ELSE top

\* A tick of the steady clock; ages and waits saturate.
TimePasses ==
  /\ gate' = [gate EXCEPT !.prepareLeft = Down(@), !.authorityLeft = Down(@),
                          !.freshLeft = Down(@)]
  /\ authAge' = Up(authAge, AuthorityTicks)
  /\ candAge' = Up(candAge, FreshTicks)
  /\ job' = IF Preparing
            THEN [job EXCEPT !.waited = Up(@, PrepareTicks + GraphTicks)] ELSE job
  /\ Quiet
  /\ UNCHANGED <<inst, cache, reader, inbox, retired, home, out, source, opened,
                 everBound, proof>>

\* The constructor publishes a zero before the node serves anything.
Start(n) ==
  /\ inst' = n
  /\ \E x \in Emissions(FreshCore) :
       gate' = x.gate /\ emit' = x.cmd /\ Published(x.cmd)
  /\ cache' = <<>> /\ reader' = NoReader /\ inbox' = NoSample
  /\ retired' = NoWriter /\ job' = NoJob /\ reply' = NoReply
  /\ home' = [w \in Writer |-> 0]
  /\ authAge' = AuthorityTicks /\ candAge' = FreshTicks
  /\ source' = NoSample
  /\ opened' = [lease |-> 0, writer |-> NoWriter] /\ everBound' = {}
  /\ UNCHANGED proof

\* The process dies anywhere and a new one starts; the writers of the old
\* topics stay on topics the new one never reads.
Restart == inst < MaxInstance /\ Start(inst + 1)

Init ==
  /\ inst = 1
  /\ \E x \in Emissions(FreshCore) : gate = x.gate /\ emit = x.cmd
  /\ out = "zero"
  /\ cache = <<>> /\ reader = NoReader /\ inbox = NoSample
  /\ retired = NoWriter /\ job = NoJob /\ reply = NoReply
  /\ home = [w \in Writer |-> 0]
  /\ authAge = AuthorityTicks /\ candAge = FreshTicks
  /\ source = NoSample
  /\ opened = [lease |-> 0, writer |-> NoWriter] /\ everBound = {}
  /\ proof = FALSE

\* The authority tuples a client can hold: the current one, also with the lease
\* of an earlier Gate process, one that was overtaken at most Lag control
\* operations ago, by a lease granted there or by none, or one of an earlier
\* process.  PREPARE never carries a lease.
Held ==
  {<<inst, gate.seq, gate.lease>>, <<inst, gate.seq, Alien>>}
    \cup {<<inst, n, IF granted THEN n ELSE 0>> :
            n \in {s \in 0..MaxSeq : gate.seq - Lag <= s /\ s < gate.seq},
            granted \in BOOLEAN}
    \cup {<<n, 0, 0>> : n \in 1..(inst - 1)}

Learnt ==
  {[id |-> id, op |-> op, gate |-> t[1], expected |-> t[2],
    lease |-> IF op = "prepare" THEN 0 ELSE t[3]] :
     id \in RequestId, op \in Operation, t \in Held}

OnControl ==
  \E r \in Learnt :
    \/ Refuse(r)
    \/ Inhibit(r)
    \/ Renew(r)
    \/ Prepare(r)
    \/ PrepareBlocks(r)
    \/ OpenBegin(r)
    \/ OpenUnready(r)

Blocked ==
  \/ PrepareResumes
  \/ PrepareZero
  \/ PrepareFails
  \/ PrepareTimesOut
  \/ OpenBinds
  \/ OpenUnbound
  \/ OpenCompletes
  \/ OpenBreaks

Graph ==
  \E w \in Writer :
    \/ WriterAppears(w)
    \/ WriterDisappears(w)
    \/ \E kind \in {"zero", "moving", "bad"} : WriterPublishes(w, kind)

Next ==
  \/ OnControl
  \/ Blocked
  \/ OnCandidate
  \/ Discard
  \/ OnOutputTimer
  \/ Graph
  \/ TimePasses
  \/ Restart

Spec == Init /\ [][Next]_vars

-----------------------------------------------------------------------------
(***************************************************************************)
(* Properties.                                                             *)
(***************************************************************************)

\* Every variable stays in its type: in particular the control sequence never
\* passes its limit and the request cache never outgrows request_cache_size.
TypeOK ==
  /\ inst \in 1..MaxInstance
  /\ gate \in Gate
  /\ cache \in Seq(Entry) /\ Len(cache) <= CacheSize
  /\ reader \in Reader
  /\ inbox \in Sample \cup {NoSample}
  /\ retired \in Gid
  /\ job \in {NoJob} \cup PrepareJob \cup OpenJob
  /\ home \in [Writer -> -1..MaxSeq]
  /\ out \in Speed /\ emit \in Speed \cup {"none"}
  /\ reply \in Reply \cup {NoReply}
  /\ authAge \in 0..AuthorityTicks /\ candAge \in 0..FreshTicks
  /\ source \in Sample \cup {NoSample}
  /\ opened \in [lease : 0..MaxSeq, writer : Gid]
  /\ everBound \subseteq Writer
  /\ proof \in BOOLEAN

\* A moving command is published only within authority_lease of the OPEN or
\* RENEW that was applied last and within candidate_freshness of the sample it
\* repeats, and that sample was written by the writer bound to the lease, after
\* the lease was armed: the discard-only readers of OPEN keep every earlier
\* sample out.
OutputAuthorised ==
  emit = "moving" =>
    /\ authAge < AuthorityTicks
    /\ candAge < FreshTicks
    /\ source.kind = "moving"
    /\ source.writer = opened.writer
    /\ source.born = opened.lease

\* Once an INHIBIT was answered inhibited with zero published, the controller
\* holds zero and the core stays closed until a later PREPARE is granted.  This
\* is what lets the Runtime report a STOP.
ProvenZeroHolds ==
  proof => out = "zero" /\ gate.state \in {"inhibited", "faulted"}

\* While a lease is prepared or armed no writer of an earlier lease of this
\* Gate is left on the graph: PREPARE waited for it.
RetiredWriterGone ==
  gate.state \in {"prepared", "armed"} =>
    \A w \in everBound \ {gate.bound} : home[w] <= 0

\* The candidate reader follows the lease, also while OPEN replaces it: it
\* accepts exactly while armed, discards exactly while prepared, is gone
\* otherwise, and never reads the topic of another lease.
ReaderFollowsLease ==
  /\ reader.kind = "accept" <=> gate.state = "armed"
  /\ reader.kind = "discard" <=> gate.state = "prepared"
  /\ reader.lease = gate.lease

\* The control sequence identifies the authority tuple, as the client's
\* watermark assumes: state, lease and writer change only with it, except for
\* the fault that its exhaustion causes.
SequenceNamesTuple ==
  [][gate'.seq = gate.seq /\ inst' = inst =>
       \/ <<gate'.state, gate'.lease, gate'.bound>> =
          <<gate.state, gate.lease, gate.bound>>
       \/ gate.seq = MaxSeq /\ gate'.state = "faulted"]_vars

\* What safety-and-motion-contract.md says of the time before the first sample
\* of a lease: OPEN or RENEW starts a window of candidate_freshness, and a Gate
\* that got no sample in it is not left armed by the output timer.
FirstSampleBounded ==
  [][OnOutputTimer =>
       (gate'.state = "armed" /\ ~gate'.fresh => authAge < FreshTicks)]_vars

\* The Gate implements the lease it promises.
Lease == INSTANCE GateLease WITH
  phase <- CASE gate.state = "inhibited" -> "closed"
             [] gate.state = "prepared" -> "granted"
             [] gate.state = "armed" -> "live"
             [] gate.state = "faulted" -> "dead",
  term <- <<inst, gate.seq>>,
  lease <- IF gate.lease = 0 THEN <<0, 0>> ELSE <<inst, gate.lease>>,
  out <- out
LeaseSpec == Lease!Spec

\* The executor is one thread that is never starved: time passes, a blocked
\* handler meets its graph deadline, and between handlers the 20 ms timer gets
\* its turn.  The timer is served with a publication that reaches the
\* controller again and again; nothing is assumed of clients and writers.
TimerPublishes == OnOutputTimer /\ emit' # "none"

Fairness ==
  /\ WF_vars(TimePasses)
  /\ WF_vars(PrepareResumes \/ PrepareTimesOut)
  /\ WF_vars(OpenUnbound)
  /\ WF_vars(OpenCompletes \/ OpenBreaks)
  /\ SF_vars(TimerPublishes)

FairSpec == Spec /\ Fairness

\* The dead man's handle: unless somebody goes on renewing the authority, a
\* moving command is followed by a zero, whatever candidates keep arriving and
\* whatever client, writer or pending request has gone away.
RenewApplied == reply.code = "applied" /\ reply.op = "renew"

DeadmanZero ==
  []<>RenewApplied \/ (out = "moving" ~> out = "zero")
=============================================================================
