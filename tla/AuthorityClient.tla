-------------------------- MODULE AuthorityClient --------------------------
(***************************************************************************)
(* The authority client of the Mission Runtime: the watermark of           *)
(* motion_authority_ros_adapter.cpp and the retry loop of                  *)
(* mission_authority_convergence.hpp, over the Gate of GateService.        *)
(*                                                                         *)
(* Two threads use it.  The worker prepares, opens and renews one lease at *)
(* a time; the stopper inhibits, and races the worker.  Requests travel in *)
(* order; answers and state samples arrive late, out of order or not at    *)
(* all; the Gate process may be replaced at any moment.                    *)
(***************************************************************************)
EXTENDS GateService, FiniteSets

CONSTANTS
  MaxTries,   \* how many attempts fit into one overall deadline
  MaxFlight   \* how many state samples are on the way at once

ASSUME ClientAssumption ==
  /\ MaxTries \in Nat \ {0}
  /\ MaxFlight \in Nat \ {0}
  /\ IsFiniteSet(RequestId)

VARIABLES
  mark,     \* snapshot_watermark_: the newest snapshot accepted
  gaveUp,   \* retired_gate_identity_bloom_, without its false positives
  sampled,  \* state_sample_available_
  flight,   \* samples of the state topic that were not delivered yet
  queue,    \* requests on their way to the Gate
  call,     \* the operation each thread is in
  held      \* the pipeline's generation

\* History variables, which no action reads.
VARIABLES
  used,     \* request identifiers made so far
  done,     \* <<process, call>> of every request that took effect
  ended     \* leases some caller holds a zero proof against

cvars == <<inst, cache, gate, opening, answer, mark, gaveUp, sampled, flight,
           queue, call, held, used, done, ended>>

Thread == {"worker", "stopper"}

\* up is endpoint_available; motion_inhibited, authority_live and writer_bound
\* follow from the state, the candidate topic from the lease.
Snapshot ==
  [gate : 0..MaxInstance, seq : 0..MaxSeq, lease : 0..MaxSeq,
   state : {"inhibited", "prepared", "armed", "faulted"},
   zsel : BOOLEAN, zpub : BOOLEAN, up : BOOLEAN]

\* The empty snapshot names no Gate and is Faulted.
NoSnapshot == [gate |-> 0, seq |-> 0, lease |-> 0, state |-> "faulted",
               zsel |-> FALSE, zpub |-> FALSE, up |-> FALSE]

\* What the Gate says of itself when its core is at g.
Said(g, zero) ==
  [gate |-> inst, seq |-> g.seq, lease |-> g.lease, state |-> g.state,
   zsel |-> ~g.moving, zpub |-> zero, up |-> TRUE]

Response == [snap : Snapshot, code : {"applied", "duplicate", "rejected", "faulted"},
             why : {"none", "stale", "refused"}]
NoResponse == [code |-> "none"]

\* asked is the operation of the caller, req what the loop made of it.
NoCall == [step |-> "idle"]
Cleared == [step |-> "cleared"]
Call == [step : {"ready", "sent", "answered"}, bound : BOOLEAN, asked : Request,
         req : Request, tries : 0..MaxTries, got : Response \cup {NoResponse},
         live : (1..MaxInstance) \X (0..MaxSeq)]

\* gate and seq are generation_gate_instance_id_ and its control_seq, by is the
\* process that made the lease identifier.
Hold == [phase : {"none", "prepared", "opened", "ending", "proven", "rearming"},
         gate : 0..MaxInstance, seq : 0..MaxSeq, lease : 0..MaxSeq,
         by : 0..MaxInstance]
NoHold == [phase |-> "none", gate |-> 0, seq |-> 0, lease |-> 0, by |-> 0]

Item == [by : Thread, asked : RequestId, try : 1..MaxTries, home : 0..MaxInstance,
         req : Request]

-----------------------------------------------------------------------------
(***************************************************************************)
(* The watermark.                                                          *)
(***************************************************************************)
SameProcess(s) == s.gate = mark.gate
SameTuple(s) ==
  <<s.seq, s.lease, s.state, s.zsel>> = <<mark.seq, mark.lease, mark.state, mark.zsel>>

\* Mutant of Accepts: identities are not given up for good.
AcceptsAnyProcess(s) ==
  ~SameProcess(s) \/ s.seq > mark.seq \/ SameTuple(s)

Accepts(s) ==
  \/ mark.gate = 0
  \/ ~SameProcess(s) /\ s.gate \notin gaveUp
  \/ SameProcess(s) /\ (s.seq > mark.seq \/ SameTuple(s))

\* merge; the same tuple again can only take the proof of zero away.
Merged(s) ==
  IF ~Accepts(s) THEN mark
  ELSE IF SameProcess(s) /\ SameTuple(s)
       THEN [mark EXCEPT !.up = s.up, !.zpub = s.up /\ @ /\ s.zpub]
       ELSE s

\* Every snapshot is taken together with a look at the ROS graph.
Seen(s, up) == [s EXCEPT !.up = up, !.zpub = up /\ @]

\* retire_identity.
GivenUp(s) ==
  IF Accepts(s) /\ ~SameProcess(s) /\ mark.gate # 0
  THEN gaveUp \cup {mark.gate} ELSE gaveUp

Merge(s) ==
  /\ mark' = Merged(s)
  /\ gaveUp' = GivenUp(s)
  /\ sampled' = IF Accepts(s) THEN s.up ELSE sampled

\* set_endpoint_available(false).
Lost == [mark EXCEPT !.up = FALSE, !.zpub = FALSE]

\* refresh_endpoint: the graph can give the endpoint back, never the zero.
Refreshed ==
  \E up \in BOOLEAN :
    /\ mark' = IF ~up THEN Lost ELSE [mark EXCEPT !.up = @ \/ sampled]
    /\ sampled' = (sampled /\ up)
    /\ UNCHANGED gaveUp

-----------------------------------------------------------------------------
(***************************************************************************)
(* inhibit_result_proves_zero.                                             *)
(***************************************************************************)
CompleteZero(s) == s.up /\ s.state = "inhibited" /\ s.zsel /\ s.zpub

\* Mutant of ProvesZero: the retained snapshot is proof enough.
ProvesZeroBySnapshot(r, res) ==
  res.snap.gate = r.gate /\ CompleteZero(res.snap) /\ res.snap.seq >= r.expected

ProvesZero(r, res) ==
  /\ res.zero
  /\ res.snap.gate = r.gate
  /\ CompleteZero(res.snap)
  /\ IF res.applied THEN res.snap.seq >= r.expected
     ELSE res.stale /\ res.snap.seq > r.expected

-----------------------------------------------------------------------------
(***************************************************************************)
(* The callers.                                                            *)
(***************************************************************************)
\* A fresh request identifier for every operation; live is the lease that is
\* really in force, which only ended reads.
Begin(c, op, bound, home, expected, lease) ==
  \E id \in RequestId \ used :
    LET r == [id |-> id, op |-> op, gate |-> home, expected |-> expected,
              lease |-> lease]
    IN
    /\ used' = used \cup {id}
    /\ call' = [call EXCEPT ![c] =
                  [step |-> "ready", bound |-> bound, asked |-> r, req |-> r,
                   tries |-> 0, got |-> NoResponse,
                   live |-> <<inst, gate.lease>>]]
    /\ answer' = NoAnswer
    /\ UNCHANGED <<inst, cache, gate, opening, mark, gaveUp, sampled, flight,
                   queue, done, ended>>

\* The lease of the generation in an operation for process p.
HeldFor(p) == IF held.by = p THEN held.lease ELSE Alien

\* prepare looks at the watermark first and reads it again for the operation.
PrepareClears ==
  /\ call["worker"] = NoCall
  /\ held = NoHold
  /\ CompleteZero(mark)
  /\ call' = [call EXCEPT !["worker"] = Cleared]
  /\ answer' = NoAnswer
  /\ UNCHANGED <<inst, cache, gate, opening, mark, gaveUp, sampled, flight,
                 queue, held, used, done, ended>>

Prepare ==
  /\ call["worker"] = Cleared
  /\ Begin("worker", "prepare", FALSE, mark.gate, mark.seq, 0)
  /\ UNCHANGED held

Open ==
  /\ call["worker"] = NoCall
  /\ held.phase = "prepared"
  /\ mark.gate = held.gate
  /\ Begin("worker", "open", FALSE, mark.gate, mark.seq, held.lease)
  /\ UNCHANGED held

Renew ==
  /\ call["worker"] = NoCall
  /\ held.phase = "opened"
  /\ Begin("worker", "renew", FALSE, mark.gate, mark.seq, HeldFor(mark.gate))
  /\ UNCHANGED held

\* inhibit_gate of a generation: no operation of it begins any more.
InhibitGeneration ==
  LET home == IF held.gate # 0 THEN held.gate ELSE mark.gate
      known == mark.gate = home
      shut == held.gate # 0 /\ known /\ mark.state = "inhibited"
  IN
  /\ call["stopper"] = NoCall
  /\ held.phase \in {"prepared", "opened", "ending"}
  /\ held' = [held EXCEPT !.phase = "ending"]
  /\ Begin("stopper", "inhibit", held.gate # 0, home,
           IF known THEN mark.seq ELSE held.seq,
           IF shut THEN 0 ELSE HeldFor(home))

\* inhibit_and_prove_zero at start-up, and startup_gate_zero_reassert when a
\* generation that failed gives way to the Gate of the watermark.
InhibitCurrent ==
  /\ call["worker"] = NoCall
  /\ held.phase = "none" \/ (held.phase = "ending" /\ call["stopper"] = NoCall)
  /\ mark.up
  /\ mark.state # "faulted"
  /\ held' = IF held.phase = "none" THEN held ELSE [held EXCEPT !.phase = "rearming"]
  /\ Begin("worker", "inhibit", FALSE, mark.gate, mark.seq, mark.lease)

\* The proof of a generation is remembered until its last operation returned.
Reset ==
  /\ held.phase = "proven"
  /\ call["worker"] = NoCall
  /\ held' = NoHold
  /\ answer' = NoAnswer
  /\ UNCHANGED <<inst, cache, gate, opening, mark, gaveUp, sampled, flight,
                 queue, call, used, done, ended>>

-----------------------------------------------------------------------------
(***************************************************************************)
(* What a caller makes of the result of its operation.                     *)
(***************************************************************************)
\* A lease that was granted in vain is kept, to be inhibited.
AfterPrepare(res) ==
  LET valid == /\ res.applied /\ res.zero
               /\ res.snap.state = "prepared" /\ res.snap.zsel /\ res.snap.zpub
      l == IF res.lease # 0 THEN [lease |-> res.lease, by |-> res.by]
           ELSE [lease |-> res.snap.lease, by |-> res.snap.gate]
  IN  IF l.lease = 0 THEN NoHold
      ELSE [phase |-> IF valid THEN "prepared" ELSE "ending",
            gate |-> IF valid THEN res.snap.gate ELSE 0,
            seq |-> IF valid THEN res.snap.seq ELSE 0,
            lease |-> l.lease, by |-> l.by]

AfterDrive(r, res) ==
  LET live == /\ res.applied
              /\ res.snap.state = "armed" /\ res.snap.gate = r.gate
              /\ res.snap.gate = held.by /\ res.snap.lease = held.lease
  IN  IF held.phase \notin {"prepared", "opened"} THEN held
      ELSE [held EXCEPT !.phase = IF live THEN "opened" ELSE "ending"]

\* accept_rearm_snapshot.
Rearmed(r) == mark'.gate = r.gate /\ mark'.seq >= r.expected /\ CompleteZero(mark')

AfterInhibit(r, proof) ==
  CASE held.phase = "ending" /\ proof -> [held EXCEPT !.phase = "proven"]
    [] held.phase = "rearming" ->
         IF proof /\ Rearmed(r) THEN NoHold ELSE [held EXCEPT !.phase = "ending"]
    [] OTHER -> held

Finish(c, res) ==
  LET k == call[c]
      proof == k.asked.op = "inhibit" /\ ProvesZero(k.asked, res)
  IN
  /\ call' = [call EXCEPT ![c] = NoCall]
  /\ ended' = IF proof THEN ended \cup {k.live} ELSE ended
  /\ held' = CASE k.asked.op = "prepare" -> AfterPrepare(res)
               [] k.asked.op \in {"open", "renew"} -> AfterDrive(k.asked, res)
               [] k.asked.op = "inhibit" -> AfterInhibit(k.asked, proof)

-----------------------------------------------------------------------------
(***************************************************************************)
(* The loop: attempts under one deadline, the same identifier in all.      *)
(***************************************************************************)
Busy(c) == call[c].step \in {"ready", "sent", "answered"}

\* One attempt goes out; an INHIBIT looks at the endpoint first.
Send(c) ==
  LET k == call[c] IN
  /\ k.step = "ready"
  /\ k.tries < MaxTries
  /\ IF k.req.op = "inhibit" THEN Refreshed ELSE UNCHANGED <<mark, gaveUp, sampled>>
  /\ queue' = Append(queue, [by |-> c, asked |-> k.asked.id, try |-> k.tries + 1,
                             home |-> IF k.bound THEN k.asked.gate ELSE 0,
                             req |-> k.req])
  /\ call' = [call EXCEPT ![c].step = "sent", ![c].tries = @ + 1]
  /\ answer' = NoAnswer
  /\ UNCHANGED <<inst, cache, gate, opening, flight, held, used, done, ended>>

\* Only a stale tuple is rebuilt, from the snapshot that came back.
Rebuilt(k, res) ==
  IF res.stale /\ res.snap.up
  THEN [k.req EXCEPT !.gate = res.snap.gate, !.expected = res.snap.seq,
                     !.lease = IF k.req.op = "prepare" THEN 0 ELSE res.snap.lease]
  ELSE k.req

\* Mutant of LeavesHome: an operation may follow the Gate.
NeverLeavesHome(k, res) == FALSE

LeavesHome(k, res) ==
  k.bound /\ res.stale /\ res.snap.up /\ res.snap.gate # k.req.gate

Settled(k, res) ==
  \/ res.applied /\ (k.req.op = "inhibit" => res.zero)
  \/ k.req.op = "inhibit" /\ ~res.applied /\ ProvesZero(k.req, res)
  \/ ~res.stale

Revoked(res) == [res EXCEPT !.applied = FALSE, !.zero = FALSE]

\* The answer of this attempt; the overall deadline may have passed when it is
\* looked at, or before the next attempt.
Receive(c, up) ==
  LET k == call[c]
      s == Seen(k.got.snap, up)
      ok == Accepts(s)
      res == [applied |-> ok /\ k.got.code \in {"applied", "duplicate"},
              zero |-> /\ k.got.snap.state # "armed"
                       /\ k.got.snap.zsel /\ k.got.snap.zpub,
              stale |-> ~ok \/ k.got.why = "stale",
              snap |-> Merged(s),
              lease |-> k.got.snap.lease, by |-> k.got.snap.gate]
  IN
  /\ k.step = "answered"
  /\ Merge(s)
  /\ \/ Finish(c, Revoked(res))
     \/ Settled(k, res) /\ Finish(c, res)
     \/ /\ ~Settled(k, res) /\ LeavesHome(k, res)
        /\ Finish(c, Revoked(res))
     \/ /\ ~Settled(k, res) /\ ~LeavesHome(k, res)
        /\ \/ Finish(c, res)
           \/ /\ call' = [call EXCEPT ![c].step = "ready", ![c].got = NoResponse,
                                      ![c].req = Rebuilt(k, res)]
              /\ UNCHANGED <<held, ended>>
  /\ answer' = NoAnswer
  /\ UNCHANGED <<inst, cache, gate, opening, flight, queue, used, done>>

\* No service, no answer in time, or an answer after the deadline: the same
\* payload is tried again while the overall deadline allows it.
TimesOut(c, up) ==
  /\ Busy(c)
  /\ mark' = IF up THEN mark ELSE Lost
  /\ \/ /\ call' = [call EXCEPT ![c].step = "ready", ![c].got = NoResponse]
        /\ UNCHANGED <<held, ended>>
     \/ Finish(c, [applied |-> FALSE, zero |-> FALSE, stale |-> FALSE,
                   snap |-> mark', lease |-> 0, by |-> 0])
  /\ answer' = NoAnswer
  /\ UNCHANGED <<inst, cache, gate, opening, gaveUp, sampled, flight, queue, used, done>>

-----------------------------------------------------------------------------
(***************************************************************************)
(* State samples, the endpoint, and the Gate.                              *)
(***************************************************************************)
Refresh ==
  /\ Refreshed
  /\ answer' = NoAnswer
  /\ UNCHANGED <<inst, cache, gate, opening, flight, queue, call, held, used, done, ended>>

OnGateState(s, up) ==
  /\ s \in flight
  /\ flight' = flight \ {s}
  /\ Merge(Seen(s, up))
  /\ answer' = NoAnswer
  /\ UNCHANGED <<inst, cache, gate, opening, queue, call, held, used, done, ended>>

\* A sample leaves the Gate, and takes the place of another one if it must.
PublishState ==
  /\ Ready
  /\ \E zero \in IF gate.state = "faulted" THEN BOOLEAN ELSE {~gate.moving} :
       LET new == Said(gate, zero)
       IN  IF Cardinality(flight) < MaxFlight THEN flight' = flight \cup {new}
           ELSE \E old \in flight : flight' = (flight \ {old}) \cup {new}
  /\ answer' = NoAnswer
  /\ UNCHANGED <<inst, cache, gate, opening, mark, gaveUp, sampled, queue, call,
                 held, used, done, ended>>

\* The answer reaches the thread if it still waits for this very attempt.
Delivered(m, got) ==
  LET k == call[m.by] IN
  IF k.step = "sent" /\ k.asked.id = m.asked /\ k.tries = m.try
  THEN [call EXCEPT ![m.by].step = "answered", ![m.by].got = got] ELSE call

ClientRests == UNCHANGED <<mark, gaveUp, sampled, flight, held, used, ended>>

GateServes ==
  /\ queue # <<>>
  /\ LET m == Head(queue) IN
     /\ Serve(m.req) \/ (opening = m.req /\ Opened)
     /\ queue' = Tail(queue)
     /\ done' = IF answer'.code = "applied" THEN done \cup {<<inst, m.asked>>} ELSE done
     /\ call' = Delivered(m, [snap |-> Said(gate', answer'.zero),
                              code |-> answer'.code, why |-> answer'.why])
  /\ ClientRests

GateBinds ==
  /\ queue # <<>>
  /\ Ready
  /\ Bind(Head(queue).req)
  /\ ClientRests /\ UNCHANGED <<queue, call, done>>

GateChanges == Change /\ ClientRests /\ UNCHANGED <<queue, call, done>>

\* What the old process had not answered is lost with it.
GateReboots == Reboot /\ queue' = <<>> /\ ClientRests /\ UNCHANGED <<call, done>>

ClientInit ==
  /\ Init
  /\ mark = NoSnapshot /\ gaveUp = {} /\ sampled = FALSE
  /\ flight = {} /\ queue = <<>>
  /\ call = [c \in Thread |-> NoCall] /\ held = NoHold
  /\ used = {} /\ done = {} /\ ended = {}

ClientNext ==
  \/ PrepareClears \/ Prepare \/ Open \/ Renew
  \/ InhibitGeneration \/ InhibitCurrent \/ Reset
  \/ \E c \in Thread : \/ Send(c)
                       \/ \E up \in BOOLEAN : Receive(c, up) \/ TimesOut(c, up)
  \/ Refresh
  \/ \E s \in flight, up \in BOOLEAN : OnGateState(s, up)
  \/ PublishState
  \/ GateServes \/ GateBinds \/ GateChanges \/ GateReboots

ClientSpec == ClientInit /\ [][ClientNext]_cvars

-----------------------------------------------------------------------------
(***************************************************************************)
(* Properties.                                                             *)
(***************************************************************************)
\* Every variable stays in its type.
ClientTypeOK ==
  /\ mark \in Snapshot /\ gaveUp \subseteq 1..MaxInstance /\ sampled \in BOOLEAN
  /\ flight \subseteq Snapshot
  /\ queue \in Seq(Item)
  /\ call \in [Thread -> Call \cup {NoCall, Cleared}]
  /\ held \in Hold
  /\ used \subseteq RequestId
  /\ done \subseteq (1..MaxInstance) \X RequestId
  /\ ended \subseteq (1..MaxInstance) \X (0..MaxSeq)

\* The watermark never returns: not to an earlier control sequence of a Gate
\* process, and not to a process it left, however late a sample or an answer
\* is.
WatermarkAdvances ==
  [][IF mark'.gate = mark.gate THEN mark'.seq >= mark.seq
     ELSE mark'.gate \notin gaveUp /\ mark'.gate # 0]_cvars

\* A watermark that is up to date is true, and none is ahead of the Gate: the
\* sequence alone tells the client whether its state and lease still hold.
WatermarkTrue ==
  mark.gate = inst =>
    /\ mark.seq <= gate.seq
    /\ mark.seq = gate.seq /\ gate.seq < MaxSeq =>
         mark.state = gate.state /\ mark.lease = gate.lease

\* Once a caller holds a zero proof, the lease that was in force when it asked
\* is over for good, whether the caller knew of it or not: stop_owned relies on
\* a proof it remembers, and STOP reports it.
ProvenLeaseOver == \A l \in ended : l[2] # 0 => l # <<inst, gate.lease>>

\* A generation-bound operation takes effect in the Gate process that granted
\* the generation, or in none.
BoundStaysHome ==
  [][answer'.code = "applied" /\ Head(queue).home # 0 => inst = Head(queue).home]_cvars

\* However often an operation is sent, a Gate process applies it once.
EffectOnce ==
  [][answer'.code = "applied" => <<inst, Head(queue).asked>> \notin done]_cvars

\* What safety-and-motion-contract.md says of stale requests: an outdated Gate
\* process, lease or sequence is answered as such, so that the client may
\* rebuild its tuple.
MismatchIsTyped ==
  [][\A c \in Thread :
       call[c].step = "sent" /\ call'[c].step = "answered" =>
         LET got == call'[c].got IN
         got.code = "rejected" /\ call[c].req.expected # got.snap.seq =>
           got.why = "stale"]_cvars

\* What mission-runtime-interface.md says of retries: only an answer that is
\* stale itself lets the client rebuild its tuple.
RebuiltWhenStale ==
  [][\A c \in Thread :
       /\ call[c].step = "answered" /\ call'[c].step = "ready"
       /\ call'[c].req # call[c].req
       => call[c].got.why = "stale"]_cvars
=============================================================================
