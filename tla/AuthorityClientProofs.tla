----------------------- MODULE AuthorityClientProofs -----------------------
(***************************************************************************)
(* The authority client over the Gate service, for any number of requests, *)
(* samples on the way, attempts and Gate processes.                        *)
(*                                                                         *)
(* A step belongs to the Gate or to the client: the Gate's leave the       *)
(* watermark alone, the client's leave the Gate alone.                     *)
(*                                                                         *)
(* The argument rests on what any snapshot says, wherever it is: on the    *)
(* way, in an answer, or as the watermark.  It is honest (Honest): within  *)
(* the Gate process that runs it is not ahead, it is right if it is up to  *)
(* date, and it names the lease in force if it is as new as that lease.    *)
(* And a process that the client never followed while it ran was never     *)
(* asked anything, so that all it ever said is its initial zero or its     *)
(* fault (Unasked).                                                        *)
(***************************************************************************)
EXTENDS AuthorityClient, TLAPS

GateTypes ==
  /\ inst \in 1..MaxInstance
  /\ gate \in Core
  /\ cache \in Seq(Entry)
  /\ opening \in Request \cup {NoRequest}

Types == GateTypes /\ ClientTypeOK

\* The parts of the invariant are predicates of the values they are about: m is
\* the watermark, gu the processes given up, i the running process, g its core.

\* The Gate processes that the client follows or followed.
Followed(m, gu) == (gu \cup {m.gate}) \ {0}

\* A process is followed although a later one was given up already.
Overtaken(m, gu) == \E p \in gu : p > m.gate

\* A lease exists exactly while prepared or armed, and is not from the future.
LeaseShape(g) ==
  /\ g.lease # 0 <=> g.state \in {"prepared", "armed"}
  /\ g.lease <= g.seq

Honest(s, i, g) ==
  /\ LeaseShape(s)
  /\ s.gate <= i
  /\ s.gate = i =>
       /\ s.seq <= g.seq
       /\ s.seq = g.seq /\ g.seq < MaxSeq => s.state = g.state /\ s.lease = g.lease
       /\ g.lease # 0 /\ s.seq >= g.lease => s.lease = g.lease

\* What a Gate process says of itself that was never asked anything.
Unasked(s) == s.state = "faulted" \/ (s.state = "inhibited" /\ s.seq = 0)

\* A process is followed before it is asked.
MarkOf(m, gu, i, g) ==
  /\ Honest(m, i, g)
  /\ m.gate = 0 => m.state = "faulted" /\ gu = {}
  /\ m.gate \notin gu
  /\ \A p \in gu : p <= i
  /\ i \notin Followed(m, gu) => Unasked(g)
  /\ Overtaken(m, gu) => Unasked(m)

Travels(s, m, gu, i, g) ==
  /\ Honest(s, i, g)
  /\ s.gate # 0
  /\ s.gate \notin Followed(m, gu) => Unasked(s)
  /\ s.gate = m.gate /\ Overtaken(m, gu) => Unasked(s)

\* The snapshots on their way to the watermark.
OnTheWay ==
  flight \cup {call[c].got.snap : c \in {t \in Thread : call[t].step = "answered"}}

MarkInv == LeaseShape(gate) /\ MarkOf(mark, gaveUp, inst, gate)
WayInv == \A s \in OnTheWay : Travels(s, mark, gaveUp, inst, gate)

\* An operation asks a process that was followed, a bound one only its own.
\* An answer is younger than the lease that was in force when it was asked for.
CallOf(k, fol, i, g) ==
  /\ k.step \in {"ready", "sent", "answered"} =>
       /\ k.asked.gate \in fol /\ k.req.gate \in fol
       /\ k.bound => k.req.gate = k.asked.gate
       /\ k.live[1] <= i
       /\ k.live[1] = i => k.live[2] <= g.seq
  /\ k.step = "answered" =>
       /\ k.got \in Response
       /\ \/ k.got.snap.gate > k.live[1]
          \/ k.got.snap.gate = k.live[1] /\ k.got.snap.seq >= k.live[2]

CallsInv == \A c \in Thread : CallOf(call[c], Followed(mark, gaveUp), inst, gate)

HeldInv ==
  /\ held.gate \in Followed(mark, gaveUp) \cup {0}
  /\ held.phase # "none" \/ call["worker"].step = "cleared" => mark.gate # 0

ItemOf(q, fol) == q.req.gate \in fol /\ (q.home # 0 => q.req.gate = q.home)
QueueInv == \A n \in 1..Len(queue) : ItemOf(queue[n], Followed(mark, gaveUp))

OpeningInv ==
  opening # NoRequest => opening.gate = inst /\ inst \in Followed(mark, gaveUp)

\* A lease that somebody holds a zero proof against is over.
Over(l, i, g) ==
  l[2] # 0 => \/ l[1] < i
              \/ l[1] = i /\ l[2] <= g.seq /\ l[2] # g.lease
EndedInv == \A l \in ended : Over(l, inst, gate)

IInv ==
  /\ Types
  /\ MarkInv
  /\ WayInv
  /\ CallsInv
  /\ HeldInv
  /\ QueueInv
  /\ OpeningInv
  /\ EndedInv

-----------------------------------------------------------------------------
(***************************************************************************)
(* The Gate's side: what any of its steps does to the core.                *)
(***************************************************************************)
LEMMA Constants ==
  /\ MaxSeq \in Nat /\ MaxInstance \in Nat \ {0} /\ CacheSize \in Nat \ {0}
  /\ MaxTries \in Nat \ {0} /\ MaxFlight \in Nat \ {0} /\ IsFiniteSet(RequestId)
BY RequestAssumption, ClientAssumption

\* The sequence grows; state and lease change only with it, and a new lease is
\* named after the sequence it was granted at.
Moves(g, h) ==
  /\ h \in Core /\ LeaseShape(h)
  /\ g.seq <= h.seq
  /\ h.seq = g.seq /\ g.seq < MaxSeq => h.state = g.state /\ h.lease = g.lease
  /\ h.lease \in {0, g.lease} \/ h.lease > g.seq

\* A core that was never asked stays one that was never asked.
Idles(g, h) == Unasked(g) => Unasked(h)

LEMMA MovesTrans ==
  ASSUME NEW f \in Core, NEW g \in Core, NEW h \in Core, Moves(f, g), Moves(g, h)
  PROVE  Moves(f, h)
BY Constants DEF Moves, Core, LeaseShape

LEMMA MovesSelf ==
  ASSUME NEW g \in Core, LeaseShape(g)
  PROVE  Moves(g, g)
BY Constants DEF Moves, Core

LEMMA BrokenMoves ==
  ASSUME NEW g \in Core, LeaseShape(g)
  PROVE  Moves(g, Broken(g)) /\ Idles(g, Broken(g))
BY Constants DEF Moves, Core, LeaseShape, Broken, Shut, Idles, Unasked

LEMMA EndedMoves ==
  ASSUME NEW g \in Core, LeaseShape(g)
  PROVE  Leased(g) => Moves(g, Ended(g))
BY Constants DEF Moves, Core, LeaseShape, Ended, Shut, Leased

LEMMA SteppedMoves ==
  ASSUME NEW g \in Core, LeaseShape(g)
  PROVE  Moves(g, Stepped(g))
BY Constants DEF Moves, Core, LeaseShape, Stepped, Shut

LEMMA GrantedMoves ==
  ASSUME NEW g \in Core, LeaseShape(g)
  PROVE  Moves(g, Granted(g))
<1>1. CASE g.seq = MaxSeq \/ g.state = "faulted"
  <2>1. Stepped(g).state = "faulted"
    BY <1>1 DEF Stepped, Shut, Core
  <2> QED
    BY <2>1, SteppedMoves DEF Granted
<1>2. CASE g.seq # MaxSeq /\ g.state # "faulted"
  <2>1. Granted(g) = [state |-> "prepared", seq |-> g.seq + 1, lease |-> g.seq + 1,
                      moving |-> g.moving]
    BY <1>2 DEF Granted, Stepped, Core
  <2> QED
    BY <1>2, <2>1, Constants DEF Moves, Core, LeaseShape
<1> QED
  BY <1>1, <1>2

LEMMA AppliedMoves ==
  ASSUME NEW g \in Core, LeaseShape(g), NEW op \in Operation \ {"open"}
  PROVE  Moves(g, Applied(g, op))
BY GrantedMoves, SteppedMoves, EndedMoves DEF Applied, Operation

LEMMA FoundMoves ==
  ASSUME gate \in Core, LeaseShape(gate), NEW g \in Found
  PROVE  g \in Core /\ Moves(gate, g) /\ Idles(gate, g)
<1>1. CASE g = gate
  BY <1>1, MovesSelf DEF Idles
<1>2. CASE g = Ended(gate) /\ Leased(gate)
  BY <1>2, EndedMoves DEF Idles, Unasked, Leased, Moves
<1> QED
  BY <1>1, <1>2 DEF Found

LEMMA AnsweredMoves ==
  ASSUME NEW g \in Core, LeaseShape(g), NEW r, NEW code, NEW why, Answered(g, r, code, why)
  PROVE  /\ Moves(g, gate') /\ Idles(g, gate')
         /\ answer'.code \in {code, "faulted"} /\ answer'.why = why
BY BrokenMoves, MovesSelf DEF Answered, Idles

\* The Gate's side of a request: it answers once, and a process that the request
\* does not name only refuses it.
LEMMA RememberType ==
  ASSUME cache \in Seq(Entry), NEW r \in Request, NEW why \in {"none", "stale", "refused"}
  PROVE  Remember(r, why) \in Seq(Entry)
<1> DEFINE entry == [id |-> r.id, op |-> r.op, why |-> why,
                     replay |-> why # "stale"]
           room == IF Len(cache) >= CacheSize THEN Tail(cache) ELSE cache
<1>1. entry \in Entry
  BY DEF Entry, Request
<1>2. room \in Seq(Entry)
  BY Constants
<1>3. CASE Cached(r) = {}
  BY <1>3, <1>1, <1>2 DEF Remember
<1>4. CASE Cached(r) # {}
  <2>1. Remember(r, why) =
          [i \in 1..Len(cache) |-> IF i \in Cached(r) THEN entry ELSE cache[i]]
    BY <1>4 DEF Remember
  <2>2. \A i \in 1..Len(cache) : cache[i] \in Entry
    OBVIOUS
  <2> QED
    BY <2>1, <2>2, <1>1
<1> QED
  BY <1>3, <1>4

\* What a step of the Gate may do to the core while the process lives.
Moved == Moves(gate, gate') /\ (inst \in Followed(mark, gaveUp) \/ Idles(gate, gate'))

\* What it answers.
GoodAnswer ==
  /\ answer'.code \in {"applied", "duplicate", "rejected", "faulted"}
  /\ answer'.why \in {"none", "stale", "refused"}
  /\ answer'.zero \in BOOLEAN

LEMMA AnsweredGood ==
  ASSUME NEW g, NEW r, NEW code \in {"applied", "duplicate", "rejected", "faulted"},
         NEW why \in {"none", "stale", "refused"},
         Answered(g, r, code, why)
  PROVE  GoodAnswer
<1>1. PICK h \in {g, Broken(g)} :
        \E zero \in IF h.state = "faulted" THEN BOOLEAN ELSE {~h.moving} :
          answer' = [id |-> r.id, op |-> r.op, why |-> why, zero |-> zero,
                     code |-> IF h.state = "faulted" THEN "faulted" ELSE code]
  BY DEF Answered
<1>2. (~h.moving) \in BOOLEAN
  OBVIOUS
<1>3. PICK zero \in BOOLEAN :
        answer' = [id |-> r.id, op |-> r.op, why |-> why, zero |-> zero,
                   code |-> IF h.state = "faulted" THEN "faulted" ELSE code]
  BY <1>1, <1>2
<1> QED
  BY <1>3 DEF GoodAnswer

LEMMA FitIsHome ==
  ASSUME NEW g, NEW r, Verdict(g, r) = "fit"
  PROVE  r.gate = inst
BY DEF Verdict

LEMMA IdlesTrans ==
  ASSUME NEW f, NEW g, NEW h, Idles(f, g), Idles(g, h)
  PROVE  Idles(f, h)
BY DEF Idles

LEMMA RefuseMoved ==
  ASSUME GateTypes, LeaseShape(gate), NEW r \in Request, Refuse(r)
  PROVE  Moved /\ GoodAnswer /\ answer'.code # "applied" /\ GateTypes' /\ UNCHANGED <<inst, opening>>
<1>1. PICK g \in Found :
        LET v == Verdict(g, r)
            first == CHOOSE i \in Cached(r) : TRUE
            why == IF v = "replay" THEN cache[first].why
                   ELSE IF v = "stale" THEN "stale" ELSE "refused"
        IN  /\ Answered(g, r, IF v = "replay" THEN "duplicate" ELSE "rejected", why)
            /\ cache' = IF v \in {"collision", "replay"} THEN cache ELSE Remember(r, why)
            /\ UNCHANGED <<inst, opening>>
  BY DEF Refuse
<1> DEFINE v == Verdict(g, r)
           first == CHOOSE i \in Cached(r) : TRUE
           why == IF v = "replay" THEN cache[first].why
                  ELSE IF v = "stale" THEN "stale" ELSE "refused"
<1>2. why \in {"none", "stale", "refused"}
  <2>1. CASE v = "replay"
    <3>1. Cached(r) # {}
      BY <2>1 DEF Verdict, Replays
    <3>2. first \in Cached(r)
      BY <3>1
    <3>3. cache[first] \in Entry
      BY <3>2 DEF Cached, GateTypes
    <3> QED
      BY <2>1, <3>3 DEF Entry
  <2> QED
    BY <2>1
<1>3. g \in Core /\ Moves(gate, g) /\ Idles(gate, g) /\ LeaseShape(g)
  BY FoundMoves DEF GateTypes, Moves
<1>4. Moves(g, gate') /\ Idles(g, gate') /\ answer'.code \in {"duplicate", "rejected", "faulted"}
  BY <1>1, <1>3, AnsweredMoves
<1>5. gate' \in Core
  BY <1>4 DEF Moves
<1>6. Moved
  BY <1>3, <1>4, <1>5, MovesTrans, IdlesTrans DEF Moved, GateTypes
<1>7. GoodAnswer
  BY <1>1, <1>2, <1>3, AnsweredGood DEF Core
<1>8. cache' \in Seq(Entry)
  BY <1>1, <1>2, RememberType DEF GateTypes
<1> QED
  BY <1>1, <1>4, <1>5, <1>6, <1>7, <1>8 DEF GateTypes

LEMMA ApplyMoved ==
  ASSUME GateTypes, LeaseShape(gate), NEW r \in Request, Apply(r),
         r.gate \in Followed(mark, gaveUp)
  PROVE  Moved /\ GoodAnswer /\ r.gate = inst /\ GateTypes' /\ UNCHANGED <<inst, opening>>
<1>1. PICK g \in Found :
        /\ r.op # "open"
        /\ Verdict(g, r) = "fit"
        /\ Answered(Applied(g, r.op), r, "applied", "none")
        /\ cache' = Remember(r, "none")
        /\ UNCHANGED <<inst, opening>>
  BY DEF Apply
<1>2. g \in Core /\ Moves(gate, g) /\ LeaseShape(g)
  BY FoundMoves DEF GateTypes, Moves
<1>3. Moves(g, Applied(g, r.op))
  BY <1>1, <1>2, AppliedMoves DEF Request
<1>4. Applied(g, r.op) \in Core /\ LeaseShape(Applied(g, r.op))
  BY <1>3 DEF Moves
<1>5. Moves(Applied(g, r.op), gate')
  BY <1>1, <1>4, AnsweredMoves
<1>6. gate' \in Core
  BY <1>5 DEF Moves
<1>7. r.gate = inst
  BY <1>1, FitIsHome
<1>8. Moves(gate, gate')
  <2>1. Moves(g, gate')
    BY <1>2, <1>3, <1>4, <1>5, <1>6, MovesTrans
  <2> QED
    BY <1>2, <1>6, <2>1, MovesTrans DEF GateTypes
<1>9. GoodAnswer
  BY <1>1, <1>4, AnsweredGood DEF Core
<1>10. cache' \in Seq(Entry)
  BY <1>1, RememberType DEF GateTypes
<1> QED
  BY <1>1, <1>6, <1>7, <1>8, <1>9, <1>10 DEF GateTypes, Moved

LEMMA DeclineMoved ==
  ASSUME GateTypes, LeaseShape(gate), NEW r \in Request, Decline(r)
  PROVE  Moved /\ GoodAnswer /\ answer'.code # "applied" /\ GateTypes' /\ UNCHANGED <<inst, opening>>
<1>1. /\ Answered(gate, r, "rejected", "refused")
      /\ cache' = Remember(r, "refused")
      /\ UNCHANGED <<inst, opening>>
  BY DEF Decline
<1>2. gate \in Core
  BY DEF GateTypes
<1>3. Moves(gate, gate') /\ Idles(gate, gate') /\ answer'.code \in {"rejected", "faulted"}
  BY <1>1, <1>2, AnsweredMoves
<1>4. GoodAnswer
  BY <1>1, <1>2, AnsweredGood DEF Core
<1>5. cache' \in Seq(Entry)
  BY <1>1, RememberType DEF GateTypes
<1> QED
  BY <1>1, <1>3, <1>4, <1>5 DEF GateTypes, Moved, Moves

LEMMA BindMoved ==
  ASSUME GateTypes, LeaseShape(gate), NEW r \in Request, Bind(r),
         r.gate \in Followed(mark, gaveUp)
  PROVE  /\ Moved /\ GateTypes' /\ inst' = inst
         /\ opening'.gate = inst /\ inst \in Followed(mark, gaveUp)
<1>1. r.gate = inst
  BY FitIsHome DEF Bind
<1>2. gate.state = "prepared"
  BY DEF Bind, Verdict, RightState
<1>3. gate' = [state |-> "armed", seq |-> gate.seq + 1, lease |-> gate.lease,
               moving |-> gate.moving]
  BY DEF Bind, GateTypes, Core
<1>4. Moves(gate, gate')
  BY <1>2, <1>3, Constants DEF Bind, Moves, GateTypes, Core, LeaseShape
<1>5. cache' \in Seq(Entry)
  BY RememberType DEF GateTypes, Bind
<1> QED
  BY <1>1, <1>4, <1>5 DEF GateTypes, Moved, Moves, Bind

LEMMA OpenedMoved ==
  ASSUME GateTypes, LeaseShape(gate), Opened, OpeningInv
  PROVE  Moved /\ GoodAnswer /\ opening.gate = inst /\ GateTypes' /\ inst' = inst
         /\ opening' = NoRequest
<1>1. inst \in Followed(mark, gaveUp) /\ opening.gate = inst
  BY DEF Opened, OpeningInv
<1>2. gate \in Core
  BY DEF GateTypes
<1>3. Moves(gate, Broken(gate)) /\ Broken(gate) \in Core /\ LeaseShape(Broken(gate))
  BY <1>2, BrokenMoves DEF Moves
<1>4. Moves(gate, gate') /\ GoodAnswer
  <2>1. CASE Answered(gate, opening, "applied", "none")
    BY <2>1, <1>2, AnsweredMoves, AnsweredGood DEF Core
  <2>2. CASE Answered(Broken(gate), opening, "faulted", "refused")
    <3>1. Moves(Broken(gate), gate') /\ GoodAnswer
      BY <2>2, <1>3, AnsweredMoves, AnsweredGood DEF Core
    <3>2. gate' \in Core
      BY <3>1 DEF Moves
    <3> QED
      BY <3>1, <3>2, <1>2, <1>3, MovesTrans
  <2> QED
    BY <2>1, <2>2 DEF Opened
<1> QED
  BY <1>1, <1>4 DEF Opened, GateTypes, Moved, Moves

LEMMA ChangeMoved ==
  ASSUME GateTypes, LeaseShape(gate), Change
  PROVE  Moved /\ GateTypes' /\ UNCHANGED <<inst, opening>>
<1>1. gate \in Core
  BY DEF GateTypes
<1>2. Moves(gate, gate') /\ Idles(gate, gate')
  <2>1. CASE gate' \in Found
    BY <2>1, <1>1, FoundMoves
  <2>2. CASE gate' \in {Broken(g) : g \in Found}
    <3>1. PICK g \in Found : gate' = Broken(g)
      BY <2>2
    <3>2. g \in Core /\ Moves(gate, g) /\ Idles(gate, g) /\ LeaseShape(g)
      BY <1>1, FoundMoves DEF Moves
    <3>3. Moves(g, gate') /\ Idles(g, gate') /\ gate' \in Core
      BY <3>1, <3>2, BrokenMoves DEF Moves
    <3> QED
      BY <3>2, <3>3, <1>1, MovesTrans, IdlesTrans
  <2>3. CASE gate' \in {[gate EXCEPT !.moving = m] :
                          m \in {b \in BOOLEAN : gate.state = "armed"}}
    BY <2>3, <1>1, Constants DEF Moves, Core, LeaseShape, Idles, Unasked
  <2> QED
    BY <2>1, <2>2, <2>3 DEF Change
<1> QED
  BY <1>2 DEF Change, GateTypes, Moved, Moves

-----------------------------------------------------------------------------
(***************************************************************************)
(* What is said of a snapshot stays true while the Gate goes on, when its  *)
(* process is replaced, and when the watermark takes another snapshot.     *)
(***************************************************************************)
LEMMA HonestStays ==
  ASSUME NEW s \in Snapshot, NEW i \in Nat, NEW g \in Core, NEW h \in Core,
         Moves(g, h), Honest(s, i, g)
  PROVE  Honest(s, i, h)
BY Constants DEF Honest, Moves, Snapshot, Core, LeaseShape

LEMMA HonestAfterReboot ==
  ASSUME NEW s \in Snapshot, NEW i \in Nat, NEW g, NEW h, Honest(s, i, g)
  PROVE  Honest(s, i + 1, h)
BY Constants DEF Honest, Snapshot

LEMMA TravelsOn ==
  ASSUME NEW s \in Snapshot, NEW i \in Nat, NEW g \in Core, NEW h \in Core, NEW m, NEW gu,
         Moves(g, h), Travels(s, m, gu, i, g)
  PROVE  Travels(s, m, gu, i, h)
BY HonestStays DEF Travels

LEMMA TravelsAfterReboot ==
  ASSUME NEW s \in Snapshot, NEW i \in Nat, NEW g, NEW h, NEW m, NEW gu,
         Travels(s, m, gu, i, g)
  PROVE  Travels(s, m, gu, i + 1, h)
BY HonestAfterReboot DEF Travels

LEMMA MarkOn ==
  ASSUME NEW m \in Snapshot, NEW i \in Nat, NEW g \in Core, NEW h \in Core, NEW gu,
         Moves(g, h), i \in Followed(m, gu) \/ Idles(g, h), MarkOf(m, gu, i, g)
  PROVE  MarkOf(m, gu, i, h)
BY HonestStays DEF MarkOf, Idles

LEMMA MarkAfterReboot ==
  ASSUME NEW m \in Snapshot, NEW i \in Nat, NEW g, NEW h, NEW gu \in SUBSET Nat,
         Unasked(h), MarkOf(m, gu, i, g)
  PROVE  MarkOf(m, gu, i + 1, h)
<1>1. \A p \in gu : p <= i + 1
  BY DEF MarkOf
<1> QED
  BY <1>1, HonestAfterReboot DEF MarkOf

LEMMA OverOn ==
  ASSUME NEW l \in Nat \X Nat, NEW i \in Nat, NEW g \in Core, NEW h \in Core,
         Moves(g, h), Over(l, i, g)
  PROVE  Over(l, i, h)
BY Constants DEF Over, Moves, Core

LEMMA OverAfterReboot ==
  ASSUME NEW l \in Nat \X Nat, NEW i \in Nat, NEW g, NEW h, Over(l, i, g)
  PROVE  Over(l, i + 1, h)
BY DEF Over

\* What the Gate says at this moment travels as it should.
LEMMA SaidTravels ==
  ASSUME Types, NEW g \in Core, LeaseShape(g), NEW zero \in BOOLEAN,
         MarkOf(mark, gaveUp, inst, g)
  PROVE  /\ Said(g, zero) \in Snapshot
         /\ Said(g, zero).gate = inst /\ Said(g, zero).seq = g.seq
         /\ Travels(Said(g, zero), mark, gaveUp, inst, g)
<1> DEFINE s == Said(g, zero)
<1>1. /\ s.gate = inst /\ s.seq = g.seq /\ s.lease = g.lease /\ s.state = g.state
      /\ s \in Snapshot
  BY DEF Said, Snapshot, Core, Types, GateTypes
<1> HIDE DEF s
<1>2. inst \in Nat \ {0}
  BY Constants DEF Types, GateTypes
<1>3. Honest(s, inst, g)
  BY <1>1, <1>2, Constants DEF Honest, LeaseShape, Core
<1>4. s.gate \notin Followed(mark, gaveUp) => Unasked(s)
  BY <1>1 DEF MarkOf, Unasked
<1>5. s.gate = mark.gate => ~Overtaken(mark, gaveUp)
  <2>1. \A p \in gaveUp : p \in Nat /\ p <= inst
    BY Constants DEF MarkOf, Types, ClientTypeOK
  <2> QED
    BY <2>1, <1>1, <1>2 DEF Overtaken
<1> QED
  BY <1>1, <1>2, <1>3, <1>4, <1>5 DEF Travels, s

-----------------------------------------------------------------------------
(***************************************************************************)
(* The watermark takes a snapshot that was on the way.                     *)
(***************************************************************************)
LEMMA SeenTravels ==
  ASSUME NEW s \in Snapshot, NEW up \in BOOLEAN, NEW m, NEW gu, NEW i, NEW g,
         Travels(s, m, gu, i, g)
  PROVE  /\ Seen(s, up) \in Snapshot
         /\ Travels(Seen(s, up), m, gu, i, g)
         /\ <<Seen(s, up).gate, Seen(s, up).seq, Seen(s, up).lease, Seen(s, up).state,
              Seen(s, up).zsel, Seen(s, up).up>> = <<s.gate, s.seq, s.lease, s.state, s.zsel, up>>
<1>1. /\ Seen(s, up).gate = s.gate /\ Seen(s, up).seq = s.seq
      /\ Seen(s, up).lease = s.lease /\ Seen(s, up).state = s.state
      /\ Seen(s, up).zsel = s.zsel /\ Seen(s, up).up = up
  BY DEF Seen, Snapshot
<1>2. Seen(s, up) \in Snapshot
  BY DEF Seen, Snapshot
<1> QED
  BY <1>1, <1>2 DEF Travels, Honest, LeaseShape, Unasked

\* What is said of the watermark and of the snapshots on the way does not depend
\* on the endpoint.
LEMMA EndpointAside ==
  ASSUME NEW m \in Snapshot, NEW n \in Snapshot, NEW gu, NEW i, NEW g,
         n.gate = m.gate, n.seq = m.seq, n.lease = m.lease, n.state = m.state
  PROVE  /\ MarkOf(m, gu, i, g) => MarkOf(n, gu, i, g)
         /\ \A s : Travels(s, m, gu, i, g) => Travels(s, n, gu, i, g)
         /\ Followed(n, gu) = Followed(m, gu)
BY DEF MarkOf, Travels, Honest, LeaseShape, Unasked, Followed, Overtaken

\* The watermark moves to n, and gives up the processes of gw instead of gu.
Advances(m, gu, n, gw, i, g) ==
  /\ MarkOf(n, gw, i, g)
  /\ \A s \in Snapshot : Travels(s, m, gu, i, g) => Travels(s, n, gw, i, g)
  /\ Followed(m, gu) \subseteq Followed(n, gw)
  /\ n.gate = 0 => m.gate = 0
  /\ IF n.gate = m.gate THEN n.seq >= m.seq ELSE n.gate \notin gu /\ n.gate # 0

LEMMA MergedAdvances ==
  ASSUME Types, MarkOf(mark, gaveUp, inst, gate), NEW s \in Snapshot,
         Travels(s, mark, gaveUp, inst, gate)
  PROVE  /\ Merged(s) \in Snapshot /\ GivenUp(s) \subseteq 1..MaxInstance
         /\ Advances(mark, gaveUp, Merged(s), GivenUp(s), inst, gate)
         /\ Merged(s).gate # 0
<1>1. mark \in Snapshot /\ gaveUp \subseteq 1..MaxInstance /\ gaveUp \subseteq Nat
      /\ inst \in Nat \ {0}
  BY Constants DEF Types, ClientTypeOK, GateTypes
<1>2. CASE ~Accepts(s)
  <2>1. Merged(s) = mark /\ GivenUp(s) = gaveUp /\ mark.gate # 0
    BY <1>2 DEF Merged, GivenUp, Accepts
  <2> QED
    BY <2>1, <1>1, Constants DEF Advances, Snapshot
<1>3. CASE Accepts(s) /\ SameProcess(s) /\ SameTuple(s)
  <2>1. Merged(s) = [mark EXCEPT !.up = s.up, !.zpub = s.up /\ @ /\ s.zpub] /\ GivenUp(s) = gaveUp
    BY <1>3 DEF Merged, GivenUp
  <2>2. Merged(s) = [gate |-> mark.gate, seq |-> mark.seq, lease |-> mark.lease,
                     state |-> mark.state, zsel |-> mark.zsel,
                     zpub |-> s.up /\ mark.zpub /\ s.zpub, up |-> s.up]
    BY <2>1, <1>1 DEF Snapshot
  <2>3. Merged(s) \in Snapshot
    BY <2>2, <1>1 DEF Snapshot
  <2>4. /\ Merged(s).gate = mark.gate /\ Merged(s).seq = mark.seq
        /\ Merged(s).lease = mark.lease /\ Merged(s).state = mark.state
    BY <2>2
  <2>5. mark.gate # 0
    BY <1>3 DEF SameProcess, Travels
  <2>6. /\ MarkOf(Merged(s), gaveUp, inst, gate)
        /\ \A t : Travels(t, mark, gaveUp, inst, gate) => Travels(t, Merged(s), gaveUp, inst, gate)
        /\ Followed(Merged(s), gaveUp) = Followed(mark, gaveUp)
    BY <1>1, <2>3, <2>4, EndpointAside
  <2>7. mark.seq \in Nat
    BY <1>1, Constants DEF Snapshot
  <2> QED
    BY <2>1, <2>3, <2>4, <2>5, <2>6, <2>7, <1>1 DEF Advances
<1>4. CASE Accepts(s) /\ SameProcess(s) /\ ~SameTuple(s)
  <2>1. Merged(s) = s /\ GivenUp(s) = gaveUp /\ s.gate = mark.gate /\ s.gate # 0
    BY <1>4 DEF Merged, GivenUp, SameProcess, Travels
  <2>2. s.seq > mark.seq
    BY <1>4, <2>1 DEF Accepts
  <2>3. Followed(s, gaveUp) = Followed(mark, gaveUp) /\ Overtaken(s, gaveUp) = Overtaken(mark, gaveUp)
    BY <2>1 DEF Followed, Overtaken
  <2>4. MarkOf(s, gaveUp, inst, gate)
    BY <2>1, <2>3 DEF MarkOf, Travels
  <2>5. \A t \in Snapshot : Travels(t, mark, gaveUp, inst, gate) => Travels(t, s, gaveUp, inst, gate)
    BY <2>1, <2>3 DEF Travels
  <2> QED
    BY <2>1, <2>2, <2>3, <2>4, <2>5, <1>1, Constants DEF Advances, Snapshot
<1>5. CASE Accepts(s) /\ ~SameProcess(s) /\ mark.gate = 0
  <2>1. Merged(s) = s /\ GivenUp(s) = gaveUp /\ gaveUp = {} /\ s.gate # 0
    BY <1>5 DEF Merged, GivenUp, SameProcess, Travels, MarkOf
  <2>2. Followed(mark, gaveUp) = {} /\ ~Overtaken(s, {})
    BY <2>1, <1>5 DEF Followed, Overtaken
  <2>3. MarkOf(s, {}, inst, gate)
    BY <2>1, <2>2 DEF MarkOf, Travels
  <2>4. \A t \in Snapshot : Travels(t, mark, {}, inst, gate) => Travels(t, s, {}, inst, gate)
    BY <2>1, <2>2 DEF Travels
  <2> QED
    BY <2>1, <2>2, <2>3, <2>4, <1>1, <1>5 DEF Advances
<1>6. CASE Accepts(s) /\ ~SameProcess(s) /\ mark.gate # 0
  <2> DEFINE gw == gaveUp \cup {mark.gate}
  <2>1. /\ Merged(s) = s /\ GivenUp(s) = gw /\ s.gate # mark.gate
        /\ s.gate \notin gaveUp /\ s.gate # 0
    BY <1>6 DEF Merged, GivenUp, SameProcess, Accepts, Travels
  <2>2. Followed(s, gw) = Followed(mark, gaveUp) \cup {s.gate} /\ s.gate \notin Followed(mark, gaveUp)
    BY <2>1, <1>1 DEF Followed
  <2>3. mark.gate <= inst
    BY DEF MarkOf, Honest
  <2>4. MarkOf(s, gw, inst, gate)
    BY <2>1, <2>2, <2>3 DEF MarkOf, Travels
  <2>5. \A t \in Snapshot : Travels(t, mark, gaveUp, inst, gate) => Travels(t, s, gw, inst, gate)
    BY <2>1, <2>2 DEF Travels
  <2>6. gw \subseteq 1..MaxInstance
    <3>1. mark.gate \in 1..MaxInstance
      BY <1>1, <1>6, Constants DEF Snapshot
    <3> QED
      BY <3>1, <1>1
  <2> QED
    BY <2>1, <2>2, <2>4, <2>5, <2>6, <1>1, <1>6 DEF Advances
<1> QED
  BY <1>2, <1>3, <1>4, <1>5, <1>6

\* A look at the endpoint alone moves nothing.
LEMMA LostAdvances ==
  ASSUME Types, MarkOf(mark, gaveUp, inst, gate)
  PROVE  /\ Lost \in Snapshot
         /\ Advances(mark, gaveUp, Lost, gaveUp, inst, gate)
         /\ Advances(mark, gaveUp, mark, gaveUp, inst, gate)
         /\ Lost.state = mark.state /\ Lost.lease = mark.lease /\ Lost.gate = mark.gate
<1>1. mark \in Snapshot
  BY DEF Types, ClientTypeOK
<1>2. /\ Lost.gate = mark.gate /\ Lost.seq = mark.seq
      /\ Lost.lease = mark.lease /\ Lost.state = mark.state
  BY <1>1 DEF Lost, Snapshot
<1>3. Lost \in Snapshot
  BY <1>1 DEF Lost, Snapshot
<1> QED
  BY <1>1, <1>2, <1>3, EndpointAside, Constants DEF Advances, Snapshot

LEMMA RefreshedAdvances ==
  ASSUME Types, MarkOf(mark, gaveUp, inst, gate), Refreshed
  PROVE  /\ mark' \in Snapshot /\ sampled' \in BOOLEAN /\ gaveUp' = gaveUp
         /\ Advances(mark, gaveUp, mark', gaveUp', inst, gate)
<1>1. mark \in Snapshot /\ sampled \in BOOLEAN
  BY DEF Types, ClientTypeOK
<1>2. PICK up \in BOOLEAN :
        /\ mark' = IF ~up THEN Lost ELSE [mark EXCEPT !.up = @ \/ sampled]
        /\ sampled' = (sampled /\ up)
        /\ UNCHANGED gaveUp
  BY DEF Refreshed
<1>3. CASE ~up
  BY <1>1, <1>2, <1>3, LostAdvances
<1>4. CASE up
  <2>1. mark' = [gate |-> mark.gate, seq |-> mark.seq, lease |-> mark.lease,
                 state |-> mark.state, zsel |-> mark.zsel, zpub |-> mark.zpub,
                 up |-> mark.up \/ sampled]
    BY <1>1, <1>2, <1>4 DEF Snapshot
  <2>2. mark' \in Snapshot
    BY <1>1, <2>1 DEF Snapshot
  <2> QED
    BY <1>1, <1>2, <2>1, <2>2, EndpointAside, Constants DEF Advances, Snapshot
<1> QED
  BY <1>3, <1>4

-----------------------------------------------------------------------------
(***************************************************************************)
(* The invariant is kept by a step of the client if what the step brings   *)
(* in, an answer taken, a request made or a lease ended, is as it says.    *)
(***************************************************************************)
AnyCall == Call \cup {NoCall, Cleared}

LEMMA CallKept ==
  ASSUME NEW k, NEW fol, NEW fol2, fol \subseteq fol2, NEW i, NEW g \in Core, NEW h \in Core,
         g.seq <= h.seq, k \in AnyCall, CallOf(k, fol, i, g)
  PROVE  CallOf(k, fol2, i, h)
<1>1. CASE k \in Call
  <2>1. k.live[2] \in 0..MaxSeq
    BY <1>1 DEF Call
  <2> QED
    BY <1>1, <2>1, Constants DEF CallOf, Core
<1>2. CASE k \in {NoCall, Cleared}
  BY <1>2 DEF CallOf, NoCall, Cleared
<1> QED
  BY <1>1, <1>2 DEF AnyCall

LEMMA CallAfterReboot ==
  ASSUME NEW k, NEW fol, NEW i \in Nat, NEW g, NEW h, k \in AnyCall, CallOf(k, fol, i, g)
  PROVE  CallOf(k, fol, i + 1, h)
<1>1. CASE k \in Call
  <2>1. k.live[1] \in Nat
    BY <1>1, Constants DEF Call
  <2> QED
    BY <1>1, <2>1 DEF CallOf
<1>2. CASE k \in {NoCall, Cleared}
  BY <1>2 DEF CallOf, NoCall, Cleared
<1> QED
  BY <1>1, <1>2 DEF AnyCall

LEMMA WayTyped ==
  ASSUME Types, CallsInv
  PROVE  OnTheWay \subseteq Snapshot
BY DEF Types, ClientTypeOK, CallsInv, CallOf, OnTheWay, Response

LEMMA ClientSide ==
  ASSUME IInv, UNCHANGED <<inst, gate, opening>>,
         Advances(mark, gaveUp, mark', gaveUp', inst, gate),
         \A s \in OnTheWay' : s \in OnTheWay \/ (s \in Snapshot /\ Travels(s, mark, gaveUp, inst, gate)),
         \A c \in Thread : call'[c] = call[c] \/ CallOf(call'[c], Followed(mark', gaveUp'), inst, gate),
         queue' = queue \/ (\A n \in 1..Len(queue') : ItemOf(queue'[n], Followed(mark', gaveUp'))),
         \A l \in ended' : l \in ended \/ Over(l, inst, gate)
  PROVE  MarkInv' /\ WayInv' /\ CallsInv' /\ QueueInv' /\ OpeningInv' /\ EndedInv'
<1>1. /\ MarkOf(mark', gaveUp', inst, gate)
      /\ \A s \in Snapshot : Travels(s, mark, gaveUp, inst, gate) => Travels(s, mark', gaveUp', inst, gate)
      /\ Followed(mark, gaveUp) \subseteq Followed(mark', gaveUp')
  BY DEF Advances
<1>2. MarkInv'
  BY <1>1 DEF MarkInv, IInv
<1>3. WayInv'
  <2>1. \A s \in OnTheWay' : s \in Snapshot /\ Travels(s, mark, gaveUp, inst, gate)
    BY WayTyped DEF IInv, WayInv
  <2> QED
    BY <1>1, <2>1 DEF WayInv
<1>4. CallsInv'
  <2>1. \A c \in Thread : CallOf(call'[c], Followed(mark', gaveUp'), inst, gate)
    <3> SUFFICES ASSUME NEW c \in Thread, call'[c] = call[c]
                 PROVE  CallOf(call'[c], Followed(mark', gaveUp'), inst, gate)
      OBVIOUS
    <3>1. call[c] \in AnyCall /\ gate \in Core
      BY DEF IInv, Types, ClientTypeOK, GateTypes, AnyCall
    <3>2. CallOf(call[c], Followed(mark, gaveUp), inst, gate) /\ gate.seq <= gate.seq
      BY <3>1, Constants DEF IInv, CallsInv, Core
    <3> QED
      BY <1>1, <3>1, <3>2, CallKept
  <2> QED
    BY <2>1 DEF CallsInv
<1>5. QueueInv'
  <2>1. CASE queue' = queue
    BY <2>1, <1>1 DEF QueueInv, IInv, ItemOf
  <2>2. CASE \A n \in 1..Len(queue') : ItemOf(queue'[n], Followed(mark', gaveUp'))
    BY <2>2 DEF QueueInv
  <2> QED
    BY <2>1, <2>2
<1>6. OpeningInv'
  BY <1>1 DEF OpeningInv, IInv
<1>7. EndedInv'
  BY DEF EndedInv, IInv
<1> QED
  BY <1>2, <1>3, <1>4, <1>5, <1>6, <1>7

-----------------------------------------------------------------------------
(***************************************************************************)
(* The callers.                                                            *)
(***************************************************************************)
LEMMA MarkNamed ==
  ASSUME IInv, mark.gate # 0
  PROVE  mark.gate \in 1..MaxInstance /\ mark.gate \in Followed(mark, gaveUp)
BY Constants DEF IInv, Types, ClientTypeOK, Snapshot, Followed

LEMMA MarkTyped ==
  ASSUME IInv
  PROVE  /\ mark.seq \in 0..MaxSeq /\ mark.lease \in 0..Alien /\ held.lease \in 0..Alien
         /\ held.seq \in 0..MaxSeq /\ Alien \in 0..Alien /\ 0 \in 0..Alien
         /\ \A q : HeldFor(q) \in 0..Alien
         /\ mark.state # "faulted" => mark.gate # 0
<1>1. mark \in Snapshot /\ held \in Hold
  BY DEF IInv, Types, ClientTypeOK
<1> QED
  BY <1>1, Constants DEF Snapshot, Hold, HeldFor, Alien, IInv, MarkInv, MarkOf

LEMMA MarkRests ==
  ASSUME IInv, UNCHANGED <<mark, gaveUp>>
  PROVE  Advances(mark, gaveUp, mark', gaveUp', inst, gate)
BY LostAdvances DEF IInv, MarkInv

\* Every operation asks for a process the client followed, under the lease that
\* is really in force.
LEMMA BeginKeeps ==
  ASSUME IInv, NEW c \in Thread, NEW op \in Operation, NEW bound \in BOOLEAN,
         NEW home \in 1..MaxInstance, NEW expected \in 0..MaxSeq, NEW lease \in 0..Alien,
         home \in Followed(mark, gaveUp),
         Begin(c, op, bound, home, expected, lease),
         held' \in Hold, held'.gate \in Followed(mark, gaveUp) \cup {0}
  PROVE  IInv'
<1>1. PICK id \in RequestId \ used :
        LET r == [id |-> id, op |-> op, gate |-> home, expected |-> expected, lease |-> lease]
        IN /\ used' = used \cup {id}
           /\ call' = [call EXCEPT ![c] =
                  [step |-> "ready", bound |-> bound, asked |-> r, req |-> r,
                   tries |-> 0, got |-> NoResponse, live |-> <<inst, gate.lease>>]]
           /\ answer' = NoAnswer
           /\ UNCHANGED <<inst, cache, gate, opening, mark, gaveUp, sampled, flight,
                          queue, done, ended>>
  BY DEF Begin
<1> DEFINE r == [id |-> id, op |-> op, gate |-> home, expected |-> expected, lease |-> lease]
           k == [step |-> "ready", bound |-> bound, asked |-> r, req |-> r,
                 tries |-> 0, got |-> NoResponse, live |-> <<inst, gate.lease>>]
<1>2. r \in Request /\ r.gate = home
  BY DEF Request
<1>3. inst \in 1..MaxInstance /\ gate \in Core /\ call \in [Thread -> AnyCall]
  BY DEF IInv, Types, GateTypes, ClientTypeOK, AnyCall
<1>4. k \in Call
  <2>1. <<inst, gate.lease>> \in (1..MaxInstance) \X (0..MaxSeq)
    BY <1>3 DEF Core
  <2>2. 0 \in 0..MaxTries
    BY Constants
  <2> HIDE DEF r
  <2> QED
    BY <1>2, <2>1, <2>2 DEF Call
<1>5. CallOf(k, Followed(mark, gaveUp), inst, gate)
  <2>1. gate.lease <= gate.seq /\ inst <= inst
    BY <1>3, Constants DEF IInv, MarkInv, LeaseShape
  <2> QED
    BY <1>2, <2>1 DEF CallOf
<1>6. call' = [call EXCEPT ![c] = k]
  BY <1>1
<1>7. k.step = "ready"
  OBVIOUS
<1> HIDE DEF k, r
<1>8. call' \in [Thread -> AnyCall] /\ (\A t \in Thread : call'[t] = IF t = c THEN k ELSE call[t])
  BY <1>3, <1>4, <1>6 DEF AnyCall
<1>9. Types'
  BY <1>1, <1>8 DEF IInv, Types, GateTypes, ClientTypeOK, AnyCall
<1>10. \A s \in OnTheWay' : s \in OnTheWay
  BY <1>1, <1>7, <1>8 DEF OnTheWay
<1>11. HeldInv'
  <2>1. mark.gate # 0
    BY DEF Followed, IInv, MarkInv, MarkOf
  <2> QED
    BY <1>1, <2>1 DEF HeldInv
<1>12. MarkInv' /\ WayInv' /\ CallsInv' /\ QueueInv' /\ OpeningInv' /\ EndedInv'
  BY <1>1, <1>5, <1>8, <1>10, MarkRests, ClientSide
<1> QED
  BY <1>9, <1>11, <1>12 DEF IInv

LEMMA CallersKeep ==
  ASSUME IInv, Prepare \/ Open \/ Renew \/ InhibitGeneration \/ InhibitCurrent
  PROVE  IInv'
<1>1. held \in Hold /\ held.gate \in Followed(mark, gaveUp) \cup {0}
  BY DEF IInv, Types, ClientTypeOK, HeldInv
<1>2. "worker" \in Thread /\ "stopper" \in Thread
  BY DEF Thread
<1>3. (held.phase # "none" \/ call["worker"].step = "cleared") => mark.gate # 0
  BY DEF IInv, HeldInv
<1>4. CASE Prepare
  <2>1. mark.gate # 0
    BY <1>3, <1>4 DEF Prepare, Cleared
  <2> QED
    BY <1>1, <1>2, <1>4, <2>1, MarkNamed, MarkTyped, BeginKeeps DEF Prepare, Operation
<1>5. CASE Open
  <2>1. mark.gate # 0
    BY <1>3, <1>5 DEF Open
  <2> QED
    BY <1>1, <1>2, <1>5, <2>1, MarkNamed, MarkTyped, BeginKeeps DEF Open, Operation
<1>6. CASE Renew
  <2>1. mark.gate # 0
    BY <1>3, <1>6 DEF Renew
  <2> QED
    BY <1>1, <1>2, <1>6, <2>1, MarkNamed, MarkTyped, BeginKeeps DEF Renew, Operation
<1>7. CASE InhibitGeneration
  <2> DEFINE home == IF held.gate # 0 THEN held.gate ELSE mark.gate
             known == mark.gate = home
             shut == held.gate # 0 /\ known /\ mark.state = "inhibited"
             expected == IF known THEN mark.seq ELSE held.seq
             lease == IF shut THEN 0 ELSE HeldFor(home)
  <2>1. /\ held.phase \in {"prepared", "opened", "ending"}
        /\ held' = [held EXCEPT !.phase = "ending"]
        /\ Begin("stopper", "inhibit", held.gate # 0, home, expected, lease)
    BY <1>7 DEF InhibitGeneration
  <2>2. mark.gate # 0
    BY <1>3, <2>1
  <2>3. home \in 1..MaxInstance /\ home \in Followed(mark, gaveUp)
    BY <1>1, <2>2, MarkNamed, Constants DEF Hold
  <2>4. expected \in 0..MaxSeq /\ lease \in 0..Alien /\ (held.gate # 0) \in BOOLEAN
    BY MarkTyped
  <2>5. held' \in Hold /\ held'.gate = held.gate
    BY <1>1, <2>1 DEF Hold
  <2> HIDE DEF home, expected, lease
  <2>6. "inhibit" \in Operation
    BY DEF Operation
  <2> QED
    BY <1>1, <1>2, <2>1, <2>3, <2>4, <2>5, <2>6, BeginKeeps
<1>8. CASE InhibitCurrent
  <2>1. mark.gate # 0
    BY <1>8, MarkTyped DEF InhibitCurrent
  <2>2. held' \in Hold /\ held'.gate = held.gate
    BY <1>1, <1>8 DEF Hold, InhibitCurrent
  <2> QED
    BY <1>1, <1>2, <1>8, <2>1, <2>2, MarkNamed, MarkTyped, BeginKeeps DEF InhibitCurrent, Operation
<1> QED
  BY <1>4, <1>5, <1>6, <1>7, <1>8

LEMMA PrepareClearsKeeps ==
  ASSUME IInv, PrepareClears
  PROVE  IInv'
<1>1. /\ call' = [call EXCEPT !["worker"] = Cleared] /\ CompleteZero(mark)
      /\ UNCHANGED <<inst, cache, gate, opening, mark, gaveUp, sampled, flight,
                     queue, held, used, done, ended>>
  BY DEF PrepareClears
<1>2. call \in [Thread -> AnyCall] /\ Cleared \in AnyCall /\ "worker" \in Thread
  BY DEF IInv, Types, ClientTypeOK, AnyCall, Thread
<1>3. call' \in [Thread -> AnyCall]
      /\ (\A t \in Thread : call'[t] = IF t = "worker" THEN Cleared ELSE call[t])
  BY <1>1, <1>2
<1>4. Types'
  BY <1>1, <1>3 DEF IInv, Types, GateTypes, ClientTypeOK, AnyCall
<1>5. \A s \in OnTheWay' : s \in OnTheWay
  BY <1>1, <1>3 DEF OnTheWay, Cleared
<1>6. HeldInv'
  BY <1>1, MarkTyped DEF HeldInv, IInv, CompleteZero
<1>7. CallOf(Cleared, Followed(mark, gaveUp), inst, gate)
  BY DEF CallOf, Cleared
<1>8. MarkInv' /\ WayInv' /\ CallsInv' /\ QueueInv' /\ OpeningInv' /\ EndedInv'
  BY <1>1, <1>3, <1>5, <1>7, MarkRests, ClientSide
<1> QED
  BY <1>4, <1>6, <1>8 DEF IInv

LEMMA ResetKeeps ==
  ASSUME IInv, Reset
  PROVE  IInv'
<1>1. /\ held' = NoHold /\ call["worker"] = NoCall
      /\ UNCHANGED <<inst, cache, gate, opening, mark, gaveUp, sampled, flight,
                     queue, call, used, done, ended>>
  BY DEF Reset
<1>2. NoHold \in Hold
  BY Constants DEF Hold, NoHold
<1>3. Types'
  BY <1>1, <1>2 DEF IInv, Types, GateTypes, ClientTypeOK
<1>4. \A s \in OnTheWay' : s \in OnTheWay
  BY <1>1 DEF OnTheWay
<1>5. HeldInv'
  BY <1>1 DEF HeldInv, NoHold, NoCall
<1>6. MarkInv' /\ WayInv' /\ CallsInv' /\ QueueInv' /\ OpeningInv' /\ EndedInv'
  BY <1>1, <1>4, MarkRests, ClientSide
<1> QED
  BY <1>3, <1>5, <1>6 DEF IInv

-----------------------------------------------------------------------------
(***************************************************************************)
(* Samples, the endpoint and the attempts.                                 *)
(***************************************************************************)
\* The generation stays with a process the client followed.
LEMMA HeldRests ==
  ASSUME IInv, held' = held, call'["worker"].step # "cleared" \/ call'["worker"] = call["worker"],
         Advances(mark, gaveUp, mark', gaveUp', inst, gate)
  PROVE  HeldInv'
BY DEF IInv, HeldInv, Advances

LEMMA RefreshKeeps ==
  ASSUME IInv, Refresh
  PROVE  IInv'
<1>1. /\ Refreshed
      /\ UNCHANGED <<inst, cache, gate, opening, flight, queue, call, held, used, done, ended>>
  BY DEF Refresh
<1>2. /\ mark' \in Snapshot /\ sampled' \in BOOLEAN /\ gaveUp' = gaveUp
      /\ Advances(mark, gaveUp, mark', gaveUp', inst, gate)
  BY <1>1, RefreshedAdvances DEF IInv, MarkInv
<1>3. Types'
  BY <1>1, <1>2 DEF IInv, Types, GateTypes, ClientTypeOK
<1>4. \A s \in OnTheWay' : s \in OnTheWay
  BY <1>1 DEF OnTheWay
<1>5. HeldInv'
  BY <1>1, <1>2, HeldRests
<1>6. MarkInv' /\ WayInv' /\ CallsInv' /\ QueueInv' /\ OpeningInv' /\ EndedInv'
  BY <1>1, <1>2, <1>4, ClientSide
<1> QED
  BY <1>3, <1>5, <1>6 DEF IInv

\* The snapshot merged was on the way, and was seen together with the graph.
LEMMA MergeAdvances ==
  ASSUME IInv, NEW s \in OnTheWay, NEW up \in BOOLEAN, Merge(Seen(s, up))
  PROVE  /\ mark' \in Snapshot /\ sampled' \in BOOLEAN /\ gaveUp' \subseteq 1..MaxInstance
         /\ mark' = Merged(Seen(s, up)) /\ mark'.gate # 0
         /\ Advances(mark, gaveUp, mark', gaveUp', inst, gate)
<1>1. s \in Snapshot /\ Travels(s, mark, gaveUp, inst, gate)
  BY WayTyped DEF IInv, WayInv
<1>2. /\ Seen(s, up) \in Snapshot /\ Seen(s, up).up = up
      /\ Travels(Seen(s, up), mark, gaveUp, inst, gate)
  BY <1>1, SeenTravels
<1>3. sampled' \in BOOLEAN
  BY <1>2 DEF Merge, IInv, Types, ClientTypeOK
<1> QED
  BY <1>2, <1>3, MergedAdvances DEF Merge, IInv, MarkInv

LEMMA OnGateStateKeeps ==
  ASSUME IInv, NEW s \in flight, NEW up \in BOOLEAN, OnGateState(s, up)
  PROVE  IInv'
<1>1. /\ flight' = flight \ {s} /\ Merge(Seen(s, up))
      /\ UNCHANGED <<inst, cache, gate, opening, queue, call, held, used, done, ended>>
  BY DEF OnGateState
<1>2. s \in OnTheWay
  BY DEF OnTheWay
<1>3. /\ mark' \in Snapshot /\ sampled' \in BOOLEAN /\ gaveUp' \subseteq 1..MaxInstance
      /\ Advances(mark, gaveUp, mark', gaveUp', inst, gate)
  BY <1>1, <1>2, MergeAdvances
<1>4. Types'
  BY <1>1, <1>3 DEF IInv, Types, GateTypes, ClientTypeOK
<1>5. \A t \in OnTheWay' : t \in OnTheWay
  BY <1>1 DEF OnTheWay
<1>6. HeldInv'
  BY <1>1, <1>3, HeldRests
<1>7. MarkInv' /\ WayInv' /\ CallsInv' /\ QueueInv' /\ OpeningInv' /\ EndedInv'
  BY <1>1, <1>3, <1>5, ClientSide
<1> QED
  BY <1>4, <1>6, <1>7 DEF IInv

LEMMA PublishStateKeeps ==
  ASSUME IInv, PublishState
  PROVE  IInv'
<1>1. UNCHANGED <<inst, cache, gate, opening, mark, gaveUp, sampled, queue, call,
                  held, used, done, ended>>
  BY DEF PublishState
<1>2. gate \in Core /\ gate.moving \in BOOLEAN
  BY DEF IInv, Types, GateTypes, Core
<1>3. PICK zero \in BOOLEAN :
        \/ flight' = flight \cup {Said(gate, zero)}
        \/ \E old \in flight : flight' = (flight \ {old}) \cup {Said(gate, zero)}
  <2>1. {~gate.moving} \subseteq BOOLEAN
    OBVIOUS
  <2> QED
    BY <2>1 DEF PublishState
<1>4. Said(gate, zero) \in Snapshot /\ Travels(Said(gate, zero), mark, gaveUp, inst, gate)
  BY <1>2, SaidTravels DEF IInv, MarkInv
<1>5. \A s \in flight' : s \in flight \/ s = Said(gate, zero)
  BY <1>3
<1>6. Types'
  BY <1>1, <1>4, <1>5 DEF IInv, Types, GateTypes, ClientTypeOK
<1>7. \A s \in OnTheWay' : s \in OnTheWay \/ s = Said(gate, zero)
  BY <1>1, <1>5 DEF OnTheWay
<1>8. HeldInv'
  BY <1>1, MarkRests, HeldRests
<1>9. MarkInv' /\ WayInv' /\ CallsInv' /\ QueueInv' /\ OpeningInv' /\ EndedInv'
  BY <1>1, <1>4, <1>7, MarkRests, ClientSide
<1> QED
  BY <1>6, <1>8, <1>9 DEF IInv

LEMMA SendKeeps ==
  ASSUME IInv, NEW c \in Thread, Send(c)
  PROVE  IInv'
<1> DEFINE k == call[c]
           item == [by |-> c, asked |-> k.asked.id, try |-> k.tries + 1,
                    home |-> IF k.bound THEN k.asked.gate ELSE 0, req |-> k.req]
           j == [k EXCEPT !.step = "sent", !.tries = @ + 1]
<1>1. /\ k.step = "ready" /\ k.tries < MaxTries
      /\ Refreshed \/ UNCHANGED <<mark, gaveUp, sampled>>
      /\ queue' = Append(queue, item)
      /\ call' = [call EXCEPT ![c].step = "sent", ![c].tries = @ + 1]
      /\ UNCHANGED <<inst, cache, gate, opening, flight, held, used, done, ended>>
  BY DEF Send
<1>2. call \in [Thread -> AnyCall] /\ queue \in Seq(Item)
  BY DEF IInv, Types, ClientTypeOK, AnyCall
<1>3. k \in Call
  BY <1>1, <1>2 DEF AnyCall, NoCall, Cleared
<1>4. /\ mark' \in Snapshot /\ sampled' \in BOOLEAN /\ gaveUp' = gaveUp
      /\ Advances(mark, gaveUp, mark', gaveUp', inst, gate)
  BY <1>1, RefreshedAdvances, MarkRests DEF IInv, MarkInv, Types, ClientTypeOK
<1>5. k.tries + 1 \in 1..MaxTries
  BY <1>1, <1>3, Constants DEF Call
<1>6. /\ j.step = "sent" /\ j.asked = k.asked /\ j.req = k.req
      /\ j.bound = k.bound /\ j.live = k.live
  BY <1>3 DEF Call
<1>7. j \in Call
  <2>1. k.tries + 1 \in 0..MaxTries
    BY <1>5, Constants
  <2> QED
    BY <1>3, <2>1 DEF Call
<1>8. CallOf(k, Followed(mark, gaveUp), inst, gate)
  BY DEF IInv, CallsInv
<1>9. CallOf(j, Followed(mark', gaveUp'), inst, gate)
  BY <1>1, <1>4, <1>6, <1>8 DEF CallOf, Advances
<1>10. item \in Item /\ ItemOf(item, Followed(mark', gaveUp'))
  <2>1. k.asked \in Request /\ k.req \in Request /\ k.bound \in BOOLEAN
    BY <1>3 DEF Call
  <2>2. k.asked.id \in RequestId /\ k.asked.gate \in 0..MaxInstance
    BY <2>1, Constants DEF Request
  <2>3. item \in Item
    BY <2>1, <2>2, <1>5, Constants DEF Item
  <2>4. ItemOf(item, Followed(mark', gaveUp'))
    BY <1>1, <1>4, <1>8 DEF CallOf, ItemOf, Advances
  <2> QED
    BY <2>3, <2>4
<1>11. j.step = "sent"
  BY <1>6
<1>12. call' = [call EXCEPT ![c] = j]
  BY <1>1
<1> HIDE DEF j, k, item
<1>13. call' \in [Thread -> AnyCall] /\ (\A t \in Thread : call'[t] = IF t = c THEN j ELSE call[t])
  BY <1>2, <1>7, <1>12 DEF AnyCall
<1>14. queue' \in Seq(Item)
  BY <1>1, <1>2, <1>10
<1>15. \A n \in 1..Len(queue') : ItemOf(queue'[n], Followed(mark', gaveUp'))
  <2> SUFFICES ASSUME NEW n \in 1..Len(queue')
               PROVE  ItemOf(queue'[n], Followed(mark', gaveUp'))
    OBVIOUS
  <2>1. CASE n = Len(queue) + 1
    BY <1>1, <1>2, <1>10, <2>1
  <2>2. CASE n \in 1..Len(queue)
    <3>1. queue'[n] = queue[n]
      BY <1>1, <1>2, <1>10, <2>2
    <3> QED
      BY <3>1, <2>2, <1>4 DEF QueueInv, IInv, ItemOf, Advances
  <2> QED
    BY <1>1, <1>2, <1>10, <2>1, <2>2
<1>16. Types'
  BY <1>1, <1>4, <1>13, <1>14 DEF IInv, Types, GateTypes, ClientTypeOK, AnyCall
<1>17. \A s \in OnTheWay' : s \in OnTheWay
  BY <1>1, <1>11, <1>13 DEF OnTheWay
<1>18. HeldInv'
  <2>1. call'["worker"].step # "cleared" \/ call'["worker"] = call["worker"]
    BY <1>11, <1>13 DEF Thread
  <2> QED
    BY <1>1, <1>4, <2>1, HeldRests
<1>19. MarkInv' /\ WayInv' /\ CallsInv' /\ QueueInv' /\ OpeningInv' /\ EndedInv'
  BY <1>1, <1>4, <1>9, <1>13, <1>15, <1>17, ClientSide
<1> QED
  BY <1>16, <1>18, <1>19 DEF IInv

\* A result in hand: the generation it makes is one of a process the client
\* followed, and a lease it ends is over.
LEMMA FinishKeeps ==
  ASSUME IInv, NEW c \in Thread, call[c] \in Call, NEW res, Finish(c, res),
         Advances(mark, gaveUp, mark', gaveUp', inst, gate), mark' \in Snapshot,
         res.snap = mark', res.lease \in 0..MaxSeq, res.by \in 0..MaxInstance,
         mark'.gate # 0 \/ (~res.applied /\ res.lease = 0 /\ mark'.lease = 0),
         call[c].asked.op = "inhibit" /\ ProvesZero(call[c].asked, res) =>
           Over(call[c].live, inst, gate)
  PROVE  /\ call' \in [Thread -> AnyCall]
         /\ \A t \in Thread : call'[t] = IF t = c THEN NoCall ELSE call[t]
         /\ held' \in Hold /\ HeldInv'
         /\ ended' \subseteq (1..MaxInstance) \X (0..MaxSeq)
         /\ \A l \in ended' : l \in ended \/ Over(l, inst, gate)
<1> DEFINE k == call[c]
           proof == k.asked.op = "inhibit" /\ ProvesZero(k.asked, res)
<1>1. /\ call' = [call EXCEPT ![c] = NoCall]
      /\ ended' = IF proof THEN ended \cup {k.live} ELSE ended
      /\ held' = CASE k.asked.op = "prepare" -> AfterPrepare(res)
                   [] k.asked.op \in {"open", "renew"} -> AfterDrive(k.asked, res)
                   [] k.asked.op = "inhibit" -> AfterInhibit(k.asked, proof)
  BY DEF Finish
<1>2. /\ call \in [Thread -> AnyCall] /\ held \in Hold /\ NoCall \in AnyCall
      /\ ended \subseteq (1..MaxInstance) \X (0..MaxSeq)
  BY DEF IInv, Types, ClientTypeOK, AnyCall
<1>3. call' \in [Thread -> AnyCall] /\ (\A t \in Thread : call'[t] = IF t = c THEN NoCall ELSE call[t])
  BY <1>1, <1>2
<1>4. k.live \in (1..MaxInstance) \X (0..MaxSeq) /\ k.asked.op \in Operation
  BY DEF Call, Request
<1>5. ended' \subseteq (1..MaxInstance) \X (0..MaxSeq)
      /\ (\A l \in ended' : l \in ended \/ Over(l, inst, gate))
  BY <1>1, <1>2, <1>4
<1> DEFINE Kept(h) == /\ h \in Hold /\ h.gate \in Followed(mark', gaveUp') \cup {0}
                      /\ h.phase # "none" => mark'.gate # 0
<1>6. Kept(held) /\ (\A p : held.phase # "none" /\ p \in {"prepared", "opened", "ending", "proven", "rearming"}
                              => Kept([held EXCEPT !.phase = p]))
  <2>1. held.gate \in Followed(mark', gaveUp') \cup {0} /\ (held.phase # "none" => mark'.gate # 0)
    BY DEF IInv, HeldInv, Advances
  <2>2. ASSUME NEW p, held.phase # "none", p \in {"prepared", "opened", "ending", "proven", "rearming"}
        PROVE  Kept([held EXCEPT !.phase = p])
    BY <1>2, <2>1, <2>2 DEF Hold
  <2> QED
    BY <1>2, <2>1, <2>2
<1>7. Kept(NoHold)
  BY Constants DEF Hold, NoHold
<1>8. Kept(AfterPrepare(res))
  <2> DEFINE valid == /\ res.applied /\ res.zero
                      /\ res.snap.state = "prepared" /\ res.snap.zsel /\ res.snap.zpub
             l == IF res.lease # 0 THEN [lease |-> res.lease, by |-> res.by]
                  ELSE [lease |-> res.snap.lease, by |-> res.snap.gate]
             h == [phase |-> IF valid THEN "prepared" ELSE "ending",
                   gate |-> IF valid THEN res.snap.gate ELSE 0,
                   seq |-> IF valid THEN res.snap.seq ELSE 0,
                   lease |-> l.lease, by |-> l.by]
  <2>1. AfterPrepare(res) = IF l.lease = 0 THEN NoHold ELSE h
    BY DEF AfterPrepare
  <2>2. l.lease \in 0..MaxSeq /\ l.by \in 0..MaxInstance
    BY DEF Snapshot
  <2>3. l.lease # 0 => mark'.gate # 0
    OBVIOUS
  <2>4. mark'.gate \in 0..MaxInstance /\ mark'.seq \in 0..MaxSeq
    BY DEF Snapshot
  <2> HIDE DEF valid, l
  <2>5. h \in Hold
    BY <2>2, <2>4, Constants DEF Hold
  <2>6. h.gate \in Followed(mark', gaveUp') \cup {0}
    BY DEF Followed
  <2> QED
    BY <2>1, <2>3, <2>5, <2>6, <1>7
<1>9. Kept(AfterDrive(k.asked, res))
  BY <1>6 DEF AfterDrive
<1>10. Kept(AfterInhibit(k.asked, proof))
  <2> HIDE DEF proof, Kept
  <2>1. CASE held.phase = "ending" /\ proof
    BY <1>6, <2>1 DEF AfterInhibit
  <2>2. CASE held.phase = "rearming"
    BY <1>6, <1>7, <2>2 DEF AfterInhibit
  <2>3. CASE ~(held.phase = "ending" /\ proof) /\ held.phase # "rearming"
    BY <1>6, <2>3 DEF AfterInhibit
  <2> QED
    BY <2>1, <2>2, <2>3
<1>11. Kept(held')
  <2> HIDE DEF Kept, proof
  <2> QED
    BY <1>1, <1>4, <1>8, <1>9, <1>10 DEF Operation
<1>12. HeldInv'
  <2>1. call'["worker"].step = "cleared" => mark'.gate # 0
    BY <1>3 DEF Thread, NoCall, IInv, HeldInv, Advances
  <2> QED
    BY <1>11, <2>1 DEF HeldInv
<1> QED
  BY <1>3, <1>5, <1>11, <1>12

\* An answer merged that leaves a complete zero in the watermark: the lease that
\* was in force when the operation began is over.
LEMMA ProofEnds ==
  ASSUME IInv, NEW c \in Thread, call[c].step = "answered", call[c] \in Call, NEW up \in BOOLEAN,
         LET s == Seen(call[c].got.snap, up)
         IN  Merged(s).state = "inhibited" /\ (Accepts(s) \/ Merged(s).seq # 0)
  PROVE  Over(call[c].live, inst, gate)
<1> DEFINE k == call[c]
           s0 == k.got.snap
           s == Seen(s0, up)
           l == k.live
<1>1. s0 \in OnTheWay /\ s0 \in Snapshot
  BY WayTyped DEF OnTheWay, IInv
<1>2. Travels(s0, mark, gaveUp, inst, gate)
  BY <1>1 DEF IInv, WayInv
<1>3. /\ s \in Snapshot /\ s.gate = s0.gate /\ s.seq = s0.seq
      /\ s.lease = s0.lease /\ s.state = s0.state
  BY <1>1, <1>2, SeenTravels
<1>4. /\ l[1] <= inst /\ (l[1] = inst => l[2] <= gate.seq)
      /\ s0.gate > l[1] \/ (s0.gate = l[1] /\ s0.seq >= l[2])
  BY DEF IInv, CallsInv, CallOf
<1>5. /\ l[1] \in Nat /\ l[2] \in Nat /\ inst \in Nat /\ gate \in Core
      /\ gate.lease \in Nat /\ s0.gate \in Nat /\ s0.seq \in Nat
      /\ mark \in Snapshot /\ mark.gate \in Nat /\ mark.seq \in Nat
  BY <1>1, Constants DEF Call, IInv, Types, GateTypes, ClientTypeOK, Core, Snapshot
<1> SUFFICES ASSUME l[2] # 0, l[1] = inst, l[2] = gate.lease
             PROVE  FALSE
  BY <1>4, <1>5 DEF Over
<1>6. s0.gate <= inst
  BY <1>2 DEF Travels, Honest
<1>7. s0.gate = inst /\ s0.seq >= gate.lease
  BY <1>4, <1>5, <1>6
<1>8. s0.state \in {"prepared", "armed"}
  BY <1>2, <1>7 DEF Travels, Honest, LeaseShape
<1>9. MarkOf(mark, gaveUp, inst, gate)
  BY DEF IInv, MarkInv
<1>10. Merged(s).state = "inhibited" /\ (Accepts(s) \/ Merged(s).seq # 0)
  OBVIOUS
<1> HIDE DEF s, s0, l, k
<1>11. CASE Accepts(s) /\ SameProcess(s) /\ SameTuple(s)
  <2>1. Merged(s).state = mark.state /\ mark.state = s.state
    BY <1>5, <1>11 DEF Merged, SameTuple, Snapshot
  <2> QED
    BY <2>1, <1>3, <1>8, <1>10
<1>12. CASE Accepts(s) /\ ~(SameProcess(s) /\ SameTuple(s))
  <2>1. Merged(s) = s
    BY <1>12 DEF Merged
  <2> QED
    BY <2>1, <1>3, <1>8, <1>10
<1>13. CASE ~Accepts(s)
  <2>1. Merged(s) = mark /\ mark.state = "inhibited" /\ mark.seq # 0
    BY <1>10, <1>13 DEF Merged
  <2>2. ~Unasked(mark) /\ ~Overtaken(mark, gaveUp)
    BY <2>1, <1>9 DEF Unasked, MarkOf
  <2>3. CASE mark.gate = inst
    <3>1. ~(s.seq > mark.seq)
      BY <1>3, <1>7, <1>13, <2>3 DEF Accepts, SameProcess
    <3>2. mark.seq >= gate.lease
      BY <3>1, <1>3, <1>5, <1>7
    <3>3. mark.lease = gate.lease
      BY <3>2, <2>3, <1>9 DEF MarkOf, Honest
    <3> QED
      BY <3>3, <2>1, <1>9 DEF MarkOf, Honest, LeaseShape
  <2>4. CASE mark.gate # inst
    <3>1. inst \in gaveUp
      BY <1>3, <1>7, <1>13, <2>4 DEF Accepts, SameProcess
    <3>2. mark.gate <= inst
      BY <1>9 DEF MarkOf, Honest
    <3> QED
      BY <3>1, <3>2, <2>2, <2>4, <1>5 DEF Overtaken
  <2> QED
    BY <2>3, <2>4
<1> QED
  BY <1>11, <1>12, <1>13

\* What a step of an attempt keeps, once its watermark, its call and its result
\* are known to be in order.
LEMMA AttemptKeeps ==
  ASSUME IInv, NEW c \in Thread, NEW k \in AnyCall, k.step \in {"idle", "ready"},
         Advances(mark, gaveUp, mark', gaveUp', inst, gate),
         mark' \in Snapshot, sampled' \in BOOLEAN, gaveUp' \subseteq 1..MaxInstance,
         UNCHANGED <<inst, cache, gate, opening, flight, queue, used, done>>,
         call' \in [Thread -> AnyCall],
         \A t \in Thread : call'[t] = IF t = c THEN k ELSE call[t],
         CallOf(k, Followed(mark', gaveUp'), inst, gate),
         held' \in Hold, HeldInv', ended' \subseteq (1..MaxInstance) \X (0..MaxSeq),
         \A l \in ended' : l \in ended \/ Over(l, inst, gate)
  PROVE  IInv'
<1>1. Types'
  BY DEF IInv, Types, GateTypes, ClientTypeOK, AnyCall
<1>2. \A s \in OnTheWay' : s \in OnTheWay
  BY DEF OnTheWay
<1>3. MarkInv' /\ WayInv' /\ CallsInv' /\ QueueInv' /\ OpeningInv' /\ EndedInv'
  BY <1>2, ClientSide
<1> QED
  BY <1>1, <1>3 DEF IInv

LEMMA ReceiveKeeps ==
  ASSUME IInv, NEW c \in Thread, NEW up \in BOOLEAN, Receive(c, up)
  PROVE  IInv'
<1> DEFINE k == call[c]
           s0 == k.got.snap
           s == Seen(s0, up)
           ok == Accepts(s)
           res == [applied |-> ok /\ k.got.code \in {"applied", "duplicate"},
                   zero |-> /\ s0.state # "armed" /\ s0.zsel /\ s0.zpub,
                   stale |-> ~ok \/ k.got.why = "stale",
                   snap |-> Merged(s),
                   lease |-> s0.lease, by |-> s0.gate]
           j == [call[c] EXCEPT !.step = "ready", !.got = NoResponse, !.req = Rebuilt(k, res)]
<1>1. /\ k.step = "answered" /\ Merge(s)
      /\ UNCHANGED <<inst, cache, gate, opening, flight, queue, used, done>>
  BY DEF Receive
<1>2. \/ Finish(c, Revoked(res))
      \/ Finish(c, res)
      \/ /\ ~LeavesHome(k, res)
         /\ call' = [call EXCEPT ![c].step = "ready", ![c].got = NoResponse,
                                 ![c].req = Rebuilt(k, res)]
         /\ UNCHANGED <<held, ended>>
  BY DEF Receive
<1>3. call \in [Thread -> AnyCall] /\ k \in AnyCall
  BY DEF IInv, Types, ClientTypeOK, AnyCall
<1>4. k \in Call
  BY <1>1, <1>3 DEF AnyCall, NoCall, Cleared
<1>5. CallOf(k, Followed(mark, gaveUp), inst, gate)
  BY DEF IInv, CallsInv
<1>6. s0 \in OnTheWay /\ s0 \in Snapshot
  BY <1>1, WayTyped DEF OnTheWay, IInv
<1>7. /\ mark' \in Snapshot /\ sampled' \in BOOLEAN /\ gaveUp' \subseteq 1..MaxInstance
      /\ mark' = Merged(s) /\ mark'.gate # 0
      /\ Advances(mark, gaveUp, mark', gaveUp', inst, gate)
  BY <1>1, <1>6, MergeAdvances
<1>8. s0.lease \in 0..MaxSeq /\ s0.gate \in 0..MaxInstance
  BY <1>6 DEF Snapshot
<1>9. ASSUME NEW r, Finish(c, r), r.snap = mark', r.lease = s0.lease, r.by = s0.gate,
             k.asked.op = "inhibit" /\ ProvesZero(k.asked, r) => Over(k.live, inst, gate)
      PROVE  IInv'
  <2> HIDE DEF s
  <2>1. /\ call' \in [Thread -> AnyCall]
        /\ \A t \in Thread : call'[t] = IF t = c THEN NoCall ELSE call[t]
        /\ held' \in Hold /\ HeldInv'
        /\ ended' \subseteq (1..MaxInstance) \X (0..MaxSeq)
        /\ \A l \in ended' : l \in ended \/ Over(l, inst, gate)
    <3> HIDE DEF s0
    <3>1. r.lease \in 0..MaxSeq /\ r.by \in 0..MaxInstance
      BY <1>8, <1>9
    <3> QED
      BY <1>4, <1>7, <1>9, <3>1, FinishKeeps
  <2>2. NoCall \in AnyCall /\ NoCall.step \in {"idle", "ready"}
        /\ CallOf(NoCall, Followed(mark', gaveUp'), inst, gate)
    BY DEF AnyCall, NoCall, CallOf
  <2> QED
    BY <1>1, <1>7, <2>1, <2>2, AttemptKeeps
<1>10. CASE Finish(c, Revoked(res))
  <2>1. /\ Revoked(res).snap = mark' /\ Revoked(res).lease = s0.lease
        /\ Revoked(res).by = s0.gate /\ Revoked(res).zero = FALSE
    <3>1. res.snap = mark' /\ res.lease = s0.lease /\ res.by = s0.gate
      BY <1>7
    <3> HIDE DEF s0, s
    <3> QED
      BY <3>1 DEF Revoked
  <2>2. ~ProvesZero(k.asked, Revoked(res))
    BY <2>1 DEF ProvesZero
  <2> QED
    BY <1>9, <1>10, <2>1, <2>2
<1>11. CASE Finish(c, res)
  <2>1. res.snap = mark' /\ res.lease = s0.lease /\ res.by = s0.gate
    BY <1>7
  <2>2. ASSUME k.asked.op = "inhibit", ProvesZero(k.asked, res)
        PROVE  Over(k.live, inst, gate)
    <3>1. Merged(s).state = "inhibited"
      BY <2>2 DEF ProvesZero, CompleteZero
    <3>2. k.asked.expected \in Nat
      BY <1>4, Constants DEF Call, Request
    <3>3. res.applied \/ Merged(s).seq > k.asked.expected
      BY <2>2 DEF ProvesZero
    <3>4. ok \/ Merged(s).seq # 0
      <4>1. Merged(s).seq \in Nat
        BY <1>7, Constants DEF Snapshot
      <4>2. res.applied => ok
        OBVIOUS
      <4> HIDE DEF res, ok, s
      <4> QED
        BY <3>2, <3>3, <4>1, <4>2
    <3> QED
      BY <1>1, <1>4, <3>1, <3>4, ProofEnds
  <2> QED
    BY <1>9, <1>11, <2>1, <2>2
<1>12. CASE /\ ~LeavesHome(k, res)
            /\ call' = [call EXCEPT ![c].step = "ready", ![c].got = NoResponse,
                                    ![c].req = Rebuilt(k, res)]
            /\ UNCHANGED <<held, ended>>
  <2>1. res.snap = mark'
    BY <1>7
  <2> HIDE DEF res, s, s0, ok
  <2>2. /\ mark'.gate \in 1..MaxInstance /\ mark'.seq \in 0..MaxSeq
        /\ mark'.lease \in 0..Alien /\ 0 \in 0..Alien /\ mark'.gate \in Followed(mark', gaveUp')
    BY <1>7, Constants DEF Snapshot, Alien, Followed
  <2>3. k.req \in Request
    BY <1>4 DEF Call
  <2>4. /\ Rebuilt(k, res) \in Request
        /\ Rebuilt(k, res).gate = IF res.stale /\ res.snap.up THEN mark'.gate ELSE k.req.gate
    <3>1. CASE res.stale /\ res.snap.up
      <4> DEFINE l == IF k.req.op = "prepare" THEN 0 ELSE res.snap.lease
      <4>1. Rebuilt(k, res) = [k.req EXCEPT !.gate = res.snap.gate, !.expected = res.snap.seq,
                                            !.lease = l]
        BY <3>1 DEF Rebuilt
      <4>2. l \in 0..Alien
        BY <2>1, <2>2
      <4> HIDE DEF l
      <4> QED
        BY <2>1, <2>2, <2>3, <3>1, <4>1, <4>2 DEF Request
    <3>2. CASE ~(res.stale /\ res.snap.up)
      BY <2>3, <3>2 DEF Rebuilt
    <3> QED
      BY <3>1, <3>2
  <2>5. /\ j.step = "ready" /\ j.asked = k.asked /\ j.req = Rebuilt(k, res)
        /\ j.bound = k.bound /\ j.live = k.live
    BY <1>4 DEF Call
  <2>6. j \in Call
    BY <1>4, <2>4 DEF Call
  <2>7. CallOf(j, Followed(mark', gaveUp'), inst, gate)
    <3>1. /\ k.asked.gate \in Followed(mark', gaveUp') /\ k.req.gate \in Followed(mark', gaveUp')
          /\ k.bound => k.req.gate = k.asked.gate
          /\ k.live[1] <= inst
          /\ k.live[1] = inst => k.live[2] <= gate.seq
      BY <1>1, <1>5, <1>7 DEF CallOf, Advances
    <3>2. k.bound /\ res.stale /\ res.snap.up => mark'.gate = k.req.gate
      BY <1>12, <2>1 DEF LeavesHome
    <3> HIDE DEF j, k
    <3> QED
      BY <2>2, <2>4, <2>5, <3>1, <3>2 DEF CallOf
  <2>8. call' = [call EXCEPT ![c] = j]
    BY <1>12
  <2> HIDE DEF j
  <2>9. call' \in [Thread -> AnyCall] /\ (\A t \in Thread : call'[t] = IF t = c THEN j ELSE call[t])
    BY <1>3, <2>6, <2>8 DEF AnyCall
  <2>10. HeldInv'
    <3>1. call'["worker"].step # "cleared" \/ call'["worker"] = call["worker"]
      BY <2>5, <2>9 DEF Thread
    <3> QED
      BY <1>7, <1>12, <3>1, HeldRests
  <2>11. held' \in Hold /\ ended' \subseteq (1..MaxInstance) \X (0..MaxSeq)
    BY <1>12 DEF IInv, Types, ClientTypeOK
  <2>12. \A l \in ended' : l \in ended \/ Over(l, inst, gate)
    BY <1>12
  <2>13. j \in AnyCall /\ j.step \in {"idle", "ready"}
    BY <2>5, <2>6 DEF AnyCall
  <2> QED
    BY <1>1, <1>7, <2>7, <2>9, <2>10, <2>11, <2>12, <2>13, AttemptKeeps
<1> QED
  BY <1>2, <1>10, <1>11, <1>12

LEMMA TimesOutKeeps ==
  ASSUME IInv, NEW c \in Thread, NEW up \in BOOLEAN, TimesOut(c, up)
  PROVE  IInv'
<1> DEFINE k == call[c]
           res == [applied |-> FALSE, zero |-> FALSE, stale |-> FALSE,
                   snap |-> mark', lease |-> 0, by |-> 0]
           j == [call[c] EXCEPT !.step = "ready", !.got = NoResponse]
<1>1. /\ Busy(c)
      /\ mark' = IF up THEN mark ELSE Lost
      /\ \/ /\ call' = [call EXCEPT ![c].step = "ready", ![c].got = NoResponse]
            /\ UNCHANGED <<held, ended>>
         \/ Finish(c, res)
      /\ UNCHANGED <<inst, cache, gate, opening, gaveUp, sampled, flight, queue, used, done>>
  BY DEF TimesOut
<1>2. call \in [Thread -> AnyCall] /\ k \in AnyCall
  BY DEF IInv, Types, ClientTypeOK, AnyCall
<1>3. k \in Call
  BY <1>1, <1>2 DEF AnyCall, NoCall, Cleared, Busy
<1>4. CallOf(k, Followed(mark, gaveUp), inst, gate)
  BY DEF IInv, CallsInv
<1>5. /\ mark' \in Snapshot /\ sampled' \in BOOLEAN /\ gaveUp' \subseteq 1..MaxInstance
      /\ Advances(mark, gaveUp, mark', gaveUp', inst, gate)
      /\ mark'.gate = mark.gate /\ mark'.lease = mark.lease
  BY <1>1, LostAdvances DEF IInv, MarkInv, Types, ClientTypeOK
<1>6. CASE Finish(c, res)
  <2>1. mark'.gate # 0 \/ mark'.lease = 0
    BY <1>5 DEF IInv, MarkInv, MarkOf, Honest, LeaseShape
  <2>2. /\ ~res.applied /\ res.lease = 0 /\ res.by = 0 /\ res.snap = mark'
        /\ ~ProvesZero(k.asked, res)
    BY DEF ProvesZero
  <2>3. res.lease \in 0..MaxSeq /\ res.by \in 0..MaxInstance
    BY Constants
  <2> HIDE DEF res
  <2>4. /\ call' \in [Thread -> AnyCall]
        /\ \A t \in Thread : call'[t] = IF t = c THEN NoCall ELSE call[t]
        /\ held' \in Hold /\ HeldInv'
        /\ ended' \subseteq (1..MaxInstance) \X (0..MaxSeq)
        /\ \A l \in ended' : l \in ended \/ Over(l, inst, gate)
    BY <1>3, <1>5, <1>6, <2>1, <2>2, <2>3, FinishKeeps
  <2>5. NoCall \in AnyCall /\ NoCall.step \in {"idle", "ready"}
        /\ CallOf(NoCall, Followed(mark', gaveUp'), inst, gate)
    BY DEF AnyCall, NoCall, CallOf
  <2> QED
    BY <1>1, <1>5, <2>4, <2>5, AttemptKeeps
<1>7. CASE /\ call' = [call EXCEPT ![c].step = "ready", ![c].got = NoResponse]
           /\ UNCHANGED <<held, ended>>
  <2>1. /\ j.step = "ready" /\ j.asked = k.asked /\ j.req = k.req
        /\ j.bound = k.bound /\ j.live = k.live
    BY <1>3 DEF Call
  <2>2. j \in Call
    BY <1>3 DEF Call
  <2>3. CallOf(j, Followed(mark', gaveUp'), inst, gate)
    BY <1>1, <1>4, <1>5, <2>1 DEF CallOf, Advances, Busy
  <2>4. call' = [call EXCEPT ![c] = j]
    BY <1>7
  <2> HIDE DEF j
  <2>5. call' \in [Thread -> AnyCall] /\ (\A t \in Thread : call'[t] = IF t = c THEN j ELSE call[t])
    BY <1>2, <2>2, <2>4 DEF AnyCall
  <2>6. HeldInv'
    <3>1. call'["worker"].step # "cleared" \/ call'["worker"] = call["worker"]
      BY <2>1, <2>5 DEF Thread
    <3> QED
      BY <1>5, <1>7, <3>1, HeldRests
  <2>7. held' \in Hold /\ ended' \subseteq (1..MaxInstance) \X (0..MaxSeq)
    BY <1>7 DEF IInv, Types, ClientTypeOK
  <2>8. \A l \in ended' : l \in ended \/ Over(l, inst, gate)
    BY <1>7
  <2>9. j \in AnyCall /\ j.step \in {"idle", "ready"}
    BY <2>1, <2>2 DEF AnyCall
  <2> QED
    BY <1>1, <1>5, <2>3, <2>5, <2>6, <2>7, <2>8, <2>9, AttemptKeeps
<1> QED
  BY <1>1, <1>6, <1>7

-----------------------------------------------------------------------------
(***************************************************************************)
(* The steps of the Gate.                                                  *)
(***************************************************************************)
\* The core moves; call may receive the answer, which tells how it moved.
LEMMA GateSide ==
  ASSUME IInv, Moved, gate' \in Core, inst' = inst, ClientRests,
         NEW c \in Thread, NEW k,
         call' = call \/ (/\ \A t \in Thread : call'[t] = IF t = c THEN k ELSE call[t]
                          /\ CallOf(k, Followed(mark, gaveUp), inst, gate')
                          /\ k.step = "answered"
                          /\ k.got.snap \in Snapshot
                          /\ Travels(k.got.snap, mark, gaveUp, inst, gate'))
  PROVE  MarkInv' /\ WayInv' /\ CallsInv' /\ HeldInv' /\ EndedInv'
<1>1. /\ mark' = mark /\ gaveUp' = gaveUp /\ flight' = flight /\ held' = held /\ ended' = ended
  BY DEF ClientRests
<1>2. /\ mark \in Snapshot /\ inst \in Nat /\ gate \in Core /\ ended \subseteq Nat \X Nat
      /\ call \in [Thread -> AnyCall]
  BY Constants DEF IInv, Types, ClientTypeOK, GateTypes, AnyCall
<1>3. Moves(gate, gate') /\ (inst \in Followed(mark, gaveUp) \/ Idles(gate, gate'))
  BY DEF Moved
<1>4. MarkInv'
  <2>1. MarkOf(mark, gaveUp, inst, gate')
    BY <1>2, <1>3, MarkOn DEF IInv, MarkInv
  <2> QED
    BY <1>1, <1>3, <2>1 DEF MarkInv, Moves
<1>5. WayInv'
  <2>1. \A s \in OnTheWay : s \in Snapshot /\ Travels(s, mark, gaveUp, inst, gate')
    BY <1>2, <1>3, WayTyped, TravelsOn DEF IInv, WayInv
  <2>2. \A s \in OnTheWay' : s \in OnTheWay \/ Travels(s, mark, gaveUp, inst, gate')
    BY <1>1 DEF OnTheWay
  <2> QED
    BY <1>1, <2>1, <2>2 DEF WayInv
<1>6. CallsInv'
  <2>1. ASSUME NEW t \in Thread
        PROVE  CallOf(call[t], Followed(mark, gaveUp), inst, gate')
    <3>1. call[t] \in AnyCall /\ gate.seq <= gate'.seq
      BY <1>2, <1>3 DEF Moves
    <3>2. CallOf(call[t], Followed(mark, gaveUp), inst, gate)
      BY DEF IInv, CallsInv
    <3> QED
      BY <1>2, <3>1, <3>2, CallKept
  <2>2. \A t \in Thread : CallOf(call'[t], Followed(mark, gaveUp), inst, gate')
    BY <2>1
  <2> QED
    BY <1>1, <2>2 DEF CallsInv
<1>7. HeldInv'
  <2>1. call'["worker"].step = "cleared" => call["worker"].step = "cleared"
    BY DEF Thread
  <2> QED
    BY <1>1, <2>1 DEF HeldInv, IInv
<1>8. EndedInv'
  <2>1. \A l \in ended : Over(l, inst, gate')
    BY <1>2, <1>3, OverOn DEF IInv, EndedInv
  <2> QED
    BY <1>1, <2>1 DEF EndedInv
<1> QED
  BY <1>4, <1>5, <1>6, <1>7, <1>8

LEMMA HeadTyped ==
  ASSUME IInv, queue # <<>>
  PROVE  /\ Head(queue) \in Item /\ Tail(queue) \in Seq(Item)
         /\ Head(queue).req \in Request /\ Head(queue).by \in Thread
         /\ Head(queue).asked \in RequestId
         /\ ItemOf(Head(queue), Followed(mark, gaveUp))
         /\ \A n \in 1..Len(Tail(queue)) : ItemOf(Tail(queue)[n], Followed(mark, gaveUp))
<1>1. queue \in Seq(Item) /\ Len(queue) \in Nat /\ Len(queue) > 0
  BY DEF IInv, Types, ClientTypeOK
<1>2. Head(queue) = queue[1] /\ Head(queue) \in Item /\ Tail(queue) \in Seq(Item)
  BY <1>1
<1>3. \A n \in 1..Len(Tail(queue)) : Tail(queue)[n] = queue[n + 1] /\ n + 1 \in 1..Len(queue)
  BY <1>1
<1> QED
  BY <1>1, <1>2, <1>3 DEF Item, IInv, QueueInv

\* What serves a request: the core moved, and the answer is about it.
LEMMA ServeMoved ==
  ASSUME IInv, queue # <<>>, NEW m, m = Head(queue),
         Serve(m.req) \/ (opening = m.req /\ Opened)
  PROVE  /\ Moved /\ GoodAnswer /\ GateTypes' /\ inst' = inst /\ OpeningInv'
         /\ answer'.code = "applied" => m.req.gate = inst
<1>1. /\ GateTypes /\ LeaseShape(gate) /\ OpeningInv
      /\ m.req \in Request /\ m.req.gate \in Followed(mark, gaveUp)
  BY HeadTyped DEF IInv, Types, MarkInv, ItemOf
<1>2. CASE opening = m.req /\ Opened
  BY <1>1, <1>2, OpenedMoved DEF OpeningInv
<1>3. CASE Ready /\ Refuse(m.req)
  BY <1>1, <1>3, RefuseMoved DEF Ready, OpeningInv
<1>4. CASE Ready /\ Apply(m.req)
  BY <1>1, <1>4, ApplyMoved DEF Ready, OpeningInv
<1>5. CASE Ready /\ Decline(m.req)
  BY <1>1, <1>5, DeclineMoved DEF Ready, OpeningInv
<1> QED
  BY <1>2, <1>3, <1>4, <1>5 DEF Serve

LEMMA GateServesKeeps ==
  ASSUME IInv, GateServes
  PROVE  IInv'
<1> DEFINE m == Head(queue)
           c == m.by
           s == Said(gate', answer'.zero)
           got == [snap |-> s, code |-> answer'.code, why |-> answer'.why]
           k == [call[c] EXCEPT !.step = "answered", !.got = got]
<1>1. /\ queue # <<>> /\ queue' = Tail(queue)
      /\ Serve(m.req) \/ (opening = m.req /\ Opened)
      /\ done' = IF answer'.code = "applied" THEN done \cup {<<inst, m.asked>>} ELSE done
      /\ call' = Delivered(m, got)
      /\ ClientRests
  BY DEF GateServes
<1>2. m \in Item /\ c \in Thread /\ m.asked \in RequestId /\ Tail(queue) \in Seq(Item)
      /\ (\A n \in 1..Len(Tail(queue)) : ItemOf(Tail(queue)[n], Followed(mark, gaveUp)))
  BY <1>1, HeadTyped
<1>3. Moved /\ GoodAnswer /\ GateTypes' /\ inst' = inst /\ OpeningInv'
  <2> HIDE DEF m
  <2> QED
    BY <1>1, ServeMoved DEF m
<1>4. /\ gate' \in Core /\ LeaseShape(gate') /\ gate.seq <= gate'.seq
      /\ MarkOf(mark, gaveUp, inst, gate')
  <2>1. mark \in Snapshot /\ inst \in Nat /\ gate \in Core
    BY Constants DEF IInv, Types, ClientTypeOK, GateTypes
  <2> QED
    BY <1>3, <2>1, MarkOn DEF Moved, Moves, IInv, MarkInv
<1>5. /\ s \in Snapshot /\ s.gate = inst /\ s.seq = gate'.seq
      /\ Travels(s, mark, gaveUp, inst, gate')
  BY <1>3, <1>4, SaidTravels DEF IInv, GoodAnswer
<1>6. got \in Response
  <2> HIDE DEF s
  <2> QED
    BY <1>3, <1>5 DEF Response, GoodAnswer
<1> HIDE DEF s, got, m, c
<1>7. call \in [Thread -> AnyCall]
  BY DEF IInv, Types, ClientTypeOK, AnyCall
<1>8. CASE call' = call
  <2>1. Types'
    BY <1>1, <1>2, <1>3, <1>8 DEF IInv, Types, ClientTypeOK, GateTypes, ClientRests
  <2>2. MarkInv' /\ WayInv' /\ CallsInv' /\ HeldInv' /\ EndedInv'
    BY <1>1, <1>2, <1>3, <1>4, <1>8, GateSide
  <2>3. QueueInv'
    BY <1>1, <1>2 DEF QueueInv, ClientRests
  <2> QED
    BY <1>3, <2>1, <2>2, <2>3 DEF IInv
<1>9. CASE call[c].step = "sent" /\ call' = [call EXCEPT ![c].step = "answered", ![c].got = got]
  <2>1. call[c] \in Call
    BY <1>2, <1>7, <1>9 DEF AnyCall, NoCall, Cleared
  <2>2. /\ k.step = "answered" /\ k.asked = call[c].asked /\ k.req = call[c].req
        /\ k.bound = call[c].bound /\ k.live = call[c].live /\ k.got = got
    BY <2>1 DEF Call
  <2>3. k \in Call
    BY <1>6, <2>1 DEF Call
  <2>4. call' = [call EXCEPT ![c] = k]
    BY <1>9
  <2> HIDE DEF k
  <2>5. call' \in [Thread -> AnyCall] /\ (\A t \in Thread : call'[t] = IF t = c THEN k ELSE call[t])
    BY <1>2, <1>7, <2>3, <2>4 DEF AnyCall
  <2>6. got.snap = s
    BY DEF got
  <2>7. CallOf(k, Followed(mark, gaveUp), inst, gate')
    <3>1. CallOf(call[c], Followed(mark, gaveUp), inst, gate)
      BY <1>2 DEF IInv, CallsInv
    <3>2. /\ gate.seq \in Nat /\ gate'.seq \in Nat /\ inst \in Nat
          /\ call[c].live[1] \in Nat /\ call[c].live[2] \in Nat
      BY <1>4, <2>1, Constants DEF IInv, Types, GateTypes, Core, Call
    <3> QED
      BY <1>4, <1>5, <1>6, <1>9, <2>2, <2>6, <3>1, <3>2 DEF CallOf
  <2>8. Types'
    BY <1>1, <1>2, <1>3, <2>5 DEF IInv, Types, ClientTypeOK, GateTypes, ClientRests, AnyCall
  <2>9. MarkInv' /\ WayInv' /\ CallsInv' /\ HeldInv' /\ EndedInv'
    BY <1>1, <1>2, <1>3, <1>4, <1>5, <2>2, <2>5, <2>6, <2>7, GateSide
  <2>10. QueueInv'
    BY <1>1, <1>2 DEF QueueInv, ClientRests
  <2> QED
    BY <1>3, <2>8, <2>9, <2>10 DEF IInv
<1> QED
  BY <1>1, <1>8, <1>9 DEF Delivered, c

LEMMA GateActsKeep ==
  ASSUME IInv, GateBinds \/ GateChanges
  PROVE  IInv'
<1>1. ClientRests /\ UNCHANGED <<queue, call, done>>
  BY DEF GateBinds, GateChanges
<1>2. GateTypes /\ LeaseShape(gate)
  BY DEF IInv, Types, MarkInv
<1>3. Moved /\ GateTypes' /\ inst' = inst /\ OpeningInv'
  <2>1. CASE GateBinds
    <3>1. /\ queue # <<>> /\ Bind(Head(queue).req)
      BY <2>1 DEF GateBinds
    <3>2. Head(queue).req \in Request /\ Head(queue).req.gate \in Followed(mark, gaveUp)
      BY <3>1, HeadTyped DEF ItemOf
    <3>3. Moved /\ GateTypes' /\ inst' = inst /\ opening'.gate = inst /\ inst \in Followed(mark, gaveUp)
      BY <1>2, <3>1, <3>2, BindMoved
    <3> QED
      BY <1>1, <3>3 DEF OpeningInv, ClientRests
  <2>2. CASE GateChanges
    BY <1>1, <1>2, <2>2, ChangeMoved DEF GateChanges, OpeningInv, IInv, ClientRests
  <2> QED
    BY <2>1, <2>2
<1>4. Types'
  BY <1>1, <1>3 DEF IInv, Types, ClientTypeOK, GateTypes, ClientRests
<1>5. QueueInv'
  BY <1>1 DEF IInv, QueueInv, ClientRests
<1>6. MarkInv' /\ WayInv' /\ CallsInv' /\ HeldInv' /\ EndedInv'
  <2>1. gate' \in Core /\ "worker" \in Thread
    BY <1>3 DEF GateTypes, Thread
  <2> QED
    BY <1>1, <1>3, <2>1, GateSide
<1> QED
  BY <1>3, <1>4, <1>5, <1>6 DEF IInv

\* A new process is closed with nothing asked of it, or broke in its first barrier.
LEMMA FreshUnasked ==
  ASSUME NEW g \in {Fresh, Broken(Fresh)}
  PROVE  g \in Core /\ LeaseShape(g) /\ Unasked(g)
<1>1. Fresh \in Core /\ LeaseShape(Fresh) /\ Unasked(Fresh)
  BY Constants DEF Core, LeaseShape, Unasked, Fresh, Shut
<1>2. Moves(Fresh, Broken(Fresh)) /\ Idles(Fresh, Broken(Fresh))
  BY <1>1, BrokenMoves
<1> QED
  BY <1>1, <1>2 DEF Moves, Idles

LEMMA GateRebootsKeeps ==
  ASSUME IInv, GateReboots
  PROVE  IInv'
<1>1. /\ inst < MaxInstance /\ inst' = inst + 1
      /\ gate' \in {Fresh, Broken(Fresh)}
      /\ cache' = <<>> /\ opening' = NoRequest /\ queue' = <<>>
      /\ ClientRests /\ UNCHANGED <<call, done>>
  BY DEF GateReboots, Reboot
<1>2. gate' \in Core /\ LeaseShape(gate') /\ Unasked(gate')
  BY <1>1, FreshUnasked
<1>3. /\ mark' = mark /\ gaveUp' = gaveUp /\ flight' = flight /\ held' = held /\ ended' = ended
  BY <1>1 DEF ClientRests
<1>4. /\ mark \in Snapshot /\ inst \in Nat /\ gaveUp \in SUBSET Nat
      /\ ended \subseteq Nat \X Nat /\ call \in [Thread -> AnyCall]
  BY Constants DEF IInv, Types, ClientTypeOK, GateTypes, AnyCall
<1>5. Types'
  <2>1. inst' \in 1..MaxInstance
    BY <1>1, Constants DEF IInv, Types, GateTypes
  <2> QED
    BY <1>1, <1>2, <2>1 DEF IInv, Types, ClientTypeOK, GateTypes, ClientRests
<1>6. MarkInv'
  <2>1. MarkOf(mark, gaveUp, inst + 1, gate')
    BY <1>2, <1>4, MarkAfterReboot DEF IInv, MarkInv
  <2> QED
    BY <1>1, <1>2, <1>3, <2>1 DEF MarkInv
<1>7. WayInv'
  <2>1. \A s \in OnTheWay : Travels(s, mark, gaveUp, inst + 1, gate')
    BY <1>4, WayTyped, TravelsAfterReboot DEF IInv, WayInv
  <2>2. OnTheWay' = OnTheWay
    BY <1>1, <1>3 DEF OnTheWay
  <2> QED
    BY <1>1, <1>3, <2>1, <2>2 DEF WayInv
<1>8. CallsInv'
  <2>1. \A t \in Thread : CallOf(call[t], Followed(mark, gaveUp), inst + 1, gate')
    BY <1>4, CallAfterReboot DEF IInv, CallsInv
  <2> QED
    BY <1>1, <1>3, <2>1 DEF CallsInv
<1>9. HeldInv'
  BY <1>1, <1>3 DEF IInv, HeldInv
<1>10. QueueInv' /\ OpeningInv'
  BY <1>1 DEF QueueInv, OpeningInv
<1>11. EndedInv'
  <2>1. \A l \in ended : Over(l, inst + 1, gate')
    BY <1>4, OverAfterReboot DEF IInv, EndedInv
  <2> QED
    BY <1>1, <1>3, <2>1 DEF EndedInv
<1> QED
  BY <1>5, <1>6, <1>7, <1>8, <1>9, <1>10, <1>11 DEF IInv

-----------------------------------------------------------------------------
(***************************************************************************)
(* The invariant, and what it says of the client.                          *)
(***************************************************************************)
LEMMA InitInv ==
  ClientInit => IInv
<1> SUFFICES ASSUME ClientInit
             PROVE  IInv
  OBVIOUS
<1>1. /\ inst = 1 /\ gate \in Core /\ LeaseShape(gate) /\ Unasked(gate)
      /\ cache = <<>> /\ opening = NoRequest
      /\ mark = NoSnapshot /\ gaveUp = {} /\ sampled = FALSE
      /\ flight = {} /\ queue = <<>>
      /\ call = [c \in Thread |-> NoCall] /\ held = NoHold
      /\ used = {} /\ done = {} /\ ended = {}
  BY FreshUnasked DEF ClientInit, Init
<1>2. mark \in Snapshot /\ held \in Hold /\ inst \in 1..MaxInstance
  BY <1>1, Constants DEF Snapshot, NoSnapshot, Hold, NoHold
<1>3. Types
  <2>1. GateTypes
    BY <1>1, <1>2 DEF GateTypes
  <2>2. queue \in Seq(Item) /\ call \in [Thread -> Call \cup {NoCall, Cleared}]
    BY <1>1
  <2>3. /\ used \subseteq RequestId /\ done \subseteq (1..MaxInstance) \X RequestId
        /\ ended \subseteq (1..MaxInstance) \X (0..MaxSeq)
        /\ gaveUp \subseteq 1..MaxInstance /\ flight \subseteq Snapshot
    BY <1>1
  <2> QED
    BY <1>1, <1>2, <2>1, <2>2, <2>3 DEF Types, ClientTypeOK
<1>4. MarkOf(mark, gaveUp, inst, gate)
  <2>1. mark.gate = 0 /\ mark.lease = 0 /\ mark.seq = 0 /\ mark.state = "faulted"
    BY <1>1 DEF NoSnapshot
  <2> QED
    BY <1>1, <2>1 DEF MarkOf, Honest, LeaseShape, Unasked
<1>5. \A c \in Thread : call[c].step = "idle"
  BY <1>1 DEF NoCall
<1>6. OnTheWay = {}
  BY <1>1, <1>5 DEF OnTheWay
<1>7. CallsInv
  BY <1>5 DEF CallsInv, CallOf
<1>8. HeldInv
  BY <1>1, <1>5 DEF HeldInv, NoHold, Thread
<1> QED
  BY <1>1, <1>3, <1>4, <1>6, <1>7, <1>8
     DEF IInv, MarkInv, WayInv, QueueInv, OpeningInv, EndedInv

LEMMA StutterInv ==
  ASSUME IInv, UNCHANGED cvars
  PROVE  IInv'
<1> USE DEF cvars
<1>1. Types'
  BY DEF IInv, Types, GateTypes, ClientTypeOK
<1>2. MarkInv' /\ WayInv'
  BY DEF IInv, MarkInv, WayInv, OnTheWay
<1>3. CallsInv' /\ HeldInv'
  BY DEF IInv, CallsInv, HeldInv
<1>4. QueueInv' /\ OpeningInv' /\ EndedInv'
  BY DEF IInv, QueueInv, OpeningInv, EndedInv
<1> QED
  BY <1>1, <1>2, <1>3, <1>4 DEF IInv

LEMMA StepInv ==
  IInv /\ [ClientNext]_cvars => IInv'
<1> SUFFICES ASSUME IInv, [ClientNext]_cvars
             PROVE  IInv'
  OBVIOUS
<1>1. CASE PrepareClears
  BY <1>1, PrepareClearsKeeps
<1>2. CASE Prepare \/ Open \/ Renew \/ InhibitGeneration \/ InhibitCurrent
  BY <1>2, CallersKeep
<1>3. CASE Reset
  BY <1>3, ResetKeeps
<1>4. ASSUME NEW c \in Thread, Send(c)
      PROVE  IInv'
  BY <1>4, SendKeeps
<1>5. ASSUME NEW c \in Thread, NEW up \in BOOLEAN, Receive(c, up) \/ TimesOut(c, up)
      PROVE  IInv'
  BY <1>5, ReceiveKeeps, TimesOutKeeps
<1>6. CASE Refresh
  BY <1>6, RefreshKeeps
<1>7. ASSUME NEW s \in flight, NEW up \in BOOLEAN, OnGateState(s, up)
      PROVE  IInv'
  BY <1>7, OnGateStateKeeps
<1>8. CASE PublishState
  BY <1>8, PublishStateKeeps
<1>9. CASE GateServes
  BY <1>9, GateServesKeeps
<1>10. CASE GateBinds \/ GateChanges
  BY <1>10, GateActsKeep
<1>11. CASE GateReboots
  BY <1>11, GateRebootsKeeps
<1>12. CASE UNCHANGED cvars
  BY <1>12, StutterInv
<1> QED
  BY <1>1, <1>2, <1>3, <1>4, <1>5, <1>6, <1>7, <1>8, <1>9, <1>10, <1>11, <1>12 DEF ClientNext

LEMMA Invariance ==
  ClientSpec => []IInv
BY InitInv, StepInv, PTL DEF ClientSpec

\* Every variable of the client and of the Gate it talks to stays in its type,
\* in particular no request ever names the process 0 of the empty watermark.
THEOREM Typed ==
  ClientSpec => []ClientTypeOK
<1>1. IInv => ClientTypeOK
  BY DEF IInv, Types
<1> QED
  BY <1>1, Invariance, PTL

\* The watermark of motion_authority_ros_adapter is never ahead of the Gate, and
\* is right when it is up to date, however answers and samples overtake each
\* other and whatever process they come from.
THEOREM WatermarkIsTrue ==
  ClientSpec => []WatermarkTrue
<1>1. IInv => WatermarkTrue
  BY DEF IInv, MarkInv, MarkOf, Honest, WatermarkTrue
<1> QED
  BY <1>1, Invariance, PTL

\* A caller that holds a zero proof, by inhibit_result_proves_zero, holds it
\* against the very lease that was in force when it began its operation: that
\* lease never comes back, across retries, rebuilt tuples, timeouts and new Gate
\* processes.
THEOREM ProvenLeaseIsOver ==
  ClientSpec => []ProvenLeaseOver
<1>1. IInv => ProvenLeaseOver
  <2> SUFFICES ASSUME IInv, NEW l \in ended, l[2] # 0, l = <<inst, gate.lease>>
               PROVE  FALSE
    BY DEF ProvenLeaseOver
  <2>1. Over(l, inst, gate) /\ inst \in Nat
    BY Constants DEF IInv, EndedInv, Types, GateTypes
  <2>2. l[1] = inst /\ l[2] = gate.lease
    OBVIOUS
  <2> QED
    BY <2>1, <2>2 DEF Over
<1> QED
  BY <1>1, Invariance, PTL

\* How the watermark moves in a step.
LEMMA StepAdvances ==
  ASSUME IInv, [ClientNext]_cvars
  PROVE  IF mark'.gate = mark.gate THEN mark'.seq >= mark.seq
         ELSE mark'.gate \notin gaveUp /\ mark'.gate # 0
<1>1. MarkOf(mark, gaveUp, inst, gate) /\ Types
  BY DEF IInv, MarkInv
<1>2. CASE UNCHANGED <<mark, gaveUp>>
  BY <1>2, MarkRests DEF Advances
<1>3. ASSUME NEW c \in Thread, Send(c)
      PROVE  UNCHANGED <<mark, gaveUp>> \/ Refreshed
  BY <1>3 DEF Send
<1>4. CASE Refreshed
  BY <1>1, <1>4, RefreshedAdvances DEF Advances
<1>5. ASSUME NEW c \in Thread, NEW up \in BOOLEAN, Receive(c, up)
      PROVE  Advances(mark, gaveUp, mark', gaveUp', inst, gate)
  <2>1. call[c].step = "answered" /\ Merge(Seen(call[c].got.snap, up))
    BY <1>5 DEF Receive
  <2>2. call[c].got.snap \in OnTheWay
    BY <2>1 DEF OnTheWay
  <2> QED
    BY <2>1, <2>2, MergeAdvances
<1>6. ASSUME NEW c \in Thread, NEW up \in BOOLEAN, TimesOut(c, up)
      PROVE  Advances(mark, gaveUp, mark', gaveUp', inst, gate)
  BY <1>1, <1>6, LostAdvances DEF TimesOut
<1>7. ASSUME NEW s \in flight, NEW up \in BOOLEAN, OnGateState(s, up)
      PROVE  Advances(mark, gaveUp, mark', gaveUp', inst, gate)
  <2>1. s \in OnTheWay
    BY DEF OnTheWay
  <2> QED
    BY <1>7, <2>1, MergeAdvances DEF OnGateState
<1>8. CASE \/ PrepareClears \/ Prepare \/ Open \/ Renew \/ InhibitGeneration \/ InhibitCurrent
           \/ Reset \/ PublishState \/ GateServes \/ GateBinds \/ GateChanges \/ GateReboots
           \/ UNCHANGED cvars
  <2>1. UNCHANGED <<mark, gaveUp>>
    BY <1>8 DEF PrepareClears, Prepare, Open, Renew, InhibitGeneration, InhibitCurrent, Begin,
                Reset, PublishState, GateServes, GateBinds, GateChanges, GateReboots,
                ClientRests, cvars
  <2> QED
    BY <1>2, <2>1
<1>9. Advances(mark, gaveUp, mark', gaveUp', inst, gate) =>
        IF mark'.gate = mark.gate THEN mark'.seq >= mark.seq
        ELSE mark'.gate \notin gaveUp /\ mark'.gate # 0
  BY DEF Advances
<1>10. CASE Refresh
  BY <1>4, <1>10 DEF Refresh
<1> QED
  BY <1>2, <1>3, <1>4, <1>5, <1>6, <1>7, <1>8, <1>9, <1>10 DEF ClientNext

\* merge and retire_identity never let the watermark return, to an earlier
\* sequence or to a process it left.
THEOREM WatermarkNeverReturns ==
  ClientSpec => WatermarkAdvances
<1>1. IInv /\ [ClientNext]_cvars =>
        [IF mark'.gate = mark.gate THEN mark'.seq >= mark.seq
         ELSE mark'.gate \notin gaveUp /\ mark'.gate # 0]_cvars
  BY StepAdvances
<1> QED
  BY <1>1, Invariance, PTL DEF ClientSpec, WatermarkAdvances

\* A generation-bound operation that a retry rebuilt still names the process of
\* its generation, so that whoever applies it is that process.
THEOREM BoundStays ==
  ClientSpec => BoundStaysHome
<1>1. ASSUME IInv, ClientNext, answer'.code = "applied", Head(queue).home # 0
      PROVE  inst = Head(queue).home
  <2>1. CASE GateServes
    <3> DEFINE m == Head(queue)
    <3>1. queue # <<>> /\ (Serve(m.req) \/ (opening = m.req /\ Opened))
      BY <2>1 DEF GateServes
    <3>2. m.req.gate = m.home
      BY <1>1, <3>1, HeadTyped DEF ItemOf
    <3> HIDE DEF m
    <3>3. m.req.gate = inst
      BY <1>1, <3>1, ServeMoved DEF m
    <3> QED
      BY <3>2, <3>3 DEF m
  <2>2. CASE ~GateServes
    <3>1. \/ PrepareClears \/ Prepare \/ Open \/ Renew \/ InhibitGeneration \/ InhibitCurrent
          \/ Reset \/ Refresh \/ PublishState
          => answer' = NoAnswer
      BY DEF PrepareClears, Prepare, Open, Renew, InhibitGeneration, InhibitCurrent, Begin,
             Reset, Refresh, PublishState
    <3>2. \A c \in Thread : Send(c) => answer' = NoAnswer
      BY DEF Send
    <3>3. \A c \in Thread, up \in BOOLEAN : Receive(c, up) \/ TimesOut(c, up) => answer' = NoAnswer
      BY DEF Receive, TimesOut
    <3>4. \A s \in flight, up \in BOOLEAN : OnGateState(s, up) => answer' = NoAnswer
      BY DEF OnGateState
    <3>5. GateBinds \/ GateChanges \/ GateReboots => answer' = NoAnswer
      BY DEF GateBinds, Bind, GateChanges, Change, GateReboots, Reboot
    <3>6. answer' = NoAnswer
      BY <1>1, <2>2, <3>1, <3>2, <3>3, <3>4, <3>5 DEF ClientNext
    <3> QED
      BY <1>1, <3>6 DEF NoAnswer
  <2> QED
    BY <2>1, <2>2
<1>2. IInv /\ [ClientNext]_cvars =>
        [answer'.code = "applied" /\ Head(queue).home # 0 => inst = Head(queue).home]_cvars
  BY <1>1
<1> QED
  BY <1>2, Invariance, PTL DEF ClientSpec, BoundStaysHome

=============================================================================
