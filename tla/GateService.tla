----------------------------- MODULE GateService -----------------------------
(***************************************************************************)
(* The MotionGate as its client sees it.  Requests are served one at a     *)
(* time, a lease may end and the core may fault at any moment, and every   *)
(* answer carries the state it was given in.  Deadlines, readers, writers  *)
(* and publications are gone; MotionGate implements this module.           *)
(***************************************************************************)
EXTENDS GateRequests

VARIABLES
  gate,    \* what a snapshot of the core tells the client
  opening, \* the OPEN that is armed but not answered yet, or NoRequest
  answer   \* what this step answered, or NoAnswer

svars == <<inst, cache, gate, opening, answer>>

NoRequest == [op |-> "none"]
NoAnswer == [code |-> "none"]  \* zero in an answer: its barrier published zero last

\* moving is a moving command selected under an armed lease.
Core == [state : {"inhibited", "prepared", "armed", "faulted"},
         seq : 0..MaxSeq, lease : 0..MaxSeq, moving : BOOLEAN]

-----------------------------------------------------------------------------
Shut(state, seq) == [state |-> state, seq |-> seq, lease |-> 0, moving |-> FALSE]
Fresh == Shut("inhibited", 0)
Leased(g) == g.state \in {"prepared", "armed"}

\* Whatever ends on an exhausted control sequence ends in a fault.
Broken(g) ==
  IF g.state = "faulted" THEN g
  ELSE Shut("faulted", IF g.seq = MaxSeq THEN MaxSeq ELSE g.seq + 1)
Stepped(g) ==
  IF g.seq = MaxSeq THEN Shut("faulted", MaxSeq) ELSE [g EXCEPT !.seq = @ + 1]
\* Mutant of Ended: the lease ends without a new control sequence.
EndedInPlace(g) == Shut("inhibited", g.seq)

Ended(g) ==
  IF g.seq = MaxSeq THEN Shut("faulted", MaxSeq) ELSE Shut("inhibited", g.seq + 1)

\* A lease may turn out to be over when the request is looked at.
Found == {gate} \cup (IF Leased(gate) THEN {Ended(gate)} ELSE {})

\* The four operations on a core that a request fits.
Granted(g) ==
  LET h == Stepped(g)
  IN  IF h.state = "faulted" THEN h
      ELSE [h EXCEPT !.state = "prepared", !.lease = h.seq]

Applied(g, op) ==
  CASE op = "prepare" -> Granted(g)
    [] op = "renew" -> Stepped(g)
    [] op = "inhibit" -> IF Leased(g) THEN Ended(g) ELSE Stepped(g)

\* The barrier leaves the core at g or breaks it, and the answer says so.
Answered(g, r, code, why) ==
  \E h \in {g, Broken(g)} :
    /\ gate' = h
    /\ \E zero \in IF h.state = "faulted" THEN BOOLEAN ELSE {~h.moving} :
         answer' = [id |-> r.id, op |-> r.op, why |-> why, zero |-> zero,
                    code |-> IF h.state = "faulted" THEN "faulted" ELSE code]

Ready == opening = NoRequest

-----------------------------------------------------------------------------
\* Collision, replay, stale or refused.
Refuse(r) ==
  \E g \in Found :
    LET v == Verdict(g, r)
        first == CHOOSE i \in Cached(r) : TRUE
        why == IF v = "replay" THEN cache[first].why
               ELSE IF v = "stale" THEN "stale" ELSE "refused"
    IN
    /\ v # "fit"
    /\ Answered(g, r, IF v = "replay" THEN "duplicate" ELSE "rejected", why)
    /\ cache' = IF v \in {"collision", "replay"} THEN cache ELSE Remember(r, why)
    /\ UNCHANGED <<inst, opening>>

Apply(r) ==
  \E g \in Found :
    /\ r.op # "open"
    /\ Verdict(g, r) = "fit"
    /\ Answered(Applied(g, r.op), r, "applied", "none")
    /\ cache' = Remember(r, "none")
    /\ UNCHANGED <<inst, opening>>

\* PREPARE and OPEN may fail for what the graph shows.
Decline(r) ==
  /\ r.op \in {"prepare", "open"}
  /\ Verdict(gate, r) = "fit"
  /\ Answered(gate, r, "rejected", "refused")
  /\ cache' = Remember(r, "refused")
  /\ UNCHANGED <<inst, opening>>

\* OPEN arms the core before it is answered.
Bind(r) ==
  /\ r.op = "open"
  /\ Verdict(gate, r) = "fit"
  /\ gate.seq < MaxSeq
  /\ gate' = [gate EXCEPT !.state = "armed", !.seq = @ + 1]
  /\ opening' = r
  /\ cache' = Remember(r, "none")
  /\ answer' = NoAnswer
  /\ UNCHANGED inst

Opened ==
  /\ opening # NoRequest
  /\ \/ Answered(gate, opening, "applied", "none")
     \/ Answered(Broken(gate), opening, "faulted", "refused")
  /\ opening' = NoRequest
  /\ UNCHANGED <<inst, cache>>

Serve(r) == Ready /\ (Refuse(r) \/ Apply(r) \/ Decline(r))

\* A deadline, a sample or a failure: nobody is answered.
Change ==
  /\ Ready
  /\ answer' = NoAnswer
  /\ gate' \in Found \cup {Broken(g) : g \in Found}
                \cup {[gate EXCEPT !.moving = m] :
                        m \in {b \in BOOLEAN : gate.state = "armed"}}
  /\ UNCHANGED <<inst, cache, opening>>

Reboot ==
  /\ inst < MaxInstance
  /\ inst' = inst + 1
  /\ gate' \in {Fresh, Broken(Fresh)}
  /\ cache' = <<>> /\ opening' = NoRequest /\ answer' = NoAnswer

\* Nothing the client could see happens: a blocked handler waits.
Silent == answer' = NoAnswer /\ UNCHANGED <<inst, cache, gate, opening>>

Init ==
  /\ inst = 1
  /\ gate \in {Fresh, Broken(Fresh)}
  /\ cache = <<>> /\ opening = NoRequest /\ answer = NoAnswer

Next ==
  \/ Silent
  \/ Change
  \/ Opened
  \/ Reboot
  \/ \E r \in Request : Serve(r) \/ (Ready /\ Bind(r))

Spec == Init /\ [][Next]_svars
=============================================================================
