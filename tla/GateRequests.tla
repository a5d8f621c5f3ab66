---------------------------- MODULE GateRequests ----------------------------
(***************************************************************************)
(* The control protocol of the MotionGate (InternalMotionGateControl.srv   *)
(* and the request side of motion_gate_core.cpp): requests, the cache that *)
(* makes them idempotent, and the verdict on a request in a given state.   *)
(*                                                                         *)
(* A lease identifier is the control sequence at which PREPARE made it     *)
(* (make_lease_id is injective in it); 0 is the empty identifier and Alien *)
(* one that another Gate process made.                                     *)
(***************************************************************************)
EXTENDS Integers, Sequences

CONSTANTS
  RequestId,       \* request identifiers a client may use
  MaxSeq,          \* the largest control sequence (2^64-1 in the code)
  MaxInstance,     \* how many Gate processes a behaviour may see
  CacheSize        \* request_cache_size

ASSUME RequestAssumption ==
  /\ MaxSeq \in Nat
  /\ MaxInstance \in Nat \ {0}
  /\ CacheSize \in Nat \ {0}

VARIABLES
  inst,     \* the incarnation of the Gate process (gate_instance_id)
  cache     \* request_id_cache_ in request_cache_order_

Operation == {"prepare", "open", "renew", "inhibit"}

Alien == MaxSeq + 1

Request ==
  [id : RequestId, op : Operation, gate : 1..MaxInstance,
   expected : 0..MaxSeq, lease : 0..Alien]

Entry == [id : RequestId, op : Operation, why : {"none", "stale", "refused"},
          replay : BOOLEAN]

NoReply == [code |-> "none"]
Reply == [code : {"applied", "duplicate", "rejected", "faulted"},
          why : {"none", "stale", "refused"}, id : RequestId, op : Operation]

-----------------------------------------------------------------------------
(***************************************************************************)
(* The request cache and the checks common to the four operations.  g is   *)
(* any record with the state, seq and lease of the core.                   *)
(***************************************************************************)
Cached(r) == {i \in DOMAIN cache : cache[i].id = r.id}
Collides(r) == \E i \in Cached(r) : cache[i].op # r.op
\* Mutant of Replays: only refusals are remembered.
ReplaysRefusals(r) ==
  \E i \in Cached(r) : cache[i].op = r.op /\ cache[i].why = "refused"

Replays(r) == \E i \in Cached(r) : cache[i].op = r.op /\ cache[i].replay

\* Mutant of Remember: nothing is evicted.
RememberForever(r, why) ==
  IF Cached(r) # {} THEN cache
  ELSE Append(cache, [id |-> r.id, op |-> r.op, why |-> why, replay |-> why # "stale"])

Remember(r, why) ==
  LET entry == [id |-> r.id, op |-> r.op, why |-> why, replay |-> why # "stale"]
      room == IF Len(cache) >= CacheSize THEN Tail(cache) ELSE cache
  IN  IF Cached(r) = {} THEN Append(room, entry)
      ELSE [i \in DOMAIN cache |-> IF i \in Cached(r) THEN entry ELSE cache[i]]

LeaseRequired(g, op) ==
  op \in {"open", "renew"} \/ (op = "inhibit" /\ g.state # "inhibited")

RightState(g, op) ==
  /\ op = "prepare" => g.state = "inhibited"
  /\ op = "open" => g.state = "prepared"
  /\ op = "renew" => g.state = "armed"

\* What validate_common and the checks after it make of a request, in order.
Verdict(g, r) ==
  IF Collides(r) THEN "collision"
  ELSE IF Replays(r) THEN "replay"
  ELSE IF r.gate # inst THEN "stale"
  ELSE IF g.state = "faulted" THEN "refused"
  ELSE IF (r.lease # 0) # LeaseRequired(g, r.op) THEN "refused"
  ELSE IF r.expected # g.seq THEN "stale"
  ELSE IF ~RightState(g, r.op) THEN "refused"
  ELSE IF r.lease # 0 /\ r.lease # g.lease THEN "stale"
  ELSE "fit"
=============================================================================
