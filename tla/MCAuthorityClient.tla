------------------------- MODULE MCAuthorityClient -------------------------
(* AuthorityClient for TLC. *)
EXTENDS AuthorityClient, TLC

Symmetry == Permutations(RequestId)

\* A generation that PREPARE and OPEN gave to the worker of the last Gate process,
\* and that has been renewed since: the Gate has forgotten those two requests.
\* The worker may do one more operation, or has a RENEW on the way, in the last
\* attempt that its deadline allows after a time without the service.
Driving ==
  /\ inst = MaxInstance /\ cache = <<>> /\ opening = NoRequest /\ answer = NoAnswer
  /\ gate = [state |-> "armed", seq |-> 2, lease |-> 1, moving |-> FALSE]
  /\ mark = Said(gate, TRUE) /\ gaveUp = 1..(inst - 1) /\ sampled = TRUE
  /\ held = [phase |-> "opened", gate |-> inst, seq |-> 1, lease |-> 1, by |-> inst]
  /\ flight = {} /\ done = {} /\ ended = {}
  /\ \E id \in RequestId :
       LET r == [id |-> id, op |-> "renew", gate |-> inst, expected |-> 2, lease |-> 1]
           idle == [c \in Thread |-> NoCall]
           sent == [step |-> "sent", bound |-> FALSE, asked |-> r, req |-> r,
                    tries |-> MaxTries, got |-> NoResponse, live |-> <<inst, 1>>]
       IN
       /\ used = {id}
       /\ \/ queue = <<>> /\ call = idle
          \/ /\ queue = <<[by |-> "worker", asked |-> id, try |-> MaxTries,
                           home |-> 0, req |-> r]>>
             /\ call = [idle EXCEPT !["worker"] = sent]

\* The run starts with the program or in the middle of a motion.
RunSpec == (ClientInit \/ Driving) /\ [][ClientNext]_cvars

=============================================================================
