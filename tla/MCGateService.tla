---------------------------- MODULE MCGateService ----------------------------
(* MotionGate implements GateService and GateLease. *)
EXTENDS MotionGate, TLC

\* What the client sees of the Gate, and that the Gate serves it as promised.
Service == INSTANCE GateService WITH
  gate <- [state |-> gate.state, seq |-> gate.seq, lease |-> gate.lease,
           moving |-> Output(gate) = "moving"],
  opening <- IF job.step = "third" THEN job.req ELSE [op |-> "none"],
  answer <- IF reply = NoReply THEN reply
            ELSE [id |-> reply.id, op |-> reply.op, code |-> reply.code,
                  why |-> reply.why, zero |-> emit = "zero"]
ServiceSpec == Service!Spec

\* A bound: the second process of the Gate is followed until its first grant.
UpToTheRestart == inst = 1 \/ gate.seq <= 1
=============================================================================
