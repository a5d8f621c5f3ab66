----------------------------- MODULE GateLease -----------------------------
(***************************************************************************)
(* What the MotionGate promises the rest of the robot, without requests,   *)
(* caches, readers or deadlines.                                           *)
(*                                                                         *)
(* A lease is granted, made live and closed.  Every lease carries the      *)
(* number of the control sequence at which it was granted, and the         *)
(* sequence only grows, so a lease that was closed never comes back.  The  *)
(* command held by the wheel controller can change to a moving one only    *)
(* while a lease is live, and closing a lease leaves a zero command        *)
(* behind, unless the Gate dies in the attempt.                            *)
(***************************************************************************)
EXTENDS Integers

VARIABLES
  phase,  \* "closed", "granted", "live" or "dead"
  term,   \* <<Gate incarnation, control sequence>>
  lease,  \* the term at which the current lease was granted, or NoLease
  out     \* the command the wheel controller last received

lvars == <<phase, term, lease, out>>

NoLease == <<0, 0>>

Later(a, b) == a[1] > b[1] \/ (a[1] = b[1] /\ a[2] > b[2])
NotEarlier(a, b) == a = b \/ Later(a, b)

\* A step that publishes nothing, or publishes a zero command.
OutputRests == out' \in {out, "zero"}

Init ==
  /\ phase \in {"closed", "dead"}
  /\ term = <<1, 0>> \/ term = <<1, 1>>
  /\ lease = NoLease
  /\ out = "zero"

\* PREPARE: a lease nobody has held before.
Grant ==
  /\ phase = "closed" /\ phase' = "granted"
  /\ Later(term', term)
  /\ lease' = term'
  /\ out' = "zero"

\* OPEN: the lease becomes live with a zero command selected.
Activate ==
  /\ phase = "granted" /\ phase' = "live"
  /\ Later(term', term)
  /\ out' = "zero"
  /\ UNCHANGED lease

\* Candidates, renewals and the periodic output under a live lease.
Drive ==
  /\ phase = "live" /\ phase' = "live"
  /\ NotEarlier(term', term)
  /\ out' \in {"zero", "moving"}
  /\ UNCHANGED lease

\* Nothing that happens without a live lease can move the robot.
Rest ==
  /\ phase # "live" /\ phase' = phase
  /\ NotEarlier(term', term)
  /\ OutputRests
  /\ UNCHANGED lease

\* INHIBIT, an expired deadline or an invalid candidate.
Close ==
  /\ phase \in {"granted", "live"} /\ phase' = "closed"
  /\ Later(term', term)
  /\ lease' = NoLease
  /\ out' = "zero"

\* The latched fault.
Die ==
  /\ phase' = "dead"
  /\ NotEarlier(term', term)
  /\ lease' = NoLease
  /\ OutputRests \/ phase = "live"
  /\ out' \in {"zero", "moving"}

\* A new Gate process: everything granted before it is gone.
Reboot ==
  /\ term'[1] > term[1]
  /\ lease' = NoLease
  /\ \/ phase' = "closed" /\ out' = "zero"
     \/ phase' = "dead" /\ OutputRests

Next == Grant \/ Activate \/ Drive \/ Rest \/ Close \/ Die \/ Reboot

Spec == Init /\ [][Next]_lvars
=============================================================================
