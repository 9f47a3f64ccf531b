-------------------------------- MODULE Clock --------------------------------
(* The wall clock, which rights, evidence and approvals are compared with. *)
EXTENDS Naturals

CONSTANT MaxTime  \* bound: ticks

ASSUME ClockAssumption == MaxTime \in Nat

VARIABLE now

\* _not_expired of media.py: 0 stands for no expiry.
NotExpired(until) == until = 0 \/ until > now

Tick == now < MaxTime /\ now' = now + 1
=============================================================================
