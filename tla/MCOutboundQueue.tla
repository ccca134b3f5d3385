-------------------------- MODULE MCOutboundQueue --------------------------
(* Instances of OutboundQueue for TLC. *)
EXTENDS OutboundQueue

CONSTANTS a1, a2, accented

Both == {a1, a2}
BothAndAccented == {a1, a2, accented}
OneRetry == <<1>>
TwoDelays == <<1, 2>>
=============================================================================
