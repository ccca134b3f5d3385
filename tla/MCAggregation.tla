--------------------------- MODULE MCAggregation ---------------------------
(* Instances of Aggregation for TLC. *)
EXTENDS Aggregation

CONSTANTS f1, f2, s1, anonymous

OneFingerprint == {f1}
TwoFingerprints == {f1, f2}
AnonymousOnly == {anonymous}
TwoSenders == {s1, anonymous}
OneRetry == <<1>>
TwoDelays == <<1, 2>>
=============================================================================
