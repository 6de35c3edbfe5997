------------------------- MODULE MCCbfPacketBuffer -------------------------
(* Instances of CbfPacketBuffer for TLC.  All durations are multiples of   *)
(* 20 ms, so no reduced lifetime is half way between two encodings.        *)
EXTENDS CbfPacketBuffer

CONSTANTS p1, p2, p3

(* Two packets fit, three do not; p3 is longer than the whole buffer.      *)
MCLength == [i \in Id |-> CASE i = p1 -> 2 [] i = p2 -> 1 [] i = p3 -> 4]

MCLifetimes == {[base |-> "Fifty_Milliseconds", multiplier |-> 1],
                [base |-> "Fifty_Milliseconds", multiplier |-> 2]}
=============================================================================
