--------------------------- MODULE MCPacketBuffer ---------------------------
(* Instances of PacketBuffer for TLC.  All durations are multiples of      *)
(* 20 ms, so no reduced lifetime is half way between two encodings.        *)
EXTENDS PacketBuffer

CONSTANTS p1, p2, p3, p4

(* With a capacity of 4 any two of the first three packets fit except p2   *)
(* and p3; p4 never does.                                                  *)
MCLength == [p \in PendingPacket |-> CASE p = p1 -> 1 [] p = p2 -> 2 [] p = p3 -> 3 [] p = p4 -> 5]

MCLifetimes == {[base |-> "Fifty_Milliseconds", multiplier |-> m] : m \in {1, 2}}
=============================================================================
