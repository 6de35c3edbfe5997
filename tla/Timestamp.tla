------------------------------ MODULE Timestamp ------------------------------
(***************************************************************************)
(* GeoNetworking timestamps (vanetza/geonet/timestamp.cpp): milliseconds   *)
(* in an unsigned integer of 32 bits, compared with regard to their        *)
(* wrap-around.                                                            *)
(***************************************************************************)
EXTENDS Integers

CONSTANT TimestampModulus  \* 2^32

ASSUME TimestampAssumption == TimestampModulus \in Nat \ {0}

MaxTimestamp == TimestampModulus - 1

(* Timestamp(Clock::time_point) *)
TimestampOf(time) == time % TimestampModulus

(* Mutant: plain comparison. *)
IsGreaterPlain(x, y) == x > y

(* is_greater *)
IsGreater(x, y) ==
    \/ x > y /\ x - y <= MaxTimestamp \div 2
    \/ y > x /\ y - x > MaxTimestamp \div 2

(* operator< *)
Before(x, y) == ~IsGreater(x, y) /\ x # y
=============================================================================
