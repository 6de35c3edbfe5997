------------------------------ MODULE Lifetime ------------------------------
(***************************************************************************)
(* The lifetime field of the GeoNetworking basic header                    *)
(* (vanetza/geonet/lifetime.cpp) and its reduction by the time a packet    *)
(* has been queued (PendingPacket::reduce_lifetime).                       *)
(*                                                                         *)
(* The octet holds a two bit base and a six bit multiplier.  It is the     *)
(* record [base, multiplier] here.  Durations are integers in milliseconds,*)
(* the resolution the queueing times of the stack have.                    *)
(***************************************************************************)
EXTENDS Integers

(* The four values of Lifetime::Base and the duration each stands for. *)
Bases == {"Fifty_Milliseconds", "One_Second", "Ten_Seconds", "Hundred_Seconds"}

Unit(base) ==
    CASE base = "Fifty_Milliseconds" -> 50
      [] base = "One_Second"         -> 1000
      [] base = "Ten_Seconds"        -> 10000
      [] base = "Hundred_Seconds"    -> 100000

(* BitNumber<uint8_t, 6>: excessive bits of the multiplier are masked. *)
MultiplierRange == 64

LifetimeField == [base : Bases, multiplier : 0 .. (MultiplierRange - 1)]

Zero == [base |-> "Fifty_Milliseconds", multiplier |-> 0]

(* Mutant: the quotient is truncated. *)
TruncatedQuotient(d, unit) == d \div unit

(* std::lround(d / unit) for d >= 0: halves are rounded away from zero. *)
RoundedQuotient(d, unit) == (2 * d + unit) \div (2 * unit)

(* Mutant: the base switches before the multiplier is exhausted, to one    *)
(* that is too coarse for the value.                                       *)
BaseForEarly(d) ==
    IF d >= 400000 THEN "Hundred_Seconds"
    ELSE IF d >= 40000 THEN "Ten_Seconds"
    ELSE IF d >= 2000 THEN "One_Second"
    ELSE "Fifty_Milliseconds"

(* Mutant: the base switches after the multiplier is exhausted. *)
BaseForLate(d) ==
    IF d >= 640000 THEN "Hundred_Seconds"
    ELSE IF d >= 64000 THEN "Ten_Seconds"
    ELSE IF d >= 3200 THEN "One_Second"
    ELSE "Fifty_Milliseconds"

BaseFor(d) ==
    IF d >= 630000 THEN "Hundred_Seconds"
    ELSE IF d >= 63000 THEN "Ten_Seconds"
    ELSE IF d >= 3150 THEN "One_Second"
    ELSE "Fifty_Milliseconds"

Encode(d) ==
    [base       |-> BaseFor(d),
     multiplier |-> RoundedQuotient(d, Unit(BaseFor(d))) % MultiplierRange]

Decode(lifetime) == lifetime.multiplier * Unit(lifetime.base)

(* What PendingPacket::reduce_lifetime returns ...                         *)
Remaining(lifetime, queued) ==
    IF queued <= 0 THEN Decode(lifetime)
    ELSE IF queued < Decode(lifetime) THEN Decode(lifetime) - queued
    ELSE 0

(* ... and what it leaves in the header: the field is only re-encoded if   *)
(* the packet has really been queued.                                      *)
Reduced(lifetime, queued) ==
    IF queued <= 0 THEN lifetime
    ELSE IF queued < Decode(lifetime) THEN Encode(Remaining(lifetime, queued))
    ELSE Zero
=============================================================================
