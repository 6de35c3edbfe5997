---------------------------- MODULE LifetimeHops ----------------------------
(***************************************************************************)
(* The lifetime field of one packet on its way: every station that buffers *)
(* the packet (CBF buffer, store-carry-forward buffer) reduces the         *)
(* lifetime by the queueing time and re-encodes it.                        *)
(***************************************************************************)
EXTENDS Lifetime

CONSTANT QueueingTimes

ASSUME QueueingTimesAssumption == QueueingTimes \subseteq Nat

VARIABLE lifetime

HopsInit == lifetime \in LifetimeField

Hop(queued) == lifetime' = Reduced(lifetime, queued)

HopsNext == \E queued \in QueueingTimes : Hop(queued)

HopsSpec == HopsInit /\ [][HopsNext]_lifetime

-----------------------------------------------------------------------------
(* Rounding may hide the time a packet was queued, but no chain of hops    *)
(* prolongs the lifetime of a packet, not even where the base changes.     *)
NeverProlonged == [][Decode(lifetime') <= Decode(lifetime)]_lifetime

(* The re-encoded lifetime is off by at most half a unit of its new base,  *)
(* for every representable lifetime: the six bit multiplier never          *)
(* overflows.                                                              *)
ErrorBounded ==
    \A queued \in QueueingTimes :
        LET error == Decode(Reduced(lifetime, queued)) - Remaining(lifetime, queued)
            unit  == Unit(Reduced(lifetime, queued).base)
        IN  2 * error <= unit /\ -2 * error <= unit
=============================================================================
