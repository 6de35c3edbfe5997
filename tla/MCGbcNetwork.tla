---------------------------- MODULE MCGbcNetwork ----------------------------
(* Instances of GbcNetwork for TLC: up to four routers on a line and a     *)
(* foreign station x.  a sends the GBC packet g, x the TSB packet t.       *)
EXTENDS GbcNetwork

CONSTANTS a, b, c, d, e, x, g, t

MCPosition ==
    [m \in Station |-> CASE m = a -> 0 [] m = x -> -2 [] m = b -> 4 [] m = c -> 7
                      [] m = e -> 9 [] m = d -> 12]

(* Who hears whom: a line of a, c and d; c and e side by side between a   *)
(* and d; a chain, in which neither a and c nor b and d hear each other.   *)
Line ==
    [m \in Station |-> CASE m = a -> {c} [] m = c -> {a, d} [] m = d -> {c} [] m = e -> {}]
Diamond ==
    [m \in Station |->
        CASE m = a -> {c, e} [] m = c -> {a, d, e} [] m = e -> {a, c, d} [] m = d -> {c, e}]
Chain ==
    [m \in Station |->
        CASE m = a -> {b} [] m = x -> {a, b} [] m = b -> {a, c} [] m = c -> {b, d} [] m = d -> {c}]

(* The position of d is not accurate. *)
MCAccurate == Station \ {d}

MCType == [p \in Packet |-> IF p = t THEN "tsb" ELSE "gbc"]
MCSource == [p \in Packet |-> IF p = t THEN x ELSE a]

Carried == [p \in Packet |-> TRUE]
NotCarried == [p \in Packet |-> FALSE]

(* c, d and e are inside, a and b are not. *)
FarArea == [p \in Packet |-> [lo |-> 6, hi |-> 14]]

(* The forwarding algorithms, and what may go wrong with them. *)
Greedy ==
    {[areaForwarding |-> "SIMPLE", nonAreaForwarding |-> "Greedy",
      counterKind |-> "contending", maxCounter |-> 1, maxFadings |-> 0,
      hears |-> Chain, beacons |-> Station,
      lossy |-> {t}, rateLimited |-> {t}, entriesExpire |-> FALSE]}
Contention ==
    {[areaForwarding |-> "CBF", nonAreaForwarding |-> "CBF",
      counterKind |-> "fading", maxCounter |-> 1, maxFadings |-> 0,
      hears |-> Diamond, beacons |-> {},
      lossy |-> {}, rateLimited |-> {}, entriesExpire |-> FALSE],
     [areaForwarding |-> "CBF", nonAreaForwarding |-> "CBF",
      counterKind |-> "fading", maxCounter |-> 1, maxFadings |-> 1,
      hears |-> Line, beacons |-> Station,
      lossy |-> {g}, rateLimited |-> {}, entriesExpire |-> FALSE],
     [areaForwarding |-> "Advanced", nonAreaForwarding |-> "Greedy",
      counterKind |-> "contending", maxCounter |-> 2, maxFadings |-> 0,
      hears |-> Line, beacons |-> {c},
      lossy |-> {g}, rateLimited |-> {g}, entriesExpire |-> TRUE]}
=============================================================================
