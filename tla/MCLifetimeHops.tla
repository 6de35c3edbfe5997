--------------------------- MODULE MCLifetimeHops ---------------------------
EXTENDS LifetimeHops

(* Queueing times of contention (up to 100 ms), and longer ones on both    *)
(* sides of the durations at which the base changes.                       *)
MCQueueingTimes ==
    (0 .. 120) \cup {850, 900, 999, 1000, 1001, 6999, 7000, 7001, 30000, 65000, 69999,
                     70000, 70001, 369999, 370000, 370001, 637000, 6299949, 6300000}
=============================================================================
