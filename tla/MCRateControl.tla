--------------------------- MODULE MCRateControl ---------------------------
(* Instance of RateControl for TLC. *)
EXTENDS RateControl

MCSteps == <<[lower_limit |-> 0, off_time |-> 1], [lower_limit |-> 1, off_time |-> 2],
             [lower_limit |-> 3, off_time |-> 4]>>
=============================================================================
