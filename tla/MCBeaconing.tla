---------------------------- MODULE MCBeaconing ----------------------------
(***************************************************************************)
(* Instance of Beaconing: timestamps wrap after four units of time.        *)
(***************************************************************************)
EXTENDS Beaconing

MCRequests == {[maximum |-> 4, interval |-> 2, scf |-> FALSE],
               [maximum |-> 0, interval |-> 0, scf |-> TRUE]}
MCNever == -1
MCOff == -1
=============================================================================
