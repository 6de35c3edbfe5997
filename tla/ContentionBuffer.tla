-------------------------- MODULE ContentionBuffer --------------------------
(***************************************************************************)
(* What the CBF packet buffer promises the router, without time, bytes and *)
(* lifetimes: packets wait, the copies heard of each are counted, and when *)
(* a packet leaves it is handed out once or has been dropped.  Only the    *)
(* packets that wait longest are dropped to make room for another one.     *)
(***************************************************************************)
EXTENDS Integers, Subsequences

CONSTANT Id

VARIABLES
    waiting,  \* packets, the oldest one first
    heard,    \* copies heard of a waiting packet, its own one included
    released  \* packets handed out by the last step

vars == <<waiting, heard, released>>

Elements(s) == {s[k] : k \in DOMAIN s}

Init ==
    /\ waiting = <<>>
    /\ heard = [i \in Id |-> 0]
    /\ released = {}

(* A packet is added after the n oldest ones were dropped.  One that waits *)
(* already is ignored.                                                     *)
Add(id, n) ==
    LET kept == SubSeq(waiting, n + 1, Len(waiting))
    IN  /\ waiting' = IF id \in Elements(kept) THEN kept ELSE Append(kept, id)
        /\ heard' = [i \in Id |-> CASE i \in Elements(kept) -> heard[i]
                                    [] i = id /\ id \notin Elements(kept) -> 1
                                    [] OTHER -> 0]
        /\ released' = {}

(* Another copy of a waiting packet is heard. *)
Hear(id) ==
    /\ id \in Elements(waiting)
    /\ heard' = [heard EXCEPT ![id] = @ + 1]
    /\ released' = {}
    /\ UNCHANGED waiting

(* Packets leave.  Those that are not handed out are discarded or have     *)
(* expired.                                                                *)
Leave(leaving) ==
    /\ waiting' = Kept(waiting, Id \ leaving)
    /\ heard' = [i \in Id |-> IF i \in leaving THEN 0 ELSE heard[i]]
    /\ released' \in SUBSET leaving

Next ==
    \/ \E id \in Id, n \in 0 .. Len(waiting) : Add(id, n)
    \/ \E id \in Id : Hear(id)
    \/ \E leaving \in SUBSET Elements(waiting) : Leave(leaving)

Spec == Init /\ [][Next]_vars
=============================================================================
