--------------------------- MODULE PriorityQueues ---------------------------
(***************************************************************************)
(* What flow control promises about packets, without time, triggers and    *)
(* rate control: every profile has its first-in first-out queue, from      *)
(* which packets may get lost.  A packet that is not queued does not       *)
(* overtake packets of its own or a more urgent profile.  Packets of       *)
(* profile 0 have a budget of their own, so that others may be taken from  *)
(* their queues while one waits.                                           *)
(***************************************************************************)
EXTENDS Integers, Subsequences

CONSTANTS Packet, Profile, ProfileOf

VARIABLES
    waiting, \* packets in the queue of each profile
    seen,    \* packets that have been requested
    output   \* packets that have been transmitted

vars == <<waiting, seen, output>>

Waiting == UNION {{waiting[profile][k] : k \in DOMAIN waiting[profile]} : profile \in Profile}

Without(lost) ==
    [profile \in Profile |-> Kept(waiting[profile], Packet \ lost)]

Init ==
    /\ waiting = [profile \in Profile |-> <<>>]
    /\ seen = {}
    /\ output = <<>>

(* Packets get lost. *)
Drop(lost) ==
    /\ waiting' = Without(lost)
    /\ UNCHANGED <<seen, output>>

(* A packet is queued. *)
Enqueue(p, lost) ==
    /\ p \notin seen
    /\ waiting' = [Without(lost) EXCEPT ![ProfileOf[p]] = Append(@, p)]
    /\ seen' = seen \cup {p}
    /\ UNCHANGED output

(* A packet is transmitted without being queued. *)
Pass(p, lost) ==
    /\ p \notin seen
    /\ \A other \in 0 .. ProfileOf[p] : Without(lost)[other] = <<>>
    /\ waiting' = Without(lost)
    /\ seen' = seen \cup {p}
    /\ output' = Append(output, p)

(* The first packet of a queue is transmitted. *)
Serve(profile, lost) ==
    /\ Without(lost)[profile] # <<>>
    /\ \A other \in 1 .. (profile - 1) : Without(lost)[other] = <<>>
    /\ waiting' = [Without(lost) EXCEPT ![profile] = Tail(@)]
    /\ output' = Append(output, Head(Without(lost)[profile]))
    /\ UNCHANGED seen

Next ==
    \E lost \in SUBSET Waiting :
        \/ Drop(lost)
        \/ \E p \in Packet : Enqueue(p, lost) \/ Pass(p, lost)
        \/ \E profile \in Profile : Serve(profile, lost)

Spec == Init /\ [][Next]_vars
=============================================================================
