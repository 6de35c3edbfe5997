------------------------- MODULE PeerRequestTracker -------------------------
(***************************************************************************)
(* The queue of certificate requests                                       *)
(* (vanetza/security/peer_request_tracker.cpp): a list in the order of     *)
(* arrival and a map that finds the entries of the list.                   *)
(***************************************************************************)
EXTENDS Subsequences, Functions, FiniteSets

CONSTANTS
    HashedId3,  \* truncated certificate digests
    Limit       \* m_limit

ASSUME LimitAssumption == Limit \in Nat

(* The length the list can reach: a limit of zero behaves like a limit of  *)
(* one.                                                                    *)
Room == IF Limit = 0 THEN 1 ELSE Limit

EmptyTracker == [fifo |-> <<>>, lookup |-> {}]

IsPending(t, id) == id \in t.lookup

(* add_request: the oldest request makes room for a new one. *)
AddRequest(t, id) ==
    IF IsPending(t, id) THEN t
    ELSE LET room == IF Len(t.fifo) >= Limit /\ t.fifo # <<>>
                     THEN [fifo |-> Tail(t.fifo), lookup |-> t.lookup \ {Head(t.fifo)}]
                     ELSE t
         IN  [fifo |-> Append(room.fifo, id), lookup |-> room.lookup \cup {id}]

(* add_request for one after the other of a list of requests. *)
AddRequests(t, ids) ==
    LET added[k \in 0 .. Len(ids)] ==
            IF k = 0 THEN t ELSE AddRequest(added[k - 1], ids[k])
    IN  added[Len(ids)]

(* discard_request *)
DiscardRequest(t, id) ==
    IF IsPending(t, id)
    THEN [fifo |-> Kept(t.fifo, HashedId3 \ {id}), lookup |-> t.lookup \ {id}]
    ELSE t

(* The requests that n calls of next_one leave in the queue. *)
AfterNext(t, n) ==
    [fifo |-> SubSeq(t.fifo, n + 1, Len(t.fifo)),
     lookup |-> t.lookup \ {t.fifo[k] : k \in 1 .. n}]

(* The list and the map agree (the assertions of the class).               *)
Agree(t) ==
    /\ t.lookup = Range(t.fifo)
    /\ Len(t.fifo) = Cardinality(t.lookup)
=============================================================================
