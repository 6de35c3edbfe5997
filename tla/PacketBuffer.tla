---------------------------- MODULE PacketBuffer ----------------------------
(***************************************************************************)
(* The store-carry-forward buffer (vanetza/geonet/packet_buffer.cpp) the   *)
(* router keeps packets in that it cannot forward yet.                     *)
(*                                                                         *)
(* The router flushes the buffer at every packet indication.  Flushing a   *)
(* packet means to try its forwarding again, and greedy forwarding pushes  *)
(* the packet into the very buffer that is being flushed when there still  *)
(* is no suitable neighbour.  Time is in milliseconds.                     *)
(***************************************************************************)
EXTENDS Lifetime, Subsequences, Functions

CONSTANTS
    PendingPacket, \* the packets that get buffered
    Length,        \* packet length in bytes
    Capacity,      \* m_capacity
    Lifetimes,     \* lifetime fields of packets that are pushed
    Steps,         \* by how much the clock may advance between two operations
    MaxTime,       \* bound on the clock
    MaxTries       \* bound on how often one packet is flushed

ASSUME LengthAssumption == Length \in [PendingPacket -> Nat \ {0}]
ASSUME CapacityAssumption == Capacity \in Nat
ASSUME LifetimesAssumption == Lifetimes \subseteq LifetimeField
ASSUME StepsAssumption == Steps \subseteq Nat \ {0}
ASSUME BoundsAssumption == MaxTime \in Nat /\ MaxTries \in Nat

VARIABLES
    m_nodes,   \* buffered packets, oldest first
    m_stored,  \* bytes
    now,
    out        \* history: packets forwarded by the last flush, in this order

bufferVars == <<m_nodes, m_stored, now, out>>

(* A node is a packet with its expiry (since, lifetime).  pushed, initial  *)
(* and tries are history: when the packet was first pushed, with which     *)
(* lifetime, and how often it was flushed since.                           *)
Node == [packet : PendingPacket, since : Nat, expires : Nat, lifetime : LifetimeField,
         pushed : Nat, initial : LifetimeField, tries : Nat]

-----------------------------------------------------------------------------
(* The buffer as a value: the operations below map one to another. *)
Buffer == [nodes |-> m_nodes, stored |-> m_stored]

(* Mutant: flush does not reset the number of stored bytes. *)
EmptyButCounted == [nodes |-> <<>>, stored |-> m_stored]

EmptyBuffer == [nodes |-> <<>>, stored |-> 0]

IsExpired(node, at) == node.expires < at

BytesOf(nodes) ==
    LET bytes[k \in 0 .. Len(nodes)] ==
            IF k = 0 THEN 0 ELSE bytes[k - 1] + Length[nodes[k].packet]
    IN  bytes[Len(nodes)]

ExpiredNodes(nodes, at) == {node \in Range(nodes) : IsExpired(node, at)}
LiveNodes(nodes, at) == {node \in Range(nodes) : ~IsExpired(node, at)}

(* Mutant: the bytes of expired packets stay accounted for. *)
DropExpiredLeaks(buffer, at) ==
    [buffer EXCEPT !.nodes = Kept(@, LiveNodes(@, at))]

(* drop_expired *)
DropExpired(buffer, at) ==
    [nodes  |-> Kept(buffer.nodes, LiveNodes(buffer.nodes, at)),
     stored |-> buffer.stored
                - BytesOf(Kept(buffer.nodes, ExpiredNodes(buffer.nodes, at)))]

(* drop: remove packets from the head until there is room for so many      *)
(* bytes, or nothing is left                                               *)
Drop(buffer, bytes) ==
    LET After(n) == buffer.stored - BytesOf(SubSeq(buffer.nodes, 1, n))
        n == CHOOSE k \in 0 .. Len(buffer.nodes) :
                /\ k = Len(buffer.nodes) \/ Capacity - After(k) >= bytes
                /\ \A j \in 0 .. (k - 1) : Capacity - After(j) < bytes
    IN  [nodes  |-> SubSeq(buffer.nodes, n + 1, Len(buffer.nodes)),
         stored |-> After(n)]

(* Node: its expiry is the lifetime of the packet from now on *)
Stamped(node, at) == [node EXCEPT !.since = at, !.expires = at + Decode(node.lifetime)]

(* push; the packet may be refused, but room has been made by then *)
PushInto(buffer, node, at) ==
    LET bytes == Length[node.packet]
        room  == Drop(DropExpired(buffer, at), bytes)
    IN  IF Capacity - room.stored >= bytes
        THEN [nodes  |-> Append(room.nodes, Stamped(node, at)),
              stored |-> room.stored + bytes]
        ELSE room

-----------------------------------------------------------------------------
BufferInit ==
    /\ m_nodes = <<>>
    /\ m_stored = 0
    /\ now = 0
    /\ out = <<>>

SetBuffer(buffer) ==
    /\ m_nodes' = buffer.nodes
    /\ m_stored' = buffer.stored

(* push; a packet object is in the buffer at most once *)
Push(packet, lifetime) ==
    /\ \A k \in DOMAIN m_nodes : m_nodes[k].packet # packet
    /\ SetBuffer(PushInto(Buffer,
            [packet |-> packet, since |-> now, expires |-> now, lifetime |-> lifetime,
             pushed |-> now, initial |-> lifetime, tries |-> 0], now))
    /\ out' = <<>>
    /\ UNCHANGED now

(* The nodes flush goes through: expired ones are skipped, the lifetime of *)
(* the others is reduced by the time they have been queued.                *)
Flushed ==
    LET alive == Kept(m_nodes, LiveNodes(m_nodes, now))
    IN  [k \in DOMAIN alive |->
            [alive[k] EXCEPT !.lifetime = Reduced(@, now - alive[k].since),
                             !.tries    = @ + 1]]

(* push, for one after the other of the given nodes *)
PushAll(nodes, at) ==
    LET after[k \in 0 .. Len(nodes)] ==
            IF k = 0 THEN EmptyBuffer ELSE PushInto(after[k - 1], nodes[k], at)
    IN  after[Len(nodes)]

(* flush: the list is swapped out first; then each packet is forwarded or, *)
(* if it is one of again, pushed back.                                     *)
Flush(again) ==
    /\ again \subseteq {m_nodes[k].packet : k \in DOMAIN m_nodes}
    /\ \A k \in DOMAIN m_nodes : m_nodes[k].tries < MaxTries
    /\ SetBuffer(PushAll(Kept(Flushed, {node \in Range(Flushed) : node.packet \in again}), now))
    /\ out' = Kept(Flushed, {node \in Range(Flushed) : node.packet \notin again})
    /\ UNCHANGED now

Tick(step) ==
    /\ now + step <= MaxTime
    /\ now' = now + step
    /\ out' = <<>>
    /\ UNCHANGED <<m_nodes, m_stored>>

BufferNext ==
    \/ \E packet \in PendingPacket, lifetime \in Lifetimes : Push(packet, lifetime)
    \/ \E again \in SUBSET PendingPacket : Flush(again)
    \/ \E step \in Steps : Tick(step)

BufferSpec == BufferInit /\ [][BufferNext]_bufferVars

-----------------------------------------------------------------------------
(* Properties *)

(* Every variable has its type. *)
BufferTypeOK ==
    /\ m_nodes \in Seq(Node)
    /\ m_stored \in Nat
    /\ now \in Nat
    /\ out \in Seq(Node)

(* The byte count is that of the buffered packets and never exceeds the    *)
(* capacity, so the unsigned difference in free() does not wrap.           *)
BytesExact ==
    /\ m_stored = BytesOf(m_nodes)
    /\ m_stored <= Capacity

(* A flush loses nothing: every packet that has not expired is forwarded   *)
(* or is back in the buffer afterwards, although the buffer is filled      *)
(* again while it is being flushed.                                        *)
FlushLosesNothing ==
    [][\A again \in SUBSET PendingPacket : Flush(again) =>
            {m_nodes[k].packet : k \in {j \in DOMAIN m_nodes : ~IsExpired(m_nodes[j], now)}}
            = {out'[k].packet : k \in DOMAIN out'} \cup {m_nodes'[k].packet : k \in DOMAIN m_nodes'}
      ]_bufferVars

(* The packets stay in the order in which they were first pushed, through  *)
(* any number of flushes that push some of them back: head drop always     *)
(* hits the packet that has waited longest.                                *)
OldestFirst ==
    \A j, k \in DOMAIN m_nodes : j < k => m_nodes[j].pushed <= m_nodes[k].pushed

(* Each flush re-encodes the lifetime with an error of at most half a unit *)
(* of the 50 ms base; no packet is kept or forwarded for longer than this  *)
(* adds to its initial lifetime.  (Stated for lifetimes below 3150 ms.)    *)
LifetimeDrift ==
    /\ \A k \in DOMAIN m_nodes :
            Decode(m_nodes[k].initial) < 3150 =>
                m_nodes[k].expires - m_nodes[k].pushed
                    <= Decode(m_nodes[k].initial) + 25 * m_nodes[k].tries
    /\ \A k \in DOMAIN out :
            Decode(out[k].initial) < 3150 =>
                now - out[k].pushed + Decode(out[k].lifetime)
                    <= Decode(out[k].initial) + 25 * out[k].tries

(* The buffer stays consistent, in these respects, through any sequence of *)
(* pushes, head drops, expiries and flushes that push packets back.        *)
Consistent == BufferTypeOK /\ BytesExact /\ OldestFirst /\ LifetimeDrift
=============================================================================
