----------------------------- MODULE GbcStation -----------------------------
(***************************************************************************)
(* What one station does with a multi-hop packet: the forwarding half of   *)
(* vanetza/geonet/router.cpp as operators that map the state of a station  *)
(* to its next state.                                                      *)
(*                                                                         *)
(* Time is left out.  CBF timers and soft state may expire in any order;   *)
(* CbfPacketBuffer and PacketBuffer show what the two buffers do in time.  *)
(* Stations do not move and live on a line, a destination area is an       *)
(* interval.  Position vectors are valid.                                  *)
(***************************************************************************)
EXTENDS Integers, Subsequences, SequencesExt, FiniteSets

CONSTANTS
    Station,            \* link-layer (and GeoNetworking) addresses
    Position,           \* where a station is
    Accurate,           \* stations whose position_accuracy_indicator is set
    Packet,             \* (source address, sequence number) pairs
    Type,               \* "gbc" or "tsb"
    Source,             \* source of a packet
    Area,               \* destination area [lo, hi] of a GBC packet
    Scf,                \* store_carry_forward bit of its traffic class
    MaxRange,           \* itsGnDefaultMaxCommunicationRange
    DplLength,          \* itsGnDPLLength
    MemoryCapacity,     \* vanetzaGbcMemoryCapacity
    PassUpOutside,      \* vanetzaGbcPassUpOutsideDestination
    Setups              \* settings that are the same at all stations, see below

Broadcast == "broadcast"   \* cBroadcastMacAddress
Nobody == "nobody"         \* no sender, no next hop

ASSUME StationAssumption ==
    /\ Station \cap {Broadcast, Nobody} = {}
    /\ Position \in [Station -> Int]
    /\ Accurate \subseteq Station
    /\ MaxRange \in Nat
ASSUME PacketAssumption ==
    /\ Type \in [Packet -> {"gbc", "tsb"}]
    /\ Source \in [Packet -> Station]
    /\ Area \in [Packet -> [lo : Int, hi : Int]]
    /\ Scf \in [Packet -> BOOLEAN]
ASSUME MibAssumption ==
    /\ \A s \in Setups :
            /\ s.areaForwarding \in {"SIMPLE", "CBF", "Advanced"}
            /\ s.nonAreaForwarding \in {"Greedy", "CBF"}
            /\ s.counterKind \in {"contending", "fading"}
            /\ s.maxCounter \in Nat
    /\ DplLength \in Nat /\ MemoryCapacity \in Nat
    /\ PassUpOutside \in BOOLEAN

(* One of Setups; it never changes. *)
VARIABLE setup

AreaForwarding    == setup.areaForwarding     \* itsGnAreaForwardingAlgorithm
NonAreaForwarding == setup.nonAreaForwarding  \* itsGnNonAreaForwardingAlgorithm
CounterKind       == setup.counterKind        \* "fading" if vanetzaFadingCbfCounter
MaxCounter        == setup.maxCounter         \* vanetzaCbfMaxCounter

(* The addresses of the frame a packet arrived in (LinkLayer).  Packets of *)
(* the local station have not arrived in any (nullptr).                    *)
Local == [sender |-> Nobody, destination |-> Nobody]
LinkLayer == [sender : Station, destination : Station \cup {Broadcast}] \cup {Local}

(* Packets that wait in the broadcast forwarding buffer, with the function *)
(* they are bound to, and packets that are passed down.                    *)
Pending(packets) == [kind : {"forwarding", "greedy", "transmit"}, packet : packets,
                     hops : Nat, ll : LinkLayer]
Sending(packets) == [packet : packets, hops : Nat, destination : Station \cup {Broadcast}]

CbfEntry == [sender : Station \cup {Nobody}, hops : Nat, noop : BOOLEAN]

NotBuffered == [sender |-> Nobody, hops |-> 0, noop |-> FALSE]

(* The state of a station: the location table (known, neighbours, expired  *)
(* entries that have not been dropped yet, duplicate packet lists), the    *)
(* CBF buffer and its counters, the broadcast forwarding buffer and the    *)
(* GBC memory.  counter is what CbfCounter::counter returns; faded is the  *)
(* value of a fading counter that has expired, reads as 0 and has not been *)
(* dropped yet.  out collects what is passed down to the link layer.       *)
StationState == [
    known      : SUBSET Station,
    neighbours : SUBSET Station,
    expired    : SUBSET Station,
    dpl        : [Station -> Seq(Packet)],
    cbf        : [Packet -> CbfEntry],
    counter    : [Packet -> Nat],
    faded      : [Packet -> Nat],
    scf        : Seq(Pending(Packet)),
    memory     : Seq(Packet),
    out        : Seq(Sending(Packet))]

EmptyStation == [
    known |-> {}, neighbours |-> {}, expired |-> {},
    dpl |-> [m \in Station |-> <<>>],
    cbf |-> [p \in Packet |-> NotBuffered],
    counter |-> [p \in Packet |-> 0],
    faded |-> [p \in Packet |-> 0],
    scf |-> <<>>, memory |-> <<>>, out |-> <<>>]

-----------------------------------------------------------------------------
(* Geometry *)

Abs(x) == IF x < 0 THEN -x ELSE x

Inside(m, p) == Area[p].lo <= Position[m] /\ Position[m] <= Area[p].hi

(* (Twice the) distance of a station to the centre of the destination. *)
DistanceTo(m, p) == Abs(2 * Position[m] - Area[p].lo - Area[p].hi)

Distance(m, o) == Abs(Position[m] - Position[o])

-----------------------------------------------------------------------------
(* Location table *)

(* LocationTable::get_position finds a position vector *)
HasPosition(s, m) == m \in s.known \ s.expired

(* LocationTable::neighbours; SoftStateMap::map hides expired entries *)
Neighbours(s) == s.neighbours \ s.expired

(* drop_expired *)
DropExpiredEntries(s) ==
    [s EXCEPT !.known = @ \ s.expired, !.neighbours = @ \ s.expired, !.expired = {},
              !.dpl = [m \in Station |-> IF m \in s.expired THEN <<>> ELSE @[m]]]

(* Mutant: a duplicate is recognised, but new packets are not recorded. *)
CheckDuplicateForgets(s, p) ==
    [state |-> [s EXCEPT !.known = @ \cup {Source[p]}],
     duplicate |-> Contains(s.dpl[Source[p]], p)]

(* DuplicatePacketList::check: the list is a circular buffer, the oldest   *)
(* packet makes room for a new one.                                        *)
ListAfterCheck(list, p) ==
    LET room == IF Len(list) >= DplLength /\ list # <<>> THEN Tail(list) ELSE list
    IN  IF Contains(list, p) THEN list
        ELSE IF DplLength = 0 THEN <<>> ELSE Append(room, p)

(* detect_duplicate_packet: the source has an entry from now on *)
CheckDuplicate(s, p) ==
    [state |-> [s EXCEPT !.known = @ \cup {Source[p]},
                         !.dpl[Source[p]] = ListAfterCheck(@, p)],
     duplicate |-> Contains(s.dpl[Source[p]], p)]

(* Steps 5 and 6 of the multi-hop handlers: the source is known from now   *)
(* on, and no neighbour if it had no entry before.                         *)
UpdateSource(s, p, existed) ==
    [s EXCEPT !.known = @ \cup {Source[p]},
              !.neighbours = IF existed THEN @ ELSE @ \ {Source[p]}]

(* The same steps for Beacons and SHB packets: their source is the sender. *)
UpdateNeighbour(s, m) == [s EXCEPT !.known = @ \cup {m}, !.neighbours = @ \cup {m}]

-----------------------------------------------------------------------------
(* CBF buffer and counters *)

IsBuffered(s, p) == s.cbf[p] # NotBuffered

(* A fading counter continues with its value, even an expired one; the     *)
(* other expired ones are dropped (refresh, drop_expired).                 *)
CbfAdd(s, p, entry) ==
    [s EXCEPT !.cbf[p] = entry,
              !.counter[p] = IF CounterKind = "fading" THEN @ + s.faded[p] + 1 ELSE 1,
              !.faded = [o \in Packet |-> 0]]

CbfRemove(s, p) ==
    [s EXCEPT !.cbf[p] = NotBuffered,
              !.counter[p] = IF CounterKind = "fading" THEN @ ELSE 0]

(* An expired counter is resurrected. *)
CbfUpdate(s, p) == [s EXCEPT !.counter[p] = @ + s.faded[p] + 1, !.faded[p] = 0]

(* The lifetime of a counter ends: from now on it reads as 0. *)
CounterExpired(s, p) == [s EXCEPT !.counter[p] = 0, !.faded[p] = s.counter[p]]

-----------------------------------------------------------------------------
(* Forwarding algorithms.  Each yields the state and the next hop; Nobody  *)
(* stands for a packet that was buffered or discarded.                     *)

NextHop(s, mac) == [state |-> s, mac |-> mac]

PushScf(s, kind, q) ==
    [s EXCEPT !.scf = Append(@, [kind |-> kind, packet |-> q.packet, hops |-> q.hops,
                                 ll |-> q.ll])]

Transmit(s, q, mac) ==
    [s EXCEPT !.out = Append(@, [packet |-> q.packet, hops |-> q.hops,
                                 destination |-> mac])]

(* NextHop::process *)
Process(nh, q) == IF nh.mac = Nobody THEN nh.state ELSE Transmit(nh.state, q, nh.mac)

(* Mutant: the search does not start with the distance of the station. *)
CloserThanInfinity(n, s, p) == Neighbours(s)

(* The neighbours with progress towards the destination. *)
Closer(n, s, p) == {m \in Neighbours(s) : DistanceTo(m, p) < DistanceTo(n, p)}

(* Mutant: a packet without a next hop is not buffered again. *)
GreedyForwardingOnce(n, s, q) ==
    LET closer == Closer(n, s, q.packet)
    IN  IF closer # {} THEN NextHop(s, CHOOSE m \in closer : TRUE)
        ELSE NextHop(s, IF Scf[q.packet] THEN Nobody ELSE Broadcast)

(* greedy_forwarding: "most forward within radius" *)
GreedyForwarding(n, s, q) ==
    LET closer == Closer(n, s, q.packet)
    IN  IF closer # {}
        THEN NextHop(s, CHOOSE m \in closer :
                            \A o \in closer : DistanceTo(m, q.packet) <= DistanceTo(o, q.packet))
        ELSE IF Scf[q.packet] THEN NextHop(PushScf(s, "greedy", q), Nobody)
        ELSE NextHop(s, Broadcast)

Contend(s, q, noop) ==
    CbfAdd(s, q.packet, [sender |-> q.ll.sender, hops |-> q.hops, noop |-> noop])

(* non_area_contention_based_forwarding *)
NonAreaCbf(n, s, q) ==
    LET p == q.packet
        progress == \/ ~HasPosition(s, q.ll.sender)
                    \/ q.ll.sender \notin Accurate
                    \/ DistanceTo(q.ll.sender, p) > DistanceTo(n, p)
    IN  IF q.ll = Local THEN NextHop(s, Broadcast)
        ELSE IF IsBuffered(s, p) THEN NextHop(CbfRemove(s, p), Nobody)
        ELSE NextHop(IF progress THEN Contend(s, q, FALSE) ELSE s, Nobody)

(* Mutant: the duplicate counter is not looked at. *)
AreaCbfUncounted(n, s, q) ==
    LET p == q.packet
    IN  IF q.ll = Local THEN NextHop(s, Broadcast)
        ELSE IF IsBuffered(s, p) THEN NextHop(CbfRemove(s, p), Nobody)
        ELSE NextHop(Contend(s, q, FALSE), Nobody)

(* Mutant: the counter is compared after adding the packet at hand. *)
AreaCbfCountsItself(n, s, q) ==
    LET p == q.packet
    IN  IF q.ll = Local THEN NextHop(s, Broadcast)
        ELSE IF IsBuffered(s, p) THEN NextHop(CbfRemove(s, p), Nobody)
        ELSE NextHop(IF s.counter[p] + 1 >= MaxCounter THEN s ELSE Contend(s, q, FALSE), Nobody)

(* area_contention_based_forwarding *)
AreaCbf(n, s, q) ==
    LET p == q.packet
    IN  IF q.ll = Local THEN NextHop(s, Broadcast)
        ELSE IF IsBuffered(s, p) THEN NextHop(CbfRemove(s, p), Nobody)
        ELSE NextHop(IF s.counter[p] >= MaxCounter THEN s ELSE Contend(s, q, FALSE), Nobody)

(* outside_sectorial_contention_area; on a line the angle between          *)
(* forwarder, sender and receiver is zero or straight.                     *)
OutsideSector(n, s, sender, forwarder) ==
    LET sameSide == (Position[forwarder] - Position[sender])
                        * (Position[n] - Position[sender]) >= 0
    IN  \/ ~(HasPosition(s, sender) /\ HasPosition(s, forwarder))
        \/ ~(/\ Distance(sender, n) < Distance(forwarder, sender)
             /\ Distance(forwarder, sender) < MaxRange
             /\ sameSide)

(* area_advanced_forwarding *)
AreaAdvanced(n, s, q) ==
    LET p      == q.packet
        greedy == GreedyForwarding(n, s, q)
    IN  IF q.ll = Local THEN NextHop(s, Broadcast)
        ELSE IF IsBuffered(s, p)
        THEN NextHop(IF \/ s.counter[p] >= MaxCounter
                        \/ ~OutsideSector(n, s, s.cbf[p].sender, q.ll.sender)
                     THEN CbfRemove(s, p) ELSE CbfUpdate(s, p), Nobody)
        ELSE IF q.ll.destination = n
        THEN NextHop(Contend(greedy.state, q, greedy.mac = Broadcast), greedy.mac)
        ELSE NextHop(Contend(s, q, FALSE), Nobody)

(* forwarding_algorithm_selection *)
SelectForwarding(n, s, q) ==
    IF Inside(n, q.packet)
    THEN CASE AreaForwarding = "SIMPLE"   -> NextHop(s, Broadcast)
           [] AreaForwarding = "CBF"      -> AreaCbf(n, s, q)
           [] AreaForwarding = "Advanced" -> AreaAdvanced(n, s, q)
    ELSE IF /\ HasPosition(s, q.ll.sender)
            /\ q.ll.sender \in Accurate
            /\ Inside(q.ll.sender, q.packet)
         THEN NextHop(s, Nobody)
    ELSE IF NonAreaForwarding = "Greedy" THEN GreedyForwarding(n, s, q)
    ELSE NonAreaCbf(n, s, q)

(* The function a pending packet is bound to: GBC packets are forwarded,   *)
(* those greedy forwarding has put off try it again, TSB packets are       *)
(* transmitted.                                                            *)
ProcessPending(n, s, q) ==
    CASE q.kind = "forwarding" -> Process(SelectForwarding(n, s, q), q)
      [] q.kind = "greedy"     -> Process(GreedyForwarding(n, s, q), q)
      [] q.kind = "transmit"   -> Transmit(s, q, Broadcast)

(* flush_broadcast_forwarding_buffer *)
FlushScf(n, s) ==
    LET flushed[k \in 0 .. Len(s.scf)] ==
            IF k = 0 THEN [s EXCEPT !.scf = <<>>]
            ELSE ProcessPending(n, flushed[k - 1], s.scf[k])
    IN  flushed[Len(s.scf)]

(* Store the packet if it may be carried and there is no neighbour, else   *)
(* process it right away (step 2 of the source, step 10 of a forwarder).   *)
StoreOrProcess(n, s, kind, q) ==
    IF Scf[q.packet] /\ Neighbours(s) = {}
    THEN PushScf(s, kind, q)
    ELSE ProcessPending(n, s, [kind |-> kind, packet |-> q.packet, hops |-> q.hops,
                               ll |-> q.ll])

-----------------------------------------------------------------------------
(* Reception *)

(* Mutant: only unknown identifiers make it into the memory, and room is   *)
(* made for known ones as well.                                            *)
RememberMakesRoom(s, p) ==
    LET room == IF Len(s.memory) >= MemoryCapacity THEN Tail(s.memory) ELSE s.memory
    IN  [s EXCEPT !.memory = IF Contains(@, p) THEN room ELSE Append(room, p)]

(* GbcMemory::remember: p becomes the latest identifier, the oldest ones   *)
(* make room for a new one.                                                *)
Remember(s, p) ==
    LET others == Kept(s.memory, Packet \ {p})
    IN  [s EXCEPT !.memory =
            Append(IF others = s.memory /\ Len(others) >= MemoryCapacity
                   THEN Tail(others) ELSE others, p)]

(* decide_pass_up *)
DecidePassUp(n, s, p) ==
    LET accept == Inside(n, p) \/ PassUpOutside
    IN  IF MemoryCapacity = 0 \/ ~accept THEN [state |-> s, up |-> accept]
        ELSE [state |-> Remember(s, p), up |-> ~Contains(s.memory, p)]

HopsLeft(f) == f.hops - 1

(* process_extended for GBC packets.  stop: the source or the sender       *)
(* exceeds its packet data rate.                                           *)
ProcessGbc(n, s, f, stop) ==
    LET p       == f.packet
        existed == Source[p] \in s.known
        check   == IF \/ Inside(n, p) /\ AreaForwarding = "SIMPLE"
                      \/ ~Inside(n, p) /\ NonAreaForwarding = "Greedy"
                   THEN CheckDuplicate(s, p) ELSE [state |-> s, duplicate |-> FALSE]
        updated == UpdateSource(check.state, p, existed)
        forward == IF f.hops <= 1 \/ stop THEN updated
                   ELSE StoreOrProcess(n, updated, "forwarding",
                            [packet |-> p, hops |-> HopsLeft(f), ll |-> f.ll])
    IN  IF check.duplicate THEN [state |-> s, up |-> FALSE]
        ELSE DecidePassUp(n, forward, p)

(* process_extended for TSB packets *)
ProcessTsb(n, s, f, stop) ==
    LET p       == f.packet
        existed == Source[p] \in s.known
        check   == CheckDuplicate(s, p)
        updated == UpdateSource(check.state, p, existed)
    IN  IF check.duplicate THEN [state |-> s, up |-> FALSE]
        ELSE [state |-> IF f.hops <= 1 \/ stop THEN updated
                        ELSE StoreOrProcess(n, updated, "transmit",
                                 [packet |-> p, hops |-> HopsLeft(f), ll |-> f.ll]),
              up |-> TRUE]

(* indicate_common: expired entries go, stored packets are tried again     *)
(* before the received one is looked at.                                   *)
Prepared(n, s) == FlushScf(n, DropExpiredEntries(s))

Indicate(n, s, f, stop) ==
    IF Type[f.packet] = "gbc" THEN ProcessGbc(n, Prepared(n, s), f, stop)
    ELSE ProcessTsb(n, Prepared(n, s), f, stop)

IndicateSingleHop(n, s, m) == UpdateNeighbour(Prepared(n, s), m)
=============================================================================
