----------------------------- MODULE GbcNetwork -----------------------------
(***************************************************************************)
(* Several stations that forward GBC and TSB packets to each other by      *)
(* radio: the router of every station (GbcStation), the frames in the air  *)
(* and the expiry of timers.                                               *)
(*                                                                         *)
(* A frame is in the air once for each station that can hear it, and these *)
(* copies arrive independently, in any order.                              *)
(***************************************************************************)
EXTENDS GbcStation, Bags

CONSTANTS
    Router,        \* stations that run the router; others only send
    HopLimit,      \* hop limit of a packet at its source (max_hop_limit)
    MaxRequests,   \* bound on the packets that are sent in one behaviour
    CountBound     \* bound on passed and sent: they count up to this number

ASSUME NetworkAssumption ==
    /\ Router \subseteq Station
    /\ {HopLimit, CountBound, MaxRequests} \subseteq Nat
    /\ \A s \in Setups :
            /\ s.lossy \subseteq Packet /\ s.rateLimited \subseteq Packet
            /\ s.hears \in [Station -> SUBSET Router] /\ s.beacons \subseteq Station
            /\ s.entriesExpire \in BOOLEAN /\ s.maxFadings \in Nat

VARIABLES
    station,    \* Router -> StationState
    air,        \* bag of frames
    requested,  \* packets that their source was asked to send
    passed,     \* history: how often a router passed a packet up
    sent,       \* history: how often a router transmitted a packet
    fadings     \* history: how often a router's counter of a packet expired

vars == <<setup, station, air, requested, passed, sent, fadings>>

Hears         == setup.hears         \* stations that hear a station's transmissions
Lossy         == setup.lossy         \* packets that may be lost, in the air and in a buffer
RateLimited   == setup.rateLimited   \* senders may exceed itsGnMaxPacketDataRate with them
EntriesExpire == setup.entriesExpire \* may location table entries expire?
MaxFadings    == setup.maxFadings    \* bound on how often a counter of a router expires
Beacons       == setup.beacons       \* stations that send Beacons or SHB packets

Frame == [to : Router, packet : Packet, hops : Nat, ll : LinkLayer]

-----------------------------------------------------------------------------
(* The copies of one transmission: everyone in reach hears a broadcast,    *)
(* only its destination takes a unicast frame.                             *)
Copies(n, t) ==
    {[to |-> m, packet |-> t.packet, hops |-> t.hops,
      ll |-> [sender |-> n, destination |-> t.destination]] :
        m \in {o \in Hears[n] : t.destination \in {Broadcast, o}}}

Count(count, more) == IF count + more < CountBound THEN count + more ELSE CountBound

(* The air after station n has transmitted one after the other. *)
AirAfter(n, transmissions, rest) ==
    LET after[k \in 0 .. Len(transmissions)] ==
            IF k = 0 THEN rest ELSE after[k - 1] (+) SetToBag(Copies(n, transmissions[k]))
    IN  after[Len(transmissions)]

(* Station n ends its step in the given state; what it has passed down is  *)
(* sent.                                                                   *)
EndStep(n, state, rest) ==
    \E s \in {state} :
        /\ station' = [station EXCEPT ![n] = [s EXCEPT !.out = <<>>]]
        /\ air' = AirAfter(n, s.out, rest)
        /\ sent' = [sent EXCEPT ![n] = [p \in Packet |->
                        Count(@[p], Len(Kept(s.out, Sending({p}))))]]

Init ==
    /\ setup \in Setups
    /\ station = [n \in Router |-> EmptyStation]
    /\ air = EmptyBag
    /\ requested = {}
    /\ passed = [n \in Router |-> [p \in Packet |-> 0]]
    /\ sent = [n \in Router |-> [p \in Packet |-> 0]]
    /\ fadings = [n \in Router |-> [p \in Packet |-> 0]]

(* request for a GBC packet at its source *)
RequestGbc(p) ==
    /\ p \notin requested
    /\ Cardinality(requested) < MaxRequests
    /\ Type[p] = "gbc"
    /\ Source[p] \in Router
    /\ LET n == Source[p]
       IN  EndStep(n, StoreOrProcess(n, station[n], "forwarding",
                          [packet |-> p, hops |-> HopLimit, ll |-> Local]), air)
    /\ requested' = requested \cup {p}
    /\ UNCHANGED <<setup, passed, fadings>>

(* A station that does not run this router sends a packet.  (The router    *)
(* itself rejects requests for TSB packets.)                               *)
ForeignPacket(p) ==
    /\ p \notin requested
    /\ Cardinality(requested) < MaxRequests
    /\ Source[p] \notin Router
    /\ air' = air (+) SetToBag(Copies(Source[p], [packet |-> p, hops |-> HopLimit,
                                                  destination |-> Broadcast]))
    /\ requested' = requested \cup {p}
    /\ UNCHANGED <<setup, station, passed, sent, fadings>>

(* indicate for a frame with a GBC or TSB packet *)
Receive(f) ==
    \E stop \in (IF f.packet \in RateLimited THEN BOOLEAN ELSE {FALSE}) :
        \E r \in {Indicate(f.to, station[f.to], f, stop)} :
            /\ EndStep(f.to, r.state, air (-) SetToBag({f}))
            /\ passed' = [passed EXCEPT ![f.to][f.packet] = Count(@, IF r.up THEN 1 ELSE 0)]
            /\ UNCHANGED <<setup, requested, fadings>>

(* indicate for a Beacon or SHB packet of m *)
HearBeacon(n, m) ==
    /\ m \in Beacons /\ n \in Hears[m]
    /\ EndStep(n, IndicateSingleHop(n, station[n], m), air)
    /\ UNCHANGED <<setup, requested, passed, fadings>>

(* Mutant: no timer is started for a packet that was sent before. *)
CbfTimeoutOnce(n, p) ==
    LET s == station[n]
        q == [packet |-> p, hops |-> s.cbf[p].hops]
    IN  /\ IsBuffered(s, p)
        /\ sent[n][p] = 0
        /\ EndStep(n, CbfRemove(Transmit(s, q, Broadcast), p), air)
        /\ UNCHANGED <<setup, requested, passed, fadings>>

(* The CBF timer of p expires: the buffer invokes the callback of the      *)
(* router, which broadcasts the packet (or does nothing, see noop_fn), and *)
(* forgets it.                                                             *)
CbfTimeout(n, p) ==
    LET s == station[n]
        q == [packet |-> p, hops |-> s.cbf[p].hops]
    IN  /\ IsBuffered(s, p)
        /\ EndStep(n, CbfRemove(IF s.cbf[p].noop THEN s ELSE Transmit(s, q, Broadcast), p), air)
        /\ UNCHANGED <<setup, requested, passed, fadings>>

(* A packet leaves the CBF buffer by head drop, or because its lifetime    *)
(* has ended when its timer expires.                                       *)
CbfDrop(n, p) ==
    /\ p \in Lossy
    /\ IsBuffered(station[n], p)
    /\ EndStep(n, CbfRemove(station[n], p), air)
    /\ UNCHANGED <<setup, requested, passed, fadings>>

(* The same for the broadcast forwarding buffer. *)
ScfDrop(n, k) ==
    /\ station[n].scf[k].packet \in Lossy
    /\ EndStep(n, [station[n] EXCEPT !.scf = RemoveAt(@, k)], air)
    /\ UNCHANGED <<setup, requested, passed, fadings>>

(* A location table entry expires; it is dropped at the next indication. *)
EntryExpires(n, m) ==
    /\ EntriesExpire
    /\ m \in station[n].known \ station[n].expired
    /\ station' = [station EXCEPT ![n].expired = @ \cup {m}]
    /\ UNCHANGED <<setup, air, requested, passed, sent, fadings>>

(* A fading counter expires, also while the router contends. *)
CounterFades(n, p) ==
    /\ CounterKind = "fading"
    /\ station[n].counter[p] > 0
    /\ fadings[n][p] < MaxFadings
    /\ station' = [station EXCEPT ![n] = CounterExpired(@, p)]
    /\ fadings' = [fadings EXCEPT ![n][p] = @ + 1]
    /\ UNCHANGED <<setup, air, requested, passed, sent>>

(* The radio loses a frame. *)
Lose(f) ==
    /\ f.packet \in Lossy
    /\ air' = air (-) SetToBag({f})
    /\ UNCHANGED <<setup, station, requested, passed, sent, fadings>>

Next ==
    \/ \E p \in Packet : RequestGbc(p)
    \/ \E p \in Packet : ForeignPacket(p)
    \/ \E f \in BagToSet(air) : Receive(f)
    \/ \E n \in Router, m \in Station : HearBeacon(n, m)
    \/ \E n \in Router, p \in Packet : CbfTimeout(n, p)
    \/ \E n \in Router, p \in Packet : CbfDrop(n, p)
    \/ \E n \in Router : \E k \in DOMAIN station[n].scf : ScfDrop(n, k)
    \/ \E n \in Router, m \in Station : EntryExpires(n, m)
    \/ \E n \in Router, p \in Packet : CounterFades(n, p)
    \/ \E f \in BagToSet(air) : Lose(f)

(* Frames arrive and CBF timers fire. *)
Progress ==
    /\ WF_vars(\E f \in BagToSet(air) : Receive(f))
    /\ WF_vars(\E n \in Router, p \in Packet : CbfTimeout(n, p))

(* Every station is heard again and again by those in its reach. *)
Beaconing == \A n \in Router, m \in Station : WF_vars(HearBeacon(n, m))

Spec == Init /\ [][Next]_vars

ProgressSpec == Spec /\ Progress

FairSpec == Spec /\ Progress /\ Beaconing

-----------------------------------------------------------------------------
(* Properties *)

(* Every variable has its type; nothing is left in out between two steps.  *)
TypeOK ==
    /\ \A n \in Router :
            /\ station[n].known \subseteq Station
            /\ station[n].neighbours \subseteq station[n].known
            /\ station[n].expired \subseteq station[n].known
            /\ \A m \in Station : station[n].dpl[m] \in Seq(Packet)
            /\ station[n].out = <<>>
            /\ station[n].memory \in Seq(Packet)
            /\ \A p \in Packet : /\ station[n].counter[p] \in Nat
                                 /\ station[n].faded[p] \in Nat
                                 /\ station[n].cbf[p].hops \in Nat
    /\ BagToSet(air) \subseteq Frame
    /\ requested \subseteq Packet
    /\ passed \in [Router -> [Packet -> Nat]]
    /\ sent \in [Router -> [Packet -> Nat]]
    /\ fadings \in [Router -> [Packet -> Nat]]

(* With duplicate packet detection (SIMPLE and Greedy forwarding), entries *)
(* that do not expire and a duplicate packet list that is long enough, a   *)
(* router forwards a packet at most once, no matter how many copies it     *)
(* hears, whether it has carried the packet for a while or how greedy      *)
(* forwarding retries.  The source sends its own packet once more when it  *)
(* hears it back: its own packets are not in its duplicate packet list.    *)
ForwardsOnce ==
    ( /\ AreaForwarding = "SIMPLE" /\ NonAreaForwarding = "Greedy" /\ ~EntriesExpire
      /\ 0 < DplLength /\ MaxRequests <= DplLength )
    => \A n \in Router, p \in Packet : sent[n][p] <= IF n = Source[p] THEN 2 ELSE 1

(* A router passes a GBC packet up at most once if its memory has room for *)
(* all packets, whatever the forwarding algorithms do: "do not pass up     *)
(* duplicate GBC packets".                                                 *)
PassedUpOnce ==
    \A n \in Router, p \in Packet :
        Type[p] = "gbc" /\ 0 < MemoryCapacity /\ MaxRequests <= MemoryCapacity
            => passed[n][p] <= 1

(* The fading counters keep CBF in the destination area from flooding: a   *)
(* router in the area broadcasts a packet at most as often as the counter  *)
(* may rise (and once more if it is the source), and again as often every  *)
(* time its counter expires before the copies of the packet have run out.  *)
ContentionBounded ==
    AreaForwarding = "CBF" /\ CounterKind = "fading" =>
        \A n \in Router, p \in Packet : Type[p] = "gbc" /\ Inside(n, p) =>
            sent[n][p] <= MaxCounter * (1 + fadings[n][p]) + (IF n = Source[p] THEN 1 ELSE 0)

(* Greedy forwarding makes progress: a unicast frame always travels        *)
(* towards the centre of the destination area.  (With the types.)          *)
UnicastProgress ==
    /\ TypeOK
    /\ \A f \in BagToSet(air) :
            f.ll.destination # Broadcast
                => DistanceTo(f.to, f.packet) < DistanceTo(f.ll.sender, f.packet)

Quiet == /\ BagToSet(air) = {}
         /\ \A n \in Router, p \in Packet : ~IsBuffered(station[n], p)

(* How often the given stations have transmitted a packet. *)
Transmissions(senders, p) == FoldSet(LAMBDA m, total : sent[m][p] + total, 0, senders)

(* CBF thins out transmissions, not coverage.  When the network is at rest *)
(* a router of the destination area that was reached and has kept silent   *)
(* did so for another's copy: the stations it hears have transmitted the   *)
(* packet twice.  (Unless the packet may be lost or dropped, or its hops   *)
(* may have run out: no copy has come further than all transmissions.)     *)
SilentOnlyIfCovered ==
    AreaForwarding = "CBF" /\ 0 < MaxCounter /\ Quiet =>
        \A n \in Router, p \in requested \ (Lossy \cup RateLimited) :
            ( /\ Type[p] = "gbc" /\ Source[p] \in Router \ {n} /\ Inside(n, p)
              /\ passed[n][p] > 0 /\ sent[n][p] = 0
              /\ Transmissions(Router, p) < HopLimit )
            => Transmissions({m \in Router : n \in Hears[m]}, p) >= 2

(* The network comes to rest: every packet runs out of copies although the *)
(* routers hear, and contend for, each other's forwarded copies.           *)
ComesToRest == <>[]Quiet

(* Every router in the destination area passes a packet up in the end,     *)
(* even if it was carried until a neighbour turned up, unless it may be    *)
(* lost.  CBF keeps this promise if routers that contend with each other   *)
(* hear, and are heard by, the same stations; not for any radio: a router  *)
(* that hears another's copy keeps silent, whoever else has heard it.      *)
ReachesArea ==
    \A p \in {q \in Packet : Type[q] = "gbc"} :
        p \in requested \ Lossy ~>
            \A n \in Router : Inside(n, p) /\ n # Source[p] => passed[n][p] > 0
=============================================================================
