# A verification project for the Vanetza V2X stack

This directory holds TLA+ models of the parts of the stack in `src/vanetza`
that keep state over time, and of the PKI client in `src/tools/pki`, the TLC
configurations that check them on small
instances, and TLAPS proofs of their safety properties for all instances. The
repository is a fork of Vanetza, an implementation of the ETSI C-ITS protocols
(GeoNetworking, BTP, DCC, security), with certificates that carry a second,
post-quantum signature. `PROJECT.json` lists components, runs, mutants,
findings, hazards and theorems, and maps every definition to its lines of C++.

1. [The system](#1-the-system)
2. [Modules and how they correspond to the code](#2-modules-and-how-they-correspond-to-the-code)
3. [Runs and bounds](#3-runs-and-bounds)
4. [Where the code does less than it says](#4-where-the-code-does-less-than-it-says)
5. [Fairness](#5-fairness)
6. [Proofs](#6-proofs)
7. [What is not modelled](#7-what-is-not-modelled)
8. [Plan](#8-plan)

To check a run: `tlc -config MCCbfPacketBuffer.cfg MCCbfPacketBuffer`.
To check the proofs: `tlapm` on each of `CommonLemmas.tla`,
`ForwardingProof.tla`, `CbfPacketBufferProof.tla`, `FlowControlProof.tla`,
`RateControlProof.tla`, `BeaconingProof.tla`, `CertificatesProof.tla` and
`PkiClientProof.tla`.

## 1. The system

A station runs one instance of the stack in one thread. Everything happens in
response to one of three inputs: a request from above (BTP), a frame from below
(the link layer), or the runtime invoking a callback whose time has come.
Concurrency is therefore of two kinds: callbacks and calls of one station
interleave in any order at the granularity of whole calls, and stations run in
parallel and communicate through an unreliable broadcast medium. The stack
persists nothing: a station that restarts begins anew while its neighbours still
remember it. The PKI client is different: its commands are processes of their
own that share files without locking them, and may die at any point.

| Component | State | Operations | What makes it correct |
|---|---|---|---|
| CBF packet buffer (`geonet/cbf_packet_buffer`) | list of packets, two-way map of timers, byte count, duplicate counters, one event at the runtime | add, update, remove, fetch, flush | list, timers and bytes agree; the event is never lost; no packet waits much longer than its timer; the lifetime is respected |
| CBF counters (`geonet/cbf_counter`, `soft_state_map`) | counter per packet, with or without expiry | add, increment, remove | a counter counts the copies heard since the packet was buffered |
| Packet buffer (`geonet/packet_buffer`) | queue of packets with expiry, byte count | push, flush, drop | bytes are exact, oldest first, a flush loses nothing even if forwarding pushes back |
| Lifetime (`geonet/lifetime`) | none | encode, decode, reduce | a reduction never prolongs; the rounding error is bounded |
| Router (`geonet/router`) | location table, forwarding buffers, CBF buffer, GBC memory, sequence number, beacon and repetition timers | request, indicate, forwarding algorithms, timer callbacks | a packet reaches its area, is forwarded once, is passed up once, does not circulate forever |
| Location table (`geonet/location_table`, `timestamp`) | soft state per neighbour: position, neighbour flag, duplicate packet list, data rate | update, lookup, expiry | a neighbour that is heard of stays known with its latest position; stale entries go away |
| Beaconing and SHB (`geonet/router`, `position_updater`) | beacon timer, local position vector, broadcast forwarding buffer | on_beacon_timer_expired, request, flush | a station with a position is heard of regularly |
| Repeater (`geonet/repeater`) | repetitions with remaining time | add, trigger | the interval and the maximum time are kept |
| DCC flow control (`dcc/flow_control`) | a queue per profile, triggers at the runtime | request, trigger, reschedule | no queue is left without a trigger; order and priority; every packet is accounted for |
| Transmit rate control (`dcc/burst_budget`, `state_machine_budget`) | times of the last messages | delay, notify | no more messages than the budget permits; waiting for the delay is enough |
| DCC state machines (`dcc/fully_meshed_state_machine`, `gradual_state_machine`) | state, history of channel loads | update | fits a steady channel load, relaxes slowly |
| LIMERIC, channel probing | duty cycle, smoothed load | update | bounded reaction to channel load |
| Signing (`security/v3/sign_header_policy`, `sign_service`, `peer_request_tracker`) | time of the next full certificate, requests from and to peers | prepare_header, sign, request_* | peers learn a certificate; requests are not forgotten |
| Verification (`security/straight_verify_service`, `v3/certificate_cache`) | cached certificates, known digests | verify, store, lookup | only certificates that were verified are stored |
| Validation (`security/v3/certificate_validator`, `pqc/hybrid_certificate_validator`) | trust store, issuers, revocations, configuration | valid_for_signing, insert, revoke | Valid exactly for tickets a trusted root vouches for |
| PKI client (`tools/pki`) | files with keys, certificates and the identifier of the EC in use | enrol, renew, request tickets, prune | stored certificates are usable; no key is left over |
| Runtime (`common/manual_runtime`) | queue of callbacks by deadline, current time | schedule, cancel, trigger | callbacks run in order of their deadlines |

How they interact: the router owns the location table, both kinds of forwarding
buffer and the counters. An indication first drops expired location table
entries and flushes the buffers of carried packets, then runs duplicate
detection, updates the table, passes the packet up, and forwards it, which may
put it into the CBF buffer or a forwarding buffer. The CBF buffer calls back
into the router at expiry, the forwarding buffers when they are flushed; either
callback may put the packet into the same buffer again. Packets for the radio
pass through DCC flow control, which asks transmit rate control for a delay and
may queue them. Every delayed action is an event at the runtime. Signing and
verification share the certificate cache and the header policy: a message that
was verified decides which certificates the next signed one carries.

What is hard to test is listed in `PROJECT.json` as hazards, at the line where
it bites. The main groups are: components with a single runtime event that
several operations move; values that were read before a side effect and used
after it; lifetimes that are rounded repeatedly; copies of one packet that
arrive in any order, or get lost, while the packet is in some buffer; state that
expires on its own; boundaries of buffers, bursts and timestamps; requests that
are taken for answered before their answer is on the air; checks that are made
for one certificate on behalf of a chain; and processes that die between the
writes of files that refer to each other.

## 2. Modules and how they correspond to the code

| Specification | built from | promises | model checked by | proved in |
|---|---|---|---|---|
| LifetimeHops | Lifetime | | MCLifetimeHops | ForwardingProof |
| PacketBuffer | Lifetime, Subsequences | | MCPacketBuffer | ForwardingProof |
| GbcNetwork | GbcStation, Subsequences | | MCGbcNetwork | ForwardingProof |
| CbfPacketBuffer | CbfCounter, Lifetime, Subsequences | ContentionBuffer | MCCbfPacketBuffer | CbfPacketBufferProof |
| Beaconing | LocationTable (with Timestamp), Repeater | | MCBeaconing | BeaconingProof |
| RateControl | TransmitRateControl, StateMachines | | MCRateControl | RateControlProof |
| FlowControl | TransmitRateControl, Subsequences | PriorityQueues | MCFlowControl | FlowControlProof |
| CertificateDistribution | PeerRequestTracker, Subsequences | | MCCertificateDistribution | CertificatesProof |
| CertificateValidator | | | MCCertificateValidator | CertificatesProof |
| PkiClient | | | MCPkiClient | PkiClientProof |

"Promises" names the abstract specification that is shown to be implemented.
CommonLemmas, with facts about sequences, recursion and lifetimes, serves
ForwardingProof, CbfPacketBufferProof, FlowControlProof and CertificatesProof.

Variables and operators carry the names of the C++ members and methods where
there are any. An operator whose comment starts with "Mutant:" is not part of
the model; it describes a plausible bug and is used to test the properties.

**Lifetime** models `geonet/lifetime.cpp`: a field of a two-bit base and a
six-bit multiplier, encoding with rounding, decoding, and the reduction that
`PendingPacket::reduce_lifetime` does. Durations are milliseconds. `lround` of a
double division is integer division that rounds half up; multipliers are taken
modulo 2^6 as the bit field does.

**LifetimeHops** reduces a lifetime again and again, by any queueing time of a
finite set, starting from any of the 256 octets: a packet that is buffered at
hop after hop.

**CbfCounter** models the three `CbfCounter` classes as operators on a table,
including the soft state of fading counters: an expired entry that has not been
dropped is resurrected with its value by the next increment.

**CbfPacketBuffer** models `geonet/cbf_packet_buffer.cpp` in time.
`m_packets` is the list, `m_timers` the two-way map (a function from identifiers
to timers; its order by expiry is what `IsFirst` expresses), `events` the set of
deadlines of its callback at the runtime. `Add` includes duplicate detection
after head drop, the head drop loop and the scheduling. The comparison in `add`
with an iterator that may dangle is undefined behaviour; `ScheduleAfterAdd`
allows both outcomes in exactly this case. `Trigger` advances time by a step, as
`ManualRuntime::trigger` does, and runs `Flush` if the event is due by then. `out`
records the packets handed to the callback, for the properties only.

**ContentionBuffer** is what CbfPacketBuffer promises: a sequence of waiting
packets, how many copies of each were heard, and which packets the last step
handed out. Packets leave once; only the oldest ones are dropped for a new one.
`Abstract` in CbfPacketBuffer instantiates it with the identifiers of
`m_packets`, the counters and `out`; a removal, a fetch and a flush are steps
`Leave`, and so is time passing, with no packet leaving. The mapping is stated for contending counters, the only ones
that count per stay in the buffer.

**PacketBuffer** models `geonet/packet_buffer.cpp`. `flush` swaps the queue out
and calls back for each packet; the callback may push the packet again, and
this push may drop others. `Flush(again)` takes the set of packets that come
back as its parameter.

**GbcStation** is one station's router, for GBC and TSB packets, as operators
from a station's state to its next state, one operator per method of
`router.cpp`: `ProcessGbc` for `process_extended(GeoBroadcastHeader)`,
`ProcessTsb`, `SelectForwarding` for `forwarding_algorithm_selection`,
`GreedyForwarding`, `NonAreaCbf`, `AreaCbf`, `AreaAdvanced`, `Remember` for
`GbcMemory`, `Prepared` for the bookkeeping at the start of `indicate`. Frames
that are passed down are collected in the field `out`.

**GbcNetwork** composes several such stations with a bag of frames in the air.
Its actions are the inputs of a router: a request, a frame with a GBC or TSB
packet, a beacon or SHB packet, the expiry of a CBF timer, of a fading counter, of a
buffered packet or of a location table entry; and the loss of a frame. `ForeignPacket` is for packets
of a station that does not run this router, because the router itself rejects
requests for TSB packets.

What GbcStation and GbcNetwork abstract:
- Stations stand on a line; distances are exact integers. Their positions do
  not change. A station may have an inaccurate position. Who hears whom, and
  whose Beacons are heard, is part of a setup (`Hears`, `Beacons`).
- Time: CBF timers fire in any order, and head drop and end of lifetime may
  remove a buffered packet of `Lossy` at any time. The
  quantitative side is CbfPacketBuffer's. Fading counters expire at any time
  (`CounterFades`), up to `MaxFadings` times per packet and station; `faded` is the
  value of a counter that has expired and was not dropped yet, which an `add` or
  `increment` before the next cleanup resurrects.
- The packet data rate limit of a source is a free choice (`stop`).
- A failed encapsulation of a packet has the effect of a lost frame.
- The unicast forwarding buffer is not modelled: nothing in the router pushes
  into it.
- Security, repetition, and duplicate address detection are left out.

**Timestamp**, **LocationTable** and **Repeater** hold the operators of the files
of these names: comparison modulo 2^32 (the modulus is a constant), an entry with
its position, neighbour flag and expiry, and one repetition.

**Beaconing** composes them into a sender and a receiver in time. The sender has
a position updater, a beacon timer, SHB requests that are repeated or carried,
and encapsulation that may fail; the receiver a location table. `Advance` sets
the time forward by up to `MaxStep`, possibly past several deadlines; `Settled`
says that all timers that are due have been processed, in the order of their
deadlines, as `ManualRuntime::trigger` does before anything else happens. Frames take up to
`MaxLatency` and overtake each other. `Lose`, a failing Beacon and `Restart` (with
the clock set back or not) are faults. Whether the sender has neighbours, and so
whether an SHB packet is carried, is left open.

**TransmitRateControl** holds the operators of `burst_budget.cpp`,
`state_machine_budget.cpp` and of the bursty rate control; **StateMachines** the two
state machines, with channel loads abstracted to the interval between two limits
they lie in. **RateControl** drives both: messages are sent when permitted, loads
of any kind are measured, the limit of a burst is raised or lowered at any time,
time passes.

**FlowControl** models `dcc/flow_control.cpp` with its rate control:
`RequestTransmit` and `RequestEnqueue` are the two outcomes of `request`,
`Trigger` and `Reschedule` the other entry points, `ChangeState` a change of the
state machine behind the budget. Each trigger is an event of its own at the
runtime (`triggers` is a sequence of deadlines): only `reschedule` cancels the
pending ones before it schedules the next. `ChangeState` lets the interval change to any of
`Intervals` at any time, which covers every state machine.

**PriorityQueues** is what FlowControl promises: a first-in first-out queue per
profile from which packets may get lost, a packet that is not queued overtakes
none of its own or a more urgent profile, and the queues of profiles 1 to 3 are
served in the order of their urgency. `Abstract` in FlowControl maps its queues,
the packets requested and the packets transmitted; triggers and the budget are
hidden. **Subsequences** has the one operator all lists need, `Kept`: what remains of a
list from which elements were removed wherever they are (`std::list::remove_if`).
It is a recursive function rather than `SelectSeq`, so that it can be proved about.

**PeerRequestTracker** is the queue of `peer_request_tracker.cpp`, list and
lookup table kept apart. **CertificateDistribution** composes header policy,
signing, verification and certificate cache of several stations. `Sign` is a whole call of the
sign service: the header is prepared first, with all its effects on the policy,
and signing may fail afterwards. `Receive` is a whole `verify`, with every early
return: `Verify` gives the verdict and the changes to cache and policy together.
A certificate stands for its digest; `Short` truncates it. `Strange` is a set of
messages of other stations, such as one with a wrong signature. Time is the time
left until a CAM carries the certificate again. `CamPeriod` is the longest time
between CAMs of a station, `Interval` the 950 ms after which a CAM has to carry
the certificate again. Either may be the longer one: socktap's CAM application
sends every 1000 ms, so that each of its CAMs carries the certificate. `proven`
is a history variable: the signers of the correctly signed messages that a
station has received.

**CertificateValidator** models both validators. `Verdict` is
`HybridCertificateValidator::valid_for_signing`: the checks of
`DefaultCertificateValidator` in their order, then the signatures along the chain.
The actions insert roots and issuers (which are never removed), revoke
certificates, clear all revocations at once, let time pass and move the station. Contents of certificates, and which parts of the validator
are set, are chosen at the start. Validity is computed twice, as in the code: with
`YearChecked` where a time is compared and with `YearNested` where validities are
compared with each other, in a `Time32` of `TimeModulus`. Regions are intervals;
signatures are genuine or not.

**PkiClient** models the commands of the PKI client as processes. A step is one
access to a file: creating a key, storing a certificate, truncating and writing
`ec.hid8`, listing a directory, removing a file. Authorities are external: they
answer or fail. A process may die after any step (`Crash`), in which case the
destructors of `ScopedCredential` and `ScopedKeyPair` (`Destroy`) do not run. Writes and removals may
fail: a key may be created only in part, which leaves its file (`CreateKey`);
a removal that fails leaves the key stored (`Discard`); a store of the canonical
key that fails discards what is stored there (`StoreBootstrap`). `Alone` is the set of
commands that run only by themselves: the code has no locks, so this is an
operating rule, not a guard of the code. Scans of root CA and TLM certificates
repeat the scan of ECs for other stores and are left out, as is `prune_ctl`.

## 3. Runs and bounds

Every passing run explores its whole state space. Each property has a mutant in
`PROJECT.json`: a plausible bug in a mapped definition under which TLC finds the
property violated.

**cbf_buffer** (76697 states). Three packets of lengths 2, 1 and 4 in a buffer
of 3 bytes, so head drops remove none, one or all packets and one packet never
fits. Timeouts 20 and 60 ms, time up to 80 ms, two updates per packet.
Durations are multiples of 20 ms, so that no lifetime lies half-way between two
encodings. Shows: the list, timers and byte count agree and only an oversized
packet alone exceeds the capacity (`Consistent`); the event is never lost (`EventPending`); packets are late by less than one timeout
(`BoundedLateness`); packets leave once, the oldest ones are dropped first and a
counter has counted exactly the copies since its packet was added
(`ImplementsContentionBuffer`); a packet outlives its lifetime by at most half
a unit for each reduction (`LifetimeDrift`).

**packet_buffer** (65400 states). Four packets of 1, 2, 3 and 5 bytes, capacity 4, lifetimes
of 50 and 100 ms, time up to 120 ms, up to three pushes of a packet. Shows:
exact byte count, oldest packet first, bounded lifetime drift, and that a flush
forwards or keeps every packet that was alive.

**lifetime_hops** (256 states). All 256 octets, queueing times of 0 to 120 ms and values
around the changes of base. Shows: every reduction is exact to half a unit, and
never prolongs.

**gbc_greedy, gbc_contention**. Up to four routers out of a(0), b(4), c(7),
e(9) and d(12), and a foreign station x(-2); c, e and d are inside of the
destination area, d's position is not accurate. They hear each other in a
`Chain` (a-b-c-d), on a `Line` (a-c-d), or in a `Diamond`: a and d hear c and e,
which hear each other, contend, and cancel each other's transmissions. One packet is sent in a
behaviour (`MaxRequests`), with a hop limit of 3 or 4. One is enough because
packets of the network interact only through the capacity of buffers, which is
modelled as drops at any time. A setup is a choice of forwarding algorithms, radio and of what may go wrong;
gbc_contention starts in any of three:

| Run | Forwarding | What may go wrong | Shows |
|---|---|---|---|
| gbc_greedy (31532 states) | Greedy, then simple, with store-carry-forward, in the chain; or a TSB packet of x | beacons arrive late; TSB frames are lost and rate limited | every station in the area passes the GBC packet up; both packets are forwarded once by each station; unicast hops approach the area |
| gbc_contention (28726) | CBF outside and inside, fading counters, in the diamond | nothing is lost and no Beacons are heard, but timers fire and frames arrive in any order | contention comes to rest, the area is reached although c and e silence each other, and a router keeps silent only for another's copy (`SilentOnlyIfCovered`) |
| | CBF outside and inside, fading counters, on the line | frames lost, packets dropped, each counter expires once at any time | the counter bounds how often a station repeats a packet (`ContentionBounded`), comes to rest |
| | Greedy, then advanced, on the line | frames lost, rate limit, packets dropped, location table entries expire | comes to rest, nothing passed up twice |

Limits of these statements: `ForwardsOnce` is stated for SIMPLE and Greedy
forwarding, location table entries that do not expire, since the duplicate packet
list goes with its entry, and lists that hold all packets sent, since a packet that
was pushed out of the list is new again; `PassedUpOnce` likewise for a memory
that holds all packets. A source that hears its own packet back sends it once more and passes it up,
because its own packets are not in its list. `ReachesArea` is checked for contenders
that hear, and are heard by, the same stations; CBF gives no such promise in
general: of two stations that contend, the one that stays silent may have been
the only one with a further neighbour. What remains in general is
`SilentOnlyIfCovered`: a router of the area that was reached and kept silent was
within reach of two transmissions of the packet, unless packets get lost or
their hops run out.
`ContentionBounded` is for GBC packets in their destination area: outside of it
no counter bounds the repetitions, and TSB packets are forwarded without contention.
A counter that expires permits `MaxCounter` transmissions more. `CountBound` = 3 saturates the counts of transmissions
and passed up packets above all limits the properties compare with.

**rate_control** (2733930 states). Bursts of two messages within 2, a period of
3, time up to 5; the limit may change to one or three at any time. A fully meshed
machine of two active substates with 2 samples to ramp up and 3 to ramp down, or
a gradual one of three steps; every sequence of loads. Shows: in any period fewer
than two bursts of the highest limit so far, besides the messages whose records
a lower limit erased (`BurstBounded`); whoever waits for the delay may send; the
state fits a load that has been steady for one sample more than the longer
observation time, or one per step; the fully meshed machine relaxes only after
a quiet time.

**flow_control** (1071084 states). Six packets: two of profile 0 that are alike,
one of profile 1 and three of profile 2, two of which are alike (`SYMMETRY
Alike`), with lifetimes of 2, the third one of profile 2 with 1; queues of length
two, intervals 1 and 2, bursts of one message per 2, time up to 3: enough for a
queue to hold two packets and push out the older one, for a packet to expire
at the head or behind another one, or while another profile is served, for a
trigger to find its queue empty, and for the interval to change under a pending
trigger. Shows: `NoStall`, that each drop leads to a call of the drop hook and
nothing is transmitted after its lifetime (`DropsReported`), and the refinement of
PriorityQueues, first-in first-out order within a queue included.

**beaconing** (7154520 states). Beacon period 2 and jitter 1, positions every
unit, latency up to 1, time set forward by up to 2, up to 15. Timestamps wrap
after 4 of these (modulus 32, clock at 28). One SHB request, repeated or carried,
and one fault. The lifetime of an entry, 11, is the longest time from a position to the arrival
of a newer one: the age of the position when it is sent (1, and 1 for a late
updater), two beacon intervals with late timers, 2(2 + 1 + 1), as one Beacon is
skipped if the timestamp is 0, and the latency, 1. The proof of `NeighbourKept`
assumes no more (`TimingFits`). The default values of the MIB, 3 s and 20 s, leave more room.
Timestamps that are compared are less than half of the modulus apart, as 20 s
are in 2^32 ms. Shows: silence only follows a Beacon that was not encapsulated; repetitions keep
to their maximum; a neighbour stays known with its latest position in any order
of frames and across the wrap-around; and a sender that restarted with older
timestamps is known again after the lifetime of an entry.

**cert_distribution** (30282 states). Two stations, a third certificate that one
of them rejects, an authority that only one of them knows, queues of two
requests, one message in the air at a time, which may stay there while time
passes. Full certificates at least every unit of time, CAMs at least every unit,
so that a station may send CAMs with and without certificate, or all of them
with it, as at 1000 ms. Shows: only certificates that are accepted, and
that a received message was correctly signed with, are stored (`CacheSound`); a
request for the own ticket is not forgotten before it is sent, unless the queue
is full or signing fails; all stations get to know each other; a request waits
forever only at a station whose CAMs all carry its own certificate from some time
on (`RequestsDrain`).

**cert_validator** (479640 states). A root, two authorities and a ticket; all
contents that vary validities, permissions, assurance levels, regions or
alternative key material in root, authority and ticket at once, and all
configurations that lack one part. Chains of at most 3. Seconds of 2 units, years
of 2 or 3, a Time32 of 3 bits, so that every rounding and the wrap-around occur.
Shows the equivalence of the verdict with a definition from the roots downwards
(`ValidIffVouchedFor`; a validator without a revocation lookup takes nothing for
revoked), that stricter policies accept less, and to what extent the
checks made for the ticket alone cover its issuers.

**pki_client** (1454306 states), **pki_prune**. Two processes, two keys besides
the canonical one, up to two tickets per command: a renewal beside a request for
tickets, beside a scan, or two of a kind, each dying anywhere,
with writes and removals that fail. Certificates expire
at any time, but not during the command that stores them. Pruning of orphans
runs alone in pki_client and does not in pki_prune. Shows: every stored
certificate has its key (`CertificatesUsable`), the station refers to an EC it has
(`EcAvailable`), keys without certificates belong to a
running command, a crash, or a failed write or removal (`NoKeyLeft`), and `prune orphans` removes
them or warns about those it could not remove (`OrphansRemoved`).

The runs beaconing and cert_validator do not check for deadlock, because their
time ends at `MaxTime` and nothing happens without time; gbc_contention does not,
because a network without Beacons stops once it is at rest.

## 4. Where the code does less than it says

The run pki_prune ends with a counterexample (`OnlyOrphansPruned`): `prune orphans`
first collects the keys of all certificates and then discards every other
credential. If an EC or a ticket is stored in between, by another command, its
key is discarded although the command is to "remove credential files not
referenced by any certificate" (prune_command.cpp 338).

Other observations made while modelling, without a run of their own; the
models contain all of them:

- `CbfPacketBuffer::update` to an earlier time does not move the event: the
  packet is flushed late, though less than a timeout (`BoundedLateness`).
- `BurstBudget::burst_messages` to a lower limit resizes the content of the
  circular buffer, not its capacity: the latest records are erased, and the
  former limit stays in force for what follows. Neither is the "upper limit of
  messages per burst" of burst_budget.hpp 39; `BurstBounded` says what remains.
- When a fading counter expires, a copy of its packet that is heard later is
  contended for again (`ContentionBounded`).
- Without a revocation lookup a validator accepts revoked certificates
  (certificate_validator.cpp 224-226; the test `crl_not_attached_is_valid` wants
  it so); `ValidIffVouchedFor` makes this exception.
- At a head drop the hook of flow control receives the packet that is enqueued,
  not the dropped one; `DropsReported` therefore says only that it is called.
- A trigger left over from an emptied queue sends before the rate control
  permits it; therefore no property relates transmissions of FlowControl to
  the delay.
- A CAM that carries the own certificate answers no request of a peer
  (`RequestsDrain`); as socktap's CAM application sends every 1000 ms
  (cam_application.cpp 18) and a certificate is due after 950 ms, all its CAMs do. If signing fails, the requests taken from the queue and the
  mark for the own certificate are lost (`RequestRemembered`). An included
  certificate of an authority is not stored by its receivers, it only ends
  their request.
- A renewal whose last write fails leaves the station without an EC identifier,
  though with both ECs; a key that could be created only in part leaves a file;
  and `prune orphans` only warns about a key it could not discard
  (prune_command.cpp 204-206).

Some properties of the passing runs are weaker than a reader of the header files
may expect, because the code does not do more: lateness in the CBF buffer is
bounded, not zero (`update`, and the comparison with a dangling iterator in
`add`, both leave the event behind); one packet may exceed the capacity if it is
alone (`Consistent`); lifetimes drift by half a unit for each re-encoding
(`LifetimeDrift`); a burst period may see almost two bursts, because a message
exactly one period after the first of a burst joins the burst that is about to
be forgotten, and more if records are erased (`BurstBounded`); and under advanced forwarding the duplicate
counter is looked at only while a packet is buffered, so that only the hop limit
bounds its repetitions (`ComesToRest`).

## 5. Fairness

`ProgressSpec` (gbc_contention) assumes weak fairness of `Receive`
and of `CbfTimeout`: while frames are in the air one of them arrives in the end
(or is lost, in lossy runs, which also takes it out of the air), and while
packets are in a CBF buffer one of their timers fires. A CBF timer fires because the buffer always has an event at the runtime: this is theorem
`WakeUpNeverLost` together with the application calling `trigger` on its runtime.

`FairSpec` (gbc_greedy) adds that each station is heard again and again by
those in its reach. The router restarts its beacon timer whenever it sends a
beacon or an SHB packet (router.cpp 736-755). One caveat: a beacon whose
encapsulation fails (line 725) does not restart it; this is what
`SilentOnlyAfterFailure` is about.

`FairSpec` (cert_distribution): time passes and what is in the air of a station is
verified (weak fairness); each station sends CAMs again and again, and of the CAMs
with its certificate the channel does not lose all on the way to any one station
(strong fairness, since such a CAM is possible again and again and not all the
time). Signing fails again and again too, but not every time. Nothing is assumed about requests: they may
all be lost.

The other runs check safety only. Deadlock is checked where time does not end the
behaviour: gbc_greedy has none because beacons may always be heard; the other
modules end with operations for which no time has to pass (another add, flush
or attempt to send, another state of the rate control).

## 6. Proofs

Every safety property that a passing run checks, except `SilentOnlyIfCovered`, is
also the statement of a theorem. Assumptions are named in the modules that declare the constants and say only
that sets contain what their names suggest and that delays are bounded by
`MaxDelay` or `MaxTimeout`; TLC evaluates them in every run. Stations, packets,
certificates, capacities, lengths, lifetimes, timeouts, intervals and all bounds are
arbitrary. Where a proof module joins several components, their specifications
have names of their own (`HopsSpec`, `BufferSpec`, `DistributionSpec`).

**CommonLemmas.** Induction is over sets of numbers: `Upwards` says that a set
with 0 that is closed under successor holds all numbers, a fact about a set rather
than a predicate, which the provers instantiate; it rests on `Least`, and this on
well-foundedness (`WFMin`). `Recursion` follows: a function defined by its first
value and a step exists. Then, what `Kept(s, K)` is, for every sequence: it is
obtained from `s` by a strictly increasing choice of positions that misses no element
of `K` (`KeptPicks`), and there is only one such sequence (`PicksUnique`). The last
fact gives the rest without another induction: sets that agree on the elements of
`s` keep the same (`KeptSame`), and cutting off the head of what was kept is keeping
less (`SuffixKept`); `KeptAppend` is the step for an element that is added at the end.
`SameRecursion` says that two functions with the same first value and the same step
agree: what is computed by a loop can be described by any function that satisfies
its recursion. The lemmas on lifetimes are described next.

**ForwardingProof** has three parts.

*Lifetimes.* `ReductionExact`: `HopsSpec => []ErrorBounded`;
`HopsNeverProlong`: `HopsSpec => NeverProlonged`, for all lifetime fields and all
queueing times. The only invariant they need is that the octet is a lifetime
field; the work is in the arithmetic of CommonLemmas. `MultiplierFits`: the base
changes just in time, so up to 63 times 100 s the rounded quotient fits into six
bits and the modulo of `Encode` changes nothing. `EncodeBelow`: a duration below a
multiple of some unit is encoded with a unit that is no coarser and divides that
unit, so rounding up stops at the old lifetime at the latest. The lemmas on types
are also used by CbfPacketBufferProof.

*The store-carry-forward buffer.* `BufferConsistent`: `BufferSpec => []Consistent`;
`FlushComplete`: `BufferSpec => FlushLosesNothing`. `BufferInv` says that the buffer
is one of `Buffers(now)`: the byte count is the sum over the nodes and within the
capacity, nodes are in the order of their first push, and each is `Queued`, i.e. its
expiry is what its lifetime was when it was stamped and its lifetime has drifted by
at most 25 ms for each reduction. `BytesSplit` and `BytesKept` are about the sum:
removing expired nodes anywhere in the list, and the oldest ones at its head,
subtracts their bytes. `DropExpiredOK`, `DropOK` and `PushIntoOK` take a buffer of
this set to another one. A flush is a recursion of pushes into an empty buffer:
`PushAllFits` shows by induction that it never drops a packet, because what is
pushed back is part of what was in the buffer before, and that it keeps the order.
This is the argument that a flush loses nothing; it would fail if `m_stored` were not
reset before the callbacks.

*The network.* `NetworkInv` says that every station is in one of `States(n, R)` and the
air holds only `Frames(R)`, where R are the packets requested so far: lists without
repetitions of requested packets, carried packets that may be carried, and frames to
be sent that make progress (`Progressing`). The last is not true of a carried packet
and has to be established again each time greedy forwarding decides: `Decides` is what
each forwarding algorithm guarantees of its next hop, `Moves` what an operation of
the router leaves alone. `UnicastAlwaysProgresses` (`Spec => []UnicastProgress`)
follows, whatever the algorithms.

The bounds on transmissions need an account. A transmission may come
long after the event that caused it: the packet may be in the CBF buffer or carried,
and be flushed, decided anew and stored again many times. `Owed(s, p, K)` is the
number of transmissions of p a station has started or may still make without further
input, less what its counter has recorded (`Recorded`,
at most `MaxCounter`). `GreedyOwes`, `AreaCbfOwes`, `FlushOwes` and
their like show that no operation owes more than what it was called for, `Accounted`
says so of every action. `RegularInv` is the balance: under contention what was sent
and is owed is at most one for the source's own request, the counter having
recorded the rest, or having done so before it expired: each expiry adds
`MaxCounter` to the account (`Faded`, `ContentionOK`); under duplicate detection it is at most one for a
packet that is in the list of its source, and the request (`DetectionOK`).
`ContentionAlwaysBounded` and `AlwaysForwardsOnce` follow. That lists do not push
packets out is `ListFits`: a list without repetitions of at most `MaxRequests`
packets is no longer than that.

`AlwaysPassedUpOnce`: `PassedInv` says that what has been passed up is in the memory;
`RememberList` that a memory with room for all packets forgets none.

**CbfPacketBufferProof.** `WakeUpNeverLost`: `Spec => []EventPending`;
`LatenessBounded`: `Spec => []BoundedLateness`. Neither is inductive alone. That
`update` leaves the event behind is harmless only if the event is at most one
timeout away and every timer was started in the past; that no packet is late by
a timeout follows only if the event's distance is bounded by the expiry of the
timers it serves. The inductive invariant `IInv` is their conjunction with
`TimersOK` (timers, lifetimes and counters have their types). Lemmas on the
lifetime operators and counters give the types; `ScheduleFirst` says that
scheduling the first timer gives an event no later than any timer; then there is
one lemma for the shared `RemoveTimer` and one step per action, `Add` split by
duplicate or new and by the outcome of the undefined comparison.

`DriftBounded`: `Spec => []LifetimeDrift`. The bound on what is handed out is not
inductive; `DriftInv` bounds every buffered entry, with an exception: an entry whose
lifetime was reduced to zero has drifted without bound since, but is never handed
out. `ReducedDrifts` is the arithmetic of one reduction.

`AlwaysConsistent`: `Spec => []Consistent`. `Bytes` is a sum over a set, defined by
choosing one element after the other. `SumExists` and `SumsAgree` show by induction
on the cardinality that it is defined and does not depend on the set it is
computed in, `SumTakes` that any element may be taken out first, and `BytesSplit`
that the bytes of two parts add up. `ListInv` says that the list has no repetitions
and lists the packets with a timer; the number of bytes is theirs. `HeadDrops` shows
that the number of packets the head drop removes exists; `ListLeaves` serves remove,
fetch and flush.

`ImplementsContention`: `Spec => ImplementsContentionBuffer`, with the premise that
the counter is a `CbfCounterContending`. Besides `ListInv` it needs `CounterInv`:
a packet that does not wait has no counter, which is what makes the count start
anew with each stay.

**FlowControlProof.** `NeverStalls`: `Spec => []NoStall`: while packets are
queued there is a trigger that is due within the longest delay. Only the request
that finds all queues empty schedules a trigger, so every other action must
hand the trigger on. `IInv` adds `ControlOK` (the types of queues and triggers)
and `BudgetPast` (rate control has recorded only past times), from which it
follows that each delay is at most `MaxDelay`.

`DropsAlwaysReported`: `Spec => []DropsReported`. The invariant `PacketInv` says
how queues, requests, transmissions and reports fit together: the entry of a
queued packet expires when its one request says, no packet is in two places, and
each request is in one of them or was pushed out by a later one of its profile
that was reported in its stead. The last is the interesting part: head drop
reports the packet that is enqueued, so that the packet that is lost is
accounted for by another one's report, which must still be found after any
number of further drops.

`ImplementsQueues`: `Spec => ImplementsPriorityQueues`. Under the mapping, the
packets lost by a step are those that have expired and, for an enqueued packet,
the head of its own queue. `CutNames` shows that what remains is
`Kept(queue, Packet \ lost)`, which is where the facts about `Kept` are needed. There is
one lemma per action; `NextQueueFirst` shows that the queue with the least delay is
the most urgent one among profiles 1 to 3.

**RateControlProof.** `DelayAlwaysSuffices`, `AlwaysFitsSteadyLoad`,
`AlwaysRelaxesSlowly` and `BurstsAlwaysBounded`, for all limits, durations, periods, numbers of states and loads. The invariant `Inv` has a
part for each. `Bursts`: the messages of the latest period that are
later than some records of the circular buffer are no more than the records
after these (`Follows`), and all of them are fewer than the buffer's content and
its capacity, the highest limit so far, together; a message joins a full buffer
only if the one it replaces is out of the period. Raising the limit adds to the
capacity, lowering it erases the latest records and, from what is counted, as
many messages. `Kept`, `MeshedFits` and `GradualFits`: the stored loads are the
latest samples; after k equal samples a gradual machine is at least k steps on its
way or has arrived; the meshed machine has left the far end after its
observation time.

**BeaconingProof.** `RepetitionsAlwaysBounded`, `SilentOnlyEverAfterFailure`,
`AlwaysHeals` and `NeighbourAlwaysKept`. `Inv` holds the account of a repetition
(interval, delays and what is left add up to the maximum), the distances of the
timers, and for each frame and entry with a position from before the
timestamps went back, when it was sent and when it expires. A Beacon is skipped
when the timestamp is 0; `Skipped` shows that no second one is: a timestamp of 0 is
updated before the timer ends again and does not wrap until then, if timestamps
take longer to wrap than an interval (`WrapAssumption`; 49 days in the code).
`NeighbourKept` needs `Inv2`, for a time without disturbance: whatever the
receiver knows, unless it is the latest, a newer position is under way and was
sent in time. Timestamps of times within `Bound` of each other are ordered as the
times, for every modulus (`TimestampOrder`, `BeforeIffEarlier`). `TimingFits` is the
premise: entries live as long as `Bound`, timestamps wrap after twice that.

**CertificatesProof**, first part: CertificateValidator. The invariant is `TypeOK` alone; the four properties
are about what the loops of the validators compute from any state.
`AlwaysValidIffVouchedFor` compares an iteration from the ticket upwards with a
definition from the roots downwards. `WalkFollows` and `LevelsGrow` show that both
recursive functions exist. `Arrives` is what they have in common: a walk that
reaches a trusted root, with everything on its way signed, consistent and not
revoked. `ArrivesVouched` and `VouchedArrives` relate it to the levels of
`VouchedFor`, `AcceptedArrives` and `ArrivesAccepted` to the four loops, which stop
in different places: `WalkEnds` shows that none looks beyond a self-signed
certificate. `SignedIffAccepted` unfolds the states of the alternative material.
`PoliciesAlwaysOrdered`, `RegionsAlwaysCovered` and `ChainsAlwaysCurrent` follow from
`ValidVerdict` (no check has failed) by induction along the walk; the last one rests
on `EndsNoLater`: the end that chains are compared with is never later than the one
the ticket is checked with, whatever the unit and although `Time32` wraps around.
`SetupsAssumption` only says that contents have their types.

Second part: CertificateDistribution. `CachesAlwaysSound`: `DistributionSpec =>
[]CacheSound`; `RequestsAlwaysRemembered`: `DistributionSpec => []RequestRemembered`,
for any number of stations, certificates and messages in the air, any queue length
and any truncation of digests, collisions included. `DistributionInv` adds to the
types that a certificate that was learnt was accepted and is the signer of
a correctly signed message that the station has received (`LearntOnly`). Every early
return of `Verify` leaves the cache's storage as it is; only its end stores. The
trackers are lists with a lookup table that agree (`Trackers`). A request
that is pending stays so when others are added as long as all of them fit
(`Overflows` counts distinct requests, since a repeated one is not queued again), when others
are discarded and when one is taken; the own request is taken only by a CAM that carries
the ticket, or marks it to be carried by the next one.

**PkiClientProof.** `EcAlwaysAvailable` and `NoKeyEverLeft` hold for any number of
processes in any interleaving, crashing anywhere. `Stages` ties what a process
holds to where it is; `Ownership` says that a key or certificate under way belongs
to one process, is not expired and is stored as an EC only between the two writes
that make it current; `Scans` covers the EC that becomes current while another
process collects the expired ones. `CertificatesAlwaysUsable` and
`OrphansAlwaysRemoved` have the premise that `prune orphans` runs alone, as in the
run pki_client; no lock enforces it, and the run pki_prune shows what happens
otherwise. `Collected` is what they need of it: what is left to discard are exactly the keys
without a certificate that the user was not warned about.

Only model-checked: `SilentOnlyIfCovered`, which relates the transmissions of all
routers; the liveness properties `ComesToRest`, `ReachesArea`,
`Acquainted` and `RequestsDrain` (fairness and `ENABLED` are out of the prover's
reach), and the counterexample of the run pki_prune.

## 7. What is not modelled

`PROJECT.json` lists every component. Nearly all of the repository is generated
or stateless: of the 4644 files of code, some 4000 are ASN.1 coders. Left out for good:

- encoders, parsers and generated code (`asn1`, `net`, headers of `geonet`,
  `access`), which have no state;
- cryptographic backends and the making of hybrid certificates, which are
  computation rather than control;
- LIMERIC and the aggregation of channel busy ratios: what they do is a
  computation in floating point, which integers do not represent;
- geometry (`geonet/areas`, `geodesy`): stations of the models stand on a line;
- `security/v2`, the predecessor of `security/v3` with the same structure;
- `facilities` helpers, `gnss` and `rpc` input and output, BTP ports;
- the tools other than the PKI client (socktap, certify, benchmark,
  fuzz-harness), which are input and output around the stack.

Assumptions the models make: truncated digests of different certificates are
different in the instance that TLC checks (the cache is modelled with collisions,
and the theorems hold with them); the clock of a station
is set back only by a restart; the validity of a certificate is longer than a
command takes.

## 8. Plan

Done: the core (contention and carrying buffers, lifetimes, forwarding in a
network, DCC flow control and rate control) with its first theorems;
certificates between stations and their validation; beaconing, repetition,
location table and timestamps; the DCC state machines; the PKI client with
crashes; the abstract specifications of the CBF buffer and of flow control.

Proved: every safety property of the passing runs but `SilentOnlyIfCovered`, for
all values of the constants, with the refinements of PriorityQueues and ContentionBuffer.

What could follow: LIMERIC, if its duty cycle is given in fixed point; the packet
data rate of a source in the location table, which is a free choice now; liveness,
once a prover for it is at hand.
