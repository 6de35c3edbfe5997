------------------------------ MODULE Beaconing ------------------------------
(***************************************************************************)
(* One station that makes itself known by Beacons and single-hop           *)
(* broadcasts, and one that keeps it in its location table                 *)
(* (vanetza/geonet/router.cpp, position_updater.cpp).                      *)
(*                                                                         *)
(* Time passes as in ManualRuntime: it is set forward, possibly beyond the *)
(* deadlines of timers, and then all timers that are due are processed, in *)
(* the order of their deadlines, before anything else happens.  Frames     *)
(* arrive within MaxLatency in any order, or are lost.  The sender may be  *)
(* restarted, after which its clock may have been set back.                *)
(***************************************************************************)
EXTENDS LocationTable, Repeater

CONSTANTS
    Period, Jitter, \* itsGnBeaconServiceRetransmitTimer and -MaxJitter
    UpdateInterval, \* inverse of itsGnMinimumUpdateFrequencyEPV
    Requests,       \* SHB requests: [maximum, interval, scf]
    Off,            \* a timer that is not running
    InitialClock,   \* the sender's clock at the start
    SetBack,        \* how far its clock may be set back
    MaxLatency,     \* longest time a frame takes
    MaxStep,        \* bound on how far time is set forward at once
    MaxTime,        \* bound on the time
    MaxRequests, MaxFaults \* bounds on events

ASSUME BeaconingAssumption ==
    /\ Period \in Nat /\ Jitter \in Nat /\ UpdateInterval \in 1..(Period - 1)
    /\ MaxLatency \in Nat /\ MaxStep \in Nat \ {0} /\ MaxTime \in Nat
    /\ SetBack \in Nat /\ InitialClock \in Nat
    /\ Requests \subseteq [maximum : Nat, interval : Nat, scf : BOOLEAN]
    /\ Off \notin Nat /\ Never \notin Nat

(* Timestamps wrap around after 49 days, positions are updated and Beacons *)
(* sent every few seconds.                                                 *)
ASSUME WrapAssumption ==
    UpdateInterval + Period + Jitter + 2 * (MaxStep - 1) < TimestampModulus

VARIABLES
    now,       \* time
    clock,     \* the sender's clock is ahead of now by this much
    update,    \* deadline of the sender's position updater
    stamp,     \* timestamp in its local position vector
    beacon,    \* deadline of its beacon timer
    rep,       \* its packet repetition
    buffer,    \* is there an SHB packet in its broadcast forwarding buffer?
    air,       \* frames on their way
    entry,     \* the receiver's location table entry for the sender
    fix,       \* history: time of the sender's position, Never without one
    last,      \* history: position time in the latest frame
    silent,    \* history: since when has the sender had a position and been silent?
    failed,    \* history: a Beacon could not be encapsulated and no SHB was sent since
    received,  \* history: when the receiver last heard of the sender
    disturbed, \* history: when the sender's timestamps last went back
    spent      \* history: how often bounded events have happened

station == <<clock, update, stamp, beacon, rep, buffer, fix, failed>>
peer == <<entry, received>>
vars == <<now, station, air, peer, last, silent, disturbed, spent>>

(* One more event of a bounded kind.  Frames lost, failures to encapsulate *)
(* a Beacon and restarts are faults and bounded together.                  *)
Spend(kind, bound) ==
    /\ spent[kind] < bound
    /\ spent' = [spent EXCEPT ![kind] = @ + 1]

Fault(kind) ==
    /\ spent.lost + spent.failures + spent.restarts < MaxFaults
    /\ Spend(kind, MaxFaults)

-----------------------------------------------------------------------------
(* Deadlines of the sender's timers *)
Deadlines == {update} \cup ({beacon} \ {Off}) \cup {d \in {rep.deadline} : rep.pending}

(* No timer is due. *)
Settled == \A d \in Deadlines : now < d

(* A timer is the next to be processed. *)
Due(deadline) == deadline <= now /\ \A d \in Deadlines : deadline <= d

(* reset_beacon_timer *)
ResetBeaconTimer == \E jitter \in 0..Jitter : beacon' = now + Period + jitter

(* pass_down to the broadcast address, then reset_beacon_timer.  A         *)
(* position vector from before the first position has timestamp 0.         *)
Send ==
    /\ air' = air \cup {[timestamp |-> stamp, fix |-> fix, sent |-> now]}
    /\ last' = fix /\ silent' = now
    /\ disturbed' = IF fix = Never THEN now ELSE disturbed
    /\ ResetBeaconTimer

SendNothing == UNCHANGED <<air, last, silent, disturbed>>

Init ==
    /\ now = 0 /\ clock = InitialClock
    /\ update = UpdateInterval /\ stamp = 0 /\ fix = Never
    /\ beacon = 0
    /\ rep = NoRepetition /\ buffer = FALSE
    /\ air = {} /\ entry = NoEntry
    /\ last = Never /\ silent = 0 /\ failed = FALSE /\ received = 0 /\ disturbed = Never
    /\ spent = [k \in {"requests", "failures", "lost", "restarts"} |-> 0]

(* Runtime::trigger; no frame gets too old. *)
Advance ==
    \E d \in 1..MaxStep :
        /\ Settled
        /\ now + d <= MaxTime
        /\ \A f \in air : now + d - f.sent <= MaxLatency
        /\ now' = now + d
        /\ UNCHANGED <<station, air, peer, last, silent, disturbed, spent>>

(* The callback of PositionUpdater::schedule: update_position *)
UpdatePosition ==
    /\ Due(update)
    /\ stamp' = TimestampOf(now + clock)
    /\ fix' = now
    /\ update' = now + UpdateInterval
    /\ silent' = IF fix = Never THEN now ELSE silent
    /\ UNCHANGED <<now, clock, beacon, rep, buffer, failed, air, peer,
                   last, disturbed, spent>>

(* Mutant: the timer is not started again before the first position. *)
BeaconTimerExpiredOnce ==
    /\ beacon # Off /\ Due(beacon)
    /\ \/ stamp = 0 /\ beacon' = Off /\ SendNothing /\ UNCHANGED <<failed, spent>>
       \/ stamp # 0 /\ Send /\ UNCHANGED <<failed, spent>>
    /\ UNCHANGED <<now, clock, update, stamp, rep, buffer, fix, peer>>

(* on_beacon_timer_expired: without a position fix (a timestamp of 0) the  *)
(* Beacon is skipped; if encap_packet fails the timer is not started       *)
(* again.                                                                  *)
BeaconTimerExpired ==
    /\ beacon # Off /\ Due(beacon)
    /\ \/ /\ stamp = 0
          /\ ResetBeaconTimer
          /\ SendNothing
          /\ UNCHANGED <<failed, spent>>
       \/ /\ stamp # 0
          /\ Send
          /\ UNCHANGED <<failed, spent>>
       \/ /\ stamp # 0
          /\ Fault("failures")
          /\ beacon' = Off
          /\ failed' = TRUE
          /\ SendNothing
    /\ UNCHANGED <<now, clock, update, stamp, rep, buffer, fix, peer>>

(* The transmit callback of an SHB request; encap_packet may fail. *)
TransmitShb ==
    \/ Send /\ failed' = FALSE
    \/ SendNothing /\ UNCHANGED <<beacon, failed>>

(* request(ShbDataRequest), apart from the repetition.  Whether the sender *)
(* has neighbours, without which a packet may be carried, is left open.    *)
CarryOrTransmit(scf) ==
    \/ scf /\ buffer' = TRUE /\ SendNothing /\ UNCHANGED <<beacon, failed>>
    \/ TransmitShb /\ UNCHANGED buffer

(* An application's request *)
RequestShb ==
    \E r \in Requests :
        /\ Settled
        /\ ~rep.pending
        /\ Spend("requests", MaxRequests)
        /\ rep' = AddRepetition(r, now)
        /\ CarryOrTransmit(r.scf)
        /\ UNCHANGED <<now, clock, update, stamp, fix, peer>>

(* Repeater::trigger and dispatch_repetition *)
Repeat ==
    /\ rep.pending /\ Due(rep.deadline)
    /\ rep' = Trigger(rep, now)
    /\ CarryOrTransmit(rep.request.scf)
    /\ UNCHANGED <<now, clock, update, stamp, fix, peer, spent>>

(* indicate() at the sender flushes the broadcast forwarding buffer;       *)
(* packets that have expired are not transmitted.                          *)
Flush ==
    /\ Settled
    /\ buffer
    /\ TransmitShb
    /\ buffer' = FALSE
    /\ UNCHANGED <<now, clock, update, stamp, rep, fix, peer, spent>>

(* indicate() at the receiver: a Beacon or SHB packet of the sender *)
Receive(f) ==
    /\ entry' = Indicate(entry, [timestamp |-> f.timestamp, fix |-> f.fix], now)
    /\ received' = now
    /\ air' = air \ {f}
    /\ UNCHANGED <<now, station, last, silent, disturbed, spent>>

Lose(f) ==
    /\ Fault("lost")
    /\ air' = air \ {f}
    /\ UNCHANGED <<now, station, peer, last, silent, disturbed>>

(* The sender's router and position updater are created anew. *)
Restart ==
    /\ Settled
    /\ Fault("restarts")
    /\ \E back \in {0, SetBack} : clock' = clock - back /\ clock' >= 0
    /\ update' = now + UpdateInterval /\ stamp' = 0 /\ fix' = Never
    /\ beacon' = now
    /\ rep' = NoRepetition /\ buffer' = FALSE
    /\ failed' = FALSE
    /\ disturbed' = now
    /\ UNCHANGED <<now, air, peer, last, silent>>

Next ==
    \/ Advance \/ UpdatePosition \/ BeaconTimerExpired
    \/ RequestShb \/ Repeat \/ Flush \/ Restart
    \/ \E f \in air : Receive(f) \/ Lose(f)

Spec == Init /\ [][Next]_vars

-----------------------------------------------------------------------------
Entries == [pv : [timestamp : 0..MaxTimestamp, fix : Nat \cup {Never}],
            expiry : Nat, neighbour : Nat \cup {Never}]

ASSUME EntryAssumption == NoEntry \notin Entries

(* Every variable has the values the code can give it: timestamps are      *)
(* within their 32 bits, and a repetition under way has time left for it.  *)
TypeOK ==
    /\ now \in 0..MaxTime /\ clock \in Nat /\ update \in Nat
    /\ stamp \in 0..MaxTimestamp /\ beacon \in Nat \cup {Off}
    /\ rep.pending \in BOOLEAN /\ buffer \in BOOLEAN /\ failed \in BOOLEAN
    /\ rep.pending => rep.maximum >= rep.request.interval /\ rep.deadline \in Nat
    /\ entry \in Entries \cup {NoEntry}
    /\ \A f \in air : f.timestamp \in 0..MaxTimestamp /\ f.sent \in 0..now

(* A station with a position is heard of regularly (on_beacon_timer_       *)
(* expired, reset_beacon_timer): the time since its last transmission is   *)
(* at most two beacon intervals, two because a Beacon is skipped when the  *)
(* timestamp wraps to 0.  Only a Beacon that could not be encapsulated     *)
(* makes it silent, until the next SHB packet.                             *)
SilentOnlyAfterFailure ==
    fix # Never /\ ~failed => now - silent <= 2 * (Period + Jitter + MaxStep - 1)

(* A request is repeated as long as its maximum says (Repeater::trigger):  *)
(* repetitions are never scheduled beyond the maximum plus the delay of    *)
(* the last one, and end only if the time left, delays included, is too    *)
(* short for another one.  (With the types.)                               *)
RepetitionsBounded ==
    LET max == rep.request.maximum
        interval == rep.request.interval
    IN  /\ TypeOK
        /\ rep.pending => rep.deadline <= rep.start + max
        /\ rep.count * interval <= max
        /\ ~rep.pending /\ interval > 0 =>
               (rep.count + 1) * interval + rep.late > max

(* A neighbour that is heard of stays one, and its position is up to date  *)
(* (LocationTable::update, is_greater, set_neighbour): unless something is *)
(* lost, fails or is restarted its entry does not expire, although frames  *)
(* that were overtaken or bring no new position do not refresh it; and     *)
(* once all frames have arrived it holds the latest position, in whatever  *)
(* order they came and although timestamps wrap around.                    *)
NeighbourKept ==
    entry # NoEntry /\ spent.lost = 0 /\ spent.failures = 0 /\ disturbed = Never
        => /\ IsNeighbour(entry, now)
           /\ air = {} => entry.pv.fix = last

(* A sender whose timestamps went back is known again, once a lifetime of  *)
(* the entry has passed, as soon as it is heard of: its old position       *)
(* expires, since packets with older timestamps do not refresh it, and is  *)
(* dropped, not resurrected (drop_expired, SoftStateMap::refresh).         *)
Heals ==
    disturbed # Never /\ received > disturbed + MaxLatency + EntryLifetime
        => entry.pv.fix >= disturbed
=============================================================================
