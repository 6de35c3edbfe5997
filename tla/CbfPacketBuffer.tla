-------------------------- MODULE CbfPacketBuffer --------------------------
(***************************************************************************)
(* The packet buffer of contention based forwarding                        *)
(* (vanetza/geonet/cbf_packet_buffer.cpp) together with the runtime event  *)
(* that flushes it (vanetza/common/manual_runtime.cpp).                    *)
(*                                                                         *)
(* A buffered packet waits for its CBF timer.  The buffer keeps one event  *)
(* at the runtime, meant for the timer that expires first; when the event  *)
(* fires all packets with expired timers are handed to the callback of the *)
(* router.  Time is in milliseconds.                                       *)
(***************************************************************************)
EXTENDS CbfCounter, Lifetime, Subsequences, FiniteSetsExt

CONSTANTS
    Length,     \* packet length in bytes, a function of the identifier
    Capacity,   \* m_capacity_bytes
    Timeouts,   \* timeouts the router asks for (timeout_cbf)
    MaxTimeout, \* the longest of them (itsGnCbfMaxTime)
    Lifetimes,  \* lifetime fields of packets to be buffered
    Steps,      \* by how much the clock may advance between two triggers
    MaxTime,    \* bound on the clock
    MaxUpdates  \* bound on the updates of one packet while it is buffered

ASSUME LengthAssumption == Length \in [Id -> Nat \ {0}]
ASSUME CapacityAssumption == Capacity \in Nat
ASSUME TimeoutAssumption == /\ MaxTimeout \in Nat
                            /\ Timeouts \subseteq 1 .. MaxTimeout
ASSUME LifetimesAssumption == Lifetimes \subseteq LifetimeField
ASSUME StepsAssumption == Steps \subseteq Nat \ {0}
ASSUME BoundsAssumption == MaxTime \in Nat /\ MaxUpdates \in Nat

VARIABLES
    m_packets,       \* identifiers of the buffered packets, oldest first
    m_timers,        \* identifier -> timer and packet (the bimap and its info)
    m_stored_bytes,
    m_counter,       \* table of the CbfCounter
    events,          \* deadlines of the events the buffer has at the runtime
    now,             \* Runtime::now
    out              \* history: packets given away by the last step

vars == <<m_packets, m_timers, m_stored_bytes, m_counter, events, now, out>>

(* added, initial and reductions are history: when the packet was added,   *)
(* with which lifetime, and how often its lifetime was reduced since.      *)
TimerEntry == [expiry : Nat, start : Nat, lifetime : LifetimeField,
               added : Nat, initial : LifetimeField, reductions : Nat]

-----------------------------------------------------------------------------
(* Helpers *)

Bytes(ids) == MapThenSumSet(LAMBDA i : Length[i], ids)

Without(timers, ids) == [i \in DOMAIN timers \ ids |-> timers[i]]

(* id is m_timers.left.begin().  The multiset orders timers by expiry;     *)
(* among equal ones each may come first.                                   *)
IsFirst(timers, id) ==
    /\ id \in DOMAIN timers
    /\ \A other \in DOMAIN timers : timers[id].expiry <= timers[other].expiry

(* schedule_timer: cancel the pending event, schedule one at the expiry of *)
(* the first timer                                                         *)
Schedule(timers) ==
    \E first \in DOMAIN timers :
        /\ IsFirst(timers, first)
        /\ events' = {timers[first].expiry}

(* remove_timer: reschedule if the erased timer was the first one and it   *)
(* was not the only one                                                    *)
RemoveTimer(id) ==
    LET rest == Without(m_timers, {id})
    IN  /\ m_timers' = rest
        /\ \/ /\ IsFirst(m_timers, id)
              /\ DOMAIN rest # {}
              /\ Schedule(rest)
           \/ /\ \/ DOMAIN rest = {}
                 \/ \E other \in DOMAIN rest : IsFirst(m_timers, other)
              /\ UNCHANGED events

Queued(entry, at) == at - entry.start

(* reduce_lifetime: entry after its lifetime was reduced by the queueing   *)
(* time, and whether the packet remains valid                              *)
ReduceLifetime(entry, at) ==
    [entry EXCEPT !.lifetime   = Reduced(@, Queued(entry, at)),
                  !.reductions = @ + 1]

Valid(entry, at) == Remaining(entry.lifetime, Queued(entry, at)) > 0

Delivery(id, at) ==
    LET entry == ReduceLifetime(m_timers[id], at)
    IN  [id |-> id, lifetime |-> entry.lifetime, initial |-> entry.initial,
         waited |-> at - entry.added, reductions |-> entry.reductions]

(* Mutant: the counters of packets that leave are kept. *)
CounterRemoveAllKeeps(ids) == m_counter

CounterRemoveAll(ids) ==
    [i \in Id |-> IF i \in ids THEN CounterRemove(m_counter, i)[i] ELSE m_counter[i]]

(* Number of packets the head drop of add removes to store another one:    *)
(* the fewest that make it fit, or all of them.                            *)
HeadDrop(length) ==
    LET Fits(n) ==
            m_stored_bytes + length - Bytes({m_packets[k] : k \in 1 .. n}) <= Capacity
    IN  CHOOSE n \in 0 .. Len(m_packets) :
            /\ n = Len(m_packets) \/ Fits(n)
            /\ \A m \in 0 .. (n - 1) : ~Fits(m)

-----------------------------------------------------------------------------
Init ==
    /\ m_packets = <<>>
    /\ m_timers = [i \in {} |-> <<>>]
    /\ m_stored_bytes = 0
    /\ m_counter = EmptyTable
    /\ events = {}
    /\ now = 0
    /\ out = {}

(* add schedules the event anew if m_timers.left.begin() differs from the  *)
(* iterator taken before the head drop.  If the head drop has erased that  *)
(* first timer, its iterator dangles.  It cannot equal another timer that  *)
(* existed back then, but the node of the added timer may have got the     *)
(* memory of the erased one: then both outcomes of the comparison occur.   *)
ScheduleAfterAdd(dropped, addedIsFirst) ==
    IF DOMAIN m_timers = {}
    THEN Schedule(m_timers')
    ELSE \E first \in DOMAIN m_timers :
            /\ IsFirst(m_timers, first)
            /\ \/ /\ first \in dropped \/ addedIsFirst
                  /\ Schedule(m_timers')
               \/ /\ first \in dropped <=> addedIsFirst
                  /\ UNCHANGED events

(* Mutant: the bytes of a rejected duplicate stay accounted for. *)
StoredAfterLeak(length, dropped, isNew) == m_stored_bytes - Bytes(dropped) + length

(* m_stored_bytes at the end of add: a duplicate that could not be         *)
(* inserted does not count.                                                *)
StoredAfterAdd(length, dropped, isNew) ==
    m_stored_bytes - Bytes(dropped) + (IF isNew THEN length ELSE 0)

(* add; a timeout that is not positive is ignored *)
Add(id, lifetime, timeout) ==
    /\ timeout > 0
    /\ LET n       == HeadDrop(Length[id])
           dropped == {m_packets[k] : k \in 1 .. n}
           kept    == SubSeq(m_packets, n + 1, Len(m_packets))
           timers  == Without(m_timers, dropped)
           entry   == [expiry |-> now + timeout, start |-> now, lifetime |-> lifetime,
                       added |-> now, initial |-> lifetime, reductions |-> 0]
           isNew   == id \notin DOMAIN timers
       IN  /\ IF isNew
              THEN /\ m_timers' = [i \in DOMAIN timers \cup {id} |->
                                      IF i = id THEN entry ELSE timers[i]]
                   /\ m_packets' = Append(kept, id)
                   /\ m_counter' = CounterAdd(CounterRemoveAll(dropped), id, now)
              ELSE /\ m_timers' = timers
                   /\ m_packets' = kept
                   /\ m_counter' = CounterRemoveAll(dropped)
           /\ m_stored_bytes' = StoredAfterAdd(Length[id], dropped, isNew)
           /\ ScheduleAfterAdd(dropped,
                   isNew /\ \A i \in DOMAIN timers : entry.expiry < timers[i].expiry)
    /\ out' = {}
    /\ UNCHANGED now

(* remove *)
RemovePacket(id) ==
    /\ id \in DOMAIN m_timers
    /\ m_stored_bytes' = m_stored_bytes - Length[id]
    /\ m_counter' = CounterRemove(m_counter, id)
    /\ m_packets' = Kept(m_packets, Id \ {id})
    /\ RemoveTimer(id)
    /\ out' = {}
    /\ UNCHANGED now

(* The timers after the one of id was replaced by update. *)
Restarted(id, timeout) ==
    [m_timers EXCEPT ![id] = [ReduceLifetime(@, now) EXCEPT !.expiry = now + timeout,
                                                            !.start  = now]]

(* Mutant: the event follows the updated timer instead of the first one. *)
UpdateSchedulesOwn(id, timeout) ==
    /\ id \in DOMAIN m_timers
    /\ m_timers[id].reductions < MaxUpdates
    /\ m_timers' = Restarted(id, timeout)
    /\ events' = {now + timeout}
    /\ m_counter' = CounterIncrement(m_counter, id, now)
    /\ out' = {}
    /\ UNCHANGED <<m_packets, m_stored_bytes, now>>

(* update: the timer is replaced, the event at the runtime stays as it is *)
Update(id, timeout) ==
    /\ id \in DOMAIN m_timers
    /\ m_timers[id].reductions < MaxUpdates
    /\ m_timers' = Restarted(id, timeout)
    /\ m_counter' = CounterIncrement(m_counter, id, now)
    /\ out' = {}
    /\ UNCHANGED <<m_packets, m_stored_bytes, events, now>>

(* fetch *)
Fetch(id) ==
    /\ id \in DOMAIN m_timers
    /\ m_stored_bytes' = m_stored_bytes - Length[id]
    /\ out' = IF Valid(m_timers[id], now) THEN {Delivery(id, now)} ELSE {}
    /\ m_counter' = CounterRemove(m_counter, id)
    /\ m_packets' = Kept(m_packets, Id \ {id})
    /\ RemoveTimer(id)
    /\ UNCHANGED now

(* Mutant: the remaining packets are not scheduled again. *)
ScheduleNothing(rest) == events' = {}

ScheduleRest(rest) == IF DOMAIN rest # {} THEN Schedule(rest) ELSE events' = {}

(* flush, invoked by the runtime which has removed the event before *)
Flush(at) ==
    LET due  == {i \in DOMAIN m_timers : m_timers[i].expiry <= at}
        rest == Without(m_timers, due)
    IN  /\ out' = {Delivery(i, at) : i \in {j \in due : Valid(m_timers[j], at)}}
        /\ m_stored_bytes' = m_stored_bytes - Bytes(due)
        /\ m_counter' = CounterRemoveAll(due)
        /\ m_packets' = Kept(m_packets, Id \ due)
        /\ m_timers' = rest
        /\ ScheduleRest(rest)

(* ManualRuntime::trigger: advance the clock, then run what is due *)
Trigger(step) ==
    /\ now + step <= MaxTime
    /\ now' = now + step
    /\ IF \E deadline \in events : deadline <= now + step
       THEN Flush(now + step)
       ELSE /\ out' = {}
            /\ UNCHANGED <<m_packets, m_timers, m_stored_bytes, m_counter, events>>

Next ==
    \/ \E id \in Id, lifetime \in Lifetimes, timeout \in Timeouts :
            Add(id, lifetime, timeout)
    \/ \E id \in Id : RemovePacket(id)
    \/ \E id \in Id, timeout \in Timeouts : Update(id, timeout)
    \/ \E id \in Id : Fetch(id)
    \/ \E step \in Steps : Trigger(step)

Spec == Init /\ [][Next]_vars

-----------------------------------------------------------------------------
(* Properties *)

TimersOK ==
    /\ DOMAIN m_timers \subseteq Id
    /\ m_timers \in [DOMAIN m_timers -> TimerEntry]
    /\ m_counter \in Tables
    /\ events \in SUBSET Nat
    /\ now \in Nat

(* Every variable has its type.  In particular m_stored_bytes, an unsigned *)
(* number in the code, never falls below zero.                             *)
TypeOK ==
    /\ TimersOK
    /\ m_packets \in Seq(Id)
    /\ m_stored_bytes \in Nat

(* The list of packets, the timers and the byte count describe the same    *)
(* packets: every listed packet has exactly one timer and the bytes are    *)
(* those of the listed packets, whichever way packets have come and gone   *)
(* (add with head drop, rejected duplicate, remove, fetch, flush).  The    *)
(* capacity is exceeded only by a single packet that is longer than the    *)
(* whole buffer.                                                           *)
Consistent ==
    /\ TypeOK
    /\ {m_packets[k] : k \in DOMAIN m_packets} = DOMAIN m_timers
    /\ Len(m_packets) = Cardinality(DOMAIN m_timers)
    /\ m_stored_bytes = Bytes(DOMAIN m_timers)
    /\ m_stored_bytes > Capacity => Len(m_packets) = 1

(* No lost wake-up: while a packet is buffered exactly one event is        *)
(* pending, and it is at most one CBF timeout away from now and from the   *)
(* expiry of any buffered packet, however often packets were added, taken  *)
(* out or updated since the event was scheduled.                           *)
EventPending ==
    DOMAIN m_timers # {} =>
        \E deadline \in events :
            /\ events = {deadline}
            /\ deadline <= now + MaxTimeout
            /\ \A id \in DOMAIN m_timers : deadline <= m_timers[id].expiry + MaxTimeout

(* Although update and (with a dangling iterator) add may leave the event  *)
(* behind the first timer, no packet is held back by a whole CBF timeout   *)
(* or more after its own timer has expired (nor is its expiry ever further *)
(* in the future).                                                         *)
BoundedLateness ==
    \A id \in DOMAIN m_timers :
        /\ now < m_timers[id].expiry + MaxTimeout
        /\ m_timers[id].expiry <= now + MaxTimeout

(* Re-encoding a reduced lifetime is lossy, but each reduction adds at     *)
(* most half a unit of the 50 ms base: so much may the lifetime a packet   *)
(* leaves with differ from its initial lifetime less the time it waited.   *)
(* (Stated for lifetimes below 3150 ms.)                                   *)
LifetimeDrift ==
    \A p \in out :
        LET exact == Decode(p.initial) - p.waited
        IN  (Decode(p.initial) < 3150) =>
                /\ Decode(p.lifetime) - exact <= 25 * p.reductions
                /\ exact - Decode(p.lifetime) <= 25 * p.reductions

(* What the buffer promises, see ContentionBuffer. *)
Abstract == INSTANCE ContentionBuffer WITH
    waiting <- m_packets,
    heard <- [i \in Id |-> CounterValue(m_counter, i, now)],
    released <- {p.id : p \in out}

(* With contending counters the buffer, its timers, its byte count and its *)
(* counter table implement the abstract buffer: copies are counted exactly *)
(* as long as a packet waits, head drop takes the oldest packets and no    *)
(* packet is handed out twice or stays after it was handed out.            *)
ImplementsContentionBuffer == Abstract!Spec
=============================================================================
