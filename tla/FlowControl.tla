---------------------------- MODULE FlowControl ----------------------------
(***************************************************************************)
(* The DCC gatekeeper (vanetza/dcc/flow_control.cpp) on top of a           *)
(* BurstyTransmitRateControl: packets wait in a queue per access category  *)
(* until the rate control permits their transmission.                      *)
(*                                                                         *)
(* A due trigger of the runtime is run before the clock advances any       *)
(* further, but other callbacks of the same moment may request             *)
(* transmissions first.                                                    *)
(***************************************************************************)
EXTENDS TransmitRateControl, Subsequences, SequencesExt

CONSTANTS
    Packet,      \* packets
    ProfileOf,   \* DCC profile of a packet; 0 is the most urgent one
    LifetimeOf,  \* lifetime of a packet
    Burst,       \* N_Burst
    Intervals,   \* transmission intervals of the states of the state machine
    QueueLength, \* m_queue_length
    MaxDelay,    \* the longest delay the rate control may ask for
    MaxTime      \* bound on the clock

ASSUME PacketAssumption ==
    /\ ProfileOf \in [Packet -> Profile]
    /\ LifetimeOf \in [Packet -> Nat]
ASSUME ControlAssumption ==
    /\ Burst \in Nat \ {0}
    /\ MaxDelay \in Nat /\ BurstPeriod <= MaxDelay
    /\ Intervals \subseteq 0 .. MaxDelay /\ Intervals # {}
    /\ QueueLength \in Nat /\ MaxTime \in Nat

VARIABLES
    m_queues,     \* pending transmissions for each profile
    m_messages,   \* the burst budget
    m_last_tx,    \* the state machine budget
    interval,     \* transmission_interval of the state machine
    triggers,     \* deadlines of the triggers scheduled at the runtime
    now,
    requested,    \* history: when which packet was requested, in this order
    transmitted,  \* history: when which packet was transmitted, in this order
    reported      \* history: packets the drop hook was called with

budget == <<m_messages, m_last_tx>>
history == <<requested, transmitted, reported>>
vars == <<m_queues, budget, interval, triggers, now, history>>

Pending == [packet : Packet, expiry : Nat]

Event(p) == [packet |-> p, at |-> now]

-----------------------------------------------------------------------------
(* BurstyTransmitRateControl::delay *)
Delay(profile, messages, last) ==
    IF profile = 0 THEN BurstDelay(messages, Burst, now)
    ELSE StateMachineDelay(last, interval, now)

(* drop_expired: expired packets are removed wherever they are in a queue. *)
(* An empty queue is left alone.                                           *)
DropExpired(queues) ==
    [profile \in Profile |->
        IF queues[profile] = <<>> THEN <<>>
        ELSE Kept(queues[profile], {tx \in Pending : tx.expiry >= now})]

(* Mutant: the drop hook is not invoked for expired packets. *)
ExpiredUnreported(queues) == {}

(* The packets drop_expired reports to the drop hook. *)
Expired(queues) ==
    UNION {{queues[profile][k].packet :
                k \in {j \in DOMAIN queues[profile] : queues[profile][j].expiry < now}} :
           profile \in Profile}

Empty(queues) == \A profile \in Profile : queues[profile] = <<>>

(* next_queue: the queue whose first packet may go first; the queues are   *)
(* visited in the order of their priority.                                 *)
IsNextQueue(queues, messages, last, next) ==
    /\ queues[next] # <<>>
    /\ \A other \in Profile :
            queues[other] # <<>> =>
                \/ Delay(next, messages, last) < Delay(other, messages, last)
                \/ /\ Delay(next, messages, last) = Delay(other, messages, last)
                   /\ next <= other

(* schedule_trigger for the first packet of a queue, on top of the         *)
(* triggers that are pending already                                       *)
Scheduled(pending, profile, messages, last) ==
    Append(pending, now + Delay(profile, messages, last))

(* notify of the rate control.  (The burst budget forgets an old burst     *)
(* when it is asked for the delay before.)                                 *)
Notify(profile) ==
    /\ m_messages' = IF profile = 0 THEN BurstNotify(Cleared(m_messages, now), Burst, now)
                     ELSE m_messages
    /\ m_last_tx' = IF profile = 0 THEN m_last_tx ELSE now

-----------------------------------------------------------------------------
Init ==
    /\ m_queues = [profile \in Profile |-> <<>>]
    /\ m_messages = <<>>
    /\ m_last_tx = Never
    /\ interval \in Intervals
    /\ triggers = <<>>
    /\ now = 0
    /\ requested = <<>>
    /\ transmitted = <<>>
    /\ reported = {}

(* Mutant: packets of profile 0 are overtaken. *)
TransmitBeforeUrgent(queues, profile) ==
    /\ \A other \in 1 .. profile : queues[other] = <<>>
    /\ Delay(profile, m_messages, m_last_tx) = 0

(* transmit_immediately *)
TransmitImmediately(queues, profile) ==
    /\ \A other \in 0 .. profile : queues[other] = <<>>
    /\ Delay(profile, m_messages, m_last_tx) = 0

(* How many packets the head drop of enqueue removes. *)
HeadDrop(queue) ==
    IF QueueLength > 0 /\ Len(queue) >= QueueLength THEN Len(queue) - QueueLength + 1 ELSE 0

(* request, for a packet that is to be transmitted right away *)
RequestTransmit(p) ==
    LET queues == DropExpired(m_queues)
    IN  /\ \A k \in DOMAIN requested : requested[k].packet # p
        /\ TransmitImmediately(queues, ProfileOf[p])
        /\ m_queues' = queues
        /\ Notify(ProfileOf[p])
        /\ requested' = Append(requested, Event(p))
        /\ transmitted' = Append(transmitted, Event(p))
        /\ reported' = reported \cup Expired(m_queues)
        /\ UNCHANGED <<interval, triggers, now>>

(* request, for a packet that is to be enqueued.  Only the first packet    *)
(* schedules a trigger.  The drop hook is called with the new packet when  *)
(* the head of the queue is dropped.                                       *)
RequestEnqueue(p) ==
    LET queues  == DropExpired(m_queues)
        profile == ProfileOf[p]
        drop    == HeadDrop(queues[profile])
        kept    == SubSeq(queues[profile], drop + 1, Len(queues[profile]))
    IN  /\ \A k \in DOMAIN requested : requested[k].packet # p
        /\ ~TransmitImmediately(queues, profile)
        /\ m_queues' = [queues EXCEPT ![profile] =
                            Append(kept, [packet |-> p, expiry |-> now + LifetimeOf[p]])]
        /\ triggers' = IF Empty(queues)
                       THEN Scheduled(triggers, profile, m_messages, m_last_tx)
                       ELSE triggers
        /\ requested' = Append(requested, Event(p))
        /\ reported' = reported \cup Expired(m_queues) \cup (IF drop > 0 THEN {p} ELSE {})
        /\ UNCHANGED <<budget, interval, now, transmitted>>

(* The runtime takes the k-th trigger, the earliest one, which is due. *)
Due(k) ==
    /\ triggers[k] <= now
    /\ \A j \in DOMAIN triggers : triggers[k] <= triggers[j]

(* Mutant: the next packet is not scheduled. *)
ScheduleNextNever(queues, rest) == triggers' = rest

(* The second half of trigger: schedule the next packet, if there is one. *)
ScheduleNext(queues, rest) ==
    \/ /\ Empty(queues)
       /\ triggers' = rest
    \/ \E next \in Profile :
            /\ IsNextQueue(queues, m_messages', m_last_tx', next)
            /\ triggers' = Scheduled(rest, next, m_messages', m_last_tx')

(* trigger: transmit the next packet whatever the rate control says by now *)
Trigger(k) ==
    LET queues == DropExpired(m_queues)
        rest   == RemoveAt(triggers, k)
    IN  /\ Due(k)
        /\ reported' = reported \cup Expired(m_queues)
        /\ \/ /\ Empty(queues)
              /\ m_queues' = queues
              /\ UNCHANGED <<budget, transmitted>>
           \/ \E next \in Profile :
                /\ IsNextQueue(queues, m_messages, m_last_tx, next)
                /\ m_queues' = [queues EXCEPT ![next] = Tail(@)]
                /\ Notify(next)
                /\ transmitted' = Append(transmitted, Event(Head(queues[next]).packet))
        /\ ScheduleNext(m_queues', rest)
        /\ UNCHANGED <<interval, now, requested>>

(* reschedule *)
Reschedule ==
    /\ \E next \in Profile :
            /\ IsNextQueue(m_queues, m_messages, m_last_tx, next)
            /\ triggers' = Scheduled(<<>>, next, m_messages, m_last_tx)
    /\ UNCHANGED <<m_queues, budget, interval, now, requested, transmitted, reported>>

(* The state machine, whichever one it is, changes to a state with another *)
(* interval when it is told the channel load.                              *)
ChangeState(i) ==
    /\ i # interval
    /\ interval' = i
    /\ UNCHANGED <<m_queues, budget, triggers, now, requested, transmitted, reported>>

Tick ==
    /\ now < MaxTime
    /\ \A k \in DOMAIN triggers : triggers[k] > now
    /\ now' = now + 1
    /\ UNCHANGED <<m_queues, budget, interval, triggers, requested, transmitted, reported>>

Next ==
    \/ \E p \in Packet : RequestTransmit(p)
    \/ \E p \in Packet : RequestEnqueue(p)
    \/ \E k \in DOMAIN triggers : Trigger(k)
    \/ Reschedule
    \/ \E i \in Intervals : ChangeState(i)
    \/ Tick

Spec == Init /\ [][Next]_vars

-----------------------------------------------------------------------------
(* Properties *)

(* Every variable has its type. *)
TypeOK ==
    /\ m_queues \in [Profile -> Seq(Pending)]
    /\ m_messages \in Seq(Nat)
    /\ m_last_tx \in Nat \cup {Never}
    /\ interval \in Intervals
    /\ triggers \in Seq(Nat)
    /\ now \in Nat

Queued ==
    UNION {{m_queues[profile][k].packet : k \in DOMAIN m_queues[profile]} :
           profile \in Profile}

Transmitted == {transmitted[k].packet : k \in DOMAIN transmitted}

(* No packet is forgotten in a queue: as long as there is one a trigger is *)
(* pending, and not further away than the longest delay.                   *)
NoStall ==
    ~Empty(m_queues) => \E k \in DOMAIN triggers : triggers[k] <= now + MaxDelay

(* The rate control has only seen transmissions of the past. *)
BudgetPast ==
    /\ \A k \in DOMAIN m_messages : m_messages[k] <= now
    /\ m_last_tx <= now

(* Every packet is transmitted at most once and within its lifetime ("If a *)
(* packet's lifetime expires before transmission it will be dropped"), and *)
(* every packet that is dropped leads to a call of the drop hook: with     *)
(* this packet when it has expired, or with the later packet of its        *)
(* profile that has pushed it out of a full queue before it would have     *)
(* expired.  (With the types.)                                             *)
DropsReported ==
    /\ TypeOK
    /\ Queued \cap Transmitted = {}
    /\ \A j, k \in DOMAIN transmitted :
            transmitted[j].packet = transmitted[k].packet => j = k
    /\ \A k \in DOMAIN transmitted : \A r \in DOMAIN requested :
            transmitted[k].packet = requested[r].packet =>
                transmitted[k].at - requested[r].at <= LifetimeOf[requested[r].packet]
    /\ \A r \in DOMAIN requested :
            \/ requested[r].packet \in Queued \cup Transmitted \cup reported
            \/ /\ QueueLength > 0
               /\ \E s \in (r + 1) .. Len(requested) :
                    /\ requested[s].packet \in reported
                    /\ ProfileOf[requested[s].packet] = ProfileOf[requested[r].packet]
                    /\ requested[s].at - requested[r].at <= LifetimeOf[requested[r].packet]

(* What the queues promise, see PriorityQueues. *)
Abstract == INSTANCE PriorityQueues WITH
    waiting <- [profile \in Profile |->
                    [k \in DOMAIN m_queues[profile] |-> m_queues[profile][k].packet]],
    seen <- {requested[r].packet : r \in DOMAIN requested},
    output <- [k \in DOMAIN transmitted |-> transmitted[k].packet]

(* Flow control with its triggers, expiry, head drop and rate control is   *)
(* an implementation of lossy priority queues.                             *)
ImplementsPriorityQueues == Abstract!Spec
=============================================================================
