-------------------------- MODULE FlowControlProof --------------------------
(***************************************************************************)
(* Proofs that FlowControl never leaves packets in its queues without a    *)
(* pending trigger, accounts for every packet and implements               *)
(* PriorityQueues, for any packets, profiles, lifetimes and intervals.     *)
(***************************************************************************)
EXTENDS FlowControl, CommonLemmas

(* What the argument needs to know of the types. *)
ControlOK ==
    /\ m_messages \in Seq(Nat)
    /\ m_last_tx \in Nat \cup {Never}
    /\ interval \in Intervals
    /\ triggers \in Seq(Nat)
    /\ now \in Nat

(* A trigger is scheduled with the delay of the rate control at that       *)
(* moment, so the bound on its deadline rests on what the budgets have     *)
(* recorded.                                                               *)
IInv == ControlOK /\ BudgetPast /\ NoStall

-----------------------------------------------------------------------------
(* The rate control never asks for a delay longer than MaxDelay, provided  *)
(* that its records are not of the future.                                 *)
LEMMA DelayBounded ==
    ASSUME NEW profile \in Profile, NEW messages \in Seq(Nat), NEW last \in Nat \cup {Never},
           \A k \in DOMAIN messages : messages[k] <= now, last <= now,
           now \in Nat, interval \in Intervals
    PROVE  Delay(profile, messages, last) \in 0 .. MaxDelay
<1>1. interval \in 0 .. MaxDelay /\ MaxDelay \in Nat /\ BurstPeriod \in Nat /\ BurstPeriod <= MaxDelay
    BY ControlAssumption, BurstAssumption
<1>2. CASE profile = 0
    <2>1. CASE messages = <<>>
        BY <1>1, <1>2, <2>1 DEF Delay, BurstDelay
    <2>2. CASE messages # <<>>
        <3>1. 1 \in DOMAIN messages /\ messages[1] \in Nat
            BY <2>2
        <3>2. messages[1] <= now
            BY <3>1
        <3>3. BurstDelay(messages, Burst, now) = 0
              \/ /\ ~(messages[1] + BurstPeriod < now)
                 /\ BurstDelay(messages, Burst, now) = messages[1] + BurstPeriod - now
            BY DEF BurstDelay
        <3> QED BY <1>1, <1>2, <3>1, <3>2, <3>3 DEF Delay
    <2> QED BY <2>1, <2>2
<1>3. CASE profile # 0
    BY <1>1, <1>3 DEF Delay, StateMachineDelay, Never
<1> QED BY <1>2, <1>3

(* Appending a deadline within the bound. *)
LEMMA ScheduledBounded ==
    ASSUME NEW pending \in Seq(Nat), NEW profile \in Profile, NEW messages \in Seq(Nat),
           NEW last \in Nat \cup {Never},
           \A k \in DOMAIN messages : messages[k] <= now, last <= now,
           now \in Nat, interval \in Intervals
    PROVE  LET scheduled == Scheduled(pending, profile, messages, last)
           IN  /\ scheduled \in Seq(Nat)
               /\ \E k \in DOMAIN scheduled : scheduled[k] <= now + MaxDelay
<1> DEFINE deadline == now + Delay(profile, messages, last)
<1>1. Delay(profile, messages, last) \in 0 .. MaxDelay
    BY DelayBounded
<1>2. MaxDelay \in Nat
    BY ControlAssumption
<1>3. deadline \in Nat /\ deadline <= now + MaxDelay
    BY <1>1, <1>2
<1> HIDE DEF deadline
<1>4. Append(pending, deadline) \in Seq(Nat)
    BY <1>3
<1>5. /\ Len(pending) + 1 \in DOMAIN Append(pending, deadline)
      /\ Append(pending, deadline)[Len(pending) + 1] = deadline
    BY <1>3
<1>6. Scheduled(pending, profile, messages, last) = Append(pending, deadline)
    BY DEF Scheduled, deadline
<1> QED BY <1>3, <1>4, <1>5, <1>6

(* Notifying the rate control records the current time and nothing else.   *)
LEMMA NotifyPast ==
    ASSUME ControlOK, BudgetPast, NEW profile \in Profile, Notify(profile)
    PROVE  /\ m_messages' \in Seq(Nat)
           /\ m_last_tx' \in Nat \cup {Never}
           /\ \A k \in DOMAIN m_messages' : m_messages'[k] <= now
           /\ m_last_tx' <= now
<1> DEFINE cleared == Cleared(m_messages, now)
           kept == IF Len(cleared) >= Burst /\ cleared # <<>> THEN Tail(cleared) ELSE cleared
<1>1. cleared \in Seq(Nat) /\ \A k \in DOMAIN cleared : cleared[k] <= now
    BY DEF Cleared, ControlOK, BudgetPast
<1>2. kept \in Seq(Nat) /\ \A k \in DOMAIN kept : kept[k] <= now
    <2> HIDE DEF cleared
    <2>1. CASE cleared # <<>>
        <3>1. /\ Tail(cleared) \in Seq(Nat)
              /\ \A k \in 1 .. Len(Tail(cleared)) :
                    Tail(cleared)[k] = cleared[k + 1] /\ k + 1 \in DOMAIN cleared
            BY <1>1, <2>1
        <3>2. DOMAIN Tail(cleared) = 1 .. Len(Tail(cleared))
            BY <3>1
        <3> QED BY <1>1, <3>1, <3>2
    <2>2. CASE cleared = <<>>
        BY <1>1, <2>2
    <2> QED BY <2>1, <2>2
<1>3. m_messages' = IF profile = 0 THEN Append(kept, now) ELSE m_messages
    BY ControlAssumption DEF Notify, BurstNotify
<1>4. m_last_tx' = IF profile = 0 THEN m_last_tx ELSE now
    BY DEF Notify
<1> HIDE DEF kept
<1>5. /\ Append(kept, now) \in Seq(Nat)
      /\ \A k \in DOMAIN Append(kept, now) : Append(kept, now)[k] <= now
    <2>1. now \in Nat
        BY DEF ControlOK
    <2>2. /\ Append(kept, now) \in Seq(Nat)
          /\ DOMAIN Append(kept, now) = 1 .. Len(kept) + 1
          /\ \A k \in 1 .. Len(kept) : Append(kept, now)[k] = kept[k] /\ k \in DOMAIN kept
          /\ Append(kept, now)[Len(kept) + 1] = now
        BY <1>2, <2>1
    <2>3. SUFFICES ASSUME NEW k \in 1 .. Len(kept) + 1
                   PROVE  Append(kept, now)[k] <= now
        BY <2>2
    <2>4. CASE k = Len(kept) + 1
        BY <2>1, <2>2, <2>4
    <2>5. CASE k # Len(kept) + 1
        <3>1. k \in 1 .. Len(kept)
            BY <1>2, <2>3, <2>5
        <3> QED BY <1>2, <2>2, <3>1
    <2> QED BY <2>4, <2>5
<1> QED BY <1>3, <1>4, <1>5 DEF ControlOK, BudgetPast

(* Taking one trigger away leaves a list of triggers. *)
LEMMA RemoveAtType ==
    ASSUME NEW s \in Seq(Nat), NEW k \in DOMAIN s
    PROVE  RemoveAt(s, k) \in Seq(Nat)
<1>1. Len(s) \in Nat /\ k \in 1 .. Len(s)
    OBVIOUS
<1>2. SubSeq(s, 1, k - 1) \in Seq(Nat)
    BY <1>1, SubSeqProperties
<1>3. SubSeq(s, k + 1, Len(s)) \in Seq(Nat)
    BY <1>1, SubSeqProperties
<1> QED BY <1>2, <1>3, ConcatProperties DEF RemoveAt

(* Dropping expired packets does not fill empty queues. *)
LEMMA DropExpiredEmpty ==
    ASSUME Empty(m_queues)
    PROVE  Empty(DropExpired(m_queues))
BY DEF Empty, DropExpired

-----------------------------------------------------------------------------
(* The budgets start empty and nothing is queued. *)
LEMMA InitHolds == Init => IInv
<1> SUFFICES ASSUME Init PROVE IInv
    OBVIOUS
<1>1. ControlOK
    BY DEF Init, ControlOK
<1>2. BudgetPast
    BY DEF Init, BudgetPast, Never
<1>3. NoStall
    BY DEF Init, NoStall, Empty
<1> QED BY <1>1, <1>2, <1>3 DEF IInv

(* A packet transmitted right away leaves the triggers alone, and packets  *)
(* that are still queued had been queued before.                           *)
LEMMA RequestTransmitStep ==
    ASSUME IInv, NEW p \in Packet, RequestTransmit(p)
    PROVE  IInv'
<1>1. ProfileOf[p] \in Profile
    BY PacketAssumption
<1>2. Notify(ProfileOf[p]) /\ UNCHANGED <<interval, triggers, now>>
    BY DEF RequestTransmit
<1>3. /\ m_messages' \in Seq(Nat) /\ m_last_tx' \in Nat \cup {Never}
      /\ \A k \in DOMAIN m_messages' : m_messages'[k] <= now
      /\ m_last_tx' <= now
    BY <1>1, <1>2, NotifyPast DEF IInv
<1>4. ControlOK'
    BY <1>2, <1>3 DEF ControlOK, IInv
<1>5. BudgetPast'
    BY <1>2, <1>3 DEF BudgetPast
<1>6. NoStall'
    <2>1. ~Empty(m_queues') => ~Empty(m_queues)
        BY DropExpiredEmpty DEF RequestTransmit
    <2> QED BY <1>2, <2>1 DEF NoStall, IInv
<1> QED BY <1>4, <1>5, <1>6 DEF IInv

(* The packet that ends the emptiness of the queues schedules a trigger;   *)
(* any other one finds a trigger pending.                                  *)
LEMMA RequestEnqueueStep ==
    ASSUME IInv, NEW p \in Packet, RequestEnqueue(p)
    PROVE  IInv'
<1>1. ProfileOf[p] \in Profile
    BY PacketAssumption
<1>2. /\ UNCHANGED <<budget, interval, now>>
      /\ triggers' = IF Empty(DropExpired(m_queues))
                     THEN Scheduled(triggers, ProfileOf[p], m_messages, m_last_tx)
                     ELSE triggers
    BY DEF RequestEnqueue
<1>3. BudgetPast'
    BY <1>2 DEF BudgetPast, IInv, budget
<1>4. CASE Empty(DropExpired(m_queues))
    <2>1. /\ triggers' \in Seq(Nat)
          /\ \E k \in DOMAIN triggers' : triggers'[k] <= now + MaxDelay
        BY <1>1, <1>2, <1>4, ScheduledBounded DEF IInv, ControlOK, BudgetPast
    <2>2. ControlOK'
        BY <1>2, <2>1 DEF ControlOK, IInv, budget
    <2>3. NoStall'
        BY <1>2, <2>1 DEF NoStall
    <2> QED BY <1>3, <2>2, <2>3 DEF IInv
<1>5. CASE ~Empty(DropExpired(m_queues))
    <2>1. triggers' = triggers
        BY <1>2, <1>5
    <2>2. ControlOK'
        BY <1>2, <2>1 DEF ControlOK, IInv, budget
    <2>3. NoStall'
        BY <1>2, <1>5, <2>1, DropExpiredEmpty DEF NoStall, IInv
    <2> QED BY <1>3, <2>2, <2>3 DEF IInv
<1> QED BY <1>4, <1>5

(* A trigger consumes itself, but schedules another one if any packet is   *)
(* left.                                                                   *)
LEMMA TriggerStep ==
    ASSUME IInv, NEW k \in DOMAIN triggers, Trigger(k)
    PROVE  IInv'
<1> DEFINE rest == RemoveAt(triggers, k)
<1>1. UNCHANGED <<interval, now>> /\ ScheduleNext(m_queues', rest)
    BY DEF Trigger
<1>2. rest \in Seq(Nat)
    BY RemoveAtType DEF IInv, ControlOK
<1> HIDE DEF rest
<1>3. UNCHANGED budget \/ \E next \in Profile : Notify(next)
    BY DEF Trigger
<1>4. /\ m_messages' \in Seq(Nat) /\ m_last_tx' \in Nat \cup {Never}
      /\ \A j \in DOMAIN m_messages' : m_messages'[j] <= now
      /\ m_last_tx' <= now
    <2>1. CASE UNCHANGED budget
        BY <2>1 DEF budget, IInv, ControlOK, BudgetPast
    <2>2. CASE \E next \in Profile : Notify(next)
        BY <2>2, NotifyPast DEF IInv
    <2> QED BY <1>3, <2>1, <2>2
<1>5. BudgetPast'
    BY <1>1, <1>4 DEF BudgetPast
<1>6. CASE Empty(m_queues') /\ triggers' = rest
    <2>1. ControlOK'
        BY <1>1, <1>2, <1>4, <1>6 DEF ControlOK, IInv
    <2>2. NoStall'
        BY <1>6 DEF NoStall
    <2> QED BY <1>5, <2>1, <2>2 DEF IInv
<1>7. CASE \E next \in Profile : triggers' = Scheduled(rest, next, m_messages', m_last_tx')
    <2>1. PICK next \in Profile : triggers' = Scheduled(rest, next, m_messages', m_last_tx')
        BY <1>7
    <2>2. /\ triggers' \in Seq(Nat)
          /\ \E j \in DOMAIN triggers' : triggers'[j] <= now + MaxDelay
        BY <1>2, <1>4, <2>1, ScheduledBounded DEF IInv, ControlOK
    <2>3. ControlOK'
        BY <1>1, <1>4, <2>2 DEF ControlOK, IInv
    <2>4. NoStall'
        BY <1>1, <2>2 DEF NoStall
    <2> QED BY <1>5, <2>3, <2>4 DEF IInv
<1> QED BY <1>1, <1>6, <1>7 DEF ScheduleNext

(* Rescheduling replaces all triggers by one that is near enough. *)
LEMMA RescheduleStep ==
    ASSUME IInv, Reschedule
    PROVE  IInv'
<1>1. PICK next \in Profile : triggers' = Scheduled(<<>>, next, m_messages, m_last_tx)
    BY DEF Reschedule
<1>2. UNCHANGED <<budget, interval, now>>
    BY DEF Reschedule
<1>3. /\ triggers' \in Seq(Nat)
      /\ \E k \in DOMAIN triggers' : triggers'[k] <= now + MaxDelay
    <2>1. <<>> \in Seq(Nat)
        OBVIOUS
    <2> QED BY <1>1, <2>1, ScheduledBounded DEF IInv, ControlOK, BudgetPast
<1>4. ControlOK'
    BY <1>2, <1>3 DEF ControlOK, IInv, budget
<1>5. BudgetPast'
    BY <1>2 DEF BudgetPast, IInv, budget
<1>6. NoStall'
    BY <1>2, <1>3 DEF NoStall
<1> QED BY <1>4, <1>5, <1>6 DEF IInv

(* A new state of the state machine affects later delays only. *)
LEMMA ChangeStateStep ==
    ASSUME IInv, NEW i \in Intervals, ChangeState(i)
    PROVE  IInv'
<1>1. interval' = i /\ UNCHANGED <<m_queues, budget, triggers, now>>
    BY DEF ChangeState
<1>2. ControlOK'
    BY <1>1 DEF ControlOK, IInv, budget
<1>3. BudgetPast'
    BY <1>1 DEF BudgetPast, IInv, budget
<1>4. NoStall'
    BY <1>1 DEF NoStall, IInv
<1> QED BY <1>2, <1>3, <1>4 DEF IInv

(* Deadlines come closer as time passes. *)
LEMMA TickStep ==
    ASSUME IInv, Tick
    PROVE  IInv'
<1>1. now' = now + 1 /\ UNCHANGED <<m_queues, budget, interval, triggers>>
    BY DEF Tick
<1>2. ControlOK'
    BY <1>1 DEF ControlOK, IInv, budget
<1>3. BudgetPast'
    BY <1>1 DEF BudgetPast, IInv, budget, ControlOK, Never
<1>4. NoStall'
    <2>1. MaxDelay \in Nat /\ now \in Nat /\ triggers \in Seq(Nat)
        BY ControlAssumption DEF IInv, ControlOK
    <2>2. ASSUME NEW k \in DOMAIN triggers, triggers[k] <= now + MaxDelay
          PROVE  triggers[k] <= now' + MaxDelay
        <3>1. triggers[k] \in Nat
            BY <2>1
        <3> QED BY <1>1, <2>1, <2>2, <3>1
    <2> QED BY <1>1, <2>2 DEF NoStall, IInv
<1> QED BY <1>2, <1>3, <1>4 DEF IInv

-----------------------------------------------------------------------------
(* The inductive invariant holds in every reachable state. *)
THEOREM Invariance == Spec => []IInv
<1>1. IInv /\ [Next]_vars => IInv'
    <2> SUFFICES ASSUME IInv, [Next]_vars PROVE IInv'
        OBVIOUS
    <2>1. CASE UNCHANGED vars
        BY <2>1 DEF vars, budget, IInv, ControlOK, BudgetPast, NoStall
    <2>2. CASE Next
        BY <2>2, RequestTransmitStep, RequestEnqueueStep, TriggerStep, RescheduleStep,
           ChangeStateStep, TickStep DEF Next
    <2> QED BY <2>1, <2>2
<1> QED BY <1>1, InitHolds, PTL DEF Spec

(* FlowControl::enqueue schedules a trigger for the first packet only, and *)
(* every later one rests on FlowControl::trigger scheduling its successor: *)
(* nevertheless packets never wait without a trigger that is at most the   *)
(* longest delay of the rate control away, however expiry, head drops,     *)
(* rescheduling and changes of the state machine interleave.               *)
THEOREM NeverStalls == Spec => []NoStall
<1>1. IInv => NoStall
    BY DEF IInv
<1> QED BY <1>1, Invariance, PTL

-----------------------------------------------------------------------------
(* What becomes of a packet *)

Happening == [packet : Packet, at : Nat]

PacketsOf(events) == {events[k].packet : k \in DOMAIN events}

PacketsIn(queues) ==
    UNION {{queues[profile][k].packet : k \in DOMAIN queues[profile]} : profile \in Profile}

(* Packets are requested once, not in the future. *)
AreRequests(reqs, time) ==
    /\ reqs \in Seq(Happening)
    /\ \A j, k \in DOMAIN reqs : reqs[j].packet = reqs[k].packet => j = k
    /\ \A k \in DOMAIN reqs : reqs[k].at <= time

(* A pending transmission expires with the lifetime of a packet that was   *)
(* requested.                                                              *)
IsBacked(tx, reqs) ==
    \E r \in DOMAIN reqs :
        reqs[r].packet = tx.packet /\ tx.expiry = reqs[r].at + LifetimeOf[tx.packet]

(* Packets wait once, in the queue of their profile, and were requested    *)
(* but not transmitted.                                                    *)
AreQueues(queues, reqs, sent) ==
    /\ queues \in [Profile -> Seq(Pending)]
    /\ \A profile \in Profile : \A k \in DOMAIN queues[profile] :
            /\ ProfileOf[queues[profile][k].packet] = profile
            /\ IsBacked(queues[profile][k], reqs)
            /\ queues[profile][k].packet \notin PacketsOf(sent)
    /\ \A profile \in Profile : \A j, k \in DOMAIN queues[profile] :
            queues[profile][j].packet = queues[profile][k].packet => j = k

(* A packet that was transmitted for a request was not too late. *)
InTime(event, reqs) ==
    \A r \in DOMAIN reqs :
        event.packet = reqs[r].packet =>
            event.at - reqs[r].at <= LifetimeOf[reqs[r].packet]

(* Packets are transmitted once, in time, and on request. *)
AreTransmissions(sent, reqs) ==
    /\ sent \in Seq(Happening)
    /\ \A j, k \in DOMAIN sent : sent[j].packet = sent[k].packet => j = k
    /\ PacketsOf(sent) \subseteq PacketsOf(reqs)
    /\ \A k \in DOMAIN sent : InTime(sent[k], reqs)

(* The packet of the r-th request was pushed out of its queue. *)
PushedOut(r, reqs, dropped) ==
    /\ QueueLength > 0
    /\ \E s \in (r + 1) .. Len(reqs) :
          /\ reqs[s].packet \in dropped
          /\ ProfileOf[reqs[s].packet] = ProfileOf[reqs[r].packet]
          /\ reqs[s].at - reqs[r].at <= LifetimeOf[reqs[r].packet]

AllAccounted(known, reqs, dropped) ==
    \A r \in DOMAIN reqs : reqs[r].packet \in known \/ PushedOut(r, reqs, dropped)

PacketInv ==
    /\ AreRequests(requested, now)
    /\ AreQueues(m_queues, requested, transmitted)
    /\ AreTransmissions(transmitted, requested)
    /\ reported \subseteq Packet
    /\ AllAccounted(Queued \cup Transmitted \cup reported, requested, reported)

(* Another packet is requested. *)
LEMMA RequestsGrow ==
    ASSUME NEW reqs, NEW time \in Nat, AreRequests(reqs, time),
           NEW p \in Packet, p \notin PacketsOf(reqs)
    PROVE  LET more == Append(reqs, [packet |-> p, at |-> time])
           IN  /\ AreRequests(more, time)
               /\ PacketsOf(more) = PacketsOf(reqs) \cup {p}
               /\ \A tx : IsBacked(tx, reqs) => IsBacked(tx, more)
               /\ InTime([packet |-> p, at |-> time], more)
               /\ IsBacked([packet |-> p, expiry |-> time + LifetimeOf[p]], more)
<1> DEFINE e == [packet |-> p, at |-> time]
           more == Append(reqs, e)
           n == Len(reqs) + 1
<1>1. e \in Happening /\ e.packet = p /\ e.at = time
    BY DEF Happening
<1> HIDE DEF e
<1>2. /\ more \in Seq(Happening) /\ more[n] = e /\ n \in DOMAIN more
      /\ \A k \in DOMAIN reqs : k \in DOMAIN more /\ more[k] = reqs[k] /\ k # n
      /\ \A k \in DOMAIN more : k = n \/ k \in DOMAIN reqs
    BY <1>1, Appended DEF AreRequests
<1> HIDE DEF more, n
<1>3. \A k \in DOMAIN reqs : reqs[k].packet # p
    BY DEF PacketsOf
<1>4. ASSUME NEW j \in DOMAIN more, NEW k \in DOMAIN more, more[j].packet = more[k].packet
      PROVE  j = k
    BY <1>1, <1>2, <1>3, <1>4 DEF AreRequests
<1>5. ASSUME NEW k \in DOMAIN more PROVE more[k].at <= time
    BY <1>1, <1>2 DEF AreRequests
<1>6. AreRequests(more, time)
    BY <1>2, <1>4, <1>5 DEF AreRequests
<1>7. PacketsOf(more) = PacketsOf(reqs) \cup {p}
    BY <1>1, <1>2 DEF PacketsOf
<1>8. \A tx : IsBacked(tx, reqs) => IsBacked(tx, more)
    BY <1>2 DEF IsBacked
<1>9. LifetimeOf[p] \in Nat
    BY PacketAssumption
<1>10. \A r \in DOMAIN more : more[r].packet = p => r = n
    BY <1>2, <1>3
<1>11. InTime(e, more)
    <2> SUFFICES ASSUME NEW r \in DOMAIN more, e.packet = more[r].packet
                 PROVE  e.at - more[r].at <= LifetimeOf[more[r].packet]
        BY DEF InTime
    <2>1. r = n
        BY <1>1, <1>10
    <2>2. more[r].at = time /\ e.at = time /\ more[r].packet = p
        BY <1>1, <1>2, <2>1
    <2>3. time - time <= LifetimeOf[p]
        BY <1>9
    <2> QED BY <2>2, <2>3
<1>12. IsBacked([packet |-> p, expiry |-> time + LifetimeOf[p]], more)
    BY <1>1, <1>2 DEF IsBacked
<1> QED BY <1>6, <1>7, <1>8, <1>11, <1>12 DEF more, e

(* The transmissions of the past do not mind a new request. *)
LEMMA TransmissionsKept ==
    ASSUME NEW reqs, NEW sent, NEW time \in Nat, AreRequests(reqs, time),
           AreTransmissions(sent, reqs), NEW p \in Packet, p \notin PacketsOf(reqs)
    PROVE  AreTransmissions(sent, Append(reqs, [packet |-> p, at |-> time]))
<1> DEFINE e == [packet |-> p, at |-> time]
           more == Append(reqs, e)
           n == Len(reqs) + 1
<1>1. e \in Happening /\ e.packet = p
    BY DEF Happening
<1> HIDE DEF e
<1>2. /\ more[n] = e
      /\ \A k \in DOMAIN reqs : k \in DOMAIN more /\ more[k] = reqs[k]
      /\ \A k \in DOMAIN more : k = n \/ k \in DOMAIN reqs
    BY <1>1, Appended DEF AreRequests
<1> HIDE DEF more, n
<1>3. PacketsOf(reqs) \subseteq PacketsOf(more)
    BY <1>2 DEF PacketsOf
<1>4. \A k \in DOMAIN sent : sent[k].packet # p
    BY DEF AreTransmissions, PacketsOf
<1>5. \A k \in DOMAIN sent : InTime(sent[k], more)
    BY <1>1, <1>2, <1>4 DEF AreTransmissions, InTime
<1>6. AreTransmissions(sent, more)
    BY <1>3, <1>5 DEF AreTransmissions
<1> QED BY <1>6 DEF more, e

(* A packet is transmitted. *)
LEMMA TransmissionsGrow ==
    ASSUME NEW reqs, NEW sent, NEW time \in Nat, AreTransmissions(sent, reqs),
           NEW p \in Packet, p \in PacketsOf(reqs), p \notin PacketsOf(sent),
           InTime([packet |-> p, at |-> time], reqs)
    PROVE  LET more == Append(sent, [packet |-> p, at |-> time])
           IN  /\ AreTransmissions(more, reqs)
               /\ PacketsOf(more) = PacketsOf(sent) \cup {p}
<1> DEFINE e == [packet |-> p, at |-> time]
           more == Append(sent, e)
           n == Len(sent) + 1
<1>1. e \in Happening /\ e.packet = p /\ InTime(e, reqs)
    BY DEF Happening
<1> HIDE DEF e
<1>2. /\ more \in Seq(Happening) /\ more[n] = e /\ n \in DOMAIN more
      /\ \A k \in DOMAIN sent : k \in DOMAIN more /\ more[k] = sent[k] /\ k # n
      /\ \A k \in DOMAIN more : k = n \/ k \in DOMAIN sent
    BY <1>1, Appended DEF AreTransmissions
<1> HIDE DEF more, n
<1>3. \A k \in DOMAIN sent : sent[k].packet # p
    BY DEF PacketsOf
<1>4. ASSUME NEW j \in DOMAIN more, NEW k \in DOMAIN more, more[j].packet = more[k].packet
      PROVE  j = k
    BY <1>1, <1>2, <1>3, <1>4 DEF AreTransmissions
<1>5. PacketsOf(more) = PacketsOf(sent) \cup {p}
    BY <1>1, <1>2 DEF PacketsOf
<1>6. \A k \in DOMAIN more : InTime(more[k], reqs)
    BY <1>1, <1>2 DEF AreTransmissions
<1>7. AreTransmissions(more, reqs)
    BY <1>2, <1>4, <1>5, <1>6 DEF AreTransmissions
<1> QED BY <1>5, <1>7 DEF more, e

-----------------------------------------------------------------------------
(* Queues lose packets and get new ones *)

(* Packets are removed from some queues. *)
LEMMA ThinnedQueues ==
    ASSUME NEW queues, NEW reqs, NEW sent, AreQueues(queues, reqs, sent),
           NEW fewer \in [Profile -> Seq(Pending)],
           \A profile \in Profile : Thins(fewer[profile], queues[profile])
    PROVE  AreQueues(fewer, reqs, sent) /\ PacketsIn(fewer) \subseteq PacketsIn(queues)
<1>1. ASSUME NEW profile \in Profile
      PROVE  \E g : /\ \A j \in DOMAIN fewer[profile] :
                          /\ g[j] \in DOMAIN queues[profile]
                          /\ fewer[profile][j] = queues[profile][g[j]]
                    /\ \A i, j \in DOMAIN fewer[profile] : g[i] = g[j] => i = j
    <2>1. fewer[profile] \in Seq(Pending) /\ queues[profile] \in Seq(Pending)
        BY DEF AreQueues
    <2>2. /\ DOMAIN fewer[profile] = 1 .. Len(fewer[profile])
          /\ DOMAIN queues[profile] = 1 .. Len(queues[profile])
        BY <2>1
    <2>3. Thins(fewer[profile], queues[profile])
        OBVIOUS
    <2> DEFINE t == fewer[profile]
               s == queues[profile]
    <2>4. PICK g \in [1 .. Len(t) -> 1 .. Len(s)] :
            /\ \A j \in 1 .. Len(t) : t[j] = s[g[j]]
            /\ \A i, j \in 1 .. Len(t) : g[i] = g[j] => i = j
        BY <2>3 DEF Thins
    <2>5. \A j \in 1 .. Len(t) : g[j] \in 1 .. Len(s)
        OBVIOUS
    <2>6. /\ \A j \in DOMAIN t : g[j] \in DOMAIN s /\ t[j] = s[g[j]]
          /\ \A i, j \in DOMAIN t : g[i] = g[j] => i = j
        BY <2>2, <2>4, <2>5
    <2> HIDE DEF s, t
    <2>7. \E h : /\ \A j \in DOMAIN t : h[j] \in DOMAIN s /\ t[j] = s[h[j]]
                /\ \A i, j \in DOMAIN t : h[i] = h[j] => i = j
        BY <2>6
    <2> QED BY <2>7 DEF s, t
<1>2. ASSUME NEW profile \in Profile, NEW j \in DOMAIN fewer[profile]
      PROVE  /\ ProfileOf[fewer[profile][j].packet] = profile
             /\ IsBacked(fewer[profile][j], reqs)
             /\ fewer[profile][j].packet \notin PacketsOf(sent)
             /\ \E k \in DOMAIN queues[profile] : fewer[profile][j] = queues[profile][k]
    <2>1. PICK k \in DOMAIN queues[profile] : fewer[profile][j] = queues[profile][k]
        BY <1>1
    <2> QED BY <2>1 DEF AreQueues
<1>3. ASSUME NEW profile \in Profile, NEW i \in DOMAIN fewer[profile], NEW j \in DOMAIN fewer[profile],
             fewer[profile][i].packet = fewer[profile][j].packet
      PROVE  i = j
    <2>1. PICK g : /\ \A k \in DOMAIN fewer[profile] :
                          /\ g[k] \in DOMAIN queues[profile]
                          /\ fewer[profile][k] = queues[profile][g[k]]
                   /\ \A h, k \in DOMAIN fewer[profile] : g[h] = g[k] => h = k
        BY <1>1
    <2>2. g[i] \in DOMAIN queues[profile] /\ g[j] \in DOMAIN queues[profile]
        BY <2>1
    <2>3. queues[profile][g[i]].packet = queues[profile][g[j]].packet
        BY <1>3, <2>1
    <2>4. g[i] = g[j]
        BY <2>2, <2>3 DEF AreQueues
    <2> QED BY <2>1, <2>4
<1>4. AreQueues(fewer, reqs, sent)
    BY <1>2, <1>3 DEF AreQueues
<1>5. PacketsIn(fewer) \subseteq PacketsIn(queues)
    BY <1>2 DEF PacketsIn
<1> QED BY <1>4, <1>5

(* Other packets are requested and transmitted. *)
LEMMA QueuesKept ==
    ASSUME NEW queues, NEW reqs, NEW sent, AreQueues(queues, reqs, sent),
           NEW reqsMore, \A tx : IsBacked(tx, reqs) => IsBacked(tx, reqsMore),
           NEW sentMore, PacketsIn(queues) \cap PacketsOf(sentMore) = {}
    PROVE  AreQueues(queues, reqsMore, sentMore)
<1>1. ASSUME NEW profile \in Profile, NEW k \in DOMAIN queues[profile]
      PROVE  /\ ProfileOf[queues[profile][k].packet] = profile
             /\ IsBacked(queues[profile][k], reqsMore)
             /\ queues[profile][k].packet \notin PacketsOf(sentMore)
    <2>1. queues[profile][k].packet \in PacketsIn(queues)
        BY DEF PacketsIn
    <2> QED BY <2>1 DEF AreQueues
<1> QED BY <1>1 DEF AreQueues

(* Packets that wait were requested. *)
LEMMA QueuedRequested ==
    ASSUME NEW queues, NEW reqs, NEW sent, AreQueues(queues, reqs, sent)
    PROVE  PacketsIn(queues) \subseteq PacketsOf(reqs) /\ PacketsIn(queues) \cap PacketsOf(sent) = {}
BY DEF AreQueues, PacketsIn, PacketsOf, IsBacked

(* A packet is appended to the queue of its profile. *)
LEMMA QueueGrows ==
    ASSUME NEW queues, NEW reqs, NEW sent, AreQueues(queues, reqs, sent),
           NEW tx \in Pending, IsBacked(tx, reqs), tx.packet \notin PacketsOf(sent),
           tx.packet \notin PacketsIn(queues)
    PROVE  LET more == [queues EXCEPT ![ProfileOf[tx.packet]] = Append(@, tx)]
           IN  /\ AreQueues(more, reqs, sent)
               /\ PacketsIn(more) = PacketsIn(queues) \cup {tx.packet}
<1> DEFINE own == ProfileOf[tx.packet]
           old == queues[own]
           new == Append(old, tx)
           more == [queues EXCEPT ![own] = new]
           n == Len(old) + 1
<1>1. own \in Profile
    BY PacketAssumption DEF Pending
<1>2. queues \in [Profile -> Seq(Pending)] /\ old \in Seq(Pending)
    BY <1>1 DEF AreQueues
<1>3. /\ new \in Seq(Pending) /\ new[n] = tx /\ n \in DOMAIN new
      /\ \A k \in DOMAIN old : k \in DOMAIN new /\ new[k] = old[k] /\ k # n
      /\ \A k \in DOMAIN new : k = n \/ k \in DOMAIN old
    <2> HIDE DEF old
    <2> QED BY <1>2, Appended
<1>4. /\ more \in [Profile -> Seq(Pending)] /\ more[own] = new
      /\ \A profile \in Profile : profile # own => more[profile] = queues[profile]
    BY <1>1, <1>2, <1>3
<1>5. queues[own] = old /\ ProfileOf[tx.packet] = own
    OBVIOUS
<1> HIDE DEF own, old, new, more, n
<1>6. \A k \in DOMAIN old : old[k].packet # tx.packet
    BY <1>1, <1>5 DEF PacketsIn
<1>7. ASSUME NEW profile \in Profile, NEW k \in DOMAIN more[profile]
      PROVE  /\ ProfileOf[more[profile][k].packet] = profile
             /\ IsBacked(more[profile][k], reqs)
             /\ more[profile][k].packet \notin PacketsOf(sent)
             /\ more[profile][k].packet \in PacketsIn(queues) \cup {tx.packet}
    <2>1. CASE profile = own /\ k = n
        BY <1>3, <1>4, <1>5, <2>1
    <2>2. CASE ~(profile = own /\ k = n)
        <3>1. k \in DOMAIN queues[profile] /\ more[profile][k] = queues[profile][k]
            BY <1>3, <1>4, <1>5, <2>2
        <3>2. queues[profile][k].packet \in PacketsIn(queues)
            BY <3>1 DEF PacketsIn
        <3> QED BY <3>1, <3>2 DEF AreQueues
    <2> QED BY <2>1, <2>2
<1>8. ASSUME NEW profile \in Profile, NEW j \in DOMAIN more[profile], NEW k \in DOMAIN more[profile],
             more[profile][j].packet = more[profile][k].packet
      PROVE  j = k
    <2>1. CASE profile # own
        BY <1>4, <1>8, <2>1 DEF AreQueues
    <2>2. CASE profile = own
        <3>1. j \in DOMAIN new /\ k \in DOMAIN new /\ new[j].packet = new[k].packet
            BY <1>4, <1>8, <2>2
        <3>2. \A h, i \in DOMAIN old : old[h].packet = old[i].packet => h = i
            BY <1>1, <1>5 DEF AreQueues
        <3> QED BY <1>3, <1>6, <3>1, <3>2
    <2> QED BY <2>1, <2>2
<1>9. AreQueues(more, reqs, sent)
    BY <1>4, <1>7, <1>8 DEF AreQueues
<1>10. PacketsIn(more) \subseteq PacketsIn(queues) \cup {tx.packet}
    BY <1>7 DEF PacketsIn
<1>11. ASSUME NEW profile \in Profile, NEW k \in DOMAIN queues[profile]
       PROVE  queues[profile][k].packet \in PacketsIn(more)
    <2>1. k \in DOMAIN more[profile] /\ more[profile][k] = queues[profile][k]
        BY <1>3, <1>4, <1>5
    <2> QED BY <2>1 DEF PacketsIn
<1>12. tx.packet \in PacketsIn(more)
    BY <1>1, <1>3, <1>4 DEF PacketsIn
<1>13. PacketsIn(queues) \subseteq PacketsIn(more)
    BY <1>11 DEF PacketsIn
<1> QED BY <1>9, <1>10, <1>12, <1>13 DEF more, new, old, own

(* The first packet of a queue is taken. *)
LEMMA QueueServed ==
    ASSUME NEW queues, NEW reqs, NEW sent, AreQueues(queues, reqs, sent),
           NEW next \in Profile, queues[next] # <<>>
    PROVE  LET rest == [queues EXCEPT ![next] = Tail(@)]
               p == Head(queues[next]).packet
           IN  /\ AreQueues(rest, reqs, sent)
               /\ PacketsIn(queues) = PacketsIn(rest) \cup {p}
               /\ p \notin PacketsIn(rest)
               /\ 1 \in DOMAIN queues[next] /\ Head(queues[next]) = queues[next][1]
<1> DEFINE old == queues[next]
           new == Tail(old)
           rest == [queues EXCEPT ![next] = new]
           p == Head(old).packet
<1>1. queues \in [Profile -> Seq(Pending)] /\ old \in Seq(Pending) /\ old # <<>>
    BY DEF AreQueues
<1>2. /\ new \in Seq(Pending) /\ Head(old) = old[1] /\ Len(old) \in Nat /\ 1 \in DOMAIN old
      /\ DOMAIN old = 1 .. Len(old) /\ DOMAIN new = 1 .. (Len(old) - 1) /\ Len(new) = Len(old) - 1
      /\ \A k \in DOMAIN new : new[k] = old[k + 1]
    <2> HIDE DEF old
    <2> QED BY <1>1
<1>3. Thins(new, old)
    <2> HIDE DEF old
    <2>1. 1 \in 0 .. Len(old)
        BY <1>2
    <2>2. Thins(SubSeq(old, 1 + 1, Len(old)), old)
        BY <1>1, <2>1, SuffixThins
    <2>3. Tail(old) = SubSeq(old, 2, Len(old))
        BY <1>1, TailIsSubSeq
    <2>4. 1 + 1 = 2
        OBVIOUS
    <2> QED BY <2>2, <2>3, <2>4
<1>4. /\ rest \in [Profile -> Seq(Pending)] /\ rest[next] = new
      /\ \A profile \in Profile : profile # next => rest[profile] = queues[profile]
    BY <1>1, <1>2
<1>5. queues[next] = old
    OBVIOUS
<1> HIDE DEF rest, new, old
<1>6. ASSUME NEW profile \in Profile PROVE Thins(rest[profile], queues[profile])
    <2>1. CASE profile = next
        BY <1>3, <1>4, <1>5, <2>1
    <2>2. CASE profile # next
        <3>1. Thins(queues[profile], queues[profile])
            BY ThinsItself
        <3> QED BY <1>4, <2>2, <3>1
    <2> QED BY <2>1, <2>2
<1>7. AreQueues(rest, reqs, sent) /\ PacketsIn(rest) \subseteq PacketsIn(queues)
    BY <1>4, <1>6, ThinnedQueues
<1>8. p \in PacketsIn(queues)
    BY <1>2, <1>5 DEF PacketsIn
<1>9. ASSUME NEW profile \in Profile, NEW k \in DOMAIN queues[profile],
             queues[profile][k].packet # p
      PROVE  queues[profile][k].packet \in PacketsIn(rest)
    <2>1. CASE profile # next
        BY <1>4, <2>1 DEF PacketsIn
    <2>2. CASE profile = next
        <3>1. k \in DOMAIN old /\ k # 1
            BY <1>2, <1>5, <1>9, <2>2
        <3>2. k - 1 \in DOMAIN new /\ (k - 1) + 1 = k
            BY <1>2, <3>1
        <3>3. new[k - 1] = old[k]
            BY <1>2, <3>2
        <3>4. rest[next][k - 1] = queues[profile][k] /\ k - 1 \in DOMAIN rest[next]
            BY <1>4, <1>5, <2>2, <3>2, <3>3
        <3> QED BY <3>4 DEF PacketsIn
    <2> QED BY <2>1, <2>2
<1>10. PacketsIn(queues) \subseteq PacketsIn(rest) \cup {p}
    BY <1>9 DEF PacketsIn
<1>11. ASSUME p \in PacketsIn(rest) PROVE FALSE
    <2>0. PICK profile \in Profile : \E k \in DOMAIN rest[profile] : rest[profile][k].packet = p
        BY <1>11 DEF PacketsIn
    <2>1. PICK k \in DOMAIN rest[profile] : rest[profile][k].packet = p
        BY <2>0
    <2>2. ProfileOf[p] = profile
        BY <1>7, <2>1 DEF AreQueues
    <2>3. ProfileOf[p] = next
        BY <1>2, <1>5 DEF AreQueues
    <2>4. k \in DOMAIN new /\ new[k].packet = p
        BY <1>4, <2>1, <2>2, <2>3
    <2>5. k + 1 \in DOMAIN old /\ k + 1 # 1 /\ old[k + 1].packet = old[1].packet
        BY <1>2, <2>4
    <2>6. \A h, i \in DOMAIN old : old[h].packet = old[i].packet => h = i
        BY <1>5 DEF AreQueues
    <2> QED BY <1>2, <2>5, <2>6
<1> QED BY <1>2, <1>5, <1>7, <1>8, <1>10, <1>11 DEF rest, new

(* What a queue holds. *)
LEMMA QueuedPending ==
    ASSUME NEW queues \in [Profile -> Seq(Pending)]
    PROVE  \A profile \in Profile : \A k \in DOMAIN queues[profile] :
                /\ queues[profile][k] \in Pending
                /\ queues[profile][k].packet \in Packet
                /\ queues[profile][k].expiry \in Nat
<1> SUFFICES ASSUME NEW profile \in Profile, NEW k \in DOMAIN queues[profile]
             PROVE  /\ queues[profile][k] \in Pending
                    /\ queues[profile][k].packet \in Packet
                    /\ queues[profile][k].expiry \in Nat
    OBVIOUS
<1> DEFINE s == queues[profile]
<1>1. s \in Seq(Pending) /\ k \in DOMAIN s
    OBVIOUS
<1> HIDE DEF s
<1>2. k \in 1 .. Len(s)
    BY <1>1
<1>3. s[k] \in Pending
    BY <1>1, <1>2, ElementOfSeq
<1>4. s[k].packet \in Packet /\ s[k].expiry \in Nat
    BY <1>3 DEF Pending
<1> QED BY <1>3, <1>4 DEF s

(* drop_expired removes the expired packets only. *)
LEMMA DropExpiredFacts ==
    ASSUME NEW queues, NEW reqs, NEW sent, AreQueues(queues, reqs, sent), now \in Nat
    PROVE  LET alive == DropExpired(queues)
           IN  /\ AreQueues(alive, reqs, sent)
               /\ PacketsIn(alive) \subseteq PacketsIn(queues)
               /\ PacketsIn(queues) \subseteq PacketsIn(alive) \cup Expired(queues)
               /\ Expired(queues) \subseteq Packet
               /\ \A profile \in Profile : \A k \in DOMAIN alive[profile] :
                        alive[profile][k].expiry >= now
<1> DEFINE alive == DropExpired(queues)
           K == {tx \in Pending : tx.expiry >= now}
<1>1. queues \in [Profile -> Seq(Pending)]
    BY DEF AreQueues
<1>2. ASSUME NEW profile \in Profile
      PROVE  /\ alive[profile] \in Seq(Pending)
             /\ Thins(alive[profile], queues[profile])
             /\ \A k \in DOMAIN alive[profile] : alive[profile][k] \in K
             /\ \A k \in DOMAIN queues[profile] :
                    queues[profile][k] \in K =>
                        \E j \in DOMAIN alive[profile] : alive[profile][j] = queues[profile][k]
    <2> DEFINE s == queues[profile]
               t == Kept(s, K)
    <2>1. s \in Seq(Pending)
        BY <1>1
    <2>2. alive[profile] = IF s = <<>> THEN <<>> ELSE t
        BY DEF DropExpired
    <2> HIDE DEF s, K, alive
    <2>3. /\ t \in Seq(Pending) /\ Thins(t, s)
          /\ \A k \in 1 .. Len(t) : t[k] \in K
          /\ \A k \in 1 .. Len(s) : s[k] \in K => \E j \in 1 .. Len(t) : t[j] = s[k]
        <3>1. t \in Seq(Pending) /\ Thins(t, s) /\ HasAllOf(t, s, K)
            BY <2>1, KeptThins
        <3> HIDE DEF t
        <3> QED BY <3>1 DEF HasAllOf
    <2> HIDE DEF t
    <2>4. DOMAIN s = 1 .. Len(s) /\ DOMAIN t = 1 .. Len(t)
        BY <2>1, <2>3
    <2>5. CASE s # <<>>
        BY <2>2, <2>3, <2>4, <2>5 DEF s
    <2>6. CASE s = <<>>
        <3>1. <<>> \in Seq(Pending) /\ DOMAIN <<>> = {} /\ Len(<<>>) = 0 /\ 1 .. 0 = {}
            OBVIOUS
        <3>2. Thins(<<>>, <<>>)
            BY ThinsItself
        <3> QED BY <2>2, <2>6, <3>1, <3>2 DEF s
    <2> QED BY <2>5, <2>6
<1>3. alive \in [Profile -> Seq(Pending)]
    <2>1. DOMAIN alive = Profile /\ alive = [profile \in Profile |-> alive[profile]]
        BY DEF DropExpired
    <2> QED BY <1>2, <2>1
<1> HIDE DEF alive
<1>4. AreQueues(alive, reqs, sent) /\ PacketsIn(alive) \subseteq PacketsIn(queues)
    BY <1>2, <1>3, ThinnedQueues
<1>5. ASSUME NEW profile \in Profile, NEW k \in DOMAIN queues[profile]
      PROVE  queues[profile][k].packet \in PacketsIn(alive) \cup Expired(queues)
    <2> DEFINE tx == queues[profile][k]
    <2>1. tx \in Pending /\ tx.expiry \in Nat
        BY <1>1, QueuedPending
    <2>2. CASE tx \in K
        BY <1>2, <2>2 DEF PacketsIn
    <2>3. CASE tx \notin K
        <3>1. tx.expiry < now
            BY <2>1, <2>3
        <3> QED BY <3>1 DEF Expired
    <2> QED BY <2>2, <2>3
<1>6. PacketsIn(queues) \subseteq PacketsIn(alive) \cup Expired(queues)
    BY <1>5 DEF PacketsIn
<1>7. Expired(queues) \subseteq Packet
    <2>1. \A profile \in Profile : \A k \in DOMAIN queues[profile] : queues[profile][k].packet \in Packet
        BY <1>1, QueuedPending
    <2> QED BY <2>1 DEF Expired
<1> QED BY <1>2, <1>4, <1>6, <1>7 DEF alive

(* Every packet is still accounted for after another one is requested. *)
LEMMA AccountedGrows ==
    ASSUME NEW reqs, NEW time \in Nat, AreRequests(reqs, time),
           NEW known, NEW dropped, AllAccounted(known, reqs, dropped),
           NEW p \in Packet, NEW more, more = Append(reqs, [packet |-> p, at |-> time]),
           NEW knownMore, NEW droppedMore, dropped \subseteq droppedMore, p \in knownMore,
           \A r \in DOMAIN reqs :
                reqs[r].packet \in known =>
                    reqs[r].packet \in knownMore \/ PushedOut(r, more, droppedMore)
    PROVE  AllAccounted(knownMore, more, droppedMore)
<1> DEFINE e == [packet |-> p, at |-> time]
           n == Len(reqs) + 1
<1>1. e \in Happening /\ e.packet = p
    BY DEF Happening
<1>2. more = Append(reqs, e) /\ reqs \in Seq(Happening)
    BY DEF AreRequests
<1> HIDE DEF e
<1>3. /\ Len(more) = n /\ DOMAIN reqs = 1 .. Len(reqs) /\ Len(reqs) \in Nat /\ more[n] = e
      /\ \A k \in DOMAIN reqs : more[k] = reqs[k]
      /\ \A k \in DOMAIN more : k = n \/ k \in DOMAIN reqs
    BY <1>1, <1>2, Appended
<1>4. ASSUME NEW r \in DOMAIN reqs, PushedOut(r, reqs, dropped)
      PROVE  PushedOut(r, more, droppedMore)
    <2>1. PICK s \in (r + 1) .. Len(reqs) :
            /\ reqs[s].packet \in dropped
            /\ ProfileOf[reqs[s].packet] = ProfileOf[reqs[r].packet]
            /\ reqs[s].at - reqs[r].at <= LifetimeOf[reqs[r].packet]
        BY <1>4 DEF PushedOut
    <2>2. s \in DOMAIN reqs /\ s \in (r + 1) .. Len(more)
        BY <1>3
    <2>3. more[s] = reqs[s] /\ more[r] = reqs[r]
        BY <1>3, <2>2
    <2> QED BY <1>4, <2>1, <2>2, <2>3 DEF PushedOut
<1>5. ASSUME NEW r \in DOMAIN more
      PROVE  more[r].packet \in knownMore \/ PushedOut(r, more, droppedMore)
    <2>1. CASE r = n
        BY <1>1, <1>3, <2>1
    <2>2. CASE r \in DOMAIN reqs
        <3>1. more[r] = reqs[r]
            BY <1>3, <2>2
        <3>2. reqs[r].packet \in known \/ PushedOut(r, reqs, dropped)
            BY <2>2 DEF AllAccounted
        <3> QED BY <1>4, <2>2, <3>1, <3>2
    <2> QED BY <1>3, <2>1, <2>2
<1> QED BY <1>5 DEF AllAccounted

(* Packets become known or are reported. *)
LEMMA AccountedKept ==
    ASSUME NEW reqs, NEW known, NEW dropped, AllAccounted(known, reqs, dropped),
           NEW knownMore, known \subseteq knownMore,
           NEW droppedMore, dropped \subseteq droppedMore
    PROVE  AllAccounted(knownMore, reqs, droppedMore)
BY DEF AllAccounted, PushedOut

-----------------------------------------------------------------------------
(* Every step keeps account of the packets *)

(* PacketInv with the sets of packets by their names here. *)
LEMMA PacketInvSets ==
    /\ Queued = PacketsIn(m_queues)
    /\ Transmitted = PacketsOf(transmitted)
BY DEF Queued, PacketsIn, Transmitted, PacketsOf

(* A packet that was not requested before. *)
LEMMA NotRequested ==
    ASSUME NEW p, \A k \in DOMAIN requested : requested[k].packet # p
    PROVE  p \notin PacketsOf(requested)
BY DEF PacketsOf

(* A packet is transmitted right away. *)
LEMMA RequestTransmitPackets ==
    ASSUME now \in Nat, PacketInv, NEW p \in Packet, RequestTransmit(p)
    PROVE  PacketInv'
<1> DEFINE alive == DropExpired(m_queues)
           e == [packet |-> p, at |-> now]
<1>1. /\ p \notin PacketsOf(requested) /\ m_queues' = alive /\ now' = now
      /\ requested' = Append(requested, e) /\ transmitted' = Append(transmitted, e)
      /\ reported' = reported \cup Expired(m_queues)
    BY NotRequested DEF RequestTransmit, Event
<1>2. /\ AreQueues(alive, requested, transmitted)
      /\ PacketsIn(m_queues) \subseteq PacketsIn(alive) \cup Expired(m_queues)
      /\ Expired(m_queues) \subseteq Packet
    BY DropExpiredFacts DEF PacketInv
<1> HIDE DEF alive
<1>3. /\ AreRequests(requested', now)
      /\ PacketsOf(requested') = PacketsOf(requested) \cup {p}
      /\ \A tx : IsBacked(tx, requested) => IsBacked(tx, requested')
      /\ InTime(e, requested')
    BY <1>1, RequestsGrow DEF PacketInv
<1>4. p \notin PacketsOf(transmitted)
    BY <1>1 DEF PacketInv, AreTransmissions
<1>5. AreTransmissions(transmitted, requested')
    BY <1>1, TransmissionsKept DEF PacketInv
<1>6. /\ AreTransmissions(transmitted', requested')
      /\ PacketsOf(transmitted') = PacketsOf(transmitted) \cup {p}
    <2> DEFINE reqs == requested'
    <2>1. AreTransmissions(transmitted, reqs) /\ p \in PacketsOf(reqs) /\ InTime(e, reqs)
        BY <1>3, <1>5
    <2> HIDE DEF reqs
    <2>2. /\ AreTransmissions(Append(transmitted, e), reqs)
          /\ PacketsOf(Append(transmitted, e)) = PacketsOf(transmitted) \cup {p}
        BY <1>4, <2>1, TransmissionsGrow
    <2> QED BY <1>1, <2>2 DEF reqs
<1>7. AreQueues(alive, requested', transmitted')
    <2>1. PacketsIn(alive) \subseteq PacketsOf(requested) /\ PacketsIn(alive) \cap PacketsOf(transmitted) = {}
        BY <1>2, QueuedRequested
    <2>2. PacketsIn(alive) \cap PacketsOf(transmitted') = {}
        BY <1>1, <1>6, <2>1
    <2> DEFINE reqs == requested'
               sent == transmitted'
    <2>3. (\A tx : IsBacked(tx, requested) => IsBacked(tx, reqs)) /\ PacketsIn(alive) \cap PacketsOf(sent) = {}
        BY <1>3, <2>2
    <2> HIDE DEF reqs, sent
    <2>4. AreQueues(alive, reqs, sent)
        BY <1>2, <2>3, QueuesKept
    <2> QED BY <2>4 DEF reqs, sent
<1>8. reported' \subseteq Packet
    BY <1>1, <1>2 DEF PacketInv
<1>9. AllAccounted((Queued \cup Transmitted \cup reported)', requested', reported')
    <2> DEFINE known == PacketsIn(m_queues) \cup PacketsOf(transmitted) \cup reported
               knownMore == PacketsIn(m_queues') \cup PacketsOf(transmitted') \cup reported'
               more == requested'
               droppedMore == reported'
    <2>1. AllAccounted(known, requested, reported)
        BY PacketInvSets DEF PacketInv
    <2>2. /\ known \subseteq knownMore /\ p \in knownMore /\ reported \subseteq droppedMore
          /\ more = Append(requested, e)
        BY <1>1, <1>2, <1>6
    <2>3. (Queued \cup Transmitted \cup reported)' = knownMore
        BY PacketInvSets DEF Queued, PacketsIn, Transmitted, PacketsOf
    <2>4. AreRequests(requested, now)
        BY DEF PacketInv
    <2> HIDE DEF known, knownMore, more, droppedMore
    <2>5. AllAccounted(knownMore, more, droppedMore)
        BY <2>1, <2>2, <2>4, AccountedGrows
    <2> QED BY <2>3, <2>5 DEF more, droppedMore
<1> QED BY <1>1, <1>3, <1>6, <1>7, <1>8, <1>9 DEF PacketInv

(* The queues after the head drop of enqueue. *)
Cut(queues, profile) ==
    [queues EXCEPT ![profile] =
        SubSeq(queues[profile], HeadDrop(queues[profile]) + 1, Len(queues[profile]))]

(* Packets are missing in a full queue only. *)
LostByHeadDrop(queues, profile, cut) ==
    \A x \in PacketsIn(queues) \ PacketsIn(cut) :
        /\ HeadDrop(queues[profile]) > 0 /\ QueueLength > 0
        /\ \E k \in DOMAIN queues[profile] : queues[profile][k].packet = x

(* The first packets of a full queue make room. *)
LEMMA HeadDropped ==
    ASSUME NEW queues, NEW reqs, NEW sent, AreQueues(queues, reqs, sent), NEW profile \in Profile
    PROVE  /\ AreQueues(Cut(queues, profile), reqs, sent)
           /\ PacketsIn(Cut(queues, profile)) \subseteq PacketsIn(queues)
           /\ LostByHeadDrop(queues, profile, Cut(queues, profile))
<1> DEFINE s == queues[profile]
           n == Len(s)
           drop == HeadDrop(s)
           kept == SubSeq(s, drop + 1, n)
           cut == [queues EXCEPT ![profile] = kept]
<1>1. queues \in [Profile -> Seq(Pending)] /\ s \in Seq(Pending)
    BY DEF AreQueues
<1>2. n \in Nat /\ DOMAIN s = 1 .. n /\ QueueLength \in Nat
    BY <1>1, ControlAssumption
<1>3. drop \in 0 .. n /\ (drop > 0 => QueueLength > 0)
    <2> HIDE DEF s
    <2>1. CASE QueueLength > 0 /\ n >= QueueLength
        <3>1. drop = n - QueueLength + 1
            BY <2>1 DEF HeadDrop
        <3> QED BY <1>2, <2>1, <3>1
    <2>2. CASE ~(QueueLength > 0 /\ n >= QueueLength)
        <3>1. drop = 0
            BY <2>2 DEF HeadDrop
        <3> QED BY <1>2, <3>1
    <2> QED BY <2>1, <2>2
<1> HIDE DEF drop
<1>4. /\ kept \in Seq(Pending) /\ Thins(kept, s) /\ Len(kept) = n - drop
      /\ \A j \in 1 .. (n - drop) : kept[j] = s[drop + j]
    <2> HIDE DEF s
    <2> QED BY <1>1, <1>3, SuffixThins
<1>5. /\ cut \in [Profile -> Seq(Pending)] /\ cut[profile] = kept
      /\ \A other \in Profile : other # profile => cut[other] = queues[other]
    <2> HIDE DEF kept
    <2> QED BY <1>1, <1>4
<1>6. queues[profile] = s
    OBVIOUS
<1> HIDE DEF cut, kept, s
<1>7. ASSUME NEW other \in Profile PROVE Thins(cut[other], queues[other])
    <2>1. CASE other = profile
        BY <1>4, <1>5, <1>6, <2>1
    <2>2. CASE other # profile
        <3>1. Thins(queues[other], queues[other])
            BY ThinsItself
        <3> QED BY <1>5, <2>2, <3>1
    <2> QED BY <2>1, <2>2
<1>8. AreQueues(cut, reqs, sent) /\ PacketsIn(cut) \subseteq PacketsIn(queues)
    BY <1>5, <1>7, ThinnedQueues
<1>9. ASSUME NEW x \in PacketsIn(queues), x \notin PacketsIn(cut)
      PROVE  drop > 0 /\ \E k \in DOMAIN s : s[k].packet = x
    <2>1. PICK other \in Profile : \E k \in DOMAIN queues[other] : queues[other][k].packet = x
        BY DEF PacketsIn
    <2>2. PICK k \in DOMAIN queues[other] : queues[other][k].packet = x
        BY <2>1
    <2>3. other = profile
        BY <1>5, <1>9, <2>2 DEF PacketsIn
    <2>4. k \in 1 .. n /\ s[k].packet = x
        BY <1>2, <1>6, <2>2, <2>3
    <2>5. ASSUME drop = 0 PROVE FALSE
        <3>1. n - drop = n /\ drop + k = k /\ k \in 1 .. (n - drop)
            BY <1>2, <2>4, <2>5
        <3>2. kept[k] = s[k]
            BY <1>4, <3>1
        <3>3. k \in DOMAIN kept
            BY <1>4, <3>1
        <3>4. k \in DOMAIN cut[profile] /\ cut[profile][k].packet = x
            BY <1>5, <2>4, <3>2, <3>3
        <3>5. x \in PacketsIn(cut)
            BY <3>4 DEF PacketsIn
        <3> QED BY <1>9, <3>5
    <2>6. drop > 0
        BY <1>2, <1>3, <2>5
    <2> QED BY <1>2, <2>4, <2>6
<1>10. LostByHeadDrop(queues, profile, cut)
    BY <1>3, <1>6, <1>9 DEF LostByHeadDrop, drop
<1>11. cut = Cut(queues, profile)
    BY DEF cut, kept, drop, s, n, Cut
<1> QED BY <1>8, <1>10, <1>11

(* A packet is enqueued, and may push others out of its queue. *)
LEMMA RequestEnqueuePackets ==
    ASSUME now \in Nat, PacketInv, NEW p \in Packet, RequestEnqueue(p)
    PROVE  PacketInv'
<1> DEFINE alive == DropExpired(m_queues)
           profile == ProfileOf[p]
           drop == HeadDrop(alive[profile])
           kept == SubSeq(alive[profile], drop + 1, Len(alive[profile]))
           cut == Cut(alive, profile)
           tx == [packet |-> p, expiry |-> now + LifetimeOf[p]]
           e == [packet |-> p, at |-> now]
<1>1. /\ p \notin PacketsOf(requested)
      /\ m_queues' = [alive EXCEPT ![profile] = Append(kept, tx)]
      /\ requested' = Append(requested, e) /\ transmitted' = transmitted /\ now' = now
      /\ reported' = reported \cup Expired(m_queues) \cup (IF drop > 0 THEN {p} ELSE {})
    BY NotRequested DEF RequestEnqueue, Event
<1>2. profile \in Profile /\ tx \in Pending /\ tx.packet = p
    BY PacketAssumption DEF Pending
<1>3. /\ AreQueues(alive, requested, transmitted)
      /\ PacketsIn(m_queues) \subseteq PacketsIn(alive) \cup Expired(m_queues)
      /\ Expired(m_queues) \subseteq Packet
      /\ \A k \in DOMAIN alive[profile] : alive[profile][k].expiry >= now
    <2>1. AreQueues(m_queues, requested, transmitted)
        BY DEF PacketInv
    <2>2. /\ AreQueues(alive, requested, transmitted)
          /\ PacketsIn(m_queues) \subseteq PacketsIn(alive) \cup Expired(m_queues)
          /\ Expired(m_queues) \subseteq Packet
          /\ \A other \in Profile : \A k \in DOMAIN alive[other] : alive[other][k].expiry >= now
        BY <2>1, DropExpiredFacts
    <2> HIDE DEF alive, profile
    <2> QED BY <1>2, <2>2
<1> HIDE DEF alive
<1>4. /\ AreQueues(cut, requested, transmitted)
      /\ PacketsIn(cut) \subseteq PacketsIn(alive)
      /\ \A x \in PacketsIn(alive) \ PacketsIn(cut) :
            /\ drop > 0 /\ QueueLength > 0
            /\ \E k \in DOMAIN alive[profile] : alive[profile][k].packet = x
    <2> HIDE DEF profile
    <2>1. /\ AreQueues(cut, requested, transmitted)
          /\ PacketsIn(cut) \subseteq PacketsIn(alive)
          /\ LostByHeadDrop(alive, profile, cut)
        BY <1>2, <1>3, HeadDropped
    <2> QED BY <2>1 DEF LostByHeadDrop
<1>5. /\ AreRequests(requested', now)
      /\ PacketsOf(requested') = PacketsOf(requested) \cup {p}
      /\ \A t : IsBacked(t, requested) => IsBacked(t, requested')
      /\ IsBacked(tx, requested')
    BY <1>1, RequestsGrow DEF PacketInv
<1>6. AreTransmissions(transmitted', requested')
    BY <1>1, TransmissionsKept DEF PacketInv
<1>7. /\ PacketsIn(cut) \subseteq PacketsOf(requested) /\ PacketsIn(cut) \cap PacketsOf(transmitted) = {}
      /\ p \notin PacketsIn(cut) /\ p \notin PacketsOf(transmitted)
    <2>1. PacketsOf(transmitted) \subseteq PacketsOf(requested)
        BY DEF PacketInv, AreTransmissions
    <2> HIDE DEF cut
    <2> QED BY <1>1, <1>4, <2>1, QueuedRequested
<1>8. m_queues' = [cut EXCEPT ![profile] = Append(@, tx)]
    <2>1. alive \in [Profile -> Seq(Pending)]
        BY <1>3 DEF AreQueues
    <2>2. cut = [alive EXCEPT ![profile] = kept]
        BY DEF Cut
    <2> HIDE DEF kept, tx, profile, cut
    <2> QED BY <1>1, <1>2, <2>1, <2>2
<1>9. AreQueues(m_queues', requested', transmitted') /\ PacketsIn(m_queues') = PacketsIn(cut) \cup {p}
    <2> DEFINE reqs == requested'
    <2>1. (\A t : IsBacked(t, requested) => IsBacked(t, reqs)) /\ IsBacked(tx, reqs)
        BY <1>5
    <2>2. tx.packet = p /\ ProfileOf[tx.packet] = profile
        BY <1>2
    <2> HIDE DEF cut, reqs, tx, profile
    <2>3. AreQueues(cut, reqs, transmitted)
        BY <1>4, <1>7, <2>1, QueuesKept
    <2>4. LET more == [cut EXCEPT ![ProfileOf[tx.packet]] = Append(@, tx)]
          IN  AreQueues(more, reqs, transmitted) /\ PacketsIn(more) = PacketsIn(cut) \cup {tx.packet}
        BY <1>2, <1>7, <2>1, <2>3, QueueGrows
    <2> QED BY <1>1, <1>8, <2>2, <2>4 DEF reqs
<1>10. reported' \subseteq Packet
    BY <1>1, <1>3 DEF PacketInv
<1>11. AllAccounted((Queued \cup Transmitted \cup reported)', requested', reported')
    <2> DEFINE known == PacketsIn(m_queues) \cup PacketsOf(transmitted) \cup reported
               knownMore == PacketsIn(m_queues') \cup PacketsOf(transmitted') \cup reported'
               more == requested'
               droppedMore == reported'
               n == Len(requested) + 1
    <2>1. AllAccounted(known, requested, reported) /\ AreRequests(requested, now)
        BY PacketInvSets DEF PacketInv
    <2>2. /\ p \in knownMore /\ reported \subseteq droppedMore
          /\ more = Append(requested, e)
        BY <1>1, <1>9
    <2>3. (Queued \cup Transmitted \cup reported)' = knownMore
        BY PacketInvSets DEF Queued, PacketsIn, Transmitted, PacketsOf
    <2>4. \A x \in known : x \in knownMore \/ x \in PacketsIn(alive) \ PacketsIn(cut)
        BY <1>1, <1>3, <1>9
    <2>5. e \in Happening /\ e.packet = p /\ e.at = now
        BY DEF Happening
    <2>6. /\ Len(more) = n /\ DOMAIN requested = 1 .. Len(requested) /\ Len(requested) \in Nat
          /\ more[n] = e /\ \A k \in DOMAIN requested : more[k] = requested[k]
        <3>1. requested \in Seq(Happening)
            BY DEF PacketInv, AreRequests
        <3> HIDE DEF e
        <3> QED BY <2>2, <2>5, <3>1, Appended
    <2>7. drop > 0 => p \in droppedMore
        BY <1>1
    <2>8. profile = ProfileOf[p]
        OBVIOUS
    <2> HIDE DEF known, knownMore, more, droppedMore, drop, cut, n, e, profile
    <2>9. ASSUME NEW r \in DOMAIN requested, requested[r].packet \in PacketsIn(alive) \ PacketsIn(cut)
          PROVE  PushedOut(r, more, droppedMore)
        <3>1. drop > 0 /\ QueueLength > 0
            BY <1>4, <2>9
        <3>2. PICK k \in DOMAIN alive[profile] : alive[profile][k].packet = requested[r].packet
            BY <1>4, <2>9
        <3>3. /\ ProfileOf[requested[r].packet] = profile
              /\ IsBacked(alive[profile][k], requested)
            BY <1>2, <1>3, <3>2 DEF AreQueues
        <3>4. PICK q \in DOMAIN requested :
                /\ requested[q].packet = requested[r].packet
                /\ alive[profile][k].expiry = requested[q].at + LifetimeOf[requested[r].packet]
            BY <3>2, <3>3 DEF IsBacked
        <3>5. q = r
            BY <2>1, <3>4 DEF AreRequests
        <3>6. requested[r].at \in Nat /\ LifetimeOf[requested[r].packet] \in Nat
            <4>1. requested[r] \in Happening
                BY <2>1 DEF AreRequests
            <4> QED BY <4>1, PacketAssumption DEF Happening
        <3>7. now - requested[r].at <= LifetimeOf[requested[r].packet]
            <4>1. requested[r].at + LifetimeOf[requested[r].packet] >= now
                BY <1>3, <3>4, <3>5
            <4> QED BY <3>6, <4>1
        <3>8. n \in (r + 1) .. Len(more)
            BY <2>6 DEF n
        <3>9. /\ more[n].packet \in droppedMore
              /\ ProfileOf[more[n].packet] = ProfileOf[more[r].packet]
              /\ more[n].at - more[r].at <= LifetimeOf[more[r].packet]
            <4>1. more[r] = requested[r] /\ more[n] = e
                BY <2>6
            <4>2. p \in droppedMore
                BY <2>7, <3>1
            <4> QED BY <2>5, <2>8, <3>3, <3>7, <4>1, <4>2
        <3> QED BY <3>1, <3>8, <3>9 DEF PushedOut
    <2>10. \A r \in DOMAIN requested :
            requested[r].packet \in known =>
                requested[r].packet \in knownMore \/ PushedOut(r, more, droppedMore)
        BY <2>4, <2>9
    <2>11. AllAccounted(knownMore, more, droppedMore)
        BY <2>1, <2>2, <2>10, AccountedGrows DEF e
    <2> QED BY <2>3, <2>11 DEF more, droppedMore
<1> QED BY <1>1, <1>5, <1>6, <1>9, <1>10, <1>11 DEF PacketInv

(* A packet that has not expired is transmitted in time. *)
LEMMA UnexpiredInTime ==
    ASSUME NEW reqs, NEW time \in Nat, AreRequests(reqs, time),
           NEW tx \in Pending, IsBacked(tx, reqs), tx.expiry >= time
    PROVE  InTime([packet |-> tx.packet, at |-> time], reqs) /\ tx.packet \in PacketsOf(reqs)
<1> DEFINE e == [packet |-> tx.packet, at |-> time]
<1>1. e.packet = tx.packet /\ e.at = time
    OBVIOUS
<1> HIDE DEF e
<1>2. PICK q \in DOMAIN reqs :
        reqs[q].packet = tx.packet /\ tx.expiry = reqs[q].at + LifetimeOf[tx.packet]
    BY DEF IsBacked
<1>3. ASSUME NEW r \in DOMAIN reqs, e.packet = reqs[r].packet
      PROVE  e.at - reqs[r].at <= LifetimeOf[reqs[r].packet]
    <2>1. r = q
        BY <1>1, <1>2, <1>3 DEF AreRequests
    <2>2. reqs[q].at \in Nat /\ LifetimeOf[tx.packet] \in Nat
        <3>1. reqs[q] \in Happening
            BY DEF AreRequests
        <3> QED BY <1>2, <3>1, PacketAssumption DEF Happening
    <2>3. reqs[q].at + LifetimeOf[tx.packet] >= time
        BY <1>2
    <2>4. time - reqs[q].at <= LifetimeOf[tx.packet]
        BY <2>2, <2>3
    <2> QED BY <1>1, <1>2, <2>1, <2>4
<1>4. InTime(e, reqs)
    BY <1>3 DEF InTime
<1> QED BY <1>2, <1>4 DEF e, PacketsOf

(* A trigger transmits a packet that is still alive, or finds none. *)
LEMMA TriggerPackets ==
    ASSUME now \in Nat, PacketInv, NEW k \in DOMAIN triggers, Trigger(k)
    PROVE  PacketInv'
<1> DEFINE alive == DropExpired(m_queues)
<1>1. /\ reported' = reported \cup Expired(m_queues)
      /\ requested' = requested /\ now' = now
      /\ \/ m_queues' = alive /\ transmitted' = transmitted
         \/ \E next \in Profile :
                /\ alive[next] # <<>>
                /\ m_queues' = [alive EXCEPT ![next] = Tail(@)]
                /\ transmitted' = Append(transmitted, [packet |-> Head(alive[next]).packet, at |-> now])
    BY DEF Trigger, IsNextQueue, Event
<1>2. /\ AreQueues(alive, requested, transmitted)
      /\ PacketsIn(m_queues) \subseteq PacketsIn(alive) \cup Expired(m_queues)
      /\ Expired(m_queues) \subseteq Packet
      /\ \A profile \in Profile : \A j \in DOMAIN alive[profile] : alive[profile][j].expiry >= now
    BY DropExpiredFacts DEF PacketInv
<1> HIDE DEF alive
<1>3. /\ AreQueues(m_queues', requested, transmitted')
      /\ AreTransmissions(transmitted', requested)
      /\ PacketsIn(alive) \cup PacketsOf(transmitted) \subseteq PacketsIn(m_queues') \cup PacketsOf(transmitted')
    <2>1. CASE m_queues' = alive /\ transmitted' = transmitted
        BY <1>2, <2>1 DEF PacketInv
    <2>2. CASE \E next \in Profile :
                /\ alive[next] # <<>>
                /\ m_queues' = [alive EXCEPT ![next] = Tail(@)]
                /\ transmitted' = Append(transmitted, [packet |-> Head(alive[next]).packet, at |-> now])
        <3>1. PICK next \in Profile :
                /\ alive[next] # <<>>
                /\ m_queues' = [alive EXCEPT ![next] = Tail(@)]
                /\ transmitted' = Append(transmitted, [packet |-> Head(alive[next]).packet, at |-> now])
            BY <2>2
        <3> DEFINE tx == Head(alive[next])
                   p == tx.packet
                   e == [packet |-> p, at |-> now]
                   rest == [alive EXCEPT ![next] = Tail(@)]
                   sent == Append(transmitted, e)
        <3>2. /\ AreQueues(rest, requested, transmitted)
              /\ PacketsIn(alive) = PacketsIn(rest) \cup {p}
              /\ p \notin PacketsIn(rest)
              /\ 1 \in DOMAIN alive[next] /\ tx = alive[next][1]
            BY <1>2, <3>1, QueueServed
        <3>3. tx \in Pending /\ p \in Packet
            BY <1>2, <3>2, QueuedPending DEF AreQueues
        <3>4. IsBacked(tx, requested) /\ tx.expiry >= now /\ p \notin PacketsOf(transmitted)
            BY <1>2, <3>2 DEF AreQueues
        <3> HIDE DEF tx, rest
        <3>5. InTime(e, requested) /\ p \in PacketsOf(requested)
            BY <3>3, <3>4, UnexpiredInTime DEF PacketInv
        <3> HIDE DEF p
        <3>6. AreTransmissions(sent, requested) /\ PacketsOf(sent) = PacketsOf(transmitted) \cup {p}
            BY <3>3, <3>4, <3>5, TransmissionsGrow DEF PacketInv
        <3> HIDE DEF sent, e
        <3>7. PacketsIn(rest) \cap PacketsOf(sent) = {}
            BY <3>2, <3>6, QueuedRequested
        <3>8. AreQueues(rest, requested, sent)
            BY <3>2, <3>7, QueuesKept
        <3>9. m_queues' = rest /\ transmitted' = sent
            BY <3>1 DEF rest, sent, e, p, tx
        <3> QED BY <3>2, <3>6, <3>8, <3>9
    <2> QED BY <1>1, <2>1, <2>2
<1>4. AllAccounted((Queued \cup Transmitted \cup reported)', requested', reported')
    <2> DEFINE known == PacketsIn(m_queues) \cup PacketsOf(transmitted) \cup reported
               knownMore == PacketsIn(m_queues') \cup PacketsOf(transmitted') \cup reported'
               droppedMore == reported'
    <2>1. AllAccounted(known, requested, reported)
        BY PacketInvSets DEF PacketInv
    <2>2. known \subseteq knownMore /\ reported \subseteq droppedMore
        BY <1>1, <1>2, <1>3
    <2>3. (Queued \cup Transmitted \cup reported)' = knownMore
        BY DEF Queued, PacketsIn, Transmitted, PacketsOf
    <2> HIDE DEF known, knownMore, droppedMore
    <2>4. AllAccounted(knownMore, requested, droppedMore)
        BY <2>1, <2>2, AccountedKept
    <2> QED BY <1>1, <2>3, <2>4 DEF droppedMore
<1>5. reported' \subseteq Packet
    BY <1>1, <1>2 DEF PacketInv
<1> QED BY <1>1, <1>3, <1>4, <1>5 DEF PacketInv

(* Requests of the past remain in the past. *)
LEMMA OtherPackets ==
    ASSUME now \in Nat, PacketInv, UNCHANGED <<m_queues, requested, transmitted, reported>>,
           now' = now \/ now' = now + 1
    PROVE  PacketInv'
<1>1. AreRequests(requested, now')
    <2>1. ASSUME NEW k \in DOMAIN requested PROVE requested[k].at <= now'
        <3>1. requested[k] \in Happening /\ requested[k].at <= now
            BY DEF PacketInv, AreRequests
        <3>2. requested[k].at \in Nat
            BY <3>1 DEF Happening
        <3> QED BY <3>1, <3>2
    <2> QED BY <2>1 DEF PacketInv, AreRequests
<1>2. (Queued \cup Transmitted \cup reported)' = Queued \cup Transmitted \cup reported
    BY DEF Queued, Transmitted
<1> QED BY <1>1, <1>2 DEF PacketInv

(* Every packet is accounted for in every reachable state. *)
THEOREM PacketInvariance == Spec => []PacketInv
<1>1. Init => PacketInv
    <2> SUFFICES ASSUME Init PROVE PacketInv
        OBVIOUS
    <2>1. <<>> \in Seq(Happening) /\ <<>> \in Seq(Pending) /\ DOMAIN <<>> = {}
        OBVIOUS
    <2>2. requested = <<>> /\ transmitted = <<>> /\ reported = {} /\ m_queues = [profile \in Profile |-> <<>>]
        BY DEF Init
    <2>3. AreRequests(requested, now)
        BY <2>1, <2>2 DEF AreRequests
    <2>4. AreQueues(m_queues, requested, transmitted)
        BY <2>1, <2>2 DEF AreQueues
    <2>5. AreTransmissions(transmitted, requested)
        BY <2>1, <2>2 DEF AreTransmissions, PacketsOf
    <2>6. AllAccounted(Queued \cup Transmitted \cup reported, requested, reported)
        BY <2>1, <2>2 DEF AllAccounted
    <2> QED BY <2>2, <2>3, <2>4, <2>5, <2>6 DEF PacketInv
<1>2. IInv /\ PacketInv /\ [Next]_vars => PacketInv'
    <2> SUFFICES ASSUME IInv, PacketInv, [Next]_vars PROVE PacketInv'
        OBVIOUS
    <2>1. now \in Nat
        BY DEF IInv, ControlOK
    <2>2. ASSUME NEW p \in Packet, RequestTransmit(p) PROVE PacketInv'
        BY <2>1, <2>2, RequestTransmitPackets
    <2>3. ASSUME NEW p \in Packet, RequestEnqueue(p) PROVE PacketInv'
        BY <2>1, <2>3, RequestEnqueuePackets
    <2>4. ASSUME NEW k \in DOMAIN triggers, Trigger(k) PROVE PacketInv'
        BY <2>1, <2>4, TriggerPackets
    <2>5. CASE Reschedule
        BY <2>1, <2>5, OtherPackets DEF Reschedule
    <2>6. ASSUME NEW i \in Intervals, ChangeState(i) PROVE PacketInv'
        BY <2>1, <2>6, OtherPackets DEF ChangeState
    <2>7. CASE Tick
        BY <2>1, <2>7, OtherPackets DEF Tick
    <2>8. CASE UNCHANGED vars
        BY <2>1, <2>8, OtherPackets DEF vars, history
    <2> QED BY <2>2, <2>3, <2>4, <2>5, <2>6, <2>7, <2>8 DEF Next
<1> QED BY <1>1, <1>2, Invariance, PTL DEF Spec

(* FlowControl transmits every packet at most once and within its          *)
(* lifetime, although trigger does not ask the rate control again, and a   *)
(* packet vanishes from the queues only by transmission, with a call of    *)
(* the drop hook for itself, or for the later packet that has pushed it    *)
(* out of the full queue: FlowControl::drop_expired, enqueue and trigger   *)
(* lose no packet in silence.  The variables have their types.             *)
THEOREM DropsAlwaysReported == Spec => []DropsReported
<1>1. IInv /\ PacketInv => DropsReported
    <2> SUFFICES ASSUME IInv, PacketInv PROVE DropsReported
        OBVIOUS
    <2>1. TypeOK
        BY DEF IInv, ControlOK, PacketInv, AreQueues, TypeOK
    <2>2. Queued \cap Transmitted = {}
        BY PacketInvSets, QueuedRequested DEF PacketInv
    <2>3. /\ \A j, k \in DOMAIN transmitted :
                transmitted[j].packet = transmitted[k].packet => j = k
          /\ \A k \in DOMAIN transmitted : \A r \in DOMAIN requested :
                transmitted[k].packet = requested[r].packet =>
                    transmitted[k].at - requested[r].at <= LifetimeOf[requested[r].packet]
        BY DEF PacketInv, AreTransmissions, InTime
    <2>4. \A r \in DOMAIN requested :
            requested[r].packet \in Queued \cup Transmitted \cup reported
            \/ PushedOut(r, requested, reported)
        BY DEF PacketInv, AllAccounted
    <2> QED BY <2>1, <2>2, <2>3, <2>4 DEF DropsReported, PushedOut
<1> QED BY <1>1, Invariance, PacketInvariance, PTL

-----------------------------------------------------------------------------
(* The queues without time: what is left of a queue when only the packets  *)
(* are looked at.                                                          *)

Names(q) == [k \in DOMAIN q |-> q[k].packet]

Waits(queues) == [profile \in Profile |-> Names(queues[profile])]

(* The packets of a sequence. *)
LEMMA NamesType ==
    ASSUME NEW R, \A r \in R : r.packet \in Packet, NEW q \in Seq(R)
    PROVE  /\ Names(q) \in Seq(Packet) /\ Len(Names(q)) = Len(q) /\ Len(q) \in Nat
           /\ \A k \in 1 .. Len(q) : Names(q)[k] = q[k].packet
           /\ Names(q) = <<>> <=> q = <<>>
<1>1. DOMAIN q = 1 .. Len(q) /\ Len(q) \in Nat /\ \A k \in 1 .. Len(q) : q[k] \in R
    OBVIOUS
<1>2. Names(q) \in [1 .. Len(q) -> Packet] /\ \A k \in 1 .. Len(q) : Names(q)[k] = q[k].packet
    BY <1>1 DEF Names
<1>3. Names(q) \in Seq(Packet) /\ Len(Names(q)) = Len(q)
    <2> DEFINE t == Names(q)
    <2> HIDE DEF t
    <2>1. t \in [1 .. Len(q) -> Packet]
        BY <1>2 DEF t
    <2>2. t \in Seq(Packet) /\ Len(t) = Len(q)
        BY <1>1, <2>1
    <2> QED BY <2>2 DEF t
<1>4. Names(q) = <<>> <=> q = <<>>
    BY <1>3
<1> QED BY <1>1, <1>2, <1>3, <1>4

(* Pending transmissions and events have packets. *)
LEMMA HavePackets ==
    /\ \A r \in Pending : r.packet \in Packet
    /\ \A r \in Happening : r.packet \in Packet
BY DEF Pending, Happening

(* Another packet at the end. *)
LEMMA NamesAppend ==
    ASSUME NEW R, \A r \in R : r.packet \in Packet, NEW q \in Seq(R), NEW e \in R
    PROVE  Names(Append(q, e)) = Append(Names(q), e.packet)
<1> DEFINE s == Names(Append(q, e))
           t == Append(Names(q), e.packet)
           n == Len(q)
<1>1. /\ Append(q, e) \in Seq(R) /\ Len(Append(q, e)) = n + 1 /\ n \in Nat
      /\ Append(q, e)[n + 1] = e /\ \A k \in 1 .. n : Append(q, e)[k] = q[k]
    OBVIOUS
<1>2. /\ Names(q) \in Seq(Packet) /\ Len(Names(q)) = n
      /\ \A k \in 1 .. n : Names(q)[k] = q[k].packet
    BY NamesType
<1>3. s \in Seq(Packet) /\ Len(s) = n + 1 /\ \A k \in 1 .. (n + 1) : s[k] = Append(q, e)[k].packet
    <2> DEFINE r == Append(q, e)
    <2>1. r \in Seq(R) /\ Len(r) = n + 1
        BY <1>1
    <2> HIDE DEF r, n
    <2>2. Names(r) \in Seq(Packet) /\ Len(Names(r)) = n + 1 /\ \A k \in 1 .. (n + 1) : Names(r)[k] = r[k].packet
        BY <2>1, NamesType
    <2> QED BY <2>2 DEF r
<1>4. e.packet \in Packet
    OBVIOUS
<1>5. /\ t \in Seq(Packet) /\ Len(t) = n + 1 /\ t[n + 1] = e.packet
      /\ \A k \in 1 .. n : t[k] = Names(q)[k]
    <2> DEFINE w == Names(q)
    <2> HIDE DEF w
    <2>1. w \in Seq(Packet) /\ Len(w) = n
        BY <1>2 DEF w
    <2> QED BY <1>4, <2>1 DEF w
<1> HIDE DEF s, t, n
<1>6. ASSUME NEW k \in 1 .. (n + 1) PROVE s[k] = t[k]
    <2>1. CASE k = n + 1
        BY <1>1, <1>3, <1>5, <2>1
    <2>2. CASE k # n + 1
        <3>1. k \in 1 .. n
            BY <1>1, <2>2
        <3> QED BY <1>1, <1>2, <1>3, <1>5, <3>1
    <2> QED BY <2>1, <2>2
<1>7. s = t
    BY <1>3, <1>5, <1>6, SeqEqual
<1> QED BY <1>7 DEF s, t

(* Some packets at the beginning are left out. *)
LEMMA NamesSuffix ==
    ASSUME NEW R, \A r \in R : r.packet \in Packet, NEW q \in Seq(R), NEW d \in 0 .. Len(q)
    PROVE  Names(SubSeq(q, d + 1, Len(q))) = SubSeq(Names(q), d + 1, Len(Names(q)))
<1> DEFINE n == Len(q) - d
           w == Names(q)
           u == SubSeq(q, d + 1, Len(q))
           s == Names(u)
           t == SubSeq(w, d + 1, Len(w))
<1>1. w \in Seq(Packet) /\ Len(w) = Len(q) /\ \A k \in 1 .. Len(q) : w[k] = q[k].packet
    BY NamesType
<1>2. u \in Seq(R) /\ Len(u) = n /\ \A j \in 1 .. n : u[j] = q[d + j]
    BY SuffixThins
<1> HIDE DEF w, u
<1>3. t \in Seq(Packet) /\ Len(t) = n /\ \A j \in 1 .. n : t[j] = w[d + j]
    <2>1. d \in 0 .. Len(w)
        BY <1>1
    <2>2. t \in Seq(Packet) /\ Len(t) = Len(w) - d /\ \A j \in 1 .. (Len(w) - d) : t[j] = w[d + j]
        BY <1>1, <2>1, SuffixThins
    <2> QED BY <1>1, <2>2
<1>4. s \in Seq(Packet) /\ Len(s) = n /\ \A j \in 1 .. n : s[j] = u[j].packet
    BY <1>2, NamesType
<1> HIDE DEF s, t
<1>5. \A j \in 1 .. n : d + j \in 1 .. Len(q)
    OBVIOUS
<1>6. \A j \in 1 .. n : s[j] = t[j]
    BY <1>1, <1>2, <1>3, <1>4, <1>5
<1> HIDE DEF n
<1>7. s = t
    BY <1>3, <1>4, <1>6, SeqEqual
<1> QED BY <1>7 DEF s, t, u, w

(* What is kept of a queue depends on the packets only, if they tell which *)
(* transmissions are in K.                                                 *)
LEMMA NamesKept ==
    ASSUME NEW q \in Seq(Pending), NEW K, NEW P,
           \A i \in 1 .. Len(q) : q[i] \in K <=> q[i].packet \in P
    PROVE  Names(Kept(q, K)) = Kept(Names(q), P)
<1> DEFINE t == Kept(q, K)
           w == Names(q)
           v == Names(t)
<1>1. t \in Seq(Pending)
    BY KeptPicks
<1>2. PICK g : Picks(g, t, q, Len(q), K)
    BY KeptPicks
<1>3. w \in Seq(Packet) /\ Len(w) = Len(q) /\ \A k \in 1 .. Len(q) : w[k] = q[k].packet
    BY NamesType, HavePackets
<1> HIDE DEF t, w
<1>4. v \in Seq(Packet) /\ Len(v) = Len(t) /\ \A k \in 1 .. Len(t) : v[k] = t[k].packet
    BY <1>1, NamesType, HavePackets
<1> HIDE DEF v
<1>5. \A j \in 1 .. Len(t) : g[j] \in 1 .. Len(q) /\ t[j] = q[g[j]] /\ t[j] \in K
    BY <1>2 DEF Picks
<1>6. \A j \in 1 .. Len(v) : v[j] = w[g[j]] /\ v[j] \in P
    <2> SUFFICES ASSUME NEW j \in 1 .. Len(v) PROVE v[j] = w[g[j]] /\ v[j] \in P
        OBVIOUS
    <2>1. g[j] \in 1 .. Len(q) /\ t[j] = q[g[j]] /\ t[j] \in K /\ v[j] = t[j].packet
        BY <1>4, <1>5
    <2> QED BY <1>3, <2>1
<1>7. \A i \in 1 .. Len(w) : w[i] \in P => \E j \in 1 .. Len(v) : g[j] = i
    <2> SUFFICES ASSUME NEW i \in 1 .. Len(w), w[i] \in P PROVE \E j \in 1 .. Len(v) : g[j] = i
        OBVIOUS
    <2>1. i \in 1 .. Len(q) /\ q[i] \in K
        BY <1>3
    <2> QED BY <1>2, <1>4, <2>1 DEF Picks
<1>8. g \in [1 .. Len(v) -> 1 .. Len(w)] /\ \A i, j \in 1 .. Len(v) : i < j => g[i] < g[j]
    BY <1>2, <1>3, <1>4 DEF Picks
<1>9. Picks(g, v, w, Len(w), P)
    BY <1>6, <1>7, <1>8 DEF Picks
<1>10. v = Kept(w, P)
    BY <1>3, <1>4, <1>9, PicksKept
<1> QED BY <1>10 DEF v, t, w

(* drop_expired for the packets. *)
LEMMA AliveNames ==
    ASSUME NEW queues, NEW reqs, NEW sent, AreQueues(queues, reqs, sent), now \in Nat,
           NEW profile \in Profile
    PROVE  Names(DropExpired(queues)[profile]) = Kept(Names(queues[profile]), Packet \ Expired(queues))
<1> DEFINE s == queues[profile]
           K == {tx \in Pending : tx.expiry >= now}
           P == Packet \ Expired(queues)
<1>1. s \in Seq(Pending) /\ queues \in [Profile -> Seq(Pending)]
    BY DEF AreQueues
<1>2. DropExpired(queues)[profile] = IF s = <<>> THEN <<>> ELSE Kept(s, K)
    BY DEF DropExpired
<1>3. DOMAIN s = 1 .. Len(s)
    BY <1>1
<1>4. ASSUME NEW i \in 1 .. Len(s) PROVE s[i] \in K <=> s[i].packet \in P
    <2>1. i \in DOMAIN queues[profile]
        BY <1>3
    <2>2. s[i] \in Pending /\ s[i].packet \in Packet /\ s[i].expiry \in Nat
        BY <1>1, <2>1, QueuedPending
    <2>3. ASSUME s[i] \in K, s[i].packet \in Expired(queues) PROVE FALSE
        <3>1. PICK other \in Profile : \E k \in DOMAIN queues[other] :
                queues[other][k].expiry < now /\ queues[other][k].packet = s[i].packet
            BY <2>3 DEF Expired
        <3>2. PICK k \in DOMAIN queues[other] :
                queues[other][k].expiry < now /\ queues[other][k].packet = s[i].packet
            BY <3>1
        <3>3. other = profile
            BY <2>1, <3>2 DEF AreQueues
        <3>4. k = i
            BY <2>1, <3>2, <3>3 DEF AreQueues
        <3>5. s[i].expiry < now /\ s[i].expiry >= now
            BY <2>3, <3>2, <3>3, <3>4
        <3> QED BY <2>2, <3>5
    <2>4. ASSUME s[i] \notin K PROVE s[i].packet \in Expired(queues)
        <3>1. s[i].expiry < now
            BY <2>2, <2>4
        <3> QED BY <2>1, <3>1 DEF Expired
    <2> QED BY <2>2, <2>3, <2>4
<1> HIDE DEF s, K, P
<1>5. CASE s = <<>>
    <2>1. Names(<<>>) = <<>>
        BY DEF Names
    <2> QED BY <1>2, <1>5, <2>1, KeptNone DEF s
<1>6. CASE s # <<>>
    <2>1. Names(Kept(s, K)) = Kept(Names(s), P)
        BY <1>1, <1>4, NamesKept
    <2> QED BY <1>2, <1>6, <2>1 DEF s, P
<1> QED BY <1>5, <1>6

(* The packets that get lost when another one is enqueued. *)
LostBy(queues, own) ==
    Expired(queues) \cup
    {DropExpired(queues)[own][j].packet : j \in 1 .. HeadDrop(DropExpired(queues)[own])}

(* drop_expired and the head drop of enqueue for the packets. *)
LEMMA CutNames ==
    ASSUME NEW queues, NEW reqs, NEW sent, AreQueues(queues, reqs, sent), now \in Nat,
           NEW own \in Profile
    PROVE  /\ LostBy(queues, own) \subseteq PacketsIn(queues)
           /\ \A profile \in Profile :
                Names(Cut(DropExpired(queues), own)[profile])
                    = Kept(Names(queues[profile]), Packet \ LostBy(queues, own))
<1> DEFINE alive == DropExpired(queues)
           a == alive[own]
           d == HeadDrop(a)
           lost == LostBy(queues, own)
           cut == Cut(alive, own)
<1>1. queues \in [Profile -> Seq(Pending)]
    BY DEF AreQueues
<1>2. /\ AreQueues(alive, reqs, sent) /\ PacketsIn(alive) \subseteq PacketsIn(queues)
      /\ alive \in [Profile -> Seq(Pending)] /\ a \in Seq(Pending)
    <2>1. AreQueues(alive, reqs, sent) /\ PacketsIn(alive) \subseteq PacketsIn(queues)
        BY DropExpiredFacts
    <2>2. alive \in [Profile -> Seq(Pending)]
        BY <2>1 DEF AreQueues
    <2> HIDE DEF alive
    <2> QED BY <2>1, <2>2
<1>3. d \in 0 .. Len(a) /\ Len(a) \in Nat /\ d \in Nat
    <2>1. QueueLength \in Nat /\ Len(a) \in Nat
        BY <1>2, ControlAssumption
    <2> HIDE DEF a
    <2> QED BY <2>1 DEF HeadDrop
<1>4. ASSUME NEW profile \in Profile
      PROVE  Names(alive[profile]) = Kept(Names(queues[profile]), Packet \ Expired(queues))
    BY AliveNames
<1>5. lost = Expired(queues) \cup {a[j].packet : j \in 1 .. d}
    BY DEF LostBy
<1>6. /\ cut[own] = SubSeq(a, d + 1, Len(a))
      /\ \A profile \in Profile : profile # own => cut[profile] = alive[profile]
    BY <1>2 DEF Cut
<1>7. alive[own] = a
    OBVIOUS
<1> HIDE DEF a, d, lost, cut, alive
<1>8. \A j \in 1 .. d : j \in 1 .. Len(a) /\ j \in DOMAIN alive[own]
    <2>1. DOMAIN a = 1 .. Len(a)
        BY <1>2
    <2> QED BY <1>3, <1>7, <2>1
<1>9. \A j \in 1 .. d : ProfileOf[a[j].packet] = own /\ a[j].packet \in PacketsIn(alive)
    BY <1>2, <1>7, <1>8 DEF AreQueues, PacketsIn
<1>10. lost \subseteq PacketsIn(queues)
    <2>1. Expired(queues) \subseteq PacketsIn(queues)
        BY DEF Expired, PacketsIn
    <2> QED BY <1>2, <1>5, <1>9, <2>1
<1>11. ASSUME NEW profile \in Profile
       PROVE  /\ Names(queues[profile]) \in Seq(Packet)
              /\ Len(Names(queues[profile])) = Len(queues[profile])
              /\ \A i \in 1 .. Len(queues[profile]) :
                    /\ Names(queues[profile])[i] = queues[profile][i].packet
                    /\ i \in DOMAIN queues[profile]
                    /\ ProfileOf[queues[profile][i].packet] = profile
    <2> DEFINE s == queues[profile]
    <2>1. s \in Seq(Pending)
        BY <1>1
    <2> HIDE DEF s
    <2>2. /\ Names(s) \in Seq(Packet) /\ Len(Names(s)) = Len(s) /\ DOMAIN s = 1 .. Len(s)
          /\ \A i \in 1 .. Len(s) : Names(s)[i] = s[i].packet
        BY <2>1, NamesType, HavePackets
    <2> QED BY <2>2 DEF s, AreQueues
<1>12. ASSUME NEW profile \in Profile, profile # own
       PROVE  Names(cut[profile]) = Kept(Names(queues[profile]), Packet \ lost)
    <2> DEFINE w == Names(queues[profile])
    <2>1. w \in Seq(Packet) /\ \A i \in 1 .. Len(w) : w[i] \in Packet /\ ProfileOf[w[i]] = profile
        BY <1>11
    <2> HIDE DEF w
    <2>2. \A i \in 1 .. Len(w) : w[i] \in Packet \ Expired(queues) <=> w[i] \in Packet \ lost
        BY <1>5, <1>9, <1>12, <2>1
    <2>3. Kept(w, Packet \ Expired(queues)) = Kept(w, Packet \ lost)
        BY <2>1, <2>2, KeptSame
    <2> QED BY <1>4, <1>6, <1>12, <2>3 DEF w
<1>13. Names(cut[own]) = Kept(Names(queues[own]), Packet \ lost)
    <2> DEFINE w == Names(queues[own])
               t == Names(a)
               K == Packet \ Expired(queues)
               L == Packet \ lost
    <2>1. w \in Seq(Packet) /\ \A i \in 1 .. Len(w) : w[i] \in Packet
        BY <1>11
    <2>2. Distinct(w)
        BY <1>11 DEF AreQueues, Distinct
    <2>3. t = Kept(w, K)
        BY <1>4, <1>7
    <2>4. Len(t) = Len(a) /\ \A j \in 1 .. d : t[j] = a[j].packet
        BY <1>2, <1>8, NamesType, HavePackets
    <2>5. Names(cut[own]) = SubSeq(t, d + 1, Len(t))
        BY <1>2, <1>3, <1>6, NamesSuffix, HavePackets
    <2> HIDE DEF w, t
    <2>6. Skips(L, K, t, d, w)
        <3>1. ASSUME NEW i \in 1 .. Len(w)
              PROVE  w[i] \in L <=> w[i] \in K /\ \A j \in 1 .. d : t[j] # w[i]
            BY <1>5, <2>1, <2>4
        <3> QED BY <3>1 DEF Skips
    <2> HIDE DEF K, L
    <2>7. d \in 0 .. Len(t)
        BY <1>3, <2>4
    <2>8. SubSeq(t, d + 1, Len(t)) = Kept(w, L)
        BY <2>1, <2>2, <2>3, <2>6, <2>7, SuffixKept
    <2> QED BY <2>5, <2>8 DEF w, L
<1> QED BY <1>10, <1>12, <1>13 DEF lost, cut, alive

-----------------------------------------------------------------------------
(* The refinement *)

(* The operators of PriorityQueues under the refinement mapping. *)
LEMMA AbstractOperators ==
    /\ Abstract!Waiting = PacketsIn(m_queues)
    /\ \A lost : Abstract!Without(lost) =
            [profile \in Profile |-> Kept(Names(m_queues[profile]), Packet \ lost)]
<1>1. \A s, K : Abstract!Kept(s, K) = Kept(s, K)
    BY DEF Abstract!Kept, Kept
<1>2. \A lost : Abstract!Without(lost) =
            [profile \in Profile |-> Abstract!Kept(Names(m_queues[profile]), Packet \ lost)]
    BY DEF Abstract!Without, Names
<1>3. \A lost : Abstract!Without(lost) =
            [profile \in Profile |-> Kept(Names(m_queues[profile]), Packet \ lost)]
    BY <1>1, <1>2
<1>4. Abstract!Waiting = PacketsIn(m_queues)
    <2> DEFINE w == Waits(m_queues)
    <2>1. Abstract!Waiting = UNION {{w[profile][k] : k \in DOMAIN w[profile]} : profile \in Profile}
        BY DEF Abstract!Waiting, Waits, Names
    <2>2. \A profile \in Profile :
            /\ DOMAIN w[profile] = DOMAIN m_queues[profile]
            /\ \A k \in DOMAIN m_queues[profile] : w[profile][k] = m_queues[profile][k].packet
        BY DEF Waits, Names
    <2> HIDE DEF w
    <2>3. \A profile \in Profile :
            {w[profile][k] : k \in DOMAIN w[profile]}
                = {m_queues[profile][k].packet : k \in DOMAIN m_queues[profile]}
        BY <2>2
    <2>4. PacketsIn(m_queues) =
            UNION {{m_queues[profile][k].packet : k \in DOMAIN m_queues[profile]} : profile \in Profile}
        BY DEF PacketsIn
    <2>5. {{w[profile][k] : k \in DOMAIN w[profile]} : profile \in Profile}
            = {{m_queues[profile][k].packet : k \in DOMAIN m_queues[profile]} : profile \in Profile}
        <3> DEFINE Of(profile) == {w[profile][k] : k \in DOMAIN w[profile]}
                   In(profile) == {m_queues[profile][k].packet : k \in DOMAIN m_queues[profile]}
        <3>1. \A profile \in Profile : Of(profile) = In(profile)
            BY <2>3
        <3> HIDE DEF Of, In
        <3>2. {Of(profile) : profile \in Profile} = {In(profile) : profile \in Profile}
            BY <3>1
        <3> QED BY <3>2 DEF Of, In
    <2> QED BY <2>1, <2>4, <2>5
<1> QED BY <1>3, <1>4

(* What drop_expired leaves is what PriorityQueues has without the expired *)
(* packets.                                                                *)
LEMMA AliveWithout ==
    ASSUME now \in Nat, PacketInv
    PROVE  /\ Abstract!Without(Expired(m_queues)) = Waits(DropExpired(m_queues))
           /\ Expired(m_queues) \in SUBSET Abstract!Waiting
           /\ \A profile \in Profile :
                Names(DropExpired(m_queues)[profile]) = <<>> <=> DropExpired(m_queues)[profile] = <<>>
<1> DEFINE alive == DropExpired(m_queues)
<1>1. AreQueues(m_queues, requested, transmitted)
    BY DEF PacketInv
<1>2. \A profile \in Profile :
        Names(alive[profile]) = Kept(Names(m_queues[profile]), Packet \ Expired(m_queues))
    BY <1>1, AliveNames
<1>3. alive \in [Profile -> Seq(Pending)]
    BY <1>1, DropExpiredFacts DEF AreQueues
<1> HIDE DEF alive
<1>4. Abstract!Without(Expired(m_queues)) = Waits(alive)
    BY <1>2, AbstractOperators DEF Waits
<1>5. Expired(m_queues) \subseteq PacketsIn(m_queues)
    BY DEF Expired, PacketsIn
<1>6. \A profile \in Profile : Names(alive[profile]) = <<>> <=> alive[profile] = <<>>
    BY <1>3, NamesType, HavePackets
<1> QED BY <1>4, <1>5, <1>6, AbstractOperators DEF alive

(* A packet that is transmitted right away. *)
LEMMA RequestTransmitPasses ==
    ASSUME now \in Nat, PacketInv, NEW p \in Packet, RequestTransmit(p)
    PROVE  Abstract!Next
<1> DEFINE alive == DropExpired(m_queues)
           lost == Expired(m_queues)
           e == [packet |-> p, at |-> now]
<1>1. /\ p \notin PacketsOf(requested) /\ m_queues' = alive
      /\ requested' = Append(requested, e) /\ transmitted' = Append(transmitted, e)
      /\ \A other \in 0 .. ProfileOf[p] : alive[other] = <<>>
    BY NotRequested DEF RequestTransmit, TransmitImmediately, Event
<1>2. /\ Abstract!Without(lost) = Waits(alive) /\ lost \in SUBSET Abstract!Waiting
      /\ \A profile \in Profile : Names(alive[profile]) = <<>> <=> alive[profile] = <<>>
    BY AliveWithout
<1>3. PacketsOf(requested') = PacketsOf(requested) \cup {p}
    BY <1>1, RequestsGrow DEF PacketInv
<1>4. Names(transmitted') = Append(Names(transmitted), p)
    <2>1. e \in Happening /\ e.packet = p /\ transmitted \in Seq(Happening)
        BY DEF Happening, PacketInv, AreTransmissions
    <2> HIDE DEF e
    <2> QED BY <1>1, <2>1, NamesAppend, HavePackets
<1>5. \A other \in 0 .. ProfileOf[p] : other \in Profile
    <2>1. ProfileOf[p] \in 0 .. 3
        BY PacketAssumption DEF Profile
    <2> QED BY <2>1 DEF Profile
<1> HIDE DEF alive, lost
<1>6. \A other \in 0 .. ProfileOf[p] : Abstract!Without(lost)[other] = <<>>
    BY <1>1, <1>2, <1>5 DEF Waits
<1>7. Waits(m_queues') = Abstract!Without(lost)
    BY <1>1, <1>2
<1>8. PICK x : x = lost
    OBVIOUS
<1>9. /\ x \in SUBSET Abstract!Waiting
      /\ \A other \in 0 .. ProfileOf[p] : Abstract!Without(x)[other] = <<>>
      /\ Waits(m_queues') = Abstract!Without(x)
    BY <1>2, <1>6, <1>7, <1>8
<1>10. x \in SUBSET Abstract!Waiting /\ Abstract!Pass(p, x)
    BY <1>1, <1>3, <1>4, <1>9 DEF Abstract!Pass, Waits, Names, PacketsOf
<1> QED BY <1>10 DEF Abstract!Next

(* A packet that is enqueued. *)
LEMMA RequestEnqueueEnqueues ==
    ASSUME now \in Nat, PacketInv, NEW p \in Packet, RequestEnqueue(p)
    PROVE  Abstract!Next
<1> DEFINE alive == DropExpired(m_queues)
           own == ProfileOf[p]
           cut == Cut(alive, own)
           lost == LostBy(m_queues, own)
           tx == [packet |-> p, expiry |-> now + LifetimeOf[p]]
           e == [packet |-> p, at |-> now]
<1>1. /\ p \notin PacketsOf(requested)
      /\ m_queues' = [alive EXCEPT ![own] =
            Append(SubSeq(alive[own], HeadDrop(alive[own]) + 1, Len(alive[own])), tx)]
      /\ requested' = Append(requested, e) /\ transmitted' = transmitted
    BY NotRequested DEF RequestEnqueue, Event
<1>2. own \in Profile /\ tx \in Pending /\ tx.packet = p
    BY PacketAssumption DEF Pending
<1>3. AreQueues(m_queues, requested, transmitted)
    BY DEF PacketInv
<1>4. AreQueues(alive, requested, transmitted)
    BY <1>3, DropExpiredFacts
<1>5. alive \in [Profile -> Seq(Pending)]
    BY <1>4 DEF AreQueues
<1>6. cut \in [Profile -> Seq(Pending)]
    <2> HIDE DEF own, alive
    <2>1. AreQueues(cut, requested, transmitted)
        BY <1>2, <1>4, HeadDropped
    <2> QED BY <2>1 DEF AreQueues
<1>7. m_queues' = [cut EXCEPT ![own] = Append(cut[own], tx)]
    <2> HIDE DEF alive, own, tx
    <2> QED BY <1>1, <1>2, <1>5 DEF Cut
<1>8. /\ lost \subseteq PacketsIn(m_queues)
      /\ \A profile \in Profile : Names(cut[profile]) = Kept(Names(m_queues[profile]), Packet \ lost)
    <2> HIDE DEF own
    <2> QED BY <1>2, <1>3, CutNames
<1> HIDE DEF alive, cut, lost, tx
<1>9. Abstract!Without(lost) = Waits(cut) /\ lost \in SUBSET Abstract!Waiting
    BY <1>8, AbstractOperators DEF Waits
<1>10. Waits(m_queues') = [Waits(cut) EXCEPT ![own] = Append(@, p)]
    <2> HIDE DEF own
    <2>1. cut[own] \in Seq(Pending)
        BY <1>2, <1>6
    <2>2. Names(Append(cut[own], tx)) = Append(Names(cut[own]), p)
        <3> DEFINE q == cut[own]
        <3> HIDE DEF q
        <3>1. q \in Seq(Pending)
            BY <2>1 DEF q
        <3>2. Names(Append(q, tx)) = Append(Names(q), tx.packet)
            BY <1>2, <3>1, NamesAppend, HavePackets
        <3> QED BY <1>2, <3>2 DEF q
    <2>3. m_queues'[own] = Append(cut[own], tx) /\ \A profile \in Profile : profile # own => m_queues'[profile] = cut[profile]
        BY <1>2, <1>6, <1>7
    <2>4. \A profile \in Profile :
            Names(m_queues'[profile]) = IF profile = own THEN Append(Names(cut[own]), p) ELSE Names(cut[profile])
        BY <2>2, <2>3
    <2> QED BY <1>2, <2>4 DEF Waits
<1>11. PacketsOf(requested') = PacketsOf(requested) \cup {p}
    BY <1>1, RequestsGrow DEF PacketInv
<1>12. Waits(m_queues') = [Abstract!Without(lost) EXCEPT ![ProfileOf[p]] = Append(@, p)]
    BY <1>9, <1>10
<1>13. PICK x : x = lost
    OBVIOUS
<1>14. /\ x \in SUBSET Abstract!Waiting
       /\ Waits(m_queues') = [Abstract!Without(x) EXCEPT ![ProfileOf[p]] = Append(@, p)]
    BY <1>9, <1>12, <1>13
<1>15. x \in SUBSET Abstract!Waiting /\ Abstract!Enqueue(p, x)
    BY <1>1, <1>11, <1>14 DEF Abstract!Enqueue, Waits, Names, PacketsOf
<1> QED BY <1>15 DEF Abstract!Next

(* Packets of profiles 1 to 3 share a budget, so that the most urgent one  *)
(* goes first.                                                             *)
LEMMA NextQueueFirst ==
    ASSUME NEW queues, NEW messages, NEW last, NEW next \in Profile,
           IsNextQueue(queues, messages, last, next),
           StateMachineDelay(last, interval, now) \in Int
    PROVE  queues[next] # <<>> /\ \A other \in 1 .. (next - 1) : queues[other] = <<>>
<1>1. queues[next] # <<>>
    BY DEF IsNextQueue
<1>2. ASSUME NEW other \in 1 .. (next - 1), queues[other] # <<>> PROVE FALSE
    <2>1. next \in 0 .. 3
        BY DEF Profile
    <2>2. other \in Profile /\ other # 0 /\ next # 0 /\ ~(next <= other)
        BY <2>1 DEF Profile
    <2>3. Delay(next, messages, last) = Delay(other, messages, last) /\ Delay(next, messages, last) \in Int
        BY <2>2 DEF Delay
    <2>4. ~(Delay(next, messages, last) < Delay(other, messages, last))
        BY <2>3
    <2> QED BY <1>2, <2>2, <2>4 DEF IsNextQueue
<1> QED BY <1>1, <1>2

(* A trigger serves a queue, or finds them empty. *)
LEMMA TriggerServes ==
    ASSUME IInv, PacketInv, NEW due \in DOMAIN triggers, Trigger(due)
    PROVE  Abstract!Next
<1> DEFINE alive == DropExpired(m_queues)
           lost == Expired(m_queues)
<1>1. now \in Nat
    BY DEF IInv, ControlOK
<1>2. /\ Abstract!Without(lost) = Waits(alive) /\ lost \in SUBSET Abstract!Waiting
      /\ \A profile \in Profile : Names(alive[profile]) = <<>> <=> alive[profile] = <<>>
    BY <1>1, AliveWithout
<1>3. requested' = requested
    BY DEF Trigger
<1>4. alive \in [Profile -> Seq(Pending)]
    BY <1>1, DropExpiredFacts DEF AreQueues, PacketInv
<1>5. CASE m_queues' = alive /\ transmitted' = transmitted
    <2> HIDE DEF alive, lost
    <2>1. Waits(m_queues') = Abstract!Without(lost)
        BY <1>2, <1>5
    <2>2. PICK x : x = lost
        OBVIOUS
    <2>3. x \in SUBSET Abstract!Waiting /\ Waits(m_queues') = Abstract!Without(x)
        BY <1>2, <2>1, <2>2
    <2>4. x \in SUBSET Abstract!Waiting /\ Abstract!Drop(x)
        BY <1>3, <1>5, <2>3 DEF Abstract!Drop, Waits, Names, PacketsOf
    <2> QED BY <2>4 DEF Abstract!Next
<1>6. ASSUME NEW next \in Profile, IsNextQueue(alive, m_messages, m_last_tx, next),
             m_queues' = [alive EXCEPT ![next] = Tail(@)],
             transmitted' = Append(transmitted, Event(Head(alive[next]).packet))
      PROVE  Abstract!Next
    <2> HIDE DEF alive, lost
    <2>1. StateMachineDelay(m_last_tx, interval, now) \in Int
        <3>1. interval \in Int /\ m_last_tx \in Int
            BY ControlAssumption DEF IInv, ControlOK, Never
        <3> QED BY <1>1, <3>1 DEF StateMachineDelay
    <2>2. alive[next] # <<>> /\ \A other \in 1 .. (next - 1) : alive[other] = <<>>
        BY <1>6, <2>1, NextQueueFirst
    <2> DEFINE q == alive[next]
    <2>3. q \in Seq(Pending) /\ q # <<>>
        BY <1>4, <2>2
    <2> HIDE DEF q
    <2>4. Names(Tail(q)) = Tail(Names(q)) /\ Head(Names(q)) = Head(q).packet /\ Names(q) # <<>>
        <3>1. /\ Names(q) \in Seq(Packet) /\ Len(Names(q)) = Len(q) /\ Len(q) \in Nat
              /\ \A j \in 1 .. Len(q) : Names(q)[j] = q[j].packet /\ Names(q) # <<>>
            BY <2>3, NamesType, HavePackets
        <3>2. Len(q) # 0 /\ 1 \in 0 .. Len(q) /\ 1 \in 1 .. Len(q)
            BY <2>3, <3>1
        <3>3. Names(SubSeq(q, 1 + 1, Len(q))) = SubSeq(Names(q), 1 + 1, Len(Names(q)))
            BY <2>3, <3>2, NamesSuffix, HavePackets
        <3>4. Tail(q) = SubSeq(q, 2, Len(q))
            BY <2>3, TailIsSubSeq
        <3>5. Names(q) # <<>>
            BY <3>1, <3>2
        <3>6. Tail(Names(q)) = SubSeq(Names(q), 2, Len(Names(q)))
            BY <3>1, <3>5, TailIsSubSeq
        <3>7. 1 + 1 = 2
            OBVIOUS
        <3>8. Head(q) = q[1] /\ Head(Names(q)) = Names(q)[1]
            <4> DEFINE w == Names(q)
            <4>1. w \in Seq(Packet) /\ w # <<>>
                BY <3>1, <3>5
            <4> HIDE DEF w
            <4>2. Head(w) = w[1]
                BY <4>1
            <4> QED BY <2>3, <4>2 DEF w
        <3> QED BY <3>1, <3>2, <3>3, <3>4, <3>5, <3>6, <3>7, <3>8
    <2>5. Head(q) \in Pending /\ Head(q).packet \in Packet
        <3>1. Head(q) \in Pending
            BY <2>3, HeadTailProperties
        <3> QED BY <3>1, HavePackets
    <2>6. m_queues'[next] = Tail(q) /\ \A profile \in Profile : profile # next => m_queues'[profile] = alive[profile]
        BY <1>4, <1>6 DEF q
    <2>7. Waits(m_queues') = [Waits(alive) EXCEPT ![next] = Tail(@)]
        <3>1. Waits(alive)[next] = Names(q)
            BY DEF Waits, q
        <3>2. \A profile \in Profile :
                Names(m_queues'[profile]) = IF profile = next THEN Tail(Names(q)) ELSE Names(alive[profile])
            BY <2>4, <2>6
        <3> QED BY <3>1, <3>2 DEF Waits
    <2>8. Names(transmitted') = Append(Names(transmitted), Head(Names(q)))
        <3> DEFINE e == Event(Head(q).packet)
        <3>1. e \in Happening /\ e.packet = Head(q).packet /\ transmitted \in Seq(Happening)
            BY <1>1, <2>5 DEF Happening, PacketInv, AreTransmissions, Event
        <3>2. transmitted' = Append(transmitted, e)
            BY <1>6 DEF q
        <3> HIDE DEF e
        <3>3. Names(Append(transmitted, e)) = Append(Names(transmitted), e.packet)
            BY <3>1, NamesAppend, HavePackets
        <3> QED BY <2>4, <3>1, <3>2, <3>3
    <2>9. /\ Abstract!Without(lost)[next] = Names(q) /\ Names(q) # <<>>
          /\ \A other \in 1 .. (next - 1) : Abstract!Without(lost)[other] = <<>>
        <3>1. \A other \in 1 .. (next - 1) : other \in Profile
            <4>1. next \in 0 .. 3
                BY DEF Profile
            <4> QED BY <4>1 DEF Profile
        <3>2. \A other \in 1 .. (next - 1) : Waits(alive)[other] = <<>>
            BY <1>2, <2>2, <3>1 DEF Waits
        <3> QED BY <1>2, <2>4, <3>2 DEF Waits, q
    <2>10. Waits(m_queues') = [Abstract!Without(lost) EXCEPT ![next] = Tail(@)]
        BY <1>2, <2>7
    <2>11. PICK x : x = lost
        OBVIOUS
    <2>12. Names(transmitted') = Append(Names(transmitted), Head(Abstract!Without(x)[next]))
        BY <2>8, <2>9, <2>11
    <2>13. /\ Abstract!Without(x)[next] # <<>>
           /\ \A other \in 1 .. (next - 1) : Abstract!Without(x)[other] = <<>>
        BY <2>9, <2>11
    <2>14. Waits(m_queues') = [Abstract!Without(x) EXCEPT ![next] = Tail(@)]
        BY <2>10, <2>11
    <2>15. Abstract!Serve(next, x)
        <3> DEFINE w == Abstract!Without(x)
        <3>1. w[next] # <<>> /\ \A other \in 1 .. (next - 1) : w[other] = <<>>
            BY <2>13
        <3>2. Waits(m_queues)' = [w EXCEPT ![next] = Tail(@)]
            BY <2>14 DEF Waits, Names
        <3>3. Names(transmitted)' = Append(Names(transmitted), Head(w[next]))
            BY <2>12 DEF Names
        <3>4. UNCHANGED PacketsOf(requested)
            BY <1>3 DEF PacketsOf
        <3> HIDE DEF w
        <3>5. /\ [profile \in Profile |->
                    [k \in DOMAIN m_queues[profile] |-> m_queues[profile][k].packet]]'
                    = [w EXCEPT ![next] = Tail(@)]
              /\ [k \in DOMAIN transmitted |-> transmitted[k].packet]'
                    = Append([k \in DOMAIN transmitted |-> transmitted[k].packet], Head(w[next]))
              /\ UNCHANGED {requested[k].packet : k \in DOMAIN requested}
            BY <3>2, <3>3, <3>4 DEF Waits, Names, PacketsOf
        <3> QED BY <3>1, <3>5 DEF Abstract!Serve, w
    <2>16. x \in SUBSET Abstract!Waiting
        BY <1>2, <2>11
    <2> QED BY <2>15, <2>16 DEF Abstract!Next
<1> QED BY <1>5, <1>6 DEF Trigger

(* FlowControl with its triggers, expiry, head drop and rate control       *)
(* implements PriorityQueues: packets of a profile are transmitted in the  *)
(* order of their requests, those of the profiles 1 to 3 by priority, and  *)
(* transmit_immediately lets none overtake a packet of its own or a more   *)
(* urgent profile.                                                         *)
THEOREM ImplementsQueues == Spec => ImplementsPriorityQueues
<1>1. Init => Abstract!Init
    BY DEF Init, Abstract!Init
<1>2. IInv /\ PacketInv /\ [Next]_vars => [Abstract!Next]_(Abstract!vars)
    <2> SUFFICES ASSUME IInv, PacketInv, [Next]_vars
                 PROVE  Abstract!Next \/ UNCHANGED Abstract!vars
        OBVIOUS
    <2>1. now \in Nat
        BY DEF IInv, ControlOK
    <2>2. UNCHANGED <<m_queues, requested, transmitted>> => UNCHANGED Abstract!vars
        BY DEF Abstract!vars
    <2>3. ASSUME NEW p \in Packet, RequestTransmit(p) PROVE Abstract!Next
        BY <2>1, <2>3, RequestTransmitPasses
    <2>4. ASSUME NEW p \in Packet, RequestEnqueue(p) PROVE Abstract!Next
        BY <2>1, <2>4, RequestEnqueueEnqueues
    <2>5. ASSUME NEW k \in DOMAIN triggers, Trigger(k) PROVE Abstract!Next
        BY <2>5, TriggerServes
    <2>6. CASE Reschedule
        BY <2>2, <2>6 DEF Reschedule
    <2>7. ASSUME NEW i \in Intervals, ChangeState(i) PROVE UNCHANGED Abstract!vars
        BY <2>2, <2>7 DEF ChangeState
    <2>8. CASE Tick
        BY <2>2, <2>8 DEF Tick
    <2>9. CASE UNCHANGED vars
        BY <2>2, <2>9 DEF vars, history
    <2> QED BY <2>3, <2>4, <2>5, <2>6, <2>7, <2>8, <2>9 DEF Next
<1> QED BY <1>1, <1>2, Invariance, PacketInvariance, PTL
        DEF Spec, ImplementsPriorityQueues, Abstract!Spec
=============================================================================
