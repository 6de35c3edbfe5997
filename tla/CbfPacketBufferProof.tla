------------------------ MODULE CbfPacketBufferProof ------------------------
(***************************************************************************)
(* Proofs about CbfPacketBuffer, for any number of packets, any capacity   *)
(* and any timeouts: the wake-up of the buffer is never lost and packets   *)
(* are never held back by a whole CBF timeout; lifetimes drift by no more  *)
(* than half a unit for each reduction; list, timers and byte count never  *)
(* disagree; and with contending counters the buffer implements            *)
(* ContentionBuffer.                                                       *)
(***************************************************************************)
EXTENDS CbfPacketBuffer, CommonLemmas, FiniteSetTheorems

(* Reducing lifetimes keeps the types. *)
LEMMA ReduceLifetimeType ==
  ASSUME NEW e \in TimerEntry, NEW at \in Nat
  PROVE  ReduceLifetime(e, at) \in TimerEntry
<1>1. Queued(e, at) \in Int
  BY DEF Queued, TimerEntry
<1>2. Reduced(e.lifetime, Queued(e, at)) \in LifetimeField
  BY <1>1, ReducedType DEF TimerEntry
<1>3. ASSUME NEW l \in LifetimeField, NEW n \in Nat
      PROVE  [e EXCEPT !.lifetime = l, !.reductions = n] \in TimerEntry
  BY DEF TimerEntry
<1>4. e.reductions + 1 \in Nat
  BY DEF TimerEntry
<1> QED
  BY <1>2, <1>3, <1>4 DEF ReduceLifetime

(* The counter operations keep the table a table. *)
LEMMA CounterTypes ==
  ASSUME NEW t \in Tables, NEW id \in Id, NEW at \in Nat
  PROVE  /\ CounterAdd(t, id, at) \in Tables
         /\ CounterRemove(t, id) \in Tables
         /\ CounterIncrement(t, id, at) \in Tables
<1> USE CounterKindAssumption, CounterLifetimeAssumption
<1>1. NoEntry \in Entry
  BY DEF NoEntry, Entry
<1>2. ASSUME NEW u \in Tables PROVE DropExpired(u, at) \in Tables
  BY <1>1, <1>2 DEF DropExpired, Tables
<1>3. [t EXCEPT ![id] = [value |-> t[id].value + 1, expiry |-> at + CounterLifetime]] \in Tables
  BY DEF Tables, Entry
<1>4. CounterAdd(t, id, at) \in Tables
  <2>1. CASE CounterKind = "immortal"
    BY <2>1 DEF CounterAdd, Tables, Entry
  <2>2. CASE CounterKind = "contending"
    BY <2>2 DEF CounterAdd, Tables, Entry
  <2>3. CASE CounterKind = "fading"
    BY <2>3, <1>2, <1>3 DEF CounterAdd
  <2> QED
    BY <2>1, <2>2, <2>3
<1>5. CounterRemove(t, id) \in Tables
  BY <1>1 DEF CounterRemove, Tables
<1>6. CounterIncrement(t, id, at) \in Tables
  BY DEF CounterIncrement, Tables, Entry
<1> QED
  BY <1>4, <1>5, <1>6

-----------------------------------------------------------------------------
(* The inductive invariant.  EventPending bounds the event by the expiry   *)
(* of every timer, which is what keeps the lateness bounded while the      *)
(* event lags behind the first timer.                                      *)
IInv == TimersOK /\ EventPending /\ BoundedLateness

(* Scheduling the first timer gives an event no later than any timer.      *)
LEMMA ScheduleFirst ==
  ASSUME NEW T, NEW t \in Nat,
         \A i \in DOMAIN T : T[i].expiry \in Nat /\ T[i].expiry <= t + MaxTimeout,
         Schedule(T)
  PROVE  /\ events' \in SUBSET Nat
         /\ \E d \in events' : /\ events' = {d}
                               /\ d <= t + MaxTimeout
                               /\ \A i \in DOMAIN T : d <= T[i].expiry + MaxTimeout
<1>1. PICK f \in DOMAIN T : IsFirst(T, f) /\ events' = {T[f].expiry}
  BY DEF Schedule
<1>2. \A i \in DOMAIN T : T[f].expiry <= T[i].expiry + MaxTimeout
  BY <1>1, TimeoutAssumption DEF IsFirst
<1> QED
  BY <1>1, <1>2

(* Removing timers keeps the others as they are.                           *)
LEMMA WithoutType ==
  ASSUME NEW T \in [DOMAIN m_timers -> TimerEntry], NEW S, DOMAIN T \subseteq Id
  PROVE  /\ DOMAIN Without(T, S) = DOMAIN T \ S
         /\ Without(T, S) \in [DOMAIN Without(T, S) -> TimerEntry]
         /\ DOMAIN Without(T, S) \subseteq Id
         /\ \A i \in DOMAIN Without(T, S) : Without(T, S)[i] = T[i]
  BY DEF Without

(* Removing packets keeps the types. *)
LEMMA RemoveAllType ==
  ASSUME m_counter \in Tables, NEW S
  PROVE  CounterRemoveAll(S) \in Tables
<1>1. \A i \in Id : CounterRemove(m_counter, i) \in Tables
  BY CounterTypes
<1>2. \A i \in Id : CounterRemove(m_counter, i)[i] \in Entry /\ m_counter[i] \in Entry
  BY <1>1 DEF Tables
<1> QED
  BY <1>2 DEF CounterRemoveAll, Tables

(* remove and fetch: the event stays or moves to the new first timer.      *)
LEMMA RemoveTimerStep ==
  ASSUME IInv, NEW id \in Id, RemoveTimer(id), now' = now, m_counter' \in Tables
  PROVE  IInv'
<1> DEFINE rest == Without(m_timers, {id})
<1>1. /\ DOMAIN rest = DOMAIN m_timers \ {id}
      /\ rest \in [DOMAIN rest -> TimerEntry]
      /\ DOMAIN rest \subseteq Id
      /\ \A i \in DOMAIN rest : rest[i] = m_timers[i]
  BY WithoutType DEF IInv, TimersOK
<1>2. m_timers' = rest
  BY DEF RemoveTimer
<1>3. \A i \in DOMAIN rest : rest[i].expiry \in Nat /\ rest[i].expiry <= now + MaxTimeout
  BY <1>1 DEF IInv, TimersOK, BoundedLateness, TimerEntry
<1>4. BoundedLateness'
  BY <1>1, <1>2 DEF IInv, BoundedLateness
<1>5. CASE Schedule(rest)
  <2>1. /\ events' \in SUBSET Nat
        /\ \E d \in events' : /\ events' = {d}
                              /\ d <= now + MaxTimeout
                              /\ \A i \in DOMAIN rest : d <= rest[i].expiry + MaxTimeout
    BY <1>3, <1>5, ScheduleFirst DEF IInv, TimersOK
  <2>2. EventPending'
    BY <2>1, <1>2 DEF EventPending
  <2> QED
    BY <2>1, <2>2, <1>1, <1>2, <1>4 DEF IInv, TimersOK
<1>6. CASE events' = events
  <2>1. EventPending'
    BY <1>6, <1>1, <1>2 DEF IInv, EventPending
  <2> QED
    BY <2>1, <1>1, <1>2, <1>4, <1>6 DEF IInv, TimersOK
<1> QED
  BY <1>5, <1>6 DEF RemoveTimer

(* add: the head drop only removes timers, and the added timer expires     *)
(* within one timeout, so an event that is not rescheduled still serves.   *)
LEMMA AddStep ==
  ASSUME IInv, NEW id \in Id, NEW lifetime \in Lifetimes, NEW timeout \in Timeouts,
         Add(id, lifetime, timeout)
  PROVE  IInv'
<1> DEFINE n       == HeadDrop(Length[id])
           dropped == {m_packets[k] : k \in 1 .. n}
           timers  == Without(m_timers, dropped)
           entry   == [expiry |-> now + timeout, start |-> now, lifetime |-> lifetime,
                       added |-> now, initial |-> lifetime, reductions |-> 0]
           isNew   == id \notin DOMAIN timers
           first   == isNew /\ \A i \in DOMAIN timers : entry.expiry < timers[i].expiry
           longer  == [i \in DOMAIN timers \cup {id} |-> IF i = id THEN entry ELSE timers[i]]
<1>1. /\ now \in Nat /\ now' = now
      /\ timeout \in Nat /\ 0 < timeout /\ timeout <= MaxTimeout /\ MaxTimeout \in Nat
  BY TimeoutAssumption DEF IInv, TimersOK, Add
<1>2. entry \in TimerEntry
  BY <1>1, LifetimesAssumption DEF TimerEntry
<1>3. /\ DOMAIN timers \subseteq DOMAIN m_timers
      /\ timers \in [DOMAIN timers -> TimerEntry]
      /\ DOMAIN timers \subseteq Id
      /\ \A i \in DOMAIN timers : timers[i] = m_timers[i]
  BY WithoutType, ZenonT(20) DEF IInv, TimersOK
<1>4. m_timers' = (IF isNew THEN longer ELSE timers)
  BY DEF Add
<1>5. m_counter' \in Tables
  <2>1. CounterRemoveAll(dropped) \in Tables
    BY RemoveAllType DEF IInv, TimersOK
  <2>2. CounterAdd(CounterRemoveAll(dropped), id, now) \in Tables
    BY <2>1, <1>1, CounterTypes
  <2> QED
    BY <2>1, <2>2 DEF Add
<1>6. /\ DOMAIN m_timers' \subseteq Id
      /\ m_timers' \in [DOMAIN m_timers' -> TimerEntry]
      /\ \A i \in DOMAIN m_timers' :
            \/ i \in DOMAIN m_timers /\ m_timers'[i] = m_timers[i]
            \/ m_timers'[i] = entry
  <2>1. CASE isNew
    <3>1. /\ DOMAIN longer = DOMAIN timers \cup {id}
          /\ \A i \in DOMAIN longer : longer[i] = IF i = id THEN entry ELSE timers[i]
      OBVIOUS
    <3> HIDE DEF entry, timers, longer
    <3>2. longer \in [DOMAIN longer -> TimerEntry]
      BY <1>2, <1>3, <3>1 DEF longer
    <3>3. \A i \in DOMAIN longer :
            \/ i \in DOMAIN m_timers /\ longer[i] = m_timers[i]
            \/ longer[i] = entry
      BY <1>3, <3>1
    <3> QED
      BY <2>1, <1>3, <1>4, <3>1, <3>2, <3>3
  <2>2. CASE ~isNew
    BY <2>2, <1>3, <1>4
  <2> QED
    BY <2>1, <2>2
<1>7. entry.expiry = now + timeout
  OBVIOUS
<1> HIDE DEF entry, timers, longer, dropped, n
<1>8. \A i \in DOMAIN m_timers' : /\ m_timers'[i].expiry \in Nat
                                 /\ m_timers'[i].expiry <= now + MaxTimeout
                                 /\ now < m_timers'[i].expiry + MaxTimeout
  BY <1>1, <1>6, <1>7 DEF IInv, TimersOK, BoundedLateness, TimerEntry
<1>9. BoundedLateness'
  BY <1>1, <1>8 DEF BoundedLateness
<1>10. CASE Schedule(m_timers')
  <2>1. /\ events' \in SUBSET Nat
        /\ \E d \in events' : /\ events' = {d}
                              /\ d <= now + MaxTimeout
                              /\ \A i \in DOMAIN m_timers' : d <= m_timers'[i].expiry + MaxTimeout
    BY <1>1, <1>8, <1>10, ScheduleFirst
  <2>2. EventPending'
    BY <2>1, <1>1 DEF EventPending
  <2> QED
    BY <2>1, <2>2, <1>1, <1>5, <1>6, <1>9 DEF IInv, TimersOK
<1>11. CASE DOMAIN m_timers # {} /\ events' = events
  <2>1. PICK d \in events : /\ events = {d}
                            /\ d <= now + MaxTimeout
                            /\ \A i \in DOMAIN m_timers : d <= m_timers[i].expiry + MaxTimeout
    BY <1>11 DEF IInv, EventPending
  <2>2. d \in Nat
    BY DEF IInv, TimersOK
  <2>3. \A i \in DOMAIN m_timers' : d <= m_timers'[i].expiry + MaxTimeout
    BY <2>1, <2>2, <1>1, <1>6, <1>7
  <2>4. EventPending'
    BY <2>1, <2>3, <1>1, <1>11 DEF EventPending
  <2> QED
    BY <2>4, <1>1, <1>5, <1>6, <1>9, <1>11 DEF IInv, TimersOK
<1>12. ScheduleAfterAdd(dropped, first)
  BY DEF Add, n, dropped, timers, entry
<1> QED
  BY <1>10, <1>11, <1>12 DEF ScheduleAfterAdd

(* update: the new timer expires within one timeout from now.              *)
LEMMA UpdateStep ==
  ASSUME IInv, NEW id \in Id, NEW timeout \in Timeouts, Update(id, timeout)
  PROVE  IInv'
<1> DEFINE entry == [ReduceLifetime(m_timers[id], now) EXCEPT !.expiry = now + timeout,
                                                              !.start  = now]
<1>1. /\ now \in Nat /\ now' = now /\ events' = events /\ id \in DOMAIN m_timers
      /\ timeout \in Nat /\ 0 < timeout /\ timeout <= MaxTimeout /\ MaxTimeout \in Nat
  BY TimeoutAssumption DEF IInv, TimersOK, Update
<1>2. ReduceLifetime(m_timers[id], now) \in TimerEntry
  BY <1>1, ReduceLifetimeType DEF IInv, TimersOK
<1>3. ASSUME NEW e \in TimerEntry, NEW x \in Nat, NEW y \in Nat
      PROVE  /\ [e EXCEPT !.expiry = x, !.start = y] \in TimerEntry
             /\ [e EXCEPT !.expiry = x, !.start = y].expiry = x
  BY DEF TimerEntry
<1>4. entry \in TimerEntry /\ entry.expiry = now + timeout
  <2>1. now + timeout \in Nat
    BY <1>1
  <2> QED
    BY <2>1, <1>1, <1>2, <1>3, Zenon
<1>5. m_timers' = [m_timers EXCEPT ![id] = entry]
  BY DEF Update, Restarted
<1> HIDE DEF entry
<1>6. /\ DOMAIN m_timers' = DOMAIN m_timers
      /\ m_timers' \in [DOMAIN m_timers -> TimerEntry]
      /\ m_timers'[id] = entry
      /\ \A i \in DOMAIN m_timers : i # id => m_timers'[i] = m_timers[i]
  BY <1>1, <1>4, <1>5 DEF IInv, TimersOK
<1>7. m_counter' \in Tables
  BY <1>1, CounterTypes DEF IInv, TimersOK, Update
<1>8. BoundedLateness'
  BY <1>1, <1>4, <1>6 DEF IInv, BoundedLateness
<1>9. EventPending'
  <2>1. PICK d \in events : /\ events = {d}
                            /\ d <= now + MaxTimeout
                            /\ \A i \in DOMAIN m_timers : d <= m_timers[i].expiry + MaxTimeout
    BY <1>1 DEF IInv, EventPending
  <2>2. d \in Nat
    BY DEF IInv, TimersOK
  <2>3. \A i \in DOMAIN m_timers : d <= m_timers'[i].expiry + MaxTimeout
    BY <2>1, <2>2, <1>1, <1>4, <1>6
  <2> QED
    BY <2>1, <2>3, <1>1, <1>6 DEF EventPending
<1> QED
  BY <1>1, <1>6, <1>7, <1>8, <1>9 DEF IInv, TimersOK

(* trigger: either nothing is due and the event is still ahead, or flush   *)
(* leaves only timers that expire later and schedules the first of them.   *)
LEMMA TriggerStep ==
  ASSUME IInv, NEW step \in Steps, Trigger(step)
  PROVE  IInv'
<1>1. /\ now \in Nat /\ step \in Nat /\ now' = now + step /\ now' \in Nat
      /\ MaxTimeout \in Nat
  BY StepsAssumption, TimeoutAssumption DEF IInv, TimersOK, Trigger
<1>2. CASE \E deadline \in events : deadline <= now + step
  <2> DEFINE due  == {i \in DOMAIN m_timers : m_timers[i].expiry <= now + step}
             rest == Without(m_timers, due)
  <2>1. Flush(now + step)
    BY <1>2 DEF Trigger
  <2>2. /\ DOMAIN rest = DOMAIN m_timers \ due
        /\ rest \in [DOMAIN rest -> TimerEntry]
        /\ DOMAIN rest \subseteq Id
        /\ \A i \in DOMAIN rest : rest[i] = m_timers[i]
    BY WithoutType DEF IInv, TimersOK
  <2>3. m_timers' = rest /\ m_counter' \in Tables
    BY <2>1, RemoveAllType DEF Flush, IInv, TimersOK
  <2>4. \A i \in DOMAIN rest : /\ rest[i].expiry \in Nat
                               /\ now' < rest[i].expiry
                               /\ rest[i].expiry <= now' + MaxTimeout
    BY <2>2, <1>1 DEF IInv, TimersOK, BoundedLateness, TimerEntry
  <2>5. BoundedLateness'
    BY <2>3, <2>4, <1>1 DEF BoundedLateness
  <2>6. CASE DOMAIN rest = {}
    BY <2>1, <2>2, <2>3, <2>5, <2>6, <1>1
       DEF Flush, ScheduleRest, IInv, TimersOK, EventPending
  <2>7. CASE DOMAIN rest # {}
    <3>1. Schedule(rest)
      BY <2>1, <2>7 DEF Flush, ScheduleRest
    <3> HIDE DEF rest
    <3>2. /\ events' \in SUBSET Nat
          /\ \E d \in events' : /\ events' = {d}
                                /\ d <= now' + MaxTimeout
                                /\ \A i \in DOMAIN rest : d <= rest[i].expiry + MaxTimeout
      BY <3>1, <2>4, <1>1, ScheduleFirst
    <3>3. EventPending'
      BY <3>2, <2>3 DEF EventPending
    <3> QED
      BY <3>2, <3>3, <2>2, <2>3, <2>5, <1>1 DEF IInv, TimersOK
  <2> QED
    BY <2>6, <2>7
<1>3. CASE ~ \E deadline \in events : deadline <= now + step
  <2>1. UNCHANGED <<m_timers, m_counter, events>>
    BY <1>3 DEF Trigger
  <2>2. CASE DOMAIN m_timers = {}
    BY <2>1, <2>2, <1>1 DEF IInv, TimersOK, EventPending, BoundedLateness
  <2>3. CASE DOMAIN m_timers # {}
    <3>1. PICK d \in events : /\ events = {d}
                              /\ d <= now + MaxTimeout
                              /\ \A i \in DOMAIN m_timers : d <= m_timers[i].expiry + MaxTimeout
      BY <2>3 DEF IInv, EventPending
    <3>2. d \in Nat /\ now' < d /\ \A i \in DOMAIN m_timers : m_timers[i].expiry \in Nat
      BY <1>1, <1>3 DEF IInv, TimersOK, TimerEntry
    <3>3. EventPending'
      BY <3>1, <3>2, <2>1, <1>1 DEF EventPending
    <3>4. BoundedLateness'
      BY <3>1, <3>2, <2>1, <1>1 DEF IInv, BoundedLateness
    <3> QED
      BY <3>3, <3>4, <2>1, <1>1 DEF IInv, TimersOK
  <2> QED
    BY <2>2, <2>3
<1> QED
  BY <1>2, <1>3

(* IInv holds initially and every step of the buffer preserves it.         *)
THEOREM Invariance == Spec => []IInv
<1>1. Init => IInv
  BY DEF Init, IInv, TimersOK, EventPending, BoundedLateness, EmptyTable, Tables, Entry, NoEntry
<1>2. IInv /\ [Next]_vars => IInv'
  <2> SUFFICES ASSUME IInv, [Next]_vars PROVE IInv'
    OBVIOUS
  <2>1. ASSUME NEW id \in Id, NEW lifetime \in Lifetimes, NEW timeout \in Timeouts,
               Add(id, lifetime, timeout)
        PROVE  IInv'
    BY <2>1, AddStep
  <2>2. ASSUME NEW id \in Id, RemovePacket(id) PROVE IInv'
    <3>1. m_counter' \in Tables
      BY <2>2, CounterTypes DEF RemovePacket, IInv, TimersOK
    <3> QED
      BY <3>1, <2>2, RemoveTimerStep DEF RemovePacket
  <2>3. ASSUME NEW id \in Id, NEW timeout \in Timeouts, Update(id, timeout) PROVE IInv'
    BY <2>3, UpdateStep
  <2>4. ASSUME NEW id \in Id, Fetch(id) PROVE IInv'
    <3>1. m_counter' \in Tables
      BY <2>4, CounterTypes DEF Fetch, IInv, TimersOK
    <3> QED
      BY <3>1, <2>4, RemoveTimerStep DEF Fetch
  <2>5. ASSUME NEW step \in Steps, Trigger(step) PROVE IInv'
    BY <2>5, TriggerStep
  <2>6. CASE UNCHANGED vars
    BY <2>6 DEF vars, IInv, TimersOK, EventPending, BoundedLateness
  <2> QED
    BY <2>1, <2>2, <2>3, <2>4, <2>5, <2>6 DEF Next
<1> QED
  BY <1>1, <1>2, PTL DEF Spec

(* While packets are buffered the wake-up of CbfPacketBuffer is never lost:*)
(* schedule_timer's event is pending.                                      *)
THEOREM WakeUpNeverLost == Spec => []EventPending
  BY Invariance, PTL DEF IInv

(* Neither update nor the dangling iterator of add can delay a packet by   *)
(* itsGnCbfMaxTime or more.                                                *)
THEOREM LatenessBounded == Spec => []BoundedLateness
  BY Invariance, PTL DEF IInv

-----------------------------------------------------------------------------
(* How far lifetimes drift *)

(* Errors of at most half a 50 ms unit for each of so many reductions *)
Drifts(lifetime, initial, waited, reductions) ==
    /\ Decode(lifetime) - (Decode(initial) - waited) <= 25 * reductions
    /\ (Decode(initial) - waited) - Decode(lifetime) <= 25 * reductions

(* An entry was added and started in the past.  If its lifetime has not    *)
(* run out it has drifted no further than its reductions explain; one that *)
(* has run out stays so, and the packet is not handed out.                 *)
EntryDrifts(entry, at) ==
    /\ entry.added <= entry.start /\ entry.start <= at
    /\ Decode(entry.initial) < 3150 =>
            /\ Decode(entry.lifetime) < 3150
            /\ \/ Decode(entry.lifetime) = 0
               \/ Drifts(entry.lifetime, entry.initial, entry.start - entry.added, entry.reductions)

(* If the packet of an entry is handed out, its lifetime has drifted no     *)
(* further.                                                                *)
LeavesDrifted(entry, at) ==
    Valid(entry, at) /\ Decode(entry.initial) < 3150 =>
        Drifts(ReduceLifetime(entry, at).lifetime, entry.initial, at - entry.added, entry.reductions + 1)

(* An entry whose lifetime was reduced and that waits anew *)
WaitsAnew(entry, at) == [ReduceLifetime(entry, at) EXCEPT !.start = at]

DriftInv == LifetimeDrift /\ \A i \in DOMAIN m_timers : EntryDrifts(m_timers[i], now)

(* One reduction of a lifetime below 3150 ms: nothing remains, or the      *)
(* error is at most 25 ms.                                                 *)
LEMMA ShortReduced ==
  ASSUME NEW f \in LifetimeField, NEW q \in Nat, Decode(f) < 3150
  PROVE  /\ Decode(Reduced(f, q)) \in Nat /\ Decode(Reduced(f, q)) < 3150
         /\ Remaining(f, q) > 0 => /\ Decode(f) # 0
                                   /\ Decode(Reduced(f, q)) - (Decode(f) - q) <= 25
                                   /\ (Decode(f) - q) - Decode(Reduced(f, q)) <= 25
         /\ ~(Remaining(f, q) > 0) => Decode(Reduced(f, q)) = 0
<1>1. Decode(f) \in Nat
  BY DecodeType
<1>2. Reduced(f, q) \in LifetimeField
  BY ReducedType
<1>3. Decode(Reduced(f, q)) \in Nat /\ Decode(Reduced(f, q)) <= Decode(f)
  BY <1>2, DecodeType, ReducedNotProlonged
<1>4. CASE q = 0
  <2>1. Reduced(f, q) = f /\ Remaining(f, q) = Decode(f)
    BY <1>4 DEF Reduced, Remaining
  <2> QED
    BY <1>1, <1>3, <1>4, <2>1
<1>5. CASE q # 0 /\ q < Decode(f)
  <2> DEFINE d == Decode(f) - q
  <2>1. Reduced(f, q) = Encode(d) /\ Remaining(f, q) = d
    BY <1>1, <1>5 DEF Reduced, Remaining
  <2>2. d \in Nat /\ d > 0 /\ d < 3150 /\ d <= Longest
    BY <1>1, <1>5 DEF Longest
  <2> HIDE DEF d
  <2>3. BaseFor(d) = "Fifty_Milliseconds"
    BY <2>2 DEF BaseFor
  <2>4. Unit(Encode(d).base) = 50
    BY <2>2, <2>3, EncodeNearest, UnitValues
  <2>5. 2 * (Decode(Encode(d)) - d) <= 50 /\ 2 * (d - Decode(Encode(d))) <= 50
    BY <2>2, <2>4, EncodeNearest
  <2>6. Decode(Encode(d)) \in Nat /\ Decode(Encode(d)) <= Decode(f)
    BY <1>3, <2>1
  <2>7. Decode(Encode(d)) - d <= 25 /\ d - Decode(Encode(d)) <= 25
    BY <2>2, <2>5, <2>6
  <2> QED
    BY <1>1, <1>3, <1>5, <2>1, <2>2, <2>7 DEF d
<1>6. CASE q # 0 /\ ~(q < Decode(f))
  <2>1. Reduced(f, q) = Zero /\ Remaining(f, q) = 0
    BY <1>1, <1>6 DEF Reduced, Remaining
  <2>2. Decode(Zero) = 0
    BY UnitValues DEF Decode, Zero
  <2> QED
    BY <1>1, <1>3, <2>1, <2>2
<1> QED
  BY <1>4, <1>5, <1>6

(* The lifetime of an entry is reduced once more, later. *)
LEMMA ReducedDrifts ==
  ASSUME NEW e \in TimerEntry, NEW t \in Nat, NEW at \in Nat, t <= at, EntryDrifts(e, t)
  PROVE  /\ EntryDrifts(WaitsAnew(e, at), at)
         /\ LeavesDrifted(e, at)
<1> DEFINE q == at - e.start
           f == e.lifetime
           r == Reduced(f, q)
<1>1. /\ e.start \in Nat /\ e.added \in Nat /\ e.reductions \in Nat /\ e.expiry \in Nat
      /\ f \in LifetimeField /\ e.initial \in LifetimeField
      /\ e.added <= e.start /\ e.start <= t
  BY DEF TimerEntry, EntryDrifts
<1>2. q \in Nat
  BY <1>1
<1>3. Decode(e.initial) \in Nat /\ Decode(f) \in Nat
  BY <1>1, DecodeType
<1>4. /\ ReduceLifetime(e, at).lifetime = r
      /\ [ReduceLifetime(e, at) EXCEPT !.start = at].lifetime = r
      /\ [ReduceLifetime(e, at) EXCEPT !.start = at].start = at
      /\ [ReduceLifetime(e, at) EXCEPT !.start = at].added = e.added
      /\ [ReduceLifetime(e, at) EXCEPT !.start = at].initial = e.initial
      /\ [ReduceLifetime(e, at) EXCEPT !.start = at].reductions = e.reductions + 1
  BY <1>1 DEF ReduceLifetime, TimerEntry, Queued
<1>5. Valid(e, at) <=> Remaining(f, q) > 0
  BY DEF Valid, Queued
<1> DEFINE new == [ReduceLifetime(e, at) EXCEPT !.start = at]
           later == ReduceLifetime(e, at)
           valid == Valid(e, at)
           remains == Remaining(f, q)
<1> HIDE DEF new, later, valid
<1>6. ASSUME Decode(e.initial) < 3150
      PROVE  /\ Decode(r) \in Nat /\ Decode(r) < 3150
             /\ remains > 0 => Drifts(r, e.initial, at - e.added, e.reductions + 1)
             /\ ~(remains > 0) => Decode(r) = 0
  <2>1. /\ Decode(f) < 3150
        /\ Decode(f) = 0 \/ Drifts(f, e.initial, e.start - e.added, e.reductions)
    BY <1>6 DEF EntryDrifts
  <2>2. /\ Decode(r) \in Nat /\ Decode(r) < 3150
        /\ remains > 0 => /\ Decode(f) # 0
                          /\ Decode(r) - (Decode(f) - q) <= 25
                          /\ (Decode(f) - q) - Decode(r) <= 25
        /\ ~(remains > 0) => Decode(r) = 0
    BY <1>1, <1>2, <2>1, ShortReduced
  <2> DEFINE dr == Decode(r)
             df == Decode(f)
             di == Decode(e.initial)
             red == e.reductions
             x == e.start - e.added
  <2>3. ASSUME remains > 0
        PROVE  Drifts(r, e.initial, at - e.added, e.reductions + 1)
    <3>1. /\ df - (di - x) <= 25 * red /\ (di - x) - df <= 25 * red
      BY <2>1, <2>2, <2>3 DEF Drifts
    <3>2. dr - (df - q) <= 25 /\ (df - q) - dr <= 25 /\ dr \in Nat /\ df \in Nat /\ di \in Nat
      BY <1>3, <2>2, <2>3
    <3>3. red \in Nat /\ x \in Int /\ at - e.added = x + q
      BY <1>1
    <3> HIDE DEF dr, df, di, red, x, q
    <3>4. dr - (di - (x + q)) <= 25 * (red + 1) /\ (di - (x + q)) - dr <= 25 * (red + 1)
      BY <1>2, <3>1, <3>2, <3>3
    <3> QED
      BY <3>3, <3>4 DEF Drifts, dr, di, red
  <2> QED
    BY <2>2, <2>3
<1> HIDE DEF r, remains, q, f
<1>7. new.added <= new.start /\ new.start <= at
  BY <1>1, <1>4 DEF new
<1>8. EntryDrifts(new, at)
  BY <1>4, <1>6, <1>7 DEF EntryDrifts, new
<1>9. valid /\ Decode(e.initial) < 3150 => Drifts(later.lifetime, e.initial, at - e.added, e.reductions + 1)
  BY <1>4, <1>5, <1>6 DEF later, valid, remains, f, q
<1> QED
  BY <1>8, <1>9 DEF LeavesDrifted, WaitsAnew, new, later, valid

(* A packet that is handed out has drifted no further than the reductions  *)
(* of its lifetime explain.                                                *)
LEMMA DeliveryDrifts ==
  ASSUME NEW i \in DOMAIN m_timers, m_timers[i] \in TimerEntry, now \in Nat,
         NEW at \in Nat, now <= at, EntryDrifts(m_timers[i], now), Valid(m_timers[i], at),
         NEW p, p = Delivery(i, at), Decode(p.initial) < 3150
  PROVE  Drifts(p.lifetime, p.initial, p.waited, p.reductions)
<1> DEFINE e == m_timers[i]
           r == ReduceLifetime(e, at)
<1>1. r.initial = e.initial /\ r.added = e.added /\ r.reductions = e.reductions + 1
  BY DEF ReduceLifetime, TimerEntry
<1>2. /\ p.initial = r.initial /\ p.lifetime = r.lifetime
      /\ p.waited = at - r.added /\ p.reductions = r.reductions
  BY DEF Delivery
<1>3. Decode(e.initial) < 3150
  BY <1>1, <1>2
<1>4. Drifts(r.lifetime, e.initial, at - e.added, e.reductions + 1)
  <2>1. LeavesDrifted(e, at)
    BY ReducedDrifts
  <2> QED
    BY <1>3, <2>1 DEF LeavesDrifted
<1> QED
  BY <1>1, <1>2, <1>4

(* Packets that are handed out together *)
LEMMA DeliveriesDrift ==
  ASSUME TimersOK, DriftInv, NEW at \in Nat, now <= at, NEW S, S \subseteq DOMAIN m_timers,
         out' = {Delivery(i, at) : i \in {j \in S : Valid(m_timers[j], at)}}
  PROVE  LifetimeDrift'
<1> SUFFICES ASSUME NEW p \in out', Decode(p.initial) < 3150
             PROVE  Drifts(p.lifetime, p.initial, p.waited, p.reductions)
  BY DEF LifetimeDrift, Drifts
<1>1. PICK i \in S : Valid(m_timers[i], at) /\ p = Delivery(i, at)
  OBVIOUS
<1> QED
  BY <1>1, DeliveryDrifts DEF TimersOK, DriftInv

(* An entry that is left alone is as good later. *)
LEMMA EntryKeeps ==
  ASSUME NEW e \in TimerEntry, NEW t \in Nat, NEW at \in Nat, t <= at, EntryDrifts(e, t)
  PROVE  EntryDrifts(e, at)
BY DEF EntryDrifts, TimerEntry

(* Timers that were there before, at a later time *)
LEMMA TimersKeep ==
  ASSUME TimersOK, DriftInv, NEW at \in Nat, now <= at, NEW T,
         DOMAIN T \subseteq DOMAIN m_timers, \A i \in DOMAIN T : T[i] = m_timers[i]
  PROVE  \A i \in DOMAIN T : EntryDrifts(T[i], at)
<1> SUFFICES ASSUME NEW i \in DOMAIN T PROVE EntryDrifts(m_timers[i], at)
  OBVIOUS
<1>1. m_timers[i] \in TimerEntry /\ EntryDrifts(m_timers[i], now) /\ now \in Nat
  BY DEF TimersOK, DriftInv
<1> QED
  BY <1>1, EntryKeeps

(* Each step leaves lifetimes within their drift. *)
LEMMA DriftStep == TimersOK /\ DriftInv /\ [Next]_vars => DriftInv'
<1> SUFFICES ASSUME TimersOK, DriftInv, [Next]_vars PROVE DriftInv'
  OBVIOUS
<1>1. now \in Nat /\ now <= now
  BY DEF TimersOK
<1>2. ASSUME NEW S, m_timers' = Without(m_timers, S), NEW at \in Nat, now <= at, now' = at
      PROVE  \A i \in DOMAIN m_timers' : EntryDrifts(m_timers'[i], now')
  <2> DEFINE rest == Without(m_timers, S)
  <2>1. DOMAIN rest \subseteq DOMAIN m_timers /\ \A i \in DOMAIN rest : rest[i] = m_timers[i]
    BY WithoutType DEF TimersOK
  <2> HIDE DEF rest
  <2>2. \A i \in DOMAIN rest : EntryDrifts(rest[i], at)
    BY <1>2, <2>1, TimersKeep
  <2> QED
    BY <1>2, <2>2 DEF rest
<1>3. ASSUME out' = {} PROVE LifetimeDrift'
  BY <1>3 DEF LifetimeDrift
<1>4. ASSUME NEW id \in Id, NEW lifetime \in Lifetimes, NEW timeout \in Timeouts,
             Add(id, lifetime, timeout)
      PROVE  DriftInv'
  <2> DEFINE dropped == {m_packets[k] : k \in 1 .. HeadDrop(Length[id])}
             timers  == Without(m_timers, dropped)
             entry   == [expiry |-> now + timeout, start |-> now, lifetime |-> lifetime,
                         added |-> now, initial |-> lifetime, reductions |-> 0]
             longer  == [i \in DOMAIN timers \cup {id} |-> IF i = id THEN entry ELSE timers[i]]
  <2>1. /\ out' = {} /\ now' = now
        /\ m_timers' = IF id \notin DOMAIN timers THEN longer ELSE timers
    BY <1>4 DEF Add
  <2>2. EntryDrifts(entry, now)
    <3>1. Decode(lifetime) \in Nat
      BY LifetimesAssumption, DecodeType
    <3>2. Drifts(lifetime, lifetime, now - now, 0)
      BY <1>1, <3>1 DEF Drifts
    <3> QED
      BY <1>1, <3>2 DEF EntryDrifts
  <2>3. DOMAIN timers \subseteq DOMAIN m_timers /\ \A i \in DOMAIN timers : timers[i] = m_timers[i]
    BY WithoutType, ZenonT(20) DEF TimersOK
  <2> HIDE DEF timers, entry
  <2>4. \A i \in DOMAIN timers : EntryDrifts(timers[i], now)
    BY <1>1, <2>3, TimersKeep
  <2>5. \A i \in DOMAIN longer : EntryDrifts(longer[i], now)
    BY <2>2, <2>4
  <2> HIDE DEF longer
  <2> QED
    BY <1>3, <2>1, <2>4, <2>5 DEF DriftInv
<1>5. ASSUME NEW id \in Id, RemovePacket(id) PROVE DriftInv'
  <2>1. m_timers' = Without(m_timers, {id}) /\ out' = {} /\ now' = now
    BY <1>5 DEF RemovePacket, RemoveTimer
  <2> QED
    BY <1>1, <1>2, <1>3, <2>1 DEF DriftInv
<1>6. ASSUME NEW id \in Id, NEW timeout \in Timeouts, Update(id, timeout) PROVE DriftInv'
  <2> DEFINE e == m_timers[id]
             r == ReduceLifetime(e, now)
             new == [r EXCEPT !.expiry = now + timeout, !.start = now]
             also == [r EXCEPT !.start = now]
  <2>1. /\ id \in DOMAIN m_timers /\ out' = {} /\ now' = now
        /\ m_timers' = [m_timers EXCEPT ![id] = new]
    BY <1>6 DEF Update, Restarted
  <2>2. e \in TimerEntry /\ EntryDrifts(e, now)
    BY <2>1 DEF TimersOK, DriftInv
  <2>3. EntryDrifts(also, now)
    <3>1. EntryDrifts(WaitsAnew(e, now), now)
      BY <1>1, <2>2, ReducedDrifts
    <3> QED
      BY <3>1 DEF WaitsAnew
  <2>4. r \in TimerEntry
    BY <1>1, <2>2, ReduceLifetimeType
  <2> HIDE DEF r
  <2>5. /\ new.added = also.added /\ new.start = also.start /\ new.initial = also.initial
        /\ new.lifetime = also.lifetime /\ new.reductions = also.reductions
    BY <2>4 DEF TimerEntry
  <2> HIDE DEF new, also
  <2>6. EntryDrifts(new, now)
    BY <2>3, <2>5 DEF EntryDrifts
  <2>7. \A i \in DOMAIN m_timers' : EntryDrifts(m_timers'[i], now')
    BY <2>1, <2>6 DEF DriftInv
  <2> QED
    BY <1>3, <2>1, <2>7 DEF DriftInv
<1>7. ASSUME NEW id \in Id, Fetch(id) PROVE DriftInv'
  <2>1. /\ m_timers' = Without(m_timers, {id}) /\ now' = now /\ id \in DOMAIN m_timers
        /\ out' = IF Valid(m_timers[id], now) THEN {Delivery(id, now)} ELSE {}
    BY <1>7 DEF Fetch, RemoveTimer
  <2>2. out' = {Delivery(i, now) : i \in {j \in {id} : Valid(m_timers[j], now)}}
    BY <2>1
  <2>3. LifetimeDrift'
    BY <1>1, <2>1, <2>2, DeliveriesDrift
  <2> QED
    BY <1>1, <1>2, <2>1, <2>3 DEF DriftInv
<1>8. ASSUME NEW step \in Steps, Trigger(step) PROVE DriftInv'
  <2>1. now + step \in Nat /\ now <= now + step /\ now' = now + step
    BY <1>1, <1>8, StepsAssumption DEF Trigger
  <2>2. CASE Flush(now + step)
    <3> DEFINE due == {i \in DOMAIN m_timers : m_timers[i].expiry <= now + step}
    <3>1. /\ out' = {Delivery(i, now + step) : i \in {j \in due : Valid(m_timers[j], now + step)}}
          /\ m_timers' = Without(m_timers, due)
      BY <2>2 DEF Flush
    <3>2. due \subseteq DOMAIN m_timers
      OBVIOUS
    <3> HIDE DEF due
    <3>3. LifetimeDrift'
      BY <2>1, <3>1, <3>2, DeliveriesDrift
    <3> QED
      BY <1>2, <2>1, <3>1, <3>3 DEF DriftInv
  <2>3. CASE out' = {} /\ m_timers' = m_timers
    BY <1>3, <2>1, <2>3, TimersKeep DEF DriftInv
  <2> QED
    BY <1>8, <2>2, <2>3 DEF Trigger
<1>9. CASE UNCHANGED vars
  BY <1>9 DEF vars, DriftInv, LifetimeDrift
<1> QED
  BY <1>4, <1>5, <1>6, <1>7, <1>8, <1>9 DEF Next

(* However often its timer was updated, a packet leaves the buffer with a  *)
(* lifetime that is off by at most half a unit for each time it was        *)
(* encoded (PendingPacket::reduce_lifetime, CbfPacketBuffer::update,       *)
(* fetch, flush): one whose lifetime ran out meanwhile does not leave.     *)
THEOREM DriftBounded == Spec => []LifetimeDrift
<1>1. Init => DriftInv
  BY DEF Init, DriftInv, LifetimeDrift
<1>2. Spec => []DriftInv
  BY <1>1, DriftStep, Invariance, PTL DEF Spec, IInv
<1> QED
  BY <1>2, PTL DEF DriftInv

-----------------------------------------------------------------------------
(* Bytes of sets of packets *)

(* The element the sum over a set starts with *)
Some(s) == CHOOSE x \in s : TRUE

(* f is the function that sums up lengths over the subsets of S. *)
IsSum(f, S) ==
    \A s \in SUBSET S : f[s] = IF s = {} THEN 0 ELSE Length[Some(s)] + f[s \ {Some(s)}]

Sums(S) ==
    CHOOSE f : f = [s \in SUBSET S |->
                        IF s = {} THEN 0 ELSE Length[Some(s)] + f[s \ {Some(s)}]]

(* The bytes of a set of packets are computed by recursion on its subsets. *)
LEMMA BytesUnfolded == \A S : Bytes(S) = Sums(S)[S]
BY DEF Bytes, MapThenSumSet, MapThenFoldSet, Sums, Some

(* The subsets with at most n elements *)
Small(S, n) == {s \in SUBSET S : Cardinality(s) <= n}

(* f sums up lengths over them. *)
SumsUpTo(f, S, n) ==
    /\ f \in [Small(S, n) -> Nat]
    /\ \A s \in Small(S, n) :
            f[s] = IF s = {} THEN 0 ELSE Length[Some(s)] + f[s \ {Some(s)}]

(* Taking an element out of a finite set *)
LEMMA SomeTaken ==
  ASSUME NEW S, IsFiniteSet(S), S \subseteq Id, NEW s \in SUBSET S, s # {}, NEW x \in s
  PROVE  /\ Some(s) \in s /\ Length[x] \in Nat
         /\ IsFiniteSet(s) /\ s \ {x} \in SUBSET S
         /\ Cardinality(s) \in Nat /\ Cardinality(s) > 0
         /\ Cardinality(s \ {x}) = Cardinality(s) - 1
<1>1. Some(s) \in s
  BY DEF Some
<1>2. IsFiniteSet(s)
  BY FS_Subset
<1>3. Cardinality(s) \in Nat /\ Cardinality(s) # 0
  BY <1>2, FS_CardinalityType, FS_EmptySet
<1>4. Cardinality(s \ {x}) = Cardinality(s) - 1
  BY <1>2, FS_RemoveElement
<1>5. Length[x] \in Nat
  BY LengthAssumption
<1> QED
  BY <1>1, <1>2, <1>3, <1>4, <1>5

(* Sums over the smaller subsets exist, whatever their size. *)
LEMMA SmallSums ==
  ASSUME NEW S, IsFiniteSet(S), S \subseteq Id, NEW c \in Nat
  PROVE  \E f : SumsUpTo(f, S, c)
<1> DEFINE G == {n \in 0 .. c : \E f : SumsUpTo(f, S, n)}
<1>1. 0 \in G
  <2> DEFINE f == [s \in Small(S, 0) |-> 0]
  <2>1. \A s \in Small(S, 0) : s = {}
    <3> SUFFICES ASSUME NEW s \in SUBSET S, Cardinality(s) <= 0, s # {} PROVE FALSE
      BY DEF Small
    <3>1. PICK x : x \in s
      OBVIOUS
    <3>2. Cardinality(s) \in Nat /\ Cardinality(s) > 0
      BY <3>1, SomeTaken
    <3> QED
      BY <3>2
  <2>2. SumsUpTo(f, S, 0)
    BY <2>1 DEF SumsUpTo
  <2> QED
    BY <2>2
<1>2. ASSUME NEW n \in 1 .. c, n - 1 \in G PROVE n \in G
  <2>1. PICK f : SumsUpTo(f, S, n - 1)
    BY <1>2
  <2> DEFINE g == [s \in Small(S, n) |->
                      IF s = {} THEN 0 ELSE Length[Some(s)] + f[s \ {Some(s)}]]
  <2>2. ASSUME NEW s \in Small(S, n), s # {}
        PROVE  /\ s \ {Some(s)} \in Small(S, n - 1) /\ s \ {Some(s)} \in Small(S, n)
               /\ Length[Some(s)] \in Nat
    <3>1. s \in SUBSET S /\ Cardinality(s) <= n
      BY DEF Small
    <3>2. Some(s) \in s
      BY <2>2 DEF Some
    <3>3. /\ Cardinality(s) \in Nat /\ Cardinality(s \ {Some(s)}) = Cardinality(s) - 1
          /\ s \ {Some(s)} \in SUBSET S /\ Length[Some(s)] \in Nat
      BY <2>2, <3>1, <3>2, SomeTaken
    <3> QED
      BY <3>1, <3>3 DEF Small
  <2>3. \A s \in Small(S, n - 1) : f[s] \in Nat /\
            f[s] = IF s = {} THEN 0 ELSE Length[Some(s)] + f[s \ {Some(s)}]
    BY <2>1 DEF SumsUpTo
  <2>4. \A s \in Small(S, n) : g[s] = IF s = {} THEN 0 ELSE Length[Some(s)] + f[s \ {Some(s)}]
    OBVIOUS
  <2>5. \A s \in Small(S, n - 1) : s \in Small(S, n)
    <3> SUFFICES ASSUME NEW s \in SUBSET S, Cardinality(s) <= n - 1 PROVE Cardinality(s) <= n
      BY DEF Small
    <3>1. IsFiniteSet(s)
      BY FS_Subset
    <3>2. Cardinality(s) \in Nat
      BY <3>1, FS_CardinalityType
    <3> QED
      BY <3>2
  <2>6. g \in [Small(S, n) -> Nat]
    <3>1. ASSUME NEW s \in Small(S, n) PROVE g[s] \in Nat
      <4>1. CASE s = {}
        BY <2>4, <4>1
      <4>2. CASE s # {}
        <5> DEFINE l == Length[Some(s)]
                   v == f[s \ {Some(s)}]
        <5>1. l \in Nat /\ v \in Nat /\ g[s] = l + v
          BY <2>2, <2>3, <2>4, <4>2
        <5> HIDE DEF l, v, g
        <5> QED
          BY <5>1
      <4> QED
        BY <4>1, <4>2
    <3> QED
      BY <3>1
  <2> HIDE DEF g
  <2>7. \A s \in Small(S, n - 1) : g[s] = f[s]
    BY <2>3, <2>4, <2>5
  <2>8. \A s \in Small(S, n) : g[s] = IF s = {} THEN 0 ELSE Length[Some(s)] + g[s \ {Some(s)}]
    BY <2>2, <2>4, <2>7
  <2>9. SumsUpTo(g, S, n)
    BY <2>6, <2>8 DEF SumsUpTo
  <2> QED
    BY <2>9
<1> HIDE DEF G
<1>3. c \in G
  BY <1>1, <1>2, Upwards
<1> QED
  BY <1>3 DEF G

(* There is only one sum: that over a subset does not depend on the set.   *)
LEMMA SumsAgree ==
  ASSUME NEW S, IsFiniteSet(S), S \subseteq Id, NEW T \in SUBSET S,
         NEW f, NEW g, IsSum(f, S), IsSum(g, T)
  PROVE  f[T] = g[T]
<1> DEFINE c == Cardinality(T)
           G == {n \in 0 .. c : \A s \in SUBSET T : Cardinality(s) = n => f[s] = g[s]}
<1>1. c \in Nat /\ IsFiniteSet(T) /\ T \subseteq Id
  BY FS_Subset, FS_CardinalityType
<1>2. 0 \in G
  <2>1. ASSUME NEW s \in SUBSET T, Cardinality(s) = 0 PROVE f[s] = g[s]
    <3>1. s = {}
      BY <1>1, <2>1, FS_Subset, FS_EmptySet
    <3> QED
      BY <3>1 DEF IsSum
  <2> QED
    BY <1>1, <2>1
<1>3. ASSUME NEW n \in 1 .. c, n - 1 \in G PROVE n \in G
  <2>1. ASSUME NEW s \in SUBSET T, Cardinality(s) = n PROVE f[s] = g[s]
    <3>1. s # {}
      BY <2>1, FS_EmptySet
    <3>2. Some(s) \in s
      BY <3>1 DEF Some
    <3>3. Cardinality(s \ {Some(s)}) = n - 1 /\ s \ {Some(s)} \in SUBSET T
      BY <1>1, <2>1, <3>1, <3>2, SomeTaken
    <3>4. f[s \ {Some(s)}] = g[s \ {Some(s)}]
      BY <1>3, <3>3
    <3>5. s \in SUBSET S
      OBVIOUS
    <3> QED
      BY <3>1, <3>4, <3>5 DEF IsSum
  <2> QED
    BY <1>1, <2>1
<1>4. \A k \in 0 .. c : k \in G
  <2> HIDE DEF G, c
  <2> QED
    BY <1>1, <1>2, <1>3, Upwards
<1> QED
  BY <1>1, <1>4

(* The sum over a finite set is defined. *)
LEMMA SumExists ==
  ASSUME NEW S, IsFiniteSet(S), S \subseteq Id
  PROVE  IsSum(Sums(S), S) /\ Sums(S)[S] \in Nat
<1>1. Cardinality(S) \in Nat
  BY FS_CardinalityType
<1>2. PICK f : SumsUpTo(f, S, Cardinality(S))
  BY <1>1, SmallSums
<1>3. Small(S, Cardinality(S)) = SUBSET S
  BY FS_Subset DEF Small
<1> DEFINE Body(g) == [s \in SUBSET S |->
                          IF s = {} THEN 0 ELSE Length[Some(s)] + g[s \ {Some(s)}]]
<1>4. f = Body(f) /\ f[S] \in Nat
  BY <1>2, <1>3 DEF SumsUpTo
<1>5. Sums(S) = Body(Sums(S))
  BY <1>4 DEF Sums
<1>6. IsSum(Sums(S), S)
  <2> DEFINE h == Sums(S)
  <2>1. h = Body(h)
    BY <1>5
  <2> HIDE DEF h
  <2>2. \A s \in SUBSET S : Body(h)[s] = IF s = {} THEN 0 ELSE Length[Some(s)] + h[s \ {Some(s)}]
    OBVIOUS
  <2>3. IsSum(h, S)
    BY <2>1, <2>2 DEF IsSum
  <2> QED
    BY <2>3 DEF h
<1>7. IsSum(f, S)
  BY <1>2, <1>3 DEF SumsUpTo, IsSum
<1>8. f[S] = Sums(S)[S]
  BY <1>6, <1>7, SumsAgree
<1> QED
  BY <1>4, <1>6, <1>8

(* Any element may be taken out of a sum. *)
LEMMA SumTakes ==
  ASSUME NEW S, IsFiniteSet(S), S \subseteq Id, NEW f \in [SUBSET S -> Int], IsSum(f, S),
         NEW y \in S
  PROVE  f[S] = Length[y] + f[S \ {y}]
<1> DEFINE c == Cardinality(S)
           G == {n \in 0 .. c : \A s \in SUBSET S : \A x \in s :
                    Cardinality(s) = n => f[s] = Length[x] + f[s \ {x}]}
<1>1. c \in Nat
  BY FS_CardinalityType
<1>2. 0 \in G
  <2>1. ASSUME NEW s \in SUBSET S, NEW x \in s, Cardinality(s) = 0 PROVE FALSE
    <3>1. Cardinality(s) \in Nat /\ Cardinality(s) > 0
      BY SomeTaken
    <3> QED
      BY <2>1, <3>1
  <2> QED
    BY <1>1, <2>1
<1>3. ASSUME NEW n \in 1 .. c, n - 1 \in G PROVE n \in G
  <2>1. ASSUME NEW s \in SUBSET S, NEW x \in s, Cardinality(s) = n
        PROVE  f[s] = Length[x] + f[s \ {x}]
    <3> DEFINE z == Some(s)
    <3>1. z \in s
      BY DEF Some
    <3> HIDE DEF z
    <3>2. f[s] = Length[z] + f[s \ {z}]
      BY DEF IsSum, z
    <3>3. CASE z = x
      BY <3>2, <3>3
    <3>4. CASE z # x
      <4>1. /\ Cardinality(s \ {z}) = n - 1 /\ s \ {z} \in SUBSET S /\ x \in s \ {z}
            /\ Cardinality(s \ {x}) = n - 1 /\ s \ {x} \in SUBSET S /\ z \in s \ {x}
            /\ Length[x] \in Nat /\ Length[z] \in Nat
        BY <2>1, <3>1, <3>4, SomeTaken
      <4>2. f[s \ {z}] = Length[x] + f[(s \ {z}) \ {x}]
        BY <1>3, <4>1
      <4>3. f[s \ {x}] = Length[z] + f[(s \ {x}) \ {z}]
        BY <1>3, <4>1
      <4>4. (s \ {z}) \ {x} = (s \ {x}) \ {z} /\ (s \ {x}) \ {z} \in SUBSET S
        BY <4>1
      <4> DEFINE a == f[(s \ {x}) \ {z}]
                 lx == Length[x]
                 lz == Length[z]
      <4>5. a \in Int /\ lx \in Int /\ lz \in Int
        BY <4>1, <4>4
      <4>6. f[s] = lz + (lx + a) /\ f[s \ {x}] = lz + a
        BY <3>2, <4>2, <4>3, <4>4
      <4> HIDE DEF a, lx, lz
      <4>7. f[s] = lx + f[s \ {x}]
        BY <4>5, <4>6
      <4> QED
        BY <4>7 DEF lx
    <3> QED
      BY <3>3, <3>4
  <2> QED
    BY <1>1, <2>1
<1>4. c \in G
  <2> HIDE DEF G, c
  <2> QED
    BY <1>1, <1>2, <1>3, Upwards
<1> QED
  BY <1>1, <1>4

(* The bytes of a finite set of packets *)
LEMMA BytesTaken ==
  ASSUME NEW S, IsFiniteSet(S), S \subseteq Id
  PROVE  /\ Bytes(S) \in Nat
         /\ S = {} => Bytes(S) = 0
         /\ \A x \in S : Bytes(S) = Length[x] + Bytes(S \ {x})
<1>1. IsSum(Sums(S), S) /\ Sums(S)[S] \in Nat /\ Bytes(S) = Sums(S)[S]
  BY SumExists, BytesUnfolded
<1>2. ASSUME NEW T \in SUBSET S
      PROVE  Sums(S)[T] = Bytes(T) /\ Bytes(T) \in Nat
  <2>1. IsFiniteSet(T) /\ T \subseteq Id
    BY FS_Subset
  <2>2. IsSum(Sums(T), T) /\ Sums(T)[T] \in Nat /\ Bytes(T) = Sums(T)[T]
    BY <2>1, SumExists, BytesUnfolded
  <2>3. Sums(S)[T] = Sums(T)[T]
    BY <1>1, <2>2, SumsAgree
  <2> QED
    BY <2>2, <2>3
<1>3. S = {} => Bytes(S) = 0
  BY <1>1 DEF IsSum
<1>4. ASSUME NEW x \in S PROVE Bytes(S) = Length[x] + Bytes(S \ {x})
  <2> DEFINE f == [T \in SUBSET S |-> Sums(S)[T]]
  <2>1. f \in [SUBSET S -> Int]
    BY <1>2
  <2>2. \A T \in SUBSET S : f[T] = Sums(S)[T]
    OBVIOUS
  <2> HIDE DEF f
  <2>3. IsSum(f, S)
    BY <1>1, <2>2 DEF IsSum
  <2>4. f[S] = Length[x] + f[S \ {x}]
    BY <2>1, <2>3, SumTakes
  <2>5. S \ {x} \in SUBSET S /\ S \in SUBSET S
    OBVIOUS
  <2>6. f[S] = Bytes(S) /\ f[S \ {x}] = Bytes(S \ {x})
    BY <1>2, <2>2, <2>5
  <2> QED
    BY <2>4, <2>6
<1> QED
  BY <1>1, <1>3, <1>4

(* The bytes of some packets and those of the others add up. *)
LEMMA BytesSplit ==
  ASSUME NEW S, IsFiniteSet(S), S \subseteq Id, NEW T \in SUBSET S
  PROVE  /\ Bytes(S) \in Nat /\ Bytes(T) \in Nat /\ Bytes(S \ T) \in Nat
         /\ Bytes(S) = Bytes(T) + Bytes(S \ T)
<1> DEFINE c == Cardinality(T)
           Splits(s) == Bytes(S) = Bytes(s) + Bytes(S \ s)
           G == {n \in 0 .. c : \A s \in SUBSET T : Cardinality(s) = n => Splits(s)}
<1>1. c \in Nat /\ IsFiniteSet(T)
  BY FS_Subset, FS_CardinalityType
<1>2. ASSUME NEW s \in SUBSET S
      PROVE  /\ IsFiniteSet(s) /\ s \subseteq Id /\ Bytes(s) \in Nat
             /\ s = {} => Bytes(s) = 0
             /\ \A x \in s : Bytes(s) = Length[x] + Bytes(s \ {x})
  <2>1. IsFiniteSet(s) /\ s \subseteq Id
    BY FS_Subset
  <2> QED
    BY <2>1, BytesTaken
<1>3. 0 \in G
  <2>1. ASSUME NEW s \in SUBSET T, Cardinality(s) = 0 PROVE Splits(s)
    <3>1. s = {} /\ S \ s = S
      BY <1>2, <2>1, FS_EmptySet
    <3>2. Bytes(s) = 0 /\ Bytes(S) \in Nat
      BY <1>2, <3>1
    <3> QED
      BY <3>1, <3>2
  <2> QED
    BY <1>1, <2>1
<1>4. ASSUME NEW n \in 1 .. c, n - 1 \in G PROVE n \in G
  <2>1. ASSUME NEW s \in SUBSET T, Cardinality(s) = n PROVE Splits(s)
    <3>1. s # {}
      BY <2>1, FS_EmptySet
    <3>2. PICK x : x \in s
      BY <3>1
    <3>3. Cardinality(s \ {x}) = n - 1 /\ s \ {x} \in SUBSET T /\ Length[x] \in Nat
      BY <1>1, <2>1, <3>1, <3>2, SomeTaken
    <3>4. Splits(s \ {x})
      BY <1>4, <3>3
    <3> DEFINE r == S \ (s \ {x})
    <3>5. x \in r /\ r \ {x} = S \ s /\ r \in SUBSET S
      BY <3>2
    <3> DEFINE a == Bytes(s \ {x})
               b == Bytes(S \ s)
               l == Length[x]
    <3>6. Bytes(r) = l + b /\ Bytes(s) = l + a
      BY <1>2, <3>2, <3>5
    <3>7. a \in Nat /\ b \in Nat /\ l \in Nat
      BY <1>2, <3>3
    <3>8. Bytes(S) = a + Bytes(r)
      BY <3>4
    <3> HIDE DEF a, b, l, r
    <3>9. Bytes(S) = Bytes(s) + b
      BY <3>6, <3>7, <3>8
    <3> QED
      BY <3>9 DEF b
  <2> QED
    BY <1>1, <2>1
<1>5. c \in G
  <2> HIDE DEF G, c
  <2> QED
    BY <1>1, <1>3, <1>4, Upwards
<1>6. Splits(T)
  BY <1>1, <1>5
<1> QED
  BY <1>2, <1>6

(* The bytes of a single packet *)
LEMMA BytesOne ==
  ASSUME NEW id \in Id
  PROVE  Bytes({id}) = Length[id] /\ Length[id] \in Nat
<1>1. IsFiniteSet({id}) /\ {id} \subseteq Id /\ IsFiniteSet({})
  BY FS_Singleton, FS_EmptySet
<1>2. Bytes({id}) = Length[id] + Bytes({id} \ {id}) /\ Bytes({}) = 0
  BY <1>1, BytesTaken
<1>3. {id} \ {id} = {} /\ Length[id] \in Nat
  BY LengthAssumption
<1> QED
  BY <1>2, <1>3

-----------------------------------------------------------------------------
(* The list of packets *)

(* The packets in a list *)
Listed(s) == {s[k] : k \in DOMAIN s}

(* A list without repetitions has as many elements as its length says. *)
LEMMA ListedCount ==
  ASSUME NEW s \in Seq(Id), Distinct(s)
  PROVE  /\ IsFiniteSet(Listed(s)) /\ Listed(s) \subseteq Id
         /\ Cardinality(Listed(s)) = Len(s) /\ Len(s) \in Nat
         /\ Listed(s) = {s[k] : k \in 1 .. Len(s)}
<1>1. Len(s) \in Nat /\ DOMAIN s = 1 .. Len(s)
  OBVIOUS
<1>2. Listed(s) = {s[k] : k \in 1 .. Len(s)} /\ Listed(s) \subseteq Id
  BY <1>1 DEF Listed
<1> DEFINE f == [k \in 1 .. Len(s) |-> s[k]]
<1>3. f \in Bijection(1 .. Len(s), Listed(s))
  BY <1>2 DEF Bijection, Injection, Surjection, IsInjective, Distinct
<1>4. ExistsBijection(1 .. Len(s), Listed(s))
  BY <1>3 DEF ExistsBijection
<1>5. IsFiniteSet(1 .. Len(s))
  BY <1>1, FS_Interval
<1>6. IsFiniteSet(Listed(s))
  BY <1>4, <1>5, FS_Bijection
<1>7. Cardinality(Listed(s)) = Len(s)
  BY <1>1, <1>4, FS_CountingElements
<1> QED
  BY <1>1, <1>2, <1>6, <1>7

(* Packets are taken out of the list wherever they are. *)
LEMMA ListedKept ==
  ASSUME NEW s \in Seq(Id), Distinct(s), NEW T
  PROVE  /\ Kept(s, Id \ T) \in Seq(Id) /\ Distinct(Kept(s, Id \ T))
         /\ Listed(Kept(s, Id \ T)) = Listed(s) \ T
<1> DEFINE t == Kept(s, Id \ T)
<1>1. t \in Seq(Id) /\ Thins(t, s) /\ HasAllOf(t, s, Id \ T)
  BY KeptThins
<1> HIDE DEF t
<1>2. PICK g \in [1 .. Len(t) -> 1 .. Len(s)] :
        /\ \A j \in 1 .. Len(t) : t[j] = s[g[j]]
        /\ \A i, j \in 1 .. Len(t) : g[i] = g[j] => i = j
  BY <1>1 DEF Thins
<1>3. Distinct(t)
  BY <1>2, SMTT(20) DEF Distinct
<1>4. Listed(s) = {s[k] : k \in 1 .. Len(s)} /\ Listed(t) = {t[k] : k \in 1 .. Len(t)}
  BY <1>1, <1>3, ListedCount
<1>5. Listed(t) = Listed(s) \ T
  <2>1. ASSUME NEW j \in 1 .. Len(t) PROVE t[j] \in Listed(s) \ T
    BY <1>1, <1>2, <1>4 DEF HasAllOf
  <2>2. ASSUME NEW i \in 1 .. Len(s), s[i] \notin T PROVE \E j \in 1 .. Len(t) : s[i] = t[j]
    <3>1. s[i] \in Id \ T
      BY <2>2
    <3> QED
      BY <1>1, <3>1 DEF HasAllOf
  <2> QED
    BY <1>4, <2>1, <2>2
<1> QED
  BY <1>1, <1>3, <1>5 DEF t

(* The n oldest packets are taken off the list. *)
LEMMA ListedSuffix ==
  ASSUME NEW s \in Seq(Id), Distinct(s), NEW n \in 0 .. Len(s),
         NEW D, D = {s[k] : k \in 1 .. n}
  PROVE  /\ SubSeq(s, n + 1, Len(s)) \in Seq(Id) /\ Distinct(SubSeq(s, n + 1, Len(s)))
         /\ Len(SubSeq(s, n + 1, Len(s))) = Len(s) - n
         /\ Listed(SubSeq(s, n + 1, Len(s))) = Listed(s) \ D
         /\ D \subseteq Listed(s)
<1> DEFINE t == SubSeq(s, n + 1, Len(s))
<1>1. /\ t \in Seq(Id) /\ Len(t) = Len(s) - n /\ Len(s) \in Nat
      /\ \A j \in 1 .. (Len(s) - n) : t[j] = s[n + j]
  BY SuffixThins
<1> HIDE DEF t
<1>2. Distinct(t)
  <2> SUFFICES ASSUME NEW i \in 1 .. Len(t), NEW j \in 1 .. Len(t), t[i] = t[j] PROVE i = j
    BY DEF Distinct
  <2>1. n + i \in 1 .. Len(s) /\ n + j \in 1 .. Len(s) /\ s[n + i] = s[n + j]
    BY <1>1
  <2>2. n + i = n + j
    BY <2>1 DEF Distinct
  <2> QED
    BY <2>2
<1>3. Listed(s) = {s[k] : k \in 1 .. Len(s)} /\ Listed(t) = {t[k] : k \in 1 .. Len(t)}
  BY <1>1, <1>2, ListedCount
<1>4. ASSUME NEW j \in 1 .. Len(t) PROVE t[j] \in Listed(s) \ D
  <2>1. n + j \in 1 .. Len(s) /\ t[j] = s[n + j]
    BY <1>1
  <2>2. ASSUME NEW k \in 1 .. n, s[k] = s[n + j] PROVE FALSE
    <3>1. k \in 1 .. Len(s) /\ k # n + j
      BY <1>1
    <3> QED
      BY <2>1, <2>2, <3>1 DEF Distinct
  <2> QED
    BY <1>3, <2>1, <2>2
<1>5. ASSUME NEW i \in 1 .. Len(s), s[i] \notin D PROVE \E j \in 1 .. Len(t) : s[i] = t[j]
  <2>1. i \notin 1 .. n
    BY <1>5
  <2>2. i - n \in 1 .. Len(t) /\ t[i - n] = s[n + (i - n)] /\ n + (i - n) = i
    BY <1>1, <2>1
  <2> QED
    BY <2>2
<1>6. Listed(t) = Listed(s) \ D
  BY <1>3, <1>4, <1>5
<1>7. D \subseteq Listed(s)
  BY <1>1, <1>3
<1> QED
  BY <1>1, <1>2, <1>6, <1>7 DEF t

(* s lists the packets with a timer, each of them once, and they have b    *)
(* bytes.                                                                  *)
ListOK(s, D, b) ==
    /\ s \in Seq(Id) /\ Distinct(s)
    /\ Listed(s) = D
    /\ b = Bytes(D)
    /\ b > Capacity => Len(s) = 1

ListInv == ListOK(m_packets, DOMAIN m_timers, m_stored_bytes)

(* remove, fetch and flush: packets leave the list, the timers and the     *)
(* byte count together.                                                    *)
LEMMA ListLeaves ==
  ASSUME NEW s, NEW D, NEW b, ListOK(s, D, b), NEW T \in SUBSET D
  PROVE  ListOK(Kept(s, Id \ T), D \ T, b - Bytes(T))
<1> DEFINE t == Kept(s, Id \ T)
<1>1. s \in Seq(Id) /\ Distinct(s) /\ Listed(s) = D /\ b = Bytes(D)
  BY DEF ListOK
<1>2. t \in Seq(Id) /\ Distinct(t) /\ Listed(t) = D \ T
  BY <1>1, ListedKept
<1> HIDE DEF t
<1>3. IsFiniteSet(D) /\ D \subseteq Id /\ Cardinality(D) = Len(s) /\ Len(s) \in Nat
  BY <1>1, ListedCount
<1>4. Cardinality(D \ T) = Len(t) /\ Len(t) \in Nat /\ IsFiniteSet(D \ T) /\ D \ T \subseteq Id
  BY <1>2, ListedCount
<1>5. /\ Bytes(D) \in Nat /\ Bytes(T) \in Nat /\ Bytes(D \ T) \in Nat
      /\ Bytes(D) = Bytes(T) + Bytes(D \ T)
  BY <1>3, BytesSplit
<1>6. b - Bytes(T) = Bytes(D \ T)
  BY <1>1, <1>5
<1>7. ASSUME Bytes(D \ T) > Capacity PROVE Len(t) = 1
  <2>1. Bytes(D) > Capacity
    BY <1>5, <1>7, CapacityAssumption
  <2>2. Len(s) = 1
    BY <1>1, <2>1 DEF ListOK
  <2>3. Len(t) <= 1
    BY <1>3, <1>4, <2>2, FS_Subset
  <2>4. D \ T # {}
    <3>1. D \ T = {} => Bytes(D \ T) = 0
      BY <1>4, BytesTaken
    <3> QED
      BY <1>7, <3>1, CapacityAssumption
  <2>5. Len(t) # 0
    BY <1>4, <2>4, FS_EmptySet
  <2> QED
    BY <1>4, <2>3, <2>5
<1>8. ListOK(t, D \ T, b - Bytes(T))
  BY <1>2, <1>6, <1>7 DEF ListOK
<1> QED
  BY <1>8 DEF t

(* The head drop of add finds a number of packets to remove: as many as it *)
(* takes to make the added one fit, unless none is left.                   *)
LEMMA HeadDrops ==
  ASSUME ListInv, NEW length \in Nat
  PROVE  /\ HeadDrop(length) \in 0 .. Len(m_packets)
         /\ \/ HeadDrop(length) = Len(m_packets)
            \/ m_stored_bytes + length - Bytes({m_packets[k] : k \in 1 .. HeadDrop(length)}) <= Capacity
<1> DEFINE Fits(n) ==
              m_stored_bytes + length - Bytes({m_packets[k] : k \in 1 .. n}) <= Capacity
           N == {n \in 0 .. Len(m_packets) : n = Len(m_packets) \/ Fits(n)}
           Good(n) == /\ n = Len(m_packets) \/ Fits(n)
                      /\ \A m \in 0 .. (n - 1) : ~Fits(m)
<1>1. Len(m_packets) \in Nat
  BY DEF ListInv, ListOK
<1>2. HeadDrop(length) = CHOOSE n \in 0 .. Len(m_packets) : Good(n)
  BY DEF HeadDrop
<1>3. \E n \in 0 .. Len(m_packets) : Good(n)
  <2> HIDE DEF Fits
  <2>1. N \subseteq Nat /\ Len(m_packets) \in N
    BY <1>1
  <2>2. N # {}
    BY <2>1
  <2>3. PICK n \in N : \A m \in N : n <= m
    <3> HIDE DEF N
    <3> QED
      BY <2>1, <2>2, Least
  <2>4. \A m \in 0 .. (n - 1) : ~Fits(m)
    <3> SUFFICES ASSUME NEW m \in 0 .. (n - 1), Fits(m) PROVE FALSE
      OBVIOUS
    <3>1. m \in 0 .. Len(m_packets) /\ m < n
      BY <1>1
    <3> QED
      BY <1>1, <2>3, <3>1
  <2> QED
    BY <2>3, <2>4
<1>4. HeadDrop(length) \in 0 .. Len(m_packets) /\ Good(HeadDrop(length))
  <2> HIDE DEF Good
  <2> QED
    BY <1>2, <1>3
<1> QED
  BY <1>4

(* add *)
LEMMA ListAdds ==
  ASSUME ListInv, NEW id \in Id, NEW lifetime, NEW timeout, Add(id, lifetime, timeout)
  PROVE  ListInv'
<1> DEFINE n       == HeadDrop(Length[id])
           dropped == {m_packets[k] : k \in 1 .. n}
           kept    == SubSeq(m_packets, n + 1, Len(m_packets))
           timers  == Without(m_timers, dropped)
           D       == DOMAIN m_timers
           R       == D \ dropped
           isNew   == id \notin DOMAIN timers
<1>1. DOMAIN timers = R
  BY DEF Without
<1>2. IF id \notin R
      THEN /\ DOMAIN m_timers' = R \cup {id} /\ m_packets' = Append(kept, id)
           /\ m_stored_bytes' = m_stored_bytes - Bytes(dropped) + Length[id]
      ELSE /\ DOMAIN m_timers' = R /\ m_packets' = kept
           /\ m_stored_bytes' = m_stored_bytes - Bytes(dropped) + 0
  BY <1>1 DEF Add, StoredAfterAdd
<1>3. m_packets \in Seq(Id) /\ Distinct(m_packets) /\ Listed(m_packets) = D /\ m_stored_bytes = Bytes(D)
  BY DEF ListInv, ListOK
<1>4. Length[id] \in Nat
  BY LengthAssumption
<1>5. /\ n \in 0 .. Len(m_packets)
      /\ n = Len(m_packets) \/ m_stored_bytes + Length[id] - Bytes(dropped) <= Capacity
  BY <1>4, HeadDrops
<1> HIDE DEF n
<1>6. /\ kept \in Seq(Id) /\ Distinct(kept) /\ Len(kept) = Len(m_packets) - n
      /\ Listed(kept) = R /\ dropped \in SUBSET D
  <2>1. dropped = {m_packets[k] : k \in 1 .. n}
    OBVIOUS
  <2> HIDE DEF dropped, D
  <2> QED
    BY <1>3, <1>5, <2>1, ListedSuffix
<1> HIDE DEF dropped, kept, D, timers
<1>7. IsFiniteSet(D) /\ D \subseteq Id /\ Len(m_packets) \in Nat
  BY <1>3, ListedCount
<1>8. /\ Bytes(D) \in Nat /\ Bytes(dropped) \in Nat /\ Bytes(R) \in Nat
      /\ Bytes(D) = Bytes(dropped) + Bytes(R)
  BY <1>6, <1>7, BytesSplit
<1>9. IsFiniteSet(R) /\ R \subseteq Id /\ Cardinality(R) = Len(kept) /\ Len(kept) \in Nat
  BY <1>6, ListedCount
<1>10. n = Len(m_packets) => R = {}
  BY <1>6, <1>7, <1>9, FS_EmptySet
<1> HIDE DEF R
<1>11. CASE id \notin R
  <2> DEFINE t == Append(kept, id)
  <2>1. /\ t \in Seq(Id) /\ Len(t) = Len(kept) + 1
        /\ DOMAIN kept = 1 .. Len(kept) /\ DOMAIN t = 1 .. (Len(kept) + 1)
        /\ t[Len(kept) + 1] = id
        /\ \A k \in DOMAIN kept : k \in DOMAIN t /\ t[k] = kept[k]
        /\ \A k \in DOMAIN t : k = Len(kept) + 1 \/ k \in DOMAIN kept
    BY <1>6, Appended
  <2> HIDE DEF t
  <2>2. \A k \in 1 .. Len(kept) : kept[k] \in R
    BY <1>6, <2>1 DEF Listed
  <2>3. Distinct(t)
    <3> SUFFICES ASSUME NEW i \in DOMAIN t, NEW j \in DOMAIN t, t[i] = t[j] PROVE i = j
      BY <2>1 DEF Distinct
    <3>1. CASE i \in DOMAIN kept /\ j \in DOMAIN kept
      BY <1>6, <2>1, <3>1 DEF Distinct
    <3> QED
      BY <1>11, <2>1, <2>2, <3>1
  <2>4. Listed(t) = R \cup {id}
    <3>1. \A k \in DOMAIN t : t[k] \in R \cup {id}
      BY <2>1, <2>2
    <3>2. \A i \in R : \E k \in DOMAIN t : t[k] = i
      BY <1>6, <2>1 DEF Listed
    <3>3. Len(kept) + 1 \in DOMAIN t
      BY <1>9, <2>1
    <3> QED
      BY <2>1, <3>1, <3>2, <3>3 DEF Listed
  <2>5. Bytes(R \cup {id}) = Length[id] + Bytes(R)
    <3>1. IsFiniteSet(R \cup {id}) /\ R \cup {id} \subseteq Id /\ (R \cup {id}) \ {id} = R
      BY <1>9, <1>11, FS_AddElement
    <3> QED
      BY <3>1, BytesTaken
  <2>6. m_stored_bytes' = Bytes(R \cup {id})
    BY <1>2, <1>3, <1>4, <1>8, <1>11, <2>5
  <2>7. m_stored_bytes' > Capacity => Len(t) = 1
    BY <1>2, <1>3, <1>4, <1>5, <1>6, <1>7, <1>8, <1>11, <2>1, CapacityAssumption, SMTT(20)
  <2> QED
    BY <1>2, <1>11, <2>1, <2>3, <2>4, <2>6, <2>7 DEF ListInv, ListOK, t
<1>12. CASE id \in R
  <2>1. m_stored_bytes' = Bytes(R)
    BY <1>2, <1>3, <1>8, <1>12
  <2>2. m_stored_bytes' <= Capacity
    BY <1>2, <1>3, <1>4, <1>5, <1>8, <1>10, <1>12, CapacityAssumption
  <2>3. ~(m_stored_bytes' > Capacity)
    BY <1>8, <2>1, <2>2, CapacityAssumption
  <2> QED
    BY <1>2, <1>6, <1>12, <2>1, <2>3 DEF ListInv, ListOK
<1> QED
  BY <1>11, <1>12

(* Every step keeps the list in order. *)
LEMMA ListStep == ListInv /\ [Next]_vars => ListInv'
<1> SUFFICES ASSUME ListInv, [Next]_vars PROVE ListInv'
  OBVIOUS
<1>1. ASSUME NEW id \in Id, NEW lifetime \in Lifetimes, NEW timeout \in Timeouts,
             Add(id, lifetime, timeout)
      PROVE  ListInv'
  BY <1>1, ListAdds
<1>2. ASSUME NEW id \in Id, id \in DOMAIN m_timers,
             m_stored_bytes' = m_stored_bytes - Length[id],
             m_packets' = Kept(m_packets, Id \ {id}),
             RemoveTimer(id)
      PROVE  ListInv'
  <2>1. DOMAIN m_timers' = DOMAIN m_timers \ {id}
    BY <1>2 DEF RemoveTimer, Without
  <2>2. m_stored_bytes' = m_stored_bytes - Bytes({id})
    BY <1>2, BytesOne
  <2>3. ListOK(Kept(m_packets, Id \ {id}), DOMAIN m_timers \ {id}, m_stored_bytes - Bytes({id}))
    <3>1. {id} \in SUBSET DOMAIN m_timers
      BY <1>2
    <3> QED
      BY <3>1, ListLeaves DEF ListInv
  <2> QED
    BY <1>2, <2>1, <2>2, <2>3 DEF ListInv
<1>3. ASSUME NEW id \in Id, RemovePacket(id) PROVE ListInv'
  BY <1>2, <1>3 DEF RemovePacket
<1>4. ASSUME NEW id \in Id, NEW timeout \in Timeouts, Update(id, timeout) PROVE ListInv'
  <2>1. DOMAIN m_timers' = DOMAIN m_timers /\ UNCHANGED <<m_packets, m_stored_bytes>>
    BY <1>4 DEF Update, Restarted
  <2> QED
    BY <2>1 DEF ListInv, ListOK
<1>5. ASSUME NEW id \in Id, Fetch(id) PROVE ListInv'
  BY <1>2, <1>5 DEF Fetch
<1>6. ASSUME NEW step \in Steps, Trigger(step) PROVE ListInv'
  <2>1. CASE Flush(now + step)
    <3> DEFINE due == {i \in DOMAIN m_timers : m_timers[i].expiry <= now + step}
    <3>1. /\ DOMAIN m_timers' = DOMAIN m_timers \ due
          /\ m_stored_bytes' = m_stored_bytes - Bytes(due)
          /\ m_packets' = Kept(m_packets, Id \ due)
      BY <2>1 DEF Flush, Without
    <3>2. due \in SUBSET DOMAIN m_timers
      OBVIOUS
    <3> HIDE DEF due
    <3>3. ListOK(Kept(m_packets, Id \ due), DOMAIN m_timers \ due, m_stored_bytes - Bytes(due))
      BY <3>2, ListLeaves DEF ListInv
    <3> QED
      BY <3>1, <3>3 DEF ListInv
  <2>2. CASE UNCHANGED <<m_packets, m_timers, m_stored_bytes>>
    BY <2>2 DEF ListInv, ListOK
  <2> QED
    BY <1>6, <2>1, <2>2 DEF Trigger
<1>7. CASE UNCHANGED vars
  BY <1>7 DEF vars, ListInv, ListOK
<1> QED
  BY <1>1, <1>3, <1>4, <1>5, <1>6, <1>7 DEF Next

(* The list is empty at first. *)
LEMMA ListInit == Init => ListInv
<1> SUFFICES ASSUME Init PROVE ListInv
  OBVIOUS
<1>1. m_packets = <<>> /\ DOMAIN m_timers = {} /\ m_stored_bytes = 0
  BY DEF Init
<1>2. Bytes({}) = 0
  BY FS_EmptySet, BytesTaken
<1>3. Listed(<<>>) = {} /\ Distinct(<<>>) /\ <<>> \in Seq(Id) /\ ~(0 > Capacity)
  BY CapacityAssumption DEF Listed, Distinct
<1> QED
  BY <1>1, <1>2, <1>3 DEF ListInv, ListOK

(* IInv and ListInv imply everything Consistent says. *)
LEMMA ListConsistent == TimersOK /\ ListInv => Consistent
<1> SUFFICES ASSUME TimersOK, ListInv PROVE Consistent
  OBVIOUS
<1>1. /\ m_packets \in Seq(Id) /\ Distinct(m_packets) /\ Listed(m_packets) = DOMAIN m_timers
      /\ m_stored_bytes = Bytes(DOMAIN m_timers)
      /\ m_stored_bytes > Capacity => Len(m_packets) = 1
  BY DEF ListInv, ListOK
<1>2. /\ IsFiniteSet(DOMAIN m_timers) /\ DOMAIN m_timers \subseteq Id
      /\ Cardinality(DOMAIN m_timers) = Len(m_packets)
  BY <1>1, ListedCount
<1>3. m_stored_bytes \in Nat
  BY <1>1, <1>2, BytesTaken
<1> QED
  BY <1>1, <1>2, <1>3 DEF Consistent, TypeOK, Listed

(* The list, the timers and m_stored_bytes always describe the same        *)
(* packets, and m_stored_bytes never falls below zero.                     *)
THEOREM ListInvariance == Spec => []ListInv
  BY ListInit, ListStep, PTL DEF Spec

(* The list of packets, the timers and m_stored_bytes of CbfPacketBuffer   *)
(* never disagree, for any number of packets of any lengths and any        *)
(* capacity, and only a single packet may exceed the capacity.             *)
THEOREM AlwaysConsistent == Spec => []Consistent
  BY Invariance, ListInvariance, ListConsistent, PTL DEF IInv

-----------------------------------------------------------------------------
(* What the buffer promises, with contending counters *)

(* The refinement mapping: copies heard, and packets handed out *)
Heard == [i \in Id |-> CounterValue(m_counter, i, now)]

HandedOut == {p.id : p \in out}

(* Packets that are not buffered have no counter. *)
CounterInv == \A i \in Id \ DOMAIN m_timers : m_counter[i].value = 0

(* The values of the counters left after some were removed *)
ValuesWithout(table, T) ==
    \A i \in Id : table[i].value = IF i \in T THEN 0 ELSE m_counter[i].value

(* CbfCounterContending::counter does not depend on time. *)
LEMMA HeardValue ==
  ASSUME CounterKind = "contending"
  PROVE  \A table, i, at : CounterValue(table, i, at) = table[i].value
BY DEF CounterValue, Expired

(* CbfCounterContending::remove forgets the counters of some packets. *)
LEMMA RemovedValues ==
  ASSUME CounterKind = "contending", m_counter \in Tables
  PROVE  /\ \A T \in SUBSET Id : ValuesWithout(CounterRemoveAll(T), T)
         /\ \A id \in Id : ValuesWithout(CounterRemove(m_counter, id), {id})
<1>1. ASSUME NEW id \in Id, NEW i \in Id
      PROVE  CounterRemove(m_counter, id)[i] = IF i = id THEN NoEntry ELSE m_counter[i]
  BY DEF CounterRemove, Tables
<1>2. NoEntry.value = 0
  BY DEF NoEntry
<1>3. ASSUME NEW id \in Id PROVE ValuesWithout(CounterRemove(m_counter, id), {id})
  BY <1>1, <1>2 DEF ValuesWithout
<1>4. ASSUME NEW T \in SUBSET Id PROVE ValuesWithout(CounterRemoveAll(T), T)
  <2> SUFFICES ASSUME NEW i \in Id
               PROVE  CounterRemoveAll(T)[i].value = IF i \in T THEN 0 ELSE m_counter[i].value
    BY DEF ValuesWithout
  <2>1. CounterRemoveAll(T)[i]
            = IF i \in T THEN CounterRemove(m_counter, i)[i] ELSE m_counter[i]
    BY DEF CounterRemoveAll
  <2> QED
    BY <1>1, <1>2, <2>1
<1> QED
  BY <1>3, <1>4

(* Removing no packet leaves the list as it is. *)
LEMMA KeptEverything ==
  ASSUME NEW s \in Seq(Id)
  PROVE  Kept(s, Id \ {}) = s
<1> DEFINE g == [i \in 1 .. Len(s) |-> i]
<1>1. /\ Len(s) \in Nat
      /\ \A i \in 1 .. Len(s) : s[i] \in Id \ {}
  OBVIOUS
<1>2. Picks(g, s, s, Len(s), Id \ {})
  BY <1>1 DEF Picks
<1> QED
  BY <1>2, PicksKept

(* Packets that leave together with their counters are a step Leave of the *)
(* abstract buffer.                                                        *)
LEMMA Leaves ==
  ASSUME CounterKind = "contending", ListInv, CounterInv, NEW T \in SUBSET DOMAIN m_timers,
         m_packets' = Kept(m_packets, Id \ T), ValuesWithout(m_counter', T),
         DOMAIN m_timers' = DOMAIN m_timers \ T, HandedOut' \subseteq T
  PROVE  Abstract!Next /\ CounterInv'
<1>1. m_packets \in Seq(Id) /\ Listed(m_packets) = DOMAIN m_timers
  BY DEF ListInv, ListOK
<1>2. Heard' = [i \in Id |-> IF i \in T THEN 0 ELSE Heard[i]]
  BY HeardValue DEF Heard, ValuesWithout
<1>3. Abstract!Kept(m_packets, Id \ T) = Kept(m_packets, Id \ T)
  BY DEF Abstract!Kept, Kept
<1>4. Abstract!Leave(T)
  BY <1>2, <1>3 DEF Abstract!Leave, Heard, HandedOut
<1>5. T \in SUBSET Abstract!Elements(m_packets)
  BY <1>1 DEF Abstract!Elements, Listed
<1>6. Abstract!Next
  BY <1>4, <1>5 DEF Abstract!Next
<1>7. CounterInv'
  BY DEF CounterInv, ValuesWithout
<1> QED
  BY <1>6, <1>7

(* add is a step Add of the abstract buffer.                               *)
LEMMA Adds ==
  ASSUME CounterKind = "contending", TimersOK, ListInv, CounterInv, NEW id \in Id,
         NEW lifetime, NEW timeout, Add(id, lifetime, timeout)
  PROVE  Abstract!Next /\ CounterInv'
<1> DEFINE n       == HeadDrop(Length[id])
           dropped == {m_packets[k] : k \in 1 .. n}
           kept    == SubSeq(m_packets, n + 1, Len(m_packets))
           timers  == Without(m_timers, dropped)
           D       == DOMAIN m_timers
           R       == D \ dropped
           removed == CounterRemoveAll(dropped)
<1>1. DOMAIN timers = R
  BY DEF Without
<1>2. IF id \notin R
      THEN /\ DOMAIN m_timers' = R \cup {id} /\ m_packets' = Append(kept, id)
           /\ m_counter' = CounterAdd(removed, id, now)
      ELSE /\ DOMAIN m_timers' = R /\ m_packets' = kept /\ m_counter' = removed
  BY <1>1 DEF Add
<1>3. out' = {} /\ m_counter \in Tables /\ D \subseteq Id
  BY DEF Add, TimersOK
<1>4. m_packets \in Seq(Id) /\ Distinct(m_packets) /\ Listed(m_packets) = D
  BY DEF ListInv, ListOK
<1>5. n \in 0 .. Len(m_packets)
  <2>1. Length[id] \in Nat
    BY LengthAssumption
  <2> QED
    BY <2>1, HeadDrops
<1> HIDE DEF n
<1>6. Listed(kept) = R /\ dropped \in SUBSET D
  <2>1. dropped = {m_packets[k] : k \in 1 .. n}
    OBVIOUS
  <2> HIDE DEF dropped, D
  <2> QED
    BY <1>4, <1>5, <2>1, ListedSuffix
<1>7. removed \in Tables /\ ValuesWithout(removed, dropped)
  BY <1>3, <1>6, RemoveAllType, RemovedValues
<1> HIDE DEF dropped, timers, removed
<1>8. ASSUME NEW i \in Id
      PROVE  m_counter'[i].value = CASE i \in R -> m_counter[i].value
                                     [] i = id /\ id \notin R -> 1
                                     [] OTHER -> 0
  <2>1. removed[i].value = IF i \in R THEN m_counter[i].value ELSE 0
    BY <1>3, <1>6, <1>7 DEF ValuesWithout, CounterInv
  <2>2. CASE id \in R
    BY <1>2, <2>1, <2>2
  <2>3. CASE id \notin R
    <3>1. m_counter' = [removed EXCEPT ![id].value = 1]
      BY <1>2, <2>3 DEF CounterAdd
    <3>2. m_counter'[i].value = IF i = id THEN 1 ELSE removed[i].value
      BY <1>7, <3>1 DEF Tables, Entry
    <3> QED
      BY <2>1, <2>3, <3>2
  <2> QED
    BY <2>2, <2>3
<1> HIDE DEF R
<1>9. Heard' = [i \in Id |-> CASE i \in R -> Heard[i]
                               [] i = id /\ id \notin R -> 1
                               [] OTHER -> 0]
  BY <1>8, HeardValue DEF Heard
<1>10. Abstract!Elements(kept) = R
  BY <1>6 DEF Abstract!Elements, Listed
<1>11. PICK d \in 0 .. Len(m_packets) : d = n
  BY <1>5
<1>12. Abstract!Next
  <2>1. Abstract!Add(id, d)
    BY <1>2, <1>3, <1>9, <1>10, <1>11 DEF Abstract!Add, Heard, HandedOut, kept
  <2> QED
    BY <2>1 DEF Abstract!Next
<1>13. CounterInv'
  BY <1>2, <1>8 DEF CounterInv
<1> QED
  BY <1>12, <1>13

(* update is a step Hear of the abstract buffer.                           *)
LEMMA Hears ==
  ASSUME CounterKind = "contending", TimersOK, ListInv, CounterInv, NEW id \in Id,
         NEW timeout, Update(id, timeout)
  PROVE  Abstract!Next /\ CounterInv'
<1>1. /\ id \in DOMAIN m_timers /\ DOMAIN m_timers' = DOMAIN m_timers
      /\ m_counter' = CounterIncrement(m_counter, id, now)
      /\ out' = {} /\ m_packets' = m_packets
  BY DEF Update, Restarted
<1>2. m_counter \in Tables
  BY DEF TimersOK
<1>3. ASSUME NEW i \in Id
      PROVE  m_counter'[i].value = IF i = id THEN m_counter[i].value + 1 ELSE m_counter[i].value
  BY <1>1, <1>2 DEF CounterIncrement, Tables, Entry
<1>4. Heard' = [Heard EXCEPT ![id] = @ + 1]
  BY <1>3, HeardValue, ZenonT(20) DEF Heard
<1>5. id \in Abstract!Elements(m_packets)
  BY <1>1 DEF ListInv, ListOK, Listed, Abstract!Elements
<1>6. Abstract!Hear(id)
  BY <1>1, <1>4, <1>5 DEF Abstract!Hear, Heard, HandedOut
<1>7. Abstract!Next
  BY <1>6 DEF Abstract!Next
<1>8. CounterInv'
  BY <1>1, <1>3 DEF CounterInv
<1> QED
  BY <1>7, <1>8

(* remove, fetch and the event of the runtime let packets leave. *)
LEMMA Refines ==
  ASSUME CounterKind = "contending", TimersOK, ListInv, CounterInv, [Next]_vars
  PROVE  (Abstract!Next \/ UNCHANGED Abstract!vars) /\ CounterInv'
<1>1. ASSUME NEW id \in Id, NEW lifetime \in Lifetimes, NEW timeout \in Timeouts,
             Add(id, lifetime, timeout)
      PROVE  Abstract!Next /\ CounterInv'
  BY <1>1, Adds
<1>2. ASSUME NEW id \in Id, id \in DOMAIN m_timers,
             m_counter' = CounterRemove(m_counter, id),
             m_packets' = Kept(m_packets, Id \ {id}),
             RemoveTimer(id), HandedOut' \subseteq {id}
      PROVE  Abstract!Next /\ CounterInv'
  <2>1. DOMAIN m_timers' = DOMAIN m_timers \ {id} /\ {id} \in SUBSET DOMAIN m_timers
    BY <1>2 DEF RemoveTimer, Without
  <2>2. ValuesWithout(m_counter', {id})
    BY <1>2, RemovedValues DEF TimersOK
  <2> QED
    BY <1>2, <2>1, <2>2, Leaves
<1>3. ASSUME NEW id \in Id, RemovePacket(id) PROVE Abstract!Next /\ CounterInv'
  <2>1. HandedOut' \subseteq {id}
    BY <1>3 DEF RemovePacket, HandedOut
  <2> QED
    BY <1>2, <1>3, <2>1 DEF RemovePacket
<1>4. ASSUME NEW id \in Id, NEW timeout \in Timeouts, Update(id, timeout)
      PROVE  Abstract!Next /\ CounterInv'
  BY <1>4, Hears
<1>5. ASSUME NEW id \in Id, Fetch(id) PROVE Abstract!Next /\ CounterInv'
  <2>1. Delivery(id, now).id = id
    BY DEF Delivery
  <2>2. HandedOut' \subseteq {id}
    BY <1>5, <2>1 DEF Fetch, HandedOut
  <2> QED
    BY <1>2, <1>5, <2>2 DEF Fetch
<1>6. ASSUME NEW step \in Steps, Trigger(step) PROVE Abstract!Next /\ CounterInv'
  <2>1. CASE Flush(now + step)
    <3> DEFINE due == {i \in DOMAIN m_timers : m_timers[i].expiry <= now + step}
    <3>1. /\ DOMAIN m_timers' = DOMAIN m_timers \ due
          /\ m_counter' = CounterRemoveAll(due)
          /\ m_packets' = Kept(m_packets, Id \ due)
      BY <2>1 DEF Flush, Without
    <3>2. due \in SUBSET DOMAIN m_timers /\ due \in SUBSET Id
      BY DEF TimersOK
    <3>3. ValuesWithout(m_counter', due)
      BY <3>1, <3>2, RemovedValues DEF TimersOK
    <3>4. HandedOut' \subseteq due
      <4>1. \A i : Delivery(i, now + step).id = i
        BY DEF Delivery
      <4>2. out' = {Delivery(i, now + step) :
                        i \in {j \in due : Valid(m_timers[j], now + step)}}
        BY <2>1 DEF Flush
      <4> QED
        BY <4>1, <4>2 DEF HandedOut
    <3> HIDE DEF due
    <3> QED
      BY <3>1, <3>2, <3>3, <3>4, Leaves
  <2>2. CASE out' = {} /\ UNCHANGED <<m_packets, m_timers, m_counter>>
    <3>1. m_packets' = Kept(m_packets, Id \ {})
      BY <2>2, KeptEverything DEF ListInv, ListOK
    <3>2. ValuesWithout(m_counter', {}) /\ HandedOut' \subseteq {}
      BY <2>2 DEF ValuesWithout, HandedOut
    <3>3. DOMAIN m_timers' = DOMAIN m_timers \ {} /\ {} \in SUBSET DOMAIN m_timers
      BY <2>2
    <3> QED
      BY <3>1, <3>2, <3>3, Leaves
  <2> QED
    BY <1>6, <2>1, <2>2 DEF Trigger
<1>7. ASSUME UNCHANGED vars PROVE UNCHANGED Abstract!vars /\ CounterInv'
  BY <1>7 DEF vars, Abstract!vars, CounterInv
<1> QED
  BY <1>1, <1>3, <1>4, <1>5, <1>6, <1>7 DEF Next

(* With a CbfCounterContending the buffer implements ContentionBuffer:     *)
(* cancelling, restarting and firing of timers, head drop and the byte     *)
(* count are internal to it; what the router sees is that copies are       *)
(* counted exactly as long as a packet waits, that only the oldest packets *)
(* make room, and that a packet is handed out when it leaves, at most once.*)
THEOREM ImplementsContention ==
  ASSUME CounterKind = "contending"
  PROVE  Spec => ImplementsContentionBuffer
<1>1. Init => Abstract!Init /\ CounterInv
  <2> SUFFICES ASSUME Init PROVE Abstract!Init /\ CounterInv
    OBVIOUS
  <2>1. \A i \in Id : m_counter[i].value = 0
    BY DEF Init, EmptyTable, NoEntry
  <2>2. Heard = [i \in Id |-> 0] /\ HandedOut = {}
    BY <2>1, HeardValue DEF Heard, HandedOut, Init
  <2>3. m_packets = <<>>
    BY DEF Init
  <2> QED
    BY <2>1, <2>2, <2>3 DEF Abstract!Init, Heard, HandedOut, CounterInv
<1>2. TimersOK /\ ListInv /\ CounterInv /\ [Next]_vars
        => [Abstract!Next]_(Abstract!vars) /\ CounterInv'
  BY Refines
<1>3. Spec => [](TimersOK /\ ListInv)
  BY Invariance, ListInvariance, PTL DEF IInv
<1> QED
  BY <1>1, <1>2, <1>3, PTL DEF Spec, ImplementsContentionBuffer, Abstract!Spec
=============================================================================
