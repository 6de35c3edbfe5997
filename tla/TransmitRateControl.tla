------------------------ MODULE TransmitRateControl ------------------------
(***************************************************************************)
(* BurstyTransmitRateControl (vanetza/dcc/bursty_transmit_rate_control.cpp)*)
(* as operators: packets of DCC profile 0 are restricted by a BurstBudget, *)
(* those of profiles 1 to 3 by a StateMachineBudget.                       *)
(***************************************************************************)
EXTENDS Integers, Sequences

CONSTANTS
    BurstDuration, \* m_burst_duration
    BurstPeriod    \* m_burst_period

(* BurstBudget::delay asserts this. *)
ASSUME BurstAssumption ==
    /\ BurstDuration \in Nat /\ BurstPeriod \in Nat
    /\ 0 < BurstDuration /\ BurstDuration < BurstPeriod

Profile == 0 .. 3

Never == -1 \* no transmission yet (m_last_tx is boost::none)

(* Mutant: the period is not waited for. *)
BurstDelayUntilOver(messages, room, now) ==
    IF \/ messages = <<>>
       \/ messages[1] + BurstDuration > now /\ Len(messages) < room
       \/ messages[1] + BurstDuration <= now
    THEN 0 ELSE messages[1] + BurstPeriod - now

(* Mutant: the delay is counted from the latest message. *)
BurstDelayFromLast(messages, room, now) ==
    IF \/ messages = <<>>
       \/ messages[1] + BurstDuration > now /\ Len(messages) < room
       \/ messages[1] + BurstPeriod < now
    THEN 0 ELSE messages[1] + BurstDuration - now

(* BurstBudget::delay for the times of the messages of the current burst,  *)
(* a circular buffer with room for so many.                                *)
BurstDelay(messages, room, now) ==
    IF \/ messages = <<>>
       \/ messages[1] + BurstDuration > now /\ Len(messages) < room
       \/ messages[1] + BurstPeriod < now
    THEN 0 ELSE messages[1] + BurstPeriod - now

(* BurstBudget::delay forgets a burst when its period is over. *)
Cleared(messages, now) ==
    IF messages # <<>> /\ messages[1] + BurstPeriod < now THEN <<>> ELSE messages

(* BurstBudget::notify: a full buffer loses its oldest element. *)
BurstNotify(messages, room, now) ==
    LET kept == IF Len(messages) >= room /\ messages # <<>> THEN Tail(messages) ELSE messages
    IN  IF room = 0 THEN <<>> ELSE Append(kept, now)

(* StateMachineBudget::delay *)
StateMachineDelay(last, interval, now) ==
    IF last = Never \/ last + interval < now THEN 0 ELSE last + interval - now
=============================================================================
