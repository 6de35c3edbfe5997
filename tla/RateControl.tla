---------------------------- MODULE RateControl ----------------------------
(***************************************************************************)
(* BurstyTransmitRateControl with one of the state machines, used the way  *)
(* it is meant to: a message is sent, and the rate control notified of it, *)
(* only when it asks for no delay (vanetza/dcc/                            *)
(* bursty_transmit_rate_control.cpp, burst_budget.cpp,                     *)
(* state_machine_budget.cpp).  Channel load is sampled at any time.        *)
(***************************************************************************)
EXTENDS TransmitRateControl, StateMachines

CONSTANTS
    Burst,   \* initial number of messages per burst (N_Burst)
    Limits,  \* arguments burst_messages is called with
    MaxTime  \* bound on the clock

ASSUME BudgetAssumption ==
    Burst \in Nat \ {0} /\ Limits \subseteq Nat \ {0} /\ MaxTime \in Nat

VARIABLES
    m_messages, \* times of the messages of the current burst
    capacity,   \* of this circular buffer
    m_last_tx,  \* time of the last message of profiles 1 to 3
    kind,       \* "meshed" or "gradual" state machine
    m_state,    \* its state
    m_channel_loads, \* its samples, the latest one first, if it keeps them
    now,
    limit,      \* history: the highest limit that was asked for
    sent,       \* history: times of the messages of profile 0 in a period,
                \* without the latest ones if burst_messages erased records
    samples     \* history: the latest channel loads

budgets == <<m_messages, capacity, m_last_tx, limit, sent>>
machine == <<kind, m_state, m_channel_loads, samples>>
vars == <<budgets, machine, now>>

(* So many samples of one load settle the state. *)
SettleSamples == IF kind = "meshed" THEN Max({UpSamples, DownSamples}) + 1 ELSE Len(Steps)
HistorySamples == Max({UpSamples + 1, DownSamples + 1, Len(Steps)})

(* transmission_interval of the state machine *)
TransmissionInterval ==
    IF kind = "meshed" THEN MeshedInterval(m_state) ELSE Steps[m_state].off_time

Init ==
    /\ m_messages = <<>> /\ capacity = Burst /\ limit = Burst
    /\ m_last_tx = Never
    /\ \/ kind = "meshed" /\ m_state = Relaxed
       \/ kind = "gradual" /\ m_state = 1
    /\ m_channel_loads = <<>> /\ samples = <<>>
    /\ now = 0 /\ sent = <<>>

(* delay and, if there is none, notify, for profile 0 *)
SendUrgent ==
    /\ BurstDelay(m_messages, capacity, now) = 0
    /\ m_messages' = BurstNotify(Cleared(m_messages, now), capacity, now)
    /\ sent' = Append(sent, now)
    /\ UNCHANGED <<capacity, m_last_tx, limit, machine, now>>

(* delay and, if there is none, notify, for the other profiles *)
Send ==
    /\ StateMachineDelay(m_last_tx, TransmissionInterval, now) = 0
    /\ m_last_tx' = now
    /\ UNCHANGED <<m_messages, capacity, limit, sent, machine, now>>

(* burst_messages, at any time.  circular_buffer::resize changes the       *)
(* number of elements: it erases the latest ones, or adds time_point {} at *)
(* the end.  The capacity grows if it is too small, and never shrinks.     *)
BurstMessages(n) ==
    /\ m_messages' = [k \in 1 .. n |-> IF k <= Len(m_messages) THEN m_messages[k] ELSE 0]
    /\ capacity' = IF n > capacity THEN n ELSE capacity
    /\ limit' = IF n > limit THEN n ELSE limit
    /\ sent' = IF n < Len(m_messages) THEN SubSeq(sent, 1, Len(sent) - (Len(m_messages) - n))
               ELSE sent
    /\ UNCHANGED <<m_last_tx, machine, now>>

(* StateMachine::update *)
Sample(load) ==
    /\ m_channel_loads' = IF kind = "meshed" THEN Sampled(m_channel_loads, load) ELSE <<>>
    /\ m_state' = IF kind = "meshed" THEN MeshedUpdate(m_state, m_channel_loads')
                  ELSE GradualUpdate(m_state, load)
    /\ samples' = SubSeq(<<load>> \o samples, 1, Min({Len(samples) + 1, HistorySamples}))
    /\ UNCHANGED <<budgets, kind, now>>

Tick ==
    /\ now < MaxTime
    /\ now' = now + 1
    /\ sent' = SubSeq(sent, Min({k \in DOMAIN sent : sent[k] > now' - BurstPeriod}
                                    \cup {Len(sent) + 1}), Len(sent))
    /\ UNCHANGED <<m_messages, capacity, m_last_tx, limit, machine>>

Next ==
    \/ SendUrgent \/ Send \/ Tick
    \/ \E n \in Limits : BurstMessages(n)
    \/ \E load \in Load : Sample(load)

Spec == Init /\ [][Next]_vars

-----------------------------------------------------------------------------
(* Properties *)

(* Every variable has its type, and circular buffers keep to their         *)
(* capacity.                                                               *)
TypeOK ==
    /\ m_messages \in Seq(Nat) /\ Len(m_messages) <= capacity
    /\ capacity \in Nat /\ limit \in Nat /\ now \in Nat /\ m_last_tx \in Nat \cup {Never}
    /\ m_state \in (IF kind = "meshed" THEN Relaxed .. Restrictive ELSE DOMAIN Steps)
    /\ m_channel_loads \in Seq(Load)
    /\ Len(m_channel_loads) <= Max({UpSamples, DownSamples})

(* What the burst budget guarantees, whenever and however its limit is     *)
(* changed: less than two bursts of the highest limit so far in any burst  *)
(* period, besides as many messages as burst_messages erased records of.   *)
(* This is weaker than the "upper limit of messages per burst" of          *)
(* burst_budget.hpp: a message at the very moment the period of the last   *)
(* burst ends is counted to that burst and forgotten with it, and a lower  *)
(* limit erases records but leaves the room for them.  (With the types.)   *)
BurstBounded == TypeOK /\ Len(sent) < 2 * limit

(* Who waits for the delay that either budget asks for may send then if    *)
(* the state machine does not change meanwhile, and has not waited longer  *)
(* than a burst period or the interval of the state.                       *)
DelaySuffices ==
    LET burst == BurstDelay(m_messages, capacity, now)
        other == StateMachineDelay(m_last_tx, TransmissionInterval, now)
    IN  /\ BurstDelay(m_messages, capacity, now + burst) = 0
        /\ burst \in 0 .. BurstPeriod
        /\ StateMachineDelay(m_last_tx, TransmissionInterval, now + other) = 0
        /\ other \in 0 .. TransmissionInterval

Steady == Cardinality(Latest(samples, SettleSamples)) = 1 /\ Len(samples) >= SettleSamples

(* Whatever was before, the state fits the channel load once this has been *)
(* steady for a while: one sample more than the longer observation time of *)
(* the fully meshed machine, whose Restrictive state is only left through  *)
(* Active, or one sample per state of the gradual machine.                 *)
FitsSteadyLoad ==
    Steady =>
        IF kind = "meshed" THEN m_state = samples[1]
        ELSE /\ Steps[m_state].lower_limit <= samples[1]
             /\ m_state < Len(Steps) => samples[1] < Steps[m_state + 1].lower_limit

(* The fully meshed machine allows more messages only after a quiet time:  *)
(* when its state goes down, all samples of the time for ramping down are  *)
(* below what the former state is for.                                     *)
RelaxesSlowly ==
    [][kind = "meshed" /\ m_state' < m_state =>
           \A load \in Latest(samples', DownSamples) : load < m_state]_vars
=============================================================================
