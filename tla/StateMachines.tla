--------------------------- MODULE StateMachines ---------------------------
(***************************************************************************)
(* The state machines that derive a transmission interval from the channel *)
(* load (vanetza/dcc/fully_meshed_state_machine.cpp and                    *)
(* gradual_state_machine.cpp) as operators.                                *)
(*                                                                         *)
(* A channel load is told apart by the limits it is compared with.  For    *)
(* the fully meshed machine the limits are 1 (NDL_minChannelLoad), 2 up to *)
(* Substates (the limits between the sub-states of Active) and             *)
(* Substates + 1 (NDL_maxChannelLoad); a load is the highest limit that it *)
(* reaches.                                                                *)
(***************************************************************************)
EXTENDS Integers, Sequences, FiniteSetsExt

CONSTANTS
    Substates,           \* sub-states of Active (Active::sc_substates)
    UpSamples,           \* N_samples_up
    DownSamples,         \* N_samples_down
    Steps                \* states of a gradual machine: [lower_limit, off_time]

(* std::set orders the states by their limits; repair() adds a state if    *)
(* there is none, and the tables of gradual_state_machine.hpp start with 0.*)
ASSUME MachineAssumption ==
    /\ Substates \in Nat \ {0} /\ UpSamples \in Nat \ {0} /\ DownSamples \in Nat \ {0}
    /\ Steps \in Seq([lower_limit : Nat, off_time : Nat])
    /\ Steps # <<>> /\ Steps[1].lower_limit = 0
    /\ \A k \in 1 .. (Len(Steps) - 1) : Steps[k].lower_limit < Steps[k + 1].lower_limit

MinLoad == 1
MaxLoad == Substates + 1
Load == 0 .. MaxLoad

-----------------------------------------------------------------------------
(* The fully meshed machine: state 0 is Relaxed, 1 to Substates are those  *)
(* of Active and Substates + 1 is Restrictive.                             *)
Relaxed == 0
Restrictive == Substates + 1

(* Mutant: the buffer only holds the samples for ramping up. *)
SampledShort(loads, load) == SubSeq(<<load>> \o loads, 1, Min({Len(loads) + 1, UpSamples}))

(* m_channel_loads.push_front, a circular buffer *)
Sampled(loads, load) ==
    SubSeq(<<load>> \o loads, 1, Min({Len(loads) + 1, Max({UpSamples, DownSamples})}))

Latest(loads, n) == {loads[k] : k \in 1 .. Min({n, Len(loads)})}

(* min_channel_load, max_channel_load, after at least one sample *)
MinChannelLoad(loads) == Min(Latest(loads, UpSamples))
MaxChannelLoad(loads) == Max(Latest(loads, DownSamples))

(* Active::update: the maximum decides, since it is never below the        *)
(* minimum                                                                 *)
ActiveState(loads) ==
    LET substate(load) == Max({load, MinLoad})
    IN  Min({Max({substate(MinChannelLoad(loads)), substate(MaxChannelLoad(loads))}), Substates})

(* Mutant: Restrictive is left for Relaxed only. *)
MeshedUpdateStuck(state, loads) ==
    IF state = Relaxed
        THEN IF MinChannelLoad(loads) >= MinLoad THEN ActiveState(loads) ELSE Relaxed
    ELSE IF state = Restrictive
        THEN IF MaxChannelLoad(loads) < MinLoad THEN Relaxed ELSE Restrictive
    ELSE IF MaxChannelLoad(loads) < MinLoad THEN Relaxed
    ELSE IF MinChannelLoad(loads) >= MaxLoad THEN Restrictive
    ELSE ActiveState(loads)

(* FullyMeshedStateMachine::update, for the samples with the new one *)
MeshedUpdate(state, loads) ==
    IF state = Relaxed
        THEN IF MinChannelLoad(loads) >= MinLoad THEN ActiveState(loads) ELSE Relaxed
    ELSE IF state = Restrictive
        THEN IF MaxChannelLoad(loads) < MaxLoad THEN ActiveState(loads) ELSE Restrictive
    ELSE IF MaxChannelLoad(loads) < MinLoad THEN Relaxed
    ELSE IF MinChannelLoad(loads) >= MaxLoad THEN Restrictive
    ELSE ActiveState(loads)

(* transmission_interval: 60 ms, 100 ms to 420 ms, 460 ms; rising anyway *)
MeshedInterval(state) == state + 1

-----------------------------------------------------------------------------
(* GradualStateMachine::update: one state at a time *)
GradualUpdate(state, load) ==
    CASE load < Steps[state].lower_limit -> Max({state - 1, 1})
      [] state < Len(Steps) /\ load >= Steps[state + 1].lower_limit -> state + 1
      [] OTHER -> state
=============================================================================
