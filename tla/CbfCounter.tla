----------------------------- MODULE CbfCounter -----------------------------
(***************************************************************************)
(* The three duplicate counters a CBF packet buffer can be given           *)
(* (vanetza/geonet/cbf_counter.cpp): CbfCounterImmortal ("immortal"),      *)
(* CbfCounterContending ("contending") and CbfCounterFading ("fading").    *)
(* The last one keeps its counters in a SoftStateMap                       *)
(* (vanetza/geonet/soft_state_map.hpp).                                    *)
(*                                                                         *)
(* A table maps every identifier to its counter.  A counter with value 0   *)
(* is one the table of the program has no entry for; every entry the       *)
(* program creates is incremented right away.                              *)
(***************************************************************************)
EXTENDS Integers

CONSTANTS
    Id,              \* packet identifiers (source address, sequence number)
    CounterKind,     \* which CbfCounter implementation is plugged in
    CounterLifetime  \* lifetime of a fading counter (vanetzaFadingCbfCounterLifetime)

ASSUME CounterKindAssumption == CounterKind \in {"immortal", "contending", "fading"}
ASSUME CounterLifetimeAssumption == CounterLifetime \in Nat

Entry == [value : Nat, expiry : Nat]
Tables == [Id -> Entry]

NoEntry == [value |-> 0, expiry |-> 0]
EmptyTable == [i \in Id |-> NoEntry]

(* SoftStateMap::is_expired; counters outside of a SoftStateMap never are. *)
Expired(entry, now) == CounterKind = "fading" /\ now > entry.expiry

(* SoftStateMap::drop_expired *)
DropExpired(table, now) ==
    [i \in Id |-> IF Expired(table[i], now) THEN NoEntry ELSE table[i]]

(* CbfCounter::add.  A fading counter that is expired but has not been     *)
(* dropped yet continues with its old value.                               *)
CounterAdd(table, id, now) ==
    CASE CounterKind = "immortal" ->
            [table EXCEPT ![id].value = @ + 1]
      [] CounterKind = "contending" ->
            [table EXCEPT ![id].value = 1]
      [] CounterKind = "fading" ->
            DropExpired([table EXCEPT ![id] = [value |-> @.value + 1,
                                               expiry |-> now + CounterLifetime]], now)

(* CbfCounter::remove *)
CounterRemove(table, id) ==
    IF CounterKind = "contending" THEN [table EXCEPT ![id] = NoEntry] ELSE table

(* CbfCounter::increment.  SoftStateMap::get_value creates a missing entry *)
(* and refreshes an expired one, but never prolongs a valid one.           *)
CounterIncrement(table, id, now) ==
    LET fresh == CounterKind = "fading"
                 /\ (table[id].value = 0 \/ Expired(table[id], now))
    IN  [table EXCEPT ![id] = [value  |-> @.value + 1,
                               expiry |-> IF fresh THEN now + CounterLifetime
                                          ELSE @.expiry]]

(* CbfCounter::counter *)
CounterValue(table, id, now) ==
    IF Expired(table[id], now) THEN 0 ELSE table[id].value
=============================================================================
