---------------------------- MODULE LocationTable ----------------------------
(***************************************************************************)
(* An entry of the location table, which is kept in a SoftStateMap         *)
(* (vanetza/geonet/location_table.cpp, soft_state_map.hpp).  Of a position *)
(* vector only its timestamp and, as history, the time it stems from are   *)
(* kept.                                                                   *)
(***************************************************************************)
EXTENDS Timestamp

CONSTANTS
    EntryLifetime,   \* itsGnLifetimeLocTE
    NeighbourExpiry, \* vanetzaNeighbourFlagExpiry; 0 if the flag does not expire
    NoEntry, Never   \* no entry in the map; the flag of an entry does not expire

ASSUME LocationTableAssumption == EntryLifetime \in Nat /\ NeighbourExpiry \in Nat

(* SoftStateMap::get_value_ptr: expired entries are hidden *)
HasValue(entry, now) == entry # NoEntry /\ now <= entry.expiry

(* Mutant: expired entries stay in the map. *)
DropExpiredNever(entry, now) == entry

(* SoftStateMap::drop_expired *)
DropExpired(entry, now) == IF HasValue(entry, now) THEN entry ELSE NoEntry

(* LocationTable::update.  A position vector is taken, and the entry       *)
(* refreshed, if it is newer than the present one.  An expired entry that  *)
(* is still in the map is refreshed in any case, with its old position.    *)
Update(entry, pv, now) ==
    LET newer == entry = NoEntry \/ Before(entry.pv.timestamp, pv.timestamp)
    IN  [pv        |-> IF newer THEN pv ELSE entry.pv,
         expiry    |-> IF newer \/ ~HasValue(entry, now) THEN now + EntryLifetime
                       ELSE entry.expiry,
         neighbour |-> IF entry = NoEntry THEN 0 ELSE entry.neighbour]

(* LocationTableEntry::set_neighbour *)
SetNeighbour(entry, now) ==
    [entry EXCEPT !.neighbour = IF NeighbourExpiry > 0 THEN now + NeighbourExpiry ELSE Never]

(* LocationTable::has_neighbours, for one entry *)
IsNeighbour(entry, now) ==
    HasValue(entry, now) /\ (entry.neighbour = Never \/ entry.neighbour > now)

(* What an indication of a Beacon or SHB packet does to its source's entry *)
Indicate(entry, pv, now) ==
    SetNeighbour(Update(DropExpired(entry, now), pv, now), now)
=============================================================================
