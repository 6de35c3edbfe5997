------------------------------ MODULE Repeater ------------------------------
(***************************************************************************)
(* Packet repetition (vanetza/geonet/repeater.cpp and data_request.cpp):   *)
(* a request asks for repetitions every interval, during a maximum time.   *)
(* start, count and late are history: when the request was made, its       *)
(* repetitions so far and the sum of their delays.                         *)
(***************************************************************************)
EXTENDS Integers

NoRepetition == [pending |-> FALSE, request |-> [maximum |-> 0, interval |-> 0, scf |-> FALSE],
                 maximum |-> 0, deadline |-> 0, start |-> 0, count |-> 0, late |-> 0]

(* decrement_by_one *)
DecrementByOne(maximum, interval) ==
    IF maximum > 0 /\ interval > 0 /\ maximum > interval THEN maximum - interval ELSE 0

(* has_further_repetition *)
HasFurther(maximum, interval) == maximum > 0 /\ interval > 0 /\ maximum >= interval

(* Repeater::add, when the request is made *)
AddRepetition(request, now) ==
    [NoRepetition EXCEPT !.pending = HasFurther(request.maximum, request.interval),
                         !.request = request, !.maximum = request.maximum,
                         !.start = now, !.deadline = now + request.interval]

(* The repetition after the present one, if maximum is left *)
NextRepetition(rep, maximum, now) ==
    [rep EXCEPT !.maximum = maximum,
                !.pending = HasFurther(maximum, rep.request.interval),
                !.deadline = now + rep.request.interval,
                !.count = @ + 1, !.late = @ + (now - rep.deadline)]

(* Mutant: the delay of a repetition is not taken off the time left. *)
TriggerIgnoresDelay(rep, now) ==
    NextRepetition(rep, DecrementByOne(rep.maximum, rep.request.interval), now)

(* Repeater::trigger, and the add by the request that it repeats *)
Trigger(rep, now) ==
    NextRepetition(rep, DecrementByOne(rep.maximum, rep.request.interval)
                            - (now - rep.deadline), now)
=============================================================================
