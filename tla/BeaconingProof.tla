--------------------------- MODULE BeaconingProof ---------------------------
(***************************************************************************)
(* Proofs about Beaconing, for any timing: packets are repeated as long as *)
(* the request says, a station is silent only after a failure, a station   *)
(* that was restarted is known again after the lifetime of its entry, and  *)
(* one that was not stays a neighbour, with its latest position.           *)
(***************************************************************************)
EXTENDS Beaconing, TLAPS

-----------------------------------------------------------------------------
(* The inductive invariant *)

Request == [maximum : Nat, interval : Nat, scf : BOOLEAN]

Repetition ==
    [pending : BOOLEAN, request : Request, maximum : Int, deadline : Nat,
     start : Nat, count : Nat, late : Nat]

Frame == [timestamp : 0..MaxTimestamp, fix : Nat \cup {Never}, sent : Nat]

Types ==
    /\ now \in 0..MaxTime /\ clock \in Nat /\ update \in Nat
    /\ stamp \in 0..MaxTimestamp /\ beacon \in Nat \cup {Off}
    /\ rep \in Repetition /\ buffer \in BOOLEAN /\ failed \in BOOLEAN
    /\ air \subseteq Frame /\ entry \in Entries \cup {NoEntry}
    /\ fix \in Nat \cup {Never} /\ silent \in Nat
    /\ received \in 0..now /\ disturbed \in 0..now \cup {Never}

(* What is left of the maximum, and when the next repetition is due, for a *)
(* repetition r.                                                           *)
Accounted(r) ==
    LET max == r.request.maximum
        interval == r.request.interval
    IN  /\ r.maximum = max - r.count * interval - r.late
        /\ r.deadline = r.start + (r.count + 1) * interval + r.late
        /\ r.pending <=> interval > 0 /\ r.maximum >= interval
        /\ r.count * interval <= max

(* Timers are processed at most one step of the time after their deadline. *)
Delay == MaxStep - 1

Timers ==
    /\ now <= update + Delay
    /\ beacon = Off => failed
    /\ beacon # Off => now <= beacon + Delay /\ beacon <= now + Period + Jitter
    /\ fix # Never => /\ fix <= now /\ update = fix + UpdateInterval
                      /\ stamp = TimestampOf(fix + clock)

(* The beacon timer ends within an interval of the last transmission, or   *)
(* has been started again after a Beacon was skipped.  In this case the    *)
(* timestamp is not 0 when it ends: it is updated before if it is 0 now,   *)
(* and does not wrap before.                                               *)
Skipped ==
    /\ beacon <= silent + 2 * (Period + Jitter) + Delay
    /\ stamp + beacon + Delay - fix < TimestampModulus
    /\ stamp # 0 \/ update < beacon

Heard ==
    fix # Never /\ beacon # Off => beacon <= silent + Period + Jitter \/ Skipped

(* A position is from after the sender's timestamps went back last. *)
Fresh(position) == disturbed # Never => position # Never /\ position >= disturbed

(* Frames with older positions were sent before, and an entry with an      *)
(* older position expires.                                                 *)
Positions ==
    /\ fix # Never => Fresh(fix)
    /\ \A f \in air : /\ f.sent <= now /\ now <= f.sent + MaxLatency
                      /\ Fresh(f.fix) \/ f.sent <= disturbed
    /\ entry # NoEntry =>
            /\ entry.expiry <= now + EntryLifetime
            /\ Fresh(entry.pv.fix) \/ entry.expiry <= disturbed + MaxLatency + EntryLifetime
    /\ disturbed # Never /\ received > disturbed + MaxLatency + EntryLifetime
            => entry # NoEntry /\ Fresh(entry.pv.fix)

Inv == Types /\ Accounted(rep) /\ Timers /\ Heard /\ Positions

-----------------------------------------------------------------------------
(* Timestamps *)

(* The timestamp of a time is within its 32 bits. *)
LEMMA TimestampType ==
    ASSUME NEW t \in Nat
    PROVE  TimestampOf(t) \in 0..MaxTimestamp
BY TimestampAssumption DEF TimestampOf, MaxTimestamp

(* A remainder *)
LEMMA Remainder ==
    ASSUME NEW m \in Nat \ {0}, NEW q \in Int, NEW r \in 0..(m - 1)
    PROVE  (m * q + r) % m = r
OBVIOUS

(* A timestamp that does not wrap grows with the time. *)
LEMMA TimestampGrows ==
    ASSUME NEW t \in Nat, NEW d \in Nat, TimestampOf(t) + d < TimestampModulus
    PROVE  TimestampOf(t + d) = TimestampOf(t) + d
<1> DEFINE m == TimestampModulus
           q == t \div m
           r == (t % m) + d
<1>1. m \in Nat \ {0} /\ q \in Int /\ r \in 0..(m - 1) /\ t + d = m * q + r
    BY TimestampAssumption DEF TimestampOf
<1> HIDE DEF m, q, r
<1>2. (m * q + r) % m = r
    BY <1>1, Remainder
<1> QED BY <1>1, <1>2 DEF TimestampOf, m, r

-----------------------------------------------------------------------------
(* Repetitions *)

(* A product, since the provers do not multiply by themselves. *)
LEMMA OneMore ==
    ASSUME NEW n \in Nat, NEW i \in Nat
    PROVE  (n + 1) * i = n * i + i /\ n * i \in Nat
OBVIOUS

(* There is nothing to be repeated. *)
LEMMA NoneKept == NoRepetition \in Repetition /\ Accounted(NoRepetition)
<1>1. NoRepetition \in Repetition
    BY DEF NoRepetition, Repetition, Request
<1>2. Accounted(NoRepetition)
    BY DEF NoRepetition, Accounted
<1> QED BY <1>1, <1>2

(* A request is taken over. *)
LEMMA AddKept ==
    ASSUME NEW r \in Request, NEW t \in Nat
    PROVE  AddRepetition(r, t) \in Repetition /\ Accounted(AddRepetition(r, t))
<1> DEFINE new == AddRepetition(r, t)
<1>1. /\ r.maximum \in Nat /\ r.interval \in Nat /\ t + r.interval \in Nat
      /\ HasFurther(r.maximum, r.interval) \in BOOLEAN
      /\ HasFurther(r.maximum, r.interval)
            <=> r.interval > 0 /\ r.maximum >= r.interval
    BY DEF Request, HasFurther
<1>2. /\ NoRepetition \in Repetition /\ NoRepetition.count = 0 /\ NoRepetition.late = 0
    BY DEF NoRepetition, Repetition, Request
<1>3. new \in Repetition
    <2> DEFINE h == HasFurther(r.maximum, r.interval)
               max == r.maximum
               d == t + r.interval
    <2>1. h \in BOOLEAN /\ max \in Int /\ d \in Nat
        BY <1>1
    <2>2. new = [NoRepetition EXCEPT !.pending = h, !.request = r, !.maximum = max,
                                     !.start = t, !.deadline = d]
        BY DEF AddRepetition
    <2> HIDE DEF h, max, d, new
    <2> QED BY <1>2, <2>1, <2>2 DEF Repetition
<1>4. /\ new.pending = HasFurther(r.maximum, r.interval) /\ new.request = r
      /\ new.maximum = r.maximum /\ new.deadline = t + r.interval /\ new.start = t
      /\ new.count = 0 /\ new.late = 0
    BY <1>2 DEF AddRepetition, Repetition
<1> HIDE DEF new
<1>5. (0 + 1) * r.interval = r.interval /\ 0 * r.interval = 0
    BY <1>1
<1>6. Accounted(new)
    BY <1>1, <1>4, <1>5 DEF Accounted
<1> QED BY <1>3, <1>6 DEF new

(* What is left for the next repetition is what the maximum leaves after   *)
(* the repetitions and their delays so far.                                *)
LEMMA TriggerKept ==
    ASSUME NEW r \in Repetition, Accounted(r), r.pending, NEW t \in Nat, r.deadline <= t
    PROVE  Trigger(r, t) \in Repetition /\ Accounted(Trigger(r, t))
<1> DEFINE i == r.request.interval
           max == r.request.maximum
           c == r.count
           l == r.late + (t - r.deadline)
           left == DecrementByOne(r.maximum, i) - (t - r.deadline)
           new == [r EXCEPT !.maximum = left, !.pending = HasFurther(left, i),
                            !.deadline = t + i, !.count = c + 1, !.late = l]
<1>0. Trigger(r, t) = new
    BY DEF Trigger, NextRepetition
<1>1. /\ r.request \in Request /\ r.start \in Nat /\ c \in Nat /\ r.late \in Nat
      /\ r.maximum \in Int /\ r.deadline \in Nat
    BY DEF Repetition
<1>2. i \in Nat /\ max \in Nat
    BY <1>1 DEF Request
<1>3. /\ r.maximum = max - c * i - r.late
      /\ r.deadline = r.start + (c + 1) * i + r.late
      /\ i > 0 /\ r.maximum >= i
    BY DEF Accounted
<1>4. /\ left = r.maximum - i - (t - r.deadline) /\ left \in Int /\ l \in Nat
      /\ HasFurther(left, i) \in BOOLEAN /\ HasFurther(left, i) = (left >= i)
      /\ t + i \in Nat /\ c + 1 \in Nat
    BY <1>1, <1>2, <1>3 DEF DecrementByOne, HasFurther
<1> DEFINE p == c * i
           p1 == (c + 1) * i
           p2 == (c + 1 + 1) * i
<1>5. p \in Nat /\ p1 = p + i /\ p2 = p1 + i
    BY <1>1, <1>2, OneMore
<1> HIDE DEF left, l
<1>6. new \in Repetition
    BY <1>1, <1>2, <1>4 DEF Repetition
<1>7. /\ new.maximum = left /\ new.pending = (left >= i) /\ new.deadline = t + i
      /\ new.count = c + 1 /\ new.late = l /\ new.start = r.start
      /\ new.request = r.request
    BY <1>4 DEF Repetition
<1> HIDE DEF new, p, p1, p2
<1>8. l = r.late + (t - r.deadline)
    BY DEF l
<1>9. /\ r.maximum = max - p - r.late /\ r.deadline = r.start + p1 + r.late
    BY <1>3 DEF p, p1
<1> HIDE DEF i, max, c
<1>10. /\ left = max - p1 - l /\ t + i = r.start + p2 + l /\ p1 <= max
    BY <1>1, <1>2, <1>3, <1>4, <1>5, <1>8, <1>9
<1>11. Accounted(new)
    BY <1>3, <1>7, <1>10 DEF Accounted, p1, p2, i, max, c
<1> QED BY <1>0, <1>6, <1>11

-----------------------------------------------------------------------------
(* Steps.  The sender transmits a frame, or does not. *)

(* The assumptions as the provers need them *)
LEMMA Constants ==
    /\ Period \in Nat /\ Jitter \in Nat /\ UpdateInterval \in Nat
    /\ 0 < UpdateInterval /\ UpdateInterval < Period
    /\ MaxLatency \in Nat /\ EntryLifetime \in Nat /\ MaxTime \in Nat
    /\ MaxStep \in Nat /\ Delay \in Nat /\ Delay = MaxStep - 1
    /\ UpdateInterval + Period + Jitter + Delay + Delay < TimestampModulus
    /\ TimestampModulus \in Nat \ {0} /\ MaxTimestamp = TimestampModulus - 1
    /\ Off \notin Nat /\ Never \notin Nat
BY BeaconingAssumption, WrapAssumption, LocationTableAssumption, TimestampAssumption
   DEF Delay, MaxTimestamp

(* A timestamp that is 0 does not wrap before the beacon timer ends. *)
LEMMA NoWrap ==
    ASSUME NEW b \in Nat, NEW f \in Nat, b <= f + UpdateInterval + Delay + Period + Jitter
    PROVE  0 + b + Delay - f < TimestampModulus
BY Constants

(* The types of numbers *)
LEMMA Numbers ==
    ASSUME Types
    PROVE  /\ now \in Nat /\ clock \in Nat /\ update \in Nat /\ silent \in Nat /\ received \in Nat
           /\ stamp \in Nat /\ beacon \in Nat \cup {Off}
           /\ fix \in Nat \cup {Never} /\ disturbed \in Nat \cup {Never}
BY Constants DEF Types

(* A transmission starts the beacon timer again; before the first position *)
(* it is itself the disturbance.                                           *)
LEMMA SendKeeps ==
    ASSUME Inv, Send, failed' \in BOOLEAN,
           UNCHANGED <<now, clock, update, stamp, fix, entry, received>>
    PROVE  /\ air' \subseteq Frame /\ beacon' \in Nat /\ silent' \in Nat
           /\ disturbed' \in 0..now' \cup {Never}
           /\ Timers' /\ Heard' /\ Positions'
<1> DEFINE frame == [timestamp |-> stamp, fix |-> fix, sent |-> now]
<1>1. PICK jitter \in 0..Jitter : beacon' = now + Period + jitter
    BY DEF Send, ResetBeaconTimer
<1>2. /\ air' = air \cup {frame} /\ silent' = now
      /\ disturbed' = IF fix = Never THEN now ELSE disturbed
    BY DEF Send
<1>3. /\ frame \in Frame /\ frame.fix = fix /\ frame.sent = now
    BY Numbers DEF Frame, Inv, Types
<1> HIDE DEF frame
<1>4. /\ air' \subseteq Frame /\ silent' \in Nat /\ disturbed' \in 0..now' \cup {Never}
    BY <1>2, <1>3, Numbers DEF Inv, Types
<1>5. /\ beacon' \in Nat /\ beacon' <= now + Period + Jitter /\ now <= beacon'
    BY <1>1, Constants, Numbers DEF Inv
<1>6. Timers'
    BY <1>5, Constants, Numbers DEF Inv, Timers
<1>7. Heard'
    BY <1>2, <1>5 DEF Heard
<1>8. Positions'
    <2>1. fix' # Never => Fresh(fix)'
        BY <1>2 DEF Inv, Positions, Fresh
    <2>2. ASSUME NEW f \in air'
          PROVE  /\ f.sent <= now' /\ now' <= f.sent + MaxLatency
                 /\ Fresh(f.fix)' \/ f.sent <= disturbed'
        <3>1. CASE f = frame
            BY <1>2, <1>3, <3>1, Constants, Numbers DEF Inv, Positions, Fresh
        <3>2. CASE f \in air
            BY <1>2, <3>2, Constants, Numbers DEF Inv, Positions, Fresh
        <3> QED BY <1>2, <3>1, <3>2
    <2>3. entry # NoEntry =>
            /\ entry.expiry <= now + EntryLifetime /\ entry.expiry \in Nat
            /\ \/ Fresh(entry.pv.fix)'
               \/ entry.expiry <= disturbed' + MaxLatency + EntryLifetime
        <3>1. entry # NoEntry => entry.expiry \in Nat
            BY DEF Inv, Types, Entries
        <3> QED BY <1>2, <3>1, Constants, Numbers DEF Inv, Positions, Fresh
    <2>4. disturbed' # Never /\ received' > disturbed' + MaxLatency + EntryLifetime
            => entry' # NoEntry /\ Fresh(entry.pv.fix)'
        BY <1>2, Constants, Numbers DEF Inv, Types, Positions, Fresh
    <2> QED BY <2>1, <2>2, <2>3, <2>4 DEF Positions
<1> QED BY <1>4, <1>5, <1>6, <1>7, <1>8

(* Without a transmission the timer and the frames stay as they are. *)
LEMMA QuietKeeps ==
    ASSUME Inv, SendNothing,
           UNCHANGED <<now, clock, update, stamp, fix, entry, received, beacon, failed>>
    PROVE  /\ UNCHANGED <<air, silent, disturbed>>
           /\ Timers' /\ Heard' /\ Positions'
<1>1. UNCHANGED <<air, silent, disturbed>>
    BY DEF SendNothing
<1>2. Timers' /\ Heard'
    BY <1>1 DEF Inv, Timers, Heard, Skipped
<1>3. Positions'
    BY <1>1 DEF Inv, Positions, Fresh
<1> QED BY <1>1, <1>2, <1>3

(* The transmit callback of an SHB request *)
LEMMA TransmitKeeps ==
    ASSUME Inv, TransmitShb, UNCHANGED <<now, clock, update, stamp, fix, entry, received>>
    PROVE  /\ air' \subseteq Frame /\ beacon' \in Nat \cup {Off} /\ silent' \in Nat
           /\ disturbed' \in 0..now' \cup {Never} /\ failed' \in BOOLEAN
           /\ Timers' /\ Heard' /\ Positions'
<1>1. CASE Send /\ failed' = FALSE
    BY <1>1, SendKeeps
<1>2. CASE SendNothing /\ UNCHANGED <<beacon, failed>>
    BY <1>2, QuietKeeps DEF Inv, Types
<1> QED BY <1>1, <1>2 DEF TransmitShb

(* request(ShbDataRequest), apart from the repetition *)
LEMMA CarryKeeps ==
    ASSUME Inv, NEW scf \in BOOLEAN, CarryOrTransmit(scf),
           UNCHANGED <<now, clock, update, stamp, fix, entry, received>>
    PROVE  /\ air' \subseteq Frame /\ beacon' \in Nat \cup {Off} /\ silent' \in Nat
           /\ disturbed' \in 0..now' \cup {Never} /\ failed' \in BOOLEAN
           /\ buffer' \in BOOLEAN
           /\ Timers' /\ Heard' /\ Positions'
<1>1. CASE scf /\ buffer' = TRUE /\ SendNothing /\ UNCHANGED <<beacon, failed>>
    BY <1>1, QuietKeeps DEF Inv, Types
<1>2. CASE TransmitShb /\ UNCHANGED buffer
    BY <1>2, TransmitKeeps DEF Inv, Types
<1> QED BY <1>1, <1>2 DEF CarryOrTransmit

(* An application's request keeps the invariant. *)
LEMMA RequestShbStep == ASSUME Inv, RequestShb PROVE Inv'
<1>1. PICK r \in Requests : rep' = AddRepetition(r, now) /\ CarryOrTransmit(r.scf)
    BY DEF RequestShb
<1>2. UNCHANGED <<now, clock, update, stamp, fix, entry, received>>
    BY DEF RequestShb, peer
<1>3. r \in Request /\ r.scf \in BOOLEAN
    BY BeaconingAssumption DEF Request
<1>4. rep' \in Repetition /\ Accounted(rep)'
    BY <1>1, <1>3, AddKept, Numbers DEF Inv
<1>5. /\ air' \subseteq Frame /\ beacon' \in Nat \cup {Off} /\ silent' \in Nat
      /\ disturbed' \in 0..now' \cup {Never} /\ failed' \in BOOLEAN
      /\ buffer' \in BOOLEAN
      /\ Timers' /\ Heard' /\ Positions'
    BY <1>1, <1>2, <1>3, CarryKeeps
<1>6. Types'
    BY <1>2, <1>4, <1>5 DEF Inv, Types
<1> QED BY <1>4, <1>5, <1>6 DEF Inv

(* A repetition keeps the invariant. *)
LEMMA RepeatStep == ASSUME Inv, Repeat PROVE Inv'
<1>1. /\ rep' = Trigger(rep, now) /\ CarryOrTransmit(rep.request.scf)
      /\ rep.pending /\ rep.deadline <= now
    BY DEF Repeat, Due
<1>2. UNCHANGED <<now, clock, update, stamp, fix, entry, received>>
    BY DEF Repeat, peer
<1>3. rep.request.scf \in BOOLEAN /\ rep \in Repetition
    BY DEF Inv, Types, Repetition, Request
<1>4. rep' \in Repetition /\ Accounted(rep)'
    BY <1>1, <1>3, TriggerKept, Numbers DEF Inv
<1>5. /\ air' \subseteq Frame /\ beacon' \in Nat \cup {Off} /\ silent' \in Nat
      /\ disturbed' \in 0..now' \cup {Never} /\ failed' \in BOOLEAN
      /\ buffer' \in BOOLEAN
      /\ Timers' /\ Heard' /\ Positions'
    BY <1>1, <1>2, <1>3, CarryKeeps
<1>6. Types'
    BY <1>2, <1>4, <1>5 DEF Inv, Types
<1> QED BY <1>4, <1>5, <1>6 DEF Inv

(* Sending the packet from the broadcast forwarding buffer keeps it. *)
LEMMA FlushStep == ASSUME Inv, Flush PROVE Inv'
<1>1. /\ TransmitShb /\ buffer' = FALSE
      /\ UNCHANGED <<now, clock, update, stamp, fix, entry, received, rep>>
    BY DEF Flush, peer
<1>2. /\ air' \subseteq Frame /\ beacon' \in Nat \cup {Off} /\ silent' \in Nat
      /\ disturbed' \in 0..now' \cup {Never} /\ failed' \in BOOLEAN
      /\ Timers' /\ Heard' /\ Positions'
    BY <1>1, TransmitKeeps
<1>3. Types'
    BY <1>1, <1>2 DEF Inv, Types
<1> QED BY <1>1, <1>2, <1>3 DEF Inv

(* A Beacon that is skipped because of timestamp 0 is not skipped twice in *)
(* a row.                                                                  *)
LEMMA BeaconStep == ASSUME Inv, BeaconTimerExpired PROVE Inv'
<1>1. /\ UNCHANGED <<now, clock, update, stamp, fix, entry, received, rep, buffer>>
      /\ beacon \in Nat /\ beacon <= update
    BY DEF BeaconTimerExpired, Due, Deadlines, peer, Inv, Types
<1>2. CASE Send /\ UNCHANGED failed
    <2>1. failed' \in BOOLEAN
        BY <1>2 DEF Inv, Types
    <2>2. /\ air' \subseteq Frame /\ beacon' \in Nat \cup {Off} /\ silent' \in Nat
          /\ disturbed' \in 0..now' \cup {Never}
          /\ Timers' /\ Heard' /\ Positions'
        BY <1>1, <1>2, <2>1, SendKeeps
    <2>3. Types'
        BY <1>1, <2>1, <2>2 DEF Inv, Types
    <2> QED BY <1>1, <2>2, <2>3 DEF Inv
<1>3. CASE beacon' = Off /\ failed' = TRUE /\ SendNothing
    <2>1. UNCHANGED <<air, silent, disturbed>>
        BY <1>3 DEF SendNothing
    <2>2. Types'
        BY <1>1, <1>3, <2>1 DEF Inv, Types
    <2>3. Timers' /\ Heard'
        BY <1>1, <1>3, <2>1 DEF Inv, Timers, Heard
    <2>4. Positions'
        BY <1>1, <2>1 DEF Inv, Positions, Fresh
    <2> QED BY <1>1, <2>2, <2>3, <2>4 DEF Inv
<1>4. CASE stamp = 0 /\ ResetBeaconTimer /\ SendNothing /\ UNCHANGED failed
    <2>1. UNCHANGED <<air, silent, disturbed, failed>>
        BY <1>4 DEF SendNothing
    <2>2. PICK jitter \in 0..Jitter : beacon' = now + Period + jitter
        BY <1>4 DEF ResetBeaconTimer
    <2>3. /\ beacon' \in Nat /\ beacon' <= now + Period + Jitter /\ now + Period <= beacon'
        BY <2>2, Constants, Numbers DEF Inv
    <2>4. Types'
        BY <1>1, <2>1, <2>3 DEF Inv, Types
    <2>5. Timers'
        BY <1>1, <2>1, <2>3, Constants, Numbers DEF Inv, Timers
    <2>6. Heard'
        <3> SUFFICES ASSUME fix # Never PROVE Skipped'
            BY <1>1 DEF Heard
        <3>1. /\ fix \in Nat /\ fix <= now /\ update = fix + UpdateInterval
              /\ now <= update + Delay /\ now <= beacon + Delay /\ beacon # Off
            BY <1>1, Constants, Numbers DEF Inv, Timers
        <3>2. beacon <= silent + Period + Jitter
            BY <1>1, <1>4, <3>1, Constants, Numbers DEF Inv, Heard, Skipped
        <3>3. beacon' <= silent' + 2 * (Period + Jitter) + Delay
            BY <1>1, <2>1, <2>3, <3>1, <3>2, Constants, Numbers DEF Inv
        <3>4. stamp' + beacon' + Delay - fix' < TimestampModulus
            <4>1. fix' = fix /\ stamp' = 0
                BY <1>1, <1>4
            <4>2. now <= fix + UpdateInterval + Delay
                BY <3>1, Constants
            <4>3. beacon' <= fix + UpdateInterval + Delay + Period + Jitter
                <5>1. now \in Nat /\ fix \in Nat
                    BY <3>1, Numbers DEF Inv
                <5> QED BY <2>3, <4>2, <5>1, Constants
            <4>4. 0 + beacon' + Delay - fix < TimestampModulus
                BY <2>3, <3>1, <4>3, NoWrap
            <4> QED BY <4>1, <4>4
        <3>5. update' < beacon'
            BY <1>1, <2>3, <3>1, Constants, Numbers DEF Inv
        <3> QED BY <3>3, <3>4, <3>5 DEF Skipped
    <2>7. Positions'
        BY <1>1, <2>1 DEF Inv, Positions, Fresh
    <2> QED BY <1>1, <2>4, <2>5, <2>6, <2>7 DEF Inv
<1> QED BY <1>2, <1>3, <1>4 DEF BeaconTimerExpired

(* A new position: the timestamp, if a Beacon was skipped since it was 0,  *)
(* has not wrapped again.                                                  *)
LEMMA UpdatePositionStep == ASSUME Inv, UpdatePosition PROVE Inv'
<1>1. /\ UNCHANGED <<now, clock, beacon, rep, buffer, failed, air, entry, received, disturbed>>
      /\ stamp' = TimestampOf(now + clock) /\ fix' = now /\ update' = now + UpdateInterval
      /\ silent' = IF fix = Never THEN now ELSE silent
      /\ update <= now
    BY DEF UpdatePosition, Due, peer
<1>2. Types'
    BY <1>1, TimestampType, Constants, Numbers DEF Inv, Types
<1>3. Timers'
    BY <1>1, Constants, Numbers DEF Inv, Timers
<1>4. Heard'
    <2> SUFFICES ASSUME beacon # Off
                 PROVE  beacon <= silent' + Period + Jitter \/ Skipped'
        BY <1>1 DEF Heard
    <2>1. beacon \in Nat /\ now <= beacon + Delay /\ beacon <= now + Period + Jitter
        BY Numbers DEF Inv, Timers
    <2>2. CASE fix = Never
        BY <1>1, <2>1, <2>2
    <2>3. CASE fix # Never /\ Skipped
        <3>1. /\ fix \in Nat /\ fix < now /\ stamp = TimestampOf(fix + clock)
            BY <1>1, <2>3, Constants, Numbers DEF Inv, Timers
        <3>2. stamp + (now - fix) < TimestampModulus
            BY <2>1, <2>3, <3>1, Constants, Numbers DEF Inv, Skipped
        <3>3. stamp' = stamp + (now - fix)
            <4>1. now - fix \in Nat /\ fix + clock \in Nat /\ fix + clock + (now - fix) = now + clock
                BY <3>1, Numbers DEF Inv
            <4> QED BY <1>1, <3>1, <3>2, <4>1, TimestampGrows
        <3>4. beacon' <= silent' + 2 * (Period + Jitter) + Delay
            BY <1>1, <2>3 DEF Skipped
        <3>5. stamp' + beacon' + Delay - fix' < TimestampModulus /\ stamp' # 0
            BY <1>1, <2>1, <2>3, <3>1, <3>3, Constants, Numbers DEF Inv, Skipped
        <3> QED BY <3>4, <3>5 DEF Skipped
    <2>4. CASE fix # Never /\ beacon <= silent + Period + Jitter
        BY <1>1, <2>4
    <2> QED BY <2>2, <2>3, <2>4 DEF Inv, Heard
<1>5. Positions'
    BY <1>1, Constants, Numbers DEF Inv, Types, Positions, Fresh
<1> QED BY <1>1, <1>2, <1>3, <1>4, <1>5 DEF Inv

(* Time passes while no timer is due. *)
LEMMA AdvanceStep == ASSUME Inv, Advance PROVE Inv'
<1>1. PICK d \in 1..MaxStep :
        /\ now + d <= MaxTime /\ now' = now + d
        /\ \A f \in air : now + d - f.sent <= MaxLatency
    BY DEF Advance
<1>2. UNCHANGED <<clock, update, stamp, beacon, rep, buffer, fix, failed, air, entry,
                  received, silent, disturbed>>
    BY DEF Advance, station, peer
<1>3. now < update /\ (beacon # Off => now < beacon)
    BY DEF Advance, Settled, Deadlines
<1>4. d \in Nat /\ d <= MaxStep /\ now' \in Nat /\ now <= now'
    BY <1>1, Constants, Numbers DEF Inv
<1>5. Types'
    BY <1>1, <1>2, <1>4, Constants, Numbers DEF Inv, Types
<1>6. Timers'
    BY <1>1, <1>2, <1>3, <1>4, Constants, Numbers DEF Inv, Timers
<1>7. Heard'
    BY <1>2 DEF Inv, Heard, Skipped
<1>8. Positions'
    <2>1. \A f \in air : f.sent \in Nat
        BY DEF Inv, Types, Frame
    <2>2. \A f \in air : f.sent <= now' /\ now' <= f.sent + MaxLatency
        BY <1>1, <1>4, <2>1, Constants, Numbers DEF Inv, Positions
    <2>3. entry # NoEntry => entry.expiry <= now' + EntryLifetime
        <3>1. entry # NoEntry => entry.expiry \in Nat
            BY DEF Inv, Types, Entries
        <3> QED BY <1>4, <3>1, Constants, Numbers DEF Inv, Positions
    <2> QED BY <1>2, <2>2, <2>3 DEF Inv, Positions, Fresh
<1> QED BY <1>2, <1>5, <1>6, <1>7, <1>8 DEF Inv

(* The sender is restarted: what is under way is from before. *)
LEMMA RestartStep == ASSUME Inv, Restart PROVE Inv'
<1>1. /\ UNCHANGED <<now, air, entry, received, silent>>
      /\ update' = now + UpdateInterval /\ stamp' = 0 /\ fix' = Never
      /\ beacon' = now /\ rep' = NoRepetition /\ buffer' = FALSE
      /\ failed' = FALSE /\ disturbed' = now
    BY DEF Restart, peer
<1>2. clock' \in Nat
    BY BeaconingAssumption, Numbers DEF Restart, Inv
<1>3. rep' \in Repetition /\ Accounted(rep)'
    BY <1>1, NoneKept
<1>4. Types'
    <2>1. /\ now + UpdateInterval \in Nat /\ 0 \in 0..MaxTimestamp /\ now \in 0..now
          /\ now \in Nat
        BY Constants, Numbers DEF Inv
    <2> QED BY <1>1, <1>2, <1>3, <2>1 DEF Inv, Types
<1>5. Timers' /\ Heard'
    BY <1>1, Constants, Numbers DEF Inv, Timers, Heard
<1>6. Positions'
    <2>1. \A f \in air : f.sent \in Nat /\ f.sent <= now /\ now <= f.sent + MaxLatency
        BY DEF Inv, Types, Frame, Positions
    <2>2. entry # NoEntry => entry.expiry \in Nat /\ entry.expiry <= now + EntryLifetime
        BY DEF Inv, Types, Entries, Positions
    <2>3. entry # NoEntry => entry.expiry <= disturbed' + MaxLatency + EntryLifetime
        BY <1>1, <2>2, Constants, Numbers DEF Inv
    <2>4. ~(received > now + MaxLatency + EntryLifetime)
        BY Constants, Numbers DEF Inv, Types
    <2> QED BY <1>1, <2>1, <2>2, <2>3, <2>4 DEF Positions
<1> QED BY <1>3, <1>4, <1>5, <1>6 DEF Inv

(* A frame is lost. *)
LEMMA LoseStep == ASSUME Inv, NEW f \in air, Lose(f) PROVE Inv'
<1>1. /\ air' \subseteq air
      /\ UNCHANGED <<now, clock, update, stamp, beacon, rep, buffer, fix, failed, entry,
                     received, silent, disturbed>>
    BY DEF Lose, station, peer
<1>2. Types' /\ Accounted(rep)' /\ Timers' /\ Heard'
    BY <1>1 DEF Inv, Types, Timers, Heard, Skipped
<1>3. Positions'
    BY <1>1 DEF Inv, Positions, Fresh
<1> QED BY <1>2, <1>3 DEF Inv

(* What an indication does to the entry: a position vector is taken and    *)
(* the entry refreshed, or all stays as it is.                             *)
LEMMA Indicated ==
    ASSUME NEW e \in Entries \cup {NoEntry}, NEW pv \in [timestamp : 0..MaxTimestamp,
                                                         fix : Nat \cup {Never}],
           NEW t \in Nat
    PROVE  /\ Indicate(e, pv, t) \in Entries
           /\ \/ Indicate(e, pv, t).pv = pv /\ Indicate(e, pv, t).expiry = t + EntryLifetime
              \/ /\ e # NoEntry /\ t <= e.expiry
                 /\ Indicate(e, pv, t).pv = e.pv /\ Indicate(e, pv, t).expiry = e.expiry
<1> DEFINE old == DropExpired(e, t)
           new == Update(old, pv, t)
<1>1. old \in Entries \cup {NoEntry} /\ (old # NoEntry => old = e /\ t <= e.expiry)
    BY DEF DropExpired, HasValue
<1>2. old # NoEntry => HasValue(old, t)
    BY DEF DropExpired, HasValue
<1> HIDE DEF old
<1>3. /\ new \in Entries
      /\ \/ new.pv = pv /\ new.expiry = t + EntryLifetime
         \/ old # NoEntry /\ new.pv = old.pv /\ new.expiry = old.expiry
    BY <1>1, <1>2, Constants DEF Update, Entries
<1>4. Indicate(e, pv, t) = SetNeighbour(new, t)
    BY DEF Indicate, old
<1> HIDE DEF new
<1>5. LET ind == SetNeighbour(new, t)
      IN  ind \in Entries /\ ind.pv = new.pv /\ ind.expiry = new.expiry
    BY <1>3, LocationTableAssumption DEF SetNeighbour, Entries
<1> QED BY <1>1, <1>3, <1>4, <1>5

(* A frame arrives.  One with an old position was sent before the sender   *)
(* was disturbed; an entry with an old position has expired, and is        *)
(* dropped, when the lifetime is over.                                     *)
LEMMA ReceiveStep == ASSUME Inv, NEW f \in air, Receive(f) PROVE Inv'
<1> DEFINE pv == [timestamp |-> f.timestamp, fix |-> f.fix]
           new == Indicate(entry, pv, now)
<1>1. /\ entry' = new /\ received' = now /\ air' = air \ {f}
      /\ UNCHANGED <<now, clock, update, stamp, beacon, rep, buffer, fix, failed,
                     silent, disturbed>>
    BY DEF Receive, station
<1>2. /\ f \in Frame /\ f.sent \in Nat
      /\ pv \in [timestamp : 0..MaxTimestamp, fix : Nat \cup {Never}] /\ pv.fix = f.fix
    BY DEF Inv, Types, Frame
<1> HIDE DEF pv
<1>3. /\ new \in Entries
      /\ \/ new.pv = pv /\ new.expiry = now + EntryLifetime
         \/ /\ entry # NoEntry /\ now <= entry.expiry
            /\ new.pv = entry.pv /\ new.expiry = entry.expiry
    BY <1>2, Indicated, Numbers DEF Inv, Types
<1> HIDE DEF new
<1>4. Types'
    BY <1>1, <1>3, Numbers DEF Inv, Types
<1>5. Timers' /\ Heard' /\ Accounted(rep)'
    BY <1>1 DEF Inv, Timers, Heard, Skipped
<1>6. Positions'
    <2> DEFINE limit == disturbed + MaxLatency + EntryLifetime
    <2>1. /\ now <= f.sent + MaxLatency
          /\ Fresh(f.fix) \/ f.sent <= disturbed
          /\ now \in Nat
        BY Numbers DEF Inv, Positions
    <2>2. new # NoEntry /\ new.expiry \in Nat
        BY <1>3, EntryAssumption DEF Entries
    <2>3. new.expiry <= now + EntryLifetime
        BY <1>3, <2>1, <2>2, Constants DEF Inv, Positions
    <2>4. Fresh(new.pv.fix) \/ new.expiry <= limit
        <3>1. CASE new.pv = pv /\ new.expiry = now + EntryLifetime
            <4>1. CASE Fresh(f.fix)
                BY <1>2, <3>1, <4>1
            <4>2. CASE ~Fresh(f.fix)
                BY <1>2, <2>1, <3>1, <4>2, Constants, Numbers DEF Inv, Fresh
            <4> QED BY <4>1, <4>2
        <3>2. CASE /\ entry # NoEntry
                   /\ new.pv = entry.pv /\ new.expiry = entry.expiry
            BY <3>2 DEF Inv, Positions
        <3> QED BY <1>3, <3>1, <3>2
    <2>5. disturbed # Never /\ now > limit => Fresh(new.pv.fix)
        <3>1. CASE new.pv = pv
            BY <1>2, <2>1, <3>1, Constants, Numbers DEF Inv, Fresh
        <3>2. CASE /\ entry # NoEntry /\ now <= entry.expiry
                   /\ new.pv = entry.pv /\ new.expiry = entry.expiry
            BY <2>1, <2>2, <2>4, <3>2, Constants, Numbers DEF Inv, Fresh
        <3> QED BY <1>3, <3>1, <3>2
    <2>6. \A position : Fresh(position)' <=> Fresh(position)
        BY <1>1 DEF Fresh
    <2>7. /\ fix' # Never => Fresh(fix)'
          /\ \A g \in air' : /\ g.sent <= now' /\ now' <= g.sent + MaxLatency
                             /\ Fresh(g.fix)' \/ g.sent <= disturbed'
        BY <1>1, <2>6 DEF Inv, Positions
    <2> QED BY <1>1, <2>2, <2>3, <2>4, <2>5, <2>6, <2>7 DEF Positions
<1> QED BY <1>4, <1>5, <1>6 DEF Inv

(* The invariant holds at the start. *)
LEMMA InitInv == ASSUME Init PROVE Inv
<1>1. NoRepetition \in Repetition /\ Accounted(NoRepetition)
    BY NoneKept
<1>2. Types
    <2>1. 0 \in 0..MaxTimestamp /\ 0 \in 0..MaxTime /\ InitialClock \in Nat /\ 0 \in 0..0
        BY Constants, BeaconingAssumption
    <2> QED BY <1>1, <2>1, Constants DEF Init, Types
<1>3. Timers /\ Heard
    BY Constants DEF Init, Timers, Heard
<1>4. Positions
    BY DEF Init, Positions
<1> QED BY <1>1, <1>2, <1>3, <1>4 DEF Init, Inv

(* Every step keeps the invariant. *)
LEMMA StepInv == ASSUME Inv, [Next]_vars PROVE Inv'
<1>1. CASE UNCHANGED vars
    BY <1>1 DEF vars, station, peer, Inv, Types, Timers, Heard, Skipped, Positions, Fresh
<1>2. CASE Next
    BY <1>2, AdvanceStep, UpdatePositionStep, BeaconStep, RequestShbStep, RepeatStep,
       FlushStep, RestartStep, ReceiveStep, LoseStep DEF Next
<1> QED BY <1>1, <1>2

(* Types, the account of the repetitions, the timers, the transmissions    *)
(* and the ages of positions are as stated in every reachable state.       *)
THEOREM Invariant == Spec => []Inv
BY InitInv, StepInv, PTL DEF Spec

(* A request is repeated as long as its maximum says, whatever delays the  *)
(* repetitions meet: Repeater::trigger takes interval and delay off what   *)
(* is left of the maximum, and stops only when no repetition fits in.      *)
THEOREM RepetitionsAlwaysBounded == Spec => []RepetitionsBounded
<1>1. Inv => RepetitionsBounded
    <2> SUFFICES ASSUME Inv PROVE RepetitionsBounded
        OBVIOUS
    <2> DEFINE max == rep.request.maximum
               interval == rep.request.interval
               p == rep.count * interval
    <2>1. /\ rep.pending \in BOOLEAN /\ rep.maximum \in Int /\ rep.deadline \in Nat
          /\ rep.start \in Nat /\ rep.count \in Nat /\ rep.late \in Nat
          /\ max \in Nat /\ interval \in Nat
        BY DEF Inv, Types, Repetition, Request
    <2>2. p \in Nat /\ (rep.count + 1) * interval = p + interval
        BY <2>1, OneMore
    <2>3. /\ rep.maximum = max - p - rep.late /\ rep.deadline = rep.start + (p + interval) + rep.late
          /\ rep.pending <=> interval > 0 /\ rep.maximum >= interval
          /\ p <= max
        BY <2>2 DEF Inv, Accounted
    <2>4. TypeOK
        <3>1. \A f \in air : f.timestamp \in 0..MaxTimestamp /\ f.sent \in 0..now
            BY Numbers DEF Inv, Types, Frame, Positions
        <3> QED BY <2>1, <2>3, <3>1 DEF Inv, Types, TypeOK
    <2> HIDE DEF max, interval, p
    <2>5. /\ rep.pending => rep.deadline <= rep.start + max
          /\ p <= max
          /\ ~rep.pending /\ interval > 0 => (p + interval) + rep.late > max
        BY <2>1, <2>2, <2>3
    <2> QED BY <2>2, <2>4, <2>5 DEF RepetitionsBounded, max, interval, p
<1> QED BY <1>1, Invariant, PTL

(* The sender is heard of regularly. *)
LEMMA SilentBound ==
    ASSUME Inv, fix # Never, ~failed
    PROVE  now <= silent + 2 * (Period + Jitter + Delay)
<1>1. beacon \in Nat /\ now <= beacon + Delay /\ now \in Nat /\ silent \in Nat
    BY Numbers DEF Inv, Timers
<1>2. beacon <= silent + 2 * (Period + Jitter) + Delay
    BY <1>1, Constants DEF Inv, Heard, Skipped
<1> QED BY <1>1, <1>2, Constants

(* A station with a position is heard of at least every two beacon         *)
(* intervals, unless a Beacon could not be encapsulated                    *)
(* (on_beacon_timer_expired, reset_beacon_timer): the timer is running,    *)
(* and a Beacon that is skipped since the timestamp is 0 is followed by    *)
(* one that is not.                                                        *)
THEOREM SilentOnlyEverAfterFailure == Spec => []SilentOnlyAfterFailure
<1>1. Inv => SilentOnlyAfterFailure
    <2> SUFFICES ASSUME Inv, fix # Never, ~failed
                 PROVE  now - silent <= 2 * (Period + Jitter + MaxStep - 1)
        BY DEF SilentOnlyAfterFailure
    <2>1. now \in Nat /\ silent \in Nat
        BY Numbers DEF Inv
    <2> QED BY <2>1, SilentBound, Constants
<1> QED BY <1>1, Invariant, PTL

(* A sender whose timestamps went back, after a restart or before its      *)
(* first position, is known with a new position as soon as it is heard of  *)
(* a lifetime of its entry later, in whatever order the frames arrive      *)
(* (LocationTable::update, SoftStateMap::drop_expired and refresh).        *)
THEOREM AlwaysHeals == Spec => []Heals
<1>1. Inv => Heals
    BY DEF Inv, Positions, Fresh, Heals
<1> QED BY <1>1, Invariant, PTL

-----------------------------------------------------------------------------
(* A neighbour is kept *)

(* The longest time from a position to the transmission of a newer one,    *)
(* and to its arrival                                                      *)
Gap == UpdateInterval + Delay + 2 * (Period + Jitter + Delay)
Bound == Gap + MaxLatency

(* What the timing must be for a neighbour to be kept: entries live long   *)
(* enough, neighbour flags too if they expire at all, and timestamps can   *)
(* be told apart.  With the default parameters these are 20 s, no expiry   *)
(* and 24 days, and the bound is some 8 s.                                 *)
TimingFits ==
    /\ Bound <= EntryLifetime /\ Bound <= MaxTimestamp \div 2
    /\ NeighbourExpiry > 0 => Bound < NeighbourExpiry

Undisturbed == disturbed = Never /\ spent.lost = 0 /\ spent.failures = 0

HistoryTypes ==
    /\ last \in Nat \cup {Never}
    /\ spent \in [{"requests", "failures", "lost", "restarts"} -> Nat]

(* A newer position than this one has been sent in time and is under way. *)
Followed(position) == \E f \in air : f.fix > position /\ f.sent <= position + Gap

(* The latest transmission, and the positions in the frames under way *)
Transmissions ==
    /\ ~failed
    /\ last # Never =>
            fix # Never /\ last <= fix /\ silent <= last + UpdateInterval + Delay
    /\ \A f \in air :
            /\ last # Never /\ f.fix \in Nat /\ f.fix <= last
            /\ f.timestamp = TimestampOf(f.fix + clock)
            /\ f.fix <= f.sent /\ f.sent <= f.fix + UpdateInterval + Delay

(* What the receiver knows *)
Known ==
    /\ entry # NoEntry =>
            /\ last # Never /\ entry.pv.fix \in Nat /\ entry.pv.fix <= last
            /\ entry.pv.timestamp = TimestampOf(entry.pv.fix + clock)
            /\ entry.expiry >= entry.pv.fix + EntryLifetime
            /\ entry.neighbour = Never
                \/ (NeighbourExpiry > 0 /\ entry.neighbour >= entry.pv.fix + NeighbourExpiry)
            /\ entry.pv.fix < last => Followed(entry.pv.fix)
    /\ \A f \in air : f.fix < last /\ (entry # NoEntry => entry.pv.fix <= f.fix) => Followed(f.fix)

Inv2 == HistoryTypes /\ (Undisturbed => Transmissions /\ Known)

(* Of two times less than half the modulus apart, is_greater finds out     *)
(* which one is later, although timestamps wrap.                           *)
LEMMA TimestampOrder ==
    ASSUME NEW t \in Nat, NEW d \in Nat, 0 < d, d <= MaxTimestamp \div 2
    PROVE  /\ Before(TimestampOf(t), TimestampOf(t + d))
           /\ ~Before(TimestampOf(t + d), TimestampOf(t))
<1> DEFINE x == TimestampOf(t)
           y == TimestampOf(t + d)
           h == MaxTimestamp \div 2
           m == TimestampModulus
<1>1. m \in Nat \ {0} /\ MaxTimestamp = m - 1 /\ x \in 0..(m - 1) /\ y \in 0..(m - 1)
    BY TimestampType, TimestampAssumption DEF MaxTimestamp
<1>2. h \in Nat /\ h + h <= m - 1
    BY TimestampAssumption DEF MaxTimestamp
<1>3. y = x + d \/ y = x + d - m
    <2>1. CASE x + d < m
        BY <2>1, TimestampGrows
    <2>2. CASE x + d >= m
        <3> DEFINE q == (t \div m) + 1
                   r == x + d - m
        <3>1. q \in Int /\ r \in 0..(m - 1)
            BY <1>1, <1>2, <2>2, TimestampAssumption
        <3>2. t + d = m * q + r
            <4>1. t = m * (t \div m) + x /\ t \div m \in Int
                BY TimestampAssumption DEF TimestampOf
            <4>2. m * q = m * (t \div m) + m
                BY <1>1, <4>1
            <4> QED BY <1>1, <4>1, <4>2
        <3> HIDE DEF q, r
        <3>3. (m * q + r) % m = r
            BY <1>1, <3>1, Remainder
        <3> QED BY <3>2, <3>3 DEF TimestampOf, r
    <2> QED BY <1>1, <2>1, <2>2
<1>4. d <= h
    OBVIOUS
<1> HIDE DEF x, y, h, m
<1>5. Before(x, y) /\ ~Before(y, x)
    BY <1>1, <1>2, <1>3, <1>4 DEF Before, IsGreater, h
<1> QED BY <1>5 DEF x, y

(* The position that the receiver knows is not older than the bound. *)
LEMMA InTime ==
    ASSUME Inv, Inv2, Undisturbed, entry # NoEntry
    PROVE  now <= entry.pv.fix + Bound
<1> DEFINE position == entry.pv.fix
<1>1. /\ last \in Nat /\ position \in Nat /\ position <= last /\ now \in Nat /\ silent \in Nat
      /\ ~failed /\ fix # Never /\ silent <= last + UpdateInterval + Delay
    BY Numbers DEF Inv, Inv2, HistoryTypes, Transmissions, Known
<1>2. Gap \in Nat /\ Bound = Gap + MaxLatency
      /\ Gap = UpdateInterval + Delay + 2 * (Period + Jitter + Delay)
    BY Constants DEF Gap, Bound
<1>3. CASE position = last
    BY <1>1, <1>2, <1>3, SilentBound, Constants
<1>4. CASE position < last
    <2>1. PICK f \in air : f.sent <= position + Gap
        BY <1>4 DEF Inv2, Known, Followed
    <2>2. now <= f.sent + MaxLatency /\ f.sent \in Nat
        BY DEF Inv, Types, Frame, Positions
    <2> QED BY <1>1, <1>2, <2>1, <2>2, Constants
<1> QED BY <1>1, <1>3, <1>4

(* A frame is sent: it follows the positions that were sent before. *)
LEMMA SendKnown ==
    ASSUME Inv, Inv2, Send, failed' => failed, Undisturbed' => Undisturbed,
           UNCHANGED <<now, clock, update, stamp, fix, entry, received>>
    PROVE  last' \in Nat \cup {Never} /\ (Undisturbed' => Transmissions' /\ Known')
<1> DEFINE frame == [timestamp |-> stamp, fix |-> fix, sent |-> now]
<1>1. /\ air' = air \cup {frame} /\ last' = fix /\ silent' = now
      /\ disturbed' = IF fix = Never THEN now ELSE disturbed
    BY DEF Send
<1>2. last' \in Nat \cup {Never}
    BY <1>1, Numbers DEF Inv
<1> SUFFICES ASSUME Undisturbed' PROVE Transmissions' /\ Known'
    BY <1>2
<1>3. /\ fix \in Nat /\ now \in Nat /\ silent \in Nat /\ clock \in Nat /\ fix # Never
    BY <1>1, Constants, Numbers DEF Inv, Undisturbed
<1>4. /\ fix <= now /\ now <= fix + UpdateInterval + Delay /\ stamp = TimestampOf(fix + clock)
    BY <1>3, Constants, Numbers DEF Inv, Timers
<1>5. Transmissions /\ Known
    BY DEF Inv2
<1>6. frame \in air' /\ frame.fix = fix /\ frame.sent = now /\ frame.timestamp = stamp
    BY <1>1
<1> HIDE DEF frame
<1>7. last # Never => last \in Nat /\ last <= fix /\ now <= last + Gap
    <2> SUFFICES ASSUME last # Never PROVE last \in Nat /\ last <= fix /\ now <= last + Gap
        OBVIOUS
    <2>1. last \in Nat /\ last <= fix /\ silent <= last + UpdateInterval + Delay
        BY <1>5 DEF Transmissions, Inv2, HistoryTypes
    <2>2. now <= silent + 2 * (Period + Jitter + Delay)
        BY <1>3, <1>5, SilentBound DEF Transmissions
    <2> QED BY <1>3, <2>1, <2>2, Constants DEF Gap
<1>8. Transmissions'
    <2>1. ~failed' /\ last' # Never /\ last' <= fix'
        BY <1>1, <1>3, <1>5 DEF Transmissions
    <2>2. silent' <= last' + UpdateInterval + Delay
        BY <1>1, <1>4
    <2>3. ASSUME NEW f \in air'
          PROVE  /\ f.fix \in Nat /\ f.fix <= fix
                 /\ f.timestamp = TimestampOf(f.fix + clock)
                 /\ f.fix <= f.sent /\ f.sent <= f.fix + UpdateInterval + Delay
        <3>1. CASE f = frame
            BY <1>3, <1>4, <1>6, <3>1
        <3>2. CASE f \in air
            BY <1>3, <1>5, <1>7, <3>2 DEF Transmissions
        <3> QED BY <1>1, <3>1, <3>2
    <2> QED BY <1>1, <2>1, <2>2, <2>3 DEF Transmissions
<1>9. ASSUME NEW position \in Nat, last # Never, position <= last, position < fix,
             position < last => Followed(position)
      PROVE  Followed(position)'
    <2>1. CASE position < last
        BY <1>1, <1>9, <2>1 DEF Followed
    <2>2. CASE position = last
        BY <1>6, <1>7, <1>9, <2>2 DEF Followed
    <2> QED BY <1>7, <1>9, <2>1, <2>2
<1>10. entry # NoEntry =>
            /\ entry.pv.fix \in Nat /\ entry.pv.fix <= fix /\ last # Never
            /\ entry.pv.fix < fix => Followed(entry.pv.fix)'
    BY <1>3, <1>5, <1>7, <1>9 DEF Known
<1>11. ASSUME NEW f \in air', f.fix < fix, entry # NoEntry => entry.pv.fix <= f.fix
       PROVE  Followed(f.fix)'
    <2>1. f \in air
        BY <1>1, <1>3, <1>6, <1>11
    <2>2. last # Never /\ f.fix \in Nat /\ f.fix <= last
        BY <1>5, <2>1 DEF Transmissions
    <2>3. f.fix < last => Followed(f.fix)
        BY <1>5, <1>11, <2>1 DEF Known
    <2> QED BY <1>9, <1>11, <2>2, <2>3
<1>12. Known'
    BY <1>1, <1>3, <1>5, <1>10, <1>11 DEF Known
<1> QED BY <1>8, <1>12

(* Nothing is sent. *)
LEMMA QuietKnown ==
    ASSUME Inv2, SendNothing, Undisturbed' => Undisturbed,
           UNCHANGED <<clock, fix, failed, entry>>
    PROVE  last' \in Nat \cup {Never} /\ (Undisturbed' => Transmissions' /\ Known')
<1>1. UNCHANGED <<air, last, silent, disturbed>>
    BY DEF SendNothing
<1> QED BY <1>1 DEF Inv2, HistoryTypes, Transmissions, Known, Followed

(* The transmit callback sends a frame or nothing. *)
LEMMA TransmitKnown ==
    ASSUME Inv, Inv2, TransmitShb, Undisturbed' => Undisturbed,
           UNCHANGED <<now, clock, update, stamp, fix, entry, received>>
    PROVE  last' \in Nat \cup {Never} /\ (Undisturbed' => Transmissions' /\ Known')
<1>1. CASE Send /\ failed' = FALSE
    BY <1>1, SendKnown
<1>2. CASE SendNothing /\ UNCHANGED <<beacon, failed>>
    BY <1>2, QuietKnown
<1> QED BY <1>1, <1>2 DEF TransmitShb

(* A request is carried or transmitted. *)
LEMMA CarryKnown ==
    ASSUME Inv, Inv2, NEW scf, CarryOrTransmit(scf), Undisturbed' => Undisturbed,
           UNCHANGED <<now, clock, update, stamp, fix, entry, received>>
    PROVE  last' \in Nat \cup {Never} /\ (Undisturbed' => Transmissions' /\ Known')
<1>1. CASE SendNothing /\ UNCHANGED <<beacon, failed>>
    BY <1>1, QuietKnown
<1>2. CASE TransmitShb
    BY <1>2, TransmitKnown
<1> QED BY <1>1, <1>2 DEF CarryOrTransmit

(* Events are counted. *)
LEMMA Counted ==
    ASSUME HistoryTypes, Spend("requests", MaxRequests) \/ Fault("failures") \/ Fault("lost")
                         \/ Fault("restarts") \/ UNCHANGED spent
    PROVE  /\ spent' \in [{"requests", "failures", "lost", "restarts"} -> Nat]
           /\ spent'.lost = 0 /\ spent'.failures = 0 => spent.lost = 0 /\ spent.failures = 0
           /\ Fault("failures") => spent'.failures # 0
           /\ Fault("lost") => spent'.lost # 0
<1>1. ASSUME NEW kind \in {"requests", "failures", "lost", "restarts"},
             spent' = [spent EXCEPT ![kind] = @ + 1]
      PROVE  /\ spent' \in [{"requests", "failures", "lost", "restarts"} -> Nat]
             /\ spent'[kind] # 0
             /\ \A k \in {"requests", "failures", "lost", "restarts"} \ {kind} :
                    spent'[k] = spent[k]
    BY <1>1 DEF HistoryTypes
<1>2. Fault("failures") => spent'.failures # 0
    BY <1>1 DEF Fault, Spend
<1>3. Fault("lost") => spent'.lost # 0
    BY <1>1 DEF Fault, Spend
<1>4. CASE UNCHANGED spent
    BY <1>2, <1>3, <1>4 DEF HistoryTypes
<1>5. CASE \E kind \in {"requests", "failures", "lost", "restarts"} :
                spent' = [spent EXCEPT ![kind] = @ + 1]
    BY <1>1, <1>2, <1>3, <1>5
<1> QED BY <1>4, <1>5 DEF Fault, Spend

(* The sender's timestamps do not come back. *)
LEMMA StaysDisturbed ==
    ASSUME Inv, Inv2, Send \/ SendNothing,
           spent'.lost = 0 /\ spent'.failures = 0 => spent.lost = 0 /\ spent.failures = 0
    PROVE  Undisturbed' => Undisturbed
<1>1. disturbed' = Never => disturbed = Never
    BY Constants, Numbers DEF Inv, Send, SendNothing
<1> QED BY <1>1 DEF Undisturbed

(* An application's request keeps what is known about the neighbour. *)
LEMMA RequestShbKnown == ASSUME Inv, Inv2, RequestShb PROVE Inv2'
<1>1. PICK r \in Requests : CarryOrTransmit(r.scf) /\ Spend("requests", MaxRequests)
    BY DEF RequestShb
<1>2. UNCHANGED <<now, clock, update, stamp, fix, entry, received>>
    BY DEF RequestShb, peer
<1>3. /\ spent' \in [{"requests", "failures", "lost", "restarts"} -> Nat]
      /\ spent'.lost = 0 /\ spent'.failures = 0 => spent.lost = 0 /\ spent.failures = 0
    BY <1>1, Counted DEF Inv2
<1>4. Send \/ SendNothing
    BY <1>1 DEF CarryOrTransmit, TransmitShb
<1>5. Undisturbed' => Undisturbed
    BY <1>3, <1>4, StaysDisturbed
<1> QED BY <1>1, <1>2, <1>3, <1>5, CarryKnown DEF Inv2, HistoryTypes

(* So does a repetition, *)
LEMMA RepeatKnown == ASSUME Inv, Inv2, Repeat PROVE Inv2'
<1>1. CarryOrTransmit(rep.request.scf) /\ UNCHANGED spent
    BY DEF Repeat
<1>2. UNCHANGED <<now, clock, update, stamp, fix, entry, received>>
    BY DEF Repeat, peer
<1>3. Send \/ SendNothing
    BY <1>1 DEF CarryOrTransmit, TransmitShb
<1>4. Undisturbed' => Undisturbed
    BY <1>1, <1>3, StaysDisturbed
<1> QED BY <1>1, <1>2, <1>4, CarryKnown DEF Inv2, HistoryTypes

(* and sending the packet from the broadcast forwarding buffer. *)
LEMMA FlushKnown == ASSUME Inv, Inv2, Flush PROVE Inv2'
<1>1. TransmitShb /\ UNCHANGED spent
    BY DEF Flush
<1>2. UNCHANGED <<now, clock, update, stamp, fix, entry, received>>
    BY DEF Flush, peer
<1>3. Send \/ SendNothing
    BY <1>1 DEF TransmitShb
<1>4. Undisturbed' => Undisturbed
    BY <1>1, <1>3, StaysDisturbed
<1> QED BY <1>1, <1>2, <1>4, TransmitKnown DEF Inv2, HistoryTypes

(* A Beacon is sent, skipped, or cannot be encapsulated. *)
LEMMA BeaconKnown == ASSUME Inv, Inv2, BeaconTimerExpired PROVE Inv2'
<1>1. UNCHANGED <<now, clock, update, stamp, fix, entry, received>>
    BY DEF BeaconTimerExpired, peer
<1>2. CASE Send /\ UNCHANGED <<failed, spent>>
    <2>1. Undisturbed' => Undisturbed
        BY <1>2, StaysDisturbed
    <2> QED BY <1>1, <1>2, <2>1, SendKnown DEF Inv2, HistoryTypes
<1>3. CASE SendNothing /\ UNCHANGED <<failed, spent>>
    <2>1. Undisturbed' => Undisturbed
        BY <1>3, StaysDisturbed
    <2> QED BY <1>1, <1>3, <2>1, QuietKnown DEF Inv2, HistoryTypes
<1>4. CASE Fault("failures") /\ SendNothing
    <2>1. spent' \in [{"requests", "failures", "lost", "restarts"} -> Nat] /\ ~Undisturbed'
        BY <1>4, Counted DEF Inv2, Undisturbed
    <2> QED BY <1>4, <2>1 DEF Inv2, HistoryTypes, SendNothing
<1> QED BY <1>2, <1>3, <1>4 DEF BeaconTimerExpired

(* A new position: it is not yet sent. *)
LEMMA UpdatePositionKnown == ASSUME Inv, Inv2, UpdatePosition PROVE Inv2'
<1>1. /\ UNCHANGED <<now, clock, failed, air, entry, last, disturbed, spent>>
      /\ fix' = now /\ silent' = IF fix = Never THEN now ELSE silent
    BY DEF UpdatePosition, peer
<1> SUFFICES ASSUME Undisturbed' PROVE Transmissions' /\ Known'
    BY <1>1 DEF Inv2, HistoryTypes
<1>2. Transmissions /\ Known
    BY <1>1 DEF Inv2, Undisturbed
<1>3. last # Never => fix' # Never /\ last' <= fix' /\ silent' = silent
    <2> SUFFICES ASSUME last # Never PROVE fix' # Never /\ last' <= fix' /\ silent' = silent
        OBVIOUS
    <2>1. fix # Never /\ fix <= now /\ last <= fix
        BY <1>2 DEF Transmissions, Inv, Timers
    <2>2. fix \in Nat /\ now \in Nat /\ last \in Nat /\ now # Never
        BY <2>1, Numbers, Constants DEF Inv, Inv2, HistoryTypes
    <2> QED BY <1>1, <2>1, <2>2
<1>4. Transmissions'
    BY <1>1, <1>2, <1>3 DEF Transmissions
<1>5. Known'
    BY <1>1, <1>2 DEF Known, Followed
<1> QED BY <1>4, <1>5

(* Time passes. *)
LEMMA AdvanceKnown == ASSUME Inv2, Advance PROVE Inv2'
<1>1. UNCHANGED <<clock, fix, failed, air, entry, last, silent, disturbed, spent>>
    BY DEF Advance, station, peer
<1> QED BY <1>1 DEF Inv2, HistoryTypes, Undisturbed, Transmissions, Known, Followed

(* A frame is lost. *)
LEMMA LoseKnown == ASSUME Inv2, NEW f \in air, Lose(f) PROVE Inv2'
<1>1. spent' \in [{"requests", "failures", "lost", "restarts"} -> Nat] /\ ~Undisturbed'
    BY Counted DEF Inv2, Undisturbed, Lose
<1> QED BY <1>1 DEF Inv2, HistoryTypes, Lose

(* The sender is restarted. *)
LEMMA RestartKnown == ASSUME Inv, Inv2, Restart PROVE Inv2'
<1>1. spent' \in [{"requests", "failures", "lost", "restarts"} -> Nat]
    BY Counted DEF Inv2, Restart
<1>2. disturbed' # Never /\ last' = last
    BY Constants, Numbers DEF Inv, Restart
<1> QED BY <1>1, <1>2 DEF Inv2, HistoryTypes, Undisturbed

(* What an indication does to the entry of a sender that is not known, or  *)
(* whose entry has not expired                                             *)
LEMMA IndicateKnown ==
    ASSUME NEW pv, NEW e, NEW t \in Nat, e = NoEntry \/ HasValue(e, t)
    PROVE  LET new == Indicate(e, pv, t)
               newer == e = NoEntry \/ Before(e.pv.timestamp, pv.timestamp)
           IN  /\ new.pv = IF newer THEN pv ELSE e.pv
               /\ new.expiry = IF newer THEN t + EntryLifetime ELSE e.expiry
               /\ new.neighbour = IF NeighbourExpiry > 0 THEN t + NeighbourExpiry ELSE Never
<1> DEFINE newer == e = NoEntry \/ Before(e.pv.timestamp, pv.timestamp)
<1>1. DropExpired(e, t) = e
    BY DEF DropExpired
<1>2. newer \/ HasValue(e, t)
    OBVIOUS
<1> HIDE DEF newer
<1>3. Update(e, pv, t) = [pv        |-> IF newer THEN pv ELSE e.pv,
                          expiry    |-> IF newer THEN t + EntryLifetime ELSE e.expiry,
                          neighbour |-> IF e = NoEntry THEN 0 ELSE e.neighbour]
    BY <1>2 DEF Update, newer
<1>4. Indicate(e, pv, t) = SetNeighbour(Update(e, pv, t), t)
    BY <1>1 DEF Indicate
<1> QED BY <1>3, <1>4 DEF SetNeighbour, newer

(* A time is not before itself. *)
LEMMA NotBeforeItself ==
    ASSUME NEW x \in 0..MaxTimestamp
    PROVE  ~Before(x, x)
BY TimestampAssumption DEF Before, IsGreater, MaxTimestamp

(* Two times within the bound of each other are told apart. *)
LEMMA BeforeIffEarlier ==
    ASSUME TimingFits, NEW s \in Nat, NEW t \in Nat, NEW c \in Nat, s <= t + Bound, t <= s + Bound
    PROVE  Before(TimestampOf(s + c), TimestampOf(t + c)) <=> s < t
<1>1. Bound \in Nat /\ Bound <= MaxTimestamp \div 2
    BY Constants DEF Bound, Gap, TimingFits
<1>2. MaxTimestamp \div 2 \in Nat
    BY TimestampAssumption DEF MaxTimestamp
<1>3. CASE s < t
    <2> DEFINE d == t - s
    <2>1. d \in Nat /\ 0 < d /\ d <= MaxTimestamp \div 2 /\ t + c = (s + c) + d /\ s + c \in Nat
        BY <1>1, <1>2, <1>3
    <2> HIDE DEF d
    <2> QED BY <1>3, <2>1, TimestampOrder
<1>4. CASE t < s
    <2> DEFINE d == s - t
    <2>1. d \in Nat /\ 0 < d /\ d <= MaxTimestamp \div 2 /\ s + c = (t + c) + d /\ t + c \in Nat
        BY <1>1, <1>2, <1>4
    <2> HIDE DEF d
    <2>2. ~Before(TimestampOf((t + c) + d), TimestampOf(t + c))
        BY <2>1, TimestampOrder
    <2> QED BY <1>4, <2>1, <2>2
<1>5. CASE s = t
    <2>1. TimestampOf(t + c) \in 0..MaxTimestamp
        BY TimestampType
    <2> QED BY <1>5, <2>1, NotBeforeItself
<1> QED BY <1>3, <1>4, <1>5

(* A frame arrives: the receiver knows the newer of the position in it and *)
(* the one it knew.                                                        *)
LEMMA ReceiveKnown == ASSUME TimingFits, Inv, Inv2, NEW g \in air, Receive(g) PROVE Inv2'
<1>1. /\ UNCHANGED <<now, clock, failed, fix, last, silent, disturbed, spent>>
      /\ air' = air \ {g}
    BY DEF Receive, station
<1>2. entry' = Indicate(entry, [timestamp |-> g.timestamp, fix |-> g.fix], now)
    BY DEF Receive
<1> SUFFICES ASSUME Undisturbed' PROVE Transmissions' /\ Known'
    BY <1>1 DEF Inv2, HistoryTypes
<1>3. Undisturbed /\ Transmissions /\ Known
    BY <1>1 DEF Inv2, Undisturbed
<1>4. /\ now \in Nat /\ clock \in Nat /\ last \in Nat /\ fix \in Nat /\ last # Never
      /\ g.fix \in Nat /\ g.fix <= now /\ g.fix <= last /\ last <= now
      /\ now <= g.fix + UpdateInterval + Delay + MaxLatency
      /\ g.timestamp = TimestampOf(g.fix + clock)
    <2>1. /\ now \in Nat /\ clock \in Nat /\ fix \in Nat /\ fix <= now
          /\ last # Never /\ last <= fix /\ g.fix \in Nat /\ g.fix <= last
        BY <1>3, Numbers DEF Inv, Timers, Transmissions
    <2>2. last \in Nat
        BY <2>1 DEF Inv2, HistoryTypes
    <2>3. g.sent \in Nat /\ now <= g.sent + MaxLatency /\ g.sent <= now
        BY DEF Inv, Types, Frame, Positions
    <2>4. g.fix <= g.sent /\ g.sent <= g.fix + UpdateInterval + Delay
        BY <1>3 DEF Transmissions
    <2>5. g.timestamp = TimestampOf(g.fix + clock)
        BY <1>3 DEF Transmissions
    <2>6. g.fix <= now /\ last <= now
        BY <2>1, <2>2, <2>3, <2>4
    <2>7. now <= g.fix + UpdateInterval + Delay + MaxLatency
        BY <2>1, <2>3, <2>4, Constants
    <2> QED BY <2>1, <2>2, <2>5, <2>6, <2>7
<1>5. Transmissions'
    BY <1>1, <1>3 DEF Transmissions
<1>6. entry # NoEntry =>
        /\ entry.pv.fix \in Nat /\ entry.pv.fix <= last /\ entry.expiry \in Nat
        /\ now <= entry.pv.fix + Bound /\ entry.expiry >= entry.pv.fix + EntryLifetime
        /\ entry.pv.timestamp = TimestampOf(entry.pv.fix + clock)
    <2>1. entry # NoEntry => entry.expiry \in Nat
        BY DEF Inv, Types, Entries
    <2> QED BY <1>3, <2>1, InTime DEF Known
<1>7. Bound \in Nat /\ Bound <= EntryLifetime /\ Bound >= UpdateInterval + Delay + MaxLatency
    BY Constants DEF Bound, Gap, TimingFits
<1>8. entry = NoEntry \/ HasValue(entry, now)
    BY <1>4, <1>6, <1>7, Constants DEF HasValue
<1>9. entry # NoEntry => (Before(entry.pv.timestamp, g.timestamp) <=> entry.pv.fix < g.fix)
    <2> SUFFICES ASSUME entry # NoEntry
                 PROVE  Before(entry.pv.timestamp, g.timestamp) <=> entry.pv.fix < g.fix
        OBVIOUS
    <2>1. entry.pv.fix \in Nat /\ entry.pv.fix <= g.fix + Bound /\ g.fix <= entry.pv.fix + Bound
        BY <1>4, <1>6, <1>7, Constants
    <2>2. Before(TimestampOf(entry.pv.fix + clock), TimestampOf(g.fix + clock))
            <=> entry.pv.fix < g.fix
        BY <1>4, <2>1, BeforeIffEarlier
    <2> QED BY <1>4, <1>6, <2>2
<1> DEFINE newer == entry = NoEntry \/ entry.pv.fix < g.fix
           known == entry'.pv.fix
<1>10. /\ entry'.pv = IF newer THEN [timestamp |-> g.timestamp, fix |-> g.fix] ELSE entry.pv
       /\ entry'.expiry = IF newer THEN now + EntryLifetime ELSE entry.expiry
       /\ entry'.neighbour = IF NeighbourExpiry > 0 THEN now + NeighbourExpiry ELSE Never
    BY <1>2, <1>4, <1>8, <1>9, IndicateKnown
<1>11. /\ known \in Nat /\ known <= last /\ g.fix <= known
       /\ entry'.pv.timestamp = TimestampOf(known + clock)
       /\ entry # NoEntry => entry.pv.fix <= known
       /\ known < last => Followed(known)
    <2>1. CASE newer
        <3>1. entry'.pv.fix = g.fix /\ entry'.pv.timestamp = g.timestamp
            BY <1>10, <2>1
        <3>2. entry # NoEntry => entry.pv.fix <= g.fix
            BY <1>4, <1>6, <2>1
        <3>3. g.fix < last => Followed(g.fix)
            BY <1>3, <3>2 DEF Known
        <3> QED BY <1>4, <3>1, <3>2, <3>3
    <2>2. CASE ~newer
        <3>1. entry'.pv = entry.pv /\ entry # NoEntry
            BY <1>10, <2>2
        <3>2. entry.pv.fix < last => Followed(entry.pv.fix)
            BY <1>3, <3>1 DEF Known
        <3> QED BY <1>4, <1>6, <2>2, <3>1, <3>2
    <2> QED BY <2>1, <2>2
<1>12. /\ entry'.expiry >= known + EntryLifetime
       /\ entry'.neighbour = Never
            \/ (NeighbourExpiry > 0 /\ entry'.neighbour >= known + NeighbourExpiry)
    <2>1. known <= now
        BY <1>4, <1>11
    <2>2. entry'.expiry >= known + EntryLifetime
        BY <1>4, <1>6, <1>10, <2>1, Constants
    <2>3. NeighbourExpiry > 0 => now + NeighbourExpiry >= known + NeighbourExpiry
        BY <1>4, <1>11, <2>1, LocationTableAssumption
    <2> QED BY <1>10, <2>2, <2>3
<1> HIDE DEF newer, known
<1> DEFINE Follows(position) ==
                \E f \in air' : f.fix > position /\ f.sent <= position + Gap
<1>13. ASSUME NEW position \in Nat, g.fix <= position, Followed(position)
       PROVE  Follows(position)
    <2>1. PICK f \in air : f.fix > position /\ f.sent <= position + Gap
        BY <1>13 DEF Followed
    <2>2. f.fix \in Nat
        BY <1>3 DEF Transmissions
    <2>3. f # g
        BY <1>4, <1>13, <2>1, <2>2
    <2> QED BY <1>1, <2>1, <2>3
<1> HIDE DEF Follows
<1>14. ASSUME NEW f \in air', f.fix < last, known <= f.fix
       PROVE  Follows(f.fix)
    <2>1. f \in air /\ f.fix \in Nat
        BY <1>1, <1>3 DEF Transmissions
    <2>2. g.fix <= f.fix /\ (entry # NoEntry => entry.pv.fix <= f.fix)
        BY <1>4, <1>6, <1>11, <1>14, <2>1
    <2>3. Followed(f.fix)
        BY <1>3, <1>14, <2>1, <2>2 DEF Known
    <2> QED BY <1>13, <2>1, <2>2, <2>3
<1>15. known < last => Follows(known)
    BY <1>11, <1>13
<1>16. entry' # NoEntry
    <2> DEFINE pv == [timestamp |-> g.timestamp, fix |-> g.fix]
    <2>1. pv \in [timestamp : 0..MaxTimestamp, fix : Nat \cup {Never}]
        BY DEF Inv, Types, Frame
    <2> HIDE DEF pv
    <2>2. entry' = Indicate(entry, pv, now)
        BY <1>2 DEF pv
    <2>3. entry \in Entries \cup {NoEntry}
        BY DEF Inv, Types
    <2> QED BY <1>4, <2>1, <2>2, <2>3, Indicated, EntryAssumption
<1>17. Known'
    <2>1. /\ last' # Never /\ entry'.pv.fix \in Nat /\ entry'.pv.fix <= last'
          /\ entry'.pv.timestamp = TimestampOf(entry'.pv.fix + clock')
          /\ entry'.expiry >= entry'.pv.fix + EntryLifetime
          /\ entry'.neighbour = Never
                \/ (NeighbourExpiry > 0 /\ entry'.neighbour >= entry'.pv.fix + NeighbourExpiry)
        BY <1>1, <1>4, <1>11, <1>12 DEF known
    <2>2. entry'.pv.fix < last' => \E f \in air' : f.fix > entry'.pv.fix
                                                  /\ f.sent <= entry'.pv.fix + Gap
        BY <1>1, <1>15 DEF known, Follows
    <2>3. \A f \in air' : f.fix < last' /\ (entry' # NoEntry => entry'.pv.fix <= f.fix)
            => \E h \in air' : h.fix > f.fix /\ h.sent <= f.fix + Gap
        BY <1>1, <1>14, <1>16 DEF known, Follows
    <2> QED BY <2>1, <2>2, <2>3 DEF Known, Followed
<1> QED BY <1>5, <1>17

(* Before anything is sent, nothing is known. *)
LEMMA InitKnown == ASSUME Init PROVE Inv2
<1>1. HistoryTypes
    BY DEF Init, HistoryTypes
<1>2. Transmissions /\ Known
    BY DEF Init, Transmissions, Known
<1> QED BY <1>1, <1>2 DEF Inv2

(* Every step keeps what is known about the neighbour. *)
LEMMA StepKnown == ASSUME TimingFits, Inv, Inv2, [Next]_vars PROVE Inv2'
<1>1. CASE UNCHANGED vars
    BY <1>1 DEF vars, station, peer, Inv2, HistoryTypes, Undisturbed, Transmissions,
                Known, Followed
<1>2. CASE Next
    BY <1>2, AdvanceKnown, UpdatePositionKnown, BeaconKnown, RequestShbKnown, RepeatKnown,
       FlushKnown, RestartKnown, ReceiveKnown, LoseKnown DEF Next
<1> QED BY <1>1, <1>2

(* The frames under way, and what the receiver knows, are as long as       *)
(* nothing is lost, fails or is restarted such that a newer position       *)
(* always arrives in time.                                                 *)
THEOREM NeighbourInvariant ==
    ASSUME TimingFits
    PROVE  Spec => []Inv2
<1>1. Init => Inv2
    BY InitKnown
<1>2. Inv /\ Inv2 /\ [Next]_vars => Inv2'
    BY StepKnown
<1> QED BY <1>1, <1>2, Invariant, PTL DEF Spec

(* A neighbour that is heard of stays one, and its position is up to date  *)
(* (LocationTable::update, is_greater, set_neighbour), for any timing that *)
(* fits: its entry does not expire between two Beacons, although a Beacon  *)
(* may be skipped when the timestamp wraps and frames that were overtaken  *)
(* do not refresh it, and it never falls back to an older position.        *)
THEOREM NeighbourAlwaysKept ==
    ASSUME TimingFits
    PROVE  Spec => []NeighbourKept
<1>1. Inv /\ Inv2 => NeighbourKept
    <2> SUFFICES ASSUME Inv, Inv2, Undisturbed, entry # NoEntry
                 PROVE  /\ IsNeighbour(entry, now)
                        /\ air = {} => entry.pv.fix = last
        BY DEF NeighbourKept, Undisturbed
    <2> DEFINE position == entry.pv.fix
    <2>1. Known
        BY DEF Inv2
    <2>2. /\ position \in Nat /\ last \in Nat /\ now \in Nat /\ entry.expiry \in Nat
          /\ position <= last /\ entry.expiry >= position + EntryLifetime
          /\ entry.neighbour = Never
                \/ (NeighbourExpiry > 0 /\ entry.neighbour >= position + NeighbourExpiry)
          /\ entry.neighbour \in Nat \cup {Never}
        BY <2>1, Numbers DEF Known, Inv, Types, Entries, Inv2, HistoryTypes
    <2>3. now <= position + Bound
        BY InTime
    <2>4. Bound \in Nat /\ Bound <= EntryLifetime
        BY Constants DEF Bound, Gap, TimingFits
    <2>5. now <= entry.expiry
        BY <2>2, <2>3, <2>4, Constants
    <2>6. entry.neighbour = Never \/ entry.neighbour > now
        <3>1. CASE entry.neighbour # Never
            <4>1. NeighbourExpiry > 0 /\ Bound < NeighbourExpiry /\ NeighbourExpiry \in Nat
                BY <2>2, <3>1, LocationTableAssumption DEF TimingFits
            <4>2. entry.neighbour \in Nat /\ entry.neighbour >= position + NeighbourExpiry
                BY <2>2, <3>1
            <4> QED BY <2>2, <2>3, <2>4, <4>1, <4>2
        <3> QED BY <3>1
    <2>7. air = {} => position = last
        BY <2>1, <2>2 DEF Known, Followed
    <2> QED BY <2>5, <2>6, <2>7 DEF IsNeighbour, HasValue
<1> QED BY <1>1, Invariant, NeighbourInvariant, PTL
=============================================================================
