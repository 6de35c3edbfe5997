-------------------------- MODULE ForwardingProof --------------------------
(***************************************************************************)
(* Proofs about forwarding: the lifetime of a packet on its way, the       *)
(* store-carry-forward buffer and the network of routers, for any number   *)
(* of stations, packets and bytes and for any radio.                       *)
(*                                                                         *)
(* LifetimeHops.  Every hop writes a lifetime field again.                 *)
(*                                                                         *)
(* PacketBuffer.  The buffer is one of Buffers(now): its bytes add up, its *)
(* nodes are sorted, and no lifetime has drifted by more than its flushes  *)
(* explain.  Each of drop_expired, drop and push maps such a buffer to     *)
(* another one, and so does a flush, the recursion that pushes one packet  *)
(* after the other.                                                        *)
(*                                                                         *)
(* GbcNetwork.  Stations are in one of States(n, R), where R are the       *)
(* packets requested so far (NetworkInv).  What a station owes of a packet *)
(* are the transmissions it has started or may still start on its own,     *)
(* less those its CBF counter has recorded; each operation of the router   *)
(* is shown to owe no more than it is asked for (Accounted), from which    *)
(* RegularInv follows: the transmissions so far and those owed are         *)
(* requested, recorded by the counter, now or before it expired, or due to *)
(* a packet that has been listed in the meantime.                          *)
(***************************************************************************)
EXTENDS PacketBuffer, LifetimeHops, GbcNetwork, CommonLemmas, FiniteSetTheorems

-----------------------------------------------------------------------------
(* The lifetime of a packet on its way *)

(* All the two properties need: the octet is a lifetime field. *)
FieldOK == lifetime \in LifetimeField

(* Every hop writes a lifetime field again. *)
LEMMA FieldStep == FieldOK /\ [HopsNext]_lifetime => FieldOK'
<1>1. ASSUME FieldOK, NEW queued \in QueueingTimes, Hop(queued) PROVE FieldOK'
  <2>1. queued \in Int
    BY QueueingTimesAssumption
  <2> QED
    BY <1>1, <2>1, ReducedType DEF FieldOK, Hop
<1> QED
  BY <1>1 DEF HopsNext, FieldOK

(* The octet PendingPacket::reduce_lifetime writes is a lifetime field at  *)
(* every hop.                                                              *)
THEOREM FieldAlways == HopsSpec => []FieldOK
<1>1. HopsInit => FieldOK
  BY DEF HopsInit, FieldOK
<1> QED
  BY <1>1, FieldStep, PTL DEF HopsSpec

(* However long a packet is queued, Lifetime::encode leaves its remaining  *)
(* lifetime in the header up to half a unit of the base it chooses: no     *)
(* lifetime that can occur overflows the six bit multiplier.               *)
THEOREM ReductionExact == HopsSpec => []ErrorBounded
<1>1. FieldOK => ErrorBounded
  <2> SUFFICES ASSUME FieldOK, NEW queued \in QueueingTimes
               PROVE  LET error == Decode(Reduced(lifetime, queued)) - Remaining(lifetime, queued)
                          unit  == Unit(Reduced(lifetime, queued).base)
                      IN  2 * error <= unit /\ -2 * error <= unit
    BY DEF ErrorBounded
  <2> DEFINE decoded   == Decode(Reduced(lifetime, queued))
             remaining == Remaining(lifetime, queued)
             unit      == Unit(Reduced(lifetime, queued).base)
  <2>1. queued \in Nat /\ lifetime \in LifetimeField
    BY QueueingTimesAssumption DEF FieldOK
  <2>2. 2 * (decoded - remaining) <= unit /\ 2 * (remaining - decoded) <= unit
    BY <2>1, ReducedNearest
  <2>3. Reduced(lifetime, queued) \in LifetimeField /\ Decode(lifetime) \in Nat
    BY <2>1, ReducedType, DecodeType
  <2>4. decoded \in Nat
    BY <2>3, DecodeType
  <2>5. remaining \in Nat
    BY <2>1, <2>3 DEF Remaining
  <2> HIDE DEF decoded, remaining, unit
  <2>6. 2 * (decoded - remaining) <= unit /\ -2 * (decoded - remaining) <= unit
    BY <2>2, <2>4, <2>5
  <2> QED
    BY <2>6 DEF decoded, remaining, unit
<1> QED
  BY <1>1, FieldAlways, PTL

(* PendingPacket::reduce_lifetime never prolongs a lifetime, at whatever   *)
(* hop and for whatever queueing time, although it rounds to the nearest   *)
(* value.                                                                  *)
THEOREM HopsNeverProlong == HopsSpec => NeverProlonged
<1>1. FieldOK /\ [HopsNext]_lifetime => [Decode(lifetime') <= Decode(lifetime)]_lifetime
  <2>1. ASSUME FieldOK, NEW queued \in QueueingTimes, Hop(queued)
        PROVE  Decode(lifetime') <= Decode(lifetime)
    <3>1. queued \in Nat
      BY QueueingTimesAssumption
    <3> QED
      BY <2>1, <3>1, ReducedNotProlonged DEF FieldOK, Hop
  <2> QED
    BY <2>1 DEF HopsNext
<1> QED
  BY <1>1, FieldAlways, PTL DEF HopsSpec, NeverProlonged

-----------------------------------------------------------------------------
(* The store-carry-forward buffer *)

(* Packets have a length. *)
LEMMA LengthType == \A x \in Node : Length[x.packet] \in Nat
  BY LengthAssumption DEF Node

(* The number of bytes is the last of the sums of the first k lengths. *)
LEMMA BytesSteps ==
    ASSUME NEW s \in Seq(Node)
    PROVE  \E f \in [0 .. Len(s) -> Nat] :
                /\ f[0] = 0
                /\ \A k \in 1 .. Len(s) : f[k] = f[k - 1] + Length[s[k].packet]
                /\ BytesOf(s) = f[Len(s)]
<1> DEFINE n == Len(s)
           V == Nat
           Step == [p \in (1 .. n) \X V |-> p[2] + Length[s[p[1]].packet]]
           Body(f) == [k \in 0 .. Len(s) |-> IF k = 0 THEN 0 ELSE f[k - 1] + Length[s[k].packet]]
<1>1. n \in Nat /\ \A k \in 1 .. n : Length[s[k].packet] \in Nat
  BY LengthType
<1>2. IsStep(Step, n, V)
  BY <1>1 DEF IsStep
<1>3. \A k \in 1 .. n : \A u \in V : Step[<<k, u>>] = u + Length[s[k].packet]
  OBVIOUS
<1> HIDE DEF Step
<1>4. PICK f \in [0 .. n -> V] : f[0] = 0 /\ \A k \in 1 .. n : f[k] = Step[<<k, f[k - 1]>>]
  <2>0. 0 \in V
    OBVIOUS
  <2> HIDE DEF V, n
  <2>1. \E f \in [0 .. n -> V] : Follows(f, Step, n, 0)
    BY <1>1, <1>2, <2>0, Recursion
  <2> QED
    BY <2>1 DEF Follows
<1>5. \A k \in 1 .. n : f[k] = f[k - 1] + Length[s[k].packet]
  <2>1. \A k \in 1 .. n : f[k - 1] \in V
    BY <1>1
  <2> QED
    BY <1>3, <1>4, <2>1
<1>6. f = Body(f)
  <2>1. \A k \in 0 .. n : k = 0 \/ k \in 1 .. n
    BY <1>1
  <2> QED
    BY <1>4, <1>5, <2>1
<1> DEFINE g == CHOOSE h : h = Body(h)
<1>7. g = Body(g)
  BY <1>6
<1>8. BytesOf(s) = g[Len(s)]
  BY DEF BytesOf
<1> HIDE DEF g
<1>9. g[0] = 0 /\ \A k \in 1 .. n : g[k] = g[k - 1] + Length[s[k].packet]
  <2>1. 0 \in 0 .. Len(s) /\ \A k \in 1 .. n : k \in 0 .. Len(s) /\ k # 0
    BY <1>1
  <2> QED
    BY <1>7, <2>1
<1>10. \A k \in 0 .. n : g[k] = f[k]
  <2>1. Alike(g, f, n)
    BY <1>4, <1>5, <1>9 DEF Alike
  <2> HIDE DEF n
  <2> QED
    BY <1>1, <2>1, SameRecursion
<1> QED
  BY <1>1, <1>4, <1>5, <1>8, <1>10

(* f[k] is the sum of the first k lengths. *)
Sums(f, s) == f[0] = 0 /\ \A k \in 1 .. Len(s) : f[k] = f[k - 1] + Length[s[k].packet]

(* There is but one such sum. *)
LEMMA BytesUnique ==
    ASSUME NEW s \in Seq(Node), NEW g, Sums(g, s)
    PROVE  BytesOf(s) = g[Len(s)] /\ BytesOf(s) \in Nat
<1>1. PICK f \in [0 .. Len(s) -> Nat] :
                /\ f[0] = 0
                /\ \A k \in 1 .. Len(s) : f[k] = f[k - 1] + Length[s[k].packet]
                /\ BytesOf(s) = f[Len(s)]
  BY BytesSteps
<1>2. Len(s) \in Nat /\ Len(s) \in 0 .. Len(s)
  OBVIOUS
<1>3. Alike(f, g, Len(s))
  BY <1>1 DEF Sums, Alike
<1>4. \A k \in 0 .. Len(s) : f[k] = g[k]
  BY <1>2, <1>3, SameRecursion
<1> QED
  BY <1>1, <1>2, <1>4

(* The bytes of a buffer are a number. *)
LEMMA BytesType == ASSUME NEW s \in Seq(Node) PROVE BytesOf(s) \in Nat
  BY BytesSteps

(* No packets, no bytes. *)
LEMMA BytesNone == BytesOf(<<>>) = 0
<1>1. <<>> \in Seq(Node) /\ Len(<<>>) = 0
  OBVIOUS
<1> QED
  BY <1>1, BytesSteps

(* Equal packets have equal lengths. *)
LEMMA BytesSame ==
    ASSUME NEW s \in Seq(Node), NEW t \in Seq(Node), Len(s) = Len(t),
           \A k \in 1 .. Len(s) : s[k].packet = t[k].packet
    PROVE  BytesOf(s) = BytesOf(t)
<1>1. PICK f \in [0 .. Len(s) -> Nat] :
                /\ f[0] = 0
                /\ \A k \in 1 .. Len(s) : f[k] = f[k - 1] + Length[s[k].packet]
                /\ BytesOf(s) = f[Len(s)]
  BY BytesSteps
<1>2. \A k \in 1 .. Len(t) : f[k] = f[k - 1] + Length[t[k].packet]
  BY <1>1
<1> QED
  BY <1>1, <1>2, BytesUnique DEF Sums

(* The first n packets and the others have the bytes of all. *)
LEMMA BytesSplit ==
    ASSUME NEW s \in Seq(Node), NEW n \in 0 .. Len(s)
    PROVE  /\ SubSeq(s, 1, n) \in Seq(Node)
           /\ SubSeq(s, n + 1, Len(s)) \in Seq(Node)
           /\ BytesOf(s) = BytesOf(SubSeq(s, 1, n)) + BytesOf(SubSeq(s, n + 1, Len(s)))
<1>1. PICK f \in [0 .. Len(s) -> Nat] :
                /\ f[0] = 0
                /\ \A k \in 1 .. Len(s) : f[k] = f[k - 1] + Length[s[k].packet]
                /\ BytesOf(s) = f[Len(s)]
  BY BytesSteps
<1> DEFINE head == SubSeq(s, 1, n)
           tail == SubSeq(s, n + 1, Len(s))
<1>2. Len(s) \in Nat /\ n \in Nat /\ n <= Len(s) /\ Len(s) \in 0 .. Len(s)
  OBVIOUS
<1>3. head \in Seq(Node) /\ Len(head) = n /\ \A k \in 1 .. n : head[k] = s[k]
  BY <1>2
<1>4. tail \in Seq(Node) /\ Len(tail) = Len(s) - n /\ \A k \in 1 .. (Len(s) - n) : tail[k] = s[n + k]
  BY SuffixThins
<1> HIDE DEF head, tail
<1>5. BytesOf(head) = f[n]
  <2>1. \A k \in 1 .. Len(head) : f[k] = f[k - 1] + Length[head[k].packet]
    BY <1>1, <1>2, <1>3
  <2> QED
    BY <1>1, <1>3, <2>1, BytesUnique DEF Sums
<1>6. PICK g \in [0 .. Len(tail) -> Nat] :
                /\ g[0] = 0
                /\ \A k \in 1 .. Len(tail) : g[k] = g[k - 1] + Length[tail[k].packet]
                /\ BytesOf(tail) = g[Len(tail)]
  BY <1>4, BytesSteps
<1> DEFINE E == {k \in 0 .. (Len(s) - n) : f[n + k] = f[n] + g[k]}
<1>7. 0 \in E
  BY <1>1, <1>2, <1>6
<1>8. ASSUME NEW k \in 1 .. (Len(s) - n), k - 1 \in E PROVE k \in E
  <2>1. n + k \in 1 .. Len(s) /\ n + k - 1 = n + (k - 1) /\ k \in 0 .. (Len(s) - n)
        /\ k \in 1 .. Len(tail) /\ k - 1 \in 0 .. Len(tail) /\ n \in 0 .. Len(s)
    BY <1>2, <1>4
  <2>2. f[n + k] = f[n + (k - 1)] + Length[s[n + k].packet] /\ tail[k] = s[n + k]
    BY <1>1, <1>4, <2>1
  <2>3. g[k] = g[k - 1] + Length[s[n + k].packet]
    BY <1>6, <2>1, <2>2
  <2>4. Length[s[n + k].packet] \in Nat /\ g[k - 1] \in Nat /\ f[n] \in Nat
    <3>1. s[n + k] \in Node
      BY <2>1
    <3> QED
      BY <2>1, <3>1, LengthType
  <2>5. f[n + (k - 1)] = f[n] + g[k - 1]
    BY <1>8
  <2> QED
    BY <2>1, <2>2, <2>3, <2>4, <2>5
<1>9. Len(s) - n \in E
  <2>1. Len(s) - n \in Nat /\ Len(s) - n \in 0 .. (Len(s) - n)
    BY <1>2
  <2> HIDE DEF E
  <2> QED
    BY <1>7, <1>8, <2>1, Upwards
<1>10. f[Len(s)] = f[n] + g[Len(tail)]
  <2>1. n + (Len(s) - n) = Len(s)
    BY <1>2
  <2> QED
    BY <1>4, <1>9, <2>1
<1> QED
  BY <1>1, <1>3, <1>4, <1>5, <1>6, <1>10 DEF head, tail

(* One more packet. *)
LEMMA BytesAppend ==
    ASSUME NEW s \in Seq(Node), NEW x \in Node
    PROVE  BytesOf(Append(s, x)) = BytesOf(s) + Length[x.packet]
<1> DEFINE t == Append(s, x)
<1>1. t \in Seq(Node) /\ Len(t) = Len(s) + 1 /\ t[Len(s) + 1] = x /\ Len(s) \in Nat
      /\ \A k \in 1 .. Len(s) : t[k] = s[k]
  BY Appended
<1> HIDE DEF t
<1>2. PICK f \in [0 .. Len(t) -> Nat] :
                /\ f[0] = 0
                /\ \A k \in 1 .. Len(t) : f[k] = f[k - 1] + Length[t[k].packet]
                /\ BytesOf(t) = f[Len(t)]
  BY <1>1, BytesSteps
<1>3. BytesOf(s) = f[Len(s)]
  <2>1. \A k \in 1 .. Len(s) : f[k] = f[k - 1] + Length[s[k].packet]
    BY <1>1, <1>2
  <2> QED
    BY <1>2, <2>1, BytesUnique DEF Sums
<1>4. Len(t) \in 1 .. Len(t) /\ Len(t) - 1 = Len(s)
  BY <1>1
<1>5. f[Len(t)] = f[Len(s)] + Length[x.packet]
  BY <1>1, <1>2, <1>4
<1> QED
  BY <1>2, <1>3, <1>5 DEF t

(* What is kept and what is removed have the bytes of all. *)
LEMMA BytesKept ==
    ASSUME NEW s \in Seq(Node), NEW K, NEW L, \A k \in 1 .. Len(s) : s[k] \in K <=> s[k] \notin L
    PROVE  BytesOf(s) = BytesOf(Kept(s, K)) + BytesOf(Kept(s, L))
<1>1. PICK f \in [0 .. Len(s) -> Nat] :
                /\ f[0] = 0
                /\ \A k \in 1 .. Len(s) : f[k] = f[k - 1] + Length[s[k].packet]
                /\ BytesOf(s) = f[Len(s)]
  BY BytesSteps
<1>2. PICK a \in [0 .. Len(s) -> Seq(Node)] : IsKeeping(a, s, K) /\ Kept(s, K) = a[Len(s)]
  BY KeptExists
<1>3. PICK b \in [0 .. Len(s) -> Seq(Node)] : IsKeeping(b, s, L) /\ Kept(s, L) = b[Len(s)]
  BY KeptExists
<1> DEFINE E == {k \in 0 .. Len(s) : f[k] = BytesOf(a[k]) + BytesOf(b[k])}
<1>4. Len(s) \in Nat /\ Len(s) \in 0 .. Len(s)
  OBVIOUS
<1>5. 0 \in E
  BY <1>1, <1>2, <1>3, <1>4, BytesNone DEF IsKeeping
<1>6. ASSUME NEW k \in 1 .. Len(s), k - 1 \in E PROVE k \in E
  <2>1. k \in 0 .. Len(s) /\ k - 1 \in 0 .. Len(s) /\ s[k] \in Node
    BY <1>4
  <2>2. a[k - 1] \in Seq(Node) /\ b[k - 1] \in Seq(Node)
    BY <2>1
  <2>3. BytesOf(a[k - 1]) \in Nat /\ BytesOf(b[k - 1]) \in Nat /\ Length[s[k].packet] \in Nat
    BY <2>1, <2>2, BytesType, LengthType
  <2>4. f[k] = BytesOf(a[k - 1]) + BytesOf(b[k - 1]) + Length[s[k].packet]
    BY <1>1, <1>6
  <2>5. CASE s[k] \in K
    <3>1. a[k] = Append(a[k - 1], s[k]) /\ b[k] = b[k - 1]
      BY <1>2, <1>3, <2>5 DEF IsKeeping
    <3>2. BytesOf(a[k]) = BytesOf(a[k - 1]) + Length[s[k].packet]
      BY <2>1, <2>2, <3>1, BytesAppend
    <3>3. f[k] = BytesOf(a[k]) + BytesOf(b[k])
      BY <2>3, <2>4, <3>1, <3>2
    <3> QED
      BY <2>1, <3>3
  <2>6. CASE s[k] \notin K
    <3>1. b[k] = Append(b[k - 1], s[k]) /\ a[k] = a[k - 1]
      BY <1>2, <1>3, <2>6 DEF IsKeeping
    <3>2. BytesOf(b[k]) = BytesOf(b[k - 1]) + Length[s[k].packet]
      BY <2>1, <2>2, <3>1, BytesAppend
    <3>3. f[k] = BytesOf(a[k]) + BytesOf(b[k])
      BY <2>3, <2>4, <3>1, <3>2
    <3> QED
      BY <2>1, <3>3
  <2> QED
    BY <2>5, <2>6
<1>7. Len(s) \in E
  <2> HIDE DEF E
  <2> QED
    BY <1>4, <1>5, <1>6, Upwards
<1> QED
  BY <1>1, <1>2, <1>3, <1>7

-----------------------------------------------------------------------------
(* What is queued *)

(* Nodes as flush hands them on: the header has been brought up to date.   *)
Tried(at) ==
    {x \in Node :
        /\ x.pushed <= at
        /\ Decode(x.lifetime) <= Decode(x.initial)
        /\ Decode(x.initial) < 3150 =>
                at - x.pushed + Decode(x.lifetime) <= Decode(x.initial) + 25 * x.tries}

(* Nodes as they are in the buffer. *)
Queued(at) ==
    {x \in Node :
        /\ x.pushed <= x.since /\ x.since <= at
        /\ x.expires = x.since + Decode(x.lifetime)
        /\ Decode(x.lifetime) <= Decode(x.initial)
        /\ Decode(x.initial) < 3150 =>
                x.expires - x.pushed <= Decode(x.initial) + 25 * x.tries}

(* The oldest packets come first. *)
Sorted(s) == \A j, k \in 1 .. Len(s) : j < k => s[j].pushed <= s[k].pushed

(* The values of the buffer. *)
Buffers(at) ==
    {b \in [nodes : Seq(Queued(at)), stored : Nat] :
        b.stored = BytesOf(b.nodes) /\ b.stored <= Capacity /\ Sorted(b.nodes)}

(* t has no other nodes than s. *)
OnlyFrom(t, s) == \A j \in 1 .. Len(t) : \E i \in 1 .. Len(s) : t[j] = s[i]

(* The fields of a node. *)
LEMMA NodeFields ==
    ASSUME NEW x \in Node
    PROVE  /\ x.packet \in PendingPacket /\ x.since \in Nat /\ x.expires \in Nat
           /\ x.lifetime \in LifetimeField /\ x.pushed \in Nat /\ x.initial \in LifetimeField
           /\ x.tries \in Nat /\ Decode(x.lifetime) \in Nat /\ Decode(x.initial) \in Nat
<1>1. /\ x.packet \in PendingPacket /\ x.since \in Nat /\ x.expires \in Nat
      /\ x.lifetime \in LifetimeField /\ x.pushed \in Nat /\ x.initial \in LifetimeField
      /\ x.tries \in Nat
  BY DEF Node
<1> QED
  BY <1>1, DecodeType

(* Sequences of such nodes are sequences of nodes. *)
LEMMA QueuedNodes ==
    ASSUME NEW at, NEW s
    PROVE  /\ s \in Seq(Queued(at)) => s \in Seq(Node)
           /\ s \in Seq(Tried(at)) => s \in Seq(Node)
<1>1. Queued(at) \subseteq Node /\ Tried(at) \subseteq Node
  BY DEF Queued, Tried
<1> QED
  BY <1>1

(* A packet that is pushed gets its expiry; it is not expired then. *)
LEMMA StampedQueued ==
    ASSUME NEW at \in Nat, NEW x \in Tried(at)
    PROVE  /\ Stamped(x, at) \in Queued(at)
           /\ Stamped(x, at).packet = x.packet
           /\ Stamped(x, at).pushed = x.pushed
           /\ ~IsExpired(Stamped(x, at), at)
<1> DEFINE y == Stamped(x, at)
<1>1. x \in Node
  BY DEF Tried
<1>2. at + Decode(x.lifetime) \in Nat
  BY <1>1, NodeFields
<1>3. /\ y \in Node /\ y.packet = x.packet /\ y.pushed = x.pushed /\ y.since = at
      /\ y.expires = at + Decode(x.lifetime) /\ y.lifetime = x.lifetime
      /\ y.initial = x.initial /\ y.tries = x.tries
  BY <1>1, <1>2 DEF Stamped, Node
<1> HIDE DEF y
<1>4. y \in Queued(at)
  BY <1>1, <1>3, NodeFields DEF Queued, Tried
<1>5. ~IsExpired(y, at)
  BY <1>1, <1>3, NodeFields DEF IsExpired
<1> QED
  BY <1>3, <1>4, <1>5 DEF y

(* What flush does to a node that has not expired. *)
Reduce(x, at) == [x EXCEPT !.lifetime = Reduced(@, at - x.since), !.tries = @ + 1]

(* Re-encoding adds at most half a unit of 50 ms. *)
LEMMA ReducedDrift ==
    ASSUME NEW f \in LifetimeField, NEW q \in Nat, q <= Decode(f), Decode(f) < 3150
    PROVE  Decode(Reduced(f, q)) <= Decode(f) - q + 25
<1>1. Decode(f) \in Nat
  BY DecodeType
<1>2. Remaining(f, q) = Decode(f) - q
  BY <1>1 DEF Remaining
<1>3. CASE q = 0
  BY <1>1, <1>3 DEF Reduced
<1>4. CASE q # 0 /\ q < Decode(f)
  <2>1. Decode(f) - q \in Nat /\ Decode(f) - q < 3150
    BY <1>1, <1>4
  <2>2. Reduced(f, q).base = "Fifty_Milliseconds"
    BY <1>2, <1>4, <2>1 DEF Reduced, Encode, BaseFor
  <2>3. Reduced(f, q) \in LifetimeField
    BY ReducedType
  <2>4. Decode(Reduced(f, q)) \in Nat
    BY <2>3, DecodeType
  <2>5. 2 * (Decode(Reduced(f, q)) - (Decode(f) - q)) <= 50
    BY <1>2, <2>2, ReducedNearest, UnitValues
  <2> QED
    BY <2>1, <2>4, <2>5, <1>1
<1>5. CASE q = Decode(f) /\ q # 0
  <2>1. Reduced(f, q) = Zero
    BY <1>1, <1>5 DEF Reduced
  <2>2. Decode(Zero) = 0
    BY UnitValues DEF Decode, Zero
  <2> QED
    BY <1>1, <1>5, <2>1, <2>2
<1> QED
  BY <1>1, <1>3, <1>4, <1>5

(* The header of a packet that has not expired is brought up to date. *)
LEMMA ReduceTried ==
    ASSUME NEW at \in Nat, NEW x \in Queued(at), ~IsExpired(x, at)
    PROVE  /\ Reduce(x, at) \in Tried(at)
           /\ Reduce(x, at).packet = x.packet
           /\ Reduce(x, at).pushed = x.pushed
<1> DEFINE y == Reduce(x, at)
           q == at - x.since
<1>1. /\ x \in Node /\ x.pushed <= x.since /\ x.since <= at
      /\ x.expires = x.since + Decode(x.lifetime) /\ Decode(x.lifetime) <= Decode(x.initial)
      /\ Decode(x.initial) < 3150 => x.expires - x.pushed <= Decode(x.initial) + 25 * x.tries
  BY DEF Queued
<1>2. q \in Nat /\ q <= Decode(x.lifetime)
  BY <1>1, NodeFields DEF IsExpired
<1> HIDE DEF q
<1>3. Reduced(x.lifetime, q) \in LifetimeField /\ x.tries + 1 \in Nat
  <2>1. q \in Int
    BY <1>2
  <2> QED
    BY <1>1, <2>1, NodeFields, ReducedType
<1>4. /\ y \in Node /\ y.packet = x.packet /\ y.pushed = x.pushed
      /\ y.lifetime = Reduced(x.lifetime, q) /\ y.initial = x.initial /\ y.tries = x.tries + 1
  BY <1>1, <1>3 DEF Reduce, Node, q
<1>5. Decode(y.lifetime) <= Decode(x.lifetime)
  BY <1>1, <1>2, <1>4, NodeFields, ReducedNotProlonged
<1>6. Decode(x.initial) < 3150 => Decode(y.lifetime) <= Decode(x.lifetime) - q + 25
  <2>1. Decode(x.initial) < 3150 => Decode(x.lifetime) < 3150
    BY <1>1, NodeFields
  <2> QED
    BY <1>1, <1>2, <1>4, <2>1, NodeFields, ReducedDrift
<1> HIDE DEF y
<1>7. y.pushed <= at /\ Decode(y.lifetime) <= Decode(y.initial)
  BY <1>1, <1>4, <1>5, NodeFields
<1>8. Decode(y.initial) < 3150 =>
            at - y.pushed + Decode(y.lifetime) <= Decode(y.initial) + 25 * y.tries
  <2> SUFFICES ASSUME Decode(y.initial) < 3150
               PROVE  at - y.pushed + Decode(y.lifetime) <= Decode(y.initial) + 25 * y.tries
    OBVIOUS
  <2>1. x.expires - x.pushed <= Decode(x.initial) + 25 * x.tries
    BY <1>1, <1>4
  <2>2. Decode(y.lifetime) <= Decode(x.lifetime) - q + 25
    BY <1>4, <1>6
  <2>3. x.since \in Nat /\ x.pushed \in Nat /\ x.tries \in Nat /\ Decode(x.lifetime) \in Nat
        /\ Decode(x.initial) \in Nat /\ Decode(y.lifetime) \in Nat
    BY <1>1, <1>4, NodeFields
  <2>4. q = at - x.since
    BY DEF q
  <2> QED
    BY <1>1, <1>4, <2>1, <2>2, <2>3, <2>4
<1> QED
  BY <1>4, <1>7, <1>8 DEF Tried, y

(* Removing nodes keeps the others in their order. *)
LEMMA SortedKept ==
    ASSUME NEW s \in Seq(Node), Sorted(s), NEW K
    PROVE  Sorted(Kept(s, K)) /\ OnlyFrom(Kept(s, K), s)
<1>1. PICK g : Picks(g, Kept(s, K), s, Len(s), K)
  BY KeptPicks
<1> DEFINE t == Kept(s, K)
<1>2. \A j \in 1 .. Len(t) : g[j] \in 1 .. Len(s) /\ t[j] = s[g[j]]
  BY <1>1 DEF Picks
<1>3. \A i, j \in 1 .. Len(t) : i < j => g[i] < g[j]
  BY <1>1 DEF Picks
<1> HIDE DEF t
<1>4. Sorted(t)
  BY <1>2, <1>3 DEF Sorted
<1>5. OnlyFrom(t, s)
  BY <1>2 DEF OnlyFrom
<1> QED
  BY <1>4, <1>5 DEF t

(* drop_expired keeps the buffer in order and its bytes right. *)
LEMMA DropExpiredOK ==
    ASSUME NEW at \in Nat, NEW b \in Buffers(at)
    PROVE  DropExpired(b, at) \in Buffers(at) /\ OnlyFrom(DropExpired(b, at).nodes, b.nodes)
<1> DEFINE s == b.nodes
           K == LiveNodes(s, at)
           L == ExpiredNodes(s, at)
<1>1. s \in Seq(Queued(at)) /\ b.stored \in Nat /\ b.stored = BytesOf(s) /\ b.stored <= Capacity
      /\ Sorted(s)
  BY DEF Buffers
<1>2. s \in Seq(Node)
  BY <1>1, QueuedNodes
<1>3. \A k \in 1 .. Len(s) : s[k] \in K <=> s[k] \notin L
  <2>1. \A k \in 1 .. Len(s) : s[k] \in Range(s)
    BY <1>2 DEF Range
  <2> QED
    BY <2>1 DEF LiveNodes, ExpiredNodes
<1>4. DropExpired(b, at) = [nodes |-> Kept(s, K), stored |-> b.stored - BytesOf(Kept(s, L))]
  BY DEF DropExpired
<1> HIDE DEF s, K, L
<1>5. Kept(s, K) \in Seq(Queued(at)) /\ Kept(s, L) \in Seq(Queued(at))
  BY <1>1, KeptThins
<1>6. Kept(s, K) \in Seq(Node) /\ Kept(s, L) \in Seq(Node)
  BY <1>5, QueuedNodes
<1>7. BytesOf(s) = BytesOf(Kept(s, K)) + BytesOf(Kept(s, L))
  BY <1>2, <1>3, BytesKept
<1>8. BytesOf(Kept(s, K)) \in Nat /\ BytesOf(Kept(s, L)) \in Nat
  BY <1>6, BytesType
<1>9. b.stored - BytesOf(Kept(s, L)) = BytesOf(Kept(s, K)) /\ BytesOf(Kept(s, K)) <= Capacity
  BY <1>1, <1>7, <1>8, CapacityAssumption
<1>10. Sorted(Kept(s, K)) /\ OnlyFrom(Kept(s, K), s)
  BY <1>1, <1>2, SortedKept
<1> QED
  BY <1>4, <1>5, <1>8, <1>9, <1>10 DEF Buffers, s

(* drop removes a prefix, nothing if there is room already. *)
LEMMA DropPrefix ==
    ASSUME NEW at \in Nat, NEW b \in Buffers(at), NEW bytes \in Nat
    PROVE  \E n \in 0 .. Len(b.nodes) :
                /\ Drop(b, bytes) = [nodes  |-> SubSeq(b.nodes, n + 1, Len(b.nodes)),
                                     stored |-> BytesOf(SubSeq(b.nodes, n + 1, Len(b.nodes)))]
                /\ Capacity - b.stored >= bytes => n = 0
<1> DEFINE s == b.nodes
           After(n) == b.stored - BytesOf(SubSeq(s, 1, n))
           First(k) == /\ k = Len(s) \/ Capacity - After(k) >= bytes
                       /\ \A j \in 0 .. (k - 1) : Capacity - After(j) < bytes
           S == {k \in 0 .. Len(s) : k = Len(s) \/ Capacity - After(k) >= bytes}
           n == CHOOSE k \in 0 .. Len(s) : First(k)
<1>1. s \in Seq(Queued(at)) /\ b.stored = BytesOf(s) /\ b.stored \in Nat /\ s \in Seq(Node)
  BY QueuedNodes DEF Buffers
<1>2. Len(s) \in Nat
  BY <1>1
<1>3. Drop(b, bytes) = [nodes |-> SubSeq(s, n + 1, Len(s)), stored |-> After(n)]
  BY DEF Drop
<1> HIDE DEF s
<1>4. \A k \in 0 .. Len(s) : After(k) = BytesOf(SubSeq(s, k + 1, Len(s))) /\ After(k) \in Int
  <2> SUFFICES ASSUME NEW k \in 0 .. Len(s)
               PROVE  After(k) = BytesOf(SubSeq(s, k + 1, Len(s))) /\ After(k) \in Int
    OBVIOUS
  <2>1. /\ SubSeq(s, 1, k) \in Seq(Node) /\ SubSeq(s, k + 1, Len(s)) \in Seq(Node)
        /\ BytesOf(s) = BytesOf(SubSeq(s, 1, k)) + BytesOf(SubSeq(s, k + 1, Len(s)))
    BY <1>1, BytesSplit
  <2>2. BytesOf(SubSeq(s, 1, k)) \in Nat /\ BytesOf(SubSeq(s, k + 1, Len(s))) \in Nat
    BY <2>1, BytesType
  <2> QED
    BY <1>1, <2>1, <2>2
<1> HIDE DEF After
<1>5. \E k \in 0 .. Len(s) : First(k)
  <2>1. S \subseteq Nat /\ S # {}
    BY <1>2
  <2>2. PICK x \in S : \A y \in S : x <= y
    <3> HIDE DEF S
    <3> QED
      BY <2>1, Least
  <2>3. \A j \in 0 .. (x - 1) : j \in 0 .. Len(s) /\ j \notin S
    BY <1>2, <2>2
  <2>4. \A j \in 0 .. (x - 1) : Capacity - After(j) < bytes
    BY <1>4, <2>3, CapacityAssumption
  <2> QED
    BY <2>2, <2>4
<1>6. n \in 0 .. Len(s) /\ First(n)
  BY <1>5
<1> HIDE DEF n
<1>7. ASSUME Capacity - b.stored >= bytes PROVE n = 0
  <2>1. After(0) = b.stored
    <3>1. SubSeq(s, 1, 0) = <<>>
      BY <1>1
    <3>2. BytesOf(SubSeq(s, 1, 0)) = 0
      BY <3>1, BytesNone
    <3>3. After(0) = b.stored - BytesOf(SubSeq(s, 1, 0))
      BY DEF After
    <3> QED
      BY <1>1, <3>2, <3>3
  <2>2. n # 0 => 0 \in 0 .. (n - 1)
    BY <1>2, <1>6
  <2> QED
    BY <1>6, <1>7, <2>1, <2>2, <1>1, CapacityAssumption
<1> QED
  BY <1>3, <1>4, <1>6, <1>7 DEF s

(* What drop leaves is in order, too. *)
LEMMA DropOK ==
    ASSUME NEW at \in Nat, NEW b \in Buffers(at), NEW bytes \in Nat
    PROVE  Drop(b, bytes) \in Buffers(at) /\ OnlyFrom(Drop(b, bytes).nodes, b.nodes)
<1> DEFINE s == b.nodes
<1>1. PICK n \in 0 .. Len(s) :
            Drop(b, bytes) = [nodes  |-> SubSeq(s, n + 1, Len(s)),
                              stored |-> BytesOf(SubSeq(s, n + 1, Len(s)))]
  BY DropPrefix
<1>2. s \in Seq(Queued(at)) /\ b.stored = BytesOf(s) /\ b.stored \in Nat /\ s \in Seq(Node)
      /\ b.stored <= Capacity /\ Sorted(s)
  BY QueuedNodes DEF Buffers
<1> HIDE DEF s
<1> DEFINE t == SubSeq(s, n + 1, Len(s))
<1>3. t \in Seq(Queued(at)) /\ Len(t) = Len(s) - n /\ \A j \in 1 .. (Len(s) - n) : t[j] = s[n + j]
  BY <1>2, SuffixThins
<1>4. Len(s) \in Nat /\ n \in Nat /\ n <= Len(s)
  BY <1>2
<1>5. t \in Seq(Node) /\ BytesOf(t) \in Nat
  BY <1>3, QueuedNodes, BytesType
<1>6. BytesOf(t) <= Capacity
  <2>1. /\ SubSeq(s, 1, n) \in Seq(Node)
        /\ BytesOf(s) = BytesOf(SubSeq(s, 1, n)) + BytesOf(t)
    BY <1>2, BytesSplit
  <2>2. BytesOf(SubSeq(s, 1, n)) \in Nat
    BY <2>1, BytesType
  <2> QED
    BY <1>2, <1>5, <2>1, <2>2, CapacityAssumption
<1> HIDE DEF t
<1>7. \A j \in 1 .. Len(t) : n + j \in 1 .. Len(s) /\ t[j] = s[n + j]
  BY <1>3, <1>4
<1>8. Sorted(t)
  <2> SUFFICES ASSUME NEW j \in 1 .. Len(t), NEW k \in 1 .. Len(t), j < k
               PROVE  t[j].pushed <= t[k].pushed
    BY DEF Sorted
  <2>1. n + j < n + k
    BY <1>4
  <2> QED
    BY <1>2, <1>7, <2>1 DEF Sorted
<1>9. OnlyFrom(t, s)
  BY <1>7 DEF OnlyFrom
<1>10. Drop(b, bytes) = [nodes |-> t, stored |-> BytesOf(t)]
  BY <1>1 DEF t, s
<1> QED
  BY <1>3, <1>5, <1>6, <1>8, <1>9, <1>10 DEF Buffers, s

(* push keeps the buffer in order if the packet is the youngest one. *)
LEMMA PushIntoOK ==
    ASSUME NEW at \in Nat, NEW b \in Buffers(at), NEW x \in Tried(at),
           \A k \in 1 .. Len(b.nodes) : b.nodes[k].pushed <= x.pushed
    PROVE  PushInto(b, x, at) \in Buffers(at)
<1> DEFINE bytes == Length[x.packet]
           dropped == DropExpired(b, at)
           room == Drop(dropped, bytes)
           y == Stamped(x, at)
<1>1. bytes \in Nat
  BY LengthType DEF Tried
<1> HIDE DEF bytes
<1>2. dropped \in Buffers(at) /\ OnlyFrom(dropped.nodes, b.nodes)
  BY DropExpiredOK
<1> HIDE DEF dropped
<1>3. room \in Buffers(at) /\ OnlyFrom(room.nodes, dropped.nodes)
  BY <1>1, <1>2, DropOK
<1>4. PushInto(b, x, at) =
        IF Capacity - room.stored >= bytes
        THEN [nodes |-> Append(room.nodes, y), stored |-> room.stored + bytes] ELSE room
  BY DEF PushInto, bytes, room, dropped
<1> HIDE DEF room
<1>5. \A k \in 1 .. Len(room.nodes) : room.nodes[k].pushed <= x.pushed
  <2> SUFFICES ASSUME NEW k \in 1 .. Len(room.nodes)
               PROVE  room.nodes[k].pushed <= x.pushed
    OBVIOUS
  <2>1. PICK j \in 1 .. Len(dropped.nodes) : room.nodes[k] = dropped.nodes[j]
    BY <1>3 DEF OnlyFrom
  <2>2. PICK i \in 1 .. Len(b.nodes) : dropped.nodes[j] = b.nodes[i]
    BY <1>2 DEF OnlyFrom
  <2> QED BY ONLY <2>1, <2>2, \A l \in 1 .. Len(b.nodes) : b.nodes[l].pushed <= x.pushed
<1>6. /\ room.nodes \in Seq(Queued(at)) /\ room.nodes \in Seq(Node) /\ room.stored \in Nat
      /\ room.stored = BytesOf(room.nodes) /\ Sorted(room.nodes)
  BY <1>3, QueuedNodes DEF Buffers
<1>7. y \in Queued(at) /\ y \in Node /\ y.packet = x.packet /\ y.pushed = x.pushed
  BY StampedQueued DEF Queued
<1> HIDE DEF y
<1> DEFINE t == Append(room.nodes, y)
<1>8. t \in Seq(Queued(at)) /\ BytesOf(t) = room.stored + bytes
  BY <1>6, <1>7, BytesAppend DEF bytes
<1>9. Sorted(t)
  <2>1. /\ Len(t) = Len(room.nodes) + 1 /\ Len(room.nodes) \in Nat /\ t[Len(room.nodes) + 1] = y
        /\ \A k \in 1 .. Len(room.nodes) : t[k] = room.nodes[k]
    BY <1>6, <1>7, Appended
  <2> HIDE DEF t
  <2> SUFFICES ASSUME NEW j \in 1 .. Len(t), NEW k \in 1 .. Len(t), j < k
               PROVE  t[j].pushed <= t[k].pushed
    BY DEF Sorted
  <2>2. j \in 1 .. Len(room.nodes)
    BY <2>1
  <2>3. CASE k \in 1 .. Len(room.nodes)
    BY <1>6, <2>1, <2>2, <2>3 DEF Sorted
  <2>4. CASE k = Len(room.nodes) + 1
    BY <1>5, <1>7, <2>1, <2>2, <2>4
  <2> QED
    BY <2>1, <2>3, <2>4
<1> HIDE DEF t
<1>10. Capacity - room.stored >= bytes =>
            /\ room.stored + bytes \in Nat /\ room.stored + bytes <= Capacity
            /\ [nodes |-> t, stored |-> room.stored + bytes] \in Buffers(at)
  BY <1>1, <1>6, <1>8, <1>9, CapacityAssumption DEF Buffers
<1> QED
  BY <1>3, <1>4, <1>10 DEF t

(* push into a buffer with enough room and nothing to drop. *)
LEMMA PushFits ==
    ASSUME NEW at \in Nat, NEW b \in Buffers(at), NEW x \in Tried(at),
           \A k \in 1 .. Len(b.nodes) : ~IsExpired(b.nodes[k], at),
           b.stored + Length[x.packet] <= Capacity
    PROVE  PushInto(b, x, at) = [nodes  |-> Append(b.nodes, Stamped(x, at)),
                                 stored |-> b.stored + Length[x.packet]]
<1> DEFINE bytes == Length[x.packet]
           s == b.nodes
<1>1. bytes \in Nat
  BY LengthType DEF Tried
<1>2. s \in Seq(Queued(at)) /\ s \in Seq(Node) /\ b.stored \in Nat /\ b.stored = BytesOf(s)
      /\ b = [nodes |-> s, stored |-> b.stored]
  BY QueuedNodes DEF Buffers
<1>3. \A k \in 1 .. Len(s) : s[k] \in LiveNodes(s, at) /\ s[k] \notin ExpiredNodes(s, at)
  <2>1. \A k \in 1 .. Len(s) : s[k] \in Range(s)
    BY <1>2 DEF Range
  <2> QED
    BY <2>1 DEF LiveNodes, ExpiredNodes
<1>4. Kept(s, LiveNodes(s, at)) = s /\ Kept(s, ExpiredNodes(s, at)) = <<>>
  BY <1>2, <1>3, KeptAll, KeptNothing
<1>5. DropExpired(b, at) = b
  <2>1. DropExpired(b, at) = [nodes |-> s, stored |-> b.stored - 0]
    BY <1>4, BytesNone DEF DropExpired
  <2> QED
    BY <1>2, <2>1
<1> HIDE DEF bytes, s
<1>6. Capacity - b.stored >= bytes
  BY <1>1, <1>2, CapacityAssumption DEF bytes
<1>7. Drop(b, bytes) = b
  <2>1. PICK n \in 0 .. Len(s) :
            /\ Drop(b, bytes) = [nodes  |-> SubSeq(s, n + 1, Len(s)),
                                 stored |-> BytesOf(SubSeq(s, n + 1, Len(s)))]
            /\ Capacity - b.stored >= bytes => n = 0
    BY <1>1, DropPrefix DEF s
  <2>2. SubSeq(s, n + 1, Len(s)) = s
    BY <1>2, <1>6, <2>1
  <2> QED
    BY <1>2, <2>1, <2>2
<1> QED
  BY <1>5, <1>6, <1>7 DEF PushInto, bytes

(* Pushing all of a sequence that fits into an empty buffer: none of the   *)
(* packets makes another one go.                                           *)
LEMMA PushAllFits ==
    ASSUME NEW at \in Nat, NEW q \in Seq(Tried(at)), Sorted(q), BytesOf(q) <= Capacity
    PROVE  /\ PushAll(q, at) \in Buffers(at)
           /\ PushAll(q, at).nodes = [j \in 1 .. Len(q) |-> Stamped(q[j], at)]
<1>1. q \in Seq(Node) /\ Len(q) \in Nat
  BY QueuedNodes
<1>2. PICK f \in [0 .. Len(q) -> Nat] :
                /\ f[0] = 0
                /\ \A k \in 1 .. Len(q) : f[k] = f[k - 1] + Length[q[k].packet]
                /\ BytesOf(q) = f[Len(q)]
  BY <1>1, BytesSteps
<1> DEFINE Nodes(k) == [j \in 1 .. k |-> Stamped(q[j], at)]
           F(k) == [nodes |-> Nodes(k), stored |-> f[k]]
<1>3. ASSUME NEW k \in 0 .. Len(q)
      PROVE  /\ F(k) \in Buffers(at) /\ Nodes(k) \in Seq(Queued(at)) /\ Len(Nodes(k)) = k
             /\ \A j \in 1 .. k : Nodes(k)[j] = Stamped(q[j], at) /\ ~IsExpired(Nodes(k)[j], at)
  <2>1. \A j \in 1 .. k : q[j] \in Tried(at)
    BY <1>1
  <2>2. \A j \in 1 .. k : /\ Stamped(q[j], at) \in Queued(at)
                          /\ Stamped(q[j], at).packet = q[j].packet
                          /\ Stamped(q[j], at).pushed = q[j].pushed
                          /\ ~IsExpired(Stamped(q[j], at), at)
    BY <2>1, StampedQueued
  <2>3. k \in Nat /\ k <= Len(q)
    BY <1>1
  <2>4. Nodes(k) \in Seq(Queued(at)) /\ Len(Nodes(k)) = k
    BY <2>2, <2>3
  <2>5. \A j \in 1 .. k : Nodes(k)[j] = Stamped(q[j], at)
    OBVIOUS
  <2>6. Sorted(Nodes(k))
    <3>1. \A j \in 1 .. k : j \in 1 .. Len(q)
      BY <2>3
    <3> HIDE DEF Nodes
    <3> QED
      BY <2>2, <2>4, <2>5, <3>1 DEF Sorted
  <2>7. BytesOf(Nodes(k)) = f[k]
    <3>1. Nodes(k) \in Seq(Node)
      BY <2>4, QueuedNodes
    <3>2. Sums(f, Nodes(k))
      <4>1. \A j \in 1 .. k : j \in 1 .. Len(q)
        BY <2>3
      <4> HIDE DEF Nodes
      <4> QED
        BY <1>2, <2>2, <2>4, <2>5, <4>1 DEF Sums
    <3> HIDE DEF Nodes
    <3> QED
      BY <2>4, <3>1, <3>2, BytesUnique
  <2>8. f[k] <= Capacity
    <3> DEFINE p == SubSeq(q, 1, k)
    <3>1. p \in Seq(Node) /\ SubSeq(q, k + 1, Len(q)) \in Seq(Node)
          /\ BytesOf(q) = BytesOf(p) + BytesOf(SubSeq(q, k + 1, Len(q)))
      BY <1>1, BytesSplit
    <3>2. Len(p) = k /\ \A j \in 1 .. k : p[j] = q[j] /\ j \in 1 .. Len(q)
      BY <1>1, <2>3
    <3> HIDE DEF p
    <3>3. Sums(f, p)
      BY <1>2, <3>2 DEF Sums
    <3>4. BytesOf(p) = f[k]
      BY <3>1, <3>2, <3>3, BytesUnique
    <3>5. BytesOf(SubSeq(q, k + 1, Len(q))) \in Nat
      BY <3>1, BytesType
    <3> QED
      BY <3>1, <3>4, <3>5, CapacityAssumption
  <2> HIDE DEF Nodes
  <2>9. F(k) \in Buffers(at)
    BY <2>4, <2>6, <2>7, <2>8 DEF Buffers
  <2> QED
    BY <2>2, <2>4, <2>5, <2>9
<1>4. ASSUME NEW k \in 1 .. Len(q) PROVE F(k) = PushInto(F(k - 1), q[k], at)
  <2>1. k - 1 \in 0 .. Len(q) /\ k \in 0 .. Len(q) /\ q[k] \in Tried(at)
    BY <1>1
  <2>2. /\ F(k - 1) \in Buffers(at) /\ Nodes(k - 1) \in Seq(Queued(at)) /\ Len(Nodes(k - 1)) = k - 1
        /\ \A j \in 1 .. (k - 1) : ~IsExpired(Nodes(k - 1)[j], at)
    BY <1>3, <2>1
  <2>3. f[k - 1] + Length[q[k].packet] = f[k] /\ f[k] <= Capacity
    <3>1. F(k) \in Buffers(at)
      BY <1>3, <2>1
    <3>2. f[k] <= Capacity
      BY <3>1 DEF Buffers
    <3> QED
      BY <1>2, <3>2
  <2>4. Append(Nodes(k - 1), Stamped(q[k], at)) = Nodes(k)
    <3>1. k \in Nat /\ k - 1 \in Nat /\ k - 1 + 1 = k
      BY <2>1
    <3>2. Nodes(k) \in Seq(Queued(at)) /\ Len(Nodes(k)) = k
      BY <1>3, <2>1
    <3>3. Stamped(q[k], at) \in Queued(at)
      BY <2>1, StampedQueued
    <3> DEFINE u == Append(Nodes(k - 1), Stamped(q[k], at))
    <3>4. /\ u \in Seq(Queued(at)) /\ Len(u) = k /\ u[k] = Stamped(q[k], at)
          /\ \A j \in 1 .. (k - 1) : u[j] = Nodes(k - 1)[j]
      <4> HIDE DEF Nodes
      <4> QED
        BY <2>2, <3>1, <3>3, Appended
    <3>5. \A j \in 1 .. k : u[j] = Nodes(k)[j]
      <4>1. \A j \in 1 .. (k - 1) : u[j] = Stamped(q[j], at)
        BY <3>4
      <4>2. \A j \in 1 .. k : j = k \/ j \in 1 .. (k - 1)
        BY <3>1
      <4> HIDE DEF u
      <4> QED
        BY <3>4, <4>1, <4>2
    <3> HIDE DEF u, Nodes
    <3>6. u = Nodes(k)
      BY <3>1, <3>2, <3>4, <3>5, SeqEqual
    <3> QED
      BY <3>6 DEF u
  <2> DEFINE c == F(k - 1)
  <2>5. c \in Buffers(at) /\ c.nodes = Nodes(k - 1) /\ c.stored = f[k - 1]
    BY <2>2
  <2> HIDE DEF c
  <2>6. PushInto(c, q[k], at) = [nodes  |-> Append(c.nodes, Stamped(q[k], at)),
                                 stored |-> c.stored + Length[q[k].packet]]
    <3>1. \A j \in 1 .. Len(c.nodes) : ~IsExpired(c.nodes[j], at)
      <4> HIDE DEF Nodes
      <4> QED
        BY <2>2, <2>5
    <3> HIDE DEF Nodes
    <3> QED
      BY <2>1, <2>3, <2>5, <3>1, PushFits
  <2>7. PushInto(c, q[k], at) = F(k)
    <3> HIDE DEF Nodes
    <3> QED
      BY <2>3, <2>4, <2>5, <2>6
  <2> QED
    BY <2>7 DEF c
<1> DEFINE Body(h) == [k \in 0 .. Len(q) |-> IF k = 0 THEN EmptyBuffer ELSE PushInto(h[k - 1], q[k], at)]
           e == [k \in 0 .. Len(q) |-> F(k)]
           g == CHOOSE h : h = Body(h)
<1>5. F(0) = EmptyBuffer
  <2>1. Nodes(0) \in Seq(Queued(at)) /\ Len(Nodes(0)) = 0
    BY <1>1, <1>3
  <2> HIDE DEF Nodes
  <2>2. Nodes(0) = <<>>
    BY <2>1
  <2> QED
    BY <1>2, <2>2 DEF EmptyBuffer
<1> HIDE DEF F
<1>6. e = Body(e)
  <2>1. \A k \in 0 .. Len(q) : k = 0 \/ (k \in 1 .. Len(q) /\ k - 1 \in 0 .. Len(q))
    BY <1>1
  <2> QED
    BY <1>4, <1>5, <2>1
<1>7. g = Body(g)
  BY <1>6
<1>8. PushAll(q, at) = g[Len(q)]
  BY DEF PushAll
<1> HIDE DEF g
<1>9. g[0] = EmptyBuffer /\ \A k \in 1 .. Len(q) : g[k] = PushInto(g[k - 1], q[k], at)
  <2>1. 0 \in 0 .. Len(q) /\ \A k \in 1 .. Len(q) : k \in 0 .. Len(q) /\ k # 0
    BY <1>1
  <2> QED
    BY <1>7, <2>1
<1>10. e[0] = EmptyBuffer /\ \A k \in 1 .. Len(q) : e[k] = PushInto(e[k - 1], q[k], at)
  <2>1. 0 \in 0 .. Len(q) /\ \A k \in 1 .. Len(q) : k \in 0 .. Len(q) /\ k - 1 \in 0 .. Len(q)
    BY <1>1
  <2> QED
    BY <1>4, <1>5, <2>1
<1> HIDE DEF e
<1>11. \A k \in 0 .. Len(q) : g[k] = e[k]
  <2>1. Alike(g, e, Len(q))
    BY <1>9, <1>10 DEF Alike
  <2> QED
    BY <1>1, <2>1, SameRecursion
<1>12. PushAll(q, at) = F(Len(q))
  <2>1. Len(q) \in 0 .. Len(q)
    BY <1>1
  <2> QED
    BY <1>8, <1>11, <2>1 DEF e
<1> QED
  BY <1>1, <1>3, <1>12 DEF F

-----------------------------------------------------------------------------
(* The inductive invariant: besides what Consistent says, every node       *)
(* expires when its header says so, counted from when it was queued, and   *)
(* the header never says more than the packet started with.                *)
BufferInv == now \in Nat /\ Buffer \in Buffers(now) /\ out \in Seq(Tried(now))

(* It implies what the run checks. *)
LEMMA BufferInvConsistent == BufferInv => Consistent
<1> SUFFICES ASSUME BufferInv PROVE Consistent
  OBVIOUS
<1>1. /\ now \in Nat /\ m_nodes \in Seq(Queued(now)) /\ m_stored \in Nat /\ out \in Seq(Tried(now))
      /\ m_stored = BytesOf(m_nodes) /\ m_stored <= Capacity /\ Sorted(m_nodes)
  BY DEF BufferInv, Buffers, Buffer
<1>2. m_nodes \in Seq(Node) /\ out \in Seq(Node)
  BY <1>1, QueuedNodes
<1>3. DOMAIN m_nodes = 1 .. Len(m_nodes) /\ DOMAIN out = 1 .. Len(out)
  BY <1>2
<1>4. BufferTypeOK /\ BytesExact
  BY <1>1, <1>2 DEF BufferTypeOK, BytesExact
<1>5. OldestFirst
  BY <1>1, <1>3 DEF OldestFirst, Sorted
<1>6. LifetimeDrift
  <2>1. \A k \in DOMAIN m_nodes : m_nodes[k] \in Queued(now)
    BY <1>1
  <2>2. \A k \in DOMAIN out : out[k] \in Tried(now)
    BY <1>1
  <2> QED
    BY <2>1, <2>2 DEF LifetimeDrift, Queued, Tried
<1> QED
  BY <1>4, <1>5, <1>6 DEF Consistent

(* It holds of the empty buffer. *)
LEMMA BufferInitially == BufferInit => BufferInv
<1> SUFFICES ASSUME BufferInit PROVE BufferInv
  OBVIOUS
<1>1. <<>> \in Seq(Queued(0)) /\ <<>> \in Seq(Tried(0)) /\ Sorted(<<>>)
  BY DEF Sorted
<1>2. [nodes |-> <<>>, stored |-> 0] \in Buffers(0)
  BY <1>1, BytesNone, CapacityAssumption DEF Buffers
<1> QED
  BY <1>1, <1>2 DEF BufferInit, BufferInv, Buffer

(* The value of the buffer after a step. *)
LEMMA BufferSet ==
    ASSUME NEW at, NEW b \in Buffers(at), SetBuffer(b)
    PROVE  Buffer' = b
<1>1. b = [nodes |-> b.nodes, stored |-> b.stored]
  BY DEF Buffers
<1> QED
  BY <1>1 DEF SetBuffer, Buffer

(* A push preserves the invariant. *)
LEMMA PushStep ==
    ASSUME BufferInv, NEW p \in PendingPacket, NEW lf \in Lifetimes, Push(p, lf)
    PROVE  BufferInv'
<1> DEFINE x == [packet |-> p, since |-> now, expires |-> now, lifetime |-> lf,
                 pushed |-> now, initial |-> lf, tries |-> 0]
<1>1. now \in Nat /\ Buffer \in Buffers(now)
  BY DEF BufferInv
<1>2. lf \in LifetimeField /\ Decode(lf) \in Nat
  BY LifetimesAssumption, DecodeType
<1>3. x \in Node /\ x.pushed = now /\ x.lifetime = lf /\ x.initial = lf /\ x.tries = 0
  BY <1>1, <1>2 DEF Node
<1>4. SetBuffer(PushInto(Buffer, x, now)) /\ out' = <<>> /\ now' = now
  BY DEF Push
<1> HIDE DEF x
<1>5. x \in Tried(now)
  BY <1>1, <1>2, <1>3 DEF Tried
<1>6. \A k \in 1 .. Len(Buffer.nodes) : Buffer.nodes[k].pushed <= x.pushed
  <2> DEFINE s == Buffer.nodes
  <2>1. s \in Seq(Queued(now))
    BY <1>1 DEF Buffers
  <2> HIDE DEF s
  <2> SUFFICES ASSUME NEW k \in 1 .. Len(s) PROVE s[k].pushed <= x.pushed
    BY DEF s
  <2>2. s[k] \in Queued(now)
    BY <2>1
  <2>3. s[k] \in Node /\ s[k].pushed <= s[k].since /\ s[k].since <= now
    BY <2>2 DEF Queued
  <2> QED
    BY <1>1, <1>3, <2>3, NodeFields
<1>7. PushInto(Buffer, x, now) \in Buffers(now)
  BY <1>1, <1>5, <1>6, PushIntoOK
<1>8. Buffer' \in Buffers(now)
  BY <1>4, <1>7, BufferSet
<1>9. <<>> \in Seq(Tried(now))
  OBVIOUS
<1> QED
  BY <1>1, <1>4, <1>8, <1>9 DEF BufferInv

(* What flush goes through: the packets that have not expired. *)
LEMMA FlushedOK ==
    ASSUME BufferInv
    PROVE  /\ Flushed \in Seq(Tried(now)) /\ Sorted(Flushed)
           /\ BytesOf(Flushed) <= Capacity
           /\ {m_nodes[k].packet : k \in {j \in DOMAIN m_nodes : ~IsExpired(m_nodes[j], now)}}
              = {Flushed[k].packet : k \in 1 .. Len(Flushed)}
<1> DEFINE L == LiveNodes(m_nodes, now)
           E == ExpiredNodes(m_nodes, now)
           alive == Kept(m_nodes, L)
<1>1. /\ now \in Nat /\ m_nodes \in Seq(Queued(now)) /\ m_stored \in Nat
      /\ m_stored = BytesOf(m_nodes) /\ m_stored <= Capacity /\ Sorted(m_nodes)
  BY DEF BufferInv, Buffers, Buffer
<1>2. m_nodes \in Seq(Node) /\ DOMAIN m_nodes = 1 .. Len(m_nodes)
  BY <1>1, QueuedNodes
<1>3. \A k \in 1 .. Len(m_nodes) : /\ m_nodes[k] \in L <=> m_nodes[k] \notin E
                                   /\ m_nodes[k] \in L <=> ~IsExpired(m_nodes[k], now)
  <2>1. \A k \in 1 .. Len(m_nodes) : m_nodes[k] \in Range(m_nodes)
    BY <1>2 DEF Range
  <2> QED
    BY <2>1 DEF LiveNodes, ExpiredNodes
<1>4. \A x \in L : ~IsExpired(x, now)
  BY DEF LiveNodes
<1>5. Flushed = [k \in DOMAIN alive |-> Reduce(alive[k], now)]
  BY DEF Flushed, Reduce
<1> HIDE DEF L, E
<1>6. alive \in Seq(Queued(now)) /\ HasAllOf(alive, m_nodes, L) /\ Kept(m_nodes, E) \in Seq(Node)
  BY <1>1, <1>2, KeptThins
<1>7. Sorted(alive) /\ OnlyFrom(alive, m_nodes)
  BY <1>1, <1>2, SortedKept
<1>8. BytesOf(m_nodes) = BytesOf(alive) + BytesOf(Kept(m_nodes, E))
  BY <1>2, <1>3, BytesKept
<1> HIDE DEF alive
<1>9. alive \in Seq(Node) /\ DOMAIN alive = 1 .. Len(alive) /\ Len(alive) \in Nat
  BY <1>6, QueuedNodes
<1>10. \A k \in 1 .. Len(alive) : /\ Reduce(alive[k], now) \in Tried(now)
                                  /\ Reduce(alive[k], now).packet = alive[k].packet
                                  /\ Reduce(alive[k], now).pushed = alive[k].pushed
  <2>1. \A k \in 1 .. Len(alive) : alive[k] \in Queued(now) /\ ~IsExpired(alive[k], now)
    BY <1>4, <1>6 DEF HasAllOf
  <2> QED
    BY <1>1, <2>1, ReduceTried
<1> DEFINE F == Flushed
<1>11. F \in Seq(Tried(now)) /\ Len(F) = Len(alive)
       /\ \A k \in 1 .. Len(alive) : F[k] = Reduce(alive[k], now)
  BY <1>5, <1>9, <1>10
<1> HIDE DEF F
<1>12. \A k \in 1 .. Len(F) : F[k].packet = alive[k].packet /\ F[k].pushed = alive[k].pushed
  BY <1>10, <1>11
<1>13. Sorted(F)
  BY <1>7, <1>11, <1>12 DEF Sorted
<1>14. BytesOf(F) <= Capacity
  <2>1. F \in Seq(Node)
    BY <1>11, QueuedNodes
  <2>2. BytesOf(F) = BytesOf(alive)
    BY <1>9, <1>11, <1>12, <2>1, BytesSame
  <2>3. BytesOf(alive) \in Nat /\ BytesOf(Kept(m_nodes, E)) \in Nat
    BY <1>6, <1>9, BytesType
  <2> QED
    BY <1>1, <1>8, <2>2, <2>3, CapacityAssumption
<1>15. {m_nodes[k].packet : k \in {j \in DOMAIN m_nodes : ~IsExpired(m_nodes[j], now)}}
       = {F[k].packet : k \in 1 .. Len(F)}
  <2>1. ASSUME NEW k \in DOMAIN m_nodes, ~IsExpired(m_nodes[k], now)
        PROVE  \E j \in 1 .. Len(F) : F[j].packet = m_nodes[k].packet
    <3>1. m_nodes[k] \in L
      BY <1>2, <1>3, <2>1
    <3>2. PICK j \in 1 .. Len(alive) : alive[j] = m_nodes[k]
      BY <1>2, <1>6, <3>1 DEF HasAllOf
    <3> QED
      BY <1>11, <1>12, <3>2
  <2>2. ASSUME NEW j \in 1 .. Len(F)
        PROVE  \E k \in DOMAIN m_nodes : ~IsExpired(m_nodes[k], now) /\ m_nodes[k].packet = F[j].packet
    <3>1. PICK k \in 1 .. Len(m_nodes) : alive[j] = m_nodes[k]
      BY <1>7, <1>11 DEF OnlyFrom
    <3>2. alive[j] \in L
      BY <1>6, <1>11 DEF HasAllOf
    <3> QED
      BY <1>2, <1>3, <1>12, <3>1, <3>2
  <2> QED
    BY <2>1, <2>2
<1> QED
  BY <1>11, <1>13, <1>14, <1>15 DEF F

(* A flush preserves the invariant, and every packet that has not expired  *)
(* is forwarded or back in the buffer.                                     *)
LEMMA FlushStep ==
    ASSUME BufferInv, NEW again, Flush(again)
    PROVE  /\ BufferInv'
           /\ {m_nodes[k].packet : k \in {j \in DOMAIN m_nodes : ~IsExpired(m_nodes[j], now)}}
              = {out'[k].packet : k \in DOMAIN out'} \cup {m_nodes'[k].packet : k \in DOMAIN m_nodes'}
<1> DEFINE F == Flushed
           K == {node \in Range(F) : node.packet \in again}
           L == {node \in Range(F) : node.packet \notin again}
           q == Kept(F, K)
           r == Kept(F, L)
<1>1. /\ F \in Seq(Tried(now)) /\ Sorted(F) /\ BytesOf(F) <= Capacity
      /\ {m_nodes[k].packet : k \in {j \in DOMAIN m_nodes : ~IsExpired(m_nodes[j], now)}}
         = {F[k].packet : k \in 1 .. Len(F)}
  BY FlushedOK
<1>2. SetBuffer(PushAll(q, now)) /\ out' = r /\ now' = now
  BY DEF Flush
<1>3. now \in Nat
  BY DEF BufferInv
<1> HIDE DEF F
<1>4. F \in Seq(Node)
  BY <1>1, QueuedNodes
<1>5. \A k \in 1 .. Len(F) : F[k] \in K <=> F[k] \notin L
  <2>1. \A k \in 1 .. Len(F) : F[k] \in Range(F)
    BY <1>4 DEF Range
  <2> QED
    BY <2>1
<1> HIDE DEF K, L
<1>6. /\ q \in Seq(Tried(now)) /\ r \in Seq(Tried(now))
      /\ HasAllOf(q, F, K) /\ HasAllOf(r, F, L)
  BY <1>1, KeptThins
<1>7. Sorted(q) /\ OnlyFrom(q, F) /\ OnlyFrom(r, F)
  BY <1>1, <1>4, SortedKept
<1>8. BytesOf(F) = BytesOf(q) + BytesOf(r)
  BY <1>4, <1>5, BytesKept
<1> HIDE DEF q, r
<1>9. BytesOf(q) <= Capacity
  <2>1. q \in Seq(Node) /\ r \in Seq(Node) /\ BytesOf(q) \in Nat /\ BytesOf(r) \in Nat
    BY <1>6, QueuedNodes, BytesType
  <2> QED
    BY <1>1, <1>8, <2>1, CapacityAssumption
<1> DEFINE b == PushAll(q, now)
<1>10. b \in Buffers(now) /\ b.nodes = [j \in 1 .. Len(q) |-> Stamped(q[j], now)]
  BY <1>3, <1>6, <1>7, <1>9, PushAllFits
<1> HIDE DEF b
<1>11. Buffer' = b
  BY <1>2, <1>10, BufferSet DEF b
<1>12. BufferInv'
  BY <1>2, <1>3, <1>6, <1>10, <1>11 DEF BufferInv
<1>13. m_nodes' = [j \in 1 .. Len(q) |-> Stamped(q[j], now)]
  BY <1>2, <1>10 DEF SetBuffer, b
<1>14. \A j \in 1 .. Len(q) : q[j] \in Tried(now)
  BY <1>6
<1>15. \A j \in 1 .. Len(q) : Stamped(q[j], now).packet = q[j].packet
  BY <1>3, <1>14, StampedQueued
<1>16. {m_nodes'[k].packet : k \in DOMAIN m_nodes'} = {q[k].packet : k \in 1 .. Len(q)}
  BY <1>13, <1>15
<1>17. {out'[k].packet : k \in DOMAIN out'} = {r[k].packet : k \in 1 .. Len(r)}
  <2>1. DOMAIN r = 1 .. Len(r)
    BY <1>6
  <2> QED
    BY <1>2, <2>1
<1>18. {F[k].packet : k \in 1 .. Len(F)}
       = {r[k].packet : k \in 1 .. Len(r)} \cup {q[k].packet : k \in 1 .. Len(q)}
  <2>1. \A k \in 1 .. Len(F) : \/ \E j \in 1 .. Len(q) : q[j] = F[k]
                               \/ \E j \in 1 .. Len(r) : r[j] = F[k]
    BY <1>5, <1>6 DEF HasAllOf
  <2>2. /\ \A j \in 1 .. Len(q) : \E k \in 1 .. Len(F) : q[j] = F[k]
        /\ \A j \in 1 .. Len(r) : \E k \in 1 .. Len(F) : r[j] = F[k]
    BY <1>7 DEF OnlyFrom
  <2> DEFINE P(s) == {s[k].packet : k \in 1 .. Len(s)}
  <2>3. P(q) \subseteq P(F)
    BY <2>2
  <2>4. P(r) \subseteq P(F)
    BY <2>2
  <2>5. ASSUME NEW k \in 1 .. Len(F) PROVE F[k].packet \in P(r) \cup P(q)
    <3>1. CASE \E j \in 1 .. Len(q) : q[j] = F[k]
      <4>1. PICK j \in 1 .. Len(q) : q[j] = F[k]
        BY <3>1
      <4>2. q[j].packet \in P(q)
        OBVIOUS
      <4> QED
        BY <4>1, <4>2
    <3>2. CASE \E j \in 1 .. Len(r) : r[j] = F[k]
      <4>1. PICK j \in 1 .. Len(r) : r[j] = F[k]
        BY <3>2
      <4>2. r[j].packet \in P(r)
        OBVIOUS
      <4> QED
        BY <4>1, <4>2
    <3> QED
      BY <2>1, <3>1, <3>2
  <2> QED
    BY <2>3, <2>4, <2>5
<1> QED
  BY <1>1, <1>12, <1>16, <1>17, <1>18

(* The clock preserves the invariant. *)
LEMMA BufferTick ==
    ASSUME BufferInv, NEW step \in Steps, Tick(step)
    PROVE  BufferInv'
<1>1. now \in Nat /\ step \in Nat /\ now' = now + step /\ out' = <<>> /\ Buffer' = Buffer
  BY StepsAssumption DEF BufferInv, Tick, Buffer
<1>2. now' \in Nat /\ now <= now'
  BY <1>1
<1>3. Queued(now) \subseteq Queued(now')
  <2> SUFFICES ASSUME NEW x \in Queued(now) PROVE x \in Queued(now')
    OBVIOUS
  <2>1. x \in Node /\ x.since <= now
    BY DEF Queued
  <2>2. x.since <= now'
    BY <1>1, <1>2, <2>1, NodeFields
  <2> QED
    BY <2>2 DEF Queued
<1>4. Seq(Queued(now)) \subseteq Seq(Queued(now'))
  BY <1>3
<1>5. Buffers(now) \subseteq Buffers(now')
  BY <1>4 DEF Buffers
<1>6. <<>> \in Seq(Tried(now'))
  OBVIOUS
<1> QED
  BY <1>1, <1>2, <1>5, <1>6 DEF BufferInv

(* So every step does. *)
LEMMA BufferInvStep == BufferInv /\ [BufferNext]_bufferVars => BufferInv'
<1> SUFFICES ASSUME BufferInv, [BufferNext]_bufferVars PROVE BufferInv'
  OBVIOUS
<1>1. ASSUME NEW p \in PendingPacket, NEW lf \in Lifetimes, Push(p, lf) PROVE BufferInv'
  BY <1>1, PushStep
<1>2. ASSUME NEW again \in SUBSET PendingPacket, Flush(again) PROVE BufferInv'
  BY <1>2, FlushStep
<1>3. ASSUME NEW step \in Steps, Tick(step) PROVE BufferInv'
  BY <1>3, BufferTick
<1>4. CASE UNCHANGED bufferVars
  BY <1>4 DEF bufferVars, BufferInv, Buffer
<1> QED
  BY <1>1, <1>2, <1>3, <1>4 DEF BufferNext

(* The invariant always holds. *)
LEMMA BufferAlways == BufferSpec => []BufferInv
  BY BufferInitially, BufferInvStep, PTL DEF BufferSpec

(* The store-carry-forward buffer stays consistent, with packets of any    *)
(* lengths and lifetimes: its byte count is exact and within the capacity, *)
(* so free() never wraps; the oldest packet is always the next one to be   *)
(* dropped; and re-encoding the lifetime at every flush adds no more than  *)
(* 25 ms each time.                                                        *)
THEOREM BufferConsistent == BufferSpec => []Consistent
  BY BufferAlways, BufferInvConsistent, PTL

(* flush loses no packet that has not expired, although forwarding pushes  *)
(* packets into the buffer that is being flushed.                          *)
THEOREM FlushComplete == BufferSpec => FlushLosesNothing
<1> DEFINE Complete ==
        \A again \in SUBSET PendingPacket : Flush(again) =>
            {m_nodes[k].packet : k \in {j \in DOMAIN m_nodes : ~IsExpired(m_nodes[j], now)}}
            = {out'[k].packet : k \in DOMAIN out'} \cup {m_nodes'[k].packet : k \in DOMAIN m_nodes'}
<1>1. BufferInv /\ [BufferNext]_bufferVars => [Complete]_bufferVars
  BY FlushStep
<1> QED
  BY <1>1, BufferAlways, PTL DEF BufferSpec, FlushLosesNothing

-----------------------------------------------------------------------------
(* The states of a station *)

(* What is carried may be carried. *)
Carriable(R) == {q \in Pending(R) : Scf[q.packet]}

(* Unicast transmissions make progress towards the destination area. *)
Progressing(n, R) ==
    {t \in Sending(R) :
        t.destination = Broadcast \/ DistanceTo(t.destination, t.packet) < DistanceTo(n, t.packet)}

(* Lists without repetitions, such as the duplicate packet lists. *)
Lists(R) == {l \in Seq(R) : Distinct(l)}

(* The states of station n if the packets of R have been requested. *)
States(n, R) ==
    {s \in StationState :
        /\ s.neighbours \subseteq s.known /\ s.expired \subseteq s.known
        /\ s.scf \in Seq(Carriable(R)) /\ s.out \in Seq(Progressing(n, R))
        /\ \A p \in Packet : IsBuffered(s, p) => p \in R
        /\ s.memory \in Seq(R) /\ Distinct(s.memory) /\ s.dpl \in [Station -> Lists(R)]}

(* A packet of R at hand. *)
AtHand(q, R) == q.packet \in R /\ q.hops \in Nat /\ q.ll \in LinkLayer

(* The location table and the memory are the same. *)
SameTable(s, t) ==
    /\ t.known = s.known /\ t.neighbours = s.neighbours /\ t.expired = s.expired
    /\ t.dpl = s.dpl /\ t.memory = s.memory

(* The CBF buffer and its counters are the same. *)
SameCbf(s, t) == t.cbf = s.cbf /\ t.counter = s.counter

(* t differs from s in matters of packet p only: the packet is transmitted *)
(* or carried at most once more, or it is contended for.                   *)
Moves(s, t, p) ==
    /\ SameTable(s, t)
    /\ \A o \in Packet \ {p} : t.cbf[o] = s.cbf[o] /\ t.counter[o] = s.counter[o]
    /\ t.out = s.out \/ \E x \in Sending({p}) : t.out = Append(s.out, x)
    /\ t.scf = s.scf \/ \E x \in Pending({p}) : t.scf = Append(s.scf, x)

(* Distances are numbers. *)
LEMMA DistanceType ==
    ASSUME NEW m \in Station, NEW p \in Packet
    PROVE  DistanceTo(m, p) \in Nat
<1>1. Position[m] \in Int /\ Area[p].lo \in Int /\ Area[p].hi \in Int
  BY StationAssumption, PacketAssumption
<1> QED
  BY <1>1 DEF DistanceTo, Abs

(* The fields of a state. *)
LEMMA StateFields ==
    ASSUME NEW n, NEW R \in SUBSET Packet, NEW s \in States(n, R)
    PROVE  /\ s \in StationState
           /\ s.known \subseteq Station /\ s.neighbours \subseteq Station /\ s.expired \subseteq Station
           /\ s.neighbours \subseteq s.known /\ s.expired \subseteq s.known
           /\ s.dpl \in [Station -> Seq(Packet)]
           /\ s.cbf \in [Packet -> CbfEntry] /\ s.counter \in [Packet -> Nat]
           /\ s.faded \in [Packet -> Nat]
           /\ s.scf \in Seq(Carriable(R)) /\ s.out \in Seq(Progressing(n, R))
           /\ s.memory \in Seq(R) /\ Distinct(s.memory) /\ s.dpl \in [Station -> Lists(R)]
           /\ \A p \in Packet : s.cbf[p] # NotBuffered => p \in R
  BY DEF States, StationState, IsBuffered

(* Sequences over R are sequences of packets. *)
LEMMA WithinPackets ==
    ASSUME NEW n, NEW R \in SUBSET Packet
    PROVE  /\ Seq(Carriable(R)) \subseteq Seq(Pending(Packet))
           /\ Seq(Progressing(n, R)) \subseteq Seq(Sending(Packet))
           /\ Seq(R) \subseteq Seq(Packet)
<1>1. Carriable(R) \subseteq Pending(Packet)
  BY DEF Carriable, Pending
<1>2. Progressing(n, R) \subseteq Sending(Packet)
  BY DEF Progressing, Sending
<1> QED
  BY <1>1, <1>2

(* Another list of carried packets. *)
LEMMA SetScf ==
    ASSUME NEW n, NEW R \in SUBSET Packet, NEW s \in States(n, R), NEW x \in Seq(Carriable(R))
    PROVE  /\ [s EXCEPT !.scf = x] \in States(n, R)
           /\ SameTable(s, [s EXCEPT !.scf = x]) /\ SameCbf(s, [s EXCEPT !.scf = x])
           /\ [s EXCEPT !.scf = x].scf = x /\ [s EXCEPT !.scf = x].out = s.out
<1> DEFINE t == [s EXCEPT !.scf = x]
<1>1. x \in Seq(Pending(Packet))
  BY WithinPackets
<1>2. /\ t \in StationState /\ t.known = s.known /\ t.neighbours = s.neighbours
      /\ t.expired = s.expired /\ t.dpl = s.dpl /\ t.memory = s.memory /\ t.cbf = s.cbf
      /\ t.counter = s.counter /\ t.scf = x /\ t.out = s.out
  <2>1. s \in StationState
    BY StateFields
  <2> QED
    BY <1>1, <2>1 DEF StationState
<1> HIDE DEF t
<1>3. t \in States(n, R)
  <2>1. /\ s.neighbours \subseteq s.known /\ s.expired \subseteq s.known
        /\ s.scf \in Seq(Carriable(R)) /\ s.out \in Seq(Progressing(n, R))
        /\ s.memory \in Seq(R) /\ Distinct(s.memory) /\ s.dpl \in [Station -> Lists(R)]
        /\ \A p \in Packet : s.cbf[p] # NotBuffered => p \in R
    BY StateFields
  <2> QED
    BY <1>2, <2>1 DEF States, IsBuffered
<1> QED
  BY <1>2, <1>3 DEF SameTable, SameCbf, t

(* Another list of transmissions. *)
LEMMA SetOut ==
    ASSUME NEW n, NEW R \in SUBSET Packet, NEW s \in States(n, R), NEW x \in Seq(Progressing(n, R))
    PROVE  /\ [s EXCEPT !.out = x] \in States(n, R)
           /\ SameTable(s, [s EXCEPT !.out = x]) /\ SameCbf(s, [s EXCEPT !.out = x])
           /\ [s EXCEPT !.out = x].scf = s.scf /\ [s EXCEPT !.out = x].out = x
<1> DEFINE t == [s EXCEPT !.out = x]
<1>1. x \in Seq(Sending(Packet))
  BY WithinPackets
<1>2. /\ t \in StationState /\ t.known = s.known /\ t.neighbours = s.neighbours
      /\ t.expired = s.expired /\ t.dpl = s.dpl /\ t.memory = s.memory /\ t.cbf = s.cbf
      /\ t.counter = s.counter /\ t.scf = s.scf /\ t.out = x
  <2>1. s \in StationState
    BY StateFields
  <2> QED
    BY <1>1, <2>1 DEF StationState
<1> HIDE DEF t
<1>3. t \in States(n, R)
  <2>1. /\ s.neighbours \subseteq s.known /\ s.expired \subseteq s.known
        /\ s.scf \in Seq(Carriable(R)) /\ s.out \in Seq(Progressing(n, R))
        /\ s.memory \in Seq(R) /\ Distinct(s.memory) /\ s.dpl \in [Station -> Lists(R)]
        /\ \A p \in Packet : s.cbf[p] # NotBuffered => p \in R
    BY StateFields
  <2> QED
    BY <1>2, <2>1 DEF States, IsBuffered
<1> QED
  BY <1>2, <1>3 DEF SameTable, SameCbf, t

(* Another memory. *)
LEMMA SetMemory ==
    ASSUME NEW n, NEW R \in SUBSET Packet, NEW s \in States(n, R), NEW x \in Seq(R), Distinct(x)
    PROVE  /\ [s EXCEPT !.memory = x] \in States(n, R)
           /\ SameCbf(s, [s EXCEPT !.memory = x])
           /\ [s EXCEPT !.memory = x].memory = x /\ [s EXCEPT !.memory = x].out = s.out
           /\ [s EXCEPT !.memory = x].scf = s.scf /\ [s EXCEPT !.memory = x].dpl = s.dpl
           /\ [s EXCEPT !.memory = x].known = s.known
           /\ [s EXCEPT !.memory = x].expired = s.expired
<1> DEFINE t == [s EXCEPT !.memory = x]
<1>1. x \in Seq(Packet)
  BY WithinPackets
<1>2. /\ t \in StationState /\ t.known = s.known /\ t.neighbours = s.neighbours
      /\ t.expired = s.expired /\ t.dpl = s.dpl /\ t.memory = x /\ t.cbf = s.cbf
      /\ t.counter = s.counter /\ t.scf = s.scf /\ t.out = s.out
  <2>1. s \in StationState
    BY StateFields
  <2> QED
    BY <1>1, <2>1 DEF StationState
<1> HIDE DEF t
<1>3. t \in States(n, R)
  <2>1. /\ s.neighbours \subseteq s.known /\ s.expired \subseteq s.known
        /\ s.scf \in Seq(Carriable(R)) /\ s.out \in Seq(Progressing(n, R))
        /\ s.memory \in Seq(R) /\ Distinct(s.memory) /\ s.dpl \in [Station -> Lists(R)]
        /\ \A p \in Packet : s.cbf[p] # NotBuffered => p \in R
    BY StateFields
  <2> QED
    BY <1>2, <2>1 DEF States, IsBuffered
<1> QED
  BY <1>2, <1>3 DEF SameCbf, t

(* Another CBF entry and counter of a packet, and other expired counters. *)
WithCbf(s, p, e, c, d) == [s EXCEPT !.cbf[p] = e, !.counter[p] = c, !.faded = d]

(* Its fields *)
LEMMA SetCbf ==
    ASSUME NEW n, NEW R \in SUBSET Packet, NEW s \in States(n, R), NEW p \in Packet,
           NEW e \in CbfEntry, NEW c \in Nat, NEW d \in [Packet -> Nat], e # NotBuffered => p \in R,
           NEW t, t = WithCbf(s, p, e, c, d)
    PROVE  /\ t \in States(n, R) /\ SameTable(s, t)
           /\ t.scf = s.scf /\ t.out = s.out
           /\ t.cbf = [s.cbf EXCEPT ![p] = e] /\ t.counter = [s.counter EXCEPT ![p] = c]
<1>1. s \in StationState /\ s.cbf \in [Packet -> CbfEntry] /\ s.counter \in [Packet -> Nat]
  BY StateFields
<1>2. [s.cbf EXCEPT ![p] = e] \in [Packet -> CbfEntry] /\ [s.counter EXCEPT ![p] = c] \in [Packet -> Nat]
  BY <1>1
<1>3. /\ t \in StationState /\ t.known = s.known /\ t.neighbours = s.neighbours
      /\ t.expired = s.expired /\ t.dpl = s.dpl /\ t.memory = s.memory
      /\ t.cbf = [s.cbf EXCEPT ![p] = e]
      /\ t.counter = [s.counter EXCEPT ![p] = c] /\ t.scf = s.scf /\ t.out = s.out
  BY <1>1, <1>2 DEF StationState, WithCbf
<1>4. ASSUME NEW o \in Packet, t.cbf[o] # NotBuffered PROVE o \in R
  <2>1. t.cbf[o] = IF o = p THEN e ELSE s.cbf[o]
    BY <1>1, <1>3
  <2>2. s.cbf[o] # NotBuffered => o \in R
    BY StateFields
  <2> QED
    BY <1>4, <2>1, <2>2
<1>5. t \in States(n, R)
  BY <1>3, <1>4, StateFields DEF States, IsBuffered
<1> QED
  BY <1>3, <1>5 DEF SameTable

-----------------------------------------------------------------------------
(* The elementary changes *)

(* A transmission to this address makes progress, or is a broadcast. *)
Towards(n, p, mac) ==
    \/ mac = Broadcast
    \/ mac \in Station /\ DistanceTo(mac, p) < DistanceTo(n, p)

(* A packet as it is stored *)
Stored(kind, q) == [kind |-> kind, packet |-> q.packet, hops |-> q.hops, ll |-> q.ll]

(* Packet p is transmitted once more. *)
SendsOne(s, t, p) == \E x \in Sending({p}) : t.out = Append(s.out, x)

(* The values of kind *)
Kinds == {"forwarding", "greedy", "transmit"}

(* push for the broadcast forwarding buffer *)
LEMMA PushScfMoves ==
    ASSUME NEW n, NEW R \in SUBSET Packet, NEW s \in States(n, R), NEW kind \in Kinds,
           NEW q, AtHand(q, R), Scf[q.packet], NEW t, t = PushScf(s, kind, q)
    PROVE  /\ t \in States(n, R) /\ Moves(s, t, q.packet) /\ SameCbf(s, t) /\ t.out = s.out
           /\ t.scf = Append(s.scf, Stored(kind, q))
<1> DEFINE x == Stored(kind, q)
           u == Append(s.scf, x)
<1>1. x \in Pending({q.packet}) /\ x \in Carriable(R)
  BY DEF AtHand, Pending, Carriable, Kinds, Stored
<1>2. t = [s EXCEPT !.scf = u]
  BY DEF PushScf, Stored
<1> HIDE DEF x
<1>3. u \in Seq(Carriable(R))
  BY <1>1, StateFields
<1> HIDE DEF u
<1>4. t \in States(n, R) /\ SameTable(s, t) /\ SameCbf(s, t) /\ t.scf = u /\ t.out = s.out
  BY <1>2, <1>3, SetScf
<1>5. Moves(s, t, q.packet)
  BY <1>1, <1>4 DEF Moves, SameCbf, u
<1> QED
  BY <1>4, <1>5 DEF u, x

(* pass_down *)
LEMMA TransmitMoves ==
    ASSUME NEW n, NEW R \in SUBSET Packet, NEW s \in States(n, R), NEW q, NEW mac,
           q.packet \in R, q.hops \in Nat, Towards(n, q.packet, mac),
           NEW t, t = Transmit(s, q, mac)
    PROVE  /\ t \in States(n, R) /\ SameTable(s, t) /\ SameCbf(s, t) /\ t.scf = s.scf
           /\ SendsOne(s, t, q.packet)
<1> DEFINE x == [packet |-> q.packet, hops |-> q.hops, destination |-> mac]
           u == Append(s.out, x)
<1>1. x \in Sending({q.packet}) /\ x \in Progressing(n, R)
  BY DEF Sending, Progressing, Towards
<1>2. t = [s EXCEPT !.out = u]
  BY DEF Transmit
<1> HIDE DEF x
<1>3. u \in Seq(Progressing(n, R))
  BY <1>1, StateFields
<1> HIDE DEF u
<1>4. t \in States(n, R) /\ SameTable(s, t) /\ SameCbf(s, t) /\ t.scf = s.scf /\ t.out = u
  BY <1>2, <1>3, SetOut
<1> QED
  BY <1>1, <1>4 DEF u, SendsOne

(* Changes of one CBF entry concern this packet only. *)
LEMMA CbfMoves ==
    ASSUME NEW n, NEW R \in SUBSET Packet, NEW s \in States(n, R), NEW p \in Packet,
           NEW e \in CbfEntry, NEW c \in Nat, NEW d \in [Packet -> Nat], e # NotBuffered => p \in R,
           NEW t, t = WithCbf(s, p, e, c, d)
    PROVE  /\ t \in States(n, R) /\ Moves(s, t, p) /\ t.scf = s.scf /\ t.out = s.out
           /\ t.cbf[p] = e /\ t.counter[p] = c
<1>1. /\ t \in States(n, R) /\ SameTable(s, t) /\ t.scf = s.scf /\ t.out = s.out
      /\ t.cbf = [s.cbf EXCEPT ![p] = e] /\ t.counter = [s.counter EXCEPT ![p] = c]
  BY SetCbf
<1>2. s.cbf \in [Packet -> CbfEntry] /\ s.counter \in [Packet -> Nat]
  BY StateFields
<1>3. /\ \A o \in Packet \ {p} : t.cbf[o] = s.cbf[o] /\ t.counter[o] = s.counter[o]
      /\ t.cbf[p] = e /\ t.counter[p] = c
  BY <1>1, <1>2
<1> QED
  BY <1>1, <1>3 DEF Moves

(* CbfPacketBuffer::add *)
LEMMA ContendMoves ==
    ASSUME NEW n, NEW R \in SUBSET Packet, NEW s \in States(n, R), NEW q, AtHand(q, R),
           NEW noop \in BOOLEAN, NEW t, t = Contend(s, q, noop)
    PROVE  /\ t \in States(n, R) /\ Moves(s, t, q.packet) /\ t.scf = s.scf /\ t.out = s.out
           /\ CounterKind = "fading" => t.counter[q.packet] > s.counter[q.packet]
<1> DEFINE p == q.packet
           e == [sender |-> q.ll.sender, hops |-> q.hops, noop |-> noop]
           c == IF CounterKind = "fading" THEN s.counter[p] + s.faded[p] + 1 ELSE 1
           d == [o \in Packet |-> 0]
<1>1. p \in R /\ p \in Packet /\ e \in CbfEntry
  <2>1. q.ll.sender \in Station \cup {Nobody}
    BY DEF AtHand, LinkLayer, Local
  <2> QED
    BY <2>1 DEF AtHand, CbfEntry
<1>2. c \in Nat /\ d \in [Packet -> Nat] /\ (CounterKind = "fading" => c > s.counter[p])
  <2>1. s.counter[p] \in Nat /\ s.faded[p] \in Nat
    BY <1>1, StateFields
  <2> QED
    BY <2>1
<1>3. t = WithCbf(s, p, e, c, d)
  <2>1. s \in StationState /\ s.counter \in [Packet -> Nat] /\ s.cbf \in [Packet -> CbfEntry]
    BY StateFields
  <2> QED
    BY <2>1, <1>1 DEF Contend, CbfAdd, WithCbf, StationState
<1> HIDE DEF p, e, c, d
<1>4. c \in Nat /\ d \in [Packet -> Nat]
  BY <1>2
<1>5. /\ t \in States(n, R) /\ Moves(s, t, p) /\ t.scf = s.scf /\ t.out = s.out /\ t.counter[p] = c
  BY <1>1, <1>3, <1>4, CbfMoves
<1> QED
  BY <1>2, <1>5 DEF p

(* CbfPacketBuffer::remove *)
LEMMA RemoveMoves ==
    ASSUME NEW n, NEW R \in SUBSET Packet, NEW s \in States(n, R), NEW p \in R,
           NEW t, t = CbfRemove(s, p)
    PROVE  /\ t \in States(n, R) /\ Moves(s, t, p) /\ t.scf = s.scf /\ t.out = s.out
           /\ ~IsBuffered(t, p)
           /\ CounterKind = "fading" => t.counter[p] = s.counter[p]
<1> DEFINE c == IF CounterKind = "fading" THEN s.counter[p] ELSE 0
           d == s.faded
<1>1. /\ s \in StationState /\ s.counter \in [Packet -> Nat] /\ s.cbf \in [Packet -> CbfEntry]
      /\ d \in [Packet -> Nat] /\ p \in Packet
  BY StateFields
<1>2. NotBuffered \in CbfEntry /\ c \in Nat
  BY <1>1 DEF NotBuffered, CbfEntry
<1>3. t = WithCbf(s, p, NotBuffered, c, d)
  BY <1>1 DEF CbfRemove, WithCbf, StationState
<1> HIDE DEF c, d
<1>4. /\ t \in States(n, R) /\ Moves(s, t, p) /\ t.scf = s.scf /\ t.out = s.out /\ t.counter[p] = c
      /\ t.cbf[p] = NotBuffered
  BY <1>1, <1>2, <1>3, CbfMoves
<1> QED
  BY <1>4 DEF c, IsBuffered

(* CbfPacketBuffer::update *)
LEMMA UpdateMoves ==
    ASSUME NEW n, NEW R \in SUBSET Packet, NEW s \in States(n, R), NEW p \in R,
           NEW t, t = CbfUpdate(s, p)
    PROVE  t \in States(n, R) /\ Moves(s, t, p) /\ t.scf = s.scf /\ t.out = s.out
<1> DEFINE c == s.counter[p] + s.faded[p] + 1
           d == [s.faded EXCEPT ![p] = 0]
           e == s.cbf[p]
<1>1. /\ s \in StationState /\ s.counter \in [Packet -> Nat] /\ s.cbf \in [Packet -> CbfEntry]
      /\ s.faded \in [Packet -> Nat] /\ p \in Packet
  BY StateFields
<1>2. e \in CbfEntry /\ c \in Nat /\ d \in [Packet -> Nat]
  BY <1>1
<1>3. t = WithCbf(s, p, e, c, d)
  <2>1. [s.cbf EXCEPT ![p] = e] = s.cbf
    BY <1>1
  <2> QED
    BY <1>1, <2>1 DEF CbfUpdate, WithCbf, StationState
<1> HIDE DEF c, d, e
<1> QED
  BY <1>1, <1>2, <1>3, CbfMoves

(* The counter of a packet expires. *)
LEMMA ExpiredMoves ==
    ASSUME NEW n, NEW R \in SUBSET Packet, NEW s \in States(n, R), NEW p \in Packet,
           NEW t, t = CounterExpired(s, p)
    PROVE  /\ t \in States(n, R) /\ Moves(s, t, p) /\ t.scf = s.scf /\ t.out = s.out
           /\ t.cbf[p] = s.cbf[p] /\ t.counter[p] = 0
<1> DEFINE c == 0
           d == [s.faded EXCEPT ![p] = s.counter[p]]
           e == s.cbf[p]
<1>1. /\ s \in StationState /\ s.counter \in [Packet -> Nat] /\ s.cbf \in [Packet -> CbfEntry]
      /\ s.faded \in [Packet -> Nat] /\ (e # NotBuffered => p \in R)
  BY StateFields
<1>2. e \in CbfEntry /\ c \in Nat /\ d \in [Packet -> Nat]
  BY <1>1
<1>3. t = WithCbf(s, p, e, c, d)
  <2>1. [s.cbf EXCEPT ![p] = e] = s.cbf
    BY <1>1
  <2> QED
    BY <1>1, <2>1 DEF CounterExpired, WithCbf, StationState
<1> HIDE DEF c, d, e
<1>4. /\ t \in States(n, R) /\ Moves(s, t, p) /\ t.scf = s.scf /\ t.out = s.out
      /\ t.cbf[p] = e /\ t.counter[p] = c
  BY <1>1, <1>2, <1>3, CbfMoves
<1> QED
  BY <1>4 DEF c, e

(* Nothing happens. *)
LEMMA StaysMoves == ASSUME NEW s, NEW p PROVE Moves(s, s, p)
  BY DEF Moves, SameTable

-----------------------------------------------------------------------------
(* The forwarding algorithms *)

(* What a forwarding algorithm may decide for a packet at station n: it is *)
(* transmitted with progress, broadcast, buffered or discarded.            *)
Decides(n, R, s, q, nh) ==
    /\ nh.state \in States(n, R) /\ Moves(s, nh.state, q.packet) /\ nh.state.out = s.out
    /\ \/ nh.mac \in {Nobody, Broadcast}
       \/ nh.mac \in Station /\ DistanceTo(nh.mac, q.packet) < DistanceTo(n, q.packet)

(* The state and the next hop of a decision *)
LEMMA NextHopFields == \A s, mac : NextHop(s, mac).state = s /\ NextHop(s, mac).mac = mac
  BY DEF NextHop

(* A decision that leaves the lists alone. *)
LEMMA DecidesSimply ==
    ASSUME NEW n, NEW R \in SUBSET Packet, NEW s \in States(n, R), NEW q,
           NEW mac \in {Nobody, Broadcast}
    PROVE  Decides(n, R, s, q, NextHop(s, mac))
  BY StaysMoves, NextHopFields DEF Decides

(* A decision that leaves the packet to the CBF buffer. *)
LEMMA DecidesCbf ==
    ASSUME NEW n, NEW R \in SUBSET Packet, NEW s, NEW q, NEW t \in States(n, R),
           Moves(s, t, q.packet), t.out = s.out
    PROVE  Decides(n, R, s, q, NextHop(t, Nobody))
  BY NextHopFields DEF Decides

(* greedy_forwarding: the neighbour with the most progress, or none *)
LEMMA GreedyCases ==
    ASSUME NEW n \in Station, NEW R \in SUBSET Packet, NEW s \in States(n, R), NEW q, AtHand(q, R),
           NEW nh, nh = GreedyForwarding(n, s, q)
    PROVE  \/ /\ nh = NextHop(s, nh.mac)
              /\ nh.mac \in Station /\ DistanceTo(nh.mac, q.packet) < DistanceTo(n, q.packet)
           \/ Scf[q.packet] /\ nh = NextHop(PushScf(s, "greedy", q), Nobody)
           \/ ~Scf[q.packet] /\ nh = NextHop(s, Broadcast)
<1> DEFINE p == q.packet
           closer == Closer(n, s, p)
           Best(m) == \A o \in closer : DistanceTo(m, p) <= DistanceTo(o, p)
           m == CHOOSE x \in closer : Best(x)
<1>1. p \in Packet
  BY DEF AtHand
<1>2. closer \subseteq Station /\ \A x \in closer : DistanceTo(x, p) < DistanceTo(n, p)
  BY StateFields DEF Closer, Neighbours
<1>3. CASE closer # {}
  <2> DEFINE D == {DistanceTo(x, p) : x \in closer}
  <2>1. D \subseteq Nat /\ D # {}
    BY <1>1, <1>2, <1>3, DistanceType
  <2>2. PICK d \in D : \A e \in D : d <= e
    <3> HIDE DEF D
    <3> QED
      BY <2>1, Least
  <2>3. \E x \in closer : Best(x)
    BY <2>2
  <2>4. m \in closer
    BY <2>3
  <2>5. nh = NextHop(s, m)
    BY <1>3 DEF GreedyForwarding
  <2> HIDE DEF m, closer
  <2> QED
    BY <1>2, <2>4, <2>5, NextHopFields
<1>4. CASE closer = {}
  BY <1>4 DEF GreedyForwarding
<1> QED
  BY <1>3, <1>4

(* greedy_forwarding makes progress or buffers the packet *)
LEMMA GreedyDecides ==
    ASSUME NEW n \in Station, NEW R \in SUBSET Packet, NEW s \in States(n, R), NEW q, AtHand(q, R)
    PROVE  Decides(n, R, s, q, GreedyForwarding(n, s, q))
<1> DEFINE nh == GreedyForwarding(n, s, q)
<1>1. \/ /\ nh = NextHop(s, nh.mac)
         /\ nh.mac \in Station /\ DistanceTo(nh.mac, q.packet) < DistanceTo(n, q.packet)
      \/ Scf[q.packet] /\ nh = NextHop(PushScf(s, "greedy", q), Nobody)
      \/ ~Scf[q.packet] /\ nh = NextHop(s, Broadcast)
  BY GreedyCases
<1> SUFFICES Decides(n, R, s, q, nh)
  OBVIOUS
<1> HIDE DEF nh
<1>2. CASE /\ nh = NextHop(s, nh.mac)
           /\ nh.mac \in Station /\ DistanceTo(nh.mac, q.packet) < DistanceTo(n, q.packet)
  <2>1. nh.state = s
    BY <1>2, NextHopFields
  <2> QED
    BY <1>2, <2>1, StaysMoves DEF Decides
<1>3. CASE Scf[q.packet] /\ nh = NextHop(PushScf(s, "greedy", q), Nobody)
  <2> DEFINE t == PushScf(s, "greedy", q)
  <2>1. t \in States(n, R) /\ Moves(s, t, q.packet) /\ t.out = s.out
    <3>1. "greedy" \in Kinds
      BY DEF Kinds
    <3> QED
      BY <1>3, <3>1, PushScfMoves
  <2> HIDE DEF t
  <2>2. nh = NextHop(t, Nobody)
    BY <1>3 DEF t
  <2> QED
    BY <2>1, <2>2, DecidesCbf
<1>4. CASE nh = NextHop(s, Broadcast)
  BY <1>4, DecidesSimply
<1> QED
  BY <1>1, <1>2, <1>3, <1>4

(* non_area_contention_based_forwarding *)
LEMMA NonAreaCbfDecides ==
    ASSUME NEW n, NEW R \in SUBSET Packet, NEW s \in States(n, R), NEW q, AtHand(q, R)
    PROVE  Decides(n, R, s, q, NonAreaCbf(n, s, q))
<1> DEFINE p == q.packet
           rem == CbfRemove(s, p)
           op == FALSE
           con == Contend(s, q, op)
<1>1. p \in R
  BY DEF AtHand
<1>2. NonAreaCbf(n, s, q) \in {NextHop(s, Broadcast), NextHop(rem, Nobody),
                               NextHop(con, Nobody), NextHop(s, Nobody)}
  BY DEF NonAreaCbf
<1>3. rem \in States(n, R) /\ Moves(s, rem, p) /\ rem.out = s.out
  BY <1>1, RemoveMoves
<1>4. con \in States(n, R) /\ Moves(s, con, p) /\ con.out = s.out
  <2>1. op \in BOOLEAN
    OBVIOUS
  <2> HIDE DEF op
  <2> QED
    BY <2>1, ContendMoves
<1> HIDE DEF rem, con
<1>5. Decides(n, R, s, q, NextHop(rem, Nobody)) /\ Decides(n, R, s, q, NextHop(con, Nobody))
  BY <1>3, <1>4, DecidesCbf
<1>6. Decides(n, R, s, q, NextHop(s, Broadcast)) /\ Decides(n, R, s, q, NextHop(s, Nobody))
  BY DecidesSimply
<1> QED
  BY <1>2, <1>5, <1>6

(* area_contention_based_forwarding, and what it does to the counter *)
LEMMA AreaCbfCases ==
    ASSUME NEW n, NEW s, NEW q
    PROVE  /\ q.ll = Local => AreaCbf(n, s, q) = NextHop(s, Broadcast)
           /\ q.ll # Local =>
                \/ IsBuffered(s, q.packet) /\ AreaCbf(n, s, q) = NextHop(CbfRemove(s, q.packet), Nobody)
                \/ AreaCbf(n, s, q) = NextHop(s, Nobody)
                \/ /\ ~IsBuffered(s, q.packet) /\ ~(s.counter[q.packet] >= MaxCounter)
                   /\ AreaCbf(n, s, q) = NextHop(Contend(s, q, FALSE), Nobody)
  BY DEF AreaCbf

(* area_contention_based_forwarding broadcasts or buffers the packet *)
LEMMA AreaCbfDecides ==
    ASSUME NEW n, NEW R \in SUBSET Packet, NEW s \in States(n, R), NEW q, AtHand(q, R)
    PROVE  Decides(n, R, s, q, AreaCbf(n, s, q))
<1> DEFINE p == q.packet
           rem == CbfRemove(s, p)
           op == FALSE
           con == Contend(s, q, op)
<1>1. p \in R
  BY DEF AtHand
<1>2. AreaCbf(n, s, q) \in {NextHop(s, Broadcast), NextHop(rem, Nobody),
                            NextHop(con, Nobody), NextHop(s, Nobody)}
  BY DEF AreaCbf
<1>3. rem \in States(n, R) /\ Moves(s, rem, p) /\ rem.out = s.out
  BY <1>1, RemoveMoves
<1>4. con \in States(n, R) /\ Moves(s, con, p) /\ con.out = s.out
  <2>1. op \in BOOLEAN
    OBVIOUS
  <2> HIDE DEF op
  <2> QED
    BY <2>1, ContendMoves
<1> HIDE DEF rem, con
<1>5. Decides(n, R, s, q, NextHop(rem, Nobody)) /\ Decides(n, R, s, q, NextHop(con, Nobody))
  BY <1>3, <1>4, DecidesCbf
<1>6. Decides(n, R, s, q, NextHop(s, Broadcast)) /\ Decides(n, R, s, q, NextHop(s, Nobody))
  BY DecidesSimply
<1> QED
  BY <1>2, <1>5, <1>6

(* Two changes of which the second one is of the CBF buffer *)
LEMMA MovesThenCbf ==
    ASSUME NEW s, NEW t, NEW u, NEW p, Moves(s, t, p), Moves(t, u, p), u.scf = t.scf, u.out = t.out
    PROVE  Moves(s, u, p)
  BY DEF Moves, SameTable

(* area_advanced_forwarding *)
LEMMA AreaAdvancedDecides ==
    ASSUME NEW n \in Station, NEW R \in SUBSET Packet, NEW s \in States(n, R), NEW q, AtHand(q, R)
    PROVE  Decides(n, R, s, q, AreaAdvanced(n, s, q))
<1> DEFINE p == q.packet
           greedy == GreedyForwarding(n, s, q)
           rem == CbfRemove(s, p)
           upd == CbfUpdate(s, p)
           op == FALSE
           con == Contend(s, q, op)
           noop == (greedy.mac = Broadcast)
           uni == Contend(greedy.state, q, noop)
<1>1. p \in R
  BY DEF AtHand
<1>2. AreaAdvanced(n, s, q) \in {NextHop(s, Broadcast), NextHop(rem, Nobody), NextHop(upd, Nobody),
                                 NextHop(con, Nobody), NextHop(uni, greedy.mac)}
  BY DEF AreaAdvanced
<1>3. Decides(n, R, s, q, greedy)
  BY GreedyDecides
<1>4. rem \in States(n, R) /\ Moves(s, rem, p) /\ rem.out = s.out
  BY <1>1, RemoveMoves
<1>5. con \in States(n, R) /\ Moves(s, con, p) /\ con.out = s.out
  <2>1. op \in BOOLEAN
    OBVIOUS
  <2> HIDE DEF op
  <2> QED
    BY <2>1, ContendMoves
<1>6. upd \in States(n, R) /\ Moves(s, upd, p) /\ upd.out = s.out
  BY <1>1, UpdateMoves
<1> HIDE DEF greedy
<1>7. noop \in BOOLEAN
  OBVIOUS
<1> HIDE DEF noop
<1>8. /\ uni \in States(n, R) /\ Moves(greedy.state, uni, p) /\ uni.scf = greedy.state.scf
      /\ uni.out = greedy.state.out
  BY <1>3, <1>7, ContendMoves DEF Decides
<1> HIDE DEF uni, rem, upd, con
<1>9. Moves(s, uni, p)
  BY <1>3, <1>8, MovesThenCbf DEF Decides
<1>10. Decides(n, R, s, q, NextHop(uni, greedy.mac))
  BY <1>3, <1>8, <1>9, NextHopFields DEF Decides
<1>11. /\ Decides(n, R, s, q, NextHop(rem, Nobody)) /\ Decides(n, R, s, q, NextHop(con, Nobody))
       /\ Decides(n, R, s, q, NextHop(upd, Nobody)) /\ Decides(n, R, s, q, NextHop(s, Broadcast))
  BY <1>4, <1>5, <1>6, DecidesCbf, DecidesSimply
<1> QED
  BY <1>2, <1>10, <1>11

(* The algorithms that can be configured *)
LEMMA SetupValues ==
    ASSUME setup \in Setups
    PROVE  /\ AreaForwarding \in {"SIMPLE", "CBF", "Advanced"}
           /\ NonAreaForwarding \in {"Greedy", "CBF"}
           /\ CounterKind \in {"contending", "fading"} /\ MaxCounter \in Nat
  BY MibAssumption DEF AreaForwarding, NonAreaForwarding, CounterKind, MaxCounter

(* forwarding_algorithm_selection, inside of the destination area ...      *)
LEMMA SelectInside ==
    ASSUME setup \in Setups, NEW n, NEW s, NEW q, Inside(n, q.packet)
    PROVE  /\ AreaForwarding = "SIMPLE" => SelectForwarding(n, s, q) = NextHop(s, Broadcast)
           /\ AreaForwarding = "CBF" => SelectForwarding(n, s, q) = AreaCbf(n, s, q)
           /\ AreaForwarding = "Advanced" => SelectForwarding(n, s, q) = AreaAdvanced(n, s, q)
  BY DEF SelectForwarding

(* ... and outside *)
LEMMA SelectOutside ==
    ASSUME NEW n, NEW s, NEW q, ~Inside(n, q.packet)
    PROVE  IF /\ HasPosition(s, q.ll.sender) /\ q.ll.sender \in Accurate
              /\ Inside(q.ll.sender, q.packet)
           THEN SelectForwarding(n, s, q) = NextHop(s, Nobody)
           ELSE SelectForwarding(n, s, q) = IF NonAreaForwarding = "Greedy" THEN GreedyForwarding(n, s, q)
                                            ELSE NonAreaCbf(n, s, q)
  BY DEF SelectForwarding

(* Whatever is selected, unicast makes progress. *)
LEMMA SelectDecides ==
    ASSUME setup \in Setups, NEW n \in Station, NEW R \in SUBSET Packet, NEW s \in States(n, R),
           NEW q, AtHand(q, R)
    PROVE  Decides(n, R, s, q, SelectForwarding(n, s, q))
<1>1. CASE Inside(n, q.packet)
  BY <1>1, SelectInside, SetupValues, DecidesSimply, AreaCbfDecides, AreaAdvancedDecides
<1>2. CASE ~Inside(n, q.packet)
  BY <1>2, SelectOutside, DecidesSimply, GreedyDecides, NonAreaCbfDecides
<1> QED
  BY <1>1, <1>2

(* NextHop::process *)
LEMMA ProcessMoves ==
    ASSUME NEW n, NEW R \in SUBSET Packet, NEW s, NEW q, AtHand(q, R),
           NEW nh, Decides(n, R, s, q, nh), NEW t, t = Process(nh, q)
    PROVE  t \in States(n, R) /\ Moves(s, t, q.packet)
<1>1. CASE nh.mac = Nobody
  BY <1>1 DEF Process, Decides
<1>2. CASE nh.mac # Nobody
  <2> DEFINE u == nh.state
  <2>1. t = Transmit(u, q, nh.mac)
    BY <1>2 DEF Process
  <2>2. /\ u \in States(n, R) /\ Moves(s, u, q.packet) /\ u.out = s.out
        /\ Towards(n, q.packet, nh.mac)
        /\ q.packet \in R /\ q.hops \in Nat
    BY <1>2 DEF Decides, AtHand, Towards
  <2> HIDE DEF u
  <2>3. /\ t \in States(n, R) /\ SameTable(u, t) /\ SameCbf(u, t) /\ t.scf = u.scf
        /\ SendsOne(u, t, q.packet)
    BY <2>1, <2>2, TransmitMoves
  <2>4. Moves(s, t, q.packet)
    BY <2>2, <2>3 DEF Moves, SameTable, SameCbf, SendsOne
  <2> QED
    BY <2>3, <2>4
<1> QED
  BY <1>1, <1>2

(* A pending packet is processed. *)
LEMMA PendingMoves ==
    ASSUME setup \in Setups, NEW n \in Station, NEW R \in SUBSET Packet, NEW s \in States(n, R),
           NEW q, AtHand(q, R), q.kind \in Kinds, NEW t, t = ProcessPending(n, s, q)
    PROVE  t \in States(n, R) /\ Moves(s, t, q.packet)
<1>1. CASE q.kind = "forwarding"
  <2>1. t = Process(SelectForwarding(n, s, q), q)
    BY <1>1 DEF ProcessPending
  <2> QED
    BY <2>1, SelectDecides, ProcessMoves
<1>2. CASE q.kind = "greedy"
  <2>1. t = Process(GreedyForwarding(n, s, q), q)
    BY <1>2 DEF ProcessPending
  <2> QED
    BY <2>1, GreedyDecides, ProcessMoves
<1>3. CASE q.kind = "transmit"
  <2>1. t = Transmit(s, q, Broadcast)
    BY <1>3 DEF ProcessPending
  <2>2. /\ t \in States(n, R) /\ SameTable(s, t) /\ SameCbf(s, t) /\ t.scf = s.scf
        /\ SendsOne(s, t, q.packet)
    <3>1. q.packet \in R /\ q.hops \in Nat /\ Towards(n, q.packet, Broadcast)
      BY DEF AtHand, Towards
    <3> QED
      BY <2>1, <3>1, TransmitMoves
  <2> QED
    BY <2>2 DEF Moves, SameCbf, SendsOne
<1> QED
  BY <1>1, <1>2, <1>3 DEF Kinds

(* A packet is stored, or processed right away. *)
LEMMA StoreMoves ==
    ASSUME setup \in Setups, NEW n \in Station, NEW R \in SUBSET Packet, NEW s \in States(n, R),
           NEW q, AtHand(q, R), NEW kind \in Kinds, NEW t, t = StoreOrProcess(n, s, kind, q)
    PROVE  t \in States(n, R) /\ Moves(s, t, q.packet)
<1> DEFINE r == Stored(kind, q)
<1>1. CASE Scf[q.packet] /\ Neighbours(s) = {}
  <2>1. t = PushScf(s, kind, q)
    BY <1>1 DEF StoreOrProcess
  <2> QED
    BY <1>1, <2>1, PushScfMoves
<1>2. CASE ~(Scf[q.packet] /\ Neighbours(s) = {})
  <2>1. t = ProcessPending(n, s, r)
    BY <1>2 DEF StoreOrProcess, Stored
  <2>2. AtHand(r, R) /\ r.kind \in Kinds /\ r.packet = q.packet
    BY DEF AtHand, Stored
  <2> HIDE DEF r
  <2> QED
    BY <2>1, <2>2, PendingMoves
<1> QED
  BY <1>1, <1>2

-----------------------------------------------------------------------------
(* flush_broadcast_forwarding_buffer *)

(* The state before the first packet is tried again *)
Emptied(s) == [s EXCEPT !.scf = <<>>]

(* f[k] is the state after the first k packets. *)
IsFlush(f, n, s) ==
    /\ f[0] = Emptied(s)
    /\ \A k \in 1 .. Len(s.scf) : f[k] = ProcessPending(n, f[k - 1], s.scf[k])

(* What is stored can be processed. *)
LEMMA CarriedAtHand ==
    ASSUME NEW R \in SUBSET Packet, NEW q \in Carriable(R)
    PROVE  AtHand(q, R) /\ q.kind \in Kinds /\ Scf[q.packet] /\ q.packet \in R
  BY DEF Carriable, AtHand, Kinds, Pending

(* The empty buffer *)
LEMMA EmptiedFields ==
    ASSUME NEW n, NEW R \in SUBSET Packet, NEW s \in States(n, R)
    PROVE  /\ Emptied(s) \in States(n, R) /\ SameTable(s, Emptied(s)) /\ SameCbf(s, Emptied(s))
           /\ Emptied(s).scf = <<>> /\ Emptied(s).out = s.out
<1> DEFINE x == <<>>
<1>1. x \in Seq(Carriable(R))
  OBVIOUS
<1>2. Emptied(s) = [s EXCEPT !.scf = x]
  BY DEF Emptied
<1> HIDE DEF x
<1>3. /\ Emptied(s) \in States(n, R) /\ SameTable(s, Emptied(s)) /\ SameCbf(s, Emptied(s))
      /\ Emptied(s).scf = x /\ Emptied(s).out = s.out
  BY <1>1, <1>2, SetScf
<1> QED
  BY <1>3 DEF x

(* The packets are tried again one after the other. *)
LEMMA FlushSteps ==
    ASSUME setup \in Setups, NEW n \in Station, NEW R \in SUBSET Packet, NEW s \in States(n, R)
    PROVE  \E f \in [0 .. Len(s.scf) -> States(n, R)] :
                IsFlush(f, n, s) /\ FlushScf(n, s) = f[Len(s.scf)]
<1> DEFINE m == Len(s.scf)
           V == States(n, R)
           b == Emptied(s)
           Step == [p \in (1 .. m) \X V |-> ProcessPending(n, p[2], s.scf[p[1]])]
           Body(f) == [k \in 0 .. Len(s.scf) |->
                            IF k = 0 THEN [s EXCEPT !.scf = <<>>]
                            ELSE ProcessPending(n, f[k - 1], s.scf[k])]
<1>1. m \in Nat /\ b \in V /\ \A k \in 1 .. m : s.scf[k] \in Carriable(R)
  BY StateFields, EmptiedFields
<1>2. \A k \in 1 .. m : \A u \in V : Step[<<k, u>>] = ProcessPending(n, u, s.scf[k])
  OBVIOUS
<1> HIDE DEF Step
<1>3. IsStep(Step, m, V)
  <2> SUFFICES ASSUME NEW k \in 1 .. m, NEW u \in V PROVE Step[<<k, u>>] \in V
    BY DEF IsStep
  <2> DEFINE q == s.scf[k]
             t == ProcessPending(n, u, q)
  <2>1. AtHand(q, R) /\ q.kind \in Kinds
    BY <1>1, CarriedAtHand
  <2> HIDE DEF q
  <2>2. t \in States(n, R)
    BY <2>1, PendingMoves
  <2> QED
    BY <1>2, <2>2 DEF q
<1>4. PICK f \in [0 .. m -> V] : f[0] = b /\ \A k \in 1 .. m : f[k] = Step[<<k, f[k - 1]>>]
  <2> HIDE DEF V, m, b
  <2>1. \E f \in [0 .. m -> V] : Follows(f, Step, m, b)
    BY <1>1, <1>3, Recursion
  <2> QED
    BY <2>1 DEF Follows
<1>5. \A k \in 1 .. m : f[k] = ProcessPending(n, f[k - 1], s.scf[k])
  <2>1. \A k \in 1 .. m : f[k - 1] \in V
    BY <1>1
  <2> QED
    BY <1>2, <1>4, <2>1
<1>6. f = Body(f)
  <2>1. \A k \in 0 .. m : k = 0 \/ k \in 1 .. m
    BY <1>1
  <2>2. f[0] = [s EXCEPT !.scf = <<>>]
    BY <1>4 DEF Emptied
  <2> QED
    BY <1>5, <2>1, <2>2
<1> DEFINE g == CHOOSE h : h = Body(h)
<1>7. g = Body(g)
  BY <1>6
<1>8. FlushScf(n, s) = g[Len(s.scf)]
  BY DEF FlushScf
<1> HIDE DEF g
<1>9. g[0] = b /\ \A k \in 1 .. m : g[k] = ProcessPending(n, g[k - 1], s.scf[k])
  <2>1. 0 \in 0 .. Len(s.scf) /\ \A k \in 1 .. m : k \in 0 .. Len(s.scf) /\ k # 0
    BY <1>1
  <2> QED
    BY <1>7, <2>1 DEF Emptied
<1>10. \A k \in 0 .. m : g[k] = f[k]
  <2>1. Alike(g, f, m)
    BY <1>4, <1>5, <1>9 DEF Alike
  <2> HIDE DEF m
  <2> QED
    BY <1>1, <2>1, SameRecursion
<1> QED
  BY <1>1, <1>4, <1>5, <1>8, <1>10 DEF IsFlush

(* One of these steps *)
LEMMA FlushStepMoves ==
    ASSUME setup \in Setups, NEW n \in Station, NEW R \in SUBSET Packet, NEW s \in States(n, R),
           NEW f \in [0 .. Len(s.scf) -> States(n, R)], IsFlush(f, n, s), NEW k \in 1 .. Len(s.scf)
    PROVE  /\ k \in 0 .. Len(s.scf) /\ k - 1 \in 0 .. Len(s.scf)
           /\ f[k - 1] \in States(n, R) /\ f[k] \in States(n, R) /\ s.scf[k] \in Carriable(R)
           /\ f[k] = ProcessPending(n, f[k - 1], s.scf[k])
           /\ Moves(f[k - 1], f[k], s.scf[k].packet)
<1> DEFINE u == f[k - 1]
           q == s.scf[k]
           t == f[k]
<1>1. Len(s.scf) \in Nat /\ q \in Carriable(R)
  BY StateFields
<1>2. k \in 0 .. Len(s.scf) /\ k - 1 \in 0 .. Len(s.scf)
  BY <1>1
<1>3. u \in States(n, R) /\ t = ProcessPending(n, u, q) /\ t \in States(n, R)
  BY <1>2 DEF IsFlush
<1>4. AtHand(q, R) /\ q.kind \in Kinds
  BY <1>1, CarriedAtHand
<1> HIDE DEF u, q, t
<1>5. Moves(u, t, q.packet)
  BY <1>3, <1>4, PendingMoves
<1> QED
  BY <1>1, <1>2, <1>3, <1>5 DEF u, q, t

(* Flushing leaves the location table and the memory alone. *)
LEMMA FlushTable ==
    ASSUME setup \in Setups, NEW n \in Station, NEW R \in SUBSET Packet, NEW s \in States(n, R)
    PROVE  FlushScf(n, s) \in States(n, R) /\ SameTable(s, FlushScf(n, s))
<1>1. PICK f \in [0 .. Len(s.scf) -> States(n, R)] :
            IsFlush(f, n, s) /\ FlushScf(n, s) = f[Len(s.scf)]
  BY FlushSteps
<1> DEFINE E == {k \in 0 .. Len(s.scf) : SameTable(s, f[k])}
<1>2. Len(s.scf) \in Nat /\ 0 \in 0 .. Len(s.scf) /\ Len(s.scf) \in 0 .. Len(s.scf)
  BY StateFields
<1>3. 0 \in E
  BY <1>1, <1>2, EmptiedFields DEF IsFlush
<1>4. ASSUME NEW k \in 1 .. Len(s.scf), k - 1 \in E PROVE k \in E
  <2>1. k \in 0 .. Len(s.scf) /\ Moves(f[k - 1], f[k], s.scf[k].packet)
    BY <1>1, FlushStepMoves
  <2>2. SameTable(s, f[k - 1])
    BY <1>4
  <2> QED
    BY <2>1, <2>2 DEF Moves, SameTable
<1> HIDE DEF E
<1>5. Len(s.scf) \in E
  BY <1>2, <1>3, <1>4, Upwards
<1> QED
  BY <1>1, <1>2, <1>5 DEF E

-----------------------------------------------------------------------------
(* Counting transmissions *)

(* How often p is transmitted in this step, whether it waits in the CBF    *)
(* buffer, and how many packets of K are carried.                          *)
Outs(s, p) == Len(Kept(s.out, Sending({p})))
Buffered(s, p) == IF IsBuffered(s, p) THEN 1 ELSE 0
Waiting(s, K) == Len(Kept(s.scf, K))

(* What the counter of p tells, as far as it matters. *)
Recorded(s, p) ==
    IF MaxCounter \in Nat /\ MaxCounter < s.counter[p] THEN MaxCounter ELSE s.counter[p]

(* The transmissions of p that a station has started or may still start on *)
(* its own, less those that its CBF counter has recorded.                  *)
Owed(s, p, K) == Outs(s, p) + Buffered(s, p) + Waiting(s, K) - Recorded(s, p)

(* All of these are numbers. *)
LEMMA OwedType ==
    ASSUME NEW n, NEW R \in SUBSET Packet, NEW s \in States(n, R), NEW p \in Packet, NEW K
    PROVE  /\ Outs(s, p) \in Nat /\ Buffered(s, p) \in {0, 1} /\ Waiting(s, K) \in Nat
           /\ s.counter[p] \in Nat /\ Recorded(s, p) \in Nat /\ Owed(s, p, K) \in Int
<1>1. Outs(s, p) \in Nat
  <2> DEFINE x == Kept(s.out, Sending({p}))
  <2>1. x \in Seq(Progressing(n, R))
    BY StateFields, KeptPicks
  <2> HIDE DEF x
  <2>2. Len(x) \in Nat
    BY <2>1
  <2> QED
    BY <2>2 DEF Outs, x
<1>2. Waiting(s, K) \in Nat
  <2> DEFINE x == Kept(s.scf, K)
  <2>1. x \in Seq(Carriable(R))
    BY StateFields, KeptPicks
  <2> HIDE DEF x
  <2>2. Len(x) \in Nat
    BY <2>1
  <2> QED
    BY <2>2 DEF Waiting, x
<1>3. s.counter[p] \in Nat /\ Recorded(s, p) \in Nat
  BY StateFields DEF Recorded
<1>4. Buffered(s, p) \in {0, 1}
  BY DEF Buffered
<1> QED
  BY <1>1, <1>2, <1>3, <1>4 DEF Owed

(* Another transmission *)
LEMMA OutsSends ==
    ASSUME NEW n, NEW R \in SUBSET Packet, NEW s \in States(n, R), NEW p \in Packet, NEW o \in Packet,
           NEW t, SendsOne(s, t, o)
    PROVE  Outs(t, p) = IF o = p THEN Outs(s, p) + 1 ELSE Outs(s, p)
<1>1. PICK x \in Sending({o}) : t.out = Append(s.out, x)
  BY DEF SendsOne
<1>2. s.out \in Seq(Sending(Packet)) /\ x \in Sending(Packet)
  <2>1. x \in Sending(Packet)
    BY DEF Sending
  <2> QED
    BY <2>1, StateFields, WithinPackets
<1>3. x \in Sending({p}) <=> o = p
  BY DEF Sending
<1> DEFINE K == Sending({p})
           S == Sending(Packet)
<1> HIDE DEF K, S
<1>4. s.out \in Seq(S) /\ x \in S /\ (x \in K <=> o = p)
  BY <1>2, <1>3 DEF S, K
<1>5. /\ x \in K => Len(Kept(Append(s.out, x), K)) = Len(Kept(s.out, K)) + 1
      /\ x \notin K => Len(Kept(Append(s.out, x), K)) = Len(Kept(s.out, K))
  BY <1>4, KeptAppend
<1> QED
  BY <1>1, <1>4, <1>5 DEF Outs, K

(* Another packet is carried. *)
LEMMA WaitingPushed ==
    ASSUME NEW n, NEW R \in SUBSET Packet, NEW s \in States(n, R), NEW K, NEW t,
           NEW x \in Pending(Packet), t.scf = Append(s.scf, x)
    PROVE  Waiting(t, K) = IF x \in K THEN Waiting(s, K) + 1 ELSE Waiting(s, K)
<1> DEFINE S == Pending(Packet)
<1>1. s.scf \in Seq(S) /\ x \in S
  BY StateFields, WithinPackets
<1> HIDE DEF S
<1>2. /\ x \in K => Len(Kept(Append(s.scf, x), K)) = Len(Kept(s.scf, K)) + 1
      /\ x \notin K => Len(Kept(Append(s.scf, x), K)) = Len(Kept(s.scf, K))
  BY <1>1, KeptAppend
<1> QED
  BY <1>2 DEF Waiting

(* The pending packets in K are all of packet p. *)
OnlyOf(K, p) == K \subseteq Pending({p})

(* What happens to a packet does not concern the others. *)
LEMMA OwedOthers ==
    ASSUME NEW n, NEW R \in SUBSET Packet, NEW s \in States(n, R), NEW o \in Packet, NEW p \in Packet,
           o # p, NEW t, Moves(s, t, o), NEW K, OnlyOf(K, p)
    PROVE  /\ Owed(t, p, K) = Owed(s, p, K) /\ Outs(t, p) = Outs(s, p)
           /\ t.cbf[p] = s.cbf[p] /\ t.counter[p] = s.counter[p]
<1>1. /\ t.cbf[p] = s.cbf[p] /\ t.counter[p] = s.counter[p] /\ Buffered(t, p) = Buffered(s, p)
      /\ Recorded(t, p) = Recorded(s, p)
  BY DEF Moves, Buffered, IsBuffered, Recorded
<1>2. Outs(t, p) = Outs(s, p)
  <2>1. CASE t.out = s.out
    BY <2>1 DEF Outs
  <2>2. CASE SendsOne(s, t, o)
    BY <2>2, OutsSends
  <2> QED
    BY <2>1, <2>2 DEF Moves, SendsOne
<1>3. Waiting(t, K) = Waiting(s, K)
  <2>1. CASE t.scf = s.scf
    BY <2>1 DEF Waiting
  <2>2. ASSUME NEW x \in Pending({o}), t.scf = Append(s.scf, x) PROVE Waiting(t, K) = Waiting(s, K)
    <3>1. x \in Pending(Packet) /\ x \notin K
      BY DEF Pending, OnlyOf
    <3> QED
      BY <2>2, <3>1, WaitingPushed
  <2> QED
    BY <2>1, <2>2 DEF Moves
<1> QED
  BY <1>1, <1>2, <1>3 DEF Owed

(* pass_down *)
LEMMA OwedSends ==
    ASSUME NEW n, NEW R \in SUBSET Packet, NEW s \in States(n, R), NEW p \in Packet, NEW K,
           NEW t, SameCbf(s, t), t.scf = s.scf, SendsOne(s, t, p)
    PROVE  Owed(t, p, K) = Owed(s, p, K) + 1
<1>1. Outs(t, p) = Outs(s, p) + 1
  BY OutsSends
<1>2. Buffered(t, p) = Buffered(s, p) /\ Waiting(t, K) = Waiting(s, K) /\ Recorded(t, p) = Recorded(s, p)
  BY DEF SameCbf, Buffered, IsBuffered, Waiting, Recorded
<1>3. Outs(s, p) \in Nat /\ Buffered(s, p) \in {0, 1} /\ Waiting(s, K) \in Nat /\ Recorded(s, p) \in Nat
  BY OwedType
<1> QED
  BY <1>1, <1>2, <1>3 DEF Owed

(* One packet of K, or none *)
Weight(q, K) == IF q \in K THEN 1 ELSE 0

(* push for the broadcast forwarding buffer *)
LEMMA OwedPush ==
    ASSUME NEW n, NEW R \in SUBSET Packet, NEW s \in States(n, R), NEW p \in Packet, NEW K,
           NEW x \in Pending(Packet), NEW t, SameCbf(s, t), t.out = s.out, t.scf = Append(s.scf, x)
    PROVE  Owed(t, p, K) = Owed(s, p, K) + Weight(x, K)
<1>1. Waiting(t, K) = Waiting(s, K) + Weight(x, K)
  <2>1. Waiting(s, K) \in Nat
    BY OwedType
  <2> QED
    BY <2>1, WaitingPushed DEF Weight
<1>2. Buffered(t, p) = Buffered(s, p) /\ Outs(t, p) = Outs(s, p) /\ Recorded(t, p) = Recorded(s, p)
  BY DEF SameCbf, Buffered, IsBuffered, Outs, Recorded
<1>3. Outs(s, p) \in Nat /\ Buffered(s, p) \in {0, 1} /\ Waiting(s, K) \in Nat /\ Recorded(s, p) \in Nat
      /\ Weight(x, K) \in Nat
  BY OwedType DEF Weight
<1> QED
  BY <1>1, <1>2, <1>3 DEF Owed

-----------------------------------------------------------------------------
(* Transmissions are bounded *)

(* The packets that a router in the area transmits without contention for  *)
(* them: its own, and those of other kinds.                                *)
Uncontended(p) == {q \in Pending({p}) : q.ll = Local \/ q.kind # "forwarding"}

(* Either duplicates are detected and every carried packet counts, or the  *)
(* router contends for what it hears and only the others count.            *)
Detecting == AreaForwarding = "SIMPLE" /\ NonAreaForwarding = "Greedy"
Contending(n, p) == AreaForwarding = "CBF" /\ CounterKind = "fading" /\ Inside(n, p)
Regulated(n, p, K) ==
    \/ Detecting /\ K = Pending({p})
    \/ Contending(n, p) /\ K = Uncontended(p)

(* Detection of duplicates comes without contention. *)
Steady(n, s, t, p) == Detecting => t.cbf[p] = s.cbf[p] /\ t.counter[p] = s.counter[p]

(* At most w more transmissions of p *)
Owes(n, s, t, p, K, w) == Owed(t, p, K) <= Owed(s, p, K) + w /\ Steady(n, s, t, p)

(* Greedy forwarding transmits or stores the packet. *)
LEMMA GreedyOwes ==
    ASSUME NEW n \in Station, NEW R \in SUBSET Packet, NEW s \in States(n, R), NEW q, AtHand(q, R),
           NEW K, NEW t, t = Process(GreedyForwarding(n, s, q), q)
    PROVE  Owes(n, s, t, q.packet, K, 1)
<1> DEFINE nh == GreedyForwarding(n, s, q)
           p == q.packet
<1>1. p \in R /\ p \in Packet /\ q.hops \in Nat
  BY DEF AtHand
<1>2. \/ /\ nh = NextHop(s, nh.mac)
         /\ nh.mac \in Station /\ DistanceTo(nh.mac, p) < DistanceTo(n, p)
      \/ Scf[p] /\ nh = NextHop(PushScf(s, "greedy", q), Nobody)
      \/ ~Scf[p] /\ nh = NextHop(s, Broadcast)
  BY GreedyCases
<1>3. t = Process(nh, q)
  OBVIOUS
<1> HIDE DEF nh
<1>4. ASSUME nh = NextHop(s, nh.mac), Towards(n, p, nh.mac) PROVE Owes(n, s, t, p, K, 1)
  <2> DEFINE mac == nh.mac
  <2>1. mac # Nobody
    BY <1>4, StationAssumption DEF Towards, Broadcast, Nobody
  <2>2. t = Transmit(s, q, mac)
    <3>1. nh.state = s
      BY <1>4, NextHopFields
    <3> QED
      BY <1>3, <2>1, <3>1 DEF Process
  <2> HIDE DEF mac
  <2>3. SameCbf(s, t) /\ t.scf = s.scf /\ SendsOne(s, t, p)
    BY <1>1, <1>4, <2>2, TransmitMoves DEF mac
  <2>4. Owed(t, p, K) = Owed(s, p, K) + 1 /\ Owed(s, p, K) \in Int
    BY <1>1, <2>3, OwedSends, OwedType
  <2> QED
    BY <2>3, <2>4 DEF Owes, Steady, SameCbf
<1>5. CASE Scf[p] /\ nh = NextHop(PushScf(s, "greedy", q), Nobody)
  <2> DEFINE x == Stored("greedy", q)
  <2>1. t = PushScf(s, "greedy", q)
    BY <1>3, <1>5, NextHopFields DEF Process
  <2>2. SameCbf(s, t) /\ t.out = s.out /\ t.scf = Append(s.scf, x)
    <3>1. "greedy" \in Kinds
      BY DEF Kinds
    <3> QED
      BY <1>5, <2>1, <3>1, PushScfMoves
  <2>3. x \in Pending(Packet)
    BY <1>1 DEF AtHand, Stored, Pending
  <2> HIDE DEF x
  <2>4. Owed(t, p, K) = Owed(s, p, K) + Weight(x, K)
    <3> HIDE DEF p
    <3> QED
      BY <1>1, <2>2, <2>3, OwedPush
  <2>5. Owed(s, p, K) \in Int
    BY <1>1, OwedType
  <2> QED
    BY <2>2, <2>4, <2>5 DEF Owes, Steady, SameCbf, Weight
<1>6. CASE nh = NextHop(s, Broadcast)
  BY <1>4, <1>6, NextHopFields DEF Towards
<1> QED
  BY <1>2, <1>4, <1>5, <1>6 DEF Towards

(* So does transmitting it. *)
LEMMA TransmitOwes ==
    ASSUME NEW n \in Station, NEW R \in SUBSET Packet, NEW s \in States(n, R), NEW q, AtHand(q, R),
           NEW K, NEW t, t = Transmit(s, q, Broadcast)
    PROVE  Owes(n, s, t, q.packet, K, 1)
<1> DEFINE p == q.packet
<1>1. p \in R /\ p \in Packet /\ q.hops \in Nat /\ Towards(n, p, Broadcast)
  BY DEF AtHand, Towards
<1>2. SameCbf(s, t) /\ t.scf = s.scf /\ SendsOne(s, t, p)
  BY <1>1, TransmitMoves
<1>3. Owed(t, p, K) = Owed(s, p, K) + 1 /\ Owed(s, p, K) \in Int
  BY <1>1, <1>2, OwedSends, OwedType
<1> QED
  BY <1>2, <1>3 DEF Owes, Steady, SameCbf

(* The CBF buffer holds one packet more, or less, and the counter knows. *)
LEMMA CbfOwes ==
    ASSUME NEW n \in Station, NEW R \in SUBSET Packet, NEW s \in States(n, R), NEW t \in States(n, R),
           NEW p \in R, NEW K, t.out = s.out, t.scf = s.scf,
           \/ t.counter[p] = s.counter[p] /\ ~IsBuffered(t, p)
           \/ /\ t.counter[p] > s.counter[p] /\ MaxCounter \in Nat /\ ~(s.counter[p] >= MaxCounter)
              /\ ~IsBuffered(s, p)
    PROVE  Owed(t, p, K) <= Owed(s, p, K)
<1>1. Outs(t, p) = Outs(s, p) /\ Waiting(t, K) = Waiting(s, K)
  BY DEF Outs, Waiting
<1>2. p \in Packet
  OBVIOUS
<1>3. /\ Outs(s, p) \in Nat /\ Buffered(s, p) \in {0, 1} /\ Waiting(s, K) \in Nat
      /\ s.counter[p] \in Nat /\ Recorded(s, p) \in Nat
  BY <1>2, OwedType
<1>4. Buffered(t, p) \in {0, 1} /\ t.counter[p] \in Nat /\ Recorded(t, p) \in Nat
  BY <1>2, OwedType
<1>5. CASE t.counter[p] = s.counter[p] /\ ~IsBuffered(t, p)
  <2>1. Buffered(t, p) = 0 /\ Recorded(t, p) = Recorded(s, p)
    BY <1>5 DEF Buffered, Recorded
  <2> QED
    BY <1>1, <1>3, <1>4, <2>1 DEF Owed
<1>6. CASE /\ t.counter[p] > s.counter[p] /\ MaxCounter \in Nat /\ ~(s.counter[p] >= MaxCounter)
           /\ ~IsBuffered(s, p)
  <2>1. Buffered(s, p) = 0
    BY <1>6 DEF Buffered
  <2>2. Recorded(t, p) >= Recorded(s, p) + 1
    <3> DEFINE j == s.counter[p]
               k == t.counter[p]
               m == MaxCounter
    <3>1. j \in Nat /\ k \in Nat /\ m \in Nat /\ k > j /\ ~(j >= m)
      BY <1>3, <1>4, <1>6
    <3>2. Recorded(s, p) = (IF m \in Nat /\ m < j THEN m ELSE j)
          /\ Recorded(t, p) = (IF m \in Nat /\ m < k THEN m ELSE k)
      BY DEF Recorded
    <3> HIDE DEF j, k, m
    <3> QED
      BY <3>1, <3>2
  <2> QED
    BY <1>1, <1>3, <1>4, <2>1, <2>2 DEF Owed
<1> QED
  BY <1>5, <1>6

(* area_contention_based_forwarding *)
LEMMA AreaCbfOwes ==
    ASSUME setup \in Setups, NEW n \in Station, NEW R \in SUBSET Packet, NEW s \in States(n, R),
           NEW q, AtHand(q, R), q.ll # Local, Contending(n, q.packet),
           NEW K, NEW t, t = Process(AreaCbf(n, s, q), q)
    PROVE  Owes(n, s, t, q.packet, K, 0)
<1> DEFINE p == q.packet
           rem == CbfRemove(s, p)
           op == FALSE
           con == Contend(s, q, op)
<1>1. p \in R /\ p \in Packet /\ CounterKind = "fading" /\ s.counter[p] \in Nat /\ MaxCounter \in Nat
  BY StateFields, SetupValues DEF AtHand, Contending
<1>2. \/ IsBuffered(s, p) /\ t = rem
      \/ t = s
      \/ ~IsBuffered(s, p) /\ ~(s.counter[p] >= MaxCounter) /\ t = con
  <2> DEFINE nh == AreaCbf(n, s, q)
  <2>1. \/ IsBuffered(s, p) /\ nh = NextHop(rem, Nobody)
        \/ nh = NextHop(s, Nobody)
        \/ ~IsBuffered(s, p) /\ ~(s.counter[p] >= MaxCounter) /\ nh = NextHop(con, Nobody)
    BY AreaCbfCases
  <2>2. t = Process(nh, q)
    OBVIOUS
  <2> HIDE DEF nh, rem, con
  <2> QED
    BY <2>1, <2>2, NextHopFields DEF Process
<1>3. /\ rem \in States(n, R) /\ rem.scf = s.scf /\ rem.out = s.out
      /\ ~IsBuffered(rem, p) /\ rem.counter[p] = s.counter[p]
  BY <1>1, RemoveMoves
<1>4. con \in States(n, R) /\ con.scf = s.scf /\ con.out = s.out /\ con.counter[p] > s.counter[p]
  <2>1. op \in BOOLEAN
    OBVIOUS
  <2> HIDE DEF op
  <2> QED
    BY <1>1, <2>1, ContendMoves
<1>5. Owed(s, p, K) \in Int
  BY <1>1, OwedType
<1>6. ~Detecting
  BY DEF Detecting, Contending
<1> HIDE DEF rem, con
<1>7. CASE t = rem
  <2>1. Owed(t, p, K) <= Owed(s, p, K)
    BY <1>1, <1>3, <1>7, CbfOwes
  <2> QED
    BY <1>3, <1>5, <1>6, <1>7, <2>1 DEF Owes, Steady
<1>8. CASE t = s
  BY <1>5, <1>8 DEF Owes, Steady
<1>9. CASE ~IsBuffered(s, p) /\ ~(s.counter[p] >= MaxCounter) /\ t = con
  <2>1. Owed(t, p, K) <= Owed(s, p, K)
    BY <1>1, <1>4, <1>9, CbfOwes
  <2> QED
    BY <1>5, <1>6, <2>1 DEF Owes, Steady
<1> QED
  BY <1>2, <1>7, <1>8, <1>9

(* A pending packet may be transmitted once, unless it is contended for. *)
LEMMA PendingOwes ==
    ASSUME setup \in Setups, NEW n \in Station, NEW R \in SUBSET Packet, NEW s \in States(n, R),
           NEW q \in Pending(R), NEW K, Regulated(n, q.packet, K), NEW t, t = ProcessPending(n, s, q)
    PROVE  Owes(n, s, t, q.packet, K, Weight(q, K))
<1> DEFINE p == q.packet
<1>1. AtHand(q, R) /\ q.kind \in Kinds /\ p \in R /\ p \in Packet
  BY DEF AtHand, Pending, Kinds
<1>2. ASSUME q \in K, Owes(n, s, t, p, K, 1) PROVE Owes(n, s, t, p, K, Weight(q, K))
  BY <1>2 DEF Weight
<1>3. q \in K \/ (Contending(n, p) /\ q.kind = "forwarding" /\ q.ll # Local)
  <2>1. q \in Pending({p})
    BY DEF Pending
  <2> QED
    BY <2>1 DEF Regulated, Uncontended
<1>4. CASE q.kind = "greedy"
  <2>1. t = Process(GreedyForwarding(n, s, q), q)
    BY <1>4 DEF ProcessPending
  <2> QED
    BY <1>1, <1>2, <1>3, <1>4, <2>1, GreedyOwes
<1>5. CASE q.kind = "transmit"
  <2>1. t = Transmit(s, q, Broadcast)
    BY <1>5 DEF ProcessPending
  <2> QED
    BY <1>1, <1>2, <1>3, <1>5, <2>1, TransmitOwes
<1>6. CASE q.kind = "forwarding"
  <2>1. t = Process(SelectForwarding(n, s, q), q)
    BY <1>6 DEF ProcessPending
  <2>2. ASSUME t = Process(NextHop(s, Broadcast), q), q \in K
        PROVE  Owes(n, s, t, p, K, Weight(q, K))
    <3>1. t = Transmit(s, q, Broadcast)
      BY <2>2, NextHopFields DEF Process, Broadcast, Nobody
    <3> QED
      BY <1>1, <1>2, <2>2, <3>1, TransmitOwes
  <2>3. CASE Detecting /\ K = Pending({p})
    <3>1. q \in K
      BY <2>3 DEF Pending
    <3>2. CASE Inside(n, p)
      <4>1. SelectForwarding(n, s, q) = NextHop(s, Broadcast)
        BY <2>3, <3>2, SelectInside DEF Detecting
      <4> QED
        BY <2>1, <2>2, <3>1, <4>1
    <3>3. CASE ~Inside(n, p)
      <4>1. SelectForwarding(n, s, q) \in {NextHop(s, Nobody), GreedyForwarding(n, s, q)}
        BY <2>3, <3>3, SelectOutside DEF Detecting
      <4>2. CASE SelectForwarding(n, s, q) = NextHop(s, Nobody)
        <5>1. t = s
          BY <2>1, <4>2, NextHopFields DEF Process
        <5>2. Owed(s, p, K) \in Int
          BY <1>1, OwedType
        <5> QED
          BY <5>1, <5>2 DEF Owes, Steady, Weight
      <4>3. CASE SelectForwarding(n, s, q) = GreedyForwarding(n, s, q)
        BY <1>1, <1>2, <2>1, <3>1, <4>3, GreedyOwes
      <4> QED
        BY <4>1, <4>2, <4>3
    <3> QED
      BY <3>2, <3>3
  <2>4. CASE Contending(n, p) /\ K = Uncontended(p)
    <3>1. SelectForwarding(n, s, q) = AreaCbf(n, s, q)
      BY <2>4, SelectInside DEF Contending
    <3>2. CASE q.ll = Local
      <4>1. AreaCbf(n, s, q) = NextHop(s, Broadcast) /\ q \in K
        BY <1>3, <3>2, AreaCbfCases
      <4> QED
        BY <2>1, <2>2, <3>1, <4>1
    <3>3. CASE q.ll # Local
      <4>1. q \notin K
        BY <1>6, <2>4, <3>3 DEF Uncontended
      <4> QED
        BY <1>1, <2>1, <2>4, <3>1, <3>3, <4>1, AreaCbfOwes DEF Weight
    <3> QED
      BY <3>2, <3>3
  <2> QED
    BY <2>3, <2>4 DEF Regulated
<1> QED
  BY <1>1, <1>4, <1>5, <1>6 DEF Kinds

(* Steps add up. *)
LEMMA SteadyTransitive ==
    ASSUME NEW n, NEW s, NEW t, NEW u, NEW p, Steady(n, s, t, p), Steady(n, t, u, p)
    PROVE  Steady(n, s, u, p)
  BY DEF Steady

(* Trying the carried packets again transmits each at most once. *)
LEMMA FlushOwes ==
    ASSUME setup \in Setups, NEW n \in Station, NEW R \in SUBSET Packet, NEW s \in States(n, R),
           NEW p \in Packet, NEW K, OnlyOf(K, p), Regulated(n, p, K)
    PROVE  Owes(n, s, FlushScf(n, s), p, K, 0)
<1>1. PICK f \in [0 .. Len(s.scf) -> States(n, R)] :
            IsFlush(f, n, s) /\ FlushScf(n, s) = f[Len(s.scf)]
  BY FlushSteps
<1>2. PICK g \in [0 .. Len(s.scf) -> Seq(Carriable(R))] :
            IsKeeping(g, s.scf, K) /\ Kept(s.scf, K) = g[Len(s.scf)]
  <2> DEFINE l == s.scf
             S == Carriable(R)
  <2>1. l \in Seq(S)
    BY StateFields
  <2> HIDE DEF l, S
  <2>2. \E g \in [0 .. Len(l) -> Seq(S)] : IsKeeping(g, l, K) /\ Kept(l, K) = g[Len(l)]
    BY <2>1, KeptExists
  <2> QED
    BY <2>2 DEF l, S
<1> DEFINE m == Len(s.scf)
           w == Waiting(s, K)
           E == {k \in 0 .. m : /\ Owed(f[k], p, K) + w <= Owed(s, p, K) + Len(g[k])
                                /\ Steady(n, s, f[k], p)}
<1>3. m \in Nat /\ 0 \in 0 .. m /\ m \in 0 .. m /\ w \in Nat /\ Owed(s, p, K) \in Int
  BY StateFields, OwedType
<1>4. 0 \in E
  <2> DEFINE e == Emptied(s)
  <2>1. e = f[0] /\ e \in States(n, R) /\ SameCbf(s, e) /\ e.scf = <<>> /\ e.out = s.out
    BY <1>1, EmptiedFields DEF IsFlush
  <2> HIDE DEF e
  <2>2. /\ Outs(e, p) = Outs(s, p) /\ Buffered(e, p) = Buffered(s, p) /\ Waiting(e, K) = 0
        /\ Recorded(e, p) = Recorded(s, p)
    BY <2>1, KeptNone DEF Outs, Buffered, IsBuffered, SameCbf, Waiting, Recorded
  <2>3. /\ Outs(s, p) \in Nat /\ Buffered(s, p) \in {0, 1} /\ Recorded(s, p) \in Nat
    BY OwedType
  <2>4. Owed(e, p, K) + w = Owed(s, p, K)
    BY <1>3, <2>2, <2>3 DEF Owed
  <2>5. Len(g[0]) = 0
    BY <1>2 DEF IsKeeping
  <2>6. Steady(n, s, e, p)
    BY <2>1 DEF Steady, SameCbf
  <2> QED
    BY <1>3, <2>1, <2>4, <2>5, <2>6
<1>5. ASSUME NEW k \in 1 .. m, k - 1 \in E PROVE k \in E
  <2> DEFINE u == f[k - 1]
             t == f[k]
             q == s.scf[k]
             x == g[k - 1]
  <2>1. /\ k \in 0 .. m /\ k - 1 \in 0 .. m /\ u \in States(n, R) /\ t \in States(n, R)
        /\ q \in Carriable(R) /\ t = ProcessPending(n, u, q) /\ Moves(u, t, q.packet)
    BY <1>1, FlushStepMoves
  <2>2. Owed(u, p, K) + w <= Owed(s, p, K) + Len(x) /\ Steady(n, s, u, p)
    BY <1>5
  <2>3. x \in Seq(Carriable(R)) /\ g[k] = IF q \in K THEN Append(x, q) ELSE x
    BY <1>2, <2>1 DEF IsKeeping
  <2>4. q \in Pending(R) /\ q.packet \in R /\ q.packet \in Packet
    BY <2>1 DEF Carriable, Pending
  <2>5. Owed(t, p, K) \in Int /\ Owed(u, p, K) \in Int
    BY <2>1, OwedType
  <2> HIDE DEF u, t, q, x
  <2>6. Len(g[k]) = Len(x) + Weight(q, K) /\ Len(x) \in Nat /\ Weight(q, K) \in Nat
    BY <2>1, <2>3 DEF Weight
  <2>7. Owes(n, u, t, p, K, Weight(q, K))
    <3>1. CASE q.packet = p
      BY <2>1, <2>4, <3>1, PendingOwes
    <3>2. CASE q.packet # p
      <4>1. Owed(t, p, K) = Owed(u, p, K) /\ t.cbf[p] = u.cbf[p] /\ t.counter[p] = u.counter[p]
        <5> DEFINE o == q.packet
        <5>1. o \in Packet /\ o # p /\ Moves(u, t, o)
          BY <2>1, <2>4, <3>2
        <5> HIDE DEF o
        <5> QED
          BY <2>1, <5>1, OwedOthers
      <4> QED
        BY <2>5, <2>6, <4>1 DEF Owes, Steady
    <3> QED
      BY <3>1, <3>2
  <2>8. Steady(n, s, t, p)
    BY <2>2, <2>7, SteadyTransitive DEF Owes
  <2>9. Owed(t, p, K) + w <= Owed(s, p, K) + Len(g[k])
    <3>1. Owed(t, p, K) <= Owed(u, p, K) + Weight(q, K)
      BY <2>7 DEF Owes
    <3> QED
      BY <1>3, <2>2, <2>5, <2>6, <3>1
  <2> QED
    BY <2>1, <2>8, <2>9 DEF t
<1> HIDE DEF E
<1>6. m \in E
  BY <1>3, <1>4, <1>5, Upwards
<1>7. Owed(f[m], p, K) \in Int /\ Len(g[m]) = w
  BY <1>2, <1>3, OwedType DEF Waiting
<1> QED
  BY <1>1, <1>3, <1>6, <1>7 DEF E, Owes

-----------------------------------------------------------------------------
(* Lists without repetitions *)

(* The size of an interval *)
LEMMA IntervalSize ==
    ASSUME NEW c \in Nat
    PROVE  IsFiniteSet(1 .. c) /\ Cardinality(1 .. c) = c
  BY FS_Interval

(* A list that lacks an element of R is shorter than R is large. *)
LEMMA ListFits ==
    ASSUME NEW R, IsFiniteSet(R), NEW l \in Lists(R), NEW p \in R, ~Contains(l, p)
    PROVE  Len(l) < Cardinality(R)
<1> DEFINE D == {l[i] : i \in 1 .. Len(l)}
<1>1. l \in Seq(R) /\ Distinct(l) /\ Len(l) \in Nat /\ \A i \in 1 .. Len(l) : l[i] \in R
  BY DEF Lists
<1>2. l \in Surjection(1 .. Len(l), D) /\ l \in Injection(1 .. Len(l), D)
  <2>1. l \in [1 .. Len(l) -> D]
    BY <1>1
  <2> QED
    BY <1>1, <2>1 DEF Surjection, Injection, IsInjective, Distinct
<1>3. IsFiniteSet(1 .. Len(l)) /\ Cardinality(1 .. Len(l)) = Len(l)
  BY <1>1, IntervalSize
<1> HIDE DEF D
<1>4. IsFiniteSet(D) /\ Cardinality(D) = Len(l)
  BY <1>2, <1>3, FS_Surjection
<1>5. D \subseteq R \ {p}
  BY <1>1 DEF D, Contains
<1>6. IsFiniteSet(R \ {p}) /\ Cardinality(R \ {p}) = Cardinality(R) - 1 /\ Cardinality(R) \in Nat
  BY FS_RemoveElement, FS_CardinalityType
<1>7. Cardinality(D) <= Cardinality(R \ {p})
  BY <1>5, <1>6, FS_Subset
<1> QED
  BY <1>1, <1>4, <1>6, <1>7

(* Another element *)
LEMMA ListAppend ==
    ASSUME NEW R, NEW l \in Lists(R), NEW p \in R, ~Contains(l, p)
    PROVE  /\ Append(l, p) \in Lists(R) /\ Contains(Append(l, p), p)
           /\ \A o : Contains(l, o) => Contains(Append(l, p), o)
<1> DEFINE u == Append(l, p)
<1>1. l \in Seq(R) /\ Distinct(l) /\ Len(l) \in Nat
  BY DEF Lists
<1>2. /\ u \in Seq(R) /\ Len(u) = Len(l) + 1 /\ u[Len(l) + 1] = p
      /\ \A i \in 1 .. Len(l) : u[i] = l[i]
  BY <1>1
<1> HIDE DEF u
<1>3. \A i \in 1 .. Len(u) : i \in 1 .. Len(l) \/ i = Len(l) + 1
  BY <1>1, <1>2
<1>4. Distinct(u)
  BY <1>1, <1>2, <1>3 DEF Distinct, Contains
<1>5. Len(l) + 1 \in 1 .. Len(u) /\ \A i \in 1 .. Len(l) : i \in 1 .. Len(u)
  BY <1>1, <1>2
<1>6. Contains(u, p) /\ \A o : Contains(l, o) => Contains(u, o)
  BY <1>2, <1>5 DEF Contains
<1> QED
  BY <1>2, <1>4, <1>6 DEF Lists, u

(* Without the first element *)
LEMMA ListTail ==
    ASSUME NEW R, NEW l \in Lists(R), l # <<>>
    PROVE  Tail(l) \in Lists(R) /\ \A o : ~Contains(l, o) => ~Contains(Tail(l), o)
<1>1. l \in Seq(R) /\ Distinct(l) /\ Len(l) \in Nat /\ Len(l) > 0
  BY DEF Lists
<1> DEFINE u == Tail(l)
<1>2. u \in Seq(R) /\ Len(u) = Len(l) - 1 /\ \A i \in 1 .. Len(u) : u[i] = l[i + 1]
  BY <1>1
<1> HIDE DEF u
<1>3. \A i \in 1 .. Len(u) : i + 1 \in 1 .. Len(l)
  BY <1>1, <1>2
<1>4. Distinct(u)
  <2> SUFFICES ASSUME NEW i \in 1 .. Len(u), NEW j \in 1 .. Len(u), u[i] = u[j] PROVE i = j
    BY DEF Distinct
  <2>1. l[i + 1] = l[j + 1] /\ i + 1 \in 1 .. Len(l) /\ j + 1 \in 1 .. Len(l)
    BY <1>2, <1>3
  <2>2. i + 1 = j + 1
    BY <1>1, <2>1 DEF Distinct
  <2> QED
    BY <1>1, <1>2, <2>2
<1> QED
  BY <1>2, <1>3, <1>4 DEF Lists, Contains, u

(* Without a certain element *)
LEMMA ListOthers ==
    ASSUME NEW R \in SUBSET Packet, NEW l \in Lists(R), NEW p, NEW t, t = Kept(l, Packet \ {p})
    PROVE  /\ t \in Lists(R) /\ ~Contains(t, p)
           /\ \A o : o # p /\ Contains(l, o) => Contains(t, o)
           /\ ~Contains(l, p) => t = l
<1> DEFINE K == Packet \ {p}
<1>1. l \in Seq(R) /\ Distinct(l) /\ \A i \in 1 .. Len(l) : l[i] \in Packet
  BY DEF Lists
<1>2. t \in Seq(R) /\ Thins(t, l) /\ HasAllOf(t, l, K)
  BY <1>1, KeptThins
<1>3. Distinct(t)
  <2>1. PICK g \in [1 .. Len(t) -> 1 .. Len(l)] :
            /\ \A j \in 1 .. Len(t) : t[j] = l[g[j]]
            /\ \A i, j \in 1 .. Len(t) : g[i] = g[j] => i = j
    BY <1>2 DEF Thins
  <2> SUFFICES ASSUME NEW i \in 1 .. Len(t), NEW j \in 1 .. Len(t), t[i] = t[j] PROVE i = j
    BY DEF Distinct
  <2>2. l[g[i]] = l[g[j]] /\ g[i] \in 1 .. Len(l) /\ g[j] \in 1 .. Len(l)
    BY <2>1
  <2> QED
    BY <1>1, <2>1, <2>2 DEF Distinct
<1>4. ~Contains(t, p) /\ \A o : o # p /\ Contains(l, o) => Contains(t, o)
  BY <1>1, <1>2 DEF HasAllOf, Contains
<1>5. ASSUME ~Contains(l, p) PROVE t = l
  <2>1. \A i \in 1 .. Len(l) : l[i] \in K
    BY <1>1, <1>5 DEF Contains
  <2> HIDE DEF K
  <2>2. Kept(l, K) = l
    BY <1>1, <2>1, KeptAll
  <2> QED
    BY <2>2 DEF K
<1> QED
  BY <1>2, <1>3, <1>4, <1>5 DEF Lists

(* All elements of R fit into a list of this length. *)
Fits(R, limit) == IsFiniteSet(R) /\ Cardinality(R) <= limit /\ 0 < limit

(* Nothing that was in the list is lost. *)
Extends(l, u) == \A o : Contains(l, o) => Contains(u, o)

(* DuplicatePacketList::check *)
LEMMA CheckList ==
    ASSUME NEW R, NEW l \in Lists(R), NEW p \in R
    PROVE  /\ ListAfterCheck(l, p) \in Lists(R)
           /\ Fits(R, DplLength) => /\ Contains(ListAfterCheck(l, p), p)
                                    /\ Extends(l, ListAfterCheck(l, p))
<1> DEFINE room == IF Len(l) >= DplLength /\ l # <<>> THEN Tail(l) ELSE l
           u == ListAfterCheck(l, p)
<1>1. CASE Contains(l, p)
  BY <1>1 DEF ListAfterCheck, Extends
<1>2. CASE ~Contains(l, p) /\ DplLength = 0
  <2>1. u = <<>>
    BY <1>2 DEF ListAfterCheck
  <2>2. <<>> \in Lists(R)
    BY DEF Lists, Distinct
  <2>3. ~Fits(R, DplLength)
    BY <1>2 DEF Fits
  <2> QED
    BY <2>1, <2>2, <2>3
<1>3. CASE ~Contains(l, p) /\ DplLength # 0
  <2>1. u = Append(room, p)
    BY <1>3 DEF ListAfterCheck
  <2>2. room \in Lists(R) /\ ~Contains(room, p)
    BY <1>3, ListTail
  <2>3. ASSUME Fits(R, DplLength) PROVE room = l
    <3>1. Len(l) < Cardinality(R) /\ Cardinality(R) \in Nat
      BY <1>3, <2>3, ListFits, FS_CardinalityType DEF Fits
    <3>2. Len(l) \in Nat /\ DplLength \in Nat
      BY MibAssumption DEF Lists
    <3>3. Len(l) < DplLength
      BY <2>3, <3>1, <3>2 DEF Fits
    <3> QED
      BY <3>2, <3>3
  <2> HIDE DEF room
  <2>4. Append(room, p) \in Lists(R) /\ Contains(Append(room, p), p) /\ Extends(room, Append(room, p))
    BY <2>2, ListAppend DEF Extends
  <2> QED
    BY <2>1, <2>3, <2>4
<1> QED
  BY <1>1, <1>2, <1>3

(* The packet is in the duplicate packet list of its source. *)
Listed(s, p) == Contains(s.dpl[Source[p]], p)

(* GbcMemory::remember *)
LEMMA RememberList ==
    ASSUME NEW n, NEW R \in SUBSET Packet, NEW s \in States(n, R), NEW p \in R, 0 < MemoryCapacity,
           NEW t, t = Remember(s, p)
    PROVE  /\ t \in States(n, R) /\ SameCbf(s, t) /\ t.scf = s.scf /\ t.out = s.out /\ t.dpl = s.dpl
           /\ t.known = s.known /\ t.expired = s.expired
           /\ Fits(R, MemoryCapacity) => Contains(t.memory, p) /\ Extends(s.memory, t.memory)
<1> DEFINE others == Kept(s.memory, Packet \ {p})
           rest == IF others = s.memory /\ Len(others) >= MemoryCapacity THEN Tail(others) ELSE others
           x == Append(rest, p)
<1>1. s.memory \in Lists(R) /\ MemoryCapacity \in Nat
  BY StateFields, MibAssumption DEF Lists
<1>2. /\ others \in Lists(R) /\ ~Contains(others, p)
      /\ \A o : o # p /\ Contains(s.memory, o) => Contains(others, o)
      /\ ~Contains(s.memory, p) => others = s.memory
  <2> DEFINE l == s.memory
  <2>1. l \in Lists(R) /\ others = Kept(l, Packet \ {p})
    BY <1>1
  <2> HIDE DEF l, others
  <2>2. /\ others \in Lists(R) /\ ~Contains(others, p)
        /\ \A o : o # p /\ Contains(l, o) => Contains(others, o)
        /\ ~Contains(l, p) => others = l
    BY <2>1, ListOthers
  <2> QED
    BY <2>2 DEF l
<1>3. t = [s EXCEPT !.memory = x]
  BY DEF Remember
<1> HIDE DEF others
<1>4. rest \in Lists(R) /\ ~Contains(rest, p)
  <2>1. CASE others = s.memory /\ Len(others) >= MemoryCapacity
    <3>1. others # <<>>
      BY <1>1, <2>1
    <3> QED
      BY <1>2, <2>1, <3>1, ListTail
  <2>2. CASE ~(others = s.memory /\ Len(others) >= MemoryCapacity)
    BY <1>2, <2>2
  <2> QED
    BY <2>1, <2>2
<1>5. ASSUME Fits(R, MemoryCapacity) PROVE rest = others
  <2>1. Len(others) < Cardinality(R) /\ Cardinality(R) \in Nat
    BY <1>2, <1>5, ListFits, FS_CardinalityType DEF Fits
  <2>2. Len(others) \in Nat
    BY <1>2 DEF Lists
  <2>3. ~(Len(others) >= MemoryCapacity)
    BY <1>1, <1>5, <2>1, <2>2 DEF Fits
  <2> QED
    BY <2>3
<1> HIDE DEF rest
<1>6. x \in Lists(R) /\ Contains(x, p) /\ Extends(rest, x)
  BY <1>4, ListAppend DEF Extends
<1> HIDE DEF x
<1>7. x \in Seq(R) /\ Distinct(x)
  BY <1>6 DEF Lists
<1>8. /\ t \in States(n, R) /\ SameCbf(s, t) /\ t.scf = s.scf /\ t.out = s.out /\ t.dpl = s.dpl
      /\ t.known = s.known /\ t.expired = s.expired /\ t.memory = x
  BY <1>3, <1>7, SetMemory
<1>9. ASSUME Fits(R, MemoryCapacity) PROVE Extends(s.memory, x)
  BY <1>2, <1>5, <1>6, <1>9 DEF Extends
<1> QED
  BY <1>6, <1>8, <1>9

-----------------------------------------------------------------------------
(* The location table *)

(* The CBF buffer, the broadcast forwarding buffer and the transmissions   *)
(* are the same.                                                           *)
SameQueues(s, t) == SameCbf(s, t) /\ t.scf = s.scf /\ t.out = s.out

(* Nothing is owed for changes of the location table and the memory. *)
LEMMA SameOwed ==
    ASSUME NEW s, NEW t, SameQueues(s, t)
    PROVE  \A p, K : Owed(t, p, K) = Owed(s, p, K) /\ Outs(t, p) = Outs(s, p)
  BY DEF SameQueues, SameCbf, Owed, Outs, Buffered, IsBuffered, Waiting, Recorded

(* Another location table *)
WithTable(s, k, b, e, d) == [s EXCEPT !.known = k, !.neighbours = b, !.expired = e, !.dpl = d]

(* Its fields *)
LEMMA SetTable ==
    ASSUME NEW n, NEW R \in SUBSET Packet, NEW s \in States(n, R),
           NEW k \in SUBSET Station, NEW b \in SUBSET k, NEW e \in SUBSET k,
           NEW d \in [Station -> Lists(R)], NEW t, t = WithTable(s, k, b, e, d)
    PROVE  /\ t \in States(n, R) /\ SameQueues(s, t) /\ t.memory = s.memory
           /\ t.known = k /\ t.neighbours = b /\ t.expired = e /\ t.dpl = d
<1>1. s \in StationState
  BY StateFields
<1>2. Lists(R) \subseteq Seq(Packet)
  BY WithinPackets DEF Lists
<1>3. d \in [Station -> Seq(Packet)] /\ b \in SUBSET Station /\ e \in SUBSET Station
  BY <1>2
<1>4. /\ t \in StationState /\ t.known = k /\ t.neighbours = b
      /\ t.expired = e /\ t.dpl = d /\ t.memory = s.memory /\ t.cbf = s.cbf
      /\ t.counter = s.counter /\ t.scf = s.scf /\ t.out = s.out
  BY <1>1, <1>3 DEF StationState, WithTable
<1>5. t \in States(n, R)
  <2>1. /\ s.scf \in Seq(Carriable(R)) /\ s.out \in Seq(Progressing(n, R))
        /\ s.memory \in Seq(R) /\ Distinct(s.memory)
        /\ \A p \in Packet : s.cbf[p] # NotBuffered => p \in R
    BY StateFields
  <2> QED
    BY <1>4, <2>1 DEF States, IsBuffered
<1> QED
  BY <1>4, <1>5 DEF SameQueues, SameCbf

(* LocationTable::drop_expired *)
LEMMA DropFields ==
    ASSUME NEW n, NEW R \in SUBSET Packet, NEW s \in States(n, R), NEW t, t = DropExpiredEntries(s)
    PROVE  /\ t \in States(n, R) /\ SameQueues(s, t) /\ t.memory = s.memory
           /\ t.known = s.known \ s.expired /\ t.expired = {}
           /\ s.expired = {} => t.dpl = s.dpl
<1> DEFINE k == s.known \ s.expired
           b == s.neighbours \ s.expired
           e == {}
           d == [m \in Station |-> IF m \in s.expired THEN <<>> ELSE s.dpl[m]]
<1>1. s \in StationState /\ s.dpl \in [Station -> Lists(R)]
  BY StateFields
<1>2. k \in SUBSET Station /\ b \in SUBSET k /\ e \in SUBSET k
  BY StateFields
<1>3. d \in [Station -> Lists(R)] /\ (s.expired = {} => d = s.dpl)
  <2>1. <<>> \in Lists(R)
    BY DEF Lists, Distinct
  <2> QED
    BY <1>1, <2>1
<1>4. t = WithTable(s, k, b, e, d)
  BY <1>1 DEF DropExpiredEntries, WithTable, StationState
<1> HIDE DEF k, b, e, d
<1>5. /\ t \in States(n, R) /\ SameQueues(s, t) /\ t.memory = s.memory
      /\ t.known = k /\ t.expired = e /\ t.dpl = d
  BY <1>2, <1>3, <1>4, SetTable
<1> QED
  BY <1>3, <1>5 DEF k, e

(* detect_duplicate_packet *)
LEMMA CheckFields ==
    ASSUME NEW n, NEW R \in SUBSET Packet, NEW s \in States(n, R), NEW p \in R,
           NEW t, t = CheckDuplicate(s, p).state
    PROVE  /\ t \in States(n, R) /\ SameQueues(s, t) /\ t.memory = s.memory
           /\ s.known \subseteq t.known /\ t.expired = s.expired
           /\ CheckDuplicate(s, p).duplicate = Listed(s, p)
           /\ Fits(R, DplLength) => Listed(t, p) /\ \A o \in Packet : Listed(s, o) => Listed(t, o)
<1> DEFINE src == Source[p]
           l == s.dpl[src]
           k == s.known \cup {src}
           d == [s.dpl EXCEPT ![src] = ListAfterCheck(l, p)]
<1>1. /\ s \in StationState /\ s.dpl \in [Station -> Lists(R)] /\ src \in Station
      /\ s.neighbours \in SUBSET s.known /\ s.expired \in SUBSET s.known /\ s.known \in SUBSET Station
  BY StateFields, PacketAssumption
<1>2. /\ l \in Lists(R) /\ ListAfterCheck(l, p) \in Lists(R)
      /\ Fits(R, DplLength) => /\ Contains(ListAfterCheck(l, p), p)
                               /\ Extends(l, ListAfterCheck(l, p))
  BY <1>1, CheckList
<1>3. d \in [Station -> Lists(R)] /\ k \in SUBSET Station /\ s.neighbours \in SUBSET k /\ s.expired \in SUBSET k
  BY <1>1, <1>2
<1>4. t = WithTable(s, k, s.neighbours, s.expired, d)
  BY <1>1 DEF CheckDuplicate, WithTable, StationState
<1>5. CheckDuplicate(s, p).duplicate = Listed(s, p)
  BY DEF CheckDuplicate, Listed
<1> HIDE DEF k, d
<1>6. /\ t \in States(n, R) /\ SameQueues(s, t) /\ t.memory = s.memory
      /\ t.known = k /\ t.expired = s.expired /\ t.dpl = d
  BY <1>3, <1>4, SetTable
<1>7. ASSUME Fits(R, DplLength) PROVE Listed(t, p) /\ \A o \in Packet : Listed(s, o) => Listed(t, o)
  <2>1. d[src] = ListAfterCheck(l, p) /\ \A m \in Station : m # src => d[m] = s.dpl[m]
    BY <1>1 DEF d
  <2>2. Listed(t, p)
    BY <1>2, <1>6, <1>7, <2>1 DEF Listed
  <2>3. ASSUME NEW o \in Packet, Listed(s, o) PROVE Listed(t, o)
    <3>1. Source[o] \in Station
      BY PacketAssumption
    <3>2. CASE Source[o] = src
      BY <1>2, <1>6, <1>7, <2>1, <2>3, <3>2 DEF Listed, Extends
    <3>3. CASE Source[o] # src
      BY <1>6, <2>1, <2>3, <3>1, <3>3 DEF Listed
    <3> QED
      BY <3>2, <3>3
  <2> QED
    BY <2>2, <2>3
<1> QED
  BY <1>5, <1>6, <1>7 DEF k

(* The source becomes known. *)
LEMMA UpdateSourceFields ==
    ASSUME NEW n, NEW R \in SUBSET Packet, NEW s \in States(n, R), NEW p \in R, NEW existed \in BOOLEAN,
           NEW t, t = UpdateSource(s, p, existed)
    PROVE  /\ t \in States(n, R) /\ SameQueues(s, t) /\ t.memory = s.memory /\ t.dpl = s.dpl
           /\ s.known \subseteq t.known /\ t.expired = s.expired
<1> DEFINE k == s.known \cup {Source[p]}
           b == IF existed THEN s.neighbours ELSE s.neighbours \ {Source[p]}
<1>1. /\ s \in StationState /\ s.dpl \in [Station -> Lists(R)] /\ Source[p] \in Station
      /\ s.neighbours \in SUBSET s.known /\ s.expired \in SUBSET s.known /\ s.known \in SUBSET Station
  BY StateFields, PacketAssumption
<1>2. k \in SUBSET Station /\ b \in SUBSET k /\ s.expired \in SUBSET k
  BY <1>1
<1>3. t = WithTable(s, k, b, s.expired, s.dpl)
  BY <1>1 DEF UpdateSource, WithTable, StationState
<1> HIDE DEF k, b
<1>4. /\ t \in States(n, R) /\ SameQueues(s, t) /\ t.memory = s.memory
      /\ t.known = k /\ t.expired = s.expired /\ t.dpl = s.dpl
  BY <1>1, <1>2, <1>3, SetTable
<1> QED
  BY <1>4 DEF k

(* A neighbour becomes known. *)
LEMMA UpdateNeighbourFields ==
    ASSUME NEW n, NEW R \in SUBSET Packet, NEW s \in States(n, R), NEW m \in Station,
           NEW t, t = UpdateNeighbour(s, m)
    PROVE  /\ t \in States(n, R) /\ SameQueues(s, t) /\ t.memory = s.memory /\ t.dpl = s.dpl
           /\ t.expired = s.expired
<1> DEFINE k == s.known \cup {m}
           b == s.neighbours \cup {m}
<1>1. /\ s \in StationState /\ s.dpl \in [Station -> Lists(R)]
      /\ s.neighbours \in SUBSET s.known /\ s.expired \in SUBSET s.known /\ s.known \in SUBSET Station
  BY StateFields
<1>2. k \in SUBSET Station /\ b \in SUBSET k /\ s.expired \in SUBSET k
  BY <1>1
<1>3. t = WithTable(s, k, b, s.expired, s.dpl)
  BY <1>1 DEF UpdateNeighbour, WithTable, StationState
<1> HIDE DEF k, b
<1> QED
  BY <1>1, <1>2, <1>3, SetTable

-----------------------------------------------------------------------------
(* Reception *)

(* indicate_common *)
LEMMA PreparedFields ==
    ASSUME setup \in Setups, NEW n \in Station, NEW R \in SUBSET Packet, NEW s \in States(n, R),
           NEW t, t = Prepared(n, s)
    PROVE  /\ t \in States(n, R) /\ t.memory = s.memory
           /\ t.known = s.known \ s.expired /\ t.expired = {}
           /\ s.expired = {} => t.dpl = s.dpl
<1> DEFINE d == DropExpiredEntries(s)
<1>1. /\ d \in States(n, R) /\ SameQueues(s, d) /\ d.memory = s.memory
      /\ d.known = s.known \ s.expired /\ d.expired = {}
      /\ s.expired = {} => d.dpl = s.dpl
  BY DropFields
<1>2. t = FlushScf(n, d)
  BY DEF Prepared
<1> HIDE DEF d
<1>3. t \in States(n, R) /\ SameTable(d, t)
  BY <1>1, <1>2, FlushTable
<1> QED
  BY <1>1, <1>3 DEF SameTable

(* It transmits carried packets only. *)
LEMMA PreparedOwes ==
    ASSUME setup \in Setups, NEW n \in Station, NEW R \in SUBSET Packet, NEW s \in States(n, R),
           NEW p \in Packet, NEW K, OnlyOf(K, p), NEW t, t = Prepared(n, s)
    PROVE  Regulated(n, p, K) => Owes(n, s, t, p, K, 0)
<1> DEFINE d == DropExpiredEntries(s)
<1>1. d \in States(n, R) /\ SameQueues(s, d)
  BY DropFields
<1>2. t = FlushScf(n, d)
  BY DEF Prepared
<1> HIDE DEF d
<1>3. Owed(d, p, K) = Owed(s, p, K) /\ Outs(d, p) = Outs(s, p)
  BY <1>1, SameOwed
<1>4. Steady(n, s, d, p)
  BY <1>1 DEF SameQueues, SameCbf, Steady
<1>5. ASSUME Regulated(n, p, K) PROVE Owes(n, s, t, p, K, 0)
  <2>1. Owes(n, d, t, p, K, 0)
    BY <1>1, <1>2, <1>5, FlushOwes
  <2>2. Steady(n, s, t, p)
    BY <1>4, <2>1, SteadyTransitive DEF Owes
  <2> QED
    BY <1>3, <2>1, <2>2 DEF Owes
<1> QED
  BY <1>5

(* A packet is stored or processed: it is transmitted once at most. *)
LEMMA StoreOwes ==
    ASSUME setup \in Setups, NEW n \in Station, NEW R \in SUBSET Packet, NEW s \in States(n, R),
           NEW q, AtHand(q, R), NEW kind \in Kinds, NEW K, Regulated(n, q.packet, K),
           NEW t, t = StoreOrProcess(n, s, kind, q)
    PROVE  Owes(n, s, t, q.packet, K, Weight(Stored(kind, q), K))
<1> DEFINE x == Stored(kind, q)
           p == q.packet
<1>1. x \in Pending(R) /\ x \in Pending(Packet) /\ x.packet = p /\ p \in Packet
  BY DEF AtHand, Stored, Pending, Kinds
<1>2. CASE Scf[p] /\ Neighbours(s) = {}
  <2>1. t = PushScf(s, kind, q)
    BY <1>2 DEF StoreOrProcess
  <2>2. SameCbf(s, t) /\ t.out = s.out /\ t.scf = Append(s.scf, x)
    BY <1>2, <2>1, PushScfMoves
  <2> HIDE DEF x, p
  <2>3. Owed(t, p, K) = Owed(s, p, K) + Weight(x, K)
    BY <1>1, <2>2, OwedPush
  <2>4. Owed(s, p, K) \in Int /\ Weight(x, K) \in Int
    BY <1>1, OwedType DEF Weight
  <2>5. Owes(n, s, t, p, K, Weight(x, K))
    BY <2>2, <2>3, <2>4 DEF Owes, Steady, SameCbf
  <2> QED
    BY <2>5 DEF x, p
<1>3. CASE ~(Scf[p] /\ Neighbours(s) = {})
  <2>1. t = ProcessPending(n, s, x)
    BY <1>3 DEF StoreOrProcess, Stored
  <2> HIDE DEF x
  <2> QED
    BY <1>1, <2>1, PendingOwes DEF x
<1> QED
  BY <1>2, <1>3

(* A packet that is forwarded has one hop less. *)
Copy(f) == [packet |-> f.packet, hops |-> HopsLeft(f), ll |-> f.ll]

(* The received packet is forwarded, unless its hop limit or the packet    *)
(* data rate forbids it.                                                   *)
Forwarded(n, u, kind, f, stop) ==
    IF f.hops <= 1 \/ stop THEN u ELSE StoreOrProcess(n, u, kind, Copy(f))

(* The frames that packets of R are sent in *)
Frames(R) ==
    {f \in [to : Router, packet : R, hops : Nat, ll : LinkLayer \ {Local}] :
        f.ll.destination # Broadcast
            => DistanceTo(f.to, f.packet) < DistanceTo(f.ll.sender, f.packet)}

(* A frame that is received *)
LEMMA FrameFields ==
    ASSUME NEW R \in SUBSET Packet, NEW f \in Frames(R)
    PROVE  /\ f.to \in Router /\ f.to \in Station /\ f.packet \in R /\ f.packet \in Packet
           /\ f.hops \in Nat /\ f.ll \in LinkLayer /\ f.ll # Local /\ f.ll.sender \in Station
  BY NetworkAssumption DEF Frames, LinkLayer

(* Forwarding concerns this packet only. *)
LEMMA ForwardedMoves ==
    ASSUME setup \in Setups, NEW n \in Station, NEW R \in SUBSET Packet, NEW u \in States(n, R),
           NEW f \in Frames(R), NEW kind \in Kinds, NEW stop, NEW t, t = Forwarded(n, u, kind, f, stop)
    PROVE  t \in States(n, R) /\ Moves(u, t, f.packet)
<1> DEFINE q == Copy(f)
<1>1. CASE f.hops <= 1 \/ stop
  BY <1>1, StaysMoves DEF Forwarded
<1>2. CASE ~(f.hops <= 1 \/ stop)
  <2>1. t = StoreOrProcess(n, u, kind, q)
    BY <1>2 DEF Forwarded
  <2>2. AtHand(q, R) /\ q.packet = f.packet
    <3>1. f.hops - 1 \in Nat
      BY <1>2, FrameFields
    <3> QED
      BY <3>1, FrameFields DEF AtHand, Copy, HopsLeft
  <2> HIDE DEF q
  <2>3. t \in States(n, R) /\ Moves(u, t, q.packet)
    BY <2>1, <2>2, StoreMoves
  <2> QED
    BY <2>2, <2>3
<1> QED
  BY <1>1, <1>2

(* It transmits the packet at most once, and not at all if there is        *)
(* contention for it.                                                      *)
LEMMA ForwardedOwes ==
    ASSUME setup \in Setups, NEW n \in Station, NEW R \in SUBSET Packet, NEW u \in States(n, R),
           NEW f \in Frames(R), NEW kind \in Kinds, NEW stop, NEW t, t = Forwarded(n, u, kind, f, stop)
    PROVE  /\ Detecting => Owes(n, u, t, f.packet, Pending({f.packet}), 1)
           /\ Contending(n, f.packet) /\ kind = "forwarding"
                => Owes(n, u, t, f.packet, Uncontended(f.packet), 0)
<1> DEFINE q == Copy(f)
           p == f.packet
<1>1. p \in R /\ p \in Packet /\ f.ll # Local
  BY FrameFields
<1>2. CASE f.hops <= 1 \/ stop
  <2>1. t = u
    BY <1>2 DEF Forwarded
  <2>2. ASSUME NEW K PROVE Owed(u, p, K) \in Int
    BY <1>1, OwedType
  <2> QED
    BY <2>1, <2>2 DEF Owes, Steady
<1>3. CASE ~(f.hops <= 1 \/ stop)
  <2>1. t = StoreOrProcess(n, u, kind, q)
    BY <1>3 DEF Forwarded
  <2>2. AtHand(q, R) /\ q.packet = p /\ q.ll = f.ll
    <3>1. f.hops - 1 \in Nat
      BY <1>3, FrameFields
    <3> QED
      BY <3>1, FrameFields DEF AtHand, Copy, HopsLeft
  <2> DEFINE x == Stored(kind, q)
  <2>3. x \in Pending({p}) /\ x.ll = f.ll /\ x.kind = kind
    BY <2>2 DEF AtHand, Stored, Pending, Kinds
  <2> HIDE DEF q, p, x
  <2>4. ASSUME NEW K, Regulated(n, p, K) PROVE Owes(n, u, t, p, K, Weight(x, K))
    BY <2>1, <2>2, <2>4, StoreOwes DEF x
  <2>5. ASSUME Detecting PROVE Owes(n, u, t, p, Pending({p}), 1)
    <3>1. Regulated(n, p, Pending({p})) /\ Weight(x, Pending({p})) = 1
      BY <2>3, <2>5 DEF Regulated, Weight
    <3> QED
      BY <2>4, <3>1
  <2>6. ASSUME Contending(n, p), kind = "forwarding" PROVE Owes(n, u, t, p, Uncontended(p), 0)
    <3>1. Regulated(n, p, Uncontended(p)) /\ Weight(x, Uncontended(p)) = 0
      BY <1>1, <2>3, <2>6 DEF Regulated, Weight, Uncontended
    <3> QED
      BY <2>4, <3>1
  <2> QED
    BY <2>5, <2>6 DEF p
<1> QED
  BY <1>2, <1>3

(* The packet is no duplicate, and its source is known: from w to u. *)
Accepted(n, R, w, u, p) ==
    /\ u \in States(n, R) /\ SameQueues(w, u) /\ u.memory = w.memory
    /\ w.known \subseteq u.known /\ u.expired = w.expired
    /\ Fits(R, DplLength) => \A o \in Packet : Listed(w, o) => Listed(u, o)
    /\ Detecting => ~Listed(w, p) /\ (Fits(R, DplLength) => Listed(u, p))

(* It is decided whether the packet is passed up: from v to t. *)
Decided(n, R, v, t) ==
    /\ t \in States(n, R) /\ SameQueues(v, t) /\ t.dpl = v.dpl /\ t.expired = v.expired
    /\ Fits(R, MemoryCapacity) => Extends(v.memory, t.memory)

(* The packet is passed up for the first time. *)
FirstTime(R, w, r, p) ==
    Fits(R, MemoryCapacity) /\ r.up => ~Contains(w.memory, p) /\ Contains(r.state.memory, p)

(* The packet goes on as u and is handled with outcome r. *)
Handled(n, R, w, f, stop, r, u, kind) ==
    /\ Accepted(n, R, w, u, f.packet)
    /\ Decided(n, R, Forwarded(n, u, kind, f, stop), r.state)
    /\ Type[f.packet] = "gbc" => kind = "forwarding" /\ FirstTime(R, w, r, f.packet)

(* Detection and update of the source *)
LEMMA CheckAccepts ==
    ASSUME NEW n, NEW R \in SUBSET Packet, NEW w \in States(n, R), NEW p \in R, NEW existed \in BOOLEAN,
           NEW u, u = UpdateSource(CheckDuplicate(w, p).state, p, existed),
           ~CheckDuplicate(w, p).duplicate
    PROVE  Accepted(n, R, w, u, p)
<1> DEFINE c == CheckDuplicate(w, p).state
<1>1. /\ c \in States(n, R) /\ SameQueues(w, c) /\ c.memory = w.memory
      /\ w.known \subseteq c.known /\ c.expired = w.expired
      /\ CheckDuplicate(w, p).duplicate = Listed(w, p)
      /\ Fits(R, DplLength) => Listed(c, p) /\ \A o \in Packet : Listed(w, o) => Listed(c, o)
  BY CheckFields
<1> HIDE DEF c
<1>2. /\ u \in States(n, R) /\ SameQueues(c, u) /\ u.memory = c.memory /\ u.dpl = c.dpl
      /\ c.known \subseteq u.known /\ u.expired = c.expired
  BY <1>1, UpdateSourceFields DEF c
<1>3. SameQueues(w, u)
  BY <1>1, <1>2 DEF SameQueues, SameCbf
<1>4. \A o : Listed(u, o) <=> Listed(c, o)
  BY <1>2 DEF Listed
<1> QED
  BY <1>1, <1>2, <1>3, <1>4 DEF Accepted

(* Without detection, where it is not used *)
LEMMA UpdateAccepts ==
    ASSUME NEW n, NEW R \in SUBSET Packet, NEW w \in States(n, R), NEW p \in R, NEW existed \in BOOLEAN,
           NEW u, u = UpdateSource(w, p, existed), ~Detecting
    PROVE  Accepted(n, R, w, u, p)
<1>1. /\ u \in States(n, R) /\ SameQueues(w, u) /\ u.memory = w.memory /\ u.dpl = w.dpl
      /\ w.known \subseteq u.known /\ u.expired = w.expired
  BY UpdateSourceFields
<1> QED
  BY <1>1 DEF Accepted, Listed

(* decide_pass_up *)
LEMMA PassUpDecides ==
    ASSUME NEW n, NEW R \in SUBSET Packet, NEW v \in States(n, R), NEW p \in R,
           NEW r, r = DecidePassUp(n, v, p)
    PROVE  Decided(n, R, v, r.state) /\ FirstTime(R, v, r, p) /\ r.up \in BOOLEAN
<1> DEFINE accept == Inside(n, p) \/ PassUpOutside
           t == Remember(v, p)
<1>0. accept \in BOOLEAN
  BY MibAssumption DEF Inside
<1>1. CASE MemoryCapacity = 0 \/ ~accept
  <2>1. r.state = v /\ r.up = accept
    BY <1>1 DEF DecidePassUp
  <2>2. ~(Fits(R, MemoryCapacity) /\ r.up)
    <3>1. MemoryCapacity = 0 => ~Fits(R, MemoryCapacity)
      BY DEF Fits
    <3> HIDE DEF accept
    <3> QED
      BY <1>1, <2>1, <3>1, Zenon
  <2>3. Decided(n, R, v, v)
    BY DEF Decided, SameQueues, SameCbf, Extends
  <2>4. r.up \in BOOLEAN
    BY <1>0, <2>1
  <2> QED
    BY <2>1, <2>2, <2>3, <2>4 DEF FirstTime
<1>2. CASE ~(MemoryCapacity = 0 \/ ~accept)
  <2>1. r.state = t /\ r.up = ~Contains(v.memory, p)
    BY <1>2 DEF DecidePassUp
  <2>2. 0 < MemoryCapacity
    BY <1>2, MibAssumption
  <2>3. /\ t \in States(n, R) /\ SameCbf(v, t) /\ t.scf = v.scf /\ t.out = v.out /\ t.dpl = v.dpl
        /\ t.known = v.known /\ t.expired = v.expired
        /\ Fits(R, MemoryCapacity) => Contains(t.memory, p) /\ Extends(v.memory, t.memory)
    BY <2>2, RememberList
  <2> HIDE DEF t
  <2> QED
    BY <2>1, <2>3 DEF Decided, FirstTime, SameQueues
<1> QED
  BY <1>1, <1>2

(* process_extended for GBC packets *)
LEMMA GbcHandled ==
    ASSUME setup \in Setups, NEW n \in Station, NEW R \in SUBSET Packet, NEW w \in States(n, R),
           NEW f \in Frames(R), NEW stop, Type[f.packet] = "gbc", NEW r, r = ProcessGbc(n, w, f, stop)
    PROVE  /\ r.up \in BOOLEAN
           /\ \/ r.state = w /\ r.up = FALSE
              \/ \E u \in States(n, R), kind \in Kinds : Handled(n, R, w, f, stop, r, u, kind)
<1> DEFINE p == f.packet
           existed == Source[p] \in w.known
           dup == CheckDuplicate(w, p)
           detects == \/ Inside(n, p) /\ AreaForwarding = "SIMPLE"
                      \/ ~Inside(n, p) /\ NonAreaForwarding = "Greedy"
           c == IF detects THEN dup.state ELSE w
           u == UpdateSource(c, p, existed)
           kind == "forwarding"
           v == Forwarded(n, u, kind, f, stop)
<1>1. p \in R /\ existed \in BOOLEAN /\ kind \in Kinds
  BY FrameFields DEF Kinds
<1>2. ~detects => ~Detecting
  BY DEF Detecting
<1>3. IF detects /\ dup.duplicate THEN r = [state |-> w, up |-> FALSE] ELSE r = DecidePassUp(n, v, p)
  <2> DEFINE check == IF detects THEN dup ELSE [state |-> w, duplicate |-> FALSE]
  <2>1. check.state = c /\ (check.duplicate <=> detects /\ dup.duplicate)
    BY DEF CheckDuplicate
  <2>2. r = IF check.duplicate THEN [state |-> w, up |-> FALSE]
            ELSE DecidePassUp(n, Forwarded(n, UpdateSource(check.state, p, existed), "forwarding", f, stop), p)
    BY DEF ProcessGbc, Forwarded, Copy
  <2> HIDE DEF check, detects, dup
  <2> QED
    BY <2>1, <2>2
<1> HIDE DEF existed
<1>4. CASE detects /\ dup.duplicate
  <2>1. r = [state |-> w, up |-> FALSE]
    BY <1>3, <1>4
  <2>2. r.state = w /\ r.up = FALSE
    BY <2>1
  <2> QED
    BY <2>2
<1>5. CASE ~(detects /\ dup.duplicate)
  <2>1. Accepted(n, R, w, u, p)
    <3>1. CASE detects
      BY <1>1, <1>5, <3>1, CheckAccepts
    <3>2. CASE ~detects
      BY <1>1, <1>2, <3>2, UpdateAccepts
    <3> QED
      BY <3>1, <3>2
  <2>2. r = DecidePassUp(n, v, p)
    BY <1>3, <1>5
  <2> HIDE DEF u
  <2>3. u \in States(n, R) /\ u.memory = w.memory
    BY <2>1 DEF Accepted
  <2>4. v \in States(n, R) /\ Moves(u, v, p)
    BY <1>1, <2>3, ForwardedMoves
  <2>5. v.memory = w.memory
    BY <2>3, <2>4 DEF Moves, SameTable
  <2> HIDE DEF v
  <2>6. Decided(n, R, v, r.state) /\ FirstTime(R, v, r, p) /\ r.up \in BOOLEAN
    BY <1>1, <2>2, <2>4, PassUpDecides
  <2>7. FirstTime(R, w, r, p)
    BY <2>5, <2>6 DEF FirstTime
  <2>8. Handled(n, R, w, f, stop, r, u, kind)
    BY <2>1, <2>6, <2>7 DEF Handled, v
  <2> HIDE DEF kind
  <2> QED
    BY <1>1, <2>3, <2>6, <2>8
<1> QED
  BY <1>4, <1>5

(* process_extended for TSB packets *)
LEMMA TsbHandled ==
    ASSUME setup \in Setups, NEW n \in Station, NEW R \in SUBSET Packet, NEW w \in States(n, R),
           NEW f \in Frames(R), NEW stop, Type[f.packet] # "gbc", NEW r, r = ProcessTsb(n, w, f, stop)
    PROVE  /\ r.up \in BOOLEAN
           /\ \/ r.state = w /\ r.up = FALSE
              \/ \E u \in States(n, R), kind \in Kinds : Handled(n, R, w, f, stop, r, u, kind)
<1> DEFINE p == f.packet
           existed == Source[p] \in w.known
           dup == CheckDuplicate(w, p)
           u == UpdateSource(dup.state, p, existed)
           kind == "transmit"
           v == Forwarded(n, u, kind, f, stop)
<1>1. p \in R /\ existed \in BOOLEAN /\ kind \in Kinds
  BY FrameFields DEF Kinds
<1>2. IF dup.duplicate THEN r = [state |-> w, up |-> FALSE] ELSE r = [state |-> v, up |-> TRUE]
  BY Zenon DEF ProcessTsb, Forwarded, Copy
<1> HIDE DEF existed
<1>3. CASE dup.duplicate
  <2>1. r = [state |-> w, up |-> FALSE]
    BY <1>2, <1>3
  <2>2. r.state = w /\ r.up = FALSE
    BY <2>1
  <2> QED
    BY <2>2
<1>4. CASE ~dup.duplicate
  <2>1. Accepted(n, R, w, u, p)
    BY <1>1, <1>4, CheckAccepts
  <2>2. r.state = v /\ r.up = TRUE
    BY <1>2, <1>4
  <2> HIDE DEF u
  <2>3. u \in States(n, R)
    BY <2>1 DEF Accepted
  <2>4. v \in States(n, R)
    BY <1>1, <2>3, ForwardedMoves
  <2>5. Decided(n, R, v, v)
    BY <2>4 DEF Decided, SameQueues, SameCbf, Extends
  <2> HIDE DEF v
  <2>6. Decided(n, R, v, r.state)
    BY <2>2, <2>5
  <2>7. Handled(n, R, w, f, stop, r, u, kind)
    BY <2>1, <2>6 DEF Handled, v
  <2> HIDE DEF kind
  <2> QED
    BY <1>1, <2>2, <2>3, <2>7
<1> QED
  BY <1>3, <1>4

(* indicate *)
LEMMA IndicateHandled ==
    ASSUME setup \in Setups, NEW n \in Station, NEW R \in SUBSET Packet, NEW s \in States(n, R),
           NEW f \in Frames(R), NEW stop, NEW r, r = Indicate(n, s, f, stop)
    PROVE  \E w \in States(n, R) :
              /\ w = Prepared(n, s) /\ r.up \in BOOLEAN
              /\ \/ r.state = w /\ r.up = FALSE
                 \/ \E u \in States(n, R), kind \in Kinds : Handled(n, R, w, f, stop, r, u, kind)
<1> DEFINE w == Prepared(n, s)
<1>1. w \in States(n, R)
  BY PreparedFields
<1>2. r = IF Type[f.packet] = "gbc" THEN ProcessGbc(n, w, f, stop) ELSE ProcessTsb(n, w, f, stop)
  BY DEF Indicate
<1> SUFFICES /\ r.up \in BOOLEAN
             /\ \/ r.state = w /\ r.up = FALSE
                \/ \E u \in States(n, R), kind \in Kinds : Handled(n, R, w, f, stop, r, u, kind)
  BY <1>1
<1> HIDE DEF w
<1> QED
  BY <1>1, <1>2, GbcHandled, TsbHandled

(* Debts add up, whatever happens to the location table in between. *)
LEMMA OwesThrough ==
    ASSUME NEW n, NEW R \in SUBSET Packet, NEW p \in Packet, NEW K, NEW d \in Nat,
           NEW s \in States(n, R), NEW w \in States(n, R), NEW u \in States(n, R), NEW v \in States(n, R),
           NEW t \in States(n, R),
           Owes(n, s, w, p, K, 0), SameQueues(w, u), Owes(n, u, v, p, K, d), SameQueues(v, t)
    PROVE  Owes(n, s, t, p, K, d)
<1>1. Owed(u, p, K) = Owed(w, p, K) /\ Owed(t, p, K) = Owed(v, p, K)
  BY SameOwed
<1>2. Owed(s, p, K) \in Int /\ Owed(w, p, K) \in Int /\ Owed(v, p, K) \in Int
  BY OwedType
<1>3. Steady(n, w, u, p) /\ Steady(n, v, t, p)
  BY DEF SameQueues, SameCbf, Steady
<1>4. Steady(n, s, t, p)
  BY <1>3, SteadyTransitive DEF Owes
<1> QED
  BY <1>1, <1>2, <1>4 DEF Owes

(* What an indication does to the state, and to the memory *)
LEMMA IndicateFields ==
    ASSUME setup \in Setups, NEW n \in Station, NEW R \in SUBSET Packet, NEW s \in States(n, R),
           NEW f \in Frames(R), NEW stop, NEW r, r = Indicate(n, s, f, stop)
    PROVE  /\ r.state \in States(n, R) /\ r.state.expired = {} /\ r.up \in BOOLEAN
           /\ Fits(R, MemoryCapacity) => Extends(s.memory, r.state.memory)
           /\ Type[f.packet] = "gbc" => FirstTime(R, s, r, f.packet)
<1>1. PICK w \in States(n, R) :
              /\ w = Prepared(n, s) /\ r.up \in BOOLEAN
              /\ \/ r.state = w /\ r.up = FALSE
                 \/ \E u \in States(n, R), kind \in Kinds : Handled(n, R, w, f, stop, r, u, kind)
  BY IndicateHandled
<1>2. w.memory = s.memory /\ w.expired = {}
  BY <1>1, PreparedFields
<1>3. CASE r.state = w /\ r.up = FALSE
  BY <1>1, <1>2, <1>3 DEF Extends, FirstTime
<1>4. ASSUME NEW u \in States(n, R), NEW kind \in Kinds, Handled(n, R, w, f, stop, r, u, kind)
      PROVE  /\ r.state \in States(n, R) /\ r.state.expired = {}
             /\ Fits(R, MemoryCapacity) => Extends(s.memory, r.state.memory)
             /\ Type[f.packet] = "gbc" => FirstTime(R, s, r, f.packet)
  <2> DEFINE v == Forwarded(n, u, kind, f, stop)
  <2>1. v \in States(n, R) /\ Moves(u, v, f.packet)
    BY ForwardedMoves
  <2>2. Accepted(n, R, w, u, f.packet) /\ Decided(n, R, v, r.state)
    BY <1>4 DEF Handled
  <2> HIDE DEF v
  <2>3. v.memory = s.memory /\ v.expired = {}
    BY <1>2, <2>1, <2>2 DEF Accepted, Moves, SameTable
  <2>4. Type[f.packet] = "gbc" => FirstTime(R, s, r, f.packet)
    BY <1>2, <1>4 DEF Handled, FirstTime
  <2> QED
    BY <2>2, <2>3, <2>4 DEF Decided
<1> QED
  BY <1>1, <1>3, <1>4

(* Other packets are at most transmitted if they were carried. *)
LEMMA IndicateOthers ==
    ASSUME setup \in Setups, NEW n \in Station, NEW R \in SUBSET Packet, NEW s \in States(n, R),
           NEW f \in Frames(R), NEW stop, NEW r, r = Indicate(n, s, f, stop),
           NEW o \in Packet, o # f.packet, NEW K, OnlyOf(K, o), Regulated(n, o, K)
    PROVE  Owes(n, s, r.state, o, K, 0)
<1>1. PICK w \in States(n, R) :
              /\ w = Prepared(n, s) /\ r.up \in BOOLEAN
              /\ \/ r.state = w /\ r.up = FALSE
                 \/ \E u \in States(n, R), kind \in Kinds : Handled(n, R, w, f, stop, r, u, kind)
  BY IndicateHandled
<1>2. Owes(n, s, w, o, K, 0)
  BY <1>1, PreparedOwes
<1>3. ASSUME NEW u \in States(n, R), NEW kind \in Kinds, Handled(n, R, w, f, stop, r, u, kind)
      PROVE  Owes(n, s, r.state, o, K, 0)
  <2> DEFINE v == Forwarded(n, u, kind, f, stop)
             t == r.state
             p == f.packet
  <2>1. v \in States(n, R) /\ Moves(u, v, p) /\ p \in Packet /\ o # p
    BY ForwardedMoves, FrameFields
  <2>2. SameQueues(w, u) /\ SameQueues(v, t) /\ t \in States(n, R)
    BY <1>3 DEF Handled, Accepted, Decided
  <2> HIDE DEF v, t, p
  <2>3. Owed(v, o, K) = Owed(u, o, K) /\ v.cbf[o] = u.cbf[o] /\ v.counter[o] = u.counter[o]
    BY <2>1, OwedOthers
  <2>4. Owes(n, u, v, o, K, 0)
    <3>1. Owed(u, o, K) \in Int
      BY OwedType
    <3> QED
      BY <2>3, <3>1 DEF Owes, Steady
  <2>5. Owes(n, s, t, o, K, 0)
    BY <1>2, <2>1, <2>2, <2>4, OwesThrough
  <2> QED
    BY <2>5 DEF t
<1> QED
  BY <1>1, <1>2, <1>3

(* The packet itself is contended for ... *)
LEMMA IndicateContends ==
    ASSUME setup \in Setups, NEW n \in Station, NEW R \in SUBSET Packet, NEW s \in States(n, R),
           NEW f \in Frames(R), NEW stop, NEW r, r = Indicate(n, s, f, stop),
           Contending(n, f.packet), Type[f.packet] = "gbc"
    PROVE  Owes(n, s, r.state, f.packet, Uncontended(f.packet), 0)
<1> DEFINE p == f.packet
           K == Uncontended(p)
<1>0. Regulated(n, p, K) /\ OnlyOf(K, p) /\ p \in Packet
  BY FrameFields DEF Regulated, OnlyOf, Uncontended
<1> HIDE DEF K
<1>1. PICK w \in States(n, R) :
              /\ w = Prepared(n, s) /\ r.up \in BOOLEAN
              /\ \/ r.state = w /\ r.up = FALSE
                 \/ \E u \in States(n, R), kind \in Kinds : Handled(n, R, w, f, stop, r, u, kind)
  BY IndicateHandled
<1>2. Owes(n, s, w, p, K, 0)
  BY <1>0, <1>1, PreparedOwes
<1>3. ASSUME NEW u \in States(n, R), NEW kind \in Kinds, Handled(n, R, w, f, stop, r, u, kind)
      PROVE  Owes(n, s, r.state, p, K, 0)
  <2> DEFINE v == Forwarded(n, u, kind, f, stop)
             t == r.state
  <2>1. v \in States(n, R) /\ kind = "forwarding"
    BY <1>3, ForwardedMoves DEF Handled
  <2>2. SameQueues(w, u) /\ SameQueues(v, t) /\ t \in States(n, R)
    BY <1>3 DEF Handled, Accepted, Decided
  <2>3. Owes(n, u, v, p, K, 0)
    BY <2>1, ForwardedOwes DEF K
  <2> HIDE DEF v, t
  <2>4. Owes(n, s, t, p, K, 0)
    BY <1>0, <1>2, <2>1, <2>2, <2>3, OwesThrough
  <2> QED
    BY <2>4 DEF t
<1>4. Owes(n, s, r.state, p, K, 0)
  BY <1>1, <1>2, <1>3
<1> QED
  BY <1>4 DEF K

(* ... or transmitted once, and its source is remembered for it. *)
LEMMA IndicateDetects ==
    ASSUME setup \in Setups, NEW n \in Station, NEW R \in SUBSET Packet, NEW s \in States(n, R),
           NEW f \in Frames(R), NEW stop, NEW r, r = Indicate(n, s, f, stop),
           Detecting, Fits(R, DplLength), s.expired = {}
    PROVE  /\ \A o \in Packet : Listed(s, o) => Listed(r.state, o)
           /\ \/ Owes(n, s, r.state, f.packet, Pending({f.packet}), 0)
              \/ /\ Owes(n, s, r.state, f.packet, Pending({f.packet}), 1)
                 /\ ~Listed(s, f.packet) /\ Listed(r.state, f.packet)
<1> DEFINE p == f.packet
           K == Pending({p})
<1>0. Regulated(n, p, K) /\ OnlyOf(K, p) /\ p \in Packet
  BY FrameFields DEF Regulated, OnlyOf
<1> HIDE DEF K
<1>1. PICK w \in States(n, R) :
              /\ w = Prepared(n, s) /\ r.up \in BOOLEAN
              /\ \/ r.state = w /\ r.up = FALSE
                 \/ \E u \in States(n, R), kind \in Kinds : Handled(n, R, w, f, stop, r, u, kind)
  BY IndicateHandled
<1>2. Owes(n, s, w, p, K, 0)
  BY <1>0, <1>1, PreparedOwes
<1>3. \A o : Listed(w, o) <=> Listed(s, o)
  BY <1>1, PreparedFields DEF Listed
<1>4. ASSUME NEW u \in States(n, R), NEW kind \in Kinds, Handled(n, R, w, f, stop, r, u, kind)
      PROVE  /\ \A o \in Packet : Listed(s, o) => Listed(r.state, o)
             /\ Owes(n, s, r.state, p, K, 1) /\ ~Listed(s, p) /\ Listed(r.state, p)
  <2> DEFINE v == Forwarded(n, u, kind, f, stop)
             t == r.state
  <2>1. v \in States(n, R) /\ Moves(u, v, p)
    BY ForwardedMoves
  <2>2. Accepted(n, R, w, u, p) /\ SameQueues(v, t) /\ t \in States(n, R) /\ t.dpl = v.dpl
    BY <1>4 DEF Handled, Decided
  <2>3. Owes(n, u, v, p, K, 1)
    BY <2>1, ForwardedOwes DEF K
  <2> HIDE DEF v, t
  <2>4. \A o : Listed(t, o) <=> Listed(u, o)
    BY <2>1, <2>2 DEF Listed, Moves, SameTable
  <2>5. ~Listed(s, p) /\ Listed(t, p) /\ \A o \in Packet : Listed(s, o) => Listed(t, o)
    BY <1>0, <1>3, <2>2, <2>4 DEF Accepted
  <2>6. Owes(n, s, t, p, K, 1)
    <3>1. SameQueues(w, u)
      BY <2>2 DEF Accepted
    <3> QED
      BY <1>0, <1>2, <2>1, <2>2, <2>3, <3>1, OwesThrough
  <2> QED
    BY <2>5, <2>6 DEF t
<1>5. /\ \A o \in Packet : Listed(s, o) => Listed(r.state, o)
      /\ \/ Owes(n, s, r.state, p, K, 0)
         \/ Owes(n, s, r.state, p, K, 1) /\ ~Listed(s, p) /\ Listed(r.state, p)
  BY <1>1, <1>2, <1>3, <1>4
<1> QED
  BY <1>5 DEF K

-----------------------------------------------------------------------------
(* The air *)

(* Bags of such frames *)
Air(R) == UNION {[D -> Nat] : D \in SUBSET Frames(R)}

(* Frames are added ... *)
LEMMA AirPlus ==
    ASSUME NEW R, NEW a \in Air(R), NEW F \in SUBSET Frames(R)
    PROVE  a (+) SetToBag(F) \in Air(R)
<1>1. PICK D \in SUBSET Frames(R) : a \in [D -> Nat]
  BY DEF Air
<1>2. a (+) SetToBag(F) \in [D \cup F -> Nat]
  BY <1>1 DEF (+), SetToBag
<1> QED
  BY <1>2 DEF Air

(* ... and removed. *)
LEMMA AirMinus ==
    ASSUME NEW R, NEW a \in Air(R), NEW F
    PROVE  a (-) SetToBag(F) \in Air(R)
<1>1. PICK D \in SUBSET Frames(R) : a \in [D -> Nat]
  BY DEF Air
<1> DEFINE b == a (-) SetToBag(F)
<1>2. DOMAIN b \in SUBSET Frames(R) /\ b \in [DOMAIN b -> Nat]
  BY <1>1 DEF (-), SetToBag
<1> HIDE DEF b
<1>3. b \in Air(R)
  BY <1>2 DEF Air
<1> QED
  BY <1>3 DEF b

(* The frames in the air *)
LEMMA AirFrames ==
    ASSUME NEW R, NEW a \in Air(R)
    PROVE  BagToSet(a) \subseteq Frames(R)
  BY DEF Air, BagToSet

(* A transmission with progress becomes frames with progress. *)
LEMMA CopiesFrames ==
    ASSUME setup \in Setups, NEW n \in Station, NEW R \in SUBSET Packet, NEW x \in Progressing(n, R)
    PROVE  Copies(n, x) \in SUBSET Frames(R)
<1> SUFFICES ASSUME NEW m \in {o \in Hears[n] : x.destination \in {Broadcast, o}}
             PROVE  [to |-> m, packet |-> x.packet, hops |-> x.hops,
                     ll |-> [sender |-> n, destination |-> x.destination]] \in Frames(R)
  BY DEF Copies
<1> DEFINE l == [sender |-> n, destination |-> x.destination]
           f == [to |-> m, packet |-> x.packet, hops |-> x.hops, ll |-> l]
<1>1. x \in Sending(R) /\ x.destination \in Station \cup {Broadcast} /\ x.packet \in R /\ x.hops \in Nat
  BY DEF Progressing, Sending
<1>2. m \in Router /\ (x.destination = Broadcast \/ x.destination = m)
  BY NetworkAssumption DEF Hears
<1>3. l \in LinkLayer /\ l # Local /\ l.destination = x.destination /\ l.sender = n
  <2>1. n # Nobody
    BY StationAssumption
  <2> QED
    BY <1>1, <2>1 DEF LinkLayer, Local
<1> HIDE DEF l
<1>4. f \in [to : Router, packet : R, hops : Nat, ll : LinkLayer \ {Local}]
  BY <1>1, <1>2, <1>3
<1>5. ASSUME x.destination # Broadcast PROVE DistanceTo(m, x.packet) < DistanceTo(n, x.packet)
  BY <1>2, <1>5 DEF Progressing
<1>6. f.ll.destination # Broadcast => DistanceTo(f.to, f.packet) < DistanceTo(f.ll.sender, f.packet)
  BY <1>3, <1>5
<1>7. f \in Frames(R)
  <2> HIDE DEF f
  <2> QED
    BY <1>4, <1>6 DEF Frames
<1> QED
  BY <1>7 DEF l

(* All transmissions of a step *)
LEMMA AirAfterType ==
    ASSUME setup \in Setups, NEW n \in Station, NEW R \in SUBSET Packet, NEW l \in Seq(Progressing(n, R)),
           NEW a \in Air(R)
    PROVE  AirAfter(n, l, a) \in Air(R)
<1> DEFINE m == Len(l)
           V == Air(R)
           Step == [p \in (1 .. m) \X V |-> p[2] (+) SetToBag(Copies(n, l[p[1]]))]
           Body(f) == [k \in 0 .. Len(l) |->
                            IF k = 0 THEN a ELSE f[k - 1] (+) SetToBag(Copies(n, l[k]))]
<1>1. m \in Nat /\ a \in V /\ \A k \in 1 .. m : Copies(n, l[k]) \in SUBSET Frames(R)
  BY CopiesFrames
<1>2. \A k \in 1 .. m : \A u \in V : Step[<<k, u>>] = u (+) SetToBag(Copies(n, l[k]))
  OBVIOUS
<1> HIDE DEF Step
<1>3. IsStep(Step, m, V)
  <2> SUFFICES ASSUME NEW k \in 1 .. m, NEW u \in V PROVE Step[<<k, u>>] \in V
    BY DEF IsStep
  <2> DEFINE F == Copies(n, l[k])
  <2>1. F \in SUBSET Frames(R)
    BY <1>1
  <2> HIDE DEF F
  <2>2. u (+) SetToBag(F) \in V
    BY <2>1, AirPlus
  <2> QED
    BY <1>2, <2>2 DEF F
<1>4. PICK f \in [0 .. m -> V] : f[0] = a /\ \A k \in 1 .. m : f[k] = Step[<<k, f[k - 1]>>]
  <2> HIDE DEF V, m
  <2>1. \E f \in [0 .. m -> V] : Follows(f, Step, m, a)
    BY <1>1, <1>3, Recursion
  <2> QED
    BY <2>1 DEF Follows
<1>5. \A k \in 1 .. m : f[k] = f[k - 1] (+) SetToBag(Copies(n, l[k]))
  <2>1. \A k \in 1 .. m : f[k - 1] \in V
    BY <1>1
  <2> QED
    BY <1>2, <1>4, <2>1
<1>6. f = Body(f)
  <2>1. \A k \in 0 .. m : k = 0 \/ k \in 1 .. m
    BY <1>1
  <2> QED
    BY <1>4, <1>5, <2>1
<1> DEFINE g == CHOOSE h : h = Body(h)
<1>7. g = Body(g)
  BY <1>6
<1>8. AirAfter(n, l, a) = g[Len(l)]
  BY DEF AirAfter
<1> HIDE DEF g
<1>9. g[0] = a /\ \A k \in 1 .. m : g[k] = g[k - 1] (+) SetToBag(Copies(n, l[k]))
  <2>1. 0 \in 0 .. Len(l) /\ \A k \in 1 .. m : k \in 0 .. Len(l) /\ k # 0
    BY <1>1
  <2> QED
    BY <1>7, <2>1
<1>10. \A k \in 0 .. m : g[k] = f[k]
  <2>1. Alike(g, f, m)
    BY <1>4, <1>5, <1>9 DEF Alike
  <2> HIDE DEF m
  <2> QED
    BY <1>1, <2>1, SameRecursion
<1>11. m \in 0 .. m
  BY <1>1
<1> QED
  BY <1>8, <1>10, <1>11

-----------------------------------------------------------------------------
(* More packets are requested *)

(* States, and the air, allow for more packets. *)
LEMMA MorePackets ==
    ASSUME NEW n, NEW R \in SUBSET Packet, NEW Q \in SUBSET Packet, R \subseteq Q
    PROVE  States(n, R) \subseteq States(n, Q) /\ Air(R) \subseteq Air(Q)
<1>1. Carriable(R) \subseteq Carriable(Q) /\ Progressing(n, R) \subseteq Progressing(n, Q)
  BY DEF Carriable, Progressing, Pending, Sending
<1>2. Lists(R) \subseteq Lists(Q)
  BY DEF Lists
<1>3. Frames(R) \subseteq Frames(Q)
  BY DEF Frames
<1>4. Air(R) \subseteq Air(Q)
  BY <1>3 DEF Air
<1>5. ASSUME NEW s \in States(n, R) PROVE s \in States(n, Q)
  <2>1. /\ s \in StationState /\ s.neighbours \subseteq s.known /\ s.expired \subseteq s.known
        /\ s.scf \in Seq(Carriable(R)) /\ s.out \in Seq(Progressing(n, R))
        /\ s.memory \in Seq(R) /\ Distinct(s.memory) /\ s.dpl \in [Station -> Lists(R)]
        /\ \A p \in Packet : s.cbf[p] # NotBuffered => p \in R
    BY StateFields
  <2>2. s.scf \in Seq(Carriable(Q)) /\ s.out \in Seq(Progressing(n, Q)) /\ s.memory \in Seq(Q)
    BY <1>1, <2>1
  <2>3. s.dpl \in [Station -> Lists(Q)]
    BY <1>2, <2>1
  <2> QED
    BY <2>1, <2>2, <2>3 DEF States, IsBuffered
<1> QED
  BY <1>4, <1>5

(* The state of a station that has transmitted *)
Sent(s) == [s EXCEPT !.out = <<>>]

(* Nothing is left to be transmitted. *)
LEMMA SentFields ==
    ASSUME NEW n, NEW R \in SUBSET Packet, NEW s \in States(n, R)
    PROVE  /\ Sent(s) \in States(n, R) /\ SameTable(s, Sent(s)) /\ SameCbf(s, Sent(s))
           /\ Sent(s).scf = s.scf /\ Sent(s).out = <<>>
           /\ \A p \in Packet : \A K : Owed(Sent(s), p, K) = Owed(s, p, K) - Outs(s, p)
<1> DEFINE x == <<>>
           t == Sent(s)
<1>1. x \in Seq(Progressing(n, R)) /\ t = [s EXCEPT !.out = x]
  BY DEF Sent
<1> HIDE DEF x
<1>2. t \in States(n, R) /\ SameTable(s, t) /\ SameCbf(s, t) /\ t.scf = s.scf /\ t.out = x
  BY <1>1, SetOut
<1>3. x = <<>>
  BY DEF x
<1> HIDE DEF t
<1>4. ASSUME NEW p \in Packet, NEW K PROVE Owed(t, p, K) = Owed(s, p, K) - Outs(s, p)
  <2>1. /\ Buffered(t, p) = Buffered(s, p) /\ Waiting(t, K) = Waiting(s, K) /\ Outs(t, p) = 0
        /\ Recorded(t, p) = Recorded(s, p)
    BY <1>2, <1>3, KeptNone DEF Outs, Buffered, IsBuffered, SameCbf, Waiting, Recorded
  <2>2. Outs(s, p) \in Nat /\ Buffered(s, p) \in {0, 1} /\ Waiting(s, K) \in Nat /\ Recorded(s, p) \in Nat
    BY OwedType
  <2> QED
    BY <2>1, <2>2 DEF Owed
<1> QED
  BY <1>2, <1>3, <1>4 DEF t

-----------------------------------------------------------------------------
(* The network *)

(* Every station is in one of its states and has nothing left to transmit, *)
(* and the frames in the air are of requested packets and make progress.   *)
NetworkInv ==
    /\ setup \in Setups
    /\ requested \in SUBSET Packet /\ IsFiniteSet(requested) /\ Cardinality(requested) <= MaxRequests
    /\ station \in [Router -> StationState]
    /\ \A n \in Router : station[n] \in States(n, requested) /\ station[n].out = <<>>
    /\ air \in Air(requested)
    /\ passed \in [Router -> [Packet -> Nat]]
    /\ sent \in [Router -> [Packet -> Nat]]
    /\ \A n \in Router, p \in Packet : sent[n][p] <= CountBound
    /\ fadings \in [Router -> [Packet -> Nat]]

(* It implies that the types are right and that unicast makes progress. *)
LEMMA NetworkInvProgress == NetworkInv => UnicastProgress
<1> SUFFICES ASSUME NetworkInv PROVE UnicastProgress
  OBVIOUS
<1>1. \A n \in Router :
        /\ station[n].known \subseteq Station
        /\ station[n].neighbours \subseteq station[n].known
        /\ station[n].expired \subseteq station[n].known
        /\ \A m \in Station : station[n].dpl[m] \in Seq(Packet)
        /\ station[n].out = <<>>
        /\ station[n].memory \in Seq(Packet)
        /\ \A p \in Packet : /\ station[n].counter[p] \in Nat /\ station[n].faded[p] \in Nat
                             /\ station[n].cbf[p].hops \in Nat
  <2> SUFFICES ASSUME NEW n \in Router
               PROVE  /\ station[n].known \subseteq Station
                      /\ station[n].neighbours \subseteq station[n].known
                      /\ station[n].expired \subseteq station[n].known
                      /\ \A m \in Station : station[n].dpl[m] \in Seq(Packet)
                      /\ station[n].out = <<>>
                      /\ station[n].memory \in Seq(Packet)
                      /\ \A p \in Packet : /\ station[n].counter[p] \in Nat /\ station[n].faded[p] \in Nat
                             /\ station[n].cbf[p].hops \in Nat
    OBVIOUS
  <2> DEFINE s == station[n]
  <2>1. s \in States(n, requested) /\ s.out = <<>> /\ requested \in SUBSET Packet
    BY DEF NetworkInv
  <2> HIDE DEF s
  <2>2. s \in StationState /\ s.neighbours \subseteq s.known /\ s.expired \subseteq s.known
    BY <2>1, StateFields
  <2>3. /\ s.known \subseteq Station /\ s.dpl \in [Station -> Seq(Packet)] /\ s.memory \in Seq(Packet)
        /\ s.counter \in [Packet -> Nat] /\ s.faded \in [Packet -> Nat] /\ s.cbf \in [Packet -> CbfEntry]
    BY <2>2 DEF StationState
  <2>4. \A e \in CbfEntry : e.hops \in Nat
    BY DEF CbfEntry
  <2> QED
    BY <2>1, <2>2, <2>3, <2>4 DEF s
<1>2. BagToSet(air) \subseteq Frames(requested) /\ requested \subseteq Packet
  BY AirFrames DEF NetworkInv
<1>3. Frames(requested) \subseteq Frame
  BY <1>2 DEF Frames, Frame
<1>4. TypeOK
  BY <1>1, <1>2, <1>3 DEF TypeOK, NetworkInv
<1>5. ASSUME NEW f \in BagToSet(air), f.ll.destination # Broadcast
      PROVE  DistanceTo(f.to, f.packet) < DistanceTo(f.ll.sender, f.packet)
  BY <1>2, <1>5 DEF Frames
<1> QED
  BY <1>4, <1>5 DEF UnicastProgress

(* It holds initially. *)
LEMMA NetworkInitially == Init => NetworkInv
<1> SUFFICES ASSUME Init PROVE NetworkInv
  OBVIOUS
<1>1. EmptyStation \in StationState
  <2>1. NotBuffered \in CbfEntry
    BY DEF NotBuffered, CbfEntry
  <2> QED
    BY <2>1 DEF EmptyStation, StationState
<1>2. \A n : EmptyStation \in States(n, {})
  <2> SUFFICES ASSUME NEW n PROVE EmptyStation \in States(n, {})
    OBVIOUS
  <2> DEFINE s == EmptyStation
             l == <<>>
  <2>1. /\ s.known = {} /\ s.neighbours = {} /\ s.expired = {} /\ s.dpl = [m \in Station |-> l]
        /\ s.cbf = [p \in Packet |-> NotBuffered]
        /\ s.scf = l /\ s.memory = l /\ s.out = l
    BY DEF EmptyStation
  <2>2. l \in Lists({}) /\ Distinct(l) /\ \A S : l \in Seq(S)
    BY DEF Lists, Distinct
  <2> HIDE DEF s, l
  <2>3. s.dpl \in [Station -> Lists({})] /\ \A p \in Packet : ~IsBuffered(s, p)
    BY <2>1, <2>2 DEF IsBuffered
  <2>4. s \in StationState
    BY <1>1 DEF s
  <2>5. s \in States(n, {})
    BY <2>1, <2>2, <2>3, <2>4 DEF States
  <2> QED
    BY <2>5 DEF s
<1>3. EmptyBag \in Air({})
  BY DEF EmptyBag, SetToBag, Air
<1>4. IsFiniteSet({}) /\ Cardinality({}) = 0
  BY FS_EmptySet
<1>5. MaxRequests \in Nat /\ CountBound \in Nat
  BY NetworkAssumption
<1>6. \A n \in Router : EmptyStation.out = <<>>
  BY DEF EmptyStation
<1> QED
  BY <1>1, <1>2, <1>3, <1>4, <1>5, <1>6 DEF Init, NetworkInv

(* Station n ends its step in state t and transmits. *)
Ends(n, t) ==
    /\ station' = [station EXCEPT ![n] = Sent(t)]
    /\ sent' = [sent EXCEPT ![n] = [p \in Packet |-> Count(sent[n][p], Outs(t, p))]]

(* The end of a step *)
LEMMA EndStepEnds ==
    ASSUME NetworkInv, NEW n \in Router, NEW t, NEW rest, EndStep(n, t, rest)
    PROVE  Ends(n, t) /\ air' = AirAfter(n, t.out, rest)
  BY DEF EndStep, Ends, Sent, Outs, NetworkInv

(* Counting stops at the bound. *)
LEMMA CountType ==
    ASSUME NEW c \in Nat, NEW d \in Nat
    PROVE  /\ Count(c, d) \in Nat /\ Count(c, d) <= CountBound /\ Count(c, d) <= c + d
           /\ c <= CountBound => Count(c, 0) = c
<1>1. CountBound \in Nat
  BY NetworkAssumption
<1> QED
  BY <1>1 DEF Count

(* What changes at the end of a step *)
LEMMA EndsEffect ==
    ASSUME NetworkInv, NEW n \in Router, NEW Q \in SUBSET Packet, NEW t \in States(n, Q), Ends(n, t)
    PROVE  /\ station' \in [Router -> StationState] /\ station'[n] = Sent(t)
           /\ \A m \in Router : m # n => station'[m] = station[m] /\ sent'[m] = sent[m]
           /\ sent' \in [Router -> [Packet -> Nat]]
           /\ \A p \in Packet : sent'[n][p] = Count(sent[n][p], Outs(t, p))
           /\ \A m \in Router, p \in Packet : sent'[m][p] <= CountBound
<1>1. Sent(t) \in StationState
  BY SentFields DEF States
<1>2. station \in [Router -> StationState] /\ sent \in [Router -> [Packet -> Nat]]
  BY DEF NetworkInv
<1>3. /\ station' \in [Router -> StationState] /\ station'[n] = Sent(t)
      /\ \A m \in Router : m # n => station'[m] = station[m]
  BY <1>1, <1>2 DEF Ends
<1> DEFINE c == [p \in Packet |-> Count(sent[n][p], Outs(t, p))]
<1>4. \A p \in Packet : Count(sent[n][p], Outs(t, p)) \in Nat /\ Count(sent[n][p], Outs(t, p)) <= CountBound
  <2> SUFFICES ASSUME NEW p \in Packet
               PROVE  Count(sent[n][p], Outs(t, p)) \in Nat /\ Count(sent[n][p], Outs(t, p)) <= CountBound
    OBVIOUS
  <2> DEFINE x == sent[n][p]
             y == Outs(t, p)
  <2>1. x \in Nat /\ y \in Nat
    BY <1>2, OwedType
  <2> HIDE DEF x, y
  <2>2. Count(x, y) \in Nat /\ Count(x, y) <= CountBound
    BY <2>1, CountType
  <2> QED
    BY <2>2 DEF x, y
<1>5. c \in [Packet -> Nat] /\ \A p \in Packet : c[p] = Count(sent[n][p], Outs(t, p)) /\ c[p] <= CountBound
  BY <1>4
<1>6. sent' = [sent EXCEPT ![n] = c]
  BY DEF Ends
<1> HIDE DEF c
<1>7. sent' \in [Router -> [Packet -> Nat]] /\ sent'[n] = c /\ \A m \in Router : m # n => sent'[m] = sent[m]
  BY <1>2, <1>5, <1>6
<1>8. \A m \in Router, p \in Packet : sent[m][p] <= CountBound
  BY DEF NetworkInv
<1>9. ASSUME NEW m \in Router, NEW p \in Packet PROVE sent'[m][p] <= CountBound
  BY <1>5, <1>7, <1>8
<1> QED
  BY <1>3, <1>5, <1>7, <1>9

(* A step of one station preserves the invariant. *)
LEMMA EndsInv ==
    ASSUME NetworkInv, NEW n \in Router, UNCHANGED setup, requested \subseteq requested',
           requested' \in SUBSET Packet, IsFiniteSet(requested'), Cardinality(requested') <= MaxRequests,
           NEW t \in States(n, requested'), NEW rest \in Air(requested'), EndStep(n, t, rest),
           passed' \in [Router -> [Packet -> Nat]], UNCHANGED fadings
    PROVE  NetworkInv'
<1> DEFINE Q == requested'
<1>1. Ends(n, t) /\ air' = AirAfter(n, t.out, rest)
  BY EndStepEnds
<1>2. n \in Station /\ setup \in Setups
  BY NetworkAssumption DEF NetworkInv
<1> HIDE DEF Q
<1>3. Q \in SUBSET Packet /\ t \in States(n, Q) /\ rest \in Air(Q) /\ requested \subseteq Q
  BY DEF Q
<1>4. air' \in Air(Q)
  <2> DEFINE l == t.out
  <2>1. l \in Seq(Progressing(n, Q))
    BY <1>3, StateFields
  <2> HIDE DEF l
  <2>2. AirAfter(n, l, rest) \in Air(Q)
    BY <1>2, <1>3, <2>1, AirAfterType
  <2> QED
    BY <1>1, <2>2 DEF l
<1>5. /\ station' \in [Router -> StationState] /\ station'[n] = Sent(t)
      /\ \A m \in Router : m # n => station'[m] = station[m]
      /\ sent' \in [Router -> [Packet -> Nat]]
      /\ \A m \in Router, p \in Packet : sent'[m][p] <= CountBound
  BY <1>1, <1>3, EndsEffect
<1>6. ASSUME NEW m \in Router PROVE station'[m] \in States(m, Q) /\ station'[m].out = <<>>
  <2>1. CASE m = n
    <3>1. Sent(t) \in States(n, Q) /\ Sent(t).out = <<>>
      BY <1>3, SentFields
    <3> QED
      BY <1>5, <2>1, <3>1
  <2>2. CASE m # n
    <3>1. station[m] \in States(m, requested) /\ station[m].out = <<>> /\ requested \in SUBSET Packet
      BY DEF NetworkInv
    <3>2. States(m, requested) \subseteq States(m, Q)
      BY <1>3, <3>1, MorePackets
    <3> QED
      BY <1>5, <2>2, <3>1, <3>2
  <2> QED
    BY <2>1, <2>2
<1>7. setup' \in Setups
  BY DEF NetworkInv
<1> QED
  BY <1>4, <1>5, <1>6, <1>7 DEF NetworkInv, Q

-----------------------------------------------------------------------------
(* What a step of a station costs *)

(* The duplicate packet lists have room for all packets. *)
LongLists == 0 < DplLength /\ MaxRequests <= DplLength

(* From s to t a router is committed to at most d more transmissions of p. *)
(* With detection of duplicates it may be one for a packet that was not    *)
(* yet listed.                                                             *)
Accounted(n, s, t, p, d) ==
    /\ Contending(n, p) /\ Type[p] = "gbc" => Owes(n, s, t, p, Uncontended(p), d)
    /\ Detecting /\ ~EntriesExpire /\ LongLists /\ s.expired = {} /\ ~IsBuffered(s, p) =>
          /\ t.expired = {} /\ (Listed(s, p) => Listed(t, p))
          /\ \/ Owes(n, s, t, p, Pending({p}), d)
             \/ Owes(n, s, t, p, Pending({p}), 1) /\ ~Listed(s, p) /\ Listed(t, p)

(* The packets that are looked at are those of p. *)
LEMMA OnlyOfBoth ==
    ASSUME NEW p
    PROVE  OnlyOf(Pending({p}), p) /\ OnlyOf(Uncontended(p), p)
  BY DEF OnlyOf, Uncontended

(* A move of another packet costs nothing. *)
LEMMA OthersAccounted ==
    ASSUME NEW n, NEW R \in SUBSET Packet, NEW s \in States(n, R), NEW o \in Packet, NEW p \in Packet,
           o # p, NEW t, Moves(s, t, o)
    PROVE  Accounted(n, s, t, p, 0)
<1>1. ASSUME NEW K, OnlyOf(K, p) PROVE Owes(n, s, t, p, K, 0)
  <2>1. Owed(t, p, K) = Owed(s, p, K) /\ t.cbf[p] = s.cbf[p] /\ t.counter[p] = s.counter[p]
    BY <1>1, OwedOthers
  <2>2. Owed(s, p, K) \in Int
    BY OwedType
  <2> QED
    BY <2>1, <2>2 DEF Owes, Steady
<1>2. t.expired = s.expired /\ (Listed(s, p) => Listed(t, p))
  BY DEF Moves, SameTable, Listed
<1> QED
  BY <1>1, <1>2, OnlyOfBoth DEF Accounted

(* The request of a GBC packet costs one transmission. *)
LEMMA RequestAccounted ==
    ASSUME setup \in Setups, NEW n \in Station, NEW R \in SUBSET Packet, NEW s \in States(n, R),
           NEW q, AtHand(q, R), NEW kind \in Kinds, NEW t, t = StoreOrProcess(n, s, kind, q)
    PROVE  /\ t \in States(n, R) /\ SameTable(s, t) /\ Accounted(n, s, t, q.packet, 1)
           /\ \A o \in Packet : o # q.packet => Accounted(n, s, t, o, 0)
<1> DEFINE p == q.packet
<1>1. p \in R /\ p \in Packet
  BY DEF AtHand
<1>2. t \in States(n, R) /\ Moves(s, t, p)
  BY StoreMoves
<1>3. ASSUME NEW K, Regulated(n, p, K) PROVE Owes(n, s, t, p, K, 1)
  <2> DEFINE w == Weight(Stored(kind, q), K)
  <2>1. Owes(n, s, t, p, K, w)
    BY <1>3, StoreOwes
  <2>2. w \in {0, 1}
    BY DEF Weight
  <2>3. Owed(s, p, K) \in Int /\ Owed(t, p, K) \in Int
    BY <1>1, <1>2, OwedType
  <2> HIDE DEF w
  <2> QED
    BY <2>1, <2>2, <2>3 DEF Owes
<1>4. /\ Contending(n, p) => Owes(n, s, t, p, Uncontended(p), 1)
      /\ Detecting => Owes(n, s, t, p, Pending({p}), 1)
  BY <1>3 DEF Regulated
<1>5. t.expired = s.expired /\ (Listed(s, p) => Listed(t, p)) /\ SameTable(s, t)
  BY <1>2 DEF Moves, SameTable, Listed
<1>6. Accounted(n, s, t, p, 1)
  BY <1>4, <1>5 DEF Accounted
<1>7. ASSUME NEW o \in Packet, o # p PROVE Accounted(n, s, t, o, 0)
  BY <1>1, <1>2, <1>7, OthersAccounted
<1> QED
  BY <1>2, <1>5, <1>6, <1>7

(* A received packet costs one transmission if it is listed for the first  *)
(* time, and nothing if it is contended for.                               *)
LEMMA ReceiveAccounted ==
    ASSUME setup \in Setups, NEW n \in Station, NEW R \in SUBSET Packet, NEW s \in States(n, R),
           NEW f \in Frames(R), NEW stop, NEW r, r = Indicate(n, s, f, stop),
           LongLists => Fits(R, DplLength), NEW p \in Packet
    PROVE  Accounted(n, s, r.state, p, 0)
<1> DEFINE t == r.state
<1>1. t \in States(n, R) /\ t.expired = {}
  BY IndicateFields
<1> HIDE DEF t
<1>2. f.packet \in Packet
  BY FrameFields
<1>3. CASE p = f.packet
  <2>1. Contending(n, p) /\ Type[p] = "gbc" => Owes(n, s, t, p, Uncontended(p), 0)
    BY <1>3, IndicateContends DEF t
  <2>2. Detecting /\ LongLists /\ s.expired = {} =>
          /\ Listed(s, p) => Listed(t, p)
          /\ \/ Owes(n, s, t, p, Pending({p}), 0)
             \/ Owes(n, s, t, p, Pending({p}), 1) /\ ~Listed(s, p) /\ Listed(t, p)
    BY <1>3, IndicateDetects DEF t
  <2>3. Accounted(n, s, t, p, 0)
    BY <1>1, <2>1, <2>2 DEF Accounted
  <2> QED
    BY <2>3 DEF t
<1>4. CASE p # f.packet
  <2>1. ASSUME NEW K, OnlyOf(K, p), Regulated(n, p, K) PROVE Owes(n, s, t, p, K, 0)
    BY <1>4, <2>1, IndicateOthers DEF t
  <2>2. /\ Contending(n, p) => Owes(n, s, t, p, Uncontended(p), 0)
        /\ Detecting => Owes(n, s, t, p, Pending({p}), 0)
    BY <2>1, OnlyOfBoth DEF Regulated
  <2>3. Detecting /\ LongLists /\ s.expired = {} => (Listed(s, p) => Listed(t, p))
    BY IndicateDetects DEF t
  <2>4. Accounted(n, s, t, p, 0)
    BY <1>1, <2>2, <2>3 DEF Accounted
  <2> QED
    BY <2>4 DEF t
<1> QED
  BY <1>3, <1>4

(* A Beacon costs nothing; stored packets are accounted for. *)
LEMMA BeaconAccounted ==
    ASSUME setup \in Setups, NEW n \in Station, NEW R \in SUBSET Packet, NEW s \in States(n, R),
           NEW m \in Station, NEW t, t = IndicateSingleHop(n, s, m)
    PROVE  /\ t \in States(n, R) /\ t.memory = s.memory
           /\ \A p \in Packet : Accounted(n, s, t, p, 0)
<1> DEFINE w == Prepared(n, s)
<1>1. /\ w \in States(n, R) /\ w.memory = s.memory /\ w.expired = {}
      /\ s.expired = {} => w.dpl = s.dpl
  BY PreparedFields
<1>2. ASSUME NEW p \in Packet, NEW K, OnlyOf(K, p), Regulated(n, p, K) PROVE Owes(n, s, w, p, K, 0)
  BY <1>2, PreparedOwes
<1>3. t = UpdateNeighbour(w, m)
  BY DEF IndicateSingleHop
<1> HIDE DEF w
<1>4. /\ t \in States(n, R) /\ SameQueues(w, t) /\ t.memory = w.memory /\ t.dpl = w.dpl
      /\ t.expired = w.expired
  BY <1>1, <1>3, UpdateNeighbourFields
<1>5. ASSUME NEW p \in Packet PROVE Accounted(n, s, t, p, 0)
  <2>1. ASSUME NEW K, OnlyOf(K, p), Regulated(n, p, K) PROVE Owes(n, s, t, p, K, 0)
    <3>1. Owed(t, p, K) = Owed(w, p, K) /\ t.cbf = w.cbf /\ t.counter = w.counter
      BY <1>4, SameOwed DEF SameQueues, SameCbf
    <3>2. Owes(n, s, w, p, K, 0)
      BY <1>2, <2>1
    <3> QED
      BY <3>1, <3>2 DEF Owes, Steady
  <2>2. /\ Contending(n, p) => Owes(n, s, t, p, Uncontended(p), 0)
        /\ Detecting => Owes(n, s, t, p, Pending({p}), 0)
    BY <2>1, OnlyOfBoth DEF Regulated
  <2>3. t.expired = {} /\ (s.expired = {} => (Listed(s, p) => Listed(t, p)))
    BY <1>1, <1>4 DEF Listed
  <2> QED
    BY <2>2, <2>3 DEF Accounted
<1> QED
  BY <1>1, <1>4, <1>5

(* A part of a queue has no more elements of K than the queue. *)
LEMMA KeptFewer ==
    ASSUME NEW S, NEW s \in Seq(S), NEW t \in Seq(S), Thins(t, s), NEW K
    PROVE  Len(Kept(t, K)) <= Len(Kept(s, K))
<1> DEFINE v == Kept(t, K)
           w == Kept(s, K)
<1>1. v \in Seq(S) /\ w \in Seq(S)
  BY KeptPicks
<1>2. PICK g : Picks(g, v, t, Len(t), K)
  BY KeptPicks
<1>3. PICK h : Picks(h, w, s, Len(s), K)
  BY KeptPicks
<1> HIDE DEF v, w
<1>4. PICK e \in [1 .. Len(t) -> 1 .. Len(s)] :
        /\ \A j \in 1 .. Len(t) : t[j] = s[e[j]]
        /\ \A i, j \in 1 .. Len(t) : e[i] = e[j] => i = j
  BY DEF Thins
<1> DEFINE V == 1 .. Len(v)
           W == 1 .. Len(w)
           x == [j \in V |-> CHOOSE i \in W : h[i] = e[g[j]]]
<1>5. ASSUME NEW j \in V PROVE /\ g[j] \in 1 .. Len(t) /\ \E i \in W : h[i] = e[g[j]]
                               /\ x[j] \in W /\ h[x[j]] = e[g[j]]
  <2>1. g[j] \in 1 .. Len(t) /\ t[g[j]] \in K
    BY <1>2 DEF Picks
  <2>2. e[g[j]] \in 1 .. Len(s) /\ s[e[g[j]]] \in K
    BY <1>4, <2>1
  <2>3. \E i \in W : h[i] = e[g[j]]
    BY <1>3, <2>2 DEF Picks
  <2> QED
    BY <2>1, <2>3
<1>6. x \in [V -> W]
  BY <1>5
<1> HIDE DEF x
<1>7. ASSUME NEW i \in V, NEW j \in V, x[i] = x[j] PROVE i = j
  <2>1. e[g[i]] = e[g[j]] /\ g[i] \in 1 .. Len(t) /\ g[j] \in 1 .. Len(t)
    BY <1>5, <1>7
  <2>2. g[i] = g[j]
    BY <1>4, <2>1
  <2>3. ~(g[i] < g[j]) /\ ~(g[j] < g[i])
    BY <2>1, <2>2
  <2>4. ~(i < j) /\ ~(j < i)
    BY <1>2, <2>3 DEF Picks
  <2> QED
    BY <2>4
<1>8. x \in Injection(V, W)
  BY <1>6, <1>7 DEF Injection, IsInjective
<1>9. IsFiniteSet(W) /\ Cardinality(W) = Len(w) /\ Cardinality(V) = Len(v)
  <2>1. Len(v) \in Nat /\ Len(w) \in Nat
    BY <1>1
  <2> QED
    BY <2>1, IntervalSize
<1>10. Cardinality(V) <= Cardinality(W)
  BY <1>8, <1>9, FS_Injection
<1> QED
  BY <1>9, <1>10 DEF v, w

(* An element is removed from a queue. *)
LEMMA RemoveThins ==
    ASSUME NEW S, NEW s \in Seq(S), NEW k \in 1 .. Len(s)
    PROVE  RemoveAt(s, k) \in Seq(S) /\ Thins(RemoveAt(s, k), s)
<1> DEFINE a == SubSeq(s, 1, k - 1)
           b == SubSeq(s, k + 1, Len(s))
           t == RemoveAt(s, k)
           e == [j \in 1 .. (Len(s) - 1) |-> IF j < k THEN j ELSE j + 1]
<1>1. Len(s) \in Nat /\ k \in Nat /\ 1 <= k /\ k <= Len(s)
  OBVIOUS
<1>2. /\ a \in Seq(S) /\ Len(a) = k - 1 /\ \A j \in 1 .. (k - 1) : a[j] = s[j]
  BY <1>1
<1>3. /\ b \in Seq(S) /\ Len(b) = Len(s) - k /\ \A j \in 1 .. (Len(s) - k) : b[j] = s[k + j]
  BY <1>1, SuffixThins
<1>4. t = a \o b
  BY DEF RemoveAt
<1> HIDE DEF a, b, t
<1>5. /\ t \in Seq(S) /\ Len(t) = Len(s) - 1
      /\ \A j \in 1 .. (Len(s) - 1) : t[j] = IF j < k THEN a[j] ELSE b[j - (k - 1)]
  <2>1. t \in Seq(S) /\ Len(t) = Len(a) + Len(b)
    <3>1. a \in Seq(S) /\ b \in Seq(S)
      BY <1>2, <1>3
    <3> QED
      BY <1>4, <3>1, ConcatProperties
  <2>2. ASSUME NEW j \in 1 .. (Len(a) + Len(b))
        PROVE  t[j] = IF j <= Len(a) THEN a[j] ELSE b[j - Len(a)]
    BY <1>2, <1>3, <1>4
  <2>3. Len(t) = Len(s) - 1
    BY <1>1, <1>2, <1>3, <2>1
  <2>4. ASSUME NEW j \in 1 .. (Len(s) - 1) PROVE t[j] = IF j < k THEN a[j] ELSE b[j - (k - 1)]
    <3>1. j \in 1 .. (Len(a) + Len(b)) /\ (j <= Len(a) <=> j < k)
      BY <1>1, <1>2, <1>3
    <3> QED
      BY <1>2, <2>2, <3>1
  <2> QED
    BY <2>1, <2>3, <2>4
<1>6. \A j \in 1 .. (Len(s) - 1) : t[j] = s[e[j]] /\ e[j] \in 1 .. Len(s)
  <2> SUFFICES ASSUME NEW j \in 1 .. (Len(s) - 1) PROVE t[j] = s[e[j]] /\ e[j] \in 1 .. Len(s)
    OBVIOUS
  <2>1. CASE j < k
    BY <1>1, <1>2, <1>5, <2>1
  <2>2. CASE ~(j < k)
    <3>1. j - (k - 1) \in 1 .. (Len(s) - k) /\ k + (j - (k - 1)) = j + 1
      BY <1>1, <2>2
    <3>2. b[j - (k - 1)] = s[j + 1]
      BY <1>3, <3>1
    <3> QED
      BY <1>1, <1>5, <2>2, <3>2
  <2> QED
    BY <2>1, <2>2
<1>7. \A i, j \in 1 .. (Len(s) - 1) : e[i] = e[j] => i = j
  BY <1>1
<1>8. e \in [1 .. Len(t) -> 1 .. Len(s)]
  BY <1>5, <1>6
<1> HIDE DEF e
<1>9. Thins(t, s)
  <2>1. 1 .. Len(t) = 1 .. (Len(s) - 1)
    BY <1>5
  <2>2. /\ \A j \in 1 .. Len(t) : t[j] = s[e[j]]
        /\ \A i, j \in 1 .. Len(t) : e[i] = e[j] => i = j
    BY <1>6, <1>7, <2>1
  <2> QED
    BY <1>8, <2>2 DEF Thins
<1> QED
  BY <1>5, <1>9 DEF t

(* The CBF buffer drops a packet. *)
LEMMA DropAccounted ==
    ASSUME NEW n \in Station, NEW R \in SUBSET Packet, NEW s \in States(n, R), NEW p \in R,
           IsBuffered(s, p), NEW t, t = CbfRemove(s, p)
    PROVE  /\ t \in States(n, R) /\ SameTable(s, t)
           /\ \A o \in Packet : Accounted(n, s, t, o, 0)
<1>1. /\ t \in States(n, R) /\ Moves(s, t, p) /\ t.scf = s.scf /\ t.out = s.out
      /\ ~IsBuffered(t, p) /\ (CounterKind = "fading" => t.counter[p] = s.counter[p])
  BY RemoveMoves
<1>2. ASSUME Contending(n, p) PROVE Owes(n, s, t, p, Uncontended(p), 0)
  <2>1. t.counter[p] = s.counter[p] /\ ~Detecting
    BY <1>1, <1>2 DEF Contending, Detecting
  <2>2. Owed(t, p, Uncontended(p)) <= Owed(s, p, Uncontended(p))
    BY <1>1, <2>1, CbfOwes
  <2>3. Owed(s, p, Uncontended(p)) \in Int
    BY OwedType
  <2> QED
    BY <2>1, <2>2, <2>3 DEF Owes, Steady
<1>3. Accounted(n, s, t, p, 0)
  BY <1>2 DEF Accounted
<1>4. ASSUME NEW o \in Packet PROVE Accounted(n, s, t, o, 0)
  BY <1>1, <1>3, OthersAccounted
<1> QED
  BY <1>1, <1>4 DEF Moves

(* The CBF timer of a packet expires and it is transmitted: the buffer     *)
(* does not owe this transmission any more.                                *)
LEMMA TimeoutAccounted ==
    ASSUME NEW n \in Station, NEW R \in SUBSET Packet, NEW s \in States(n, R), NEW q, q.packet \in R,
           q.hops \in Nat, IsBuffered(s, q.packet),
           NEW t, t = CbfRemove(Transmit(s, q, Broadcast), q.packet)
    PROVE  /\ t \in States(n, R) /\ SameTable(s, t)
           /\ \A o \in Packet : Accounted(n, s, t, o, 0)
<1> DEFINE p == q.packet
           u == Transmit(s, q, Broadcast)
<1>1. Towards(n, p, Broadcast)
  BY DEF Towards
<1>2. /\ u \in States(n, R) /\ SameTable(s, u) /\ SameCbf(s, u) /\ u.scf = s.scf /\ SendsOne(s, u, p)
  BY <1>1, TransmitMoves
<1>3. t = CbfRemove(u, p) /\ p \in R /\ p \in Packet
  OBVIOUS
<1> HIDE DEF u, p
<1>4. /\ t \in States(n, R) /\ Moves(u, t, p) /\ t.scf = u.scf /\ t.out = u.out
      /\ ~IsBuffered(t, p) /\ (CounterKind = "fading" => t.counter[p] = u.counter[p])
  BY <1>2, <1>3, RemoveMoves
<1>5. IsBuffered(s, p)
  BY DEF p
<1>6. ASSUME Contending(n, p) PROVE Owes(n, s, t, p, Uncontended(p), 0)
  <2> DEFINE K == Uncontended(p)
  <2> HIDE DEF K
  <2>1. Recorded(t, p) = Recorded(u, p) /\ ~Detecting
    BY <1>2, <1>4, <1>6 DEF Contending, Detecting, SameCbf, Recorded
  <2>2. Owed(u, p, K) = Owed(s, p, K) + 1
    BY <1>2, <1>3, OwedSends
  <2>3. Buffered(u, p) = 1 /\ Buffered(t, p) = 0 /\ Outs(t, p) = Outs(u, p) /\ Waiting(t, K) = Waiting(u, K)
    BY <1>2, <1>4, <1>5 DEF Buffered, IsBuffered, SameCbf, Outs, Waiting
  <2>4. /\ Outs(u, p) \in Nat /\ Waiting(u, K) \in Nat /\ Recorded(u, p) \in Nat
        /\ Owed(u, p, K) \in Int /\ Owed(s, p, K) \in Int
    BY <1>2, <1>3, OwedType
  <2>5. Owed(t, p, K) = Owed(u, p, K) - 1
    BY <2>1, <2>3, <2>4 DEF Owed
  <2>6. Owes(n, s, t, p, K, 0)
    BY <2>1, <2>2, <2>4, <2>5 DEF Owes, Steady
  <2> QED
    BY <2>6 DEF K
<1>7. Accounted(n, s, t, p, 0)
  BY <1>5, <1>6 DEF Accounted
<1>8. SameTable(s, t)
  BY <1>2, <1>4 DEF Moves, SameTable
<1>9. Moves(s, t, p)
  <2>1. t.out = u.out /\ \E x \in Sending({p}) : u.out = Append(s.out, x)
    BY <1>2, <1>4 DEF SendsOne
  <2>2. \A o \in Packet \ {p} : t.cbf[o] = s.cbf[o] /\ t.counter[o] = s.counter[o]
    BY <1>2, <1>4 DEF Moves, SameCbf
  <2> QED
    BY <1>2, <1>4, <1>8, <2>1, <2>2 DEF Moves
<1>10. ASSUME NEW o \in Packet PROVE Accounted(n, s, t, o, 0)
  BY <1>3, <1>7, <1>9, OthersAccounted
<1> QED
  BY <1>4, <1>8, <1>10

(* The broadcast forwarding buffer drops a packet. *)
LEMMA ScfDropAccounted ==
    ASSUME NEW n \in Station, NEW R \in SUBSET Packet, NEW s \in States(n, R),
           NEW x \in Seq(Carriable(R)), Thins(x, s.scf), NEW t, t = [s EXCEPT !.scf = x]
    PROVE  /\ t \in States(n, R) /\ SameTable(s, t)
           /\ \A o \in Packet : Accounted(n, s, t, o, 0)
<1>1. /\ t \in States(n, R) /\ SameTable(s, t) /\ SameCbf(s, t) /\ t.scf = x /\ t.out = s.out
  BY SetScf
<1>2. ASSUME NEW p \in Packet, NEW K PROVE Owes(n, s, t, p, K, 0)
  <2> DEFINE l == s.scf
  <2>1. l \in Seq(Carriable(R)) /\ Thins(x, l)
    BY StateFields
  <2> HIDE DEF l
  <2>2. Len(Kept(x, K)) <= Len(Kept(l, K))
    BY <2>1, KeptFewer
  <2>3. Waiting(t, K) <= Waiting(s, K)
    BY <1>1, <2>2 DEF Waiting, l
  <2>4. /\ Buffered(t, p) = Buffered(s, p) /\ Outs(t, p) = Outs(s, p) /\ t.counter = s.counter
        /\ t.cbf = s.cbf /\ Recorded(t, p) = Recorded(s, p)
    BY <1>1 DEF Buffered, IsBuffered, SameCbf, Outs, Recorded
  <2>5. /\ Outs(s, p) \in Nat /\ Buffered(s, p) \in {0, 1} /\ Waiting(s, K) \in Nat /\ Recorded(s, p) \in Nat
        /\ Waiting(t, K) \in Nat
    BY <1>1, OwedType
  <2>6. Owed(t, p, K) <= Owed(s, p, K) + 0
    BY <2>3, <2>4, <2>5 DEF Owed
  <2> QED
    BY <2>4, <2>6 DEF Owes, Steady
<1>3. ASSUME NEW p \in Packet PROVE Accounted(n, s, t, p, 0)
  BY <1>1, <1>2 DEF Accounted, SameTable, Listed
<1> QED
  BY <1>1, <1>3

-----------------------------------------------------------------------------
(* The steps of the network *)

(* The steps that change one station.  Q: the packets requested by then. *)
StationStep(n, t, Q) ==
    /\ t \in States(n, Q) /\ Ends(n, t)
    /\ UNCHANGED <<setup, fadings>> /\ requested' = Q
    /\ Q \in SUBSET Packet /\ requested \subseteq Q /\ IsFiniteSet(Q) /\ Cardinality(Q) <= MaxRequests

(* One of them preserves the invariant. *)
LEMMA StationStepInv ==
    ASSUME NetworkInv, NEW n \in Router, NEW Q \in SUBSET Packet, NEW t \in States(n, Q),
           UNCHANGED setup, requested' = Q, requested \subseteq Q, IsFiniteSet(Q),
           Cardinality(Q) <= MaxRequests, NEW rest \in Air(Q), EndStep(n, t, rest),
           passed' \in [Router -> [Packet -> Nat]], UNCHANGED fadings
    PROVE  NetworkInv' /\ StationStep(n, t, Q)
<1>1. NetworkInv'
  BY EndsInv
<1>2. Ends(n, t)
  BY EndStepEnds
<1> QED
  BY <1>1, <1>2 DEF StationStep

(* The facts about one station that the actions need *)
LEMMA NetworkFields ==
    ASSUME NetworkInv, NEW n \in Router
    PROVE  /\ setup \in Setups /\ n \in Station /\ station[n] \in States(n, requested)
           /\ station[n].out = <<>> /\ requested \in SUBSET Packet /\ IsFiniteSet(requested)
           /\ Cardinality(requested) <= MaxRequests /\ air \in Air(requested)
           /\ passed \in [Router -> [Packet -> Nat]]
  BY NetworkAssumption DEF NetworkInv

(* The packet at its source *)
OwnCopy(p) == [packet |-> p, hops |-> HopLimit, ll |-> Local]

(* One more packet is requested. *)
LEMMA OneMore ==
    ASSUME NetworkInv, NEW p \in Packet, Cardinality(requested) < MaxRequests,
           NEW Q, Q = requested \cup {p}
    PROVE  /\ Q \in SUBSET Packet /\ requested \subseteq Q /\ IsFiniteSet(Q) /\ Cardinality(Q) <= MaxRequests
           /\ p \in Q /\ air \in Air(Q) /\ \A n \in Router : station[n] \in States(n, Q)
<1>1. /\ requested \in SUBSET Packet /\ IsFiniteSet(requested) /\ air \in Air(requested)
      /\ \A n \in Router : station[n] \in States(n, requested)
  BY DEF NetworkInv
<1>2. Cardinality(requested) \in Nat /\ MaxRequests \in Nat
  BY <1>1, FS_CardinalityType, NetworkAssumption
<1>3. IsFiniteSet(Q) /\ Cardinality(Q) <= MaxRequests
  BY <1>1, <1>2, FS_AddElement
<1>4. Q \in SUBSET Packet /\ requested \subseteq Q /\ p \in Q
  BY <1>1
<1>5. air \in Air(Q) /\ \A n \in Router : station[n] \in States(n, Q)
  BY <1>1, <1>4, MorePackets
<1> QED
  BY <1>3, <1>4, <1>5

(* RequestGbc *)
LEMMA RequestStep ==
    ASSUME NetworkInv, NEW p \in Packet, RequestGbc(p)
    PROVE  /\ NetworkInv' /\ passed' = passed /\ Source[p] \in Router /\ p \notin requested
           /\ \E t : /\ StationStep(Source[p], t, requested \cup {p})
                     /\ SameTable(station[Source[p]], t)
                     /\ Accounted(Source[p], station[Source[p]], t, p, 1)
                     /\ \A o \in Packet : o # p => Accounted(Source[p], station[Source[p]], t, o, 0)
<1> DEFINE n == Source[p]
           Q == requested \cup {p}
           s == station[n]
           q == OwnCopy(p)
           kind == "forwarding"
           t == StoreOrProcess(n, s, kind, q)
<1>1. /\ p \notin requested /\ Cardinality(requested) < MaxRequests /\ n \in Router
      /\ EndStep(n, t, air) /\ requested' = Q /\ UNCHANGED <<setup, passed, fadings>>
  BY DEF RequestGbc, OwnCopy
<1>2. kind \in Kinds /\ q.packet = p /\ q.hops \in Nat /\ q.ll \in LinkLayer
  BY NetworkAssumption DEF Kinds, OwnCopy, LinkLayer
<1>3. /\ setup \in Setups /\ n \in Station /\ passed \in [Router -> [Packet -> Nat]]
  BY <1>1, NetworkFields
<1> HIDE DEF n, kind, q
<1>4. /\ Q \in SUBSET Packet /\ requested \subseteq Q /\ IsFiniteSet(Q) /\ Cardinality(Q) <= MaxRequests
      /\ p \in Q /\ air \in Air(Q) /\ s \in States(n, Q)
  BY <1>1, OneMore
<1> HIDE DEF Q, s
<1>5. AtHand(q, Q)
  BY <1>2, <1>4 DEF AtHand
<1>6. /\ t \in States(n, Q) /\ SameTable(s, t) /\ Accounted(n, s, t, q.packet, 1)
      /\ \A o \in Packet : o # q.packet => Accounted(n, s, t, o, 0)
  BY <1>2, <1>3, <1>4, <1>5, RequestAccounted
<1> HIDE DEF t
<1>7. NetworkInv' /\ StationStep(n, t, Q)
  BY <1>1, <1>3, <1>4, <1>6, StationStepInv
<1> QED
  BY <1>1, <1>2, <1>6, <1>7 DEF n, s, Q

(* HearBeacon *)
LEMMA BeaconStep ==
    ASSUME NetworkInv, NEW n \in Router, NEW m \in Station, HearBeacon(n, m)
    PROVE  /\ NetworkInv' /\ passed' = passed
           /\ \E t : /\ StationStep(n, t, requested) /\ t.memory = station[n].memory
                     /\ \A o \in Packet : Accounted(n, station[n], t, o, 0)
<1> DEFINE s == station[n]
           R == requested
           t == IndicateSingleHop(n, s, m)
<1>1. EndStep(n, t, air) /\ requested' = R /\ UNCHANGED <<setup, passed, fadings>>
  BY DEF HearBeacon
<1>2. /\ setup \in Setups /\ n \in Station /\ s \in States(n, R) /\ R \in SUBSET Packet
      /\ IsFiniteSet(R) /\ Cardinality(R) <= MaxRequests /\ air \in Air(R)
      /\ passed \in [Router -> [Packet -> Nat]]
  BY NetworkFields
<1> HIDE DEF R, s
<1>3. /\ t \in States(n, R) /\ t.memory = s.memory
      /\ \A o \in Packet : Accounted(n, s, t, o, 0)
  BY <1>2, BeaconAccounted
<1> HIDE DEF t
<1>4. requested \subseteq R
  BY DEF R
<1>5. NetworkInv' /\ StationStep(n, t, R)
  BY <1>1, <1>2, <1>3, <1>4, StationStepInv
<1> QED
  BY <1>1, <1>3, <1>5 DEF s, R

(* CbfTimeout *)
LEMMA TimeoutStep ==
    ASSUME NetworkInv, NEW n \in Router, NEW p \in Packet, CbfTimeout(n, p)
    PROVE  /\ NetworkInv' /\ passed' = passed
           /\ \E t : /\ StationStep(n, t, requested) /\ t.memory = station[n].memory
                     /\ \A o \in Packet : Accounted(n, station[n], t, o, 0)
<1> DEFINE s == station[n]
           R == requested
           q == [packet |-> p, hops |-> s.cbf[p].hops]
           t == CbfRemove(IF s.cbf[p].noop THEN s ELSE Transmit(s, q, Broadcast), p)
<1>1. IsBuffered(s, p) /\ EndStep(n, t, air) /\ requested' = R /\ UNCHANGED <<setup, passed, fadings>>
  BY DEF CbfTimeout
<1>2. /\ setup \in Setups /\ n \in Station /\ s \in States(n, R) /\ R \in SUBSET Packet
      /\ IsFiniteSet(R) /\ Cardinality(R) <= MaxRequests /\ air \in Air(R)
      /\ passed \in [Router -> [Packet -> Nat]]
  BY NetworkFields
<1> HIDE DEF R, s
<1>3. q.packet = p /\ q.hops \in Nat /\ p \in R
  <2>1. s.cbf \in [Packet -> CbfEntry] /\ (s.cbf[p] # NotBuffered => p \in R)
    BY <1>2, StateFields
  <2>2. s.cbf[p] \in CbfEntry /\ s.cbf[p].hops \in Nat
    BY <2>1 DEF CbfEntry
  <2> QED
    BY <1>1, <2>1, <2>2 DEF IsBuffered
<1> HIDE DEF q
<1>4. /\ t \in States(n, R) /\ SameTable(s, t)
      /\ \A o \in Packet : Accounted(n, s, t, o, 0)
  <2>1. CASE s.cbf[p].noop
    <3>1. t = CbfRemove(s, p)
      BY <2>1
    <3> HIDE DEF t
    <3> QED
      BY <1>1, <1>2, <1>3, <3>1, DropAccounted
  <2>2. CASE ~s.cbf[p].noop
    <3>1. t = CbfRemove(Transmit(s, q, Broadcast), q.packet)
      BY <1>3, <2>2
    <3> HIDE DEF t
    <3> QED
      BY <1>1, <1>2, <1>3, <3>1, TimeoutAccounted
  <2> QED
    BY <2>1, <2>2
<1> HIDE DEF t
<1>5. requested \subseteq R
  BY DEF R
<1>6. NetworkInv' /\ StationStep(n, t, R)
  BY <1>1, <1>2, <1>4, <1>5, StationStepInv
<1> QED
  BY <1>1, <1>4, <1>6 DEF s, R, SameTable

(* CbfDrop *)
LEMMA DropStep ==
    ASSUME NetworkInv, NEW n \in Router, NEW p \in Packet, CbfDrop(n, p)
    PROVE  /\ NetworkInv' /\ passed' = passed
           /\ \E t : /\ StationStep(n, t, requested) /\ t.memory = station[n].memory
                     /\ \A o \in Packet : Accounted(n, station[n], t, o, 0)
<1> DEFINE s == station[n]
           R == requested
           t == CbfRemove(s, p)
<1>1. IsBuffered(s, p) /\ EndStep(n, t, air) /\ requested' = R /\ UNCHANGED <<setup, passed, fadings>>
  BY DEF CbfDrop
<1>2. /\ setup \in Setups /\ n \in Station /\ s \in States(n, R) /\ R \in SUBSET Packet
      /\ IsFiniteSet(R) /\ Cardinality(R) <= MaxRequests /\ air \in Air(R)
      /\ passed \in [Router -> [Packet -> Nat]]
  BY NetworkFields
<1> HIDE DEF R, s
<1>3. p \in R
  BY <1>1, <1>2, StateFields DEF IsBuffered
<1>4. /\ t \in States(n, R) /\ SameTable(s, t)
      /\ \A o \in Packet : Accounted(n, s, t, o, 0)
  BY <1>1, <1>2, <1>3, DropAccounted
<1> HIDE DEF t
<1>5. requested \subseteq R
  BY DEF R
<1>6. NetworkInv' /\ StationStep(n, t, R)
  BY <1>1, <1>2, <1>4, <1>5, StationStepInv
<1> QED
  BY <1>1, <1>4, <1>6 DEF s, R, SameTable

(* ScfDrop *)
LEMMA ScfDropStep ==
    ASSUME NetworkInv, NEW n \in Router, NEW k \in DOMAIN station[n].scf, ScfDrop(n, k)
    PROVE  /\ NetworkInv' /\ passed' = passed
           /\ \E t : /\ StationStep(n, t, requested) /\ t.memory = station[n].memory
                     /\ \A o \in Packet : Accounted(n, station[n], t, o, 0)
<1> DEFINE s == station[n]
           R == requested
           l == s.scf
           x == RemoveAt(l, k)
           t == [s EXCEPT !.scf = x]
<1>1. EndStep(n, t, air) /\ requested' = R /\ UNCHANGED <<setup, passed, fadings>>
  BY DEF ScfDrop
<1>2. /\ setup \in Setups /\ n \in Station /\ s \in States(n, R) /\ R \in SUBSET Packet
      /\ IsFiniteSet(R) /\ Cardinality(R) <= MaxRequests /\ air \in Air(R)
      /\ passed \in [Router -> [Packet -> Nat]]
  BY NetworkFields
<1>3. k \in DOMAIN l
  OBVIOUS
<1> HIDE DEF R, s
<1>4. l \in Seq(Carriable(R))
  BY <1>2, StateFields
<1>5. k \in 1 .. Len(l)
  BY <1>3, <1>4
<1> HIDE DEF l
<1>6. x \in Seq(Carriable(R)) /\ Thins(x, l)
  BY <1>4, <1>5, RemoveThins
<1> HIDE DEF x
<1>7. Thins(x, s.scf)
  BY <1>6 DEF l
<1>8. /\ t \in States(n, R) /\ SameTable(s, t)
      /\ \A o \in Packet : Accounted(n, s, t, o, 0)
  BY <1>2, <1>6, <1>7, ScfDropAccounted
<1> HIDE DEF t
<1>9. requested \subseteq R
  BY DEF R
<1>10. NetworkInv' /\ StationStep(n, t, R)
  BY <1>1, <1>2, <1>8, <1>9, StationStepInv
<1> QED
  BY <1>1, <1>8, <1>10 DEF s, R, SameTable

(* Room for all packets: the lists fit. *)
LEMMA ListsFit ==
    ASSUME NetworkInv
    PROVE  /\ LongLists => Fits(requested, DplLength)
           /\ 0 < MemoryCapacity /\ MaxRequests <= MemoryCapacity => Fits(requested, MemoryCapacity)
<1>1. IsFiniteSet(requested) /\ Cardinality(requested) <= MaxRequests /\ Cardinality(requested) \in Nat
  BY FS_CardinalityType DEF NetworkInv
<1>2. MaxRequests \in Nat /\ DplLength \in Nat /\ MemoryCapacity \in Nat
  BY NetworkAssumption, MibAssumption
<1> QED
  BY <1>1, <1>2 DEF Fits, LongLists

(* One more packet is passed up. *)
PassesUp(n, p, up) == passed' = [passed EXCEPT ![n][p] = Count(@, IF up THEN 1 ELSE 0)]

(* Receive *)
LEMMA ReceiveStep ==
    ASSUME NetworkInv, NEW f \in BagToSet(air), Receive(f)
    PROVE  /\ NetworkInv' /\ f \in Frames(requested) /\ f.to \in Router /\ f.packet \in Packet
           /\ \E stop, r : /\ r = Indicate(f.to, station[f.to], f, stop)
                           /\ StationStep(f.to, r.state, requested)
                           /\ PassesUp(f.to, f.packet, r.up)
                           /\ \A o \in Packet : Accounted(f.to, station[f.to], r.state, o, 0)
<1> DEFINE n == f.to
           s == station[n]
           R == requested
<1>1. f \in Frames(R)
  BY AirFrames DEF NetworkInv
<1>2. R \in SUBSET Packet
  BY DEF NetworkInv
<1>3. n \in Router /\ f.packet \in Packet
  BY <1>1, <1>2, FrameFields
<1> HIDE DEF n
<1>4. /\ setup \in Setups /\ n \in Station /\ s \in States(n, R) /\ R \in SUBSET Packet
      /\ IsFiniteSet(R) /\ Cardinality(R) <= MaxRequests /\ air \in Air(R)
      /\ passed \in [Router -> [Packet -> Nat]]
  BY <1>3, NetworkFields
<1>5. LongLists => Fits(R, DplLength)
  BY ListsFit
<1>6. PICK stop : \E r \in {Indicate(n, s, f, stop)} :
          /\ EndStep(n, r.state, air (-) SetToBag({f}))
          /\ PassesUp(n, f.packet, r.up)
          /\ UNCHANGED <<setup, requested, fadings>>
  BY DEF Receive, PassesUp, n
<1> HIDE DEF s
<1>7. PICK r : /\ r = Indicate(n, s, f, stop) /\ EndStep(n, r.state, air (-) SetToBag({f}))
               /\ PassesUp(n, f.packet, r.up) /\ UNCHANGED <<setup, requested, fadings>>
  BY <1>6
<1>8. requested' = R /\ requested \subseteq R
  BY <1>7
<1> HIDE DEF R
<1> DEFINE t == r.state
           rest == air (-) SetToBag({f})
<1>9. t \in States(n, R) /\ r.up \in BOOLEAN
  BY <1>1, <1>4, <1>7, IndicateFields
<1>10. ASSUME NEW o \in Packet PROVE Accounted(n, s, t, o, 0)
  BY <1>1, <1>4, <1>5, <1>7, ReceiveAccounted
<1>11. rest \in Air(R)
  BY <1>4, AirMinus
<1>12. passed' \in [Router -> [Packet -> Nat]]
  <2> DEFINE c == passed[n][f.packet]
             d == IF r.up THEN 1 ELSE 0
  <2>1. c \in Nat /\ d \in Nat
    BY <1>3, <1>4
  <2>2. passed' = [passed EXCEPT ![n][f.packet] = Count(c, d)]
    BY <1>7 DEF PassesUp
  <2> HIDE DEF c, d
  <2>3. Count(c, d) \in Nat
    BY <2>1, CountType
  <2> QED
    BY <1>3, <1>4, <2>2, <2>3
<1>13. EndStep(n, t, rest) /\ PassesUp(n, f.packet, r.up) /\ UNCHANGED <<setup, fadings>>
  BY <1>7
<1> HIDE DEF t, rest
<1>14. NetworkInv' /\ StationStep(n, t, R)
  BY <1>3, <1>4, <1>8, <1>9, <1>11, <1>12, <1>13, StationStepInv
<1> QED
  BY <1>1, <1>3, <1>7, <1>10, <1>14 DEF t, s, n, R

(* Nothing is counted at the end of a step without transmissions. *)
LEMMA EndsQuietly ==
    ASSUME NetworkInv, NEW n \in Router, NEW t \in StationState, t.out = <<>>,
           station' = [station EXCEPT ![n] = t], sent' = sent
    PROVE  Ends(n, t)
<1>1. Sent(t) = t
  BY DEF Sent, StationState
<1>2. sent \in [Router -> [Packet -> Nat]] /\ \A p \in Packet : sent[n][p] <= CountBound
  BY DEF NetworkInv
<1>3. ASSUME NEW p \in Packet PROVE Count(sent[n][p], Outs(t, p)) = sent[n][p]
  <2>1. Outs(t, p) = 0
    BY KeptNone DEF Outs
  <2> DEFINE c == sent[n][p]
  <2>2. c \in Nat /\ c <= CountBound
    BY <1>2
  <2> HIDE DEF c
  <2>3. Count(c, 0) = c
    BY <2>2, CountType
  <2> QED
    BY <2>1, <2>3 DEF c
<1>4. [p \in Packet |-> Count(sent[n][p], Outs(t, p))] = sent[n]
  BY <1>2, <1>3
<1>5. sent' = [sent EXCEPT ![n] = sent[n]]
  BY <1>2
<1> QED
  BY <1>1, <1>4, <1>5 DEF Ends

(* EntryExpires *)
LEMMA ExpireStep ==
    ASSUME NetworkInv, NEW n \in Router, NEW m \in Station, EntryExpires(n, m)
    PROVE  /\ NetworkInv' /\ passed' = passed
           /\ \E t : /\ StationStep(n, t, requested) /\ t.memory = station[n].memory
                     /\ \A o \in Packet : Accounted(n, station[n], t, o, 0)
<1> DEFINE s == station[n]
           R == requested
           e == s.expired \cup {m}
           t == WithTable(s, s.known, s.neighbours, e, s.dpl)
<1>1. /\ EntriesExpire /\ m \in s.known /\ station' = [station EXCEPT ![n] = [s EXCEPT !.expired = e]]
      /\ requested' = R /\ UNCHANGED <<setup, air, requested, passed, sent, fadings>>
  <2>1. station \in [Router -> StationState]
    BY DEF NetworkInv
  <2> QED
    BY <2>1 DEF EntryExpires
<1>2. /\ setup \in Setups /\ n \in Station /\ s \in States(n, R) /\ R \in SUBSET Packet /\ s.out = <<>>
      /\ IsFiniteSet(R) /\ Cardinality(R) <= MaxRequests /\ air \in Air(R)
  BY NetworkFields
<1> HIDE DEF R, s
<1>3. /\ s \in StationState /\ s.known \in SUBSET Station /\ s.neighbours \in SUBSET s.known
      /\ s.expired \subseteq s.known /\ s.dpl \in [Station -> Lists(R)]
  BY <1>2, StateFields
<1>4. e \in SUBSET s.known
  BY <1>1, <1>3
<1>5. t = [s EXCEPT !.expired = e]
  BY <1>3 DEF WithTable, StationState
<1> DEFINE k == s.known
           b == s.neighbours
           d == s.dpl
<1>6. k \in SUBSET Station /\ b \in SUBSET k /\ e \in SUBSET k /\ d \in [Station -> Lists(R)]
  BY <1>3, <1>4
<1>7. t = WithTable(s, k, b, e, d)
  OBVIOUS
<1> HIDE DEF t, e, k, b, d
<1>8. t \in States(n, R) /\ SameQueues(s, t) /\ t.memory = s.memory
  BY <1>2, <1>6, <1>7, SetTable
<1>9. ASSUME NEW o \in Packet PROVE Accounted(n, s, t, o, 0)
  <2>1. ASSUME NEW K PROVE Owes(n, s, t, o, K, 0)
    <3>1. Owed(t, o, K) = Owed(s, o, K) /\ t.cbf = s.cbf /\ t.counter = s.counter
      BY <1>8, SameOwed DEF SameQueues, SameCbf
    <3>2. Owed(s, o, K) \in Int
      BY <1>2, OwedType
    <3> QED
      BY <3>1, <3>2 DEF Owes, Steady
  <2> QED
    BY <1>1, <2>1 DEF Accounted
<1>10. t \in StationState /\ t.out = <<>>
  BY <1>2, <1>8 DEF States, SameQueues
<1>11. station' = [station EXCEPT ![n] = t]
  BY <1>1, <1>5
<1>12. Ends(n, t)
  BY <1>1, <1>10, <1>11, EndsQuietly
<1>13. requested \subseteq R /\ R = requested'
  BY <1>1 DEF R
<1>14. StationStep(n, t, R)
  BY <1>1, <1>2, <1>8, <1>12, <1>13 DEF StationStep
<1>15. NetworkInv'
  <2>1. \A l \in Router : station'[l] \in States(l, R) /\ station'[l].out = <<>>
    <3> SUFFICES ASSUME NEW l \in Router PROVE station'[l] \in States(l, R) /\ station'[l].out = <<>>
      OBVIOUS
    <3>1. station \in [Router -> StationState] /\ station[l] \in States(l, R) /\ station[l].out = <<>>
      BY DEF NetworkInv, R
    <3>2. station'[l] = IF l = n THEN t ELSE station[l]
      BY <1>11, <3>1
    <3> QED
      BY <1>8, <1>10, <3>1, <3>2
  <2>2. station' \in [Router -> StationState]
    BY <1>10, <1>11 DEF NetworkInv
  <2> QED
    BY <1>1, <1>13, <2>1, <2>2 DEF NetworkInv
<1> QED
  BY <1>1, <1>8, <1>9, <1>14, <1>15 DEF s, R

(* The counter of p expires at router n. *)
FadeStep(n, p) ==
    /\ station[n].counter[p] > 0
    /\ station' = [station EXCEPT ![n] = CounterExpired(station[n], p)]
    /\ fadings' = [fadings EXCEPT ![n][p] = fadings[n][p] + 1]
    /\ UNCHANGED <<setup, requested, passed, sent>>

(* CounterFades *)
LEMMA FadingStep ==
    ASSUME NetworkInv, NEW n \in Router, NEW p \in Packet, CounterFades(n, p)
    PROVE  NetworkInv' /\ FadeStep(n, p)
<1> DEFINE s == station[n]
           R == requested
           t == CounterExpired(s, p)
<1>1. /\ s.counter[p] > 0 /\ station' = [station EXCEPT ![n] = t]
      /\ fadings' = [fadings EXCEPT ![n][p] = fadings[n][p] + 1]
      /\ requested' = R /\ UNCHANGED <<setup, air, requested, passed, sent>>
  <2>1. station \in [Router -> StationState] /\ fadings \in [Router -> [Packet -> Nat]]
    BY DEF NetworkInv
  <2> QED
    BY <2>1 DEF CounterFades
<1>2. s \in States(n, R) /\ R \in SUBSET Packet /\ s.out = <<>>
  BY NetworkFields
<1>3. FadeStep(n, p)
  BY <1>1 DEF FadeStep
<1> HIDE DEF R, s
<1>4. t \in States(n, R) /\ t.out = <<>>
  BY <1>2, ExpiredMoves
<1> HIDE DEF t
<1>5. t \in StationState
  BY <1>4 DEF States
<1>6. fadings' \in [Router -> [Packet -> Nat]]
  <2> DEFINE k == fadings[n][p] + 1
  <2>1. fadings \in [Router -> [Packet -> Nat]]
    BY DEF NetworkInv
  <2>2. k \in Nat
    BY <2>1
  <2>3. fadings' = [fadings EXCEPT ![n][p] = k]
    BY <1>1
  <2> HIDE DEF k
  <2> QED
    BY <2>1, <2>2, <2>3
<1>7. \A l \in Router : station'[l] \in States(l, R) /\ station'[l].out = <<>>
  <2> SUFFICES ASSUME NEW l \in Router PROVE station'[l] \in States(l, R) /\ station'[l].out = <<>>
    OBVIOUS
  <2>1. station \in [Router -> StationState] /\ station[l] \in States(l, R) /\ station[l].out = <<>>
    BY DEF NetworkInv, R
  <2>2. station'[l] = IF l = n THEN t ELSE station[l]
    BY <1>1, <2>1
  <2> QED
    BY <1>4, <2>1, <2>2
<1>8. station' \in [Router -> StationState]
  BY <1>1, <1>5 DEF NetworkInv
<1>9. NetworkInv'
  BY <1>1, <1>6, <1>7, <1>8 DEF NetworkInv, R
<1> QED
  BY <1>3, <1>9

(* The steps that leave the routers alone *)
QuietStep ==
    /\ UNCHANGED <<setup, station, passed, sent, fadings>>
    /\ \A p \in Packet : Source[p] \in Router => (p \in requested' <=> p \in requested)

(* ForeignPacket *)
LEMMA ForeignStep ==
    ASSUME NetworkInv, NEW p \in Packet, ForeignPacket(p)
    PROVE  NetworkInv' /\ QuietStep
<1> DEFINE Q == requested \cup {p}
           n == Source[p]
           x == [packet |-> p, hops |-> HopLimit, destination |-> Broadcast]
<1>1. /\ Cardinality(requested) < MaxRequests /\ n \notin Router /\ requested' = Q
      /\ air' = air (+) SetToBag(Copies(n, x)) /\ UNCHANGED <<setup, station, passed, sent, fadings>>
  BY DEF ForeignPacket
<1>2. /\ Q \in SUBSET Packet /\ requested \subseteq Q /\ IsFiniteSet(Q) /\ Cardinality(Q) <= MaxRequests
      /\ p \in Q /\ air \in Air(Q) /\ \A m \in Router : station[m] \in States(m, Q)
  BY <1>1, OneMore
<1>3. n \in Station /\ HopLimit \in Nat /\ setup \in Setups
  BY PacketAssumption, NetworkAssumption DEF NetworkInv
<1>4. x \in Progressing(n, Q)
  BY <1>2, <1>3 DEF Progressing, Sending
<1>5. QuietStep
  BY <1>1 DEF QuietStep
<1> HIDE DEF n, x, Q
<1> DEFINE F == Copies(n, x)
<1>6. F \in SUBSET Frames(Q)
  BY <1>2, <1>3, <1>4, CopiesFrames
<1> HIDE DEF F
<1>7. air (+) SetToBag(F) \in Air(Q)
  BY <1>2, <1>6, AirPlus
<1>8. air' \in Air(Q)
  BY <1>1, <1>7 DEF F
<1>9. NetworkInv'
  BY <1>1, <1>2, <1>8 DEF NetworkInv
<1> QED
  BY <1>5, <1>9

(* Lose *)
LEMMA LoseStep ==
    ASSUME NetworkInv, NEW f, Lose(f)
    PROVE  NetworkInv' /\ QuietStep
<1>1. air' = air (-) SetToBag({f}) /\ UNCHANGED <<setup, station, requested, passed, sent, fadings>>
  BY DEF Lose
<1>2. air \in Air(requested)
  BY DEF NetworkInv
<1> DEFINE F == {f}
<1> HIDE DEF F
<1>3. air (-) SetToBag(F) \in Air(requested)
  BY <1>2, AirMinus
<1>4. air' \in Air(requested')
  BY <1>1, <1>3 DEF F
<1> QED
  BY <1>1, <1>4 DEF NetworkInv, QuietStep

(* Nothing happens. *)
LEMMA StutterStep ==
    ASSUME NetworkInv, UNCHANGED vars
    PROVE  NetworkInv' /\ QuietStep
  BY DEF vars, NetworkInv, QuietStep

(* The steps of the network: of a router that is not asked to send, of one *)
(* that is, of one that receives a frame, of one whose counter expires,    *)
(* and those without routers.                                              *)
AnyStep ==
    \/ QuietStep
    \/ \E n \in Router, p \in Packet : FadeStep(n, p)
    \/ /\ passed' = passed
       /\ \E n \in Router : \E t : /\ StationStep(n, t, requested) /\ t.memory = station[n].memory
                                   /\ \A o \in Packet : Accounted(n, station[n], t, o, 0)
    \/ /\ passed' = passed
       /\ \E p \in Packet \ requested : \E t :
            /\ Source[p] \in Router /\ StationStep(Source[p], t, requested \cup {p})
            /\ SameTable(station[Source[p]], t)
            /\ Accounted(Source[p], station[Source[p]], t, p, 1)
            /\ \A o \in Packet : o # p => Accounted(Source[p], station[Source[p]], t, o, 0)
    \/ \E f \in Frames(requested) : \E stop, r :
            /\ f.to \in Router /\ f.packet \in Packet /\ r = Indicate(f.to, station[f.to], f, stop)
            /\ StationStep(f.to, r.state, requested) /\ PassesUp(f.to, f.packet, r.up)
            /\ \A o \in Packet : Accounted(f.to, station[f.to], r.state, o, 0)

(* Every step is one of these, and it preserves the invariant. *)
LEMMA NetworkSteps ==
    ASSUME NetworkInv, [Next]_vars
    PROVE  NetworkInv' /\ AnyStep
<1>1. ASSUME NEW p \in Packet, RequestGbc(p) PROVE NetworkInv' /\ AnyStep
  BY <1>1, RequestStep DEF AnyStep
<1>2. ASSUME NEW p \in Packet, ForeignPacket(p) PROVE NetworkInv' /\ AnyStep
  BY <1>2, ForeignStep DEF AnyStep
<1>3. ASSUME NEW f \in BagToSet(air), Receive(f) PROVE NetworkInv' /\ AnyStep
  BY <1>3, ReceiveStep DEF AnyStep
<1>4. ASSUME NEW n \in Router, NEW m \in Station, HearBeacon(n, m) PROVE NetworkInv' /\ AnyStep
  BY <1>4, BeaconStep DEF AnyStep
<1>5. ASSUME NEW n \in Router, NEW p \in Packet, CbfTimeout(n, p) PROVE NetworkInv' /\ AnyStep
  BY <1>5, TimeoutStep DEF AnyStep
<1>6. ASSUME NEW n \in Router, NEW p \in Packet, CbfDrop(n, p) PROVE NetworkInv' /\ AnyStep
  BY <1>6, DropStep DEF AnyStep
<1>7. ASSUME NEW n \in Router, NEW k \in DOMAIN station[n].scf, ScfDrop(n, k) PROVE NetworkInv' /\ AnyStep
  BY <1>7, ScfDropStep DEF AnyStep
<1>8. ASSUME NEW n \in Router, NEW m \in Station, EntryExpires(n, m) PROVE NetworkInv' /\ AnyStep
  BY <1>8, ExpireStep DEF AnyStep
<1>9. ASSUME NEW f \in BagToSet(air), Lose(f) PROVE NetworkInv' /\ AnyStep
  BY <1>9, LoseStep DEF AnyStep
<1>10. ASSUME NEW n \in Router, NEW p \in Packet, CounterFades(n, p) PROVE NetworkInv' /\ AnyStep
  BY <1>10, FadingStep DEF AnyStep
<1>11. CASE UNCHANGED vars
  BY <1>11, StutterStep DEF AnyStep
<1> QED
  BY <1>1, <1>2, <1>3, <1>4, <1>5, <1>6, <1>7, <1>8, <1>9, <1>10, <1>11 DEF Next

(* Unicast frames make progress towards the destination, and the types are *)
(* right, in every network.                                                *)
THEOREM UnicastAlwaysProgresses == Spec => []UnicastProgress
<1>1. Init => NetworkInv
  BY NetworkInitially
<1>2. NetworkInv /\ [Next]_vars => NetworkInv'
  BY NetworkSteps
<1>3. NetworkInv => UnicastProgress
  BY NetworkInvProgress
<1> QED
  BY <1>1, <1>2, <1>3, PTL DEF Spec

-----------------------------------------------------------------------------
(* How often a router transmits a packet *)

(* The transmission that the source of a packet is asked for *)
Own(n, p, R) == IF n = Source[p] /\ p \in R THEN 1 ELSE 0

(* What the counter of a packet had recorded when it expired, f times *)
Faded(f) == MaxCounter * f

(* It is a number. *)
LEMMA FadedType ==
    ASSUME setup \in Setups, NEW f \in Nat
    PROVE  MaxCounter \in Nat /\ Faded(f) \in Nat /\ Faded(f + 1) = Faded(f) + MaxCounter
<1> DEFINE k == MaxCounter
<1>1. k \in Nat
  BY SetupValues
<1> HIDE DEF k
<1>2. k * f \in Nat /\ k * (f + 1) = k * f + k
  BY <1>1
<1> QED
  BY <1>1, <1>2 DEF Faded, k

(* Each transmission of a router that contends has been requested or was   *)
(* recorded by its counter, now or before the counter expired.             *)
(* c: how often it has transmitted packet p, f: how often the counter has  *)
(* expired.                                                                *)
ContentionOK(n, s, p, c, a, f) ==
    Contending(n, p) /\ Type[p] = "gbc" => c + Owed(s, p, Uncontended(p)) <= a + Faded(f)

(* Where duplicates are detected, it has been requested or the packet is   *)
(* listed.                                                                 *)
DetectionOK(s, p, c, a) ==
    Detecting /\ ~EntriesExpire /\ LongLists =>
        /\ s.expired = {} /\ ~IsBuffered(s, p) /\ s.counter[p] = 0
        /\ c + Owed(s, p, Pending({p})) <= a + IF Listed(s, p) THEN 1 ELSE 0

Regular(n, s, p, c, a, f) == ContentionOK(n, s, p, c, a, f) /\ DetectionOK(s, p, c, a)

RegularInv ==
    \A n \in Router, p \in Packet :
        Regular(n, station[n], p, sent[n][p], Own(n, p, requested), fadings[n][p])

(* It is about a state and the setup, which does not change. *)
LEMMA RegularPrimed ==
    ASSUME UNCHANGED setup,
           \A n \in Router, p \in Packet :
                Regular(n, station'[n], p, sent'[n][p], Own(n, p, requested'), fadings'[n][p])
    PROVE  RegularInv'
  BY DEF RegularInv, Regular, ContentionOK, DetectionOK, Contending, Detecting, AreaForwarding,
         NonAreaForwarding, CounterKind, MaxCounter, EntriesExpire, Faded, Owed, Recorded

(* It holds initially. *)
LEMMA RegularInitially == Init => RegularInv
<1> SUFFICES ASSUME Init PROVE RegularInv
  OBVIOUS
<1>1. NetworkInv
  BY NetworkInitially
<1> SUFFICES ASSUME NEW n \in Router, NEW p \in Packet
             PROVE  Regular(n, station[n], p, sent[n][p], Own(n, p, requested), fadings[n][p])
  BY DEF RegularInv
<1> DEFINE s == station[n]
<1>2. s = EmptyStation /\ sent[n][p] = 0 /\ Own(n, p, requested) = 0 /\ fadings[n][p] = 0
  BY DEF Init, Own
<1>3. /\ s.out = <<>> /\ s.scf = <<>> /\ s.cbf[p] = NotBuffered /\ s.counter[p] = 0 /\ s.expired = {}
      /\ s.dpl = [m \in Station |-> <<>>]
  BY <1>2 DEF EmptyStation
<1>4. MaxCounter \in Nat /\ Faded(0) \in Nat
  BY <1>1, FadedType DEF NetworkInv
<1> HIDE DEF s
<1>5. ASSUME NEW K PROVE Owed(s, p, K) = 0
  <2>1. Recorded(s, p) = 0
    BY <1>3, <1>4 DEF Recorded
  <2>2. Outs(s, p) = 0 /\ Buffered(s, p) = 0 /\ Waiting(s, K) = 0
    BY <1>3, KeptNone DEF Outs, Buffered, IsBuffered, Waiting
  <2> QED
    BY <2>1, <2>2 DEF Owed
<1>6. Regular(n, s, p, 0, 0, 0)
  <2>1. ContentionOK(n, s, p, 0, 0, 0)
    BY <1>4, <1>5 DEF ContentionOK
  <2>2. DetectionOK(s, p, 0, 0)
    BY <1>3, <1>5 DEF DetectionOK, IsBuffered
  <2> QED
    BY <2>1, <2>2 DEF Regular
<1> QED
  BY <1>2, <1>6 DEF s

(* A step that is accounted for *)
LEMMA RegularStep ==
    ASSUME NEW n, NEW Q \in SUBSET Packet, NEW s \in States(n, Q), NEW t \in States(n, Q), setup \in Setups,
           NEW p \in Packet, NEW c \in Nat, NEW a \in Int, NEW d \in {0, 1}, NEW f \in Nat,
           Regular(n, s, p, c, a, f), Accounted(n, s, t, p, d)
    PROVE  Regular(n, Sent(t), p, Count(c, Outs(t, p)), a + d, f)
<1> DEFINE u == Sent(t)
           o == Outs(t, p)
           e == Count(c, o)
           Ow(x, K) == Owed(x, p, K)
<1>1. /\ SameTable(t, u) /\ SameCbf(t, u)
      /\ \A K : Owed(u, p, K) = Owed(t, p, K) - o
  BY SentFields
<1>2. o \in Nat /\ e \in Nat /\ e <= c + o
  <2>1. o \in Nat
    BY OwedType
  <2> HIDE DEF o
  <2> QED
    BY <2>1, CountType
<1>3. s.counter[p] \in Nat /\ t.counter[p] \in Nat /\ \A K : Owed(s, p, K) \in Int /\ Owed(t, p, K) \in Int
  BY OwedType
<1> HIDE DEF u, o, e
<1>4. Faded(f) \in Nat
  BY FadedType
<1>5. ASSUME Contending(n, p), Type[p] = "gbc"
      PROVE  e + Owed(u, p, Uncontended(p)) <= (a + d) + Faded(f)
  <2> DEFINE K == Uncontended(p)
             x == Owed(s, p, K)
             y == Owed(t, p, K)
             z == Owed(u, p, K)
             w == Faded(f)
  <2>1. Owes(n, s, t, p, K, d) /\ c + x <= a + w
    BY <1>5 DEF Accounted, Regular, ContentionOK
  <2>2. y <= x + d
    BY <2>1 DEF Owes
  <2>3. x \in Int /\ y \in Int /\ z = y - o /\ w \in Nat
    BY <1>1, <1>3, <1>4
  <2> HIDE DEF x, y, z, w
  <2>4. e + z <= (a + d) + w
    BY <1>2, <2>1, <2>2, <2>3
  <2> QED
    BY <2>4 DEF z, w
<1>6. ASSUME Detecting, ~EntriesExpire, LongLists
      PROVE  /\ u.expired = {} /\ ~IsBuffered(u, p) /\ u.counter[p] = 0
             /\ e + Owed(u, p, Pending({p})) <= (a + d) + IF Listed(u, p) THEN 1 ELSE 0
  <2> DEFINE K == Pending({p})
             x == Owed(s, p, K)
             y == Owed(t, p, K)
             z == Owed(u, p, K)
             h == IF Listed(s, p) THEN 1 ELSE 0
             i == IF Listed(t, p) THEN 1 ELSE 0
             j == IF Listed(u, p) THEN 1 ELSE 0
  <2>1. s.expired = {} /\ ~IsBuffered(s, p) /\ s.counter[p] = 0 /\ c + x <= a + h
    BY <1>6 DEF Regular, DetectionOK
  <2>2. /\ t.expired = {} /\ (Listed(s, p) => Listed(t, p))
        /\ \/ Owes(n, s, t, p, K, d)
           \/ Owes(n, s, t, p, K, 1) /\ ~Listed(s, p) /\ Listed(t, p)
    BY <1>6, <2>1 DEF Accounted
  <2>3. /\ (y <= x + d /\ h <= i) \/ (y <= x + 1 /\ h = 0 /\ i = 1)
        /\ Steady(n, s, t, p)
    <3>1. Listed(s, p) => Listed(t, p)
      BY <2>2
    <3>2. h <= i /\ (~Listed(s, p) => h = 0) /\ (Listed(t, p) => i = 1)
      BY <3>1
    <3> QED
      BY <2>2, <3>2 DEF Owes
  <2>4. ~IsBuffered(t, p) /\ t.counter[p] = 0
    BY <1>6, <2>1, <2>3 DEF Steady, IsBuffered
  <2>5. u.expired = {} /\ ~IsBuffered(u, p) /\ u.counter[p] = 0 /\ (Listed(u, p) <=> Listed(t, p))
    BY <1>1, <2>2, <2>4 DEF SameTable, SameCbf, IsBuffered, Listed
  <2>6. x \in Int /\ y \in Int /\ z = y - o /\ h \in {0, 1} /\ i \in {0, 1} /\ j = i
    BY <1>1, <1>3, <2>5
  <2> HIDE DEF x, y, z, h, i, j
  <2>7. e + z <= (a + d) + j
    BY <1>2, <2>1, <2>3, <2>6
  <2> QED
    BY <2>5, <2>7 DEF z, j
<1>7. Regular(n, u, p, e, a + d, f)
  BY <1>5, <1>6 DEF Regular, ContentionOK, DetectionOK
<1> QED
  BY <1>7 DEF u, o, e

(* What router n is asked to send is all that it may send more. *)
Charged(n, t, Q) ==
    \A p \in Packet :
        /\ Accounted(n, station[n], t, p, Own(n, p, Q) - Own(n, p, requested))
        /\ Own(n, p, Q) - Own(n, p, requested) \in {0, 1}
        /\ \A m \in Router : m # n => Own(m, p, Q) = Own(m, p, requested)

(* A step of a router *)
LEMMA RegularStation ==
    ASSUME NetworkInv, RegularInv, NEW n \in Router, NEW Q, NEW t, StationStep(n, t, Q), Charged(n, t, Q)
    PROVE  RegularInv'
<1>1. /\ t \in States(n, Q) /\ Ends(n, t) /\ UNCHANGED <<setup, fadings>> /\ requested' = Q
      /\ Q \in SUBSET Packet /\ requested \subseteq Q
  BY DEF StationStep
<1>2. /\ station'[n] = Sent(t)
      /\ \A m \in Router : m # n => station'[m] = station[m] /\ sent'[m] = sent[m]
      /\ \A p \in Packet : sent'[n][p] = Count(sent[n][p], Outs(t, p))
  BY <1>1, EndsEffect
<1>3. ASSUME NEW m \in Router, NEW p \in Packet
      PROVE  Regular(m, station'[m], p, sent'[m][p], Own(m, p, requested'), fadings'[m][p])
  <2>1. Regular(m, station[m], p, sent[m][p], Own(m, p, requested), fadings[m][p])
    BY DEF RegularInv
  <2>2. CASE m = n
    <3> DEFINE s == station[n]
               c == sent[n][p]
               a == Own(n, p, requested)
               b == Own(n, p, Q)
               d == b - a
               f == fadings[n][p]
    <3>1. s \in States(n, Q) /\ setup \in Setups
      <4>1. station[n] \in States(n, requested) /\ requested \in SUBSET Packet /\ setup \in Setups
        BY DEF NetworkInv
      <4> QED
        BY <1>1, <4>1, MorePackets
    <3>2. c \in Nat /\ f \in Nat
      BY DEF NetworkInv
    <3>3. a \in Int /\ b \in Int
      BY DEF Own
    <3>4. d \in {0, 1} /\ Accounted(n, s, t, p, d)
      BY DEF Charged
    <3>5. Regular(n, s, p, c, a, f)
      BY <2>1, <2>2
    <3> HIDE DEF s, c, a, b, f
    <3>6. a + d = b
      BY <3>3
    <3> HIDE DEF d
    <3>7. Regular(n, Sent(t), p, Count(c, Outs(t, p)), a + d, f)
      BY <1>1, <3>1, <3>2, <3>3, <3>4, <3>5, RegularStep
    <3> QED
      BY <1>1, <1>2, <2>2, <3>6, <3>7 DEF b, c, f
  <2>3. CASE m # n
    <3>1. Own(m, p, requested') = Own(m, p, requested)
      BY <1>1, <2>3 DEF Charged
    <3> QED
      BY <1>1, <1>2, <2>1, <2>3, <3>1
  <2> QED
    BY <2>2, <2>3
<1> QED
  BY <1>1, <1>3, RegularPrimed

(* What an expired counter had recorded is owed again. *)
LEMMA RegularFading ==
    ASSUME NEW n, NEW Q \in SUBSET Packet, NEW s \in States(n, Q), setup \in Setups,
           NEW p \in Packet, NEW t, t = CounterExpired(s, p), s.counter[p] > 0, NEW o \in Packet,
           NEW c \in Nat, NEW a \in Int, NEW f \in Nat, Regular(n, s, o, c, a, f)
    PROVE  Regular(n, t, o, c, a, IF o = p THEN f + 1 ELSE f)
<1>1. /\ t \in States(n, Q) /\ Moves(s, t, p) /\ t.scf = s.scf /\ t.out = s.out
      /\ t.cbf[p] = s.cbf[p] /\ t.counter[p] = 0
  BY ExpiredMoves
<1>2. CASE o # p
  <2>1. OnlyOf(Pending({o}), o) /\ OnlyOf(Uncontended(o), o)
    BY OnlyOfBoth
  <2>2. /\ t.cbf[o] = s.cbf[o] /\ t.counter[o] = s.counter[o]
        /\ Owed(t, o, Pending({o})) = Owed(s, o, Pending({o}))
        /\ Owed(t, o, Uncontended(o)) = Owed(s, o, Uncontended(o))
    BY <1>1, <1>2, <2>1, OwedOthers
  <2>3. t.expired = s.expired /\ t.dpl = s.dpl
    BY <1>1 DEF Moves, SameTable
  <2> QED
    BY <1>2, <2>2, <2>3 DEF Regular, ContentionOK, DetectionOK, IsBuffered, Listed
<1>3. CASE o = p
  <2>1. DetectionOK(t, p, c, a)
    <3>1. ~(Detecting /\ ~EntriesExpire /\ LongLists)
      BY <1>3 DEF Regular, DetectionOK
    <3> QED
      BY <3>1 DEF DetectionOK
  <2>2. ASSUME Contending(n, p), Type[p] = "gbc"
        PROVE  c + Owed(t, p, Uncontended(p)) <= a + Faded(f + 1)
    <3> DEFINE K == Uncontended(p)
               x == Owed(s, p, K)
               y == Owed(t, p, K)
               w == Faded(f)
               k == MaxCounter
    <3>1. c + x <= a + w
      BY <1>3, <2>2 DEF Regular, ContentionOK
    <3>2. k \in Nat /\ w \in Nat /\ Faded(f + 1) = w + k
      BY FadedType
    <3>3. /\ Outs(s, p) \in Nat /\ Buffered(s, p) \in {0, 1} /\ Waiting(s, K) \in Nat
          /\ Recorded(s, p) \in Nat /\ s.counter[p] \in Nat /\ x \in Int /\ y \in Int
      BY <1>1, OwedType
    <3>4. Recorded(s, p) <= k /\ Recorded(t, p) = 0
      BY <1>1, <3>2, <3>3 DEF Recorded
    <3>5. Outs(t, p) = Outs(s, p) /\ Buffered(t, p) = Buffered(s, p) /\ Waiting(t, K) = Waiting(s, K)
      BY <1>1 DEF Outs, Buffered, IsBuffered, Waiting
    <3>6. y <= x + k
      BY <3>2, <3>3, <3>4, <3>5 DEF Owed
    <3> HIDE DEF x, y, w, k
    <3>7. c + y <= a + (w + k)
      BY <3>1, <3>2, <3>3, <3>6
    <3> QED
      BY <3>2, <3>7 DEF y
  <2>3. ContentionOK(n, t, p, c, a, f + 1)
    BY <2>2 DEF ContentionOK
  <2> QED
    BY <1>3, <2>1, <2>3 DEF Regular
<1> QED
  BY <1>2, <1>3

(* A counter expires. *)
LEMMA RegularFades ==
    ASSUME NetworkInv, RegularInv, NEW n \in Router, NEW p \in Packet, FadeStep(n, p)
    PROVE  RegularInv'
<1> DEFINE t == CounterExpired(station[n], p)
           k == fadings[n][p] + 1
<1>1. /\ station[n].counter[p] > 0 /\ station' = [station EXCEPT ![n] = t]
      /\ fadings' = [fadings EXCEPT ![n][p] = k] /\ UNCHANGED <<setup, requested, sent>>
  BY DEF FadeStep
<1>2. /\ setup \in Setups /\ station \in [Router -> StationState] /\ requested \in SUBSET Packet
      /\ fadings \in [Router -> [Packet -> Nat]] /\ sent \in [Router -> [Packet -> Nat]]
      /\ station[n] \in States(n, requested)
  BY DEF NetworkInv
<1>3. ASSUME NEW m \in Router, NEW o \in Packet
      PROVE  Regular(m, station'[m], o, sent'[m][o], Own(m, o, requested'), fadings'[m][o])
  <2> DEFINE c == sent[m][o]
             a == Own(m, o, requested)
             f == fadings[m][o]
  <2>1. Regular(m, station[m], o, c, a, f)
    BY DEF RegularInv
  <2>2. c \in Nat /\ f \in Nat /\ a \in Int
    BY <1>2 DEF Own
  <2>3. sent'[m][o] = c /\ Own(m, o, requested') = a
    BY <1>1
  <2>4. CASE m = n
    <3>1. Regular(n, t, o, c, a, IF o = p THEN f + 1 ELSE f)
      BY <1>1, <1>2, <2>1, <2>2, <2>4, RegularFading
    <3>2. fadings'[m][o] = (IF o = p THEN f + 1 ELSE f) /\ station'[m] = t
      BY <1>1, <1>2, <2>4
    <3> QED
      BY <2>3, <2>4, <3>1, <3>2
  <2>5. CASE m # n
    <3>1. fadings'[m][o] = f /\ station'[m] = station[m]
      BY <1>1, <1>2, <2>5
    <3> QED
      BY <2>1, <2>3, <3>1
  <2> QED
    BY <2>4, <2>5
<1> QED
  BY <1>1, <1>3, RegularPrimed

(* Every step preserves the invariant. *)
LEMMA RegularNext ==
    ASSUME NetworkInv, RegularInv, AnyStep
    PROVE  RegularInv'
<1>1. \A n, p, R : Own(n, p, R) \in {0, 1} /\ Own(n, p, R) - Own(n, p, R) = 0
  BY DEF Own
<1>2. ASSUME NEW n \in Router, NEW t, StationStep(n, t, requested),
             \A o \in Packet : Accounted(n, station[n], t, o, 0)
      PROVE  RegularInv'
  <2>1. Charged(n, t, requested)
    BY <1>1, <1>2 DEF Charged
  <2> QED
    BY <1>2, <2>1, RegularStation
<1>3. CASE QuietStep
  <2>1. \A n \in Router, p \in Packet : Own(n, p, requested') = Own(n, p, requested)
    BY <1>3 DEF QuietStep, Own
  <2> QED
    BY <1>3, <2>1, RegularPrimed DEF QuietStep, RegularInv
<1>4. ASSUME NEW p \in Packet \ requested, NEW t, Source[p] \in Router,
             StationStep(Source[p], t, requested \cup {p}),
             Accounted(Source[p], station[Source[p]], t, p, 1),
             \A o \in Packet : o # p => Accounted(Source[p], station[Source[p]], t, o, 0)
      PROVE  RegularInv'
  <2> DEFINE n == Source[p]
             Q == requested \cup {p}
  <2>1. ASSUME NEW o \in Packet
        PROVE  /\ Accounted(n, station[n], t, o, Own(n, o, Q) - Own(n, o, requested))
               /\ Own(n, o, Q) - Own(n, o, requested) \in {0, 1}
               /\ \A m \in Router : m # n => Own(m, o, Q) = Own(m, o, requested)
    <3>1. Own(n, o, Q) - Own(n, o, requested) = IF o = p THEN 1 ELSE 0
      BY DEF Own
    <3>2. \A m \in Router : m # n => Own(m, o, Q) = Own(m, o, requested)
      BY DEF Own
    <3> QED
      BY <1>4, <3>1, <3>2
  <2>2. Charged(n, t, Q)
    BY <2>1 DEF Charged
  <2> HIDE DEF Q, n
  <2>3. n \in Router /\ StationStep(n, t, Q)
    BY <1>4 DEF n, Q
  <2> QED
    BY <2>2, <2>3, RegularStation
<1>5. ASSUME NEW n \in Router, NEW p \in Packet, FadeStep(n, p) PROVE RegularInv'
  BY <1>5, RegularFades
<1> QED
  BY <1>2, <1>3, <1>4, <1>5 DEF AnyStep

(* The invariant bounds the number of transmissions. *)
LEMMA RegularBounds ==
    ASSUME NetworkInv, RegularInv
    PROVE  ContentionBounded /\ ForwardsOnce
<1>1. ASSUME NEW n \in Router, NEW p \in Packet
      PROVE  /\ Contending(n, p) /\ Type[p] = "gbc" =>
                  sent[n][p] <= MaxCounter * (1 + fadings[n][p]) + (IF n = Source[p] THEN 1 ELSE 0)
             /\ Detecting /\ ~EntriesExpire /\ LongLists => sent[n][p] <= IF n = Source[p] THEN 2 ELSE 1
  <2> DEFINE s == station[n]
             c == sent[n][p]
             a == Own(n, p, requested)
             f == fadings[n][p]
             k == Recorded(s, p)
             h == IF Listed(s, p) THEN 1 ELSE 0
  <2>1. s \in States(n, requested) /\ requested \in SUBSET Packet /\ c \in Nat /\ f \in Nat /\ setup \in Setups
    BY DEF NetworkInv
  <2>2. /\ MaxCounter \in Nat /\ Faded(f) \in Nat
        /\ MaxCounter * (1 + f) = MaxCounter + Faded(f) /\ MaxCounter * (1 + f) \in Nat
    <3>1. MaxCounter \in Nat /\ Faded(f) \in Nat /\ Faded(f + 1) = Faded(f) + MaxCounter
      BY <2>1, FadedType
    <3>2. 1 + f = f + 1
      BY <2>1
    <3>3. Faded(f + 1) = MaxCounter * (1 + f)
      BY <3>2 DEF Faded
    <3> HIDE DEF f
    <3> QED
      BY <3>1, <3>3
  <2>3. a \in {0, 1} /\ (a = 1 => n = Source[p]) /\ h \in {0, 1}
    BY DEF Own
  <2>4. Regular(n, s, p, c, a, f)
    BY DEF RegularInv
  <2> HIDE DEF s, c, a, f
  <2>5. k \in Nat /\ s.counter[p] \in Nat /\ k <= MaxCounter /\ (s.counter[p] = 0 => k = 0)
        /\ \A K : Owed(s, p, K) \in Int /\ 0 - k <= Owed(s, p, K)
    <3>1. ASSUME NEW K PROVE k \in Nat /\ s.counter[p] \in Nat /\ Owed(s, p, K) \in Int /\ 0 - k <= Owed(s, p, K)
      <4>1. /\ Outs(s, p) \in Nat /\ Buffered(s, p) \in {0, 1} /\ Waiting(s, K) \in Nat
            /\ Recorded(s, p) \in Nat /\ s.counter[p] \in Nat /\ Owed(s, p, K) \in Int
        BY <2>1, OwedType
      <4> QED
        BY <4>1 DEF Owed
    <3>2. s.counter[p] \in Nat
      BY <3>1
    <3>3. k <= MaxCounter /\ (s.counter[p] = 0 => k = 0)
      BY <2>2, <3>2 DEF Recorded
    <3> QED
      BY <3>1, <3>3
  <2>6. ASSUME Contending(n, p), Type[p] = "gbc" PROVE c <= (MaxCounter + Faded(f)) + a
    <3> DEFINE x == Owed(s, p, Uncontended(p))
               w == Faded(f)
               l == MaxCounter
    <3>1. /\ c + x <= a + w /\ x \in Int /\ 0 - k <= x /\ k \in Nat /\ k <= l /\ l \in Nat /\ w \in Nat
          /\ c \in Nat /\ a \in {0, 1}
      BY <2>1, <2>2, <2>3, <2>4, <2>5, <2>6 DEF Regular, ContentionOK
    <3> HIDE DEF x, k, w, l
    <3>2. c <= (l + w) + a
      BY <3>1
    <3> QED
      BY <3>2 DEF l, w
  <2>7. ASSUME Detecting, ~EntriesExpire, LongLists PROVE c <= a + 1
    <3> DEFINE x == Owed(s, p, Pending({p}))
    <3>1. k = 0 /\ c + x <= a + h /\ x \in Int /\ 0 - k <= x
      BY <2>4, <2>5, <2>7 DEF Regular, DetectionOK
    <3> HIDE DEF x, k, h
    <3> QED
      BY <2>1, <2>3, <3>1
  <2>8. ASSUME Contending(n, p), Type[p] = "gbc" PROVE c <= MaxCounter * (1 + f) + (IF n = Source[p] THEN 1 ELSE 0)
    <3> DEFINE l == MaxCounter * (1 + f)
    <3>1. c <= l + a /\ l \in Nat
      BY <2>2, <2>6, <2>8
    <3> HIDE DEF l
    <3>2. c <= l + (IF n = Source[p] THEN 1 ELSE 0)
      BY <2>1, <2>3, <3>1
    <3> QED
      BY <3>2 DEF l
  <2>9. ASSUME Detecting, ~EntriesExpire, LongLists PROVE c <= IF n = Source[p] THEN 2 ELSE 1
    BY <2>1, <2>3, <2>7, <2>9
  <2> QED
    BY <2>8, <2>9 DEF c, f
<1>2. ContentionBounded
  BY <1>1 DEF ContentionBounded, Contending
<1>3. ForwardsOnce
  BY <1>1 DEF ForwardsOnce, Detecting, LongLists
<1> QED
  BY <1>2, <1>3

(* The fading counters bound the broadcasts of a packet by each router in  *)
(* its destination area, also when they expire meanwhile.                  *)
THEOREM ContentionAlwaysBounded == Spec => []ContentionBounded
<1>1. Init => NetworkInv /\ RegularInv
  BY NetworkInitially, RegularInitially
<1>2. NetworkInv /\ RegularInv /\ [Next]_vars => NetworkInv' /\ RegularInv'
  BY NetworkSteps, RegularNext
<1>3. NetworkInv /\ RegularInv => ContentionBounded
  BY RegularBounds
<1> QED
  BY <1>1, <1>2, <1>3, PTL DEF Spec

(* With duplicate packet detection a router forwards a packet once. *)
THEOREM AlwaysForwardsOnce == Spec => []ForwardsOnce
<1>1. Init => NetworkInv /\ RegularInv
  BY NetworkInitially, RegularInitially
<1>2. NetworkInv /\ RegularInv /\ [Next]_vars => NetworkInv' /\ RegularInv'
  BY NetworkSteps, RegularNext
<1>3. NetworkInv /\ RegularInv => ForwardsOnce
  BY RegularBounds
<1> QED
  BY <1>1, <1>2, <1>3, PTL DEF Spec

-----------------------------------------------------------------------------
(* What is passed up *)

(* The memory has room for all packets. *)
LongMemory == 0 < MemoryCapacity /\ MaxRequests <= MemoryCapacity

(* A packet is passed up once, and is remembered by then. *)
PassedInv ==
    LongMemory => \A n \in Router, p \in Packet : Type[p] = "gbc" =>
        passed[n][p] <= 1 /\ (passed[n][p] # 0 => Contains(station[n].memory, p))

(* It holds initially. *)
LEMMA PassedInitially == Init => PassedInv
  BY DEF Init, PassedInv

(* Nothing is passed up and nothing forgotten. *)
LEMMA PassedKept ==
    ASSUME PassedInv, passed' = passed, \A n \in Router : station'[n].memory = station[n].memory
    PROVE  PassedInv'
  BY DEF PassedInv, LongMemory

(* The memory of the routers after a step of one of them *)
LEMMA MemoryAfter ==
    ASSUME NetworkInv, NEW n \in Router, NEW Q, NEW t, StationStep(n, t, Q)
    PROVE  \A m \in Router : station'[m].memory = IF m = n THEN t.memory ELSE station[m].memory
<1>1. t \in States(n, Q) /\ Ends(n, t) /\ Q \in SUBSET Packet
  BY DEF StationStep
<1>2. station'[n] = Sent(t) /\ \A m \in Router : m # n => station'[m] = station[m]
  BY <1>1, EndsEffect
<1>3. Sent(t).memory = t.memory
  BY <1>1, SentFields DEF SameTable
<1> QED
  BY <1>2, <1>3

(* Every step preserves the invariant. *)
LEMMA PassedNext ==
    ASSUME NetworkInv, PassedInv, AnyStep
    PROVE  PassedInv'
<1>1. CASE QuietStep
  BY <1>1, PassedKept DEF QuietStep
<1>2. ASSUME passed' = passed, NEW n \in Router, NEW Q, NEW t, StationStep(n, t, Q),
             t.memory = station[n].memory
      PROVE  PassedInv'
  BY <1>2, MemoryAfter, PassedKept
<1>3. ASSUME NEW f \in Frames(requested), NEW stop, NEW r, f.to \in Router, f.packet \in Packet,
             r = Indicate(f.to, station[f.to], f, stop), StationStep(f.to, r.state, requested),
             PassesUp(f.to, f.packet, r.up)
      PROVE  PassedInv'
  <2> SUFFICES ASSUME LongMemory, NEW m \in Router, NEW o \in Packet, Type[o] = "gbc"
               PROVE  passed'[m][o] <= 1 /\ (passed'[m][o] # 0 => Contains(station'[m].memory, o))
    BY DEF PassedInv, LongMemory
  <2> DEFINE n == f.to
             p == f.packet
             s == station[n]
             t == r.state
             c == passed[n][p]
             d == IF r.up THEN 1 ELSE 0
  <2>1. /\ setup \in Setups /\ n \in Station /\ s \in States(n, requested) /\ requested \in SUBSET Packet
        /\ passed \in [Router -> [Packet -> Nat]]
    BY <1>3, NetworkFields
  <2>2. Fits(requested, MemoryCapacity)
    BY ListsFit DEF LongMemory
  <2>3. passed[m][o] <= 1 /\ (passed[m][o] # 0 => Contains(station[m].memory, o)) /\ passed[m][o] \in Nat
    BY <2>1 DEF PassedInv
  <2>4. \A l \in Router : station'[l].memory = IF l = n THEN t.memory ELSE station[l].memory
    BY <1>3, MemoryAfter
  <2>5. /\ Extends(s.memory, t.memory) /\ r.up \in BOOLEAN
        /\ Type[p] = "gbc" => FirstTime(requested, s, r, p)
    BY <1>3, <2>1, <2>2, IndicateFields
  <2>6. c \in Nat /\ d \in {0, 1} /\ (d = 1 <=> r.up)
    BY <1>3, <2>1, <2>5
  <2>7. passed' = [passed EXCEPT ![n][p] = Count(c, d)]
    BY <1>3 DEF PassesUp
  <2>8. n \in Router /\ p \in Packet
    BY <1>3
  <2> HIDE DEF n, p, s, t, c, d
  <2>9. Count(c, d) \in Nat /\ Count(c, d) <= c + d
    BY <2>6, CountType
  <2>10. CASE m = n /\ o = p
    <3>1. passed'[m][o] = Count(c, d) /\ station'[m].memory = t.memory
      BY <2>1, <2>4, <2>7, <2>8, <2>10
    <3>2. c <= 1 /\ (c # 0 => Contains(s.memory, p))
      BY <2>3, <2>10 DEF c, s
    <3>3. CASE d = 1
      <4>1. ~Contains(s.memory, p) /\ Contains(t.memory, p)
        BY <2>2, <2>5, <2>6, <2>10, <3>3 DEF FirstTime, t
      <4>2. c = 0
        BY <3>2, <4>1
      <4> QED
        BY <2>9, <2>10, <3>1, <3>3, <4>1, <4>2
    <3>4. CASE d = 0
      <4>1. c # 0 => Contains(t.memory, p)
        BY <2>5, <3>2 DEF Extends
      <4> QED
        BY <2>6, <2>9, <2>10, <3>1, <3>2, <3>4, <4>1
    <3> QED
      BY <2>6, <3>3, <3>4
  <2>11. CASE ~(m = n /\ o = p)
    <3>1. passed'[m][o] = passed[m][o]
      BY <2>1, <2>7, <2>8, <2>11
    <3>2. Contains(station[m].memory, o) => Contains(station'[m].memory, o)
      BY <2>4, <2>5 DEF Extends, s
    <3> QED
      BY <2>3, <3>1, <3>2
  <2> QED
    BY <2>10, <2>11
<1>4. ASSUME passed' = passed, NEW p \in Packet, NEW t, Source[p] \in Router,
             StationStep(Source[p], t, requested \cup {p}), SameTable(station[Source[p]], t)
      PROVE  PassedInv'
  BY <1>2, <1>4 DEF SameTable
<1>5. ASSUME NEW n \in Router, NEW p \in Packet, FadeStep(n, p) PROVE PassedInv'
  <2> DEFINE t == CounterExpired(station[n], p)
  <2>1. station \in [Router -> StationState] /\ station[n] \in States(n, requested) /\ requested \in SUBSET Packet
    BY DEF NetworkInv
  <2>2. t.memory = station[n].memory
    <3>1. Moves(station[n], t, p)
      BY <2>1, ExpiredMoves
    <3> HIDE DEF t
    <3> QED
      BY <3>1 DEF Moves, SameTable
  <2>3. passed' = passed /\ station' = [station EXCEPT ![n] = t]
    BY <1>5 DEF FadeStep
  <2> HIDE DEF t
  <2>4. \A m \in Router : station'[m].memory = station[m].memory
    BY <2>1, <2>2, <2>3
  <2> QED
    BY <2>3, <2>4, PassedKept
<1> QED
  BY <1>1, <1>2, <1>3, <1>4, <1>5 DEF AnyStep

(* No router passes up a GBC packet twice. *)
THEOREM AlwaysPassedUpOnce == Spec => []PassedUpOnce
<1>1. Init => NetworkInv /\ PassedInv
  BY NetworkInitially, PassedInitially
<1>2. NetworkInv /\ PassedInv /\ [Next]_vars => NetworkInv' /\ PassedInv'
  BY NetworkSteps, PassedNext
<1>3. NetworkInv /\ PassedInv => PassedUpOnce
  BY DEF PassedInv, PassedUpOnce, LongMemory
<1> QED
  BY <1>1, <1>2, <1>3, PTL DEF Spec
=============================================================================
