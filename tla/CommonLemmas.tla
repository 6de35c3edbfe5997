---------------------------- MODULE CommonLemmas ----------------------------
(***************************************************************************)
(* Facts that the proofs about several components use.                     *)
(*                                                                         *)
(* Induction and recursion: the least number principle, for sets of        *)
(* numbers instead of predicates, from which the existence of functions    *)
(* defined by recursion follows.  Lists: what Kept returns, for every      *)
(* sequence.  Lifetimes: what encoding and reducing does to every          *)
(* duration.                                                               *)
(***************************************************************************)
EXTENDS Lifetime, Subsequences, WellFoundedInduction, SequenceTheorems, TLAPS

(* A set of natural numbers has a least element. *)
LEMMA Least ==
    ASSUME NEW S, S \subseteq Nat, S # {}
    PROVE  \E x \in S : \A y \in S : x <= y
<1> DEFINE R == OpToRel(<, Nat)
<1>1. R = {ss \in Nat \X Nat : ss[1] < ss[2]}
    BY DEF OpToRel
<1>2. IsWellFoundedOn(R, Nat)
    BY NatLessThanWellFounded
<1> HIDE DEF R
<1>3. PICK x \in S : \A y \in S : ~(<<y, x>> \in R)
    BY <1>2, WFMin
<1>4. ASSUME NEW y \in S PROVE x <= y
    <2>1. x \in Nat /\ y \in Nat
        OBVIOUS
    <2>2. y < x => <<y, x>> \in R
        BY <1>1, <2>1
    <2> QED BY <1>3, <2>1, <2>2
<1> QED BY <1>4

(* Induction up to n: the least number that is not in S would have a       *)
(* predecessor in S.                                                       *)
LEMMA Upwards ==
    ASSUME NEW n \in Nat, NEW S, 0 \in S, \A k \in 1 .. n : k - 1 \in S => k \in S
    PROVE  \A k \in 0 .. n : k \in S
<1> DEFINE T == {k \in 0 .. n : k \notin S}
<1> SUFFICES ASSUME T # {} PROVE FALSE
    OBVIOUS
<1>1. T \subseteq Nat
    OBVIOUS
<1>2. PICK x \in T : \A y \in T : x <= y
    BY <1>1, Least
<1>3. x \in 1 .. n /\ x - 1 \in 0 .. n /\ ~(x <= x - 1)
    BY <1>1
<1>4. x - 1 \in S
    BY <1>2, <1>3
<1> QED BY <1>3, <1>4

(* Step leads from a number and a value to the next value in V. *)
IsStep(Step, n, V) == \A k \in 1 .. n : \A v \in V : Step[<<k, v>>] \in V

(* f starts with base and follows Step. *)
Follows(f, Step, n, base) == f[0] = base /\ \A k \in 1 .. n : f[k] = Step[<<k, f[k - 1]>>]

(* A function is defined by its value for zero and the step from each      *)
(* number to the next one.                                                 *)
LEMMA Recursion ==
    ASSUME NEW n \in Nat, NEW V, NEW base \in V, NEW Step,
           IsStep(Step, n, V)
    PROVE  \E f \in [0 .. n -> V] : Follows(f, Step, n, base)
<1> DEFINE Good(m, f) == f[0] = base /\ \A k \in 1 .. m : f[k] = Step[<<k, f[k - 1]>>]
           S == {m \in 0 .. n : \E f \in [0 .. m -> V] : Good(m, f)}
<1>1. 0 \in S
    <2> DEFINE f == [k \in 0 .. 0 |-> base]
    <2>1. f \in [0 .. 0 -> V] /\ Good(0, f)
        OBVIOUS
    <2> HIDE DEF f
    <2> QED BY <2>1
<1>2. ASSUME NEW m \in 1 .. n, m - 1 \in S PROVE m \in S
    <2>1. PICK f \in [0 .. (m - 1) -> V] : Good(m - 1, f)
        BY <1>2
    <2> DEFINE g == [k \in 0 .. m |-> IF k = m THEN Step[<<m, f[m - 1]>>] ELSE f[k]]
    <2>2. f[m - 1] \in V
        OBVIOUS
    <2>3. Step[<<m, f[m - 1]>>] \in V
        BY <2>2 DEF IsStep
    <2>4. \A k \in 0 .. m : k # m => k \in 0 .. (m - 1)
        OBVIOUS
    <2>5. g \in [0 .. m -> V]
        BY <2>3, <2>4
    <2>6. Good(m, g)
        <3>1. g[0] = base
            BY <2>1
        <3>2. ASSUME NEW k \in 1 .. m PROVE g[k] = Step[<<k, g[k - 1]>>]
            <4>1. k \in 0 .. m /\ k - 1 \in 0 .. m /\ k - 1 # m
                OBVIOUS
            <4>2. g[k - 1] = f[k - 1]
                BY <4>1
            <4>3. CASE k = m
                BY <4>1, <4>2, <4>3
            <4>4. CASE k # m
                <5>1. k \in 1 .. (m - 1)
                    BY <4>4
                <5> QED BY <2>1, <4>1, <4>2, <4>4, <5>1
            <4> QED BY <4>3, <4>4
        <3> QED BY <3>1, <3>2
    <2> HIDE DEF g
    <2>7. m \in 0 .. n
        OBVIOUS
    <2> QED BY <2>5, <2>6, <2>7
<1> HIDE DEF S
<1>3. n \in S
    <2>1. \A k \in 0 .. n : k \in S
        BY <1>1, <1>2, Upwards
    <2> QED BY <2>1
<1> QED BY <1>3 DEF S, Follows

(* f and g start with the same value and go on alike. *)
Alike(f, g, n) == f[0] = g[0] /\ \A k \in 1 .. n : f[k - 1] = g[k - 1] => f[k] = g[k]

(* Two such functions are the same. *)
LEMMA SameRecursion ==
    ASSUME NEW n \in Nat, NEW f, NEW g, Alike(f, g, n)
    PROVE  \A k \in 0 .. n : f[k] = g[k]
<1> DEFINE E == {k \in 0 .. n : f[k] = g[k]}
<1>1. 0 \in E
    BY DEF Alike
<1>2. \A k \in 1 .. n : k - 1 \in E => k \in E
    BY DEF Alike
<1> HIDE DEF E
<1>3. \A k \in 0 .. n : k \in E
    BY <1>1, <1>2, Upwards
<1> QED BY <1>3 DEF E

-----------------------------------------------------------------------------
(* The prefixes *)

(* f[k] is what is kept of the first k elements of s. *)
IsKeeping(f, s, K) ==
    /\ DOMAIN f = 0 .. Len(s)
    /\ f[0] = <<>>
    /\ \A k \in 1 .. Len(s) : f[k] = IF s[k] \in K THEN Append(f[k - 1], s[k]) ELSE f[k - 1]

(* Kept is defined for every sequence. *)
LEMMA KeptExists ==
    ASSUME NEW S, NEW s \in Seq(S), NEW K
    PROVE  \E f \in [0 .. Len(s) -> Seq(S)] : IsKeeping(f, s, K) /\ Kept(s, K) = f[Len(s)]
<1> DEFINE n == Len(s)
           Step == [p \in (1 .. n) \X Seq(S) |->
                        IF s[p[1]] \in K THEN Append(p[2], s[p[1]]) ELSE p[2]]
           Body(f) == [k \in 0 .. Len(s) |->
                        IF k = 0 THEN <<>>
                        ELSE IF s[k] \in K THEN Append(f[k - 1], s[k])
                        ELSE f[k - 1]]
<1>1. n \in Nat /\ <<>> \in Seq(S)
    OBVIOUS
<1>2. Step \in [(1 .. n) \X Seq(S) -> Seq(S)]
    OBVIOUS
<1>3. \A k \in 1 .. n, t \in Seq(S) :
        Step[<<k, t>>] = IF s[k] \in K THEN Append(t, s[k]) ELSE t
    OBVIOUS
<1> HIDE DEF Step
<1>4. PICK f \in [0 .. n -> Seq(S)] :
            f[0] = <<>> /\ \A k \in 1 .. n : f[k] = Step[<<k, f[k - 1]>>]
    <2> DEFINE V == Seq(S)
               none == <<>>
    <2>1. none \in V /\ IsStep(Step, n, V)
        BY <1>1, <1>2 DEF IsStep
    <2>2. n \in Nat
        BY <1>1
    <2> HIDE DEF V, none, n
    <2>3. \E f \in [0 .. n -> V] : Follows(f, Step, n, none)
        BY <2>1, <2>2, Recursion
    <2> QED BY <2>3 DEF V, none, Follows
<1>5. \A k \in 1 .. n : f[k - 1] \in Seq(S)
    BY <1>1
<1>6. \A k \in 1 .. n : f[k] = IF s[k] \in K THEN Append(f[k - 1], s[k]) ELSE f[k - 1]
    BY <1>3, <1>4, <1>5
<1>7. f = Body(f)
    <2>1. DOMAIN f = 0 .. n
        OBVIOUS
    <2>2. \A k \in 0 .. n : k = 0 \/ k \in 1 .. n
        BY <1>1
    <2>3. \A k \in 0 .. n : f[k] = Body(f)[k]
        BY <1>4, <1>6, <2>2
    <2> QED BY <2>1, <2>3
<1> DEFINE g == CHOOSE h : h = Body(h)
<1>8. g = Body(g)
    BY <1>7
<1>9. Kept(s, K) = g[Len(s)]
    BY DEF Kept
<1> HIDE DEF g
<1>10. ASSUME NEW k \in 0 .. n PROVE g[k] = f[k]
    <2> DEFINE E == {j \in 0 .. n : g[j] = f[j]}
    <2>1. 0 \in E
        <3>1. 0 \in 0 .. n /\ 0 \in 0 .. Len(s)
            BY <1>1
        <3>2. Body(g)[0] = <<>>
            BY <3>1
        <3>3. g[0] = <<>>
            BY <1>8, <3>2
        <3> QED BY <1>4, <3>1, <3>3
    <2>2. ASSUME NEW j \in 1 .. n, j - 1 \in E PROVE j \in E
        <3>1. g[j - 1] = f[j - 1]
            BY <2>2
        <3>2. j \in 0 .. n /\ j # 0
            BY <1>1
        <3>3. g[j] = IF s[j] \in K THEN Append(g[j - 1], s[j]) ELSE g[j - 1]
            BY <1>8, <3>2
        <3> QED BY <1>6, <3>1, <3>2, <3>3
    <2> HIDE DEF E
    <2>3. k \in E
        BY <1>1, <2>1, <2>2, Upwards
    <2> QED BY <2>3 DEF E
<1>11. Kept(s, K) = f[n]
    <2>1. n \in 0 .. n
        BY <1>1
    <2> QED BY <1>9, <1>10, <2>1
<1> QED BY <1>4, <1>6, <1>11 DEF IsKeeping

-----------------------------------------------------------------------------
(* Positions *)

(* t is the subsequence of the first m elements of s that are in K, and g  *)
(* tells from where they are.                                              *)
Picks(g, t, s, m, K) ==
    /\ g \in [1 .. Len(t) -> 1 .. m]
    /\ \A j \in 1 .. Len(t) : t[j] = s[g[j]] /\ t[j] \in K
    /\ \A i, j \in 1 .. Len(t) : i < j => g[i] < g[j]
    /\ \A i \in 1 .. m : s[i] \in K => \E j \in 1 .. Len(t) : g[j] = i

(* Another element of s is appended to the subsequence, or left out. *)
LEMMA PicksNext ==
    ASSUME NEW S, NEW s \in Seq(S), NEW m \in 1 .. Len(s), NEW K,
           NEW t \in Seq(S), NEW g, Picks(g, t, s, m - 1, K)
    PROVE  \E h : Picks(h, IF s[m] \in K THEN Append(t, s[m]) ELSE t, s, m, K)
<1>1. m \in Nat /\ Len(t) \in Nat /\ s[m] \in S /\ 1 .. (m - 1) \subseteq 1 .. m
    OBVIOUS
<1>2. CASE s[m] \notin K
    <2>1. g \in [1 .. Len(t) -> 1 .. m]
        BY <1>1 DEF Picks
    <2>2. \A i \in 1 .. m : s[i] \in K => i \in 1 .. (m - 1)
        BY <1>1, <1>2
    <2>3. Picks(g, t, s, m, K)
        BY <2>1, <2>2 DEF Picks
    <2> QED BY <1>2, <2>3
<1>3. CASE s[m] \in K
    <2> DEFINE u == Append(t, s[m])
               n == Len(t)
               h == [j \in 1 .. (n + 1) |-> IF j = n + 1 THEN m ELSE g[j]]
    <2>1. n \in Nat /\ Len(u) = n + 1 /\ u[n + 1] = s[m] /\ \A j \in 1 .. n : u[j] = t[j]
        BY <1>1
    <2>2. \A j \in 1 .. (n + 1) : j # n + 1 => j \in 1 .. n
        BY <2>1
    <2>3. \A j \in 1 .. n : j \in 1 .. (n + 1) /\ j # n + 1
        BY <2>1
    <2>4. n + 1 \in 1 .. (n + 1)
        BY <2>1
    <2> HIDE DEF n, u
    <2>5. g \in [1 .. n -> 1 .. (m - 1)] /\ \A i, j \in 1 .. n : i < j => g[i] < g[j]
        BY DEF Picks, n
    <2>6. \A j \in 1 .. n : g[j] \in 1 .. (m - 1)
        BY <2>5
    <2>7. \A j \in 1 .. n : h[j] = g[j] /\ h[j] \in 1 .. m /\ h[j] < m
        BY <1>1, <2>3, <2>6
    <2>8. h[n + 1] = m
        BY <2>4
    <2>9. h \in [1 .. (n + 1) -> 1 .. m]
        <3>1. m \in 1 .. m
            BY <1>1
        <3>2. \A j \in 1 .. n : g[j] \in 1 .. m
            BY <1>1, <2>6
        <3> QED BY <2>2, <3>1, <3>2
    <2> HIDE DEF h
    <2>10. \A j \in 1 .. (n + 1) : u[j] = s[h[j]] /\ u[j] \in K
        <3>1. \A j \in 1 .. n : t[j] = s[g[j]] /\ t[j] \in K
            BY DEF Picks, n
        <3> QED BY <1>3, <2>1, <2>2, <2>7, <2>8, <3>1
    <2>11. ASSUME NEW i \in 1 .. (n + 1), NEW j \in 1 .. (n + 1), i < j PROVE h[i] < h[j]
        <3>1. i \in 1 .. n
            BY <2>1, <2>11
        <3>2. CASE j = n + 1
            BY <2>7, <2>8, <3>1, <3>2
        <3>3. CASE j # n + 1
            BY <2>2, <2>5, <2>7, <2>11, <3>1, <3>3
        <3> QED BY <3>2, <3>3
    <2>12. ASSUME NEW i \in 1 .. m, s[i] \in K PROVE \E j \in 1 .. (n + 1) : h[j] = i
        <3>1. CASE i = m
            BY <2>4, <2>8, <3>1
        <3>2. CASE i # m
            <4>1. i \in 1 .. (m - 1)
                BY <1>1, <3>2
            <4>2. PICK j \in 1 .. n : g[j] = i
                BY <2>12, <4>1 DEF Picks, n
            <4> QED BY <2>3, <2>7, <4>2
        <3> QED BY <3>1, <3>2
    <2>13. Picks(h, u, s, m, K)
        BY <2>1, <2>9, <2>10, <2>11, <2>12 DEF Picks
    <2> QED BY <1>3, <2>13 DEF u
<1> QED BY <1>2, <1>3

(* Kept returns the subsequence of the elements that are in K. *)
LEMMA KeptPicks ==
    ASSUME NEW S, NEW s \in Seq(S), NEW K
    PROVE  /\ Kept(s, K) \in Seq(S)
           /\ \E g : Picks(g, Kept(s, K), s, Len(s), K)
<1>1. PICK f \in [0 .. Len(s) -> Seq(S)] : IsKeeping(f, s, K) /\ Kept(s, K) = f[Len(s)]
    BY KeptExists
<1> DEFINE G == {m \in 0 .. Len(s) : \E g : Picks(g, f[m], s, m, K)}
<1>2. Len(s) \in Nat
    OBVIOUS
<1>3. 0 \in G
    <2> DEFINE g == [j \in {} |-> 0]
    <2>1. f[0] = <<>>
        BY <1>1 DEF IsKeeping
    <2>2. Len(<<>>) = 0 /\ 1 .. 0 = {}
        OBVIOUS
    <2>3. g \in [1 .. 0 -> 1 .. 0]
        OBVIOUS
    <2> HIDE DEF g
    <2>4. Picks(g, <<>>, s, 0, K)
        BY <2>2, <2>3 DEF Picks
    <2> QED BY <1>2, <2>1, <2>4
<1>4. ASSUME NEW m \in 1 .. Len(s), m - 1 \in G PROVE m \in G
    <2>1. PICK g : Picks(g, f[m - 1], s, m - 1, K)
        BY <1>4
    <2>2. m \in 0 .. Len(s) /\ f[m - 1] \in Seq(S)
        BY <1>2
    <2>3. f[m] = IF s[m] \in K THEN Append(f[m - 1], s[m]) ELSE f[m - 1]
        BY <1>1 DEF IsKeeping
    <2> DEFINE t == f[m - 1]
    <2>4. t \in Seq(S) /\ Picks(g, t, s, m - 1, K)
        BY <2>1, <2>2
    <2> HIDE DEF t
    <2>5. \E h : Picks(h, IF s[m] \in K THEN Append(t, s[m]) ELSE t, s, m, K)
        BY <2>4, PicksNext
    <2> QED BY <2>2, <2>3, <2>5 DEF t
<1> HIDE DEF G
<1>5. Len(s) \in G
    <2>1. \A m \in 0 .. Len(s) : m \in G
        BY <1>2, <1>3, <1>4, Upwards
    <2> QED BY <1>2, <2>1
<1>6. f[Len(s)] \in Seq(S)
    BY <1>2
<1> QED BY <1>1, <1>5, <1>6 DEF G

-----------------------------------------------------------------------------
(* Sequences with fewer elements *)

(* t has only elements of s, none of them twice.  *)
Thins(t, s) ==
    \E g \in [1 .. Len(t) -> 1 .. Len(s)] :
        /\ \A j \in 1 .. Len(t) : t[j] = s[g[j]]
        /\ \A i, j \in 1 .. Len(t) : g[i] = g[j] => i = j

(* t has just the elements of s that are in K. *)
HasAllOf(t, s, K) ==
    /\ \A j \in 1 .. Len(t) : t[j] \in K
    /\ \A i \in 1 .. Len(s) : s[i] \in K => \E j \in 1 .. Len(t) : t[j] = s[i]

(* Kept loses elements that are not in K, and no others. *)
LEMMA KeptThins ==
    ASSUME NEW S, NEW s \in Seq(S), NEW K
    PROVE  /\ Kept(s, K) \in Seq(S)
           /\ Thins(Kept(s, K), s)
           /\ HasAllOf(Kept(s, K), s, K)
<1> DEFINE t == Kept(s, K)
<1>1. t \in Seq(S)
    BY KeptPicks
<1>2. PICK g : Picks(g, t, s, Len(s), K)
    BY KeptPicks
<1> HIDE DEF t
<1>3. Len(t) \in Nat /\ Len(s) \in Nat
    BY <1>1
<1>4. ASSUME NEW i \in 1 .. Len(t), NEW j \in 1 .. Len(t), g[i] = g[j] PROVE i = j
    <2>1. g[i] \in 1 .. Len(s) /\ g[j] \in 1 .. Len(s)
        BY <1>2 DEF Picks
    <2>2. ~(g[i] < g[j]) /\ ~(g[j] < g[i])
        BY <1>3, <1>4, <2>1
    <2>3. ~(i < j) /\ ~(j < i)
        BY <1>2, <2>2 DEF Picks
    <2> QED BY <1>3, <2>3
<1>5. Thins(t, s)
    BY <1>2, <1>4 DEF Thins, Picks
<1>6. HasAllOf(t, s, K)
    BY <1>2 DEF Picks, HasAllOf
<1> QED BY <1>1, <1>5, <1>6 DEF t

(* What is left of a sequence without its first d elements. *)
LEMMA SuffixThins ==
    ASSUME NEW S, NEW s \in Seq(S), NEW d \in 0 .. Len(s)
    PROVE  /\ SubSeq(s, d + 1, Len(s)) \in Seq(S)
           /\ Len(SubSeq(s, d + 1, Len(s))) = Len(s) - d
           /\ \A j \in 1 .. (Len(s) - d) : SubSeq(s, d + 1, Len(s))[j] = s[d + j]
           /\ Thins(SubSeq(s, d + 1, Len(s)), s)
<1> DEFINE t == SubSeq(s, d + 1, Len(s))
           g == [j \in 1 .. (Len(s) - d) |-> d + j]
<1>1. Len(s) \in Nat /\ d \in Nat /\ d <= Len(s)
    OBVIOUS
<1>2. \A i \in (d + 1) .. Len(s) : s[i] \in S
    <2> SUFFICES ASSUME NEW i \in (d + 1) .. Len(s) PROVE s[i] \in S
        OBVIOUS
    <2>1. i \in 1 .. Len(s)
        BY <1>1
    <2> QED BY <2>1
<1>3. /\ t \in Seq(S)
      /\ Len(t) = IF d + 1 <= Len(s) THEN Len(s) - (d + 1) + 1 ELSE 0
      /\ \A j \in 1 .. (Len(s) - (d + 1) + 1) : t[j] = s[d + 1 + j - 1]
    BY <1>1, <1>2, SubSeqProperties
<1> HIDE DEF t
<1>4. Len(s) - (d + 1) + 1 = Len(s) - d
    BY <1>1
<1>5. Len(t) = Len(s) - d
    BY <1>1, <1>3
<1>6. ASSUME NEW j \in 1 .. (Len(s) - d) PROVE t[j] = s[d + j] /\ d + j \in 1 .. Len(s)
    <2>1. d + 1 + j - 1 = d + j /\ d + j \in 1 .. Len(s)
        BY <1>1
    <2>2. j \in 1 .. (Len(s) - (d + 1) + 1)
        BY <1>4
    <2>3. t[j] = s[d + 1 + j - 1]
        BY <1>3, <2>2
    <2> QED BY <2>1, <2>3
<1>7. g \in [1 .. Len(t) -> 1 .. Len(s)] /\ \A j \in 1 .. Len(t) : g[j] = d + j
    BY <1>5, <1>6
<1> HIDE DEF g
<1>8. \A i, j \in 1 .. Len(t) : g[i] = g[j] => i = j
    BY <1>1, <1>5, <1>7
<1>9. Thins(t, s)
    BY <1>5, <1>6, <1>7, <1>8, SMTT(20) DEF Thins
<1> QED BY <1>3, <1>5, <1>6, <1>9 DEF t

(* Nothing is removed. *)
LEMMA ThinsItself ==
    ASSUME NEW s
    PROVE  Thins(s, s)
<1> DEFINE g == [j \in 1 .. Len(s) |-> j]
<1>1. g \in [1 .. Len(s) -> 1 .. Len(s)] /\ \A j \in 1 .. Len(s) : g[j] = j
    OBVIOUS
<1> HIDE DEF g
<1> QED BY <1>1 DEF Thins

(* Elements are removed twice. *)
LEMMA ThinsTransitive ==
    ASSUME NEW s, NEW t, NEW u, Thins(u, t), Thins(t, s)
    PROVE  Thins(u, s)
<1>1. PICK g \in [1 .. Len(t) -> 1 .. Len(s)] :
        /\ \A j \in 1 .. Len(t) : t[j] = s[g[j]]
        /\ \A i, j \in 1 .. Len(t) : g[i] = g[j] => i = j
    BY DEF Thins
<1>2. PICK h \in [1 .. Len(u) -> 1 .. Len(t)] :
        /\ \A j \in 1 .. Len(u) : u[j] = t[h[j]]
        /\ \A i, j \in 1 .. Len(u) : h[i] = h[j] => i = j
    BY DEF Thins
<1> DEFINE gh == [j \in 1 .. Len(u) |-> g[h[j]]]
<1>3. gh \in [1 .. Len(u) -> 1 .. Len(s)] /\ \A j \in 1 .. Len(u) : u[j] = s[gh[j]]
    BY <1>1, <1>2
<1>4. \A i, j \in 1 .. Len(u) : gh[i] = gh[j] => i = j
    BY <1>1, <1>2
<1> HIDE DEF gh
<1> QED BY <1>3, <1>4 DEF Thins

(* A sequence with another element at its end. *)
LEMMA Appended ==
    ASSUME NEW S, NEW s \in Seq(S), NEW e \in S
    PROVE  /\ Append(s, e) \in Seq(S)
           /\ Len(Append(s, e)) = Len(s) + 1
           /\ DOMAIN s = 1 .. Len(s) /\ DOMAIN Append(s, e) = 1 .. (Len(s) + 1)
           /\ Len(s) \in Nat
           /\ Len(s) + 1 \in DOMAIN Append(s, e)
           /\ Append(s, e)[Len(s) + 1] = e
           /\ \A k \in DOMAIN s : k \in DOMAIN Append(s, e) /\ Append(s, e)[k] = s[k] /\ k # Len(s) + 1
           /\ \A k \in DOMAIN Append(s, e) : k = Len(s) + 1 \/ k \in DOMAIN s
<1>1. /\ Append(s, e) \in Seq(S) /\ Len(Append(s, e)) = Len(s) + 1 /\ Len(s) \in Nat
      /\ DOMAIN s = 1 .. Len(s) /\ DOMAIN Append(s, e) = 1 .. (Len(s) + 1)
    OBVIOUS
<1>2. Append(s, e)[Len(s) + 1] = e /\ \A k \in 1 .. Len(s) : Append(s, e)[k] = s[k]
    OBVIOUS
<1>3. Len(s) + 1 \in 1 .. (Len(s) + 1) /\ \A k \in 1 .. Len(s) : k \in 1 .. (Len(s) + 1) /\ k # Len(s) + 1
    BY <1>1
<1>4. \A k \in 1 .. (Len(s) + 1) : k = Len(s) + 1 \/ k \in 1 .. Len(s)
    BY <1>1
<1> QED BY <1>1, <1>2, <1>3, <1>4

-----------------------------------------------------------------------------
(* There is but one subsequence of the elements in K *)

(* Two enumerations that agree so far do not skip a position. *)
LEMMA PicksNoSkip ==
    ASSUME NEW n \in Nat, NEW s, NEW K, NEW S, NEW t \in Seq(S), NEW u \in Seq(S),
           NEW g, NEW h, Picks(g, t, s, n, K), Picks(h, u, s, n, K),
           NEW x \in 1 .. Len(t), x \in 1 .. Len(u), \A i \in 1 .. (x - 1) : g[i] = h[i]
    PROVE  ~(g[x] < h[x])
<1> SUFFICES ASSUME g[x] < h[x] PROVE FALSE
    OBVIOUS
<1>1. Len(t) \in Nat /\ Len(u) \in Nat
    OBVIOUS
<1>2. g[x] \in 1 .. n /\ h[x] \in 1 .. n /\ s[g[x]] \in K
    BY DEF Picks
<1>3. PICK i \in 1 .. Len(u) : h[i] = g[x]
    BY <1>2 DEF Picks
<1>4. i < x
    <2>1. ~(x < i)
        <3>1. x < i => h[x] < h[i]
            BY DEF Picks
        <3> QED BY <1>2, <1>3, <3>1
    <2>2. i # x
        BY <1>2, <1>3
    <2> QED BY <1>1, <2>1, <2>2
<1>5. i \in 1 .. (x - 1) /\ i \in 1 .. Len(t)
    BY <1>1, <1>4
<1>6. g[i] < g[x]
    BY <1>4, <1>5 DEF Picks
<1>7. g[i] = g[x]
    BY <1>3, <1>5
<1> QED BY <1>2, <1>6, <1>7

(* Two enumerations that agree are of the same length. *)
LEMMA PicksNoShorter ==
    ASSUME NEW n \in Nat, NEW s, NEW K, NEW S, NEW t \in Seq(S), NEW u \in Seq(S),
           NEW g, NEW h, Picks(g, t, s, n, K), Picks(h, u, s, n, K),
           \A i \in 1 .. Len(t) : i \in 1 .. Len(u) => g[i] = h[i]
    PROVE  ~(Len(t) < Len(u))
<1> SUFFICES ASSUME Len(t) < Len(u) PROVE FALSE
    OBVIOUS
<1> DEFINE x == Len(t) + 1
<1>1. Len(t) \in Nat /\ Len(u) \in Nat
    OBVIOUS
<1>2. x \in 1 .. Len(u)
    BY <1>1
<1>3. \A i \in 1 .. Len(t) : i < x /\ i \in 1 .. Len(u)
    BY <1>1
<1> HIDE DEF x
<1>4. h[x] \in 1 .. n /\ s[h[x]] \in K
    BY <1>2 DEF Picks
<1>5. PICK i \in 1 .. Len(t) : g[i] = h[x]
    BY <1>4 DEF Picks
<1>6. h[i] = h[x] /\ h[i] < h[x]
    BY <1>2, <1>3, <1>5 DEF Picks
<1> QED BY <1>4, <1>6

(* The subsequence is unique. *)
LEMMA PicksUnique ==
    ASSUME NEW n \in Nat, NEW s, NEW K, NEW S, NEW t \in Seq(S), NEW u \in Seq(S),
           NEW g, NEW h, Picks(g, t, s, n, K), Picks(h, u, s, n, K)
    PROVE  t = u
<1>1. Len(t) \in Nat /\ Len(u) \in Nat
    OBVIOUS
<1>2. \A x \in 1 .. Len(t) : x \in 1 .. Len(u) => g[x] = h[x]
    <2> DEFINE D == {x \in 1 .. Len(t) : x \in 1 .. Len(u) /\ g[x] # h[x]}
    <2> SUFFICES ASSUME D # {} PROVE FALSE
        OBVIOUS
    <2>1. D \subseteq Nat
        BY <1>1
    <2>2. PICK x \in D : \A y \in D : x <= y
        BY <2>1, Least
    <2>3. x \in 1 .. Len(t) /\ x \in 1 .. Len(u) /\ g[x] # h[x]
        OBVIOUS
    <2>4. ASSUME NEW i \in 1 .. (x - 1) PROVE g[i] = h[i]
        <3>1. i \in 1 .. Len(t) /\ i \in 1 .. Len(u) /\ ~(x <= i)
            BY <1>1, <2>3
        <3> QED BY <2>2, <3>1
    <2> HIDE DEF D
    <2>5. ~(g[x] < h[x])
        BY <2>3, <2>4, PicksNoSkip
    <2>6. ~(h[x] < g[x])
        <3>1. \A i \in 1 .. (x - 1) : h[i] = g[i]
            BY <2>4
        <3> QED BY <2>3, <3>1, PicksNoSkip
    <2>7. g[x] \in 1 .. n /\ h[x] \in 1 .. n
        BY <2>3 DEF Picks
    <2> QED BY <2>3, <2>5, <2>6, <2>7
<1>3. ~(Len(t) < Len(u))
    BY <1>2, PicksNoShorter
<1>4. ~(Len(u) < Len(t))
    <2>1. \A x \in 1 .. Len(u) : x \in 1 .. Len(t) => h[x] = g[x]
        BY <1>2
    <2> QED BY <2>1, PicksNoShorter
<1>5. Len(t) = Len(u)
    BY <1>1, <1>3, <1>4
<1>6. ASSUME NEW i \in 1 .. Len(t) PROVE t[i] = u[i]
    <2>1. i \in 1 .. Len(u)
        BY <1>5
    <2>2. t[i] = s[g[i]]
        BY DEF Picks
    <2>3. u[i] = s[h[i]]
        BY <2>1 DEF Picks
    <2> QED BY <1>2, <2>1, <2>2, <2>3
<1> QED BY <1>5, <1>6, SeqEqual

(* Any enumeration of the elements in K is one of what Kept returns. *)
LEMMA PicksKept ==
    ASSUME NEW S, NEW s \in Seq(S), NEW K, NEW t \in Seq(S), NEW g, Picks(g, t, s, Len(s), K)
    PROVE  t = Kept(s, K)
<1> DEFINE u == Kept(s, K)
           n == Len(s)
<1>1. u \in Seq(S) /\ n \in Nat
    BY KeptPicks
<1>2. PICK h : Picks(h, u, s, n, K)
    BY KeptPicks
<1> HIDE DEF u, n
<1>3. Picks(g, t, s, n, K)
    BY DEF n
<1>4. t = u
    BY <1>1, <1>2, <1>3, PicksUnique
<1> QED BY <1>4 DEF u

(* Nothing is kept of nothing. *)
LEMMA KeptNone ==
    ASSUME NEW K
    PROVE  Kept(<<>>, K) = <<>>
<1> DEFINE u == Kept(<<>>, K)
<1>1. <<>> \in Seq({}) /\ Len(<<>>) = 0
    OBVIOUS
<1>2. u \in Seq({})
    BY <1>1, KeptPicks
<1> HIDE DEF u
<1>3. u = <<>>
    <2>1. Len(u) \in Nat /\ \A k \in 1 .. Len(u) : u[k] \in {}
        BY <1>2
    <2>2. Len(u) = 0
        BY <2>1
    <2> QED BY <1>2, <2>2
<1> QED BY <1>3 DEF u

(* A sequence whose elements are all in K is kept as it is. *)
LEMMA KeptAll ==
    ASSUME NEW S, NEW s \in Seq(S), NEW K, \A i \in 1 .. Len(s) : s[i] \in K
    PROVE  Kept(s, K) = s
<1> DEFINE g == [i \in 1 .. Len(s) |-> i]
<1>1. Len(s) \in Nat
  OBVIOUS
<1>2. Picks(g, s, s, Len(s), K)
  BY <1>1 DEF Picks
<1> HIDE DEF g
<1> QED
  BY <1>2, PicksKept

(* Nothing is kept of a sequence that has no element in K. *)
LEMMA KeptNothing ==
    ASSUME NEW S, NEW s \in Seq(S), NEW K, \A i \in 1 .. Len(s) : s[i] \notin K
    PROVE  Kept(s, K) = <<>>
<1>1. Picks(<<>>, <<>>, s, Len(s), K)
  BY DEF Picks
<1>2. <<>> \in Seq(S)
  OBVIOUS
<1> QED
  BY <1>1, <1>2, PicksKept

(* Another element is kept, if it is in K. *)
LEMMA KeptAppend ==
    ASSUME NEW S, NEW s \in Seq(S), NEW x \in S, NEW K
    PROVE  /\ Len(Kept(s, K)) \in Nat
           /\ x \in K => Len(Kept(Append(s, x), K)) = Len(Kept(s, K)) + 1
           /\ x \notin K => Len(Kept(Append(s, x), K)) = Len(Kept(s, K))
<1> DEFINE u == Append(s, x)
           m == Len(s) + 1
           t == Kept(s, K)
<1>1. /\ u \in Seq(S) /\ Len(u) = m /\ u[m] = x /\ \A i \in 1 .. Len(s) : u[i] = s[i]
      /\ Len(s) \in Nat /\ m - 1 = Len(s)
  OBVIOUS
<1>2. t \in Seq(S)
  BY KeptPicks
<1>3. PICK g : Picks(g, t, s, Len(s), K)
  BY KeptPicks
<1> HIDE DEF u, t
<1>4. Picks(g, t, u, m - 1, K)
  <2>1. \A j \in 1 .. Len(t) : g[j] \in 1 .. Len(s)
    BY <1>3 DEF Picks
  <2> QED
    BY <1>1, <1>3, <2>1 DEF Picks
<1>5. m \in 1 .. Len(u)
  BY <1>1
<1>6. PICK h : Picks(h, IF u[m] \in K THEN Append(t, u[m]) ELSE t, u, m, K)
  BY <1>1, <1>2, <1>4, <1>5, PicksNext
<1>7. CASE x \in K
  <2>1. Picks(h, Append(t, x), u, Len(u), K) /\ Append(t, x) \in Seq(S)
    BY <1>1, <1>2, <1>6, <1>7
  <2>2. Append(t, x) = Kept(u, K)
    BY <1>1, <2>1, PicksKept
  <2>3. Len(Append(t, x)) = Len(t) + 1 /\ Len(t) \in Nat
    BY <1>2
  <2> QED
    BY <1>7, <2>2, <2>3 DEF t, u
<1>8. CASE x \notin K
  <2>1. Picks(h, t, u, Len(u), K)
    BY <1>1, <1>6, <1>8
  <2>2. t = Kept(u, K)
    BY <1>1, <1>2, <2>1, PicksKept
  <2> QED
    BY <1>2, <1>8, <2>2 DEF t, u
<1> QED
  BY <1>7, <1>8

(* Only the elements of the sequence matter. *)
LEMMA KeptSame ==
    ASSUME NEW S, NEW s \in Seq(S), NEW K, NEW L, \A i \in 1 .. Len(s) : s[i] \in K <=> s[i] \in L
    PROVE  Kept(s, K) = Kept(s, L)
<1> DEFINE t == Kept(s, K)
<1>1. t \in Seq(S)
    BY KeptPicks
<1>2. PICK g : Picks(g, t, s, Len(s), K)
    BY KeptPicks
<1> HIDE DEF t
<1>3. \A j \in 1 .. Len(t) : t[j] = s[g[j]] /\ g[j] \in 1 .. Len(s) /\ t[j] \in K
    BY <1>2 DEF Picks
<1>4. Picks(g, t, s, Len(s), L)
    BY <1>2, <1>3 DEF Picks
<1>5. t = Kept(s, L)
    BY <1>1, <1>4, PicksKept
<1> QED BY <1>5 DEF t

(* No element occurs twice. *)
Distinct(s) == \A i, j \in 1 .. Len(s) : s[i] = s[j] => i = j

(* L has the elements of s that K has, but for the first d elements of t. *)
Skips(L, K, t, d, s) ==
    \A i \in 1 .. Len(s) : s[i] \in L <=> s[i] \in K /\ \A j \in 1 .. d : t[j] # s[i]

(* The first d of the elements that are kept are removed as well, from a   *)
(* sequence without repetitions.                                           *)
LEMMA SuffixKept ==
    ASSUME NEW S, NEW s \in Seq(S), Distinct(s),
           NEW K, NEW L, NEW t, t = Kept(s, K), NEW d \in 0 .. Len(t), Skips(L, K, t, d, s)
    PROVE  SubSeq(t, d + 1, Len(t)) = Kept(s, L)
<1>1. t \in Seq(S)
    BY KeptPicks
<1>2. PICK g : Picks(g, t, s, Len(s), K)
    BY KeptPicks
<1> DEFINE u == SubSeq(t, d + 1, Len(t))
           n == Len(t) - d
           h == [j \in 1 .. n |-> g[d + j]]
<1>3. Len(t) \in Nat /\ Len(s) \in Nat /\ d \in Nat /\ d <= Len(t)
    BY <1>1
<1>4. u \in Seq(S) /\ Len(u) = n /\ n \in Nat /\ \A j \in 1 .. n : u[j] = t[d + j]
    BY <1>1, <1>3, SuffixThins, SMTT(20)
<1>5. \A j \in 1 .. n : d + j \in 1 .. Len(t) /\ h[j] = g[d + j]
    BY <1>3
<1>6. \A j \in 1 .. Len(t) : g[j] \in 1 .. Len(s) /\ t[j] = s[g[j]] /\ t[j] \in K
    BY <1>2 DEF Picks
<1>7. h \in [1 .. n -> 1 .. Len(s)]
    BY <1>5, <1>6
<1> HIDE DEF u, h
<1>8. ASSUME NEW j \in 1 .. n PROVE u[j] = s[h[j]] /\ u[j] \in L
    <2>1. u[j] = s[h[j]] /\ h[j] \in 1 .. Len(s) /\ s[h[j]] \in K
        <3>1. u[j] = t[d + j] /\ d + j \in 1 .. Len(t) /\ h[j] = g[d + j]
            BY <1>4, <1>5
        <3>2. g[d + j] \in 1 .. Len(s) /\ t[d + j] = s[g[d + j]] /\ t[d + j] \in K
            BY <1>6, <3>1
        <3> QED BY <3>1, <3>2
    <2>2. ASSUME NEW i \in 1 .. d, t[i] = s[h[j]] PROVE FALSE
        <3>1. i \in 1 .. Len(t) /\ d + j \in 1 .. Len(t) /\ i < d + j
            BY <1>3, <1>5
        <3>2. g[i] < g[d + j]
            BY <1>2, <3>1 DEF Picks
        <3>3. s[g[i]] = s[g[d + j]] /\ g[i] \in 1 .. Len(s) /\ g[d + j] \in 1 .. Len(s)
            BY <1>5, <1>6, <2>2, <3>1
        <3>4. g[i] = g[d + j]
            BY <3>3 DEF Distinct
        <3> QED BY <3>2, <3>3, <3>4
    <2> QED BY <2>1, <2>2 DEF Skips
<1>9. ASSUME NEW i \in 1 .. n, NEW j \in 1 .. n, i < j PROVE h[i] < h[j]
    <2>1. d + i < d + j
        BY <1>3, <1>4, <1>9
    <2> QED BY <1>2, <1>5, <2>1 DEF Picks
<1>10. ASSUME NEW i \in 1 .. Len(s), s[i] \in L PROVE \E j \in 1 .. n : h[j] = i
    <2>1. s[i] \in K /\ \A j \in 1 .. d : t[j] # s[i]
        BY <1>10 DEF Skips
    <2>2. PICK k \in 1 .. Len(t) : g[k] = i
        BY <1>2, <2>1 DEF Picks
    <2>3. k \notin 1 .. d
        BY <1>6, <2>1, <2>2
    <2>4. k - d \in 1 .. n /\ d + (k - d) = k
        BY <1>3, <2>3
    <2>5. h[k - d] = i
        BY <1>5, <2>2, <2>4
    <2> QED BY <2>4, <2>5
<1>11. Picks(h, u, s, Len(s), L)
    BY <1>4, <1>7, <1>8, <1>9, <1>10 DEF Picks
<1>12. u = Kept(s, L)
    BY <1>4, <1>11, PicksKept
<1> QED BY <1>12 DEF u

-----------------------------------------------------------------------------
(* Lifetimes *)

(* Encoding yields a lifetime field for every duration. *)
LEMMA EncodeType == ASSUME NEW d \in Nat PROVE Encode(d) \in LifetimeField
<1>1. BaseFor(d) \in Bases
  BY DEF BaseFor, Bases
<1>2. Unit(BaseFor(d)) \in {50, 1000, 10000, 100000}
  BY <1>1 DEF Unit, Bases
<1>3. RoundedQuotient(d, Unit(BaseFor(d))) \in Nat
  BY <1>2 DEF RoundedQuotient
<1>4. RoundedQuotient(d, Unit(BaseFor(d))) % MultiplierRange \in 0 .. (MultiplierRange - 1)
  BY <1>3 DEF MultiplierRange
<1> QED
  BY <1>1, <1>4 DEF Encode, LifetimeField

(* Decoding a lifetime field yields a duration. *)
LEMMA DecodeType == ASSUME NEW f \in LifetimeField PROVE Decode(f) \in Nat
<1>1. Unit(f.base) \in {50, 1000, 10000, 100000}
  BY DEF Unit, Bases, LifetimeField
<1>2. f.multiplier \in Nat
  BY DEF LifetimeField, MultiplierRange
<1> QED
  BY <1>1, <1>2 DEF Decode

(* Reducing a lifetime, by whatever time, yields a lifetime field. *)
LEMMA ReducedType ==
  ASSUME NEW f \in LifetimeField, NEW q \in Int
  PROVE  Reduced(f, q) \in LifetimeField
<1>1. Decode(f) \in Nat
  BY DecodeType
<1>2. CASE q > 0 /\ q < Decode(f)
  <2>1. Remaining(f, q) \in Nat
    BY <1>1, <1>2 DEF Remaining
  <2> QED
    BY <1>1, <1>2, <2>1, EncodeType DEF Reduced
<1>3. Zero \in LifetimeField
  BY DEF Zero, LifetimeField, Bases, MultiplierRange
<1> QED
  BY <1>1, <1>2, <1>3 DEF Reduced

-----------------------------------------------------------------------------
(* The values of Unit, in milliseconds. *)
Units == {50, 1000, 10000, 100000}

(* Which base has which unit, for the arithmetic below. *)
LEMMA UnitValues ==
  /\ Unit("Fifty_Milliseconds") = 50
  /\ Unit("One_Second") = 1000
  /\ Unit("Ten_Seconds") = 10000
  /\ Unit("Hundred_Seconds") = 100000
<1>1. Unit("Fifty_Milliseconds") = 50
  BY DEF Unit
<1>2. Unit("One_Second") = 1000
  BY DEF Unit
<1>3. Unit("Ten_Seconds") = 10000
  BY DEF Unit
<1>4. Unit("Hundred_Seconds") = 100000
  BY DEF Unit
<1> QED
  BY <1>1, <1>2, <1>3, <1>4

(* The longest duration the field can hold: 63 times 100 s. *)
Longest == 6300000

(* The rounded quotient is the multiple of the unit that is nearest.       *)
LEMMA QuotientNearest ==
  ASSUME NEW d \in Nat, NEW unit \in Units
  PROVE  /\ RoundedQuotient(d, unit) \in Nat
         /\ 2 * (RoundedQuotient(d, unit) * unit - d) <= unit
         /\ 2 * (d - RoundedQuotient(d, unit) * unit) <= unit
<1>1. CASE unit = 50
  BY <1>1 DEF RoundedQuotient
<1>2. CASE unit = 1000
  BY <1>2 DEF RoundedQuotient
<1>3. CASE unit = 10000
  BY <1>3 DEF RoundedQuotient
<1>4. CASE unit = 100000
  BY <1>4 DEF RoundedQuotient
<1> QED
  BY <1>1, <1>2, <1>3, <1>4 DEF Units

(* The base changes just in time: up to the longest duration the quotient  *)
(* fits into the six bits of the multiplier.                               *)
LEMMA MultiplierFits ==
  ASSUME NEW d \in Nat, d <= Longest
  PROVE  RoundedQuotient(d, Unit(BaseFor(d))) \in 0 .. (MultiplierRange - 1)
<1>1. CASE d >= 630000
  BY <1>1, UnitValues, SMT DEF RoundedQuotient, BaseFor, MultiplierRange, Longest
<1>2. CASE 63000 <= d /\ d < 630000
  BY <1>2, UnitValues, SMT DEF RoundedQuotient, BaseFor, MultiplierRange, Longest
<1>3. CASE 3150 <= d /\ d < 63000
  BY <1>3, UnitValues, SMT DEF RoundedQuotient, BaseFor, MultiplierRange, Longest
<1>4. CASE d < 3150
  BY <1>4, UnitValues, SMT DEF RoundedQuotient, BaseFor, MultiplierRange, Longest
<1> QED
  BY <1>1, <1>2, <1>3, <1>4, SMT

(* Encoding is exact to half a unit of the base it chooses.                *)
LEMMA EncodeNearest ==
  ASSUME NEW d \in Nat, d <= Longest
  PROVE  /\ Decode(Encode(d)) = RoundedQuotient(d, Unit(BaseFor(d))) * Unit(BaseFor(d))
         /\ Unit(Encode(d).base) = Unit(BaseFor(d))
         /\ 2 * (Decode(Encode(d)) - d) <= Unit(Encode(d).base)
         /\ 2 * (d - Decode(Encode(d))) <= Unit(Encode(d).base)
<1> DEFINE unit == Unit(BaseFor(d))
           quotient == RoundedQuotient(d, unit)
<1>2. unit \in Units
  BY UnitValues, SMT DEF BaseFor, Units
<1>3. quotient \in 0 .. (MultiplierRange - 1)
  BY MultiplierFits
<1>4. quotient % MultiplierRange = quotient
  <2> HIDE DEF quotient
  <2> QED
    BY <1>3 DEF MultiplierRange
<1>5. Encode(d) = [base |-> BaseFor(d), multiplier |-> quotient]
  BY <1>4 DEF Encode
<1>6. Decode(Encode(d)) = quotient * unit /\ Unit(Encode(d).base) = unit
  BY <1>5 DEF Decode
<1>7. 2 * (quotient * unit - d) <= unit /\ 2 * (d - quotient * unit) <= unit
  <2> HIDE DEF unit
  <2> QED
    BY <1>2, QuotientNearest, Zenon
<1> QED
  BY <1>6, <1>7

(* No lifetime field holds more than the longest duration. *)
LEMMA DecodeLongest == ASSUME NEW f \in LifetimeField PROVE Decode(f) <= Longest
<1>1. f.multiplier \in 0 .. 63 /\ f.base \in Bases
  BY DEF LifetimeField, MultiplierRange
<1>2. Unit(f.base) \in Nat /\ Unit(f.base) <= 100000
  BY <1>1, UnitValues, SMT DEF Bases
<1>3. \A m \in 0 .. 63, u \in Nat : u <= 100000 => m * u <= 6300000
  BY SMT
<1> QED
  BY <1>1, <1>2, <1>3, SMT DEF Decode, Longest

(* What is below a multiple of some unit is not rounded beyond it: the     *)
(* base Encode chooses is never coarser than this unit, and a finer unit   *)
(* divides it.                                                             *)
LEMMA EncodeBelow ==
  ASSUME NEW base \in Bases, NEW m \in 0 .. 63, NEW d \in Nat, d < m * Unit(base)
  PROVE  RoundedQuotient(d, Unit(BaseFor(d))) * Unit(BaseFor(d)) <= m * Unit(base)
<1>1. CASE base = "Fifty_Milliseconds"
  <2>1. d < m * 50 /\ BaseFor(d) = "Fifty_Milliseconds"
    BY <1>1, UnitValues, SMT DEF BaseFor
  <2> QED
    BY <1>1, <2>1, UnitValues, SMT DEF RoundedQuotient
<1>2. CASE base = "One_Second"
  <2>1. d < m * 1000 /\ BaseFor(d) \in {"Fifty_Milliseconds", "One_Second"}
    BY <1>2, UnitValues, SMT DEF BaseFor
  <2> QED
    BY <1>2, <2>1, UnitValues, SMT DEF RoundedQuotient
<1>3. CASE base = "Ten_Seconds"
  <2>1. d < m * 10000 /\ BaseFor(d) \in {"Fifty_Milliseconds", "One_Second", "Ten_Seconds"}
    BY <1>3, UnitValues, SMT DEF BaseFor
  <2> QED
    BY <1>3, <2>1, UnitValues, SMT DEF RoundedQuotient
<1>4. CASE base = "Hundred_Seconds"
  <2>1. d < m * 100000 /\ BaseFor(d) \in Bases
    BY <1>4, UnitValues, SMT DEF BaseFor, Bases
  <2> QED
    BY <1>4, <2>1, UnitValues, SMT DEF RoundedQuotient, Bases
<1> QED
  BY <1>1, <1>2, <1>3, <1>4 DEF Bases

-----------------------------------------------------------------------------
(* PendingPacket::reduce_lifetime leaves the remaining lifetime in the     *)
(* header up to half a unit.                                               *)
LEMMA ReducedNearest ==
  ASSUME NEW f \in LifetimeField, NEW q \in Nat
  PROVE  /\ 2 * (Decode(Reduced(f, q)) - Remaining(f, q)) <= Unit(Reduced(f, q).base)
         /\ 2 * (Remaining(f, q) - Decode(Reduced(f, q))) <= Unit(Reduced(f, q).base)
<1>1. Decode(f) \in Nat /\ Decode(f) <= Longest /\ Longest \in Nat
  BY DecodeType, DecodeLongest, SMT DEF Longest
<1>2. CASE q = 0
  <2>1. Reduced(f, q) = f /\ Remaining(f, q) = Decode(f)
    BY <1>2 DEF Reduced, Remaining
  <2>2. f.base \in Bases
    BY DEF LifetimeField
  <2>3. Unit(f.base) \in Nat
    BY <2>2, UnitValues, SMT DEF Bases
  <2> QED
    BY <1>1, <2>1, <2>3
<1>3. CASE q # 0 /\ q < Decode(f)
  <2> DEFINE d == Decode(f) - q
  <2>1. d \in Nat /\ d <= Longest
    BY <1>1, <1>3
  <2>2. Remaining(f, q) = d /\ Reduced(f, q) = Encode(d)
    BY <1>3 DEF Remaining, Reduced
  <2> HIDE DEF d
  <2> QED
    BY <2>1, <2>2, EncodeNearest
<1>4. CASE q # 0 /\ ~(q < Decode(f))
  <2>1. Reduced(f, q) = Zero /\ Remaining(f, q) = 0
    BY <1>1, <1>4 DEF Reduced, Remaining
  <2>2. Decode(Zero) = 0 /\ Unit(Zero.base) = 50
    BY UnitValues, SMT DEF Decode, Zero
  <2> QED
    BY <2>1, <2>2
<1> QED
  BY <1>2, <1>3, <1>4

(* ... and never prolongs it.                                              *)
LEMMA ReducedNotProlonged ==
  ASSUME NEW f \in LifetimeField, NEW q \in Nat
  PROVE  Decode(Reduced(f, q)) <= Decode(f)
<1>1. Decode(f) \in Nat /\ Decode(f) <= Longest /\ Longest \in Nat
  BY DecodeType, DecodeLongest, SMT DEF Longest
<1>2. CASE q = 0
  BY <1>1, <1>2 DEF Reduced
<1>3. CASE q # 0 /\ q < Decode(f)
  <2> DEFINE d == Decode(f) - q
  <2>1. d \in Nat /\ d <= Longest /\ d < Decode(f)
    BY <1>1, <1>3
  <2>2. Reduced(f, q) = Encode(d)
    BY <1>3 DEF Remaining, Reduced
  <2>3. f.base \in Bases /\ f.multiplier \in 0 .. 63
    BY DEF LifetimeField, MultiplierRange
  <2> HIDE DEF d
  <2>4. Decode(Encode(d)) = RoundedQuotient(d, Unit(BaseFor(d))) * Unit(BaseFor(d))
    BY <2>1, EncodeNearest
  <2>5. d < f.multiplier * Unit(f.base)
    BY <2>1 DEF Decode
  <2>6. RoundedQuotient(d, Unit(BaseFor(d))) * Unit(BaseFor(d)) <= f.multiplier * Unit(f.base)
    BY <2>1, <2>3, <2>5, EncodeBelow
  <2>7. Decode(f) = f.multiplier * Unit(f.base)
    BY DEF Decode
  <2> QED
    BY <2>2, <2>4, <2>6, <2>7
<1>4. CASE q # 0 /\ ~(q < Decode(f))
  <2>1. Reduced(f, q) = Zero
    BY <1>1, <1>4 DEF Reduced
  <2>2. Decode(Zero) = 0
    BY UnitValues, SMT DEF Decode, Zero
  <2> QED
    BY <1>1, <2>1, <2>2
<1> QED
  BY <1>2, <1>3, <1>4
=============================================================================
