-------------------------- MODULE RateControlProof --------------------------
(***************************************************************************)
(* Proofs about RateControl, for any burst, any state machine tables and   *)
(* any numbers of samples: the delays that the budgets ask for suffice, a  *)
(* burst period sees less than two full bursts, the state machines fit a   *)
(* steady load and the fully meshed one relaxes slowly.                    *)
(***************************************************************************)
EXTENDS RateControl, FiniteSetTheorems, SequenceTheorems, WellFoundedInduction, TLAPS

(* The samples that m_channel_loads holds *)
Samples == Max({UpSamples, DownSamples})

-----------------------------------------------------------------------------
(* The inductive invariant *)

Types ==
    /\ m_messages \in Seq(Nat) /\ capacity \in Nat \ {0} /\ limit \in Nat
    /\ m_last_tx \in Nat \cup {Never} /\ now \in Nat /\ sent \in Seq(Nat)
    /\ m_channel_loads \in Seq(Load) /\ samples \in Seq(Load)
    /\ \/ kind = "meshed" /\ m_state \in Relaxed .. Restrictive
       \/ kind = "gradual" /\ m_state \in 1 .. Len(Steps)

(* Messages are from the past, those that are remembered for the latest    *)
(* period in order.                                                        *)
Past ==
    /\ Len(m_messages) <= capacity
    /\ \A i \in 1 .. Len(m_messages) : m_messages[i] <= now
    /\ m_last_tx # Never => m_last_tx <= now
    /\ \A i \in 1 .. Len(sent) : sent[i] <= now /\ now < sent[i] + BurstPeriod
    /\ \A i, j \in 1 .. Len(sent) : i <= j => sent[i] <= sent[j]

(* Messages that are later than the first j records of the buffer are not  *)
(* more than its other records.                                            *)
Later(m, j, x) == \A k \in 1 .. j : m[k] < x
Follows(s, m) ==
    \A j \in 1 .. Len(m) : \A i \in 1 .. Len(s) :
        Later(m, j, s[i]) => Len(s) - i + 1 <= Len(m) - j

(* The messages of the latest period follow the records of the current     *)
(* burst, and those without a record are fewer than a burst.               *)
Bursts ==
    /\ Follows(sent, m_messages)
    /\ m_messages = <<>> => sent = <<>>
    /\ Len(sent) < Len(m_messages) + capacity
    /\ limit = capacity

(* The fully meshed machine holds the latest samples. *)
Kept ==
    /\ Len(samples) <= HistorySamples
    /\ kind = "meshed" =>
            /\ Len(m_channel_loads) = IF Len(samples) <= Samples THEN Len(samples) ELSE Samples
            /\ \A k \in 1 .. Len(m_channel_loads) : m_channel_loads[k] = samples[k]
    /\ kind = "gradual" => m_channel_loads = <<>>

(* The latest n samples are all the same. *)
Same(n) == n <= Len(samples) /\ \A k \in 1 .. n : samples[k] = samples[1]

(* One step of the fully meshed machine does not lead from one end to the  *)
(* other.                                                                  *)
MeshedFits ==
    kind = "meshed" =>
        /\ Same(Samples) =>
                /\ samples[1] = 0 => m_state # Restrictive
                /\ samples[1] = MaxLoad => m_state # Relaxed
                /\ samples[1] # 0 /\ samples[1] # MaxLoad => m_state = samples[1]
        /\ Same(Samples + 1) => m_state = samples[1]

(* A state of the gradual machine that is too low for the load has been    *)
(* left behind with every sample of it, and so has one that is too high.   *)
GradualFits ==
    kind = "gradual" =>
        \A k \in 1 .. Len(samples) : Same(k) =>
            /\ m_state < Len(Steps) /\ Steps[m_state + 1].lower_limit <= samples[1]
                    => k < m_state
            /\ samples[1] < Steps[m_state].lower_limit => m_state + k <= Len(Steps)

Inv == Types /\ Past /\ Bursts /\ Kept /\ MeshedFits /\ GradualFits

-----------------------------------------------------------------------------
(* Minima and maxima *)

(* A set of natural numbers has a least element. *)
LEMMA Least ==
    ASSUME NEW S, S \subseteq Nat, S # {}
    PROVE  \E x \in S : \A y \in S : x <= y
<1> DEFINE R == OpToRel(<, Nat)
<1>1. R = {ss \in Nat \X Nat : ss[1] < ss[2]}
    BY DEF OpToRel
<1>2. IsWellFoundedOn(R, Nat)
    BY NatLessThanWellFounded
<1> HIDE DEF R
<1>3. PICK x \in S : \A y \in S : ~(<<y, x>> \in R)
    BY <1>2, WFMin
<1>4. ASSUME NEW y \in S PROVE x <= y
    <2>1. x \in Nat /\ y \in Nat
        OBVIOUS
    <2>2. y < x => <<y, x>> \in R
        BY <1>1, <2>1
    <2> QED BY <1>3, <2>1, <2>2
<1> QED BY <1>4

(* Min finds it. *)
LEMMA MinOf ==
    ASSUME NEW S, S \subseteq Nat, S # {}
    PROVE  Min(S) \in S /\ \A y \in S : Min(S) <= y
BY Least DEF Min

(* Max finds the greatest element of a bounded set. *)
LEMMA MaxOf ==
    ASSUME NEW S, NEW b \in Nat, S \subseteq 0 .. b, S # {}
    PROVE  Max(S) \in S /\ \A y \in S : y <= Max(S)
<1> DEFINE T == {x \in 0 .. b : b - x \in S}
<1>1. \A y \in S : b - y \in T
    <2> SUFFICES ASSUME NEW y \in S PROVE b - y \in T
        OBVIOUS
    <2>1. y \in 0 .. b
        OBVIOUS
    <2>2. b - y \in 0 .. b /\ b - (b - y) = y
        BY <2>1
    <2> QED BY <2>2
<1>2. T \subseteq Nat /\ T # {}
    <2>1. PICK y \in S : TRUE
        OBVIOUS
    <2>2. b - y \in T
        BY <1>1
    <2> QED BY <2>2
<1>3. PICK x \in T : \A z \in T : x <= z
    BY <1>2, Least
<1>4. ASSUME NEW y \in S PROVE y <= b - x
    <2>1. b - y \in T /\ y \in Nat
        BY <1>1
    <2> QED BY <1>3, <2>1
<1>5. b - x \in S
    OBVIOUS
<1> HIDE DEF T
<1>6. \E m \in S : \A y \in S : m >= y
    <2>1. \A y \in S : b - x >= y
        BY <1>4
    <2> QED BY <1>5, <2>1
<1>7. Max(S) \in S /\ \A y \in S : Max(S) >= y
    BY <1>6 DEF Max
<1> QED BY <1>7

(* Minimum and maximum of two *)
LEMMA Pairs ==
    ASSUME NEW a \in Int, NEW b \in Int
    PROVE  /\ Min({a, b}) = IF a <= b THEN a ELSE b
           /\ Max({a, b}) = IF a >= b THEN a ELSE b
<1>1. Min({a, b}) = IF a <= b THEN a ELSE b
    BY DEF Min
<1>2. Max({a, b}) = IF a >= b THEN a ELSE b
    BY DEF Max
<1> QED BY <1>1, <1>2

(* The numbers of samples *)
LEMMA Numbers ==
    /\ UpSamples \in Nat \ {0} /\ DownSamples \in Nat \ {0} /\ Substates \in Nat \ {0}
    /\ Samples \in Nat \ {0} /\ UpSamples <= Samples /\ DownSamples <= Samples
    /\ HistorySamples \in Nat /\ Samples < HistorySamples /\ Len(Steps) <= HistorySamples
    /\ Len(Steps) \in Nat \ {0}
<1>1. /\ UpSamples \in Nat \ {0} /\ DownSamples \in Nat \ {0} /\ Substates \in Nat \ {0}
      /\ Len(Steps) \in Nat \ {0}
    BY MachineAssumption
<1>2. /\ Samples \in Nat \ {0} /\ UpSamples <= Samples /\ DownSamples <= Samples
      /\ Samples = UpSamples \/ Samples = DownSamples
    <2>1. UpSamples \in Int /\ DownSamples \in Int
        BY <1>1
    <2>2. Samples = IF UpSamples >= DownSamples THEN UpSamples ELSE DownSamples
        BY <2>1, Pairs DEF Samples
    <2> QED BY <1>1, <2>2
<1> DEFINE S == {UpSamples + 1, DownSamples + 1, Len(Steps)}
           b == UpSamples + 1 + DownSamples + 1 + Len(Steps)
<1>3. b \in Nat /\ S \subseteq 0 .. b /\ S # {}
    BY <1>1
<1>4. HistorySamples = Max(S)
    BY DEF HistorySamples
<1> HIDE DEF b
<1>5. Max(S) \in S /\ \A y \in S : y <= Max(S)
    BY <1>3, MaxOf
<1>6. /\ HistorySamples \in Nat /\ UpSamples + 1 <= HistorySamples
      /\ DownSamples + 1 <= HistorySamples /\ Len(Steps) <= HistorySamples
    BY <1>1, <1>4, <1>5
<1> QED BY <1>1, <1>2, <1>6

-----------------------------------------------------------------------------
(* Samples of the channel load *)

(* A sample is put in front, and the last one is dropped if there are too  *)
(* many.                                                                   *)
Push(s, l, n) == SubSeq(<<l>> \o s, 1, Min({Len(s) + 1, n}))

(* The samples after that *)
LEMMA Pushed ==
    ASSUME NEW s \in Seq(Load), NEW l \in Load, NEW n \in Nat \ {0}
    PROVE  LET t == Push(s, l, n)
           IN  /\ t \in Seq(Load) /\ t # <<>> /\ t[1] = l
               /\ Len(t) = IF Len(s) + 1 <= n THEN Len(s) + 1 ELSE n
               /\ \A k \in 1 .. Len(s) : k < Len(t) => t[k + 1] = s[k]
<1> DEFINE m == Min({Len(s) + 1, n})
           r == <<l>> \o s
<1>1. Len(s) \in Nat
    OBVIOUS
<1>2. m = IF Len(s) + 1 <= n THEN Len(s) + 1 ELSE n
    BY <1>1, Pairs
<1> HIDE DEF m
<1>3. m \in Nat \ {0} /\ m <= Len(s) + 1
    BY <1>1, <1>2
<1>4. /\ r \in Seq(Load) /\ Len(r) = Len(s) + 1 /\ r[1] = l
      /\ \A k \in 1 .. Len(s) : r[k + 1] = s[k]
    OBVIOUS
<1> HIDE DEF r
<1>5. LET t == SubSeq(r, 1, m)
      IN  t \in Seq(Load) /\ Len(t) = m /\ \A k \in 1 .. m : t[k] = r[k]
    BY <1>1, <1>3, <1>4
<1> DEFINE t == SubSeq(r, 1, m)
<1>6. t \in Seq(Load) /\ Len(t) = m /\ t # <<>> /\ t[1] = l
    BY <1>1, <1>3, <1>4, <1>5
<1>7. ASSUME NEW k \in 1 .. Len(s), k < m PROVE t[k + 1] = s[k]
    BY <1>1, <1>3, <1>4, <1>5, <1>7
<1> HIDE DEF t
<1>8. Push(s, l, n) = t
    BY DEF Push, t, r, m
<1> QED BY <1>2, <1>6, <1>7, <1>8

(* The latest samples are those with the lowest indices. *)
LEMMA LatestOf ==
    ASSUME NEW s \in Seq(Load), NEW n \in Nat
    PROVE  /\ Latest(s, n) \subseteq Load
           /\ \A x : x \in Latest(s, n) <=> \E k \in 1 .. Len(s) : k <= n /\ x = s[k]
<1>1. Len(s) \in Nat
    OBVIOUS
<1>2. Min({n, Len(s)}) = IF n <= Len(s) THEN n ELSE Len(s)
    BY <1>1, Pairs
<1>3. \A k : k \in 1 .. Min({n, Len(s)}) <=> k \in 1 .. Len(s) /\ k <= n
    BY <1>1, <1>2
<1>4. \A x : x \in Latest(s, n) <=> \E k \in 1 .. Len(s) : k <= n /\ x = s[k]
    BY <1>3 DEF Latest
<1> QED BY <1>4

(* The extreme loads lie on both sides of the latest one. *)
LEMMA Extremes ==
    ASSUME NEW s \in Seq(Load), s # <<>>
    PROVE  /\ MinChannelLoad(s) \in Latest(s, UpSamples)
           /\ MaxChannelLoad(s) \in Latest(s, DownSamples)
           /\ MinChannelLoad(s) \in Load /\ MaxChannelLoad(s) \in Load
           /\ MinChannelLoad(s) <= s[1] /\ s[1] <= MaxChannelLoad(s)
           /\ \A x \in Latest(s, DownSamples) : x <= MaxChannelLoad(s)
<1>1. UpSamples \in Nat /\ DownSamples \in Nat /\ 1 <= UpSamples /\ 1 <= DownSamples
    BY Numbers
<1>2. 1 \in 1 .. Len(s)
    OBVIOUS
<1>3. /\ s[1] \in Latest(s, UpSamples) /\ s[1] \in Latest(s, DownSamples)
      /\ Latest(s, UpSamples) \subseteq Load /\ Latest(s, DownSamples) \subseteq Load
    BY <1>1, <1>2, LatestOf
<1>4. MaxLoad \in Nat /\ Load = 0 .. MaxLoad /\ Load \subseteq Nat
    BY Numbers DEF MaxLoad, Load
<1>5. /\ MinChannelLoad(s) \in Latest(s, UpSamples)
      /\ \A x \in Latest(s, UpSamples) : MinChannelLoad(s) <= x
    BY <1>3, <1>4, MinOf DEF MinChannelLoad
<1>6. /\ MaxChannelLoad(s) \in Latest(s, DownSamples)
      /\ \A x \in Latest(s, DownSamples) : x <= MaxChannelLoad(s)
    BY <1>3, <1>4, MaxOf DEF MaxChannelLoad
<1> QED BY <1>3, <1>5, <1>6

(* The sub-state of Active is that of the maximum. *)
LEMMA Active ==
    ASSUME NEW s \in Seq(Load), s # <<>>
    PROVE  LET mx == MaxChannelLoad(s)
           IN  ActiveState(s) = IF mx < 1 THEN 1 ELSE IF mx <= Substates THEN mx ELSE Substates
<1> DEFINE mn == MinChannelLoad(s)
           mx == MaxChannelLoad(s)
<1>1. mn \in Nat /\ mx \in Nat /\ mn <= mx /\ s[1] \in Nat /\ Substates \in Nat \ {0}
    <2>1. Load \subseteq Nat /\ s[1] \in Load
        BY Numbers DEF Load, MaxLoad
    <2>2. mn \in Nat /\ mx \in Nat /\ s[1] \in Nat /\ mn <= s[1] /\ s[1] <= mx
        BY <2>1, Extremes
    <2> QED BY <2>2, Numbers
<1> DEFINE a == Max({mn, 1})
           b == Max({mx, 1})
           c == Max({a, b})
<1>2. ActiveState(s) = Min({c, Substates})
    BY Zenon DEF ActiveState, MinLoad
<1> HIDE DEF mn, mx
<1>3. /\ a = IF mn >= 1 THEN mn ELSE 1
      /\ b = IF mx >= 1 THEN mx ELSE 1
    <2>1. mn \in Int /\ mx \in Int /\ 1 \in Int
        BY <1>1
    <2>2. a = IF mn >= 1 THEN mn ELSE 1
        BY <2>1, Pairs
    <2>3. b = IF mx >= 1 THEN mx ELSE 1
        BY <2>1, Pairs
    <2> QED BY <2>2, <2>3
<1> HIDE DEF a, b
<1>4. a \in Int /\ b \in Int /\ a <= b
    BY <1>1, <1>3
<1>5. c = b
    <2>1. c = IF a >= b THEN a ELSE b
        BY <1>4, Pairs
    <2> QED BY <1>4, <2>1
<1>6. Min({b, Substates}) = IF b <= Substates THEN b ELSE Substates
    BY <1>1, <1>4, Pairs
<1> HIDE DEF c
<1>7. ActiveState(s) = IF b <= Substates THEN b ELSE Substates
    BY <1>2, <1>5, <1>6
<1>8. ActiveState(s) = IF mx < 1 THEN 1 ELSE IF mx <= Substates THEN mx ELSE Substates
    BY <1>1, <1>3, <1>7
<1> QED BY <1>8 DEF mx

-----------------------------------------------------------------------------
(* The state machines *)

(* What a sample does to the fully meshed machine, s being the samples     *)
(* with the new one                                                        *)
LEMMA Meshed ==
    ASSUME NEW q \in Relaxed .. Restrictive, NEW s \in Seq(Load), s # <<>>
    PROVE  LET new == MeshedUpdate(q, s)
               mn == MinChannelLoad(s)
               mx == MaxChannelLoad(s)
           IN  /\ new \in Relaxed .. Restrictive
               /\ new < q => mx < q
               /\ mn = mx /\ mx = 0 => new # Restrictive /\ (q # Restrictive => new = 0)
               /\ mn = mx /\ mx = MaxLoad => new # Relaxed /\ (q # Relaxed => new = MaxLoad)
               /\ mn = mx /\ mx # 0 /\ mx # MaxLoad => new = mx
<1> DEFINE mn == MinChannelLoad(s)
           mx == MaxChannelLoad(s)
           new == MeshedUpdate(q, s)
           act == ActiveState(s)
<1>1. Substates \in Nat \ {0} /\ mn \in 0 .. (Substates + 1) /\ mx \in 0 .. (Substates + 1)
    BY Numbers, Extremes DEF Load, MaxLoad
<1>2. /\ Relaxed = 0 /\ Restrictive = Substates + 1 /\ MaxLoad = Substates + 1 /\ MinLoad = 1
      /\ q \in 0 .. (Substates + 1)
    BY DEF Relaxed, Restrictive, MaxLoad, MinLoad
<1>3. act = IF mx < 1 THEN 1 ELSE IF mx <= Substates THEN mx ELSE Substates
    BY Active
<1>4. new = IF q = Relaxed THEN (IF mn >= MinLoad THEN act ELSE Relaxed)
            ELSE IF q = Restrictive THEN (IF mx < MaxLoad THEN act ELSE Restrictive)
            ELSE IF mx < MinLoad THEN Relaxed
            ELSE IF mn >= MaxLoad THEN Restrictive
            ELSE act
    BY DEF MeshedUpdate
<1> HIDE DEF mn, mx, new, act
<1>5. /\ new \in 0 .. (Substates + 1)
      /\ new < q => mx < q
    BY <1>1, <1>2, <1>3, <1>4
<1>6. /\ mn = mx /\ mx = 0 => new # Substates + 1 /\ (q # Substates + 1 => new = 0)
      /\ mn = mx /\ mx = Substates + 1 => new # 0 /\ (q # 0 => new = Substates + 1)
      /\ mn = mx /\ mx # 0 /\ mx # Substates + 1 => new = mx
    BY <1>1, <1>2, <1>3, <1>4
<1> QED BY <1>2, <1>5, <1>6 DEF mn, mx, new

(* What a sample does to the gradual machine *)
LEMMA Gradual ==
    ASSUME NEW q \in 1 .. Len(Steps), NEW l \in Load
    PROVE  LET new == GradualUpdate(q, l)
               high == l < Steps[q].lower_limit
               low == q < Len(Steps) /\ Steps[q + 1].lower_limit <= l
           IN  /\ new \in 1 .. Len(Steps)
               /\ high => q > 1 /\ new = q - 1
               /\ low => ~high /\ new = q + 1
               /\ ~high /\ ~low => new = q
<1> DEFINE new == GradualUpdate(q, l)
           high == l < Steps[q].lower_limit
           low == q < Len(Steps) /\ Steps[q + 1].lower_limit <= l
<1>1. l \in Nat /\ Len(Steps) \in Nat /\ q \in Nat
    BY Numbers DEF Load, MaxLoad
<1>2. \A k \in 1 .. Len(Steps) : Steps[k].lower_limit \in Nat
    <2>1. \A k \in 1 .. Len(Steps) : Steps[k] \in [lower_limit : Nat, off_time : Nat]
        <3>1. Steps \in Seq([lower_limit : Nat, off_time : Nat])
            BY MachineAssumption
        <3> QED BY <3>1, ElementOfSeq
    <2> QED BY <2>1
<1>3. high => q > 1
    <2>1. Steps[1].lower_limit = 0
        BY MachineAssumption
    <2>2. q = 1 => ~high
        BY <1>1, <2>1
    <2> QED BY <1>1, <2>2
<1>4. low => ~high
    <2> SUFFICES ASSUME low PROVE ~high
        OBVIOUS
    <2>1. q \in 1 .. (Len(Steps) - 1) /\ q + 1 \in 1 .. Len(Steps)
        BY <1>1
    <2>2. Steps[q].lower_limit < Steps[q + 1].lower_limit
        BY <2>1, MachineAssumption
    <2>3. Steps[q].lower_limit \in Nat /\ Steps[q + 1].lower_limit \in Nat
        BY <1>2, <2>1
    <2> QED BY <1>1, <2>2, <2>3
<1>5. Max({q - 1, 1}) = IF q > 1 THEN q - 1 ELSE 1
    <2>1. q - 1 \in Int /\ 1 \in Int
        BY <1>1
    <2>2. Max({q - 1, 1}) = IF q - 1 >= 1 THEN q - 1 ELSE 1
        BY <2>1, Pairs
    <2> QED BY <1>1, <2>2
<1>6. new = IF high THEN Max({q - 1, 1}) ELSE IF low THEN q + 1 ELSE q
    <2>1. CASE high
        BY <1>4, <2>1, Zenon DEF GradualUpdate
    <2>2. CASE low
        BY <1>4, <2>2, Zenon DEF GradualUpdate
    <2>3. CASE ~high /\ ~low
        BY <2>3, Zenon DEF GradualUpdate
    <2> QED BY <1>4, <2>1, <2>2, <2>3
<1>7. low => q < Len(Steps)
    OBVIOUS
<1> HIDE DEF new, high, low
<1>8. /\ new \in 1 .. Len(Steps)
      /\ high => q > 1 /\ new = q - 1
      /\ low => ~high /\ new = q + 1
      /\ ~high /\ ~low => new = q
    BY <1>1, <1>3, <1>4, <1>5, <1>6, <1>7
<1> QED BY <1>8 DEF new, high, low

(* A state that does not fit after a sample did not fit before, and is     *)
(* nearer to the one that does.                                            *)
LEMMA Nearer ==
    ASSUME NEW q \in 1 .. Len(Steps), NEW l \in Load
    PROVE  LET new == GradualUpdate(q, l)
           IN  /\ new \in 1 .. Len(Steps)
               /\ new < Len(Steps) /\ Steps[new + 1].lower_limit <= l =>
                    q < Len(Steps) /\ Steps[q + 1].lower_limit <= l /\ new = q + 1
               /\ l < Steps[new].lower_limit => l < Steps[q].lower_limit /\ new = q - 1
<1> DEFINE new == GradualUpdate(q, l)
           High(k) == l < Steps[k].lower_limit
           Low(k) == k < Len(Steps) /\ Steps[k + 1].lower_limit <= l
<1>1. /\ new \in 1 .. Len(Steps)
      /\ High(q) => q > 1 /\ new = q - 1
      /\ Low(q) => ~High(q) /\ new = q + 1
      /\ ~High(q) /\ ~Low(q) => new = q
    BY Gradual
<1> HIDE DEF new
<1>2. \A k \in 1 .. Len(Steps) : Steps[k].lower_limit \in Nat
    <2>1. Steps \in Seq([lower_limit : Nat, off_time : Nat])
        BY MachineAssumption
    <2>2. \A k \in 1 .. Len(Steps) : Steps[k] \in [lower_limit : Nat, off_time : Nat]
        BY <2>1, ElementOfSeq
    <2> QED BY <2>2
<1>3. l \in Nat /\ Len(Steps) \in Nat /\ q \in Nat
    BY Numbers DEF Load, MaxLoad
<1>4. High(q) => ~Low(q - 1)
    BY <1>2, <1>3
<1>5. Low(q) => ~High(q + 1)
    <2> SUFFICES ASSUME Low(q) PROVE ~High(q + 1)
        OBVIOUS
    <2>1. q + 1 \in 1 .. Len(Steps)
        BY <1>3
    <2>2. Steps[q + 1].lower_limit \in Nat
        BY <1>2, <2>1
    <2> QED BY <1>3, <2>2
<1>6. Low(new) => Low(q) /\ new = q + 1
    BY <1>1, <1>4
<1>7. High(new) => High(q) /\ new = q - 1
    BY <1>1, <1>5
<1> QED BY <1>1, <1>6, <1>7 DEF new

(* The samples after another one *)
LEMMA SampleKept ==
    ASSUME Types, Kept, NEW load \in Load, Sample(load)
    PROVE  /\ samples' \in Seq(Load) /\ samples'[1] = load /\ samples' # <<>>
           /\ Len(samples') <= Len(samples) + 1
           /\ \A k \in 1 .. Len(samples) : k < Len(samples') => samples'[k + 1] = samples[k]
           /\ kind = "meshed" => m_channel_loads' # <<>>
           /\ m_channel_loads' \in Seq(Load) /\ kind' = kind /\ Kept'
<1>1. HistorySamples \in Nat \ {0} /\ Samples \in Nat \ {0} /\ Samples < HistorySamples
    BY Numbers
<1>2. Len(samples) \in Nat /\ Len(m_channel_loads) \in Nat
    BY DEF Types
<1>3. samples' = Push(samples, load, HistorySamples)
    BY DEF Sample, Push
<1>4. /\ samples' \in Seq(Load) /\ samples' # <<>> /\ samples'[1] = load
      /\ Len(samples') = IF Len(samples) + 1 <= HistorySamples THEN Len(samples) + 1
                         ELSE HistorySamples
      /\ \A k \in 1 .. Len(samples) : k < Len(samples') => samples'[k + 1] = samples[k]
    <2>1. samples \in Seq(Load)
        BY DEF Types
    <2> DEFINE n == HistorySamples
               t == Push(samples, load, n)
    <2>2. n \in Nat \ {0}
        BY <1>1
    <2> HIDE DEF n
    <2>3. /\ t \in Seq(Load) /\ t # <<>> /\ t[1] = load
          /\ Len(t) = IF Len(samples) + 1 <= n THEN Len(samples) + 1 ELSE n
          /\ \A k \in 1 .. Len(samples) : k < Len(t) => t[k + 1] = samples[k]
        BY <2>1, <2>2, Pushed
    <2> HIDE DEF t
    <2>4. samples' = t
        BY <1>3 DEF t, n
    <2> QED BY <2>3, <2>4 DEF n
<1>5. Len(samples') <= HistorySamples /\ Len(samples') <= Len(samples) + 1
    BY <1>1, <1>2, <1>4
<1>6. kind' = kind
    BY DEF Sample
<1>7. CASE kind = "gradual"
    <2>1. m_channel_loads' = <<>>
        BY <1>7 DEF Sample
    <2> QED BY <1>4, <1>5, <1>6, <1>7, <2>1 DEF Kept
<1>8. CASE kind = "meshed"
    <2> DEFINE old == m_channel_loads
    <2>1. m_channel_loads' = Push(old, load, Samples)
        BY <1>8 DEF Sample, Sampled, Samples, Push
    <2>2. /\ m_channel_loads' \in Seq(Load) /\ m_channel_loads' # <<>>
          /\ m_channel_loads'[1] = load
          /\ Len(m_channel_loads') = IF Len(old) + 1 <= Samples THEN Len(old) + 1 ELSE Samples
          /\ \A k \in 1 .. Len(old) :
                k < Len(m_channel_loads') => m_channel_loads'[k + 1] = old[k]
        <3>1. old \in Seq(Load)
            BY DEF Types
        <3> DEFINE n == Samples
                   t == Push(old, load, n)
        <3>2. n \in Nat \ {0}
            BY <1>1
        <3> HIDE DEF n, old
        <3>3. /\ t \in Seq(Load) /\ t # <<>> /\ t[1] = load
              /\ Len(t) = IF Len(old) + 1 <= n THEN Len(old) + 1 ELSE n
              /\ \A k \in 1 .. Len(old) : k < Len(t) => t[k + 1] = old[k]
            BY <3>1, <3>2, Pushed
        <3> HIDE DEF t
        <3>4. m_channel_loads' = t
            BY <2>1 DEF t, n
        <3> QED BY <3>3, <3>4 DEF n
    <2>3. /\ Len(old) = IF Len(samples) <= Samples THEN Len(samples) ELSE Samples
          /\ \A k \in 1 .. Len(old) : old[k] = samples[k]
        BY <1>8 DEF Kept
    <2>4. Len(m_channel_loads') = IF Len(samples') <= Samples THEN Len(samples') ELSE Samples
        BY <1>1, <1>2, <1>4, <2>2, <2>3
    <2>5. ASSUME NEW k \in 1 .. Len(m_channel_loads') PROVE m_channel_loads'[k] = samples'[k]
        <3>1. CASE k = 1
            BY <1>4, <2>2, <3>1
        <3>2. CASE k > 1
            <4>1. /\ k - 1 \in 1 .. Len(old) /\ k - 1 < Len(m_channel_loads')
                  /\ k - 1 \in 1 .. Len(samples) /\ k - 1 < Len(samples') /\ (k - 1) + 1 = k
                BY <1>1, <1>2, <1>4, <2>2, <2>3, <2>4, <3>2
            <4>2. m_channel_loads'[(k - 1) + 1] = old[k - 1]
                BY <2>2, <4>1
            <4>3. samples'[(k - 1) + 1] = samples[k - 1]
                BY <1>4, <4>1
            <4> QED BY <2>3, <4>1, <4>2, <4>3
        <3> QED BY <2>2, <3>1, <3>2
    <2> QED BY <1>4, <1>5, <1>6, <1>8, <2>2, <2>4, <2>5 DEF Kept
<1> QED BY <1>7, <1>8 DEF Types

(* The latest samples have been the same before the last one. *)
LEMMA SameBefore ==
    ASSUME Types, Kept, NEW load \in Load, Sample(load), NEW n \in Nat, Same(n + 1)', 0 < n
    PROVE  Same(n) /\ samples[1] = load
<1>1. /\ samples'[1] = load /\ Len(samples') <= Len(samples) + 1
      /\ \A k \in 1 .. Len(samples) : k < Len(samples') => samples'[k + 1] = samples[k]
      /\ samples' \in Seq(Load)
    BY SampleKept
<1>2. /\ Len(samples) \in Nat /\ Len(samples') \in Nat /\ n + 1 <= Len(samples')
      /\ \A k \in 1 .. (n + 1) : samples'[k] = samples'[1]
    BY <1>1 DEF Types, Same
<1>3. ASSUME NEW k \in 1 .. n PROVE samples[k] = load
    <2>1. k \in 1 .. Len(samples) /\ k < Len(samples') /\ k + 1 \in 1 .. (n + 1)
        BY <1>1, <1>2
    <2> QED BY <1>1, <1>2, <2>1
<1>4. n <= Len(samples) /\ 1 \in 1 .. n
    BY <1>1, <1>2
<1> QED BY <1>3, <1>4 DEF Same

(* The machine that holds the latest samples, all of them the same *)
LEMMA SameExtremes ==
    ASSUME Types, Kept, NEW load \in Load, Sample(load), kind = "meshed", Same(Samples)'
    PROVE  MinChannelLoad(m_channel_loads') = load /\ MaxChannelLoad(m_channel_loads') = load
<1> DEFINE s == m_channel_loads'
<1>1. /\ s \in Seq(Load) /\ s # <<>> /\ Kept' /\ kind' = "meshed" /\ samples'[1] = load
    BY SampleKept
<1>2. /\ \A k \in 1 .. Len(s) : s[k] = samples'[k]
      /\ Len(s) = IF Len(samples') <= Samples THEN Len(samples') ELSE Samples
    BY <1>1 DEF Kept
<1>3. Samples \in Nat /\ Samples <= Len(samples') /\ \A k \in 1 .. Samples : samples'[k] = load
    BY <1>1, Numbers DEF Same
<1> HIDE DEF s
<1>4. Len(s) = Samples
    BY <1>1, <1>2, <1>3
<1>5. \A k \in 1 .. Len(s) : s[k] = load
    BY <1>2, <1>3, <1>4
<1>6. UpSamples \in Nat /\ DownSamples \in Nat
    BY Numbers
<1>7. MinChannelLoad(s) \in Latest(s, UpSamples) /\ MaxChannelLoad(s) \in Latest(s, DownSamples)
    BY <1>1, Extremes
<1>8. MinChannelLoad(s) = load /\ MaxChannelLoad(s) = load
    BY <1>1, <1>5, <1>6, <1>7, LatestOf
<1> QED BY <1>8 DEF s

(* The fully meshed machine after a sample *)
LEMMA MeshedStep ==
    ASSUME Types, Kept, MeshedFits, NEW load \in Load, Sample(load), kind = "meshed"
    PROVE  m_state' \in Relaxed .. Restrictive /\ MeshedFits'
<1> DEFINE s == m_channel_loads'
<1>1. /\ s \in Seq(Load) /\ s # <<>> /\ kind' = "meshed" /\ samples'[1] = load
    BY SampleKept
<1>2. m_state \in Relaxed .. Restrictive /\ m_state' = MeshedUpdate(m_state, s)
    BY DEF Types, Sample
<1> HIDE DEF s
<1>3. /\ m_state' \in Relaxed .. Restrictive
      /\ MinChannelLoad(s) = load /\ MaxChannelLoad(s) = load =>
            /\ load = 0 => m_state' # Restrictive /\ (m_state # Restrictive => m_state' = 0)
            /\ load = MaxLoad => m_state' # Relaxed /\ (m_state # Relaxed => m_state' = MaxLoad)
            /\ load # 0 /\ load # MaxLoad => m_state' = load
    BY <1>1, <1>2, Meshed
<1>4. Same(Samples)' =>
            /\ load = 0 => m_state' # Restrictive
            /\ load = MaxLoad => m_state' # Relaxed
            /\ load # 0 /\ load # MaxLoad => m_state' = load
    BY <1>3, SameExtremes DEF s
<1>5. Same(Samples + 1)' => m_state' = load
    <2> SUFFICES ASSUME Same(Samples + 1)' PROVE m_state' = load
        OBVIOUS
    <2>1. Samples \in Nat /\ 0 < Samples
        BY Numbers
    <2>2. Same(Samples) /\ samples[1] = load
        BY <2>1, SameBefore
    <2>3. Same(Samples)'
        BY <2>1 DEF Same
    <2>4. MinChannelLoad(s) = load /\ MaxChannelLoad(s) = load
        BY <2>3, SameExtremes DEF s
    <2>5. (load = 0 => m_state # Restrictive) /\ (load = MaxLoad => m_state # Relaxed)
        BY <2>2 DEF MeshedFits
    <2> QED BY <1>3, <2>4, <2>5
<1> QED BY <1>1, <1>3, <1>4, <1>5 DEF MeshedFits

(* The gradual machine after a sample *)
LEMMA GradualStep ==
    ASSUME Types, Kept, GradualFits, NEW load \in Load, Sample(load), kind = "gradual"
    PROVE  m_state' \in 1 .. Len(Steps) /\ GradualFits'
<1>1. /\ samples' \in Seq(Load) /\ kind' = "gradual" /\ samples'[1] = load
    BY SampleKept
<1>2. m_state \in 1 .. Len(Steps) /\ m_state' = GradualUpdate(m_state, load)
    BY DEF Types, Sample
<1>3. /\ m_state' \in 1 .. Len(Steps)
      /\ m_state' < Len(Steps) /\ Steps[m_state' + 1].lower_limit <= load =>
            /\ m_state < Len(Steps) /\ Steps[m_state + 1].lower_limit <= load
            /\ m_state' = m_state + 1
      /\ load < Steps[m_state'].lower_limit =>
            load < Steps[m_state].lower_limit /\ m_state' = m_state - 1
    BY <1>2, Nearer
<1>4. Len(Steps) \in Nat /\ Len(samples) \in Nat /\ Len(samples') \in Nat
    BY <1>1, Numbers DEF Types
<1>5. ASSUME NEW k \in 1 .. Len(samples'), Same(k)'
      PROVE  /\ m_state' < Len(Steps) /\ Steps[m_state' + 1].lower_limit <= load
                    => k < m_state'
             /\ load < Steps[m_state'].lower_limit => m_state' + k <= Len(Steps)
    <2>1. CASE k = 1
        BY <1>2, <1>3, <1>4, <2>1
    <2>2. CASE k > 1
        <3>1. k - 1 \in Nat /\ 0 < k - 1 /\ (k - 1) + 1 = k
            BY <1>4, <2>2
        <3>2. Same((k - 1) + 1)'
            BY <1>5, <3>1
        <3>3. Same(k - 1) /\ samples[1] = load
            BY <3>1, <3>2, SameBefore
        <3>4. k - 1 \in 1 .. Len(samples)
            BY <1>4, <3>1, <3>3 DEF Same
        <3>5. /\ m_state < Len(Steps) /\ Steps[m_state + 1].lower_limit <= load
                    => k - 1 < m_state
              /\ load < Steps[m_state].lower_limit => m_state + (k - 1) <= Len(Steps)
            BY <3>3, <3>4 DEF GradualFits
        <3> QED BY <1>2, <1>3, <1>4, <3>1, <3>5
    <2> QED BY <1>4, <2>1, <2>2
<1> QED BY <1>1, <1>3, <1>5 DEF GradualFits

-----------------------------------------------------------------------------
(* The budgets *)

(* A message of profile 0 joins the burst, starts one, or replaces the     *)
(* oldest one at the very moment the period ends.                          *)
LEMMA Notified ==
    ASSUME Types, Past, SendUrgent
    PROVE  /\ sent' = Append(sent, now)
           /\ UNCHANGED <<capacity, m_last_tx, limit, now>>
           /\ \/ m_messages = <<>> /\ m_messages' = <<now>>
              \/ /\ m_messages # <<>> /\ Len(m_messages) < capacity
                 /\ m_messages' = Append(m_messages, now)
              \/ /\ m_messages # <<>> /\ m_messages[1] + BurstPeriod <= now
                 /\ m_messages' = <<now>>
              \/ /\ m_messages # <<>> /\ m_messages[1] + BurstPeriod <= now
                 /\ Len(m_messages) = capacity
                 /\ m_messages' = Append(Tail(m_messages), now)
<1> DEFINE m == m_messages
<1>1. /\ m \in Seq(Nat) /\ Len(m) \in Nat /\ capacity \in Nat \ {0} /\ Len(m) <= capacity
      /\ now \in Nat /\ BurstDuration \in Nat /\ BurstPeriod \in Nat
      /\ BurstDuration < BurstPeriod /\ (m # <<>> => m[1] \in Nat)
    BY BurstAssumption DEF Types, Past
<1>2. /\ BurstDelay(m, capacity, now) = 0 /\ sent' = Append(sent, now)
      /\ m_messages' = BurstNotify(Cleared(m, now), capacity, now)
      /\ UNCHANGED <<capacity, m_last_tx, limit, now>>
    BY DEF SendUrgent
<1> HIDE DEF m
<1>3. CASE m = <<>>
    <2>1. Cleared(m, now) = <<>>
        BY <1>3 DEF Cleared
    <2>2. BurstNotify(<<>>, capacity, now) = <<now>>
        BY <1>1 DEF BurstNotify
    <2> QED BY <1>2, <1>3, <2>1, <2>2 DEF m
<1>4. CASE m # <<>> /\ m[1] + BurstPeriod < now
    <2>1. Cleared(m, now) = <<>>
        BY <1>4 DEF Cleared
    <2>2. BurstNotify(<<>>, capacity, now) = <<now>>
        BY <1>1 DEF BurstNotify
    <2>3. m[1] + BurstPeriod <= now
        BY <1>1, <1>4
    <2> QED BY <1>2, <1>4, <2>1, <2>2, <2>3 DEF m
<1>5. CASE m # <<>> /\ ~(m[1] + BurstPeriod < now)
    <2>1. Cleared(m, now) = m
        BY <1>5 DEF Cleared
    <2>2. Len(m) < capacity \/ (Len(m) = capacity /\ m[1] + BurstPeriod = now)
        <3>1. m[1] \in Nat
            BY <1>1, <1>5
        <3>2. ASSUME Len(m) = capacity PROVE m[1] + BurstPeriod = now
            <4>1. ~(Len(m) < capacity)
                BY <1>1, <3>2
            <4>2. BurstDelay(m, capacity, now) = m[1] + BurstPeriod - now
                BY <1>5, <4>1 DEF BurstDelay
            <4>3. m[1] + BurstPeriod - now = 0 /\ now \in Nat /\ BurstPeriod \in Nat
                BY <1>1, <1>2, <4>2
            <4> QED BY <3>1, <4>3
        <3> QED BY <1>1, <3>2
    <2>3. CASE Len(m) < capacity
        <3>1. BurstNotify(m, capacity, now) = Append(m, now)
            BY <1>1, <2>3 DEF BurstNotify
        <3> QED BY <1>2, <1>5, <2>1, <2>3, <3>1 DEF m
    <2>4. CASE Len(m) = capacity /\ m[1] + BurstPeriod = now
        <3>1. BurstNotify(m, capacity, now) = Append(Tail(m), now)
            BY <1>1, <1>5, <2>4 DEF BurstNotify
        <3>2. m[1] + BurstPeriod <= now
            BY <1>1, <2>4
        <3> QED BY <1>2, <1>5, <2>1, <2>4, <3>1, <3>2 DEF m
    <2> QED BY <2>2, <2>3, <2>4
<1> QED BY <1>3, <1>4, <1>5

(* When the period of a burst is over, not all of its messages are from    *)
(* the latest period.                                                      *)
LEMMA FewSent ==
    ASSUME Types, Past, Bursts, m_messages # <<>>, m_messages[1] + BurstPeriod <= now
    PROVE  Len(sent) < Len(m_messages)
<1>1. /\ Len(sent) \in Nat /\ Len(m_messages) \in Nat \ {0} /\ m_messages[1] \in Nat
      /\ now \in Nat /\ BurstPeriod \in Nat /\ sent \in Seq(Nat)
    BY BurstAssumption DEF Types
<1>2. CASE Len(sent) = 0
    BY <1>1, <1>2
<1>3. CASE Len(sent) # 0
    <2>1. 1 \in 1 .. Len(sent) /\ 1 \in 1 .. Len(m_messages)
        BY <1>1, <1>3
    <2>2. sent[1] \in Nat /\ now < sent[1] + BurstPeriod
        BY <1>1, <2>1 DEF Past
    <2>3. m_messages[1] < sent[1]
        BY <1>1, <2>2
    <2>4. Later(m_messages, 1, sent[1])
        BY <2>3 DEF Later
    <2>5. Len(sent) - 1 + 1 <= Len(m_messages) - 1
        BY <2>1, <2>4 DEF Bursts, Follows
    <2> QED BY <1>1, <2>5
<1> QED BY <1>2, <1>3

(* What Append does *)
LEMMA Appended ==
    ASSUME NEW s \in Seq(Nat), NEW x \in Nat
    PROVE  /\ Append(s, x) \in Seq(Nat) /\ Len(Append(s, x)) = Len(s) + 1
           /\ Append(s, x)[Len(s) + 1] = x /\ Append(s, x) # <<>>
           /\ \A k \in 1 .. Len(s) : Append(s, x)[k] = s[k]
BY AppendProperties

(* The same element, not earlier than any, is appended to both. *)
LEMMA AppendedBoth ==
    ASSUME NEW s \in Seq(Nat), NEW m \in Seq(Nat), NEW x \in Nat, Follows(s, m),
           \A i \in 1 .. Len(s) : s[i] <= x
    PROVE  Follows(Append(s, x), Append(m, x))
<1> DEFINE t == Append(s, x)
           r == Append(m, x)
<1>1. /\ Len(s) \in Nat /\ Len(m) \in Nat /\ Len(t) = Len(s) + 1 /\ Len(r) = Len(m) + 1
      /\ t[Len(s) + 1] = x /\ r[Len(m) + 1] = x
      /\ \A k \in 1 .. Len(s) : t[k] = s[k]
      /\ \A k \in 1 .. Len(m) : r[k] = m[k]
    BY Appended
<1> HIDE DEF t, r
<1> SUFFICES ASSUME NEW j \in 1 .. Len(r), NEW i \in 1 .. Len(t), Later(r, j, t[i])
             PROVE  Len(t) - i + 1 <= Len(r) - j
    BY DEF Follows, t, r
<1>2. t[i] <= x /\ t[i] \in Nat
    <2>1. CASE i = Len(s) + 1
        BY <1>1, <2>1
    <2>2. CASE i # Len(s) + 1
        <3>1. i \in 1 .. Len(s)
            BY <1>1, <2>2
        <3>2. s[i] \in Nat /\ s[i] <= x /\ t[i] = s[i]
            BY <1>1, <3>1
        <3> QED BY <3>2
    <2> QED BY <2>1, <2>2
<1>3. j \in 1 .. Len(m)
    <2>1. j = Len(m) + 1 => x < t[i]
        BY <1>1 DEF Later
    <2> QED BY <1>1, <1>2, <2>1
<1>4. CASE i = Len(s) + 1
    BY <1>1, <1>3, <1>4
<1>5. CASE i # Len(s) + 1
    <2>1. i \in 1 .. Len(s) /\ t[i] = s[i]
        BY <1>1, <1>5
    <2>2. ASSUME NEW k \in 1 .. j PROVE m[k] < s[i]
        <3>1. k \in 1 .. Len(m)
            BY <1>1, <1>3
        <3>2. r[k] = m[k] /\ r[k] < t[i]
            BY <1>1, <3>1 DEF Later
        <3> QED BY <2>1, <3>2
    <2>3. Later(m, j, s[i])
        BY <2>2 DEF Later
    <2>4. Len(s) - i + 1 <= Len(m) - j
        BY <1>3, <2>1, <2>3 DEF Follows
    <2> QED BY <1>1, <1>3, <2>1, <2>4
<1> QED BY <1>4, <1>5

(* Messages of profile 0 *)
LEMMA SendUrgentStep ==
    ASSUME Types, Past, Bursts, SendUrgent
    PROVE  m_messages' \in Seq(Nat) /\ sent' \in Seq(Nat) /\ Past' /\ Bursts'
<1> DEFINE m == m_messages
           s == sent
<1>1. /\ m \in Seq(Nat) /\ s \in Seq(Nat) /\ Len(m) \in Nat /\ Len(s) \in Nat /\ now \in Nat
      /\ capacity \in Nat \ {0} /\ Len(m) <= capacity
    BY DEF Types, Past
<1>2. /\ sent' = Append(s, now) /\ UNCHANGED <<capacity, limit, m_last_tx, now>>
      /\ limit' = capacity'
    BY Notified DEF Bursts
<1>3. /\ sent' \in Seq(Nat) /\ Len(sent') = Len(s) + 1 /\ sent' # <<>>
      /\ sent'[Len(s) + 1] = now /\ \A k \in 1 .. Len(s) : sent'[k] = s[k]
    BY <1>1, <1>2, Appended
<1>4. \A i \in 1 .. Len(sent') : sent'[i] <= now' /\ now' < sent'[i] + BurstPeriod
    BY <1>1, <1>2, <1>3, BurstAssumption DEF Past
<1>5. \A i, j \in 1 .. Len(sent') : i <= j => sent'[i] <= sent'[j]
    <2> SUFFICES ASSUME NEW i \in 1 .. Len(sent'), NEW j \in 1 .. Len(sent'), i <= j
                 PROVE  sent'[i] <= sent'[j]
        OBVIOUS
    <2>1. CASE j = Len(s) + 1
        BY <1>2, <1>3, <1>4, <2>1
    <2>2. CASE j # Len(s) + 1
        <3>1. i \in 1 .. Len(s) /\ j \in 1 .. Len(s)
            BY <1>1, <1>3, <2>2
        <3> QED BY <1>3, <3>1 DEF Past
    <2> QED BY <2>1, <2>2
<1>6. ASSUME m_messages' \in Seq(Nat), Len(m_messages') <= capacity,
             \A i \in 1 .. Len(m_messages') : m_messages'[i] <= now
      PROVE  Past'
    BY <1>2, <1>4, <1>5, <1>6 DEF Past
<1>7. ASSUME m_messages' = <<now>>, Len(s) < capacity
      PROVE  m_messages' \in Seq(Nat) /\ Past' /\ Bursts'
    <2>1. /\ m_messages' \in Seq(Nat) /\ Len(m_messages') = 1 /\ m_messages'[1] = now
          /\ m_messages' # <<>>
        BY <1>1, <1>7
    <2>2. Past'
        BY <1>1, <1>6, <2>1
    <2>3. Follows(sent, m_messages)'
        <3> SUFFICES ASSUME NEW i \in 1 .. Len(sent') PROVE ~(m_messages'[1] < sent'[i])
            BY <2>1 DEF Follows, Later
        <3>1. sent'[i] <= now /\ sent'[i] \in Nat
            BY <1>2, <1>3, <1>4
        <3> QED BY <1>1, <2>1, <3>1
    <2>4. Len(sent') < Len(m_messages') + capacity'
        BY <1>1, <1>2, <1>3, <1>7, <2>1
    <2> QED BY <1>2, <2>1, <2>2, <2>3, <2>4 DEF Bursts
<1>8. CASE m = <<>> /\ m_messages' = <<now>>
    <2>1. Len(s) = 0
        BY <1>8 DEF Bursts
    <2> QED BY <1>1, <1>3, <1>7, <1>8, <2>1
<1>9. CASE m # <<>> /\ m[1] + BurstPeriod <= now /\ m_messages' = <<now>>
    <2>1. Len(s) < Len(m)
        BY <1>9, FewSent
    <2> QED BY <1>1, <1>3, <1>7, <1>9, <2>1
<1>10. CASE Len(m) < capacity /\ m_messages' = Append(m, now)
    <2>1. /\ m_messages' \in Seq(Nat) /\ Len(m_messages') = Len(m) + 1 /\ m_messages' # <<>>
          /\ m_messages'[Len(m) + 1] = now /\ \A k \in 1 .. Len(m) : m_messages'[k] = m[k]
        BY <1>1, <1>10, Appended
    <2>2. Past'
        <3>1. Len(m_messages') <= capacity
            BY <1>1, <1>10, <2>1
        <3>2. ASSUME NEW i \in 1 .. Len(m_messages') PROVE m_messages'[i] <= now
            <4>1. CASE i = Len(m) + 1
                BY <1>1, <2>1, <4>1
            <4>2. CASE i # Len(m) + 1
                <5>1. i \in 1 .. Len(m)
                    BY <1>1, <2>1, <4>2
                <5> QED BY <2>1, <5>1 DEF Past
            <4> QED BY <4>1, <4>2
        <3> QED BY <1>6, <2>1, <3>1, <3>2
    <2>3. Follows(sent, m_messages)'
        BY <1>1, <1>2, <1>10, AppendedBoth DEF Bursts, Past
    <2>4. Len(sent') < Len(m_messages') + capacity'
        <3>1. Len(s) < Len(m) + capacity
            BY DEF Bursts
        <3> QED BY <1>1, <1>2, <1>3, <2>1, <3>1
    <2> QED BY <1>2, <1>3, <2>1, <2>2, <2>3, <2>4 DEF Bursts
<1>11. CASE /\ m # <<>> /\ m[1] + BurstPeriod <= now /\ Len(m) = capacity
            /\ m_messages' = Append(Tail(m), now)
    <2> DEFINE t == Tail(m)
    <2>1. /\ t \in Seq(Nat) /\ Len(t) = Len(m) - 1 /\ Len(t) \in Nat
          /\ \A k \in 1 .. Len(t) : t[k] = m[k + 1]
        BY <1>1, <1>11, HeadTailProperties
    <2> HIDE DEF t
    <2>2. /\ m_messages' \in Seq(Nat) /\ Len(m_messages') = Len(t) + 1 /\ m_messages' # <<>>
          /\ m_messages'[Len(t) + 1] = now /\ \A k \in 1 .. Len(t) : m_messages'[k] = t[k]
        BY <1>1, <1>11, <2>1, Appended, ZenonT(20) DEF t
    <2>3. Past'
        <3>1. Len(m_messages') <= capacity
            BY <1>1, <1>11, <2>1, <2>2
        <3>2. ASSUME NEW i \in 1 .. Len(m_messages') PROVE m_messages'[i] <= now
            <4>1. CASE i = Len(t) + 1
                BY <1>1, <2>2, <4>1
            <4>2. CASE i # Len(t) + 1
                <5>1. i \in 1 .. Len(t) /\ i + 1 \in 1 .. Len(m)
                    BY <1>1, <2>1, <2>2, <4>2
                <5> QED BY <2>1, <2>2, <5>1 DEF Past
            <4> QED BY <4>1, <4>2
        <3> QED BY <1>6, <2>2, <3>1, <3>2
    <2>4. Follows(s, t)
        <3> SUFFICES ASSUME NEW j \in 1 .. Len(t), NEW i \in 1 .. Len(s), Later(t, j, s[i])
                     PROVE  Len(s) - i + 1 <= Len(t) - j
            BY DEF Follows
        <3>1. j + 1 \in 1 .. Len(m) /\ m[1] \in Nat /\ s[i] \in Nat
            <4>1. m[1] \in Nat /\ s[i] \in Nat
                BY <1>1, <1>11
            <4>2. j + 1 \in 1 .. Len(m)
                BY <1>1, <2>1
            <4> QED BY <4>1, <4>2
        <3>2. ASSUME NEW k \in 1 .. (j + 1) PROVE m[k] < s[i]
            <4>1. CASE k = 1
                <5>1. now < s[i] + BurstPeriod
                    BY DEF Past
                <5> QED BY <1>1, <1>11, <3>1, <4>1, <5>1, BurstAssumption
            <4>2. CASE k # 1
                <5> DEFINE h == k - 1
                <5>1. h \in 1 .. j /\ h \in 1 .. Len(t) /\ h + 1 = k
                    BY <2>1, <4>2
                <5> HIDE DEF h
                <5>2. t[h] < s[i] /\ t[h] = m[h + 1]
                    BY <2>1, <5>1 DEF Later
                <5> QED BY <5>1, <5>2
            <4> QED BY <4>1, <4>2
        <3>3. Len(s) - i + 1 <= Len(m) - (j + 1)
            BY <3>1, <3>2 DEF Bursts, Follows, Later
        <3> QED BY <1>1, <2>1, <3>3
    <2>5. Follows(sent, m_messages)'
        <3>1. Follows(Append(s, now), Append(t, now))
            BY <1>1, <2>1, <2>4, AppendedBoth DEF Past
        <3> QED BY <1>2, <1>11, <3>1 DEF t
    <2>6. Len(sent') < Len(m_messages') + capacity'
        <3>1. Len(s) < Len(m)
            BY <1>11, FewSent
        <3> QED BY <1>1, <1>2, <1>3, <1>11, <2>1, <2>2, <3>1
    <2> QED BY <1>2, <1>3, <2>2, <2>3, <2>5, <2>6 DEF Bursts
<1> QED BY <1>3, <1>8, <1>9, <1>10, <1>11, Notified

(* Records and as many messages are dropped from the ends of m and s, or   *)
(* records are added: what m and s become.                                 *)
Resize(s, m, t, r) ==
    /\ Len(t) <= Len(s)
    /\ \A i \in 1 .. Len(t) : t[i] = s[i]
    /\ \A k \in 1 .. Len(r) : k <= Len(m) => r[k] = m[k]
    /\ Len(r) < Len(m) /\ Len(t) # 0 => Len(t) = Len(s) - (Len(m) - Len(r))
    /\ ~(Len(r) < Len(m)) => Len(t) = Len(s)

(* The messages still follow the records. *)
LEMMA Resized ==
    ASSUME NEW s \in Seq(Nat), NEW m \in Seq(Nat), NEW t \in Seq(Nat), NEW r \in Seq(Nat),
           Follows(s, m), Len(m) = 0 => Len(s) = 0, Resize(s, m, t, r)
    PROVE  Follows(t, r)
<1> SUFFICES ASSUME NEW j \in 1 .. Len(r), NEW i \in 1 .. Len(t), Later(r, j, t[i])
             PROVE  Len(t) - i + 1 <= Len(r) - j
    BY DEF Follows
<1>1. Len(s) \in Nat /\ Len(m) \in Nat /\ Len(t) \in Nat /\ Len(r) \in Nat
    OBVIOUS
<1>2. /\ i \in 1 .. Len(s) /\ t[i] = s[i] /\ Len(t) # 0 /\ Len(m) # 0
      /\ Len(r) < Len(m) => Len(t) = Len(s) - (Len(m) - Len(r))
      /\ ~(Len(r) < Len(m)) => Len(t) = Len(s)
    <2>1. Len(t) <= Len(s) /\ t[i] = s[i]
        BY DEF Resize
    <2>2. Len(t) # 0
        BY <1>1
    <2>3. i \in 1 .. Len(s) /\ Len(m) # 0
        BY <1>1, <2>1, <2>2
    <2> QED BY <2>1, <2>2, <2>3 DEF Resize
<1>3. CASE j <= Len(m)
    <2>1. j \in 1 .. Len(m)
        BY <1>1, <1>3
    <2>2. ASSUME NEW k \in 1 .. j PROVE m[k] < s[i]
        <3>1. k \in 1 .. Len(r) /\ k <= Len(m)
            BY <1>1, <1>3
        <3>2. r[k] = m[k] /\ r[k] < t[i]
            BY <3>1 DEF Later, Resize
        <3> QED BY <1>2, <3>2
    <2>3. Later(m, j, s[i])
        BY <2>2 DEF Later
    <2>4. Len(s) - i + 1 <= Len(m) - j
        BY <1>2, <2>1, <2>3 DEF Follows
    <2> DEFINE ls == Len(s)
               lm == Len(m)
               lt == Len(t)
               lr == Len(r)
    <2>5. /\ ls \in Nat /\ lm \in Nat /\ lt \in Nat /\ lr \in Nat /\ i \in Nat /\ j \in Nat
          /\ ls - i + 1 <= lm - j /\ (lr < lm => lt = ls - (lm - lr)) /\ (~(lr < lm) => lt = ls)
        BY <1>1, <1>2, <2>4
    <2> HIDE DEF ls, lm, lt, lr
    <2>6. lt - i + 1 <= lr - j
        BY <2>5
    <2> QED BY <2>6 DEF lt, lr
<1>4. CASE ~(j <= Len(m))
    <2> DEFINE lm == Len(m)
               lr == Len(r)
    <2>a. j \in 1 .. lr /\ lm \in Nat /\ lm # 0 /\ lr \in Nat /\ ~(j <= lm)
        BY <1>1, <1>2, <1>4
    <2> HIDE DEF lm, lr
    <2>1. lm \in 1 .. lm /\ lm < j
        BY <2>a
    <2>2. ASSUME NEW k \in 1 .. lm PROVE m[k] < s[i]
        <3>1. k \in 1 .. lr /\ k <= lm /\ k \in 1 .. j
            BY <2>a, <2>1
        <3>2. r[k] = m[k] /\ r[k] < t[i]
            BY <3>1 DEF Later, Resize, lm, lr
        <3> QED BY <1>2, <3>2
    <2>3. Later(m, Len(m), s[i])
        BY <2>2 DEF Later, lm
    <2>4. Len(s) - i + 1 <= Len(m) - Len(m)
        BY <1>2, <2>1, <2>3 DEF Follows, lm
    <2> DEFINE ls == Len(s)
    <2>5. ls \in Nat /\ i \in 1 .. ls /\ ls - i + 1 <= lm - lm
        BY <1>1, <1>2, <2>4 DEF lm
    <2> HIDE DEF ls
    <2>6. FALSE
        BY <2>a, <2>5
    <2> QED BY <2>6
<1> QED BY <1>3, <1>4

(* The limit of a burst is changed. *)
LEMMA BurstMessagesStep ==
    ASSUME Types, Past, Bursts, NEW n \in Limits, BurstMessages(n)
    PROVE  /\ m_messages' \in Seq(Nat) /\ capacity' \in Nat \ {0} /\ limit' \in Nat
           /\ sent' \in Seq(Nat) /\ Past' /\ Bursts'
<1> DEFINE m == m_messages
           s == sent
<1>1. /\ n \in Nat \ {0} /\ m \in Seq(Nat) /\ Len(m) \in Nat /\ capacity \in Nat \ {0}
      /\ now \in Nat /\ s \in Seq(Nat) /\ Len(s) \in Nat /\ limit = capacity
    BY BudgetAssumption DEF Types, Bursts
<1>2. /\ m_messages' = [k \in 1 .. n |-> IF k <= Len(m) THEN m[k] ELSE 0]
      /\ capacity' = (IF n > capacity THEN n ELSE capacity)
      /\ limit' = (IF n > limit THEN n ELSE limit)
      /\ sent' = (IF n < Len(m) THEN SubSeq(s, 1, Len(s) - (Len(m) - n)) ELSE s)
      /\ UNCHANGED <<m_last_tx, now>>
    BY DEF BurstMessages
<1>3. \A k \in 1 .. n : m_messages'[k] \in Nat /\ m_messages'[k] <= now
    <2> SUFFICES ASSUME NEW k \in 1 .. n PROVE m_messages'[k] \in Nat /\ m_messages'[k] <= now
        OBVIOUS
    <2>1. m_messages'[k] = IF k <= Len(m) THEN m[k] ELSE 0
        BY <1>2
    <2>2. CASE k <= Len(m)
        <3>1. k \in 1 .. Len(m)
            BY <1>1, <2>2
        <3> QED BY <1>1, <2>1, <2>2, <3>1 DEF Past
    <2>3. CASE ~(k <= Len(m))
        BY <1>1, <2>1, <2>3
    <2> QED BY <2>2, <2>3
<1>4. m_messages' \in Seq(Nat) /\ Len(m_messages') = n
    <2>1. m_messages' = [k \in 1 .. n |-> m_messages'[k]]
        BY <1>2
    <2>2. m_messages' \in [1 .. n -> Nat]
        BY <1>3, <2>1
    <2> HIDE DEF m
    <2> QED BY <1>1, <2>2, IsASeq, LenProperties
<1>5. /\ capacity' \in Nat \ {0} /\ n <= capacity' /\ capacity <= capacity'
      /\ limit' = capacity'
    BY <1>1, <1>2
<1>6. /\ sent' \in Seq(Nat) /\ Len(sent') \in Nat /\ Len(sent') <= Len(s)
      /\ \A i \in 1 .. Len(sent') : i \in 1 .. Len(s) /\ sent'[i] = s[i]
      /\ n < Len(m) /\ Len(sent') # 0 => Len(sent') = Len(s) - (Len(m) - n)
      /\ ~(n < Len(m)) => Len(sent') = Len(s)
    <2>1. CASE ~(n < Len(m))
        BY <1>1, <1>2, <2>1
    <2>2. CASE n < Len(m)
        <3> DEFINE e == Len(s) - (Len(m) - n)
        <3>1. e \in Int /\ e <= Len(s)
            BY <1>1, <2>2
        <3>2. sent' = SubSeq(s, 1, e)
            BY <1>2, <2>2
        <3> HIDE DEF e
        <3>3. CASE e <= 0
            <4>1. sent' = <<>>
                BY <1>1, <3>1, <3>2, <3>3
            <4> QED BY <1>1, <2>2, <4>1
        <3>4. CASE e > 0
            <4>1. sent' \in Seq(Nat) /\ Len(sent') = e /\ \A i \in 1 .. e : sent'[i] = s[i]
                BY <1>1, <3>1, <3>2, <3>4
            <4> QED BY <1>1, <2>2, <3>1, <3>4, <4>1 DEF e
        <3> QED BY <3>1, <3>3, <3>4
    <2> QED BY <2>1, <2>2
<1>7. Past'
    <2>1. \A i \in 1 .. Len(sent') : sent'[i] <= now /\ now < sent'[i] + BurstPeriod
        BY <1>6 DEF Past
    <2>2. \A i, j \in 1 .. Len(sent') : i <= j => sent'[i] <= sent'[j]
        BY <1>6 DEF Past
    <2>3. m_last_tx' # Never => m_last_tx' <= now'
        BY <1>2 DEF Past
    <2>4. now' = now
        BY <1>2
    <2>5. Len(m_messages') <= capacity' /\ \A i \in 1 .. Len(m_messages') : m_messages'[i] <= now'
        BY <1>3, <1>4, <1>5, <2>4
    <2> QED BY <2>1, <2>2, <2>3, <2>4, <2>5, Zenon DEF Past
<1>8. Follows(sent, m_messages)'
    <2>1. \A k \in 1 .. n : k <= Len(m) => m_messages'[k] = m[k]
        BY <1>2
    <2>2. Resize(s, m, sent', m_messages')
        BY <1>4, <1>6, <2>1 DEF Resize
    <2>3. Follows(s, m) /\ (Len(m) = 0 => Len(s) = 0)
        BY <1>1 DEF Bursts
    <2> HIDE DEF m, s
    <2> QED BY <1>1, <1>4, <1>6, <2>2, <2>3, Resized
<1>9. Len(sent') < Len(m_messages') + capacity'
    <2> DEFINE a == Len(m)
               b == Len(s)
               c == capacity
               d == capacity'
               e == Len(sent')
    <2>1. /\ b < a + c /\ c <= d /\ d \in Nat \ {0} /\ e <= b /\ (n < a /\ e # 0 => e = b - (a - n))
          /\ ~(n < a) => e = b
        BY <1>5, <1>6 DEF Bursts
    <2>2. a \in Nat /\ b \in Nat /\ c \in Nat \ {0} /\ e \in Nat /\ n \in Nat \ {0}
        BY <1>1, <1>6
    <2> HIDE DEF a, b, c, d, e
    <2>3. e < n + d
        BY <2>1, <2>2
    <2> QED BY <1>4, <2>3 DEF d, e
<1>10. m_messages' # <<>>
    BY <1>1, <1>4
<1>11. Bursts'
    BY <1>5, <1>8, <1>9, <1>10 DEF Bursts
<1> QED BY <1>1, <1>4, <1>5, <1>6, <1>7, <1>11

(* Time passes: the messages of the latest period are the end of those     *)
(* before.                                                                 *)
LEMMA TickStep ==
    ASSUME Types, Past, Bursts, Tick
    PROVE  sent' \in Seq(Nat) /\ now' \in Nat /\ Past' /\ Bursts'
<1> DEFINE n == Len(sent)
           S == {k \in DOMAIN sent : sent[k] > now' - BurstPeriod} \cup {n + 1}
           first == Min(S)
<1>1. /\ sent \in Seq(Nat) /\ n \in Nat /\ now \in Nat /\ m_messages \in Seq(Nat)
      /\ BurstPeriod \in Nat /\ DOMAIN sent = 1 .. n
      /\ capacity \in Nat \ {0} /\ Len(m_messages) \in Nat
    BY BurstAssumption DEF Types
<1>2. /\ now' = now + 1 /\ sent' = SubSeq(sent, first, n)
      /\ UNCHANGED <<m_messages, capacity, limit, m_last_tx>>
    BY DEF Tick
<1>3. S \subseteq 1 .. (n + 1) /\ S # {} /\ S \subseteq Nat
    BY <1>1
<1>4. first \in S /\ \A y \in S : first <= y
    BY <1>3, MinOf
<1>5. first \in 1 .. (n + 1)
    BY <1>3, <1>4
<1>6. first <= n => sent[first] > now' - BurstPeriod
    BY <1>1, <1>4, <1>5
<1> HIDE DEF first, S
<1>7. /\ sent' \in Seq(Nat) /\ Len(sent') = n + 1 - first /\ Len(sent') \in Nat
      /\ \A i \in 1 .. Len(sent') : sent'[i] = sent[first + i - 1]
    BY <1>1, <1>2, <1>5
<1>8. \A i \in 1 .. Len(sent') : first + i - 1 \in 1 .. n /\ first <= first + i - 1
    BY <1>1, <1>5, <1>7
<1> HIDE DEF n
<1>9. \A i \in 1 .. Len(sent') : sent'[i] <= now' /\ now' < sent'[i] + BurstPeriod
    <2> SUFFICES ASSUME NEW i \in 1 .. Len(sent')
                 PROVE  sent'[i] <= now' /\ now' < sent'[i] + BurstPeriod
        OBVIOUS
    <2> DEFINE k == first + i - 1
    <2>1. k \in 1 .. n /\ first \in 1 .. n /\ first <= k /\ sent'[i] = sent[k]
        BY <1>1, <1>5, <1>7, <1>8
    <2> HIDE DEF k
    <2>2. sent[first] <= sent[k] /\ sent[k] <= now /\ sent[k] \in Nat /\ sent[first] \in Nat
        BY <1>1, <2>1, SMTT(20) DEF Past, n
    <2>3. sent[first] > now' - BurstPeriod
        BY <1>1, <1>6, <2>1
    <2>4. now + 1 < sent[k] + BurstPeriod /\ sent[k] <= now + 1
        <3>1. sent[first] > (now + 1) - BurstPeriod
            BY <1>2, <2>3
        <3> QED BY <1>1, <2>2, <3>1, SMTT(20)
    <2> QED BY <1>2, <2>1, <2>4
<1>10. \A i, j \in 1 .. Len(sent') : i <= j => sent'[i] <= sent'[j]
    <2> SUFFICES ASSUME NEW i \in 1 .. Len(sent'), NEW j \in 1 .. Len(sent'), i <= j
                 PROVE  sent'[i] <= sent'[j]
        OBVIOUS
    <2>1. /\ first + i - 1 \in 1 .. n /\ first + j - 1 \in 1 .. n
          /\ first + i - 1 <= first + j - 1
        BY <1>1, <1>5, <1>7, <1>8
    <2> QED BY <1>7, <2>1 DEF Past, n
<1>11. Past'
    <2>1. \A i \in 1 .. Len(m_messages) : m_messages[i] \in Nat /\ m_messages[i] <= now + 1
        BY <1>1 DEF Past
    <2>2. m_last_tx # Never => m_last_tx <= now + 1
        BY <1>1 DEF Past, Types
    <2>3. Len(m_messages) <= capacity
        BY DEF Past
    <2> QED BY <1>2, <1>9, <1>10, <2>1, <2>2, <2>3 DEF Past
<1>12. Follows(sent, m_messages)'
    <2> SUFFICES ASSUME NEW j \in 1 .. Len(m_messages), NEW i \in 1 .. Len(sent'),
                        Later(m_messages, j, sent'[i])
                 PROVE  Len(sent') - i + 1 <= Len(m_messages) - j
        BY <1>2 DEF Follows, Later
    <2> DEFINE h == first + i - 1
    <2>1. h \in 1 .. n /\ sent'[i] = sent[h] /\ n - h = Len(sent') - i
        BY <1>1, <1>5, <1>7, <1>8
    <2> HIDE DEF h
    <2>2. n - h + 1 <= Len(m_messages) - j
        BY <2>1 DEF Bursts, Follows, n
    <2> QED BY <1>1, <1>7, <2>1, <2>2
<1>13. Len(sent') <= n
    BY <1>1, <1>5, <1>7
<1>14. Bursts'
    <2>1. m_messages = <<>> => sent' = <<>>
        <3>1. m_messages = <<>> => n = 0
            BY DEF Bursts, n
        <3> QED BY <1>1, <1>7, <1>13, <3>1
    <2>2. Len(sent') < Len(m_messages) + capacity
        <3>1. n < Len(m_messages) + capacity
            BY DEF Bursts, n
        <3> QED BY <1>1, <1>7, <1>13, <3>1
    <2>3. limit' = capacity'
        BY <1>2 DEF Bursts
    <2> QED BY <1>2, <1>12, <2>1, <2>2, <2>3 DEF Bursts
<1> QED BY <1>1, <1>2, <1>7, <1>11, <1>14

-----------------------------------------------------------------------------
(* The invariant *)

(* The invariant holds at the start. *)
LEMMA InitInv == ASSUME Init PROVE Inv
<1>1. /\ m_messages = <<>> /\ capacity = Burst /\ limit = Burst /\ m_last_tx = Never
      /\ m_channel_loads = <<>> /\ samples = <<>> /\ now = 0 /\ sent = <<>>
    BY DEF Init
<1>2. \/ kind = "meshed" /\ m_state \in Relaxed .. Restrictive
      \/ kind = "gradual" /\ m_state \in 1 .. Len(Steps)
    BY Numbers DEF Init, Relaxed, Restrictive
<1>3. Types
    BY <1>1, <1>2, BudgetAssumption DEF Types
<1>4. Past
    BY <1>1, BudgetAssumption DEF Past
<1>5. Bursts
    BY <1>1, BudgetAssumption DEF Bursts, Follows
<1>6. Kept
    BY <1>1, Numbers DEF Kept
<1>7. MeshedFits /\ GradualFits
    BY <1>1, Numbers DEF MeshedFits, GradualFits, Same
<1> QED BY <1>3, <1>4, <1>5, <1>6, <1>7 DEF Inv

(* The state machine is left alone. *)
LEMMA MachineKept ==
    ASSUME Inv, UNCHANGED machine
    PROVE  /\ Kept' /\ MeshedFits' /\ GradualFits'
           /\ m_channel_loads' \in Seq(Load) /\ samples' \in Seq(Load)
           /\ \/ kind' = "meshed" /\ m_state' \in Relaxed .. Restrictive
              \/ kind' = "gradual" /\ m_state' \in 1 .. Len(Steps)
<1>1. UNCHANGED <<kind, m_state, m_channel_loads, samples>>
    BY DEF machine
<1>2. Kept' /\ MeshedFits' /\ GradualFits'
    BY <1>1 DEF Inv, Kept, MeshedFits, GradualFits, Same
<1> QED BY <1>1, <1>2 DEF Inv, Types

(* Every step keeps the invariant. *)
LEMMA StepInv == ASSUME Inv, [Next]_vars PROVE Inv'
<1>1. Types /\ Past /\ Bursts /\ Kept /\ MeshedFits /\ GradualFits
    BY DEF Inv
<1>2. CASE SendUrgent
    <2>1. m_messages' \in Seq(Nat) /\ sent' \in Seq(Nat) /\ Past' /\ Bursts'
        BY <1>1, <1>2, SendUrgentStep
    <2>2. UNCHANGED <<capacity, m_last_tx, limit, now, machine>>
        BY <1>2 DEF SendUrgent
    <2>3. Types'
        BY <1>1, <2>1, <2>2, MachineKept DEF Types
    <2> QED BY <2>1, <2>2, <2>3, MachineKept DEF Inv
<1>3. CASE Send
    <2>1. m_last_tx' = now /\ UNCHANGED <<m_messages, capacity, limit, sent, machine, now>>
        BY <1>3 DEF Send
    <2>2. now \in Nat
        BY <1>1 DEF Types
    <2>3. Types'
        BY <1>1, <2>1, MachineKept DEF Types
    <2>4. Past' /\ Bursts'
        BY <1>1, <2>1, <2>2 DEF Past, Bursts, Follows, Later
    <2> QED BY <2>1, <2>3, <2>4, MachineKept DEF Inv
<1>4. CASE Tick
    <2>1. sent' \in Seq(Nat) /\ now' \in Nat /\ Past' /\ Bursts'
        BY <1>1, <1>4, TickStep
    <2>2. UNCHANGED <<m_messages, capacity, m_last_tx, limit, machine>>
        BY <1>4 DEF Tick
    <2>3. Types'
        BY <1>1, <2>1, <2>2, MachineKept DEF Types
    <2> QED BY <2>1, <2>2, <2>3, MachineKept DEF Inv
<1>5. ASSUME NEW n \in Limits, BurstMessages(n) PROVE Inv'
    <2>1. /\ m_messages' \in Seq(Nat) /\ capacity' \in Nat \ {0} /\ limit' \in Nat
          /\ sent' \in Seq(Nat) /\ Past' /\ Bursts'
        BY <1>1, <1>5, BurstMessagesStep
    <2>2. UNCHANGED <<m_last_tx, machine, now>>
        BY <1>5 DEF BurstMessages
    <2>3. Types'
        BY <1>1, <2>1, <2>2, MachineKept DEF Types
    <2> QED BY <2>1, <2>2, <2>3, MachineKept DEF Inv
<1>6. ASSUME NEW load \in Load, Sample(load) PROVE Inv'
    <2>1. UNCHANGED <<m_messages, capacity, m_last_tx, limit, sent, now, kind>>
        BY <1>6 DEF Sample, budgets
    <2>2. Past' /\ Bursts'
        BY <1>1, <2>1 DEF Past, Bursts, Follows, Later
    <2>3. samples' \in Seq(Load) /\ m_channel_loads' \in Seq(Load) /\ Kept'
        BY <1>1, <1>6, SampleKept
    <2>4. CASE kind = "meshed"
        <3>1. m_state' \in Relaxed .. Restrictive /\ MeshedFits' /\ GradualFits'
            BY <1>1, <1>6, <2>1, <2>4, MeshedStep DEF GradualFits
        <3>2. Types'
            BY <1>1, <2>1, <2>3, <2>4, <3>1 DEF Types
        <3> QED BY <2>2, <2>3, <3>1, <3>2 DEF Inv
    <2>5. CASE kind = "gradual"
        <3>1. m_state' \in 1 .. Len(Steps) /\ GradualFits' /\ MeshedFits'
            BY <1>1, <1>6, <2>1, <2>5, GradualStep DEF MeshedFits
        <3>2. Types'
            BY <1>1, <2>1, <2>3, <2>5, <3>1 DEF Types
        <3> QED BY <2>2, <2>3, <3>1, <3>2 DEF Inv
    <2> QED BY <1>1, <2>4, <2>5 DEF Types
<1>7. CASE UNCHANGED vars
    <2>1. UNCHANGED <<m_messages, capacity, m_last_tx, limit, sent, now, machine>>
        BY <1>7 DEF vars, budgets
    <2>2. Types'
        BY <1>1, <2>1, MachineKept DEF Types
    <2>3. Past' /\ Bursts'
        BY <1>1, <2>1 DEF Past, Bursts, Follows, Later
    <2> QED BY <2>1, <2>2, <2>3, MachineKept DEF Inv
<1> QED BY <1>2, <1>3, <1>4, <1>5, <1>6, <1>7 DEF Next

(* Types, the messages of a burst and those of the latest period, the      *)
(* samples and the states that fit them are as stated in every reachable   *)
(* state.                                                                  *)
THEOREM Invariant == Spec => []Inv
<1>1. Init => Inv
    BY InitInv
<1>2. Inv /\ [Next]_vars => Inv'
    BY StepInv
<1> QED BY <1>1, <1>2, PTL DEF Spec

-----------------------------------------------------------------------------
(* Delays *)

(* After the delay of the burst budget a message may be sent. *)
LEMMA BurstDelayEnough ==
    ASSUME NEW m \in Seq(Nat), NEW c \in Nat, NEW t \in Nat, m # <<>> => m[1] <= t
    PROVE  /\ BurstDelay(m, c, t) \in 0 .. BurstPeriod
           /\ BurstDelay(m, c, t + BurstDelay(m, c, t)) = 0
<1> DEFINE d == BurstDelay(m, c, t)
<1>1. BurstPeriod \in Nat
    BY BurstAssumption
<1>2. CASE d = 0
    BY <1>1, <1>2
<1>3. CASE d # 0
    <2>1. m # <<>> /\ ~(m[1] + BurstPeriod < t) /\ d = m[1] + BurstPeriod - t
        BY <1>3 DEF BurstDelay
    <2>2. m[1] \in Nat /\ m[1] <= t
        BY <2>1
    <2> HIDE DEF d
    <2>3. d \in 0 .. BurstPeriod /\ m[1] + BurstPeriod - (t + d) = 0
        BY <1>1, <2>1, <2>2
    <2>4. BurstDelay(m, c, t + d) = 0
        BY <2>3 DEF BurstDelay
    <2> QED BY <2>3, <2>4 DEF d
<1> QED BY <1>2, <1>3

(* So it may after the delay of the state machine budget. *)
LEMMA StateMachineDelayEnough ==
    ASSUME NEW x \in Nat \cup {Never}, NEW i \in Nat, NEW t \in Nat, x # Never => x <= t
    PROVE  /\ StateMachineDelay(x, i, t) \in 0 .. i
           /\ StateMachineDelay(x, i, t + StateMachineDelay(x, i, t)) = 0
<1> DEFINE d == StateMachineDelay(x, i, t)
<1>1. CASE d = 0
    BY <1>1
<1>2. CASE d # 0
    <2>1. x # Never /\ ~(x + i < t) /\ d = x + i - t
        BY <1>2 DEF StateMachineDelay
    <2>2. x \in Nat /\ x <= t
        BY <2>1
    <2> HIDE DEF d
    <2>3. d \in 0 .. i /\ x + i - (t + d) = 0
        BY <2>1, <2>2
    <2>4. StateMachineDelay(x, i, t + d) = 0
        BY <2>3 DEF StateMachineDelay
    <2> QED BY <2>3, <2>4 DEF d
<1> QED BY <1>1, <1>2

(* Who waits for the delay that a budget asks for may send then, and does  *)
(* not wait longer than a burst period or the interval of the state        *)
(* (BurstBudget::delay, StateMachineBudget::delay), for any limits,        *)
(* periods and state machines and whatever was sent before.                *)
THEOREM DelayAlwaysSuffices == Spec => []DelaySuffices
<1>1. Inv => DelaySuffices
    <2> SUFFICES ASSUME Inv PROVE DelaySuffices
        OBVIOUS
    <2>1. /\ m_messages \in Seq(Nat) /\ capacity \in Nat /\ now \in Nat
          /\ m_last_tx \in Nat \cup {Never}
        BY DEF Inv, Types
    <2>2. m_messages # <<>> => m_messages[1] <= now
        <3>1. m_messages # <<>> => 1 \in 1 .. Len(m_messages)
            BY <2>1
        <3> QED BY <3>1 DEF Inv, Past
    <2>3. m_last_tx # Never => m_last_tx <= now
        BY DEF Inv, Past
    <2>4. TransmissionInterval \in Nat
        <3>1. CASE kind = "meshed"
            <4>1. m_state \in 0 .. (Substates + 1) /\ Substates \in Nat
                BY <3>1, Numbers DEF Inv, Types, Relaxed, Restrictive
            <4>2. TransmissionInterval = m_state + 1
                BY <3>1 DEF TransmissionInterval, MeshedInterval
            <4> QED BY <4>1, <4>2
        <3>2. CASE kind = "gradual"
            <4>1. m_state \in 1 .. Len(Steps)
                BY <3>2 DEF Inv, Types
            <4>2. Steps \in Seq([lower_limit : Nat, off_time : Nat])
                BY MachineAssumption
            <4>3. Steps[m_state] \in [lower_limit : Nat, off_time : Nat]
                BY <4>1, <4>2, ElementOfSeq
            <4>4. TransmissionInterval = Steps[m_state].off_time
                BY <3>2 DEF TransmissionInterval
            <4> QED BY <4>3, <4>4
        <3> QED BY <3>1, <3>2 DEF Inv, Types
    <2>5. /\ BurstDelay(m_messages, capacity, now) \in 0 .. BurstPeriod
          /\ BurstDelay(m_messages, capacity, now + BurstDelay(m_messages, capacity, now)) = 0
        BY <2>1, <2>2, BurstDelayEnough
    <2> DEFINE i == TransmissionInterval
    <2> HIDE DEF i
    <2>6. i \in Nat
        BY <2>4 DEF i
    <2>7. /\ StateMachineDelay(m_last_tx, i, now) \in 0 .. i
          /\ StateMachineDelay(m_last_tx, i, now + StateMachineDelay(m_last_tx, i, now)) = 0
        BY <2>1, <2>3, <2>6, StateMachineDelayEnough
    <2> QED BY <2>5, <2>7, Zenon DEF DelaySuffices, i
<1> QED BY <1>1, Invariant, PTL

-----------------------------------------------------------------------------
(* The state machines fit the load *)

(* So many latest samples are the same if the set of them has one element. *)
LEMMA OneIsSame ==
    ASSUME Types, NEW n \in Nat \ {0}, Cardinality(Latest(samples, n)) = 1, n <= Len(samples)
    PROVE  Same(n)
<1>1. samples \in Seq(Load) /\ Len(samples) \in Nat
    BY DEF Types
<1>2. /\ Latest(samples, n) \subseteq Load
      /\ \A k \in 1 .. n : samples[k] \in Latest(samples, n)
    BY <1>1, LatestOf
<1>3. IsFiniteSet(Latest(samples, n))
    <2>1. IsFiniteSet(Load)
        BY Numbers, FS_Interval DEF Load, MaxLoad
    <2> QED BY <1>2, <2>1, FS_Subset
<1>4. PICK x : Latest(samples, n) = {x}
    BY <1>3, FS_Singleton
<1>5. \A k \in 1 .. n : samples[k] = x
    BY <1>2, <1>4
<1> QED BY <1>5 DEF Same

(* Whatever was before, the state fits a load that has been steady         *)
(* (FullyMeshedStateMachine::update, GradualStateMachine::update): after   *)
(* one sample more than the longer observation time, or one sample per     *)
(* state, for any number of sub-states and any table of states.            *)
THEOREM AlwaysFitsSteadyLoad == Spec => []FitsSteadyLoad
<1>1. Inv => FitsSteadyLoad
    <2> SUFFICES ASSUME Inv, Steady
                 PROVE  IF kind = "meshed" THEN m_state = samples[1]
                        ELSE /\ Steps[m_state].lower_limit <= samples[1]
                             /\ m_state < Len(Steps)
                                    => samples[1] < Steps[m_state + 1].lower_limit
        BY DEF FitsSteadyLoad
    <2>1. Cardinality(Latest(samples, SettleSamples)) = 1 /\ Len(samples) >= SettleSamples
        BY DEF Steady
    <2>2. CASE kind = "meshed"
        <3> DEFINE n == Samples + 1
        <3>1. n \in Nat \ {0} /\ SettleSamples = n
            BY <2>2, Numbers DEF SettleSamples, Samples
        <3> HIDE DEF n
        <3>2. n <= Len(samples) /\ Cardinality(Latest(samples, n)) = 1
            BY <2>1, <3>1 DEF Inv, Types
        <3>3. Same(n)
            BY <3>1, <3>2, OneIsSame DEF Inv
        <3> QED BY <2>2, <3>3 DEF Inv, MeshedFits, n
    <2>3. CASE kind = "gradual"
        <3> DEFINE n == Len(Steps)
        <3>1. n \in Nat \ {0} /\ SettleSamples = n /\ m_state \in 1 .. n
            BY <2>3, Numbers DEF SettleSamples, Inv, Types
        <3>2. \A k \in 1 .. n : Steps[k].lower_limit \in Nat
            <4>1. Steps \in Seq([lower_limit : Nat, off_time : Nat])
                BY MachineAssumption
            <4>2. \A k \in 1 .. Len(Steps) : Steps[k] \in [lower_limit : Nat, off_time : Nat]
                BY <4>1, ElementOfSeq
            <4> QED BY <4>2
        <3>3. n <= Len(samples) /\ Cardinality(Latest(samples, n)) = 1 /\ Len(samples) \in Nat
            BY <2>1, <3>1 DEF Inv, Types
        <3>4. Same(n)
            BY <3>1, <3>3, OneIsSame DEF Inv
        <3>5. n \in 1 .. Len(samples) /\ samples[1] \in Nat
            <4>1. samples \in Seq(Load) /\ Load \subseteq Nat
                BY Numbers DEF Inv, Types, Load, MaxLoad
            <4>2. 1 \in 1 .. Len(samples)
                BY <3>1, <3>3
            <4>3. samples[1] \in Load
                BY <4>1, <4>2, ElementOfSeq
            <4>4. samples[1] \in Nat
                BY <4>1, <4>3
            <4> HIDE DEF n
            <4> QED BY <3>1, <3>3, <4>4
        <3>6. /\ m_state < n /\ Steps[m_state + 1].lower_limit <= samples[1] => n < m_state
              /\ samples[1] < Steps[m_state].lower_limit => m_state + n <= n
            BY <2>3, <3>4, <3>5 DEF Inv, GradualFits
        <3>7. Steps[m_state].lower_limit <= samples[1]
            BY <3>1, <3>2, <3>5, <3>6
        <3>8. ASSUME m_state < n PROVE samples[1] < Steps[m_state + 1].lower_limit
            <4>1. m_state + 1 \in 1 .. n
                BY <3>1, <3>8
            <4>2. Steps[m_state + 1].lower_limit \in Nat
                BY <3>2, <4>1
            <4>3. ~(n < m_state)
                BY <3>1
            <4>4. ~(Steps[m_state + 1].lower_limit <= samples[1])
                BY <3>6, <3>8, <4>3
            <4> QED BY <3>5, <4>2, <4>4
        <3> QED BY <2>3, <3>7, <3>8
    <2> QED BY <2>2, <2>3 DEF Inv, Types
<1> QED BY <1>1, Invariant, PTL

(* The fully meshed machine allows more messages only after a quiet time   *)
(* (FullyMeshedStateMachine::update): when its state goes down, all the    *)
(* samples of the time for ramping down are below what the former state is *)
(* for, whichever of the observation times is the longer one.              *)
THEOREM AlwaysRelaxesSlowly == Spec => RelaxesSlowly
<1>1. Inv /\ [Next]_vars =>
        [kind = "meshed" /\ m_state' < m_state =>
            \A load \in Latest(samples', DownSamples) : load < m_state]_vars
    <2> SUFFICES ASSUME Inv, Next, kind = "meshed", m_state' < m_state,
                        NEW x \in Latest(samples', DownSamples)
                 PROVE  x < m_state
        OBVIOUS
    <2>1. m_state \in Relaxed .. Restrictive
        BY DEF Inv, Types
    <2>2. m_state \in Nat
        BY <2>1, Numbers DEF Relaxed, Restrictive
    <2>3. PICK load \in Load : Sample(load)
        <3>1. m_state' # m_state
            BY <2>2
        <3> QED BY <3>1 DEF Next, SendUrgent, Send, Tick, BurstMessages, machine
    <2> DEFINE s == m_channel_loads'
    <2>4. /\ s \in Seq(Load) /\ s # <<>> /\ Kept' /\ kind' = "meshed" /\ samples' \in Seq(Load)
        BY <2>3, SampleKept DEF Inv
    <2>5. m_state' = MeshedUpdate(m_state, s)
        BY <2>3 DEF Sample
    <2>6. /\ \A k \in 1 .. Len(s) : s[k] = samples'[k]
          /\ Len(s) = IF Len(samples') <= Samples THEN Len(samples') ELSE Samples
        BY <2>4 DEF Kept
    <2> HIDE DEF s
    <2>7. MaxChannelLoad(s) < m_state
        BY <2>1, <2>4, <2>5, Meshed
    <2>8. DownSamples \in Nat /\ Samples \in Nat /\ DownSamples <= Samples
        BY Numbers
    <2>9. PICK k \in 1 .. Len(samples') : k <= DownSamples /\ x = samples'[k]
        BY <2>4, <2>8, LatestOf
    <2>10. k \in 1 .. Len(s)
        <3>1. Len(samples') \in Nat /\ Len(s) \in Nat
            BY <2>4
        <3>2. k \in Nat /\ 1 <= k /\ k <= Len(samples') /\ k <= Samples
            BY <2>8, <2>9, <3>1
        <3>3. k <= Len(s)
            BY <2>6, <2>8, <3>1, <3>2
        <3> QED BY <3>1, <3>2, <3>3
    <2>11. x \in Latest(s, DownSamples)
        BY <2>4, <2>6, <2>8, <2>9, <2>10, LatestOf
    <2>12. x <= MaxChannelLoad(s) /\ MaxChannelLoad(s) \in Load /\ x \in Load
        BY <2>4, <2>8, <2>11, Extremes, LatestOf
    <2>13. Load \subseteq Nat
        BY Numbers DEF Load, MaxLoad
    <2> DEFINE top == MaxChannelLoad(s)
               before == m_state
    <2>14. x \in Nat /\ top \in Nat /\ before \in Nat /\ x <= top /\ top < before
        BY <2>2, <2>7, <2>12, <2>13
    <2> HIDE DEF top, before
    <2>15. x < before
        BY <2>14
    <2> QED BY <2>15 DEF before
<1> QED BY <1>1, Invariant, PTL DEF Spec, RelaxesSlowly

-----------------------------------------------------------------------------
(* Bursts are bounded *)

(* Fewer than two bursts of the highest limit are sent in any burst        *)
(* period, besides as many messages as burst_messages erased records of    *)
(* (BurstBudget::delay, notify and burst_messages): the limit may change   *)
(* at any time, up or down.  The variables have their types.               *)
THEOREM BurstsAlwaysBounded == Spec => []BurstBounded
<1>1. Inv => BurstBounded
    <2> SUFFICES ASSUME Inv PROVE BurstBounded
        OBVIOUS
    <2>1. /\ Len(sent) \in Nat /\ Len(m_messages) \in Nat /\ capacity \in Nat
          /\ Len(m_messages) <= capacity /\ Len(sent) < Len(m_messages) + capacity
        BY DEF Inv, Types, Past, Bursts
    <2>2. Len(sent) < 2 * limit
        BY <2>1 DEF Inv, Bursts
    <2>3. Len(m_channel_loads) <= Max({UpSamples, DownSamples})
        <3>1. Len(m_channel_loads) <= Samples
            BY Numbers DEF Inv, Types, Kept
        <3> QED BY <3>1 DEF Samples
    <2>4. m_state \in (IF kind = "meshed" THEN Relaxed .. Restrictive ELSE DOMAIN Steps)
        <3>1. DOMAIN Steps = 1 .. Len(Steps)
            BY MachineAssumption, LenProperties
        <3> QED BY <3>1 DEF Inv, Types
    <2>5. TypeOK
        BY <2>1, <2>3, <2>4 DEF Inv, Types, TypeOK
    <2> QED BY <2>2, <2>5 DEF BurstBounded
<1> QED BY <1>1, Invariant, PTL
=============================================================================
