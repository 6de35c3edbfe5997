------------------------- MODULE CertificatesProof -------------------------
(***************************************************************************)
(* Proofs about certificates.                                              *)
(*                                                                         *)
(* First CertificateValidator, for any certificates, any settings of the   *)
(* validators and any MaxChainDepth: the verdict of the hybrid validator   *)
(* is what the roots vouch for, and what the checks of single certificates *)
(* leave out follows from the nesting along the chain.                     *)
(*                                                                         *)
(* Then CertificateDistribution, for any stations, any truncation of the   *)
(* digests, any size of the request tracker, and any loss, reordering or   *)
(* repetition of messages: what the caches hold has been verified, and no  *)
(* request is forgotten.                                                   *)
(***************************************************************************)
EXTENDS CertificateValidator, CertificateDistribution, CommonLemmas, FiniteSetTheorems

(* Trust store and issuer lookup never hold anything but self-signed and   *)
(* CA certificates, respectively.                                          *)
THEOREM TypeInvariance == Spec => []TypeOK
<1> USE ValidatorAssumption
<1>1. Init => TypeOK
  <2> SUFFICES ASSUME Init PROVE TypeOK
    OBVIOUS
  <2>1. PICK setup \in Setups : content = setup.content /\ config = setup.config
    BY DEF Init
  <2>2. [content |-> content, config |-> config] \in Setups
    BY <2>1, SetupsAssumption
  <2> QED
    BY <2>2 DEF Init, TypeOK
<1>2. TypeOK /\ [Next]_vars => TypeOK'
  <2> SUFFICES ASSUME TypeOK, [Next]_vars PROVE TypeOK'
    OBVIOUS
  <2>1. ASSUME NEW c \in Cert, InsertTrusted(c) PROVE TypeOK'
    BY <2>1 DEF TypeOK, InsertTrusted, IsSelf, IsCa
  <2>2. ASSUME NEW c \in Cert, InsertIssuer(c) PROVE TypeOK'
    BY <2>2 DEF TypeOK, InsertIssuer, IsSelf, IsCa
  <2>3. ASSUME NEW c \in Cert, Clear(c) PROVE TypeOK'
    BY <2>3 DEF TypeOK, Clear, IsSelf, IsCa
  <2>4. ASSUME NEW c \in Cert, content[c].issuer \in Cert, Revoke(content[c].issuer, c) PROVE TypeOK'
    BY <2>4 DEF TypeOK, Revoke, IsSelf, IsCa
  <2>5. CASE Tick
    BY <2>5 DEF TypeOK, Tick, IsSelf, IsCa
  <2>6. CASE Move
    BY <2>6 DEF TypeOK, Move, IsSelf, IsCa
  <2>7. CASE UNCHANGED vars
    BY <2>7 DEF TypeOK, vars, IsSelf, IsCa
  <2> QED
    BY <2>1, <2>2, <2>3, <2>4, <2>5, <2>6, <2>7 DEF Next
<1> QED
  BY <1>1, <1>2, PTL DEF Spec

-----------------------------------------------------------------------------
(* The walk along the chain *)

(* Walk follows the issuers as far as they are known. *)
LEMMA WalkFollows ==
  ASSUME TypeOK, NEW c \in Cert
  PROVE  /\ Walk(c)[0] = c
         /\ \A k \in 0 .. MaxChainDepth : Walk(c)[k] \in Cert \cup {NoCert}
         /\ \A k \in 1 .. MaxChainDepth :
                Walk(c)[k] = IF Walk(c)[k - 1] = NoCert THEN NoCert ELSE FindIssuer(Walk(c)[k - 1])
<1> DEFINE n == MaxChainDepth
           V == Cert \cup {NoCert}
           Step == [p \in (1 .. n) \X V |-> IF p[2] = NoCert THEN NoCert ELSE FindIssuer(p[2])]
           Body(f) == [k \in 0 .. MaxChainDepth |->
                         IF k = 0 THEN c
                         ELSE IF f[k - 1] = NoCert THEN NoCert ELSE FindIssuer(f[k - 1])]
<1>1. n \in Nat /\ c \in V
  BY ValidatorAssumption
<1>2. \A x \in V : FindIssuer(x) \in V
  BY DEF FindIssuer, TypeOK
<1>3. \A k \in 1 .. n, x \in V : Step[<<k, x>>] = IF x = NoCert THEN NoCert ELSE FindIssuer(x)
  OBVIOUS
<1>4. IsStep(Step, n, V)
  BY <1>2, <1>3 DEF IsStep
<1> HIDE DEF Step, V
<1>5. PICK f \in [0 .. n -> V] : Follows(f, Step, n, c)
  <2> HIDE DEF n
  <2> QED
    BY <1>1, <1>4, Recursion
<1>6. f[0] = c /\ \A k \in 1 .. n : f[k] = Step[<<k, f[k - 1]>>]
  BY <1>5 DEF Follows
<1>7. \A k \in 1 .. n : f[k] = IF f[k - 1] = NoCert THEN NoCert ELSE FindIssuer(f[k - 1])
  <2> SUFFICES ASSUME NEW k \in 1 .. n
               PROVE  f[k] = IF f[k - 1] = NoCert THEN NoCert ELSE FindIssuer(f[k - 1])
    OBVIOUS
  <2>1. f[k - 1] \in V
    BY <1>1
  <2> QED
    BY <1>3, <1>6, <2>1
<1>8. f = Body(f)
  <2>1. \A k \in 0 .. n : k = 0 \/ k \in 1 .. n
    BY <1>1
  <2>2. \A k \in 0 .. n : f[k] = Body(f)[k]
    BY <1>6, <1>7, <2>1
  <2> QED
    BY <2>2
<1> DEFINE g == CHOOSE h : h = Body(h)
<1>9. g = Body(g)
  BY <1>8
<1>10. Walk(c) = g
  BY DEF Walk
<1> HIDE DEF g
<1>11. g[0] = c
  BY <1>1, <1>9
<1>12. \A k \in 1 .. n : g[k] = IF g[k - 1] = NoCert THEN NoCert ELSE FindIssuer(g[k - 1])
  <2> SUFFICES ASSUME NEW k \in 1 .. n
               PROVE  g[k] = IF g[k - 1] = NoCert THEN NoCert ELSE FindIssuer(g[k - 1])
    OBVIOUS
  <2>1. k \in 0 .. MaxChainDepth /\ k # 0
    BY <1>1
  <2>2. Body(g)[k] = IF g[k - 1] = NoCert THEN NoCert ELSE FindIssuer(g[k - 1])
    BY <2>1
  <2> QED
    BY <1>9, <2>2
<1>13. \A k \in 0 .. n : g[k] \in V
  <2> DEFINE E == {j \in 0 .. n : g[j] \in V}
  <2>1. 0 \in E
    BY <1>1, <1>11
  <2>2. ASSUME NEW j \in 1 .. n, j - 1 \in E PROVE j \in E
    BY <1>2, <1>12, <2>2 DEF V
  <2> HIDE DEF E, n
  <2>3. \A k \in 0 .. n : k \in E
    BY <1>1, <2>1, <2>2, Upwards
  <2> QED
    BY <2>3 DEF E
<1> QED
  BY <1>10, <1>11, <1>12, <1>13 DEF V

(* On the walk, a certificate is followed by its issuer, if that is known  *)
(* (and then it has one), and otherwise by nothing.                        *)
LEMMA WalkStep ==
  ASSUME TypeOK, NEW c \in Cert, NEW k \in Rounds
  PROVE  /\ k \in 0 .. MaxChainDepth /\ k + 1 \in 0 .. MaxChainDepth
         /\ Walk(c)[k] \in Cert \cup {NoCert}
         /\ Walk(c)[k + 1] # NoCert =>
                /\ Walk(c)[k] \in Cert /\ ~IsSelf(Walk(c)[k])
                /\ "issuers" \in config.has
                /\ Walk(c)[k + 1] = content[Walk(c)[k]].issuer
                /\ Walk(c)[k + 1] \in issuers
         /\ Walk(c)[k] \in Cert /\ "issuers" \in config.has /\ content[Walk(c)[k]].issuer \in issuers
                => Walk(c)[k + 1] = content[Walk(c)[k]].issuer
<1> DEFINE x == Walk(c)[k]
           y == Walk(c)[k + 1]
<1>1. MaxChainDepth \in Nat /\ NoCert \notin Cert /\ Self \notin Cert
  BY ValidatorAssumption
<1>2. k \in 0 .. MaxChainDepth /\ k + 1 \in 1 .. MaxChainDepth /\ (k + 1) - 1 = k
  BY <1>1 DEF Rounds
<1>3. x \in Cert \cup {NoCert} /\ y = IF x = NoCert THEN NoCert ELSE FindIssuer(x)
  BY <1>2, WalkFollows
<1>4. issuers \subseteq Cert
  BY DEF TypeOK
<1> HIDE DEF x, y
<1>5. y # NoCert => /\ x \in Cert /\ ~IsSelf(x) /\ "issuers" \in config.has
                    /\ y = content[x].issuer /\ y \in issuers
  BY <1>1, <1>3, <1>4 DEF FindIssuer, IsSelf
<1>6. x \in Cert /\ "issuers" \in config.has /\ content[x].issuer \in issuers => y = content[x].issuer
  BY <1>1, <1>3 DEF FindIssuer
<1> QED
  BY <1>2, <1>3, <1>5, <1>6 DEF x, y

-----------------------------------------------------------------------------
(* What roots vouch for *)

(* alternative_signature_is_accepted and the primary signature are what    *)
(* the policy demands of a certificate.                                    *)
LEMMA SignedIffAccepted ==
  ASSUME NEW pol, NEW c
  PROVE  VerifyPrimary(c) /\ AlternativeAccepted(pol, c) <=> Signed(pol, c)
<1>1. MaterialState(c) = "None" <=> content[c].altKey = "none" /\ content[c].altSignature = "none"
  BY DEF MaterialState
<1>2. MaterialState(c) \in {"EndEntity", "Authority"} <=>
        /\ content[c].altSignature = "good"
        /\ content[c].altKey = (IF IsAt(c) THEN "none" ELSE "good")
        /\ IsAt(c) \/ IsCa(c) \/ IsSelf(c)
  BY DEF MaterialState
<1> QED
  BY <1>1, <1>2 DEF VerifyPrimary, AlternativeAccepted, Signed, VerifyAlternative

(* The trusted roots that are signed as the policy demands *)
Roots(pol) == {c \in trusted : IsSelf(c) /\ Signed(pol, c)}

(* c is signed, consistent with its issuer and not revoked by it. *)
InOrder(pol, aid, c) ==
    /\ Signed(pol, c)
    /\ "chain" \in config.off \/ CheckConsistency(c, content[c].issuer, aid)
    /\ "crl" \notin config.has \/ <<content[c].issuer, c>> \notin revoked

(* Certificates that known issuers in G vouch for *)
Below(pol, aid, G) ==
    {c \in Cert : content[c].issuer \in G \cap issuers /\ InOrder(pol, aid, c)}

(* The levels of VouchedFor *)
Levels(pol, aid) ==
    CHOOSE Good : Good = [n \in 0 .. (MaxChainDepth - 1) |->
        IF n = 0
        THEN {c \in trusted : IsSelf(c) /\ Signed(pol, c)}
        ELSE Good[n - 1] \cup
             {c \in Cert : /\ content[c].issuer \in Good[n - 1] \cap issuers
                           /\ Signed(pol, c)
                           /\ \/ "chain" \in config.off
                              \/ CheckConsistency(c, content[c].issuer, aid)
                           /\ \/ "crl" \notin config.has
                              \/ <<content[c].issuer, c>> \notin revoked}]

(* The last level holds what roots vouch for. *)
LEMMA VouchedForLevel ==
  ASSUME NEW pol, NEW aid
  PROVE  VouchedFor(pol, aid) = Levels(pol, aid)[MaxChainDepth - 1]
BY DEF VouchedFor, Levels

(* The levels grow from the roots downwards. *)
LEMMA LevelsGrow ==
  ASSUME TypeOK, NEW pol, NEW aid
  PROVE  /\ Levels(pol, aid)[0] = Roots(pol)
         /\ \A n \in Rounds : Levels(pol, aid)[n] \in SUBSET Cert
         /\ \A n \in 1 .. (MaxChainDepth - 1) :
                Levels(pol, aid)[n] = Levels(pol, aid)[n - 1]
                                            \cup Below(pol, aid, Levels(pol, aid)[n - 1])
<1> DEFINE N == MaxChainDepth - 1
           V == SUBSET Cert
           R == Roots(pol)
           Step == [p \in (1 .. N) \X V |-> p[2] \cup Below(pol, aid, p[2])]
           Body(f) == [n \in 0 .. (MaxChainDepth - 1) |->
                         IF n = 0 THEN R ELSE f[n - 1] \cup Below(pol, aid, f[n - 1])]
<1>1. N \in Nat /\ R \in V
  BY ValidatorAssumption DEF Roots, TypeOK
<1>2. \A G \in V : G \cup Below(pol, aid, G) \in V
  BY DEF Below
<1>3. \A k \in 1 .. N, G \in V : Step[<<k, G>>] = G \cup Below(pol, aid, G)
  OBVIOUS
<1>4. IsStep(Step, N, V)
  BY <1>2, <1>3 DEF IsStep
<1> HIDE DEF Step, V, R
<1>5. PICK f \in [0 .. N -> V] : Follows(f, Step, N, R)
  <2> HIDE DEF N
  <2> QED
    BY <1>1, <1>4, Recursion
<1>6. f[0] = R /\ \A k \in 1 .. N : f[k] = Step[<<k, f[k - 1]>>]
  BY <1>5 DEF Follows
<1>7. \A k \in 1 .. N : f[k] = f[k - 1] \cup Below(pol, aid, f[k - 1])
  <2> SUFFICES ASSUME NEW k \in 1 .. N PROVE f[k] = f[k - 1] \cup Below(pol, aid, f[k - 1])
    OBVIOUS
  <2>1. f[k - 1] \in V
    BY <1>1
  <2> QED
    BY <1>3, <1>6, <2>1
<1>8. f = Body(f)
  <2>1. \A k \in 0 .. N : k = 0 \/ k \in 1 .. N
    BY <1>1
  <2>2. \A k \in 0 .. N : f[k] = Body(f)[k]
    BY <1>6, <1>7, <2>1
  <2> QED
    BY <2>2
<1> DEFINE g == CHOOSE h : h = Body(h)
<1>9. g = Body(g)
  BY <1>8
<1>10. Levels(pol, aid) = g
  BY DEF Levels, R, Roots, Below, InOrder
<1> HIDE DEF g
<1>11. g[0] = R
  BY <1>1, <1>9
<1>12. \A k \in 1 .. N : g[k] = g[k - 1] \cup Below(pol, aid, g[k - 1])
  <2> SUFFICES ASSUME NEW k \in 1 .. N PROVE g[k] = g[k - 1] \cup Below(pol, aid, g[k - 1])
    OBVIOUS
  <2>1. k \in 0 .. N /\ k # 0
    BY <1>1
  <2>2. Body(g)[k] = g[k - 1] \cup Below(pol, aid, g[k - 1])
    BY <2>1
  <2> QED
    BY <1>9, <2>2
<1>13. \A k \in 0 .. N : g[k] \in V
  <2> DEFINE E == {j \in 0 .. N : g[j] \in V}
  <2>1. 0 \in E
    BY <1>1, <1>11
  <2>2. ASSUME NEW j \in 1 .. N, j - 1 \in E PROVE j \in E
    <3>1. g[j - 1] \in V
      BY <2>2
    <3> QED
      BY <1>2, <1>12, <3>1
  <2> HIDE DEF E, N
  <2>3. \A k \in 0 .. N : k \in E
    BY <1>1, <2>1, <2>2, Upwards
  <2> QED
    BY <2>3 DEF E
<1> QED
  BY <1>10, <1>11, <1>12, <1>13 DEF V, R, Rounds

(* Levels include each other. *)
LEMMA LevelsInclude ==
  ASSUME TypeOK, NEW pol, NEW aid, NEW n \in Rounds, NEW m \in 0 .. n
  PROVE  Levels(pol, aid)[m] \subseteq Levels(pol, aid)[n]
<1> DEFINE L == Levels(pol, aid)
           E == {j \in 0 .. n : m <= j => L[m] \subseteq L[j]}
<1>1. MaxChainDepth \in Nat /\ n \in Nat /\ n <= MaxChainDepth - 1 /\ m \in Nat
  BY ValidatorAssumption DEF Rounds
<1>2. 0 \in E
  BY <1>1
<1>3. ASSUME NEW j \in 1 .. n, j - 1 \in E PROVE j \in E
  <2>1. j \in 1 .. (MaxChainDepth - 1)
    BY <1>1
  <2>2. L[j - 1] \subseteq L[j]
    BY <2>1, LevelsGrow
  <2> HIDE DEF L
  <2>3. CASE m = j
    BY <1>1, <2>3
  <2>4. CASE m <= j - 1
    BY <1>1, <1>3, <2>2, <2>4
  <2>5. CASE m > j
    BY <1>1, <2>5
  <2> QED
    BY <1>1, <2>3, <2>4, <2>5
<1> HIDE DEF E
<1>4. n \in E
  BY <1>1, <1>2, <1>3, Upwards
<1> QED
  BY <1>1, <1>4 DEF E

(* What is vouched for is a root, or its issuer is vouched for one level   *)
(* above.                                                                  *)
LEMMA LevelsCases ==
  ASSUME TypeOK, NEW pol, NEW aid, NEW n \in Rounds, NEW x \in Levels(pol, aid)[n]
  PROVE  \/ x \in Roots(pol)
         \/ n > 0 /\ x \in Below(pol, aid, Levels(pol, aid)[n - 1])
<1> DEFINE L == Levels(pol, aid)
           R == Roots(pol)
           E == {j \in 0 .. n : x \in L[j] => x \in R \/ (j > 0 /\ x \in Below(pol, aid, L[j - 1]))}
<1>1. MaxChainDepth \in Nat /\ n \in Nat /\ n <= MaxChainDepth - 1
  BY ValidatorAssumption DEF Rounds
<1>2. 0 \in E
  BY <1>1, LevelsGrow
<1>3. ASSUME NEW j \in 1 .. n, j - 1 \in E PROVE j \in E
  <2> SUFFICES ASSUME x \in L[j], x \notin R PROVE x \in Below(pol, aid, L[j - 1])
    BY <1>1
  <2>1. j \in 1 .. (MaxChainDepth - 1) /\ j - 1 \in Rounds
    BY <1>1 DEF Rounds
  <2>2. L[j] = L[j - 1] \cup Below(pol, aid, L[j - 1])
    BY <2>1, LevelsGrow
  <2>3. CASE x \in L[j - 1]
    <3>1. j - 1 > 0 /\ x \in Below(pol, aid, L[(j - 1) - 1])
      BY <1>3, <2>3
    <3>2. (j - 1) - 1 \in 0 .. (j - 1)
      BY <3>1
    <3>3. L[(j - 1) - 1] \subseteq L[j - 1]
      BY <2>1, <3>2, LevelsInclude
    <3> HIDE DEF L
    <3> QED
      BY <3>1, <3>3 DEF Below
  <2> QED
    BY <2>2, <2>3
<1> HIDE DEF E
<1>4. n \in E
  BY <1>1, <1>2, <1>3, Upwards
<1> QED
  BY <1>1, <1>4 DEF E

(* The walk w arrives at a root after k issuers, and everything on its way *)
(* is in order.                                                            *)
Linked(pol, aid, w, j) ==
    /\ w[j] \in Cert /\ InOrder(pol, aid, w[j])
    /\ w[j + 1] = content[w[j]].issuer /\ w[j + 1] \in issuers

Arrives(pol, aid, w, k) ==
    /\ w[k] \in Roots(pol)
    /\ \A j \in 0 .. (k - 1) : Linked(pol, aid, w, j)

(* A walk that arrives at a root starts with what it vouches for. *)
LEMMA ArrivesVouched ==
  ASSUME TypeOK, NEW pol, NEW aid, NEW w, NEW k \in Rounds, Arrives(pol, aid, w, k)
  PROVE  w[0] \in VouchedFor(pol, aid)
<1> DEFINE L == Levels(pol, aid)
           E == {j \in 0 .. k : w[k - j] \in L[j]}
<1>1. MaxChainDepth \in Nat /\ k \in Nat /\ k <= MaxChainDepth - 1
  BY ValidatorAssumption DEF Rounds
<1>2. 0 \in E
  BY <1>1, LevelsGrow DEF Arrives
<1>3. ASSUME NEW j \in 1 .. k, j - 1 \in E PROVE j \in E
  <2>1. /\ j \in 1 .. (MaxChainDepth - 1) /\ k - j \in 0 .. (k - 1)
        /\ (k - j) + 1 = k - (j - 1)
    BY <1>1
  <2>2. Linked(pol, aid, w, k - j)
    BY <2>1 DEF Arrives
  <2> DEFINE x == w[k - j]
             y == w[k - (j - 1)]
  <2>3. /\ x \in Cert /\ InOrder(pol, aid, x)
        /\ y = content[x].issuer /\ y \in issuers
    BY <2>1, <2>2 DEF Linked
  <2>4. y \in L[j - 1]
    BY <1>3
  <2> HIDE DEF x, y
  <2>5. x \in Below(pol, aid, L[j - 1])
    BY <2>3, <2>4 DEF Below
  <2>6. x \in L[j]
    BY <2>1, <2>5, LevelsGrow
  <2> QED
    BY <1>1, <2>6 DEF x
<1>4. k \in E
  <2> HIDE DEF E
  <2> QED
    BY <1>1, <1>2, <1>3, Upwards
<1>5. w[0] \in L[k]
  BY <1>1, <1>4
<1>6. MaxChainDepth - 1 \in Rounds /\ k \in 0 .. (MaxChainDepth - 1)
  BY <1>1 DEF Rounds
<1>7. L[k] \subseteq L[MaxChainDepth - 1]
  BY <1>6, LevelsInclude
<1> QED
  BY <1>5, <1>7, VouchedForLevel

(* The walk from a certificate that a root vouches for arrives there. *)
LEMMA VouchedArrives ==
  ASSUME TypeOK, "issuers" \in config.has, NEW pol, NEW aid, NEW c \in VouchedFor(pol, aid)
  PROVE  \E k \in Rounds : Arrives(pol, aid, Walk(c), k)
<1> SUFFICES ASSUME \A k \in Rounds : ~Arrives(pol, aid, Walk(c), k) PROVE FALSE
  OBVIOUS
<1> DEFINE L == Levels(pol, aid)
           N == MaxChainDepth - 1
           w == Walk(c)
           E == {j \in 0 .. N : w[j] \in L[N - j] /\ \A i \in 0 .. (j - 1) : Linked(pol, aid, w, i)}
<1>1. N \in Nat /\ N \in Rounds /\ Rounds = 0 .. N
  BY ValidatorAssumption DEF Rounds
<1>2. c \in L[N] /\ c \in Cert
  BY <1>1, VouchedForLevel, LevelsGrow
<1>3. 0 \in E
  BY <1>1, <1>2, WalkFollows
<1>4. ASSUME NEW j \in 0 .. N, j \in E
      PROVE  N - j > 0 /\ w[j] \in Below(pol, aid, L[N - j - 1])
  <2>1. N - j \in Rounds /\ j \in Rounds
    BY <1>1
  <2>2. w[j] \in L[N - j] /\ \A i \in 0 .. (j - 1) : Linked(pol, aid, w, i)
    BY <1>4
  <2>3. ~Arrives(pol, aid, w, j)
    BY <2>1
  <2>4. w[j] \notin Roots(pol)
    BY <2>2, <2>3 DEF Arrives
  <2> QED
    BY <2>1, <2>2, <2>4, LevelsCases
<1>5. ASSUME NEW j \in 1 .. N, j - 1 \in E PROVE j \in E
  <2> DEFINE i == j - 1
             x == w[i]
  <2>1. i \in 0 .. N /\ i \in Rounds /\ N - i - 1 = N - j /\ i + 1 = j
    BY <1>1
  <2>2. x \in Below(pol, aid, L[N - j])
    BY <1>4, <1>5, <2>1
  <2>3. x \in Cert /\ InOrder(pol, aid, x) /\ content[x].issuer \in L[N - j]
        /\ content[x].issuer \in issuers
    BY <2>2 DEF Below
  <2>4. w[i + 1] = content[x].issuer
    BY <1>2, <2>1, <2>3, WalkStep
  <2>5. Linked(pol, aid, w, i)
    BY <2>3, <2>4 DEF Linked
  <2>6. w[j] \in L[N - j]
    BY <2>1, <2>3, <2>4
  <2>7. ASSUME NEW h \in 0 .. (j - 1) PROVE Linked(pol, aid, w, h)
    <3>1. CASE h = i
      BY <2>5, <3>1
    <3>2. CASE h # i
      <4>1. h \in 0 .. (i - 1)
        BY <3>2
      <4> QED
        BY <1>5, <4>1
    <3> QED
      BY <3>1, <3>2
  <2>8. j \in 0 .. N
    BY <1>1
  <2> QED
    BY <2>6, <2>7, <2>8
<1>6. N \in E
  <2> HIDE DEF E, N
  <2> QED
    BY <1>1, <1>3, <1>5, Upwards
<1>7. N - N > 0
  BY <1>1, <1>4, <1>6
<1> QED
  BY <1>1, <1>7

(* The walk ends with a self-signed certificate. *)
LEMMA WalkEnds ==
  ASSUME TypeOK, NEW c \in Cert, NEW k \in Rounds, IsSelf(Walk(c)[k]),
         NEW j \in 0 .. MaxChainDepth, k < j
  PROVE  Walk(c)[j] = NoCert
<1> DEFINE w == Walk(c)
           E == {i \in 0 .. MaxChainDepth : k < i => w[i] = NoCert}
<1>1. MaxChainDepth \in Nat /\ k \in Nat
  BY ValidatorAssumption DEF Rounds
<1>2. 0 \in E
  BY <1>1
<1>3. ASSUME NEW i \in 1 .. MaxChainDepth, i - 1 \in E PROVE i \in E
  <2>1. i - 1 \in Rounds /\ (i - 1) + 1 = i
    BY <1>1 DEF Rounds
  <2>2. w[i] # NoCert => w[i - 1] \in Cert /\ ~IsSelf(w[i - 1])
    BY <2>1, WalkStep
  <2>3. NoCert \notin Cert
    BY ValidatorAssumption
  <2>4. CASE k < i - 1
    BY <1>3, <2>2, <2>3, <2>4
  <2>5. CASE k = i - 1
    BY <2>2, <2>5
  <2>6. CASE ~(k < i)
    BY <1>1, <2>6
  <2> QED
    BY <1>1, <2>4, <2>5, <2>6
<1>4. j \in E
  <2> HIDE DEF E
  <2> QED
    BY <1>1, <1>2, <1>3, Upwards
<1> QED
  BY <1>4

(* The loops of the validators accept a chain ... *)
Accepted(pol, aid, c) ==
    /\ IsChainAnchored(c) /\ ChainIsConsistent(c, aid) /\ ~ChainIsRevoked(c)
    /\ ChainIsAuthentic(pol, c)

(* ... only if it leads to a root and is in order, *)
LEMMA AcceptedArrives ==
  ASSUME TypeOK, "issuers" \in config.has, NEW pol, NEW aid, NEW c \in Cert,
         Accepted(pol, aid, c)
  PROVE  \E k \in Rounds : Arrives(pol, aid, Walk(c), k)
<1> DEFINE w == Walk(c)
<1>1. PICK k \in Rounds :
        /\ \A j \in 0 .. k : /\ w[j] # NoCert
                             /\ VerifyPrimary(w[j])
                             /\ AlternativeAccepted(pol, w[j])
        /\ IsSelf(w[k])
        /\ w[k] \in trusted
  BY DEF Accepted, ChainIsAuthentic
<1>2. k \in Nat /\ MaxChainDepth \in Nat /\ k <= MaxChainDepth - 1
  BY ValidatorAssumption DEF Rounds
<1>3. \A j \in 0 .. k : w[j] # NoCert /\ Signed(pol, w[j])
  BY <1>1, SignedIffAccepted
<1>4. w[k] \in Roots(pol)
  BY <1>1, <1>2, <1>3 DEF Roots
<1>5. ASSUME NEW j \in 0 .. (k - 1) PROVE Linked(pol, aid, w, j)
  <2>1. j \in Rounds /\ j \in 0 .. k /\ j + 1 \in 0 .. k
    BY <1>2 DEF Rounds
  <2>2. w[j + 1] # NoCert /\ w[j] # NoCert /\ Signed(pol, w[j])
    BY <1>3, <2>1
  <2>3. /\ w[j] \in Cert /\ ~IsSelf(w[j])
        /\ w[j + 1] = content[w[j]].issuer /\ w[j + 1] \in issuers
    BY <2>1, <2>2, WalkStep
  <2>4. "chain" \in config.off \/ CheckConsistency(w[j], w[j + 1], aid)
    BY <2>1, <2>2 DEF Accepted, ChainIsConsistent
  <2>5. "crl" \notin config.has \/ <<content[w[j]].issuer, w[j]>> \notin revoked
    BY <2>1, <2>2, <2>3 DEF Accepted, ChainIsRevoked
  <2>6. InOrder(pol, aid, w[j])
    BY <2>2, <2>3, <2>4, <2>5 DEF InOrder
  <2> QED
    BY <2>3, <2>6 DEF Linked
<1>6. Arrives(pol, aid, w, k)
  BY <1>4, <1>5 DEF Arrives
<1> QED
  BY <1>6

(* ... and they accept every chain that does: they look at nothing beyond  *)
(* the root.                                                               *)
LEMMA ArrivesAccepted ==
  ASSUME TypeOK, NEW pol, NEW aid, NEW c \in Cert,
         NEW k \in Rounds, Arrives(pol, aid, Walk(c), k)
  PROVE  Accepted(pol, aid, c)
<1> DEFINE w == Walk(c)
<1>1. k \in Nat /\ MaxChainDepth \in Nat /\ k <= MaxChainDepth - 1 /\ NoCert \notin Cert
  BY ValidatorAssumption DEF Rounds
<1>2. w[k] \in trusted /\ IsSelf(w[k]) /\ Signed(pol, w[k]) /\ w[k] \in Cert
  BY DEF Arrives, Roots, TypeOK
<1>3. \A j \in 0 .. (k - 1) : /\ w[j] \in Cert /\ InOrder(pol, aid, w[j])
                              /\ w[j + 1] = content[w[j]].issuer
  BY DEF Arrives, Linked
<1>4. \A j \in 0 .. k : w[j] # NoCert /\ Signed(pol, w[j])
  <2> SUFFICES ASSUME NEW j \in 0 .. k PROVE w[j] # NoCert /\ Signed(pol, w[j])
    OBVIOUS
  <2>1. j = k \/ j \in 0 .. (k - 1)
    BY <1>1
  <2> QED
    BY <1>1, <1>2, <1>3, <2>1 DEF InOrder
<1>5. ChainIsAuthentic(pol, c)
  <2>1. \A j \in 0 .. k : VerifyPrimary(w[j]) /\ AlternativeAccepted(pol, w[j])
    BY <1>4, SignedIffAccepted
  <2> QED
    BY <1>2, <1>4, <2>1 DEF ChainIsAuthentic
<1>6. IsChainAnchored(c)
  BY <1>1, <1>2 DEF IsChainAnchored
<1>7. ASSUME NEW j \in Rounds, w[j] # NoCert, ~IsSelf(w[j]) PROVE j \in 0 .. (k - 1)
  <2>1. j \in 0 .. MaxChainDepth
    BY <1>1 DEF Rounds
  <2>2. ~(k < j)
    BY <1>2, <1>7, <2>1, WalkEnds
  <2>3. j # k
    BY <1>2, <1>7
  <2> QED
    BY <1>1, <2>1, <2>2, <2>3
<1>8. ChainIsConsistent(c, aid)
  <2> SUFFICES ASSUME NEW j \in Rounds, w[j + 1] # NoCert, "chain" \notin config.off
               PROVE  CheckConsistency(w[j], w[j + 1], aid)
    BY DEF ChainIsConsistent
  <2>1. w[j] \in Cert /\ ~IsSelf(w[j])
    BY WalkStep
  <2>2. j \in 0 .. (k - 1)
    BY <1>1, <1>7, <2>1
  <2> QED
    BY <1>3, <2>2 DEF InOrder
<1>9. ~ChainIsRevoked(c)
  <2> SUFFICES ASSUME "crl" \in config.has, NEW j \in Rounds, w[j] # NoCert, ~IsSelf(w[j])
               PROVE  <<content[w[j]].issuer, w[j]>> \notin revoked
    BY DEF ChainIsRevoked
  <2>1. j \in 0 .. (k - 1)
    BY <1>7
  <2> QED
    BY <1>3, <2>1 DEF InOrder
<1> QED
  BY <1>5, <1>6, <1>8, <1>9 DEF Accepted

(* Given a trust store and a lookup of issuers, the chains that are        *)
(* accepted are those the roots vouch for.                                 *)
LEMMA AcceptedIffVouched ==
  ASSUME TypeOK, "issuers" \in config.has, NEW pol, NEW aid, NEW c \in Cert
  PROVE  Accepted(pol, aid, c) <=> c \in VouchedFor(pol, aid)
<1>1. ASSUME Accepted(pol, aid, c) PROVE c \in VouchedFor(pol, aid)
  <2>1. PICK k \in Rounds : Arrives(pol, aid, Walk(c), k)
    BY <1>1, AcceptedArrives
  <2>2. Walk(c)[0] = c
    BY WalkFollows
  <2>3. Walk(c)[0] \in VouchedFor(pol, aid)
    BY <2>1, ArrivesVouched
  <2> QED
    BY <2>2, <2>3
<1>2. ASSUME c \in VouchedFor(pol, aid) PROVE Accepted(pol, aid, c)
  <2>1. PICK k \in Rounds : Arrives(pol, aid, Walk(c), k)
    BY <1>2, VouchedArrives
  <2> QED
    BY <2>1, ArrivesAccepted
<1> QED
  BY <1>1, <1>2

-----------------------------------------------------------------------------
(* Verdicts *)

(* What PolicyVerdict checks apart from the chain *)
UsableHere(c, aid) ==
    /\ "runtime" \in config.has \/ "time" \in config.off
    /\ {"provider", "checker"} \subseteq config.has \/ "location" \in config.off
    /\ aid \in content[c].app
    /\ "runtime" \in config.has => ValidAtTimepoint(c)
    /\ ~OutsideRegion(c)

Equipped(pol) ==
    /\ {"issuers", "trust", "ecc"} \subseteq config.has
    /\ pol = "ClassicalOnly" \/ "pqc" \in config.has

(* The verdict is Valid if no check fails. *)
LEMMA ValidVerdict ==
  ASSUME NEW pol, NEW c, NEW aid
  PROVE  Verdict(pol, c, aid) = "Valid" <=>
            Equipped(pol) /\ UsableHere(c, aid) /\ Accepted(pol, aid, c)
<1>1. PolicyVerdict(c, aid) = "Valid" <=>
        /\ UsableHere(c, aid)
        /\ IsChainAnchored(c) /\ ChainIsConsistent(c, aid) /\ ~ChainIsRevoked(c)
  BY DEF PolicyVerdict, UsableHere, ValidForApplication
<1>2. Verdict(pol, c, aid) = "Valid" <=>
        PolicyVerdict(c, aid) = "Valid" /\ Equipped(pol) /\ ChainIsAuthentic(pol, c)
  BY DEF Verdict, Equipped
<1> QED
  BY <1>1, <1>2 DEF Accepted

(* The two loops of the policy checks (is_chain_anchored,                  *)
(* chain_is_consistent, chain_is_revoked) and that of chain_is_authentic   *)
(* walk the chain independently and stop in different places; together     *)
(* they accept exactly what the trusted roots vouch for, for chains of any *)
(* length and every combination of settings.                               *)
THEOREM AlwaysValidIffVouchedFor == Spec => []ValidIffVouchedFor
<1>1. TypeOK => ValidIffVouchedFor
  <2> SUFFICES ASSUME TypeOK, NEW pol \in Policy, NEW c \in Cert, NEW aid \in Aid
               PROVE  Verdict(pol, c, aid) = "Valid" <=>
                        Equipped(pol) /\ UsableHere(c, aid) /\ c \in VouchedFor(pol, aid)
    BY DEF ValidIffVouchedFor, Equipped, UsableHere
  <2>1. CASE "issuers" \in config.has
    BY <2>1, ValidVerdict, AcceptedIffVouched
  <2>2. CASE "issuers" \notin config.has
    BY <2>2, ValidVerdict DEF Equipped
  <2> QED
    BY <2>1, <2>2
<1> QED
  BY <1>1, TypeInvariance, PTL

(* HybridRequired accepts nothing that HybridIfPresent rejects, and        *)
(* HybridIfPresent nothing that ClassicalOnly rejects.                     *)
THEOREM PoliciesAlwaysOrdered == Spec => []PolicyOrder
<1>1. TypeOK => PolicyOrder
  <2> SUFFICES ASSUME TypeOK, NEW c \in Cert, NEW aid \in Aid
               PROVE  /\ Verdict("HybridRequired", c, aid) = "Valid"
                            => Verdict("HybridIfPresent", c, aid) = "Valid"
                      /\ Verdict("HybridIfPresent", c, aid) = "Valid"
                            => Verdict("ClassicalOnly", c, aid) = "Valid"
    BY DEF PolicyOrder
  <2>1. /\ \A x : AlternativeAccepted("HybridRequired", x) => AlternativeAccepted("HybridIfPresent", x)
        /\ \A x : AlternativeAccepted("HybridIfPresent", x) => AlternativeAccepted("ClassicalOnly", x)
    BY DEF AlternativeAccepted
  <2>2. /\ ChainIsAuthentic("HybridRequired", c) => ChainIsAuthentic("HybridIfPresent", c)
        /\ ChainIsAuthentic("HybridIfPresent", c) => ChainIsAuthentic("ClassicalOnly", c)
    BY <2>1 DEF ChainIsAuthentic
  <2>3. /\ Equipped("HybridRequired") => Equipped("HybridIfPresent")
        /\ Equipped("HybridIfPresent") => Equipped("ClassicalOnly")
    BY DEF Equipped
  <2> QED
    BY <2>2, <2>3, ValidVerdict DEF Accepted
<1> QED
  BY <1>1, TypeInvariance, PTL

-----------------------------------------------------------------------------
(* Regions *)

(* The contents of a certificate have their types. *)
LEMMA Said ==
  ASSUME TypeOK, NEW c \in Cert
  PROVE  /\ content[c].start \in Nat /\ content[c].count \in Nat
         /\ content[c].unit \in {"fraction", "second", "year"}
         /\ HasRegion(c) => /\ content[c].region.shape \in {"circle", "rectangles", "polygon"}
                            /\ content[c].region.lo \in Int /\ content[c].region.hi \in Int
         /\ place \in Int
<1> DEFINE setup == [content |-> content, config |-> config]
<1>1. setup \in Setups /\ setup.content = content
  BY DEF TypeOK
<1> HIDE DEF setup
<1> QED
  BY <1>1, SetupsAssumption DEF TypeOK, HasRegion

(* A place in the region of a certificate is in that of its issuer, too.   *)
LEMMA WithinIssuer ==
  ASSUME TypeOK, NEW c \in Cert, NEW i \in Cert, RegionIsWithin(c, i), ValidAtLocation(c)
  PROVE  ValidAtLocation(i)
<1> SUFFICES ASSUME HasRegion(i)
             PROVE  content[i].region.lo <= place /\ place <= content[i].region.hi
  BY DEF ValidAtLocation
<1>1. HasRegion(c)
  BY DEF RegionIsWithin
<1>2. content[c].region.lo <= place /\ place <= content[c].region.hi
  BY <1>1 DEF ValidAtLocation
<1>3. /\ content[c].region.lo \in Int /\ content[c].region.hi \in Int /\ place \in Int
      /\ content[i].region.lo \in Int /\ content[i].region.hi \in Int
      /\ content[i].region.shape \in {"circle", "rectangles", "polygon"}
  BY <1>1, Said
<1>4. \/ content[i].region.lo <= content[c].region.lo /\ content[c].region.hi <= content[i].region.hi
      \/ content[c].region = content[i].region
  BY <1>3 DEF RegionIsWithin
<1> QED
  BY <1>2, <1>3, <1>4

(* DefaultLocationChecker is asked about one certificate only; the station *)
(* is in the regions of all of the chain.                                  *)
THEOREM RegionsAlwaysCovered == Spec => []RegionCovered
<1>1. TypeOK => RegionCovered
  <2> SUFFICES ASSUME TypeOK, NEW pol \in Policy, NEW c \in Cert, NEW aid \in Aid,
                      Verdict(pol, c, aid) = "Valid",
                      config.off \cap {"chain", "region", "location"} = {},
                      NEW k \in Rounds, Walk(c)[k] # NoCert
               PROVE  ValidAtLocation(Walk(c)[k])
    BY DEF RegionCovered
  <2> DEFINE w == Walk(c)
             N == MaxChainDepth - 1
             E == {j \in 0 .. N : w[j] # NoCert => ValidAtLocation(w[j])}
  <2>1. N \in Nat /\ Rounds = 0 .. N
    BY ValidatorAssumption DEF Rounds
  <2>2. "issuers" \in config.has /\ ~OutsideRegion(c) /\ ChainIsConsistent(c, aid)
    BY ValidVerdict DEF Equipped, UsableHere, Accepted
  <2>3. ValidAtLocation(c)
    BY <2>2 DEF OutsideRegion, ValidAtLocation
  <2>4. 0 \in E
    BY <2>1, <2>3, WalkFollows
  <2>5. ASSUME NEW j \in 1 .. N, j - 1 \in E PROVE j \in E
    <3> SUFFICES ASSUME w[j] # NoCert PROVE ValidAtLocation(w[j])
      BY <2>1
    <3> DEFINE i == j - 1
    <3>1. i \in Rounds /\ i + 1 = j
      BY <2>1
    <3>2. w[i] \in Cert /\ w[i + 1] \in issuers
      BY <3>1, WalkStep
    <3>3. CheckConsistency(w[i], w[i + 1], aid)
      BY <2>2, <3>1 DEF ChainIsConsistent
    <3>4. RegionIsWithin(w[i], w[i + 1])
      BY <3>3 DEF CheckConsistency
    <3>5. ValidAtLocation(w[i])
      BY <2>5, <3>2, ValidatorAssumption
    <3>6. w[i + 1] \in Cert
      BY <3>2 DEF TypeOK
    <3> HIDE DEF i
    <3>7. ValidAtLocation(w[i + 1])
      BY <3>2, <3>4, <3>5, <3>6, WithinIssuer
    <3> QED
      BY <3>1, <3>7
  <2>6. k \in E
    <3> HIDE DEF E, N
    <3> QED
      BY <2>1, <2>4, <2>5, Upwards
  <2> QED
    BY <2>6
<1> QED
  BY <1>1, TypeInvariance, PTL

-----------------------------------------------------------------------------
(* Validity *)

(* Multiplication is monotonic. *)
LEMMA Times ==
  ASSUME NEW a \in Nat, NEW b \in Nat, NEW m \in Nat, a <= b
  PROVE  a * m <= b * m /\ a * m \in Nat /\ b * m \in Nat /\ m * a <= m * b
OBVIOUS

(* get_start_and_end_validity never finds an end later than the one that   *)
(* valid_at_timepoint checks.                                              *)
LEMMA EndsNoLater ==
  ASSUME TypeOK, NEW c \in Cert
  PROVE  /\ EndValidity(c) \in Nat /\ EndValidity(c) * Second \in Nat
         /\ End(c) \in Nat /\ EndValidity(c) * Second <= End(c)
<1> DEFINE s == content[c].start
           n == content[c].count
           seconds == CASE content[c].unit = "fraction" -> n \div Second
                        [] content[c].unit = "second" -> n
                        [] content[c].unit = "year" -> n * YearNested
           ticks == n * (CASE content[c].unit = "fraction" -> 1
                           [] content[c].unit = "second" -> Second
                           [] content[c].unit = "year" -> YearChecked * Second)
<1>1. /\ s \in Nat /\ n \in Nat /\ content[c].unit \in {"fraction", "second", "year"}
      /\ Second \in Nat /\ Second > 0 /\ TimeModulus \in Nat /\ TimeModulus > 0
      /\ YearNested \in Nat /\ YearChecked \in Nat /\ YearNested <= YearChecked
  BY Said, ValidatorAssumption
<1>2. EndValidity(c) = (s + seconds) % TimeModulus /\ End(c) = s * Second + ticks
  BY DEF EndValidity, End, Start
<1> HIDE DEF s, n
<1>3. seconds \in Nat /\ ticks \in Nat /\ seconds * Second <= ticks
  <2>1. CASE content[c].unit = "fraction"
    <3>1. seconds = n \div Second /\ ticks = n * 1
      BY <2>1
    <3>2. n \div Second \in Nat /\ (n \div Second) * Second <= n
      BY <1>1
    <3> QED
      BY <1>1, <3>1, <3>2
  <2>2. CASE content[c].unit = "second"
    <3>1. seconds = n /\ ticks = n * Second
      BY <2>2
    <3> QED
      BY <1>1, <3>1
  <2>3. CASE content[c].unit = "year"
    <3>1. seconds = n * YearNested /\ ticks = n * (YearChecked * Second)
      BY <2>3
    <3>2. n * YearNested <= n * YearChecked /\ n * YearNested \in Nat /\ n * YearChecked \in Nat
      BY <1>1, Times
    <3>3. (n * YearNested) * Second <= (n * YearChecked) * Second /\ (n * YearChecked) * Second \in Nat
      BY <1>1, <3>2, Times
    <3>4. (n * YearChecked) * Second = n * (YearChecked * Second)
      BY <1>1
    <3> QED
      BY <3>1, <3>2, <3>3, <3>4
  <2> QED
    BY <1>1, <2>1, <2>2, <2>3
<1> HIDE DEF seconds, ticks
<1>4. (s + seconds) % TimeModulus \in Nat /\ (s + seconds) % TimeModulus <= s + seconds
  BY <1>1, <1>3
<1> DEFINE e == (s + seconds) % TimeModulus
<1>5. e * Second <= (s + seconds) * Second /\ e * Second \in Nat
  <2>1. s + seconds \in Nat
    BY <1>1, <1>3
  <2> QED
    BY <1>1, <1>4, <2>1, Times
<1>6. (s + seconds) * Second = s * Second + seconds * Second /\ s * Second \in Nat
      /\ seconds * Second \in Nat
  BY <1>1, <1>3
<1>7. e * Second <= s * Second + ticks /\ s * Second + ticks \in Nat
  <2> DEFINE p == e * Second
             q == s * Second
             t == seconds * Second
             u == (s + seconds) * Second
  <2>1. p \in Nat /\ q \in Nat /\ t \in Nat /\ u = q + t /\ p <= u /\ t <= ticks /\ ticks \in Nat
    BY <1>3, <1>5, <1>6
  <2> HIDE DEF p, q, t, u
  <2>2. p <= q + ticks /\ q + ticks \in Nat
    BY <2>1
  <2> QED
    BY <2>2 DEF p, q
<1> QED
  BY <1>2, <1>4, <1>5, <1>7

(* Issuers start no later than what they issued, and end no earlier as far *)
(* as the comparison in whole seconds tells.                               *)
Nested(x, c) == content[x].start <= content[c].start /\ EndValidity(c) <= EndValidity(x)

(* If x is nested like that and c is valid, x has not ended by more than   *)
(* what the comparison takes off the end of c.                             *)
LEMMA NestedCurrent ==
  ASSUME TypeOK, NEW c \in Cert, NEW x \in Cert, Nested(x, c), ValidAtTimepoint(c)
  PROVE  Start(x) <= now /\ now < End(x) + (End(c) - EndValidity(c) * Second)
<1>1. Second \in Nat /\ now \in Nat /\ content[x].start \in Nat /\ content[c].start \in Nat
  BY Said, ValidatorAssumption DEF TypeOK
<1>2. Start(x) <= Start(c) /\ Start(x) \in Nat /\ Start(c) \in Nat
  BY <1>1, Times DEF Start, Nested
<1> DEFINE a == EndValidity(x) * Second
           b == EndValidity(c) * Second
<1>3. b <= a
  <2>1. EndValidity(x) \in Nat /\ EndValidity(c) \in Nat
    BY EndsNoLater
  <2> QED
    BY <1>1, <2>1, Times DEF Nested
<1>4. a \in Nat /\ b \in Nat /\ a <= End(x) /\ End(x) \in Nat /\ End(c) \in Nat
  BY EndsNoLater
<1> HIDE DEF a, b
<1>5. now < End(x) + (End(c) - b)
  BY <1>1, <1>3, <1>4 DEF ValidAtTimepoint
<1>6. Start(x) <= now
  BY <1>1, <1>2 DEF ValidAtTimepoint
<1> QED
  BY <1>5, <1>6 DEF b

(* valid_at_timepoint is asked about the ticket only; its issuers have     *)
(* started, and are expired by no more than the inexact comparison of      *)
(* their ends explains.                                                    *)
THEOREM ChainsAlwaysCurrent == Spec => []ChainCurrent
<1>1. TypeOK => ChainCurrent
  <2> SUFFICES ASSUME TypeOK, NEW pol \in Policy, NEW c \in Cert, NEW aid \in Aid,
                      Verdict(pol, c, aid) = "Valid", "runtime" \in config.has,
                      "chain" \notin config.off, NEW k \in Rounds, Walk(c)[k] # NoCert
               PROVE  /\ Start(Walk(c)[k]) <= now
                      /\ now < End(Walk(c)[k]) + (End(c) - EndValidity(c) * Second)
    BY DEF ChainCurrent
  <2> DEFINE w == Walk(c)
             N == MaxChainDepth - 1
             E == {j \in 0 .. N : w[j] # NoCert => Nested(w[j], c)}
  <2>1. N \in Nat /\ Rounds = 0 .. N
    BY ValidatorAssumption DEF Rounds
  <2>2. "issuers" \in config.has /\ ValidAtTimepoint(c) /\ ChainIsConsistent(c, aid)
    BY ValidVerdict DEF Equipped, UsableHere, Accepted
  <2>3. 0 \in E
    <3>1. w[0] = c /\ content[c].start \in Nat /\ EndValidity(c) \in Nat
      BY WalkFollows, Said, EndsNoLater
    <3> QED
      BY <2>1, <3>1 DEF Nested
  <2>4. ASSUME NEW j \in 1 .. N, j - 1 \in E PROVE j \in E
    <3> SUFFICES ASSUME w[j] # NoCert PROVE Nested(w[j], c)
      BY <2>1
    <3> DEFINE i == j - 1
               x == w[i]
               y == w[i + 1]
    <3>1. i \in Rounds /\ i + 1 = j
      BY <2>1
    <3>2. x \in Cert /\ y \in issuers
      BY <3>1, WalkStep
    <3>3. CheckConsistency(x, y, aid)
      BY <2>2, <3>1 DEF ChainIsConsistent
    <3>4. Nested(x, c)
      BY <2>4, <3>2, ValidatorAssumption
    <3>5. y \in Cert
      BY <3>2 DEF TypeOK
    <3> HIDE DEF x, y
    <3>6. /\ content[x].start \in Nat /\ content[y].start \in Nat /\ content[c].start \in Nat
          /\ EndValidity(x) \in Nat /\ EndValidity(y) \in Nat /\ EndValidity(c) \in Nat
      BY <3>2, <3>5, Said, EndsNoLater
    <3>7. Nested(y, c)
      BY <3>3, <3>4, <3>6 DEF CheckConsistency, TimeConsistent, Nested
    <3> QED
      BY <3>1, <3>7 DEF y
  <2>5. k \in E
    <3> HIDE DEF E, N
    <3> QED
      BY <2>1, <2>3, <2>4, Upwards
  <2>6. w[k] \in Cert /\ Nested(w[k], c)
    BY <2>5, WalkStep
  <2> QED
    BY <2>2, <2>6, NestedCurrent
<1> QED
  BY <1>1, TypeInvariance, PTL

-----------------------------------------------------------------------------
(* Certificate distribution *)


(* The queues of requests: the list has no repetitions and fits into its   *)
(* room, and the map finds what is in the list.                            *)
Trackers ==
    {t \in [fifo : Seq(HashedId3), lookup : SUBSET HashedId3] :
        Distinct(t.fifo) /\ t.lookup = Range(t.fifo) /\ Len(t.fifo) <= Room}

(* How many requests fit. *)
LEMMA RoomType == Room \in Nat /\ Room >= 1 /\ Limit \in Nat /\ (Limit # 0 => Room = Limit)
  BY LimitAssumption DEF Room

(* What is in a list. *)
LEMMA InRange ==
    ASSUME NEW S, NEW s \in Seq(S)
    PROVE  \A e : e \in Range(s) <=> \E k \in 1 .. Len(s) : s[k] = e
  BY LenProperties DEF Range

(* A list without repetitions has as many elements as it is long. *)
LEMMA DistinctCount ==
    ASSUME NEW S, NEW s \in Seq(S), Distinct(s)
    PROVE  IsFiniteSet(Range(s)) /\ Cardinality(Range(s)) = Len(s)
<1>1. Len(s) \in Nat /\ s \in [1 .. Len(s) -> S]
  BY LenProperties
<1>2. s \in Surjection(1 .. Len(s), Range(s)) /\ s \in Injection(1 .. Len(s), Range(s))
  <2>1. s \in [1 .. Len(s) -> Range(s)]
    BY <1>1 DEF Range
  <2>2. \A e \in Range(s) : \E k \in 1 .. Len(s) : s[k] = e
    BY InRange
  <2> QED
    BY <2>1, <2>2 DEF Surjection, Injection, Distinct, IsInjective
<1>3. IsFiniteSet(1 .. Len(s)) /\ Cardinality(1 .. Len(s)) = Len(s)
  BY <1>1, FS_Interval
<1> QED
  BY <1>2, <1>3, FS_Surjection

(* A list has finitely many elements. *)
LEMMA RangeFinite ==
    ASSUME NEW S, NEW s \in Seq(S)
    PROVE  IsFiniteSet(Range(s))
<1>1. Len(s) \in Nat /\ s \in [1 .. Len(s) -> S]
  BY LenProperties
<1>2. s \in [1 .. Len(s) -> Range(s)]
  BY <1>1 DEF Range
<1>3. \A e \in Range(s) : \E k \in 1 .. Len(s) : s[k] = e
  BY InRange
<1>4. s \in Surjection(1 .. Len(s), Range(s))
  BY <1>2, <1>3 DEF Surjection
<1> QED
  BY <1>1, <1>4, FS_Interval, FS_Surjection

(* The assertions of the class hold for such queues. *)
LEMMA TrackerAgrees ==
    ASSUME NEW t \in Trackers
    PROVE  IsTracker(t)
  BY DistinctCount DEF Trackers, IsTracker, Agree

(* What makes a queue. *)
LEMMA MakeTracker ==
    ASSUME NEW fifo \in Seq(HashedId3), Distinct(fifo), Len(fifo) <= Room
    PROVE  [fifo |-> fifo, lookup |-> Range(fifo)] \in Trackers
<1>1. Range(fifo) \in SUBSET HashedId3
  BY InRange, ElementOfSeq
<1> DEFINE lookup == Range(fifo)
<1> HIDE DEF lookup
<1>2. [fifo |-> fifo, lookup |-> lookup] \in [fifo : Seq(HashedId3), lookup : SUBSET HashedId3]
  BY <1>1 DEF lookup
<1> QED
  BY <1>2 DEF Trackers, lookup

(* A queue is empty at first. *)
LEMMA EmptyIsTracker == EmptyTracker \in Trackers
<1>1. <<>> \in Seq(HashedId3) /\ Len(<<>>) = 0 /\ Distinct(<<>>)
  BY DEF Distinct
<1>2. Range(<<>>) = {}
  BY DEF Range
<1>3. 0 <= Room
  BY RoomType
<1> QED
  BY <1>1, <1>2, <1>3 DEF Trackers, EmptyTracker

(* Without its first d elements a list has none of them. *)
LEMMA SuffixDistinct ==
    ASSUME NEW S, NEW s \in Seq(S), Distinct(s), NEW d \in 0 .. Len(s)
    PROVE  /\ SubSeq(s, d + 1, Len(s)) \in Seq(S)
           /\ Len(SubSeq(s, d + 1, Len(s))) = Len(s) - d
           /\ Distinct(SubSeq(s, d + 1, Len(s)))
           /\ Range(SubSeq(s, d + 1, Len(s))) = Range(s) \ {s[k] : k \in 1 .. d}
<1> DEFINE t == SubSeq(s, d + 1, Len(s))
<1>1. Len(s) \in Nat /\ d \in Nat /\ d <= Len(s)
  OBVIOUS
<1>2. t \in Seq(S) /\ Len(t) = Len(s) - d /\ \A j \in 1 .. (Len(s) - d) : t[j] = s[d + j]
  BY SuffixThins
<1> HIDE DEF t
<1>3. Distinct(t)
  <2> SUFFICES ASSUME NEW i \in 1 .. Len(t), NEW j \in 1 .. Len(t), t[i] = t[j] PROVE i = j
    BY DEF Distinct
  <2>1. d + i \in 1 .. Len(s) /\ d + j \in 1 .. Len(s) /\ s[d + i] = s[d + j]
    BY <1>1, <1>2
  <2>2. d + i = d + j
    BY <2>1 DEF Distinct
  <2> QED
    BY <1>1, <1>2, <2>2
<1>4. ASSUME NEW e \in Range(t) PROVE e \in Range(s) \ {s[k] : k \in 1 .. d}
  <2>1. PICK j \in 1 .. Len(t) : t[j] = e
    BY <1>2, InRange
  <2>2. d + j \in 1 .. Len(s) /\ s[d + j] = e
    BY <1>1, <1>2, <2>1
  <2>3. ASSUME NEW k \in 1 .. d, s[k] = e PROVE FALSE
    <3>1. k \in 1 .. Len(s) /\ k # d + j
      BY <1>1, <1>2
    <3> QED
      BY <2>2, <2>3, <3>1 DEF Distinct
  <2>4. e \in Range(s)
    BY <2>2, InRange
  <2> QED
    BY <2>3, <2>4
<1>5. ASSUME NEW e \in Range(s), \A k \in 1 .. d : s[k] # e PROVE e \in Range(t)
  <2>1. PICK k \in 1 .. Len(s) : s[k] = e
    BY InRange
  <2>2. k \notin 1 .. d
    BY <1>5, <2>1
  <2>3. k - d \in 1 .. Len(t) /\ d + (k - d) = k
    BY <1>1, <1>2, <2>2
  <2>4. t[k - d] = e
    BY <1>2, <2>1, <2>3
  <2> QED
    BY <1>2, <2>3, <2>4, InRange
<1>6. Range(t) = Range(s) \ {s[k] : k \in 1 .. d}
  BY <1>4, <1>5
<1> QED
  BY <1>2, <1>3, <1>6 DEF t

(* Another element at the end of a list. *)
LEMMA AppendDistinct ==
    ASSUME NEW S, NEW s \in Seq(S), Distinct(s), NEW e \in S, e \notin Range(s)
    PROVE  /\ Append(s, e) \in Seq(S)
           /\ Len(Append(s, e)) = Len(s) + 1
           /\ Distinct(Append(s, e))
           /\ Range(Append(s, e)) = Range(s) \cup {e}
<1> DEFINE t == Append(s, e)
<1>1. /\ t \in Seq(S) /\ Len(t) = Len(s) + 1 /\ Len(s) \in Nat
      /\ t[Len(s) + 1] = e /\ \A k \in 1 .. Len(s) : t[k] = s[k]
  OBVIOUS
<1>2. \A k \in 1 .. Len(s) : s[k] # e
  BY InRange
<1> HIDE DEF t
<1>3. \A k \in 1 .. Len(t) : k = Len(s) + 1 \/ k \in 1 .. Len(s)
  BY <1>1
<1>4. Distinct(t)
  BY <1>1, <1>2, <1>3 DEF Distinct
<1>5. ASSUME NEW x \in Range(t) PROVE x \in Range(s) \cup {e}
  <2>1. PICK k \in 1 .. Len(t) : t[k] = x
    BY <1>1, InRange
  <2> QED
    BY <1>1, <1>3, <2>1, InRange
<1>6. ASSUME NEW x \in Range(s) \cup {e} PROVE x \in Range(t)
  <2>1. Len(s) + 1 \in 1 .. Len(t) /\ \A k \in 1 .. Len(s) : k \in 1 .. Len(t)
    BY <1>1
  <2>2. \E k \in 1 .. Len(t) : t[k] = x
    BY <1>1, <2>1, InRange
  <2> QED
    BY <1>1, <2>2, InRange
<1>7. Range(t) = Range(s) \cup {e}
  BY <1>5, <1>6
<1> QED
  BY <1>1, <1>4, <1>7 DEF t

(* add_request keeps the queue in order.  Nothing is lost as long as all   *)
(* requests fit.                                                           *)
LEMMA AddRequestType ==
    ASSUME NEW t \in Trackers, NEW id \in HashedId3
    PROVE  /\ AddRequest(t, id) \in Trackers
           /\ Cardinality(t.lookup \cup {id}) <= Room
                => AddRequest(t, id).lookup = t.lookup \cup {id}
<1>1. /\ t.fifo \in Seq(HashedId3) /\ Distinct(t.fifo) /\ t.lookup = Range(t.fifo)
      /\ Len(t.fifo) \in Nat /\ Len(t.fifo) <= Room /\ t.lookup \in SUBSET HashedId3
  BY DEF Trackers
<1>2. CASE id \in t.lookup
  <2>1. AddRequest(t, id) = t /\ t.lookup \cup {id} = t.lookup
    BY <1>2 DEF AddRequest, IsPending
  <2> QED
    BY <2>1
<1>3. CASE id \notin t.lookup
  <2> DEFINE full == Len(t.fifo) >= Limit /\ t.fifo # <<>>
             rest == IF full THEN Tail(t.fifo) ELSE t.fifo
             found == IF full THEN t.lookup \ {Head(t.fifo)} ELSE t.lookup
  <2>1. AddRequest(t, id) = [fifo |-> Append(rest, id), lookup |-> found \cup {id}]
    BY <1>3 DEF AddRequest, IsPending
  <2>2. /\ rest \in Seq(HashedId3) /\ Distinct(rest) /\ found = Range(rest)
        /\ Len(rest) \in Nat /\ Len(rest) + 1 <= Room
    <3>1. CASE full
      <4> DEFINE s == t.fifo
                 tail == SubSeq(s, 2, Len(s))
      <4>1. s \in Seq(HashedId3) /\ Distinct(s) /\ s # <<>> /\ Len(s) \in Nat /\ Len(s) <= Room
        BY <1>1, <3>1
      <4> HIDE DEF s
      <4>2. Tail(s) = tail /\ Head(s) = s[1]
        BY <4>1, TailIsSubSeq
      <4>3. 1 \in 0 .. Len(s) /\ Len(s) >= 1
        BY <4>1, EmptySeq
      <4>4. SubSeq(s, 1 + 1, Len(s)) = tail /\ {s[k] : k \in 1 .. 1} = {s[1]}
        <5>1. 1 .. 1 = {1} /\ 1 + 1 = 2
          OBVIOUS
        <5> QED
          BY <5>1
      <4> HIDE DEF tail
      <4>5. tail \in Seq(HashedId3) /\ Len(tail) = Len(s) - 1 /\ Distinct(tail)
            /\ Range(tail) = Range(s) \ {s[1]}
        <5> DEFINE d == 1
        <5>1. d \in 0 .. Len(s)
          BY <4>3
        <5>2. SubSeq(s, d + 1, Len(s)) = tail /\ {s[k] : k \in 1 .. d} = {s[1]} /\ Len(s) - d = Len(s) - 1
          BY <4>4
        <5> HIDE DEF d
        <5> QED
          BY <4>1, <5>1, <5>2, SuffixDistinct, Zenon
      <4>6. rest = tail /\ found = Range(s) \ {s[1]}
        BY <1>1, <3>1, <4>2 DEF s
      <4>7. Len(tail) \in Nat /\ Len(tail) + 1 <= Room
        BY <4>1, <4>3, <4>5
      <4> QED
        BY <4>5, <4>6, <4>7
    <3>2. CASE ~full
      <4>1. rest = t.fifo /\ found = t.lookup
        BY <3>2
      <4>2. Len(t.fifo) < Room
        <5>1. CASE t.fifo = <<>>
          BY <5>1, RoomType
        <5>2. CASE t.fifo # <<>>
          <6>1. Len(t.fifo) < Limit
            BY <1>1, <3>2, <5>2, RoomType
          <6> QED
            BY <1>1, <6>1, RoomType
        <5> QED
          BY <5>1, <5>2
      <4> QED
        BY <1>1, <4>1, <4>2, RoomType
    <3> QED
      BY <3>1, <3>2
  <2>3. id \notin Range(rest)
    BY <1>3, <2>2
  <2>4. ASSUME Cardinality(t.lookup \cup {id}) <= Room PROVE found = t.lookup
    <3>1. IsFiniteSet(t.lookup) /\ Cardinality(t.lookup) = Len(t.fifo)
      BY <1>1, DistinctCount
    <3>2. Len(t.fifo) + 1 <= Room
      BY <1>3, <2>4, <3>1, FS_AddElement
    <3>3. CASE Limit = 0
      <4>1. Len(t.fifo) = 0
        BY <1>1, <3>2, <3>3 DEF Room
      <4> QED
        BY <1>1, <4>1, EmptySeq
    <3>4. CASE Limit # 0
      <4>1. Len(t.fifo) < Limit
        BY <1>1, <3>2, <3>4, RoomType
      <4> QED
        BY <1>1, <4>1, RoomType
    <3> QED
      BY <3>3, <3>4
  <2> HIDE DEF rest, found
  <2>5. /\ Append(rest, id) \in Seq(HashedId3) /\ Distinct(Append(rest, id))
        /\ Range(Append(rest, id)) = found \cup {id}
        /\ Len(Append(rest, id)) <= Room
    BY <2>2, <2>3, AppendDistinct
  <2> DEFINE list == Append(rest, id)
  <2> HIDE DEF list
  <2>6. [fifo |-> list, lookup |-> Range(list)] \in Trackers
    BY <2>5, MakeTracker DEF list
  <2>7. AddRequest(t, id) = [fifo |-> list, lookup |-> Range(list)] /\ Range(list) = found \cup {id}
    BY <2>1, <2>5 DEF list
  <2> QED
    BY <2>4, <2>6, <2>7
<1> QED
  BY <1>2, <1>3

(* AddRequests is defined for every list of requests. *)
LEMMA AddRequestsSteps ==
    ASSUME NEW t \in Trackers, NEW ids \in Seq(HashedId3)
    PROVE  \E f \in [0 .. Len(ids) -> Trackers] :
                /\ f[0] = t
                /\ \A k \in 1 .. Len(ids) : f[k] = AddRequest(f[k - 1], ids[k])
                /\ AddRequests(t, ids) = f[Len(ids)]
<1> DEFINE n == Len(ids)
           V == Trackers
           Step == [p \in (1 .. n) \X V |-> AddRequest(p[2], ids[p[1]])]
           Body(f) == [k \in 0 .. Len(ids) |-> IF k = 0 THEN t ELSE AddRequest(f[k - 1], ids[k])]
<1>1. n \in Nat /\ \A k \in 1 .. n : ids[k] \in HashedId3
  OBVIOUS
<1>2. IsStep(Step, n, V)
  BY <1>1, AddRequestType DEF IsStep
<1>3. \A k \in 1 .. n : \A u \in V : Step[<<k, u>>] = AddRequest(u, ids[k])
  OBVIOUS
<1> HIDE DEF Step
<1>4. PICK f \in [0 .. n -> V] : f[0] = t /\ \A k \in 1 .. n : f[k] = Step[<<k, f[k - 1]>>]
  <2> HIDE DEF V, n
  <2>1. \E f \in [0 .. n -> V] : Follows(f, Step, n, t)
    <3>1. t \in V
      BY DEF V
    <3> QED
      BY <1>1, <1>2, <3>1, Recursion
  <2> QED
    BY <2>1 DEF Follows
<1>5. \A k \in 1 .. n : f[k] = AddRequest(f[k - 1], ids[k])
  <2>1. \A k \in 1 .. n : f[k - 1] \in V
    BY <1>1
  <2> QED
    BY <1>3, <1>4, <2>1
<1>6. f = Body(f)
  <2>1. \A k \in 0 .. n : k = 0 \/ k \in 1 .. n
    BY <1>1
  <2> QED
    BY <1>4, <1>5, <2>1
<1> DEFINE g == CHOOSE h : h = Body(h)
<1>7. g = Body(g)
  BY <1>6
<1>8. AddRequests(t, ids) = g[Len(ids)]
  BY DEF AddRequests
<1> HIDE DEF g
<1>9. g[0] = t /\ \A k \in 1 .. n : g[k] = AddRequest(g[k - 1], ids[k])
  <2>1. 0 \in 0 .. Len(ids) /\ \A k \in 1 .. n : k \in 0 .. Len(ids) /\ k # 0
    BY <1>1
  <2> QED
    BY <1>7, <2>1
<1>10. \A k \in 0 .. n : g[k] = f[k]
  <2>1. Alike(g, f, n)
    BY <1>4, <1>5, <1>9 DEF Alike
  <2> HIDE DEF n
  <2> QED
    BY <1>1, <2>1, SameRecursion
<1> QED
  BY <1>1, <1>4, <1>5, <1>8, <1>10

(* Adding a list of requests: nothing is lost as long as all fit. *)
LEMMA AddRequestsType ==
    ASSUME NEW t \in Trackers, NEW ids \in Seq(HashedId3)
    PROVE  /\ AddRequests(t, ids) \in Trackers
           /\ Cardinality(t.lookup \cup Range(ids)) <= Room
                => AddRequests(t, ids).lookup = t.lookup \cup Range(ids)
<1>1. PICK f \in [0 .. Len(ids) -> Trackers] :
            /\ f[0] = t
            /\ \A k \in 1 .. Len(ids) : f[k] = AddRequest(f[k - 1], ids[k])
            /\ AddRequests(t, ids) = f[Len(ids)]
  BY AddRequestsSteps
<1>2. Len(ids) \in Nat /\ Len(ids) \in 0 .. Len(ids)
  OBVIOUS
<1>3. ASSUME Cardinality(t.lookup \cup Range(ids)) <= Room
      PROVE  f[Len(ids)].lookup = t.lookup \cup Range(ids)
  <2> DEFINE all == t.lookup \cup Range(ids)
             upTo(k) == t.lookup \cup {ids[j] : j \in 1 .. k}
             E == {k \in 0 .. Len(ids) : f[k].lookup = upTo(k)}
  <2>1. IsFiniteSet(all)
    <3>1. IsFiniteSet(t.lookup)
      BY DistinctCount DEF Trackers
    <3> QED
      BY <3>1, RangeFinite, FS_Union
  <2>2. 0 \in E
    BY <1>1, <1>2
  <2>3. ASSUME NEW k \in 1 .. Len(ids), k - 1 \in E PROVE k \in E
    <3>1. k \in 0 .. Len(ids) /\ k - 1 \in 0 .. Len(ids) /\ ids[k] \in HashedId3
      BY <1>2
    <3>2. f[k - 1] \in Trackers /\ f[k - 1].lookup = upTo(k - 1)
      BY <2>3, <3>1
    <3>3. upTo(k) = upTo(k - 1) \cup {ids[k]}
      <4>1. \A j \in 1 .. k : j = k \/ j \in 1 .. (k - 1)
        BY <1>2
      <4>2. k \in 1 .. k /\ \A j \in 1 .. (k - 1) : j \in 1 .. k
        BY <1>2
      <4> QED
        BY <4>1, <4>2
    <3>4. upTo(k) \subseteq all
      <4>1. \A j \in 1 .. k : j \in 1 .. Len(ids)
        BY <1>2
      <4> QED
        BY <4>1, InRange
    <3>5. Cardinality(upTo(k)) <= Room
      <4> HIDE DEF all, upTo
      <4>1. IsFiniteSet(upTo(k)) /\ Cardinality(upTo(k)) <= Cardinality(all)
        BY <2>1, <3>4, FS_Subset
      <4>2. Cardinality(upTo(k)) \in Nat /\ Cardinality(all) \in Nat
        BY <2>1, <4>1, FS_CardinalityType
      <4> QED
        BY <1>3, <4>1, <4>2, RoomType DEF all
    <3>6. AddRequest(f[k - 1], ids[k]).lookup = upTo(k)
      <4> HIDE DEF upTo
      <4>1. Cardinality(f[k - 1].lookup \cup {ids[k]}) <= Room
        BY <3>2, <3>3, <3>5
      <4> QED
        BY <3>1, <3>2, <3>3, <4>1, AddRequestType
    <3> QED
      BY <1>1, <3>1, <3>6
  <2> HIDE DEF E
  <2>4. Len(ids) \in E
    BY <1>2, <2>2, <2>3, Upwards
  <2>5. {ids[j] : j \in 1 .. Len(ids)} = Range(ids)
    BY InRange
  <2> QED
    BY <2>4, <2>5 DEF E
<1> QED
  BY <1>1, <1>2, <1>3

(* discard_request removes the request and no other one. *)
LEMMA DiscardRequestType ==
    ASSUME NEW t \in Trackers, NEW id \in HashedId3
    PROVE  DiscardRequest(t, id) \in Trackers /\ DiscardRequest(t, id).lookup = t.lookup \ {id}
<1>1. /\ t.fifo \in Seq(HashedId3) /\ Distinct(t.fifo) /\ t.lookup = Range(t.fifo)
      /\ Len(t.fifo) \in Nat /\ Len(t.fifo) <= Room /\ t.lookup \in SUBSET HashedId3
  BY DEF Trackers
<1>2. CASE id \notin t.lookup
  BY <1>2 DEF DiscardRequest, IsPending
<1>3. CASE id \in t.lookup
  <2> DEFINE rest == Kept(t.fifo, HashedId3 \ {id})
  <2>1. DiscardRequest(t, id) = [fifo |-> rest, lookup |-> t.lookup \ {id}]
    BY <1>3 DEF DiscardRequest, IsPending
  <2>2. rest \in Seq(HashedId3) /\ Thins(rest, t.fifo) /\ HasAllOf(rest, t.fifo, HashedId3 \ {id})
    BY <1>1, KeptThins
  <2> HIDE DEF rest
  <2>3. PICK g \in [1 .. Len(rest) -> 1 .. Len(t.fifo)] :
            /\ \A j \in 1 .. Len(rest) : rest[j] = t.fifo[g[j]]
            /\ \A i, j \in 1 .. Len(rest) : g[i] = g[j] => i = j
    BY <2>2 DEF Thins
  <2>4. Distinct(rest)
    <3> SUFFICES ASSUME NEW i \in 1 .. Len(rest), NEW j \in 1 .. Len(rest), rest[i] = rest[j]
                 PROVE  i = j
      BY DEF Distinct
    <3>1. g[i] \in 1 .. Len(t.fifo) /\ g[j] \in 1 .. Len(t.fifo) /\ t.fifo[g[i]] = t.fifo[g[j]]
      BY <2>3
    <3>2. g[i] = g[j]
      BY <1>1, <3>1 DEF Distinct
    <3> QED
      BY <2>3, <3>2
  <2>5. Range(rest) = t.lookup \ {id}
    <3>1. ASSUME NEW e \in Range(rest) PROVE e \in t.lookup \ {id}
      <4>1. PICK j \in 1 .. Len(rest) : rest[j] = e
        BY <2>2, InRange
      <4>2. g[j] \in 1 .. Len(t.fifo) /\ t.fifo[g[j]] = e /\ e # id
        BY <2>2, <2>3, <4>1 DEF HasAllOf
      <4> QED
        BY <1>1, <4>2, InRange
    <3>2. ASSUME NEW e \in t.lookup \ {id} PROVE e \in Range(rest)
      <4>1. PICK k \in 1 .. Len(t.fifo) : t.fifo[k] = e
        BY <1>1, InRange
      <4>2. \E j \in 1 .. Len(rest) : rest[j] = e
        BY <1>1, <2>2, <4>1 DEF HasAllOf
      <4> QED
        BY <2>2, <4>2, InRange
    <3> QED
      BY <3>1, <3>2
  <2>6. Len(rest) <= Room
    <3>1. Cardinality(Range(rest)) = Len(rest) /\ Len(rest) \in Nat
      BY <2>2, <2>4, DistinctCount
    <3>2. IsFiniteSet(t.lookup) /\ Cardinality(t.lookup) = Len(t.fifo)
      BY <1>1, DistinctCount
    <3>3. Cardinality(Range(rest)) = Len(t.fifo) - 1
      BY <1>3, <2>5, <3>2, FS_RemoveElement
    <3> QED
      BY <1>1, <3>1, <3>3, RoomType
  <2>7. [fifo |-> rest, lookup |-> Range(rest)] \in Trackers
    BY <2>2, <2>4, <2>6, MakeTracker
  <2> QED
    BY <2>1, <2>5, <2>7
<1> QED
  BY <1>2, <1>3

(* next_one removes the oldest requests. *)
LEMMA AfterNextType ==
    ASSUME NEW t \in Trackers, NEW k \in 0 .. Len(t.fifo)
    PROVE  AfterNext(t, k) \in Trackers
<1>1. /\ t.fifo \in Seq(HashedId3) /\ Distinct(t.fifo) /\ t.lookup = Range(t.fifo)
      /\ Len(t.fifo) \in Nat /\ Len(t.fifo) <= Room /\ t.lookup \in SUBSET HashedId3
  BY DEF Trackers
<1> DEFINE rest == SubSeq(t.fifo, k + 1, Len(t.fifo))
<1>2. /\ rest \in Seq(HashedId3) /\ Len(rest) = Len(t.fifo) - k /\ Distinct(rest)
      /\ Range(rest) = t.lookup \ {t.fifo[j] : j \in 1 .. k}
  BY <1>1, SuffixDistinct
<1>3. Len(rest) <= Room
  BY <1>1, <1>2, RoomType
<1> HIDE DEF rest
<1>4. AfterNext(t, k) = [fifo |-> rest, lookup |-> t.lookup \ {t.fifo[j] : j \in 1 .. k}]
  BY DEF AfterNext, rest
<1>5. [fifo |-> rest, lookup |-> Range(rest)] \in Trackers
  BY <1>2, <1>3, MakeTracker
<1> QED
  BY <1>2, <1>4, <1>5

-----------------------------------------------------------------------------
(* The state of a station. *)
Policies ==
    [wait : 0 .. Interval, requested : BOOLEAN, incoming : Trackers, outgoing : Trackers]

(* What a cache finds by truncated digests. *)
Lookups == UNION {[D -> Certificate] : D \in SUBSET HashedId3}

Caches ==
    {c \in [storage : SUBSET Certificate, short : Lookups, digests : SUBSET Certificate] :
        c.storage \subseteq c.digests}

Receivers == [policy : Policies, cache : Caches]

(* Certificates have truncated digests. *)
LEMMA ShortType ==
    /\ \A cert \in Certificate : Short[cert] \in HashedId3
    /\ \A n \in Station : OwnTicket[n] \in Ticket /\ OwnTicket[n] \in Certificate
    /\ \A cert \in Ticket : cert \in Certificate /\ Issuer[cert] \in Certificate
    /\ \A cert \in Authority : cert \in Certificate
    /\ Nobody \notin Certificate /\ Nobody \notin Ticket /\ Nobody \notin Authority
  BY CertificateAssumption DEF Certificate

(* store: the cache has one certificate more. *)
LEMMA StoreType ==
    ASSUME NEW c \in Caches, NEW cert \in Certificate
    PROVE  Store(c, cert) \in Caches /\ Store(c, cert).storage = c.storage \cup {cert}
<1>1. CASE cert \in c.storage
  BY <1>1 DEF Store
<1>2. CASE cert \notin c.storage
  <2> DEFINE short == [id \in DOMAIN c.short \cup {Short[cert]} |->
                          IF id \in DOMAIN c.short THEN c.short[id] ELSE cert]
  <2>1. Store(c, cert) = [storage |-> c.storage \cup {cert}, short |-> short,
                          digests |-> c.digests \cup {cert}]
    BY <1>2 DEF Store
  <2>2. c.short \in Lookups /\ c.storage \subseteq c.digests /\ c.digests \subseteq Certificate
    BY DEF Caches
  <2>3. PICK D \in SUBSET HashedId3 : c.short \in [D -> Certificate]
    BY <2>2 DEF Lookups
  <2>4. short \in [D \cup {Short[cert]} -> Certificate] /\ D \cup {Short[cert]} \in SUBSET HashedId3
    BY <2>3, ShortType
  <2> HIDE DEF short
  <2>5. short \in Lookups
    BY <2>4 DEF Lookups
  <2> QED
    BY <2>1, <2>2, <2>5 DEF Caches
<1> QED
  BY <1>1, <1>2

(* A station becomes known. *)
LEMMA AnnounceType ==
    ASSUME NEW c \in Caches, NEW cert \in Certificate
    PROVE  Announce(c, cert) \in Caches /\ Announce(c, cert).storage = c.storage
  BY DEF Caches, Announce

(* The initial cache. *)
LEMMA CacheOfType ==
    ASSUME NEW certs \in SUBSET Certificate
    PROVE  CacheOf(certs) \in Caches /\ CacheOf(certs).storage = certs
<1> DEFINE D == {Short[cert] : cert \in certs}
           short == [id \in D |-> CHOOSE cert \in certs : Short[cert] = id]
<1>1. CacheOf(certs) = [storage |-> certs, short |-> short, digests |-> certs]
  BY DEF CacheOf
<1>2. D \in SUBSET HashedId3
  BY ShortType
<1>3. \A id \in D : short[id] \in certs
  OBVIOUS
<1>4. short \in [D -> Certificate]
  BY <1>3
<1> HIDE DEF short, D
<1>5. short \in Lookups
  BY <1>2, <1>4 DEF Lookups
<1> QED
  BY <1>1, <1>5 DEF Caches

(* What is provided is the certificate of an authority. *)
LEMMA ProvidedType ==
    ASSUME NEW c, NEW id
    PROVE  Provided(c, id) \in Authority \cup {Nobody}
  BY DEF Provided

(* No more requests are taken than there are. *)
LEMMA TakenType ==
    ASSUME NEW p \in Policies, NEW c
    PROVE  Taken(p, c) \in 0 .. Len(p.incoming.fifo)
<1> DEFINE fifo == p.incoming.fifo
           answers == {k \in DOMAIN fifo : Provided(c, fifo[k]) # Nobody}
           first == CHOOSE k \in answers : \A j \in answers : k <= j
<1>1. fifo \in Seq(HashedId3)
  BY DEF Policies, Trackers
<1>2. Len(fifo) \in Nat /\ DOMAIN fifo = 1 .. Len(fifo)
  BY <1>1
<1>3. Taken(p, c) = IF answers = {} THEN Len(fifo) ELSE first
  BY DEF Taken
<1> HIDE DEF fifo
<1>4. answers # {} => first \in answers
  <2>1. answers \subseteq Nat
    BY <1>2
  <2> HIDE DEF answers
  <2>2. answers # {} => \E k \in answers : \A j \in answers : k <= j
    BY <2>1, Least
  <2> QED
    BY <2>2
<1>5. answers \subseteq 0 .. Len(fifo)
  BY <1>2
<1>6. Taken(p, c) \in 0 .. Len(fifo)
  <2>1. CASE answers = {}
    <3>1. Taken(p, c) = Len(fifo)
      BY <1>3, <2>1
    <3> QED
      BY <1>2, <3>1
  <2>2. CASE answers # {}
    <3>1. Taken(p, c) = first
      BY <1>3, <2>2
    <3> HIDE DEF answers, first
    <3> QED
      BY <1>4, <1>5, <2>2, <3>1
  <2> QED
    BY <2>1, <2>2
<1> QED
  BY <1>6 DEF fifo

(* A request for the own ticket becomes a flag. *)
LEMMA OwnRequestedType ==
    ASSUME NEW n \in Station, NEW p \in Policies
    PROVE  LET id == Short[OwnTicket[n]]
               q  == OwnRequested(n, p)
           IN  /\ q \in Policies /\ q.outgoing = p.outgoing
               /\ IsPending(p.incoming, id) => q.requested
               /\ p.requested => q.requested
<1> DEFINE id == Short[OwnTicket[n]]
<1>1. id \in HashedId3
  BY ShortType
<1> HIDE DEF id
<1>2. DiscardRequest(p.incoming, id) \in Trackers
  <2>1. p.incoming \in Trackers
    BY DEF Policies
  <2> QED
    BY <1>1, <2>1, DiscardRequestType
<1>3. CASE IsPending(p.incoming, id)
  <2>1. OwnRequested(n, p) = [p EXCEPT !.requested = TRUE, !.incoming = DiscardRequest(@, id)]
    BY <1>3 DEF OwnRequested, id
  <2> QED
    BY <1>2, <1>3, <2>1 DEF Policies, id
<1>4. CASE ~IsPending(p.incoming, id)
  <2>1. OwnRequested(n, p) = p
    BY <1>4 DEF OwnRequested, id
  <2> QED
    BY <1>4, <2>1 DEF id
<1> QED
  BY <1>3, <1>4

(* prepare_header for a CAM: without the certificate it goes only if the   *)
(* certificate was not asked for.                                          *)
LEMMA PrepareCamType ==
    ASSUME NEW n \in Station, NEW p \in Policies, NEW c
    PROVE  LET r == PrepareCam(n, p, c)
           IN  /\ r.policy \in Policies /\ r.header \in Message
               /\ r.header.signer = OwnTicket[n]
               /\ r.header.full \/ (~p.requested /\ ~IsPending(p.incoming, Short[OwnTicket[n]]))
<1> DEFINE q == OwnRequested(n, p)
           full == q.wait = 0 \/ q.requested
           k == Taken(q, c)
           sent == [q EXCEPT !.outgoing = EmptyTracker]
           included == IF k = 0 THEN Nobody ELSE Provided(c, q.incoming.fifo[k])
           r == PrepareCam(n, p, c)
<1>1. /\ q \in Policies /\ q.outgoing = p.outgoing
      /\ IsPending(p.incoming, Short[OwnTicket[n]]) => q.requested
      /\ p.requested => q.requested
  BY OwnRequestedType
<1>2. r = IF full
          THEN [policy |-> [sent EXCEPT !.requested = FALSE, !.wait = Interval],
                header |-> Header("CA", OwnTicket[n], TRUE, q.outgoing.fifo, Nobody)]
          ELSE [policy |-> [sent EXCEPT !.incoming = AfterNext(@, k)],
                header |-> Header("CA", OwnTicket[n], FALSE, q.outgoing.fifo, included)]
  BY DEF PrepareCam
<1> HIDE DEF q, r
<1>3. k \in 0 .. Len(q.incoming.fifo)
  BY <1>1, TakenType
<1>4. AfterNext(q.incoming, k) \in Trackers
  <2>1. q.incoming \in Trackers
    BY <1>1 DEF Policies
  <2> HIDE DEF k
  <2> QED
    BY <1>3, <2>1, AfterNextType
<1>5. sent \in Policies /\ sent.incoming = q.incoming
  BY <1>1, EmptyIsTracker DEF Policies
<1>6. included \in Authority \cup {Nobody}
  BY ProvidedType
<1>7. q.outgoing.fifo \in Seq(HashedId3)
  BY <1>1 DEF Policies, Trackers
<1> HIDE DEF k, sent, included
<1>8. CASE full
  <2> DEFINE after  == [sent EXCEPT !.requested = FALSE, !.wait = Interval]
             header == Header("CA", OwnTicket[n], TRUE, q.outgoing.fifo, Nobody)
  <2>1. Interval \in 0 .. Interval
    BY TimeAssumption
  <2>2. after \in Policies
    BY <1>5, <2>1 DEF Policies
  <2>3. "CA" \in ItsAid /\ OwnTicket[n] \in Ticket \cup {Nobody} /\ Nobody \in Authority \cup {Nobody}
    BY ShortType DEF ItsAid
  <2>4. header \in Message /\ header.signer = OwnTicket[n] /\ header.full = TRUE
    BY <1>7, <2>3 DEF Header, Message
  <2>5. r = [policy |-> after, header |-> header]
    BY <1>2, <1>8
  <2> HIDE DEF after, header
  <2>6. r.policy = after /\ r.header = header
    BY <2>5
  <2> QED
    BY <2>2, <2>4, <2>6 DEF r
<1>9. CASE ~full
  <2> DEFINE after  == [sent EXCEPT !.incoming = AfterNext(@, k)]
             header == Header("CA", OwnTicket[n], FALSE, q.outgoing.fifo, included)
  <2>2. after \in Policies
    BY <1>4, <1>5 DEF Policies
  <2>3. "CA" \in ItsAid /\ OwnTicket[n] \in Ticket \cup {Nobody}
    BY ShortType DEF ItsAid
  <2>4. header \in Message /\ header.signer = OwnTicket[n]
    BY <1>6, <1>7, <2>3 DEF Header, Message
  <2>5. r = [policy |-> after, header |-> header]
    BY <1>2, <1>9
  <2> HIDE DEF after, header
  <2>6. r.policy = after /\ r.header = header
    BY <2>5
  <2>7. ~p.requested /\ ~IsPending(p.incoming, Short[OwnTicket[n]])
    BY <1>1, <1>9
  <2> QED
    BY <2>2, <2>4, <2>6, <2>7 DEF r
<1> QED
  BY <1>8, <1>9

(* prepare_header *)
LEMMA PrepareType ==
    ASSUME NEW n \in Station, NEW p \in Policies, NEW c, NEW aid \in ItsAid,
           NEW selfSigned \in BOOLEAN
    PROVE  LET r == Prepare(n, p, c, aid, selfSigned)
           IN  /\ r.policy \in Policies /\ r.header \in Message
               /\ r.header.signer \in {OwnTicket[n], Nobody}
               /\ aid = "CA" => \/ r.header.full
                                \/ ~p.requested /\ ~IsPending(p.incoming, Short[OwnTicket[n]])
               /\ aid # "CA" => r.policy = p
<1> DEFINE r == Prepare(n, p, c, aid, selfSigned)
<1>0. <<>> \in Seq(HashedId3) /\ Nobody \in Authority \cup {Nobody}
  OBVIOUS
<1>1. CASE aid = "CA"
  <2>1. r = PrepareCam(n, p, c)
    BY <1>1 DEF Prepare
  <2> QED
    BY <1>1, <2>1, PrepareCamType
<1>2. CASE aid = "SCR"
  <2> DEFINE signer == IF selfSigned THEN Nobody ELSE OwnTicket[n]
  <2>1. signer \in Ticket \cup {Nobody} /\ signer \in {OwnTicket[n], Nobody}
    BY ShortType
  <2>2. r = [policy |-> p, header |-> Header(aid, signer, FALSE, <<>>, Nobody)]
    BY <1>2 DEF Prepare
  <2> DEFINE header == Header(aid, signer, FALSE, <<>>, Nobody)
  <2>3. header \in Message /\ header.signer = signer
    BY <1>0, <2>1 DEF Header, Message
  <2> HIDE DEF header, signer
  <2>4. r.policy = p /\ r.header = header
    BY <2>2 DEF header
  <2> QED
    BY <1>2, <2>1, <2>3, <2>4
<1>3. CASE aid = "DEN"
  <2> DEFINE header == Header(aid, OwnTicket[n], TRUE, <<>>, Nobody)
  <2>1. r = [policy |-> p, header |-> header]
    BY <1>3 DEF Prepare
  <2>2. OwnTicket[n] \in Ticket \cup {Nobody}
    BY ShortType
  <2>3. header \in Message /\ header.signer = OwnTicket[n]
    BY <1>0, <2>2 DEF Header, Message
  <2> HIDE DEF header
  <2>4. r.policy = p /\ r.header = header
    BY <2>1
  <2> QED
    BY <1>3, <2>3, <2>4
<1> QED
  BY <1>1, <1>2, <1>3 DEF ItsAid

(* The signer becomes known. *)
LEMMA TrackStationType ==
    ASSUME NEW r \in Receivers, NEW m \in Message
    PROVE  LET q == TrackStation(r, m)
           IN  /\ q \in Receivers /\ q.cache.storage = r.cache.storage
               /\ q.policy.incoming = r.policy.incoming
               /\ r.policy.requested => q.policy.requested
<1>1. CASE m.signer = Nobody
  BY <1>1 DEF TrackStation
<1>2. CASE m.signer # Nobody
  <2> DEFINE flag == r.policy.requested \/ (m.signer \notin r.cache.digests /\ m.aid = "CA")
             known == Announce(r.cache, m.signer)
             asked == [r.policy EXCEPT !.requested = flag]
  <2>1. TrackStation(r, m) = [cache |-> known, policy |-> asked]
    BY <1>2 DEF TrackStation
  <2>2. r.cache \in Caches /\ r.policy \in Policies
    BY DEF Receivers
  <2>3. m.signer \in Certificate
    BY <1>2, ShortType DEF Message
  <2>4. known \in Caches /\ known.storage = r.cache.storage
    BY <2>2, <2>3, AnnounceType
  <2>5. asked \in Policies /\ asked.incoming = r.policy.incoming /\ asked.requested = flag
    BY <2>2 DEF Policies
  <2>6. r.policy.requested => asked.requested
    BY <2>5
  <2> HIDE DEF known, asked
  <2> QED
    BY <2>1, <2>4, <2>5, <2>6 DEF Receivers
<1> QED
  BY <1>1, <1>2

(* What the incoming requests are after a message. *)
IncomingAfter(t, m) ==
    IF m.aid # "CA" THEN t
    ELSE IF m.included = Nobody THEN AddRequests(t, m.requests)
    ELSE DiscardRequest(AddRequests(t, m.requests), Short[m.included])

(* The requests of a message are noted. *)
LEMMA HandleRequestsType ==
    ASSUME NEW r \in Receivers, NEW m \in Message
    PROVE  LET q == HandleRequests(r, m)
           IN  /\ q \in Receivers /\ q.cache = r.cache
               /\ q.policy.incoming = IncomingAfter(r.policy.incoming, m)
               /\ q.policy.requested = r.policy.requested
<1> DEFINE t == r.policy.incoming
           noted == AddRequests(t, m.requests)
           after == IncomingAfter(t, m)
<1>1. r.policy \in Policies /\ t \in Trackers /\ m.requests \in Seq(HashedId3)
      /\ m.included \in Authority \cup {Nobody} /\ r.cache \in Caches
  BY DEF Receivers, Policies, Message
<1>2. noted \in Trackers
  BY <1>1, AddRequestsType
<1> HIDE DEF noted
<1>3. m.included # Nobody => DiscardRequest(noted, Short[m.included]) \in Trackers
  <2> SUFFICES ASSUME m.included # Nobody PROVE DiscardRequest(noted, Short[m.included]) \in Trackers
    OBVIOUS
  <2>1. Short[m.included] \in HashedId3
    BY <1>1, ShortType
  <2> QED
    BY <1>2, <2>1, DiscardRequestType
<1>4. CASE m.aid # "CA"
  <2>1. HandleRequests(r, m) = r /\ after = t
    BY <1>4 DEF HandleRequests, IncomingAfter
  <2> QED
    BY <2>1
<1>5. CASE m.aid = "CA"
  <2>1. after = IF m.included = Nobody THEN noted ELSE DiscardRequest(noted, Short[m.included])
    BY <1>5 DEF IncomingAfter, noted
  <2>2. after \in Trackers
    BY <1>2, <1>3, <2>1
  <2>3. HandleRequests(r, m) = [r EXCEPT !.policy.incoming = after]
    BY <1>5, <2>1 DEF HandleRequests, noted
  <2> HIDE DEF after, t
  <2>4. HandleRequests(r, m) = [policy |-> [r.policy EXCEPT !.incoming = after], cache |-> r.cache]
    BY <2>3 DEF Receivers
  <2> DEFINE p == [r.policy EXCEPT !.incoming = after]
  <2>5. p \in Policies /\ p.incoming = after /\ p.requested = r.policy.requested
    BY <1>1, <2>2 DEF Policies
  <2> HIDE DEF p
  <2>6. HandleRequests(r, m) = [policy |-> p, cache |-> r.cache]
    BY <2>4 DEF p
  <2> QED
    BY <1>1, <2>5, <2>6 DEF Receivers, after, t
<1> QED
  BY <1>4, <1>5

(* Unknown certificates are asked for; nothing else changes. *)
LEMMA RequestUnrecognizedType ==
    ASSUME NEW p \in Policies, NEW cert \in Certificate
    PROVE  LET q == RequestUnrecognized(p, cert)
           IN  q \in Policies /\ q.incoming = p.incoming /\ q.requested = p.requested
<1>1. Short[cert] \in HashedId3 /\ p.outgoing \in Trackers
  BY ShortType DEF Policies
<1>2. AddRequest(p.outgoing, Short[cert]) \in Trackers
  BY <1>1, AddRequestType
<1> QED
  BY <1>2 DEF RequestUnrecognized, Policies

(* verify stores the certificate of a valid, signed message, and no other  *)
(* one.  The request flag is never taken back.                             *)
LEMMA VerifyType ==
    ASSUME NEW before \in Receivers, NEW m \in Message, NEW valid \in BOOLEAN,
           valid => m.signer # Nobody
    PROVE  LET q == Verify(before, m, valid)
           IN  /\ q \in Receivers
               /\ \A cert \in q.cache.storage \ before.cache.storage :
                        valid /\ m.signed /\ cert = m.signer
               /\ q.policy.incoming = IncomingAfter(before.policy.incoming, m)
               /\ before.policy.requested => q.policy.requested
<1> DEFINE s == TrackStation(before, m)
           r == HandleRequests(s, m)
           issuer == Issuer[m.signer]
           asked == IF issuer \in r.cache.digests THEN r
                    ELSE [r EXCEPT !.policy = RequestUnrecognized(@, issuer)]
           new == m.signer \notin r.cache.storage /\ m.aid = "CA"
           q == Verify(before, m, valid)
<1>1. /\ s \in Receivers /\ s.cache.storage = before.cache.storage
      /\ s.policy.incoming = before.policy.incoming
      /\ before.policy.requested => s.policy.requested
  BY TrackStationType
<1> HIDE DEF s
<1>2. /\ r \in Receivers /\ r.cache.storage = before.cache.storage
      /\ r.policy.incoming = IncomingAfter(before.policy.incoming, m)
      /\ before.policy.requested => r.policy.requested
  BY <1>1, HandleRequestsType
<1> HIDE DEF r
<1>3. r.policy \in Policies /\ r.cache \in Caches
  BY <1>2 DEF Receivers
<1>4. CASE ~KnownTo(r, m)
  <2> DEFINE p == IF m.aid = "CA" /\ m.signer # Nobody THEN RequestUnrecognized(r.policy, m.signer)
                  ELSE r.policy
  <2>1. q = [r EXCEPT !.policy = p]
    BY <1>4 DEF Verify, r, s
  <2>2. p \in Policies /\ p.incoming = r.policy.incoming /\ p.requested = r.policy.requested
    <3>1. m.signer # Nobody => m.signer \in Certificate
      BY ShortType DEF Message
    <3> QED
      BY <1>3, <3>1, RequestUnrecognizedType
  <2> HIDE DEF p
  <2>3. q.policy = p /\ q.cache = r.cache /\ q \in Receivers
    BY <1>2, <2>1, <2>2 DEF Receivers
  <2> QED
    BY <1>2, <2>2, <2>3
<1>5. CASE KnownTo(r, m) /\ ~valid
  <2>1. q = r
    BY <1>5 DEF Verify, r, s
  <2> QED
    BY <1>2, <2>1
<1>6. ASSUME valid
      PROVE  /\ asked \in Receivers /\ asked.cache = r.cache
             /\ asked.policy.incoming = r.policy.incoming
             /\ asked.policy.requested = r.policy.requested
  <2>1. issuer \in Certificate
    BY <1>6, ShortType DEF Message
  <2> HIDE DEF issuer
  <2> DEFINE p == RequestUnrecognized(r.policy, issuer)
  <2>2. p \in Policies /\ p.incoming = r.policy.incoming /\ p.requested = r.policy.requested
    BY <1>3, <2>1, RequestUnrecognizedType
  <2>3. asked = IF issuer \in r.cache.digests THEN r ELSE [r EXCEPT !.policy = p]
    OBVIOUS
  <2> HIDE DEF p, asked
  <2> QED
    BY <1>2, <2>2, <2>3 DEF Receivers
<1>7. CASE KnownTo(r, m) /\ valid /\ ~m.signed
  <2>1. q = asked
    BY <1>7 DEF Verify, r, s
  <2> HIDE DEF asked
  <2> QED
    BY <1>2, <1>6, <1>7, <2>1
<1>8. CASE KnownTo(r, m) /\ valid /\ m.signed
  <2> DEFINE p == [asked.policy EXCEPT !.requested = @ \/ new]
             c == IF m.full THEN Store(r.cache, m.signer) ELSE r.cache
  <2>1. q = [policy |-> p, cache |-> c]
    BY <1>8 DEF Verify, r, s
  <2> HIDE DEF asked
  <2>2. asked.policy \in Policies
    BY <1>6, <1>8 DEF Receivers
  <2>3. p \in Policies /\ p.incoming = asked.policy.incoming
        /\ (asked.policy.requested => p.requested)
    BY <2>2 DEF Policies
  <2>4. c \in Caches /\ c.storage \subseteq r.cache.storage \cup {m.signer}
    <3>1. m.signer \in Certificate
      BY <1>8, ShortType DEF Message
    <3> QED
      BY <1>3, <3>1, StoreType
  <2> HIDE DEF p, c
  <2>5. q \in Receivers /\ q.policy = p /\ q.cache = c
    BY <2>1, <2>3, <2>4 DEF Receivers
  <2> QED
    BY <1>2, <1>6, <1>8, <2>3, <2>4, <2>5
<1> QED
  BY <1>4, <1>5, <1>7, <1>8 DEF Message

(* A request for the own ticket is in the queue after a message that asks  *)
(* for it, or if it has been there before.                                 *)
LEMMA RequestStays ==
    ASSUME NEW n \in Station, NEW p \in Policies, NEW m \in Message,
           ~Overflows(p, m), ~LooksLikeAnswer(n, m),
           IsPending(p.incoming, Short[OwnTicket[n]]) \/ AsksFor(n, m)
    PROVE  IsPending(IncomingAfter(p.incoming, m), Short[OwnTicket[n]])
<1> DEFINE id == Short[OwnTicket[n]]
           t == p.incoming
           noted == AddRequests(t, m.requests)
           all == t.lookup \cup Range(m.requests)
<1>1. t \in Trackers /\ m.requests \in Seq(HashedId3) /\ m.included \in Authority \cup {Nobody}
  BY DEF Policies, Message
<1>2. CASE m.aid # "CA"
  BY <1>2 DEF IncomingAfter, AsksFor
<1>3. CASE m.aid = "CA"
  <2>1. IsFiniteSet(all)
    <3>1. IsFiniteSet(t.lookup)
      BY <1>1, DistinctCount DEF Trackers
    <3> QED
      BY <1>1, <3>1, RangeFinite, FS_Union
  <2>2. Cardinality(all) <= Room
    <3>1. Cardinality(all) \in Nat
      BY <2>1, FS_CardinalityType
    <3>2. ~(Cardinality(all) > Room)
      BY <1>3 DEF Overflows
    <3> QED
      BY <3>1, <3>2, RoomType
  <2>3. noted \in Trackers /\ noted.lookup = all
    BY <1>1, <2>2, AddRequestsType
  <2>4. id \in all
    BY DEF IsPending, AsksFor
  <2> HIDE DEF noted, all
  <2>5. CASE m.included = Nobody
    BY <1>3, <2>3, <2>4, <2>5 DEF IncomingAfter, IsPending, noted
  <2>6. CASE m.included # Nobody
    <3>1. Short[m.included] \in HashedId3 /\ Short[m.included] # id
      BY <1>1, <1>3, <2>6, ShortType DEF LooksLikeAnswer
    <3>2. id \in DiscardRequest(noted, Short[m.included]).lookup
      BY <2>3, <2>4, <3>1, DiscardRequestType
    <3> QED
      BY <1>3, <2>6, <3>2 DEF IncomingAfter, IsPending, noted
  <2> QED
    BY <2>5, <2>6
<1> QED
  BY <1>2, <1>3

-----------------------------------------------------------------------------
(* The types, as sets. *)
DistributionTypes ==
    /\ policy \in [Station -> Policies]
    /\ cache \in [Station -> Caches]
    /\ silent \in [Station -> 0 .. CamPeriod]
    /\ air \in SUBSET [to : Station, message : Message]
    /\ owed \in SUBSET Station
    /\ proven \in [Station -> SUBSET (Ticket \cup {Nobody})]

(* What a station has learnt by radio, see CacheSound. *)
LearntOnly ==
    \A n \in Station : \A cert \in cache[n].storage \ Preloaded[n] :
        cert \notin Rejected[n] /\ cert \in proven[n]

(* The inductive invariant. *)
DistributionInv == DistributionTypes /\ LearntOnly /\ RequestRemembered

(* It holds before anything has been received or requested. *)
LEMMA DistributionInitially == DistributionInit => DistributionInv
<1> SUFFICES ASSUME DistributionInit PROVE DistributionInv
  OBVIOUS
<1>1. EmptyPolicy \in Policies
  BY EmptyIsTracker, TimeAssumption DEF EmptyPolicy, Policies
<1>2. \A n \in Station : CacheOf(Preloaded[n]) \in Caches /\ CacheOf(Preloaded[n]).storage = Preloaded[n]
  BY CacheOfType, CertificateAssumption
<1>3. policy \in [Station -> Policies] /\ cache \in [Station -> Caches]
  BY <1>1, <1>2 DEF DistributionInit
<1>4. silent \in [Station -> 0 .. CamPeriod]
  BY TimeAssumption DEF DistributionInit
<1>5. DistributionTypes
  BY <1>3, <1>4 DEF DistributionTypes, DistributionInit
<1>6. LearntOnly
  BY <1>2 DEF LearntOnly, DistributionInit
<1> QED
  BY <1>5, <1>6 DEF DistributionInv, RequestRemembered, DistributionInit

(* sign *)
LEMMA SignStep ==
    ASSUME DistributionInv, NEW n \in Station, NEW selfSigned \in BOOLEAN, NEW valid \in BOOLEAN,
           NEW aid \in Aids[n], NEW hearers \in SUBSET (Station \ {n}),
           Sign(n, aid, selfSigned, valid, hearers)
    PROVE  DistributionInv'
<1> DEFINE prepared == Prepare(n, policy[n], cache[n], aid, selfSigned)
<1>1. aid \in ItsAid /\ policy[n] \in Policies
  BY CertificateAssumption DEF DistributionInv, DistributionTypes
<1>2. /\ prepared.policy \in Policies /\ prepared.header \in Message
      /\ aid = "CA" => \/ prepared.header.full
                       \/ /\ ~policy[n].requested
                          /\ ~IsPending(policy[n].incoming, Short[OwnTicket[n]])
      /\ aid # "CA" => prepared.policy = policy[n]
  BY <1>1, PrepareType
<1>3. /\ policy' = [policy EXCEPT ![n] = prepared.policy]
      /\ air' = air \cup {[to |-> h, message |-> prepared.header] : h \in hearers}
      /\ owed' = IF aid = "CA" /\ (prepared.header.full \/ ~valid) THEN owed \ {n} ELSE owed
      /\ silent' = [silent EXCEPT ![n] = IF aid = "CA" THEN 0 ELSE @]
      /\ cache' = cache /\ proven' = proven
  BY DEF Sign
<1> HIDE DEF prepared
<1>4. DistributionTypes'
  <2>1. 0 \in 0 .. CamPeriod
    BY TimeAssumption
  <2>2. silent' \in [Station -> 0 .. CamPeriod]
    BY <1>3, <2>1 DEF DistributionInv, DistributionTypes
  <2>3. policy' \in [Station -> Policies] /\ cache' \in [Station -> Caches]
    BY <1>2, <1>3 DEF DistributionInv, DistributionTypes
  <2>4. air' \in SUBSET [to : Station, message : Message] /\ owed' \in SUBSET Station
    BY <1>2, <1>3 DEF DistributionInv, DistributionTypes
  <2> QED
    BY <1>3, <2>2, <2>3, <2>4 DEF DistributionInv, DistributionTypes
<1>6. LearntOnly'
  BY <1>3 DEF DistributionInv, LearntOnly
<1>7. RequestRemembered'
  <2> SUFFICES ASSUME NEW m \in owed'
               PROVE  IsPending(policy'[m].incoming, Short[OwnTicket[m]]) \/ policy'[m].requested
    BY DEF RequestRemembered
  <2>1. m \in owed /\ m \in Station
    BY <1>3 DEF DistributionInv, DistributionTypes
  <2>2. IsPending(policy[m].incoming, Short[OwnTicket[m]]) \/ policy[m].requested
    BY <2>1 DEF DistributionInv, RequestRemembered
  <2>3. policy'[m] = policy[m]
    <3>1. CASE m # n
      BY <1>3, <2>1, <3>1 DEF DistributionInv, DistributionTypes
    <3>2. CASE m = n
      <4>1. aid # "CA"
        BY <1>2, <1>3, <2>2, <3>2
      <4> QED
        BY <1>2, <1>3, <2>1, <3>2, <4>1 DEF DistributionInv, DistributionTypes
    <3> QED
      BY <3>1, <3>2
  <2> QED
    BY <2>2, <2>3
<1> QED
  BY <1>4, <1>6, <1>7 DEF DistributionInv

(* A message of others arrives. *)
LEMMA StrangeStep ==
    ASSUME DistributionInv, NEW n \in Station, NEW m \in Strange[n], StrangeMessage(n, m)
    PROVE  DistributionInv'
<1>1. /\ air' = air \cup {[to |-> n, message |-> m]}
      /\ policy' = policy /\ cache' = cache /\ silent' = silent /\ owed' = owed
      /\ proven' = proven
  BY DEF StrangeMessage
<1>2. m \in Message
  BY CertificateAssumption
<1>3. DistributionTypes'
  BY <1>1, <1>2 DEF DistributionInv, DistributionTypes
<1> QED
  BY <1>1, <1>3 DEF DistributionInv, LearntOnly, RequestRemembered

(* verify *)
LEMMA DistributionReceiveStep ==
    ASSUME DistributionInv, NEW f \in air, Receive(f)
    PROVE  DistributionInv'
<1> DEFINE n == f.to
           m == f.message
           before == Receiver(policy[n], cache[n])
<1>1. n \in Station /\ m \in Message
  BY DEF DistributionInv, DistributionTypes
<1>2. policy[n] \in Policies /\ cache[n] \in Caches
  BY <1>1 DEF DistributionInv, DistributionTypes
<1>3. before \in Receivers /\ before.policy = policy[n] /\ before.cache = cache[n]
  BY <1>2 DEF Receivers, Receiver
<1>4. PICK valid \in (IF m.signer = Nobody THEN {FALSE} ELSE Verdicts(n, m.signer)) :
            /\ policy' = [policy EXCEPT ![n] = Verify(before, m, valid).policy]
            /\ cache' = [cache EXCEPT ![n] = Verify(before, m, valid).cache]
  BY DEF Receive
<1>5. /\ air' = air \ {f} /\ silent' = silent
      /\ owed' = IF Overflows(policy[n], m) \/ LooksLikeAnswer(n, m) THEN owed \ {n}
                 ELSE IF AsksFor(n, m) THEN owed \cup {n}
                 ELSE owed
      /\ proven' = IF m.signed THEN [proven EXCEPT ![n] = @ \cup {m.signer}] ELSE proven
  BY DEF Receive
<1>6. valid \in BOOLEAN /\ (valid => m.signer # Nobody /\ m.signer \notin Rejected[n])
  BY <1>4 DEF Verdicts
<1> DEFINE q == Verify(before, m, valid)
<1>7. /\ q \in Receivers
      /\ \A cert \in q.cache.storage \ before.cache.storage : valid /\ m.signed /\ cert = m.signer
      /\ q.policy.incoming = IncomingAfter(before.policy.incoming, m)
      /\ before.policy.requested => q.policy.requested
  <2> HIDE DEF before, m
  <2> QED
    BY <1>1, <1>3, <1>6, VerifyType
<1> HIDE DEF q, before
<1>8. policy' = [policy EXCEPT ![n] = q.policy] /\ cache' = [cache EXCEPT ![n] = q.cache]
  BY <1>4 DEF q
<1>9. q.policy \in Policies /\ q.cache \in Caches
  BY <1>7 DEF Receivers
<1>10. DistributionTypes'
  <2>1. policy' \in [Station -> Policies] /\ cache' \in [Station -> Caches]
    BY <1>1, <1>8, <1>9 DEF DistributionInv, DistributionTypes
  <2>2. air' \in SUBSET [to : Station, message : Message] /\ owed' \in SUBSET Station
    BY <1>1, <1>5 DEF DistributionInv, DistributionTypes
  <2>3. proven' \in [Station -> SUBSET (Ticket \cup {Nobody})]
    <3>1. m.signer \in Ticket \cup {Nobody}
      BY <1>1 DEF Message
    <3> HIDE DEF n, m
    <3> QED
      BY <1>1, <1>5, <3>1 DEF DistributionInv, DistributionTypes
  <2> QED
    BY <1>5, <2>1, <2>2, <2>3 DEF DistributionInv, DistributionTypes
<1>11. /\ \A o \in Station : proven[o] \subseteq proven'[o]
       /\ m.signed => m.signer \in proven'[n]
  <2> HIDE DEF n, m
  <2> QED
    BY <1>1, <1>5 DEF DistributionInv, DistributionTypes
<1>12. LearntOnly'
  <2> SUFFICES ASSUME NEW o \in Station, NEW cert \in cache'[o].storage \ Preloaded[o]
               PROVE  cert \notin Rejected[o] /\ cert \in proven'[o]
    BY DEF LearntOnly
  <2>1. CASE cert \in cache[o].storage
    BY <1>11, <2>1 DEF DistributionInv, LearntOnly
  <2>2. CASE cert \notin cache[o].storage
    <3>1. o = n /\ cert \in q.cache.storage \ before.cache.storage
      <4>1. o = n
        BY <1>8, <2>2 DEF DistributionInv, DistributionTypes
      <4> QED
        BY <1>1, <1>3, <1>8, <2>2, <4>1 DEF DistributionInv, DistributionTypes
    <3>2. valid /\ m.signed /\ cert = m.signer
      BY <1>7, <3>1
    <3> HIDE DEF n, m
    <3> QED
      BY <1>6, <1>11, <3>1, <3>2
  <2> QED
    BY <2>1, <2>2
<1>13. RequestRemembered'
  <2> SUFFICES ASSUME NEW o \in owed'
               PROVE  IsPending(policy'[o].incoming, Short[OwnTicket[o]]) \/ policy'[o].requested
    BY DEF RequestRemembered
  <2>1. CASE o # n
    <3>1. o \in owed /\ o \in Station
      BY <1>5, <2>1 DEF DistributionInv, DistributionTypes
    <3>2. policy'[o] = policy[o]
      BY <1>8, <2>1, <3>1 DEF DistributionInv, DistributionTypes
    <3> QED
      BY <3>1, <3>2 DEF DistributionInv, RequestRemembered
  <2>2. CASE o = n
    <3>1. policy'[o] = q.policy
      BY <1>1, <1>8, <2>2 DEF DistributionInv, DistributionTypes
    <3>2. ~Overflows(policy[n], m) /\ ~LooksLikeAnswer(n, m)
      BY <1>5, <2>2
    <3>3. AsksFor(n, m) \/ n \in owed
      BY <1>5, <2>2, <3>2
    <3>4. CASE AsksFor(n, m) \/ IsPending(policy[n].incoming, Short[OwnTicket[n]])
      <4>1. IsPending(IncomingAfter(policy[n].incoming, m), Short[OwnTicket[n]])
        <5> HIDE DEF n, m
        <5> QED
          BY <1>1, <1>2, <3>2, <3>4, RequestStays
      <4> QED
        BY <1>3, <1>7, <2>2, <3>1, <4>1
    <3>5. CASE ~AsksFor(n, m) /\ ~IsPending(policy[n].incoming, Short[OwnTicket[n]])
      <4>1. policy[n].requested
        BY <3>3, <3>5 DEF DistributionInv, RequestRemembered
      <4> QED
        BY <1>3, <1>7, <3>1, <4>1
    <3> QED
      BY <3>4, <3>5
  <2> QED
    BY <2>1, <2>2
<1> QED
  BY <1>10, <1>12, <1>13 DEF DistributionInv

(* Time passes. *)
LEMMA TimePassesStep ==
    ASSUME DistributionInv, TimePasses
    PROVE  DistributionInv'
<1>1. /\ policy' = [n \in Station |-> [policy[n] EXCEPT !.wait = IF @ = 0 THEN 0 ELSE @ - 1]]
      /\ silent' = [n \in Station |-> silent[n] + 1]
      /\ cache' = cache /\ air' = air /\ owed' = owed /\ proven' = proven
      /\ \A n \in Station : silent[n] < CamPeriod
  BY DEF TimePasses
<1>2. \A n \in Station : /\ policy'[n] \in Policies
                         /\ policy'[n].incoming = policy[n].incoming
                         /\ policy'[n].requested = policy[n].requested
  <2> SUFFICES ASSUME NEW n \in Station
               PROVE  /\ policy'[n] \in Policies
                      /\ policy'[n].incoming = policy[n].incoming
                      /\ policy'[n].requested = policy[n].requested
    OBVIOUS
  <2>1. policy[n] \in Policies
    BY DEF DistributionInv, DistributionTypes
  <2> DEFINE w == IF policy[n].wait = 0 THEN 0 ELSE policy[n].wait - 1
  <2>2. w \in 0 .. Interval
    BY <2>1, TimeAssumption DEF Policies
  <2>3. policy'[n] = [policy[n] EXCEPT !.wait = w]
    BY <1>1
  <2> HIDE DEF w
  <2> QED
    BY <2>1, <2>2, <2>3 DEF Policies
<1>3. DistributionTypes'
  <2>1. policy' \in [Station -> Policies]
    BY <1>1, <1>2
  <2>2. silent' \in [Station -> 0 .. CamPeriod]
    BY <1>1, TimeAssumption DEF DistributionInv, DistributionTypes
  <2> QED
    BY <1>1, <2>1, <2>2 DEF DistributionInv, DistributionTypes
<1>4. RequestRemembered'
  BY <1>1, <1>2 DEF DistributionInv, RequestRemembered, DistributionTypes
<1> QED
  BY <1>1, <1>3, <1>4 DEF DistributionInv, LearntOnly

(* Every step of a station preserves it. *)
LEMMA DistributionInvStep ==
    DistributionInv /\ [DistributionNext]_distributionVars => DistributionInv'
<1> SUFFICES ASSUME DistributionInv, [DistributionNext]_distributionVars PROVE DistributionInv'
  OBVIOUS
<1>1. ASSUME NEW n \in Station, NEW selfSigned \in BOOLEAN, NEW valid \in BOOLEAN,
             NEW aid \in Aids[n], NEW hearers \in SUBSET (Station \ {n}),
             Sign(n, aid, selfSigned, valid, hearers)
      PROVE  DistributionInv'
  BY <1>1, SignStep
<1>2. ASSUME NEW n \in Station, NEW m \in Strange[n], StrangeMessage(n, m) PROVE DistributionInv'
  BY <1>2, StrangeStep
<1>3. ASSUME NEW f \in air, Receive(f) PROVE DistributionInv'
  BY <1>3, DistributionReceiveStep
<1>4. CASE TimePasses
  BY <1>4, TimePassesStep
<1>5. CASE UNCHANGED distributionVars
  BY <1>5 DEF distributionVars, DistributionInv, DistributionTypes, LearntOnly,
              RequestRemembered
<1> QED
  BY <1>1, <1>2, <1>3, <1>4, <1>5 DEF DistributionNext

(* So it always holds. *)
LEMMA DistributionAlways == DistributionSpec => []DistributionInv
  BY DistributionInitially, DistributionInvStep, PTL DEF DistributionSpec

(* A cache holds nothing from the air that its station has not verified:   *)
(* StraightVerifyService stores a certificate only if the validator        *)
(* accepts it and a message that has arrived is signed with it, whatever   *)
(* is received in whatever order.                                          *)
THEOREM CachesAlwaysSound == DistributionSpec => []CacheSound
<1>1. DistributionInv => CacheSound
  <2> SUFFICES ASSUME DistributionInv PROVE CacheSound
    OBVIOUS
  <2>1. \A n \in Station :
            /\ policy[n].wait \in 0 .. Interval /\ policy[n].requested \in BOOLEAN
            /\ policy[n].incoming \in Trackers /\ policy[n].outgoing \in Trackers
            /\ cache[n].storage \subseteq cache[n].digests /\ cache[n].digests \subseteq Certificate
    BY DEF DistributionInv, DistributionTypes, Policies, Caches
  <2>2. DistributionTypeOK
    BY <2>1, TrackerAgrees DEF DistributionTypeOK, DistributionInv, DistributionTypes
  <2> QED
    BY <2>2 DEF CacheSound, DistributionInv, LearntOnly
<1> QED
  BY <1>1, DistributionAlways, PTL

(* DefaultSignHeaderPolicy never forgets that a peer has asked for the own *)
(* ticket, however its requests are taken, answered and discarded.         *)
THEOREM RequestsAlwaysRemembered == DistributionSpec => []RequestRemembered
<1>1. DistributionInv => RequestRemembered
  BY DEF DistributionInv
<1> QED
  BY <1>1, DistributionAlways, PTL
=============================================================================
