------------------------ MODULE CertificateValidator ------------------------
(***************************************************************************)
(* The validation of certificate chains: the policy checks of              *)
(* DefaultCertificateValidator, the signatures that the                    *)
(* HybridCertificateValidator checks on top of them, and the trust store,  *)
(* issuer lookup and revocation lookup that both of them consult.          *)
(*                                                                         *)
(* A certificate is a name that stands for its digest; what it says is     *)
(* chosen in the initial state.  Positions and regions lie on a line.      *)
(* Time passes in ticks; a certificate's start is in seconds (Time32).     *)
(***************************************************************************)
EXTENDS Integers

CONSTANTS
    Cert,           \* certificates, named by their digests
    Self, NoCert,   \* an issuer that is the certificate itself; no certificate
    NoRegion,       \* a certificate without region restriction
    Aid,            \* applications (ITS-AID)
    Setups,         \* what the certificates may say, and how a validator is set up
    MaxChainDepth,  \* max_chain_depth
    Second,         \* ticks in a second
    YearChecked,    \* seconds in a year, valid_at_timepoint
    YearNested,     \* seconds in a year, get_start_and_end_validity
    TimeModulus,    \* 2^32: Time32 has 32 bits
    Places,         \* positions of this station
    MaxTime         \* bound on the time

ASSUME ValidatorAssumption ==
    /\ MaxChainDepth \in Nat \ {0} /\ Second \in Nat \ {0}
    /\ YearNested \in Nat /\ YearChecked \in Nat /\ YearNested <= YearChecked
    /\ TimeModulus \in Nat \ {0} /\ MaxTime \in Nat
    /\ Self \notin Cert /\ NoCert \notin Cert
ASSUME SetupsAssumption ==
    /\ Places \subseteq Int
    /\ \A setup \in Setups : setup = [content |-> setup.content, config |-> setup.config]
    /\ \A setup \in Setups : \A c \in Cert :
          LET says == setup.content[c]
          IN  /\ says.start \in Nat /\ says.count \in Nat
              /\ says.unit \in {"fraction", "second", "year"}
              /\ says.region # NoRegion =>
                    /\ says.region.shape \in {"circle", "rectangles", "polygon"}
                    /\ says.region.lo \in Int /\ says.region.hi \in Int

VARIABLES
    content,   \* content[c]: what certificate c says
    config,    \* has: the objects that are set; off: the checks that are disabled
    trusted,   \* TrustStore
    issuers,   \* IssuerMemoryLookup
    revoked,   \* RevocationMemoryLookup: pairs of issuer and certificate
    now,       \* time, in ticks
    place      \* position fix of this station

vars == <<content, config, trusted, issuers, revoked, now, place>>

-----------------------------------------------------------------------------
(* CertificateView *)

IsSelf(c) == content[c].issuer = Self
IsCa(c) == content[c].ca
IsAt(c) == ~content[c].ca /\ content[c].app # {}
ValidForApplication(c, aid) == aid \in content[c].app
IsAllowedToIssue(c, aid) == content[c].ca /\ aid \in content[c].issues

Start(c) == content[c].start * Second

(* valid_at_timepoint: the end of the validity, in ticks *)
End(c) ==
    Start(c) + content[c].count *
        (CASE content[c].unit = "fraction" -> 1
           [] content[c].unit = "second" -> Second
           [] content[c].unit = "year" -> YearChecked * Second)

ValidAtTimepoint(c) == Start(c) <= now /\ now < End(c)

(* get_start_and_end_validity: the end in whole seconds.  The sum is a     *)
(* Time32 and wraps around.                                                *)
EndValidity(c) ==
    (content[c].start +
        (CASE content[c].unit = "fraction" -> content[c].count \div Second
           [] content[c].unit = "second" -> content[c].count
           [] content[c].unit = "year" -> content[c].count * YearNested)) % TimeModulus

HasRegion(c) == content[c].region # NoRegion

(* Mutant: a subject without region is within every region. *)
RegionIsWithinUnlessSet(c, i) ==
    HasRegion(c) /\ HasRegion(i) =>
        content[i].region.lo <= content[c].region.lo /\ content[c].region.hi <= content[i].region.hi

(* A circle has to lie within the issuer's circle; rectangles have to be   *)
(* the same; nothing is known to lie within a polygon.                     *)
RegionIsWithin(c, i) ==
    HasRegion(i) =>
        LET inner == content[c].region
            outer == content[i].region
        IN  /\ HasRegion(c)
            /\ inner.shape = outer.shape
            /\ CASE outer.shape = "circle" -> outer.lo <= inner.lo /\ inner.hi <= outer.hi
                 [] outer.shape = "rectangles" -> inner = outer
                 [] outer.shape = "polygon" -> FALSE

(* DefaultLocationChecker *)
ValidAtLocation(c) ==
    HasRegion(c) => content[c].region.lo <= place /\ place <= content[c].region.hi

-----------------------------------------------------------------------------
(* DefaultCertificateValidator *)

(* Mutant: the end of the subject's validity is not compared. *)
TimeConsistentStart(c, i) == content[i].start <= content[c].start

TimeConsistent(c, i) ==
    content[i].start <= content[c].start /\ EndValidity(i) >= EndValidity(c)

PermissionConsistent(c, i, aid) ==
    /\ IsCa(c) => IsAllowedToIssue(c, aid)
    /\ IsAt(c) => ValidForApplication(c, aid)
    /\ IsAllowedToIssue(i, aid)

(* The assurance is a level and a confidence; NoAssurance is level -1. *)
AssuranceConsistent(c, i) ==
    LET subject == content[c].assurance
        issuer == content[i].assurance
    IN  subject.level >= 0 =>
            /\ issuer.level >= 0
            /\ \/ subject.level < issuer.level
               \/ subject.level = issuer.level /\ subject.confidence <= issuer.confidence

CheckConsistency(c, i, aid) ==
    /\ TimeConsistent(c, i)
    /\ PermissionConsistent(c, i, aid)
    /\ AssuranceConsistent(c, i)
    /\ "region" \in config.off \/ RegionIsWithin(c, i)

FindIssuer(c) ==
    IF "issuers" \in config.has /\ content[c].issuer \in issuers
    THEN content[c].issuer ELSE NoCert

(* The certificates that a walk from c meets, as far as their issuers are  *)
(* known: the loops of the validators follow it for MaxChainDepth rounds.  *)
Walk(c) ==
    LET at[k \in 0..MaxChainDepth] ==
            IF k = 0 THEN c
            ELSE IF at[k - 1] = NoCert THEN NoCert ELSE FindIssuer(at[k - 1])
    IN  at

Rounds == 0..(MaxChainDepth - 1)

(* is_chain_anchored: without trust store or lookup nothing is required *)
IsChainAnchored(c) ==
    {"trust", "issuers"} \subseteq config.has =>
        \E k \in Rounds : /\ Walk(c)[k] # NoCert
                          /\ IsSelf(Walk(c)[k])
                          /\ Walk(c)[k] \in trusted

(* chain_is_consistent: the walk ends with the last issuer that is known *)
ChainIsConsistent(c, aid) ==
    \/ "chain" \in config.off
    \/ "issuers" \notin config.has
    \/ \A k \in Rounds :
            Walk(c)[k + 1] # NoCert => CheckConsistency(Walk(c)[k], Walk(c)[k + 1], aid)

(* Mutant: only the ticket itself is looked up. *)
ChainIsRevokedLeaf(c) ==
    /\ {"crl", "issuers"} \subseteq config.has
    /\ <<content[c].issuer, c>> \in revoked

(* chain_is_revoked: a self-signed certificate has no issuer digest *)
ChainIsRevoked(c) ==
    /\ {"crl", "issuers"} \subseteq config.has
    /\ \E k \in Rounds : /\ Walk(c)[k] # NoCert
                         /\ ~IsSelf(Walk(c)[k])
                         /\ <<content[Walk(c)[k]].issuer, Walk(c)[k]>> \in revoked

OutsideRegion(c) ==
    /\ "location" \notin config.off
    /\ ~ValidAtLocation(IF HasRegion(c) \/ FindIssuer(c) = NoCert THEN c ELSE FindIssuer(c))

(* valid_for_signing *)
PolicyVerdict(c, aid) ==
    IF \/ "time" \notin config.off /\ "runtime" \notin config.has
       \/ "location" \notin config.off /\ ~({"provider", "checker"} \subseteq config.has)
    THEN "Misconfiguration"
    ELSE IF ~ValidForApplication(c, aid) THEN "InsufficientPermission"
    ELSE IF "runtime" \in config.has /\ ~ValidAtTimepoint(c) THEN "Expired"
    ELSE IF ~IsChainAnchored(c) THEN "Untrusted"
    ELSE IF ~ChainIsConsistent(c, aid) THEN "InconsistentChain"
    ELSE IF ChainIsRevoked(c) THEN "Revoked"
    ELSE IF OutsideRegion(c) THEN "OutsideRegion"
    ELSE "Valid"

-----------------------------------------------------------------------------
(* HybridCertificateValidator *)

(* alternative_material_state: key and signature are "none", "good", or    *)
(* "bad" if they are present and cannot be read                            *)
MaterialState(c) ==
    LET key == content[c].altKey
        signature == content[c].altSignature
    IN  IF key = "none" /\ signature = "none" THEN "None"
        ELSE IF IsAt(c) /\ key = "none" /\ signature = "good" THEN "EndEntity"
        ELSE IF ~IsAt(c) /\ (IsSelf(c) \/ IsCa(c)) /\ key = "good" /\ signature = "good"
             THEN "Authority"
        ELSE "Inconsistent"

(* The certificate whose keys verify c's signatures: signing_certificate. *)
Signer(c) == IF IsSelf(c) THEN c ELSE content[c].issuer

(* verify_alternative_certificate; genuine and altGenuine tell whether the *)
(* signatures in c were made with its signer's private keys                *)
VerifyAlternative(c) ==
    /\ content[Signer(c)].altKey = "good"
    /\ content[c].altSignature = "good"
    /\ content[c].altGenuine

VerifyPrimary(c) == content[c].genuine

(* Mutant: a certificate without alternative signature passes the policy   *)
(* that requires one.                                                      *)
AlternativeAcceptedSwapped(policy, c) ==
    \/ policy = "ClassicalOnly"
    \/ /\ MaterialState(c) = "None"
       /\ policy = "HybridRequired"
    \/ /\ MaterialState(c) \in {"EndEntity", "Authority"}
       /\ VerifyAlternative(c)

(* alternative_signature_is_accepted *)
AlternativeAccepted(policy, c) ==
    \/ policy = "ClassicalOnly"
    \/ /\ MaterialState(c) = "None"
       /\ policy = "HybridIfPresent"
    \/ /\ MaterialState(c) \in {"EndEntity", "Authority"}
       /\ VerifyAlternative(c)

(* chain_is_authentic: every certificate up to a trusted root verifies *)
ChainIsAuthentic(policy, c) ==
    \E k \in Rounds :
        /\ \A j \in 0..k : /\ Walk(c)[j] # NoCert
                           /\ VerifyPrimary(Walk(c)[j])
                           /\ AlternativeAccepted(policy, Walk(c)[j])
        /\ IsSelf(Walk(c)[k])
        /\ Walk(c)[k] \in trusted

(* valid_for_signing *)
Verdict(policy, c, aid) ==
    IF PolicyVerdict(c, aid) # "Valid" THEN PolicyVerdict(c, aid)
    ELSE IF \/ ~({"issuers", "trust", "ecc"} \subseteq config.has)
            \/ policy # "ClassicalOnly" /\ "pqc" \notin config.has
         THEN "Misconfiguration"
    ELSE IF ChainIsAuthentic(policy, c) THEN "Valid" ELSE "Untrusted"

-----------------------------------------------------------------------------
Init ==
    /\ \E setup \in Setups : content = setup.content /\ config = setup.config
    /\ trusted = {} /\ issuers = {} /\ revoked = {}
    /\ now = 0
    /\ place \in Places

(* TrustStore::insert: only self-signed certificates are taken *)
InsertTrusted(c) ==
    /\ IsSelf(c) /\ c \notin trusted
    /\ trusted' = trusted \cup {c}
    /\ UNCHANGED <<content, config, issuers, revoked, now, place>>

(* IssuerMemoryLookup::insert: only CA certificates are taken *)
InsertIssuer(c) ==
    /\ IsCa(c) /\ c \notin issuers
    /\ issuers' = issuers \cup {c}
    /\ UNCHANGED <<content, config, trusted, revoked, now, place>>

(* RevocationMemoryLookup::revoke and clear *)
Revoke(i, c) ==
    /\ <<i, c>> \notin revoked
    /\ revoked' = revoked \cup {<<i, c>>}
    /\ UNCHANGED <<content, config, trusted, issuers, now, place>>

Clear(i) ==
    /\ \E e \in revoked : e[1] = i
    /\ revoked' = {e \in revoked : e[1] # i}
    /\ UNCHANGED <<content, config, trusted, issuers, now, place>>

Tick ==
    /\ now < MaxTime
    /\ now' = now + 1
    /\ UNCHANGED <<content, config, trusted, issuers, revoked, place>>

Move ==
    /\ place' \in Places \ {place}
    /\ UNCHANGED <<content, config, trusted, issuers, revoked, now>>

Next ==
    \/ \E c \in Cert : InsertTrusted(c) \/ InsertIssuer(c) \/ Clear(c)
    \/ \E c \in {d \in Cert : content[d].issuer \in Cert /\ IsCa(content[d].issuer)} :
            Revoke(content[c].issuer, c)
    \/ Tick
    \/ Move

Spec == Init /\ [][Next]_vars

-----------------------------------------------------------------------------
(* Properties *)

Policy == {"ClassicalOnly", "HybridIfPresent", "HybridRequired"}

(* Every variable has its type; the trust store holds self-signed          *)
(* certificates and the issuer lookup CA certificates only.                *)
TypeOK ==
    /\ [content |-> content, config |-> config] \in Setups
    /\ trusted \subseteq {c \in Cert : IsSelf(c)}
    /\ issuers \subseteq {c \in Cert : IsCa(c)}
    /\ revoked \subseteq Cert \X Cert
    /\ now \in 0..MaxTime /\ place \in Places

(* What authorities vouch for, from the roots downwards: the certificates  *)
(* that at most n issuers separate from a trusted root, and whose          *)
(* signatures, permissions, validity, assurance, region and revocation     *)
(* state are in order at every step.                                       *)
Signed(policy, c) ==
    /\ content[c].genuine
    /\ \/ policy = "ClassicalOnly"
       \/ /\ policy = "HybridIfPresent"
          /\ content[c].altKey = "none" /\ content[c].altSignature = "none"
       \/ /\ content[c].altSignature = "good" /\ content[c].altGenuine
          /\ content[c].altKey = (IF IsAt(c) THEN "none" ELSE "good")
          /\ content[Signer(c)].altKey = "good"
          /\ IsAt(c) \/ IsCa(c) \/ IsSelf(c)

VouchedFor(policy, aid) ==
    LET Good[n \in 0..(MaxChainDepth - 1)] ==
            IF n = 0
            THEN {c \in trusted : IsSelf(c) /\ Signed(policy, c)}
            ELSE Good[n - 1] \cup
                 {c \in Cert : /\ content[c].issuer \in Good[n - 1] \cap issuers
                               /\ Signed(policy, c)
                               /\ \/ "chain" \in config.off
                                  \/ CheckConsistency(c, content[c].issuer, aid)
                               /\ \/ "crl" \notin config.has
                                  \/ <<content[c].issuer, c>> \notin revoked}
    IN  Good[MaxChainDepth - 1]

(* The verdict is Valid exactly for the certificates that a trusted root   *)
(* vouches for, through unrevoked and consistent issuers that all signed   *)
(* as the policy demands, and that may be used here, now and for the       *)
(* application.  In particular a validator without a trust store or issuer *)
(* lookup never says Valid, although the policy checks alone pass.  It     *)
(* does fail open in one respect: without a revocation lookup nothing      *)
(* counts as revoked (chain_is_revoked; the test crl_not_attached_is_valid *)
(* asks for it), which is why VouchedFor heeds revocations only with one.  *)
ValidIffVouchedFor ==
    \A policy \in Policy, c \in Cert, aid \in Aid :
        Verdict(policy, c, aid) = "Valid" <=>
            /\ {"issuers", "trust", "ecc"} \subseteq config.has
            /\ policy = "ClassicalOnly" \/ "pqc" \in config.has
            /\ "runtime" \in config.has \/ "time" \in config.off
            /\ {"provider", "checker"} \subseteq config.has \/ "location" \in config.off
            /\ aid \in content[c].app
            /\ "runtime" \in config.has => ValidAtTimepoint(c)
            /\ ~OutsideRegion(c)
            /\ c \in VouchedFor(policy, aid)

(* A stricter policy accepts less: what HybridRequired accepts             *)
(* HybridIfPresent accepts as well, and so does ClassicalOnly.  (With the  *)
(* types.)                                                                 *)
PolicyOrder ==
    /\ TypeOK
    /\ \A c \in Cert, aid \in Aid :
            /\ Verdict("HybridRequired", c, aid) = "Valid"
                    => Verdict("HybridIfPresent", c, aid) = "Valid"
            /\ Verdict("HybridIfPresent", c, aid) = "Valid"
                    => Verdict("ClassicalOnly", c, aid) = "Valid"

(* The time is checked for the ticket only; its issuers are current        *)
(* because validities are nested.  They are not nested exactly: ends are   *)
(* compared in whole seconds, with years of 365 days and in a Time32 that  *)
(* wraps around.  An issuer is expired by no more than what this takes off *)
(* the validity of the ticket.                                             *)
ChainCurrent ==
    \A policy \in Policy, c \in Cert, aid \in Aid :
        Verdict(policy, c, aid) = "Valid" /\ "runtime" \in config.has /\ "chain" \notin config.off
            => \A k \in Rounds :
                  LET x == Walk(c)[k]
                  IN  x # NoCert => /\ Start(x) <= now
                                    /\ now < End(x) + (End(c) - EndValidity(c) * Second)

(* The region is checked for the ticket or, if it has none, for its        *)
(* issuer; nested regions make sure that this station is in the region of  *)
(* every certificate on the chain.                                         *)
RegionCovered ==
    \A policy \in Policy, c \in Cert, aid \in Aid :
        Verdict(policy, c, aid) = "Valid" /\ config.off \cap {"chain", "region", "location"} = {}
            => \A k \in Rounds : Walk(c)[k] # NoCert => ValidAtLocation(Walk(c)[k])
=============================================================================
