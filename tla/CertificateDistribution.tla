---------------------- MODULE CertificateDistribution ----------------------
(***************************************************************************)
(* How stations learn each other's certificates: DefaultSignHeaderPolicy   *)
(* (vanetza/security/v3/sign_header_policy.cpp) decides which certificates *)
(* go into a message, StraightSignService signs it, and                    *)
(* StraightVerifyService (vanetza/security/straight_verify_service.cpp)    *)
(* fills the CertificateCache of the receivers and notes what they are     *)
(* asked for and what they are missing.                                    *)
(*                                                                         *)
(* A certificate stands for its digest (HashedId8).  Messages get lost and *)
(* overtake each other.  Time is the time left until a CAM has to carry    *)
(* the certificate again.                                                  *)
(***************************************************************************)
EXTENDS PeerRequestTracker

CONSTANTS
    Station,
    Ticket,       \* authorization tickets
    Authority,    \* certificates of authorization authorities
    OwnTicket,    \* Station -> Ticket
    Issuer,       \* Ticket -> Authority
    Short,        \* truncation of digests
    Preloaded,    \* certificates a station has stored from the beginning
    Rejected,     \* tickets the validator of a station rejects
    Aids,         \* what a station sends
    Failing,      \* stations whose own ticket may be invalid for a while
    Strange,      \* messages of others that a station hears
    Nobody,       \* no certificate, a self-signed message
    Interval,     \* time between certificates in CAMs (950 ms)
    CamPeriod,    \* the longest time between two CAMs of a station
    MaxAir        \* no message is sent while so many are in the air

Certificate == Ticket \cup Authority

(* CAMs, security management messages and all others (DENMs) *)
ItsAid == {"CA", "SCR", "DEN"}

Message ==
    [aid : ItsAid, signer : Ticket \cup {Nobody}, full : BOOLEAN, signed : BOOLEAN,
     requests : Seq(HashedId3), included : Authority \cup {Nobody}]

ASSUME CertificateAssumption ==
    /\ OwnTicket \in [Station -> Ticket]
    /\ Issuer \in [Ticket -> Authority]
    /\ Short \in [Certificate -> HashedId3]
    /\ Preloaded \in [Station -> SUBSET Certificate]
    /\ Rejected \in [Station -> SUBSET Ticket]
    /\ Failing \subseteq Station /\ Aids \in [Station -> SUBSET ItsAid]
    /\ Ticket \cap Authority = {} /\ Nobody \notin Certificate
    /\ \A n \in Station : Strange[n] \subseteq Message
ASSUME TimeAssumption ==
    Interval \in Nat /\ CamPeriod \in Nat /\ MaxAir \in Nat

VARIABLES
    policy,   \* the sign header policy of each station
    cache,    \* the certificate cache of each station
    silent,   \* time since the last CAM of each station
    air,      \* messages on their way to a station
    owed,     \* history: stations whose ticket was asked for by a peer
    proven    \* history: the signers of correctly signed messages a station has received

distributionVars == <<policy, cache, silent, air, owed, proven>>

-----------------------------------------------------------------------------
(* CertificateCache *)

(* A cache that some certificates were stored into; of those with the same *)
(* truncated digest any one may have been the first.                       *)
CacheOf(certs) ==
    [storage |-> certs,
     short |-> [id \in {Short[cert] : cert \in certs} |->
                    CHOOSE cert \in certs : Short[cert] = id],
     digests |-> certs]

(* store: the first of several certificates with the same truncated digest *)
(* is the one found by it.                                                 *)
Store(c, cert) ==
    IF cert \in c.storage THEN c
    ELSE [storage |-> c.storage \cup {cert},
          short |-> [id \in DOMAIN c.short \cup {Short[cert]} |->
                        IF id \in DOMAIN c.short THEN c.short[id] ELSE cert],
          digests |-> c.digests \cup {cert}]

Announce(c, cert) == [c EXCEPT !.digests = @ \cup {cert}]

-----------------------------------------------------------------------------
(* DefaultSignHeaderPolicy.  wait is the time left until                   *)
(* m_cam_next_certificate.                                                 *)
EmptyPolicy == [wait |-> 0, requested |-> FALSE,
                incoming |-> EmptyTracker, outgoing |-> EmptyTracker]

RequestUnrecognized(p, cert) == [p EXCEPT !.outgoing = AddRequest(@, Short[cert])]

(* Mutant: a request for the own ticket is treated like any other one. *)
OwnRequestedNever(n, p) == p

(* The part of prepare_header about requests for the own ticket. *)
OwnRequested(n, p) ==
    LET id == Short[OwnTicket[n]]
    IN  IF IsPending(p.incoming, id)
        THEN [p EXCEPT !.requested = TRUE, !.incoming = DiscardRequest(@, id)]
        ELSE p

(* The certificate of an authority that is found by a truncated digest. *)
Provided(c, id) ==
    IF id \in DOMAIN c.short /\ c.short[id] \in Authority THEN c.short[id] ELSE Nobody

(* Mutant: only requests that can be answered are taken. *)
TakenIfAnswered(p, c) ==
    LET fifo == p.incoming.fifo
        answers == {k \in DOMAIN fifo : Provided(c, fifo[k]) # Nobody}
    IN  IF answers = {} THEN 0
        ELSE CHOOSE k \in answers : \A j \in answers : k <= j

(* The number of pending requests prepare_header takes: up to and          *)
(* including the first one it can answer.                                  *)
Taken(p, c) ==
    LET fifo == p.incoming.fifo
        answers == {k \in DOMAIN fifo : Provided(c, fifo[k]) # Nobody}
    IN  IF answers = {} THEN Len(fifo)
        ELSE CHOOSE k \in answers : \A j \in answers : k <= j

Header(aid, signer, full, requests, included) ==
    [aid |-> aid, signer |-> signer, full |-> full, signed |-> TRUE,
     requests |-> requests, included |-> included]

(* Mutant: every CAM restarts the time to the next certificate. *)
PrepareCamRestarts(n, policyBefore, c) ==
    LET p == OwnRequested(n, policyBefore)
        k == Taken(p, c)
        sent == [p EXCEPT !.outgoing = EmptyTracker, !.wait = Interval]
    IN  IF p.requested
        THEN [policy |-> [sent EXCEPT !.requested = FALSE],
              header |-> Header("CA", OwnTicket[n], TRUE, p.outgoing.fifo, Nobody)]
        ELSE [policy |-> [sent EXCEPT !.incoming = AfterNext(@, k)],
              header |-> Header("CA", OwnTicket[n], FALSE, p.outgoing.fifo,
                                IF k = 0 THEN Nobody ELSE Provided(c, p.incoming.fifo[k]))]

(* prepare_header for a CAM *)
PrepareCam(n, policyBefore, c) ==
    LET p == OwnRequested(n, policyBefore)
        full == p.wait = 0 \/ p.requested
        k == Taken(p, c)
        sent == [p EXCEPT !.outgoing = EmptyTracker]
    IN  IF full
        THEN [policy |-> [sent EXCEPT !.requested = FALSE, !.wait = Interval],
              header |-> Header("CA", OwnTicket[n], TRUE, p.outgoing.fifo, Nobody)]
        ELSE [policy |-> [sent EXCEPT !.incoming = AfterNext(@, k)],
              header |-> Header("CA", OwnTicket[n], FALSE, p.outgoing.fifo,
                                IF k = 0 THEN Nobody ELSE Provided(c, p.incoming.fifo[k]))]

(* prepare_header.  Only security management messages may be self-signed.  *)
Prepare(n, p, c, aid, selfSigned) ==
    CASE aid = "CA" -> PrepareCam(n, p, c)
      [] aid = "SCR" -> [policy |-> p,
                         header |-> Header(aid, IF selfSigned THEN Nobody ELSE OwnTicket[n],
                                           FALSE, <<>>, Nobody)]
      [] OTHER -> [policy |-> p, header |-> Header(aid, OwnTicket[n], TRUE, <<>>, Nobody)]

-----------------------------------------------------------------------------
(* StraightVerifyService.  A receiver is its policy and its cache.         *)
Receiver(p, c) == [policy |-> p, cache |-> c]

(* The signer becomes a known station; if it is new, it shall get our      *)
(* certificate.                                                            *)
TrackStation(r, m) ==
    IF m.signer = Nobody THEN r
    ELSE [cache |-> Announce(r.cache, m.signer),
          policy |-> [r.policy EXCEPT !.requested =
                        @ \/ (m.signer \notin r.cache.digests /\ m.aid = "CA")]]

(* Requests of the sender are noted, and those it answers are forgotten. *)
HandleRequests(r, m) ==
    IF m.aid # "CA" THEN r
    ELSE LET noted == AddRequests(r.policy.incoming, m.requests)
         IN  [r EXCEPT !.policy.incoming =
                IF m.included = Nobody THEN noted ELSE DiscardRequest(noted, Short[m.included])]

KnownTo(r, m) == m.full \/ m.signer \in r.cache.storage

(* Mutant: a valid certificate is stored before the signature is checked. *)
VerifyStoresFirst(rBefore, m, valid) ==
    LET r == HandleRequests(TrackStation(rBefore, m), m)
    IN  IF KnownTo(r, m)
        THEN [r EXCEPT !.cache = IF valid /\ m.full THEN Store(@, m.signer) ELSE @]
        ELSE [r EXCEPT !.policy =
                IF m.aid = "CA" /\ m.signer # Nobody THEN RequestUnrecognized(@, m.signer) ELSE @]

(* verify *)
Verify(rBefore, m, valid) ==
    LET r == HandleRequests(TrackStation(rBefore, m), m)
        issuer == Issuer[m.signer]
        asked == IF issuer \in r.cache.digests THEN r
                 ELSE [r EXCEPT !.policy = RequestUnrecognized(@, issuer)]
    IN  CASE ~KnownTo(r, m) ->
                [r EXCEPT !.policy =
                    IF m.aid = "CA" /\ m.signer # Nobody
                    THEN RequestUnrecognized(@, m.signer) ELSE @]
          [] KnownTo(r, m) /\ ~valid -> r
          [] KnownTo(r, m) /\ valid /\ ~m.signed -> asked
          [] OTHER ->
                [policy |-> [asked.policy EXCEPT !.requested =
                                @ \/ (m.signer \notin r.cache.storage /\ m.aid = "CA")],
                 cache |-> IF m.full THEN Store(r.cache, m.signer) ELSE r.cache]

(* A message asks for the ticket of station n. *)
AsksFor(n, m) == m.aid = "CA" /\ Short[OwnTicket[n]] \in Range(m.requests)

(* There are more requests than the tracker has room for. *)
Overflows(p, m) ==
    m.aid = "CA" /\ Cardinality(p.incoming.lookup \cup Range(m.requests)) > Room

(* A message carries a certificate with the truncated digest of n's ticket.*)
LooksLikeAnswer(n, m) ==
    m.aid = "CA" /\ m.included # Nobody /\ Short[m.included] = Short[OwnTicket[n]]

(* How the validator may judge a ticket at this moment. *)
Verdicts(n, ticket) ==
    IF ticket \in Rejected[n] THEN {FALSE}
    ELSE IF n \in Failing /\ ticket = OwnTicket[n] THEN BOOLEAN
    ELSE {TRUE}

-----------------------------------------------------------------------------
DistributionInit ==
    /\ policy = [n \in Station |-> EmptyPolicy]
    /\ cache = [n \in Station |-> CacheOf(Preloaded[n])]
    /\ silent = [n \in Station |-> 0]
    /\ air = {}
    /\ owed = {}
    /\ proven = [n \in Station |-> {}]

(* sign: the header is prepared before the own ticket is validated.  The   *)
(* message is heard by some of the other stations.                         *)
Sign(n, aid, selfSigned, valid, hearers) ==
    /\ valid \in Verdicts(n, OwnTicket[n])
    /\ selfSigned => aid = "SCR"
    /\ hearers # {} => valid
    /\ \E prepared \in {Prepare(n, policy[n], cache[n], aid, selfSigned)} :
          /\ policy' = [policy EXCEPT ![n] = prepared.policy]
          /\ air' = air \cup {[to |-> h, message |-> prepared.header] : h \in hearers}
          /\ owed' = IF aid = "CA" /\ (prepared.header.full \/ ~valid) THEN owed \ {n} ELSE owed
    /\ Cardinality(air) < MaxAir
    /\ silent' = [silent EXCEPT ![n] = IF aid = "CA" THEN 0 ELSE @]
    /\ UNCHANGED <<cache, proven>>

(* A station that does not run this code is heard. *)
StrangeMessage(n, m) ==
    /\ Cardinality(air) < MaxAir
    /\ air' = air \cup {[to |-> n, message |-> m]}
    /\ UNCHANGED <<policy, cache, silent, owed, proven>>

(* verify at the receiver of a message *)
Receive(f) ==
    LET n == f.to
        m == f.message
    IN  /\ \E valid \in (IF m.signer = Nobody THEN {FALSE} ELSE Verdicts(n, m.signer)) :
              \E r \in {Verify(Receiver(policy[n], cache[n]), m, valid)} :
                  /\ policy' = [policy EXCEPT ![n] = r.policy]
                  /\ cache' = [cache EXCEPT ![n] = r.cache]
        /\ air' = air \ {f}
        /\ owed' = IF Overflows(policy[n], m) \/ LooksLikeAnswer(n, m) THEN owed \ {n}
                   ELSE IF AsksFor(n, m) THEN owed \cup {n}
                   ELSE owed
        /\ proven' = IF m.signed THEN [proven EXCEPT ![n] = @ \cup {m.signer}] ELSE proven
        /\ UNCHANGED silent

(* Time passes; no station is silent for longer than CamPeriod. *)
TimePasses ==
    /\ \A n \in Station : silent[n] < CamPeriod
    /\ policy' = [n \in Station |->
                    [policy[n] EXCEPT !.wait = IF @ = 0 THEN 0 ELSE @ - 1]]
    /\ silent' = [n \in Station |-> silent[n] + 1]
    /\ UNCHANGED <<cache, air, owed, proven>>

DistributionNext ==
    \/ \E n \in Station, selfSigned, valid \in BOOLEAN :
          \E aid \in Aids[n], hearers \in SUBSET (Station \ {n}) :
              Sign(n, aid, selfSigned, valid, hearers)
    \/ \E n \in Station : \E m \in Strange[n] : StrangeMessage(n, m)
    \/ \E f \in air : Receive(f)
    \/ TimePasses

DistributionSpec == DistributionInit /\ [][DistributionNext]_distributionVars

(* The next CAM of n carries its certificate. *)
SendsCertificate(n) == PrepareCam(n, policy[n], cache[n]).header.full

(* A CAM of n is signed and reaches m. *)
CamReaches(n, m) ==
    \E hearers \in SUBSET (Station \ {n}) :
        m \in hearers /\ Sign(n, "CA", FALSE, TRUE, hearers)

SendCam(n) ==
    \E valid \in BOOLEAN : \E hearers \in SUBSET (Station \ {n}) :
        Sign(n, "CA", FALSE, valid, hearers)

(* Stations send CAMs, and what has reached a station is verified.  The    *)
(* channel loses any message, but not the certificate of a station each    *)
(* time it is sent.                                                        *)
Fairness ==
    /\ WF_distributionVars(TimePasses)
    /\ WF_distributionVars(\E f \in air : Receive(f))
    /\ \A n \in Station :
          /\ SF_distributionVars(SendCam(n))
          /\ \A m \in Station \ {n} : SF_distributionVars(SendsCertificate(n) /\ CamReaches(n, m))

FairSpec == DistributionSpec /\ Fairness

-----------------------------------------------------------------------------
IsTracker(t) ==
    /\ t.fifo \in Seq(HashedId3) /\ Len(t.fifo) <= Room
    /\ Agree(t)

(* Type invariant.  The queues of requests stay below their limit, and the *)
(* list of a queue and its map agree.                                      *)
DistributionTypeOK ==
    /\ \A n \in Station :
          /\ policy[n].wait \in 0 .. Interval /\ policy[n].requested \in BOOLEAN
          /\ IsTracker(policy[n].incoming) /\ IsTracker(policy[n].outgoing)
          /\ cache[n].storage \subseteq cache[n].digests /\ cache[n].digests \subseteq Certificate
    /\ silent \in [Station -> 0 .. CamPeriod]
    /\ air \subseteq [to : Station, message : Message]
    /\ owed \subseteq Station
    /\ proven \in [Station -> SUBSET (Ticket \cup {Nobody})]

(* A certificate learnt by radio is one the validator of the station       *)
(* accepts, and the station has received a message that was signed with    *)
(* it: verify stores a certificate only after both checks.  (With the      *)
(* types.)                                                                 *)
CacheSound ==
    /\ DistributionTypeOK
    /\ \A n \in Station : \A cert \in cache[n].storage \ Preloaded[n] :
            cert \notin Rejected[n] /\ cert \in proven[n]

(* A station that was asked for its ticket has not forgotten it before it  *)
(* has sent the ticket, whatever else it is asked for, answers or hears    *)
(* answered meanwhile; only more requests than the queue has room for, an  *)
(* answer with a certificate of the same truncated digest, or a CAM that   *)
(* could not be signed, make it forget.                                    *)
RequestRemembered ==
    \A n \in owed :
        IsPending(policy[n].incoming, Short[OwnTicket[n]]) \/ policy[n].requested

(* Every station gets to know the ticket of every other one whose messages *)
(* it accepts, although messages are lost, requests are dropped and        *)
(* signing fails after the certificate was taken for sent.                 *)
Acquainted ==
    \A n, m \in Station :
        n # m /\ OwnTicket[m] \notin Rejected[n] => <>(OwnTicket[m] \in cache[n].storage)

(* A request of a peer waits forever only if, from some time on, every CAM *)
(* of the station carries the own certificate: such CAMs answer no other   *)
(* request.  That happens if the own certificate is asked for again and    *)
(* again, and to a station that sends CAMs no more often than they have to *)
(* carry the certificate.                                                  *)
RequestsDrain ==
    \A n \in Station, id \in HashedId3 :
        \/ []<>~IsPending(policy[n].incoming, id)
        \/ <>[][SendCam(n) => SendsCertificate(n)]_distributionVars
=============================================================================
