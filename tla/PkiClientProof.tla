--------------------------- MODULE PkiClientProof ---------------------------
(***************************************************************************)
(* Proofs about PkiClient, for any number of processes, keys and tickets:  *)
(* what is stored fits together whichever commands run at the same time    *)
(* and wherever one of them dies.                                          *)
(***************************************************************************)
EXTENDS PkiClient, TLAPS

Request == {"initial", "renewal", "tickets"}

(* The state of a process, if so many keys have been created. *)
State(n) ==
    [cmd : Request \cup {"none", "expired", "orphans"},
     pc : {"idle", "create", "bootstrap", "sign", "answer", "store", "truncate", "write",
           "leave", "scan ecs", "scan ats", "ecs", "ats", "collect", "list", "discard"},
     key : 1..n \cup {None}, boot : BOOLEAN, signer : 1..n \cup {None, Boot},
     cert : 1..n \cup {None}, left : 0..MaxTickets, todo : SUBSET (1..n \cup {Boot}),
     warned : SUBSET (1..n \cup {Boot}), station : 1..n \cup {None}, since : SUBSET (1..n),
     force : BOOLEAN, keep : BOOLEAN]

Types ==
    /\ created \in 0..MaxKeys
    /\ keys \subseteq 1..created \cup {Boot}
    /\ ecs \subseteq 1..created /\ ats \subseteq 1..created
    /\ ecId \in 1..created \cup {None}
    /\ expired \subseteq 1..created /\ gone \subseteq 1..created
    /\ stray \subseteq 1..created \cup {Boot}
    /\ proc \in [Process -> State(created)]

(* Where a command can stand, and what it holds there. *)
RequestStage(me) ==
    /\ me.cmd \in Request
    /\ me.cmd = "tickets" /\ me.pc # "leave" => me.left >= 1
    /\ \/ me.pc = "create" /\ me.key = None /\ me.cert = None
       \/ me.pc \in {"bootstrap", "sign", "answer"} /\ me.key # None /\ me.cert = None
       \/ me.pc \in {"store", "truncate", "write"} /\ me.key = None /\ me.cert # None
       \/ me.pc = "leave" /\ me.cert = None

ScanStage(me) ==
    /\ me.cmd = "expired"
    /\ me.pc \in {"scan ecs", "scan ats", "ecs", "ats"}
    /\ me.key = None /\ me.boot = FALSE
    /\ me.pc \in {"scan ecs", "scan ats"} => me.cert = None

OrphansStage(me) ==
    /\ me.cmd = "orphans"
    /\ me.pc \in {"collect", "list", "discard"}
    /\ me.key = None /\ me.boot = FALSE /\ me.cert = None

Stages ==
    \A p \in Process :
        proc[p] = Idle \/ RequestStage(proc[p]) \/ ScanStage(proc[p]) \/ OrphansStage(proc[p])

(* A key that a request has created: in the ScopedKeyPair or, once this is *)
(* committed, about to be stored and referred to.                          *)
Owns(p, k) == proc[p].cmd \in Request /\ k # None /\ (k = proc[p].key \/ k = proc[p].cert)

(* The key of a request has no other owner.  It has not expired, nor can   *)
(* it before the commands that run at the moment have ended.  It is a      *)
(* stored certificate once this has been stored.                           *)
Ownership ==
    \A p \in Process : \A k \in 1..created : Owns(p, k) =>
        /\ k \notin expired
        /\ \A q \in Process : k \notin proc[q].since
        /\ \A q \in Process : Owns(q, k) => q = p
        /\ k \notin ats
        /\ k \in ecs <=> proc[p].pc \in {"truncate", "write"}

(* What a scan has erased is not stored again before its key is discarded. *)
Erased ==
    \A p \in Process :
        proc[p].cmd = "expired" /\ proc[p].cert # None
            => proc[p].cert \in expired /\ proc[p].cert \notin ecs \cup ats

(* No certificate is an EC and a ticket. *)
Apart == ecs \cap ats = {}

(* An EC in use that a scan does not know of has been put in place since   *)
(* the scan was started, and therefore does not expire meanwhile.          *)
Scans ==
    \A p \in Process :
        proc[p].pc = "ecs" /\ ecId # None /\ ecId # proc[p].station
            => ecId \notin expired /\ ecId \notin proc[p].since

Inv1 == Types /\ Stages /\ Ownership /\ Erased /\ Apart /\ Scans /\ EcAvailable

(* The rest of the invariant holds if prune orphans runs alone. *)
RunsAlone ==
    \A p, q \in Process : proc[p].cmd = "orphans" /\ q # p => proc[q].cmd = "none"

(* A request has its key until it gives up. *)
KeysThere ==
    \A p \in Process : \A k \in 1..created :
        Owns(p, k) /\ proc[p].pc # "leave" => k \in keys

(* What prune orphans has collected or still has to discard. *)
Collected ==
    \A p \in Process :
        /\ proc[p].pc = "collect" => proc[p].todo = ecs /\ proc[p].warned = {}
        /\ proc[p].pc = "list" => proc[p].todo = ecs \cup ats /\ proc[p].warned = {}
        /\ proc[p].pc = "discard"
                => proc[p].todo = keys \ (ecs \cup ats \cup proc[p].warned)

Inv2 == RunsAlone /\ ecs \cup ats \subseteq keys /\ KeysThere /\ Collected

-----------------------------------------------------------------------------
(* Fields of the state of a process *)

(* A process that runs no command holds nothing. *)
LEMMA IdleFields ==
    /\ Idle.cmd = "none" /\ Idle.pc = "idle" /\ Idle.key = None /\ Idle.boot = FALSE
    /\ Idle.cert = None /\ Idle.since = {} /\ Idle.warned = {}
BY DEF Idle

(* It has a state of the type. *)
LEMMA IdleType == ASSUME NEW n \in Nat PROVE Idle \in State(n)
BY PkiAssumption DEF Idle, State

(* Only the state of one process changes. *)
LEMMA Gone ==
    ASSUME Types, NEW p \in Process, NEW S, NEW new \in S, proc \in [Process -> S], Go(p, new)
    PROVE  /\ proc' \in [Process -> S]
           /\ proc'[p] = new
           /\ \A q \in Process \ {p} : proc'[q] = proc[q]
BY DEF Go

(* The fields of the state of a process have their types. *)
LEMMA ProcessState ==
    ASSUME Types, NEW p \in Process
    PROVE  /\ created \in Nat /\ proc[p] \in State(created)
           /\ proc[p].key \in 1..created \cup {None}
           /\ proc[p].cert \in 1..created \cup {None}
           /\ proc[p].todo \subseteq 1..created \cup {Boot}
           /\ proc[p].warned \subseteq 1..created \cup {Boot}
           /\ proc[p].left \in 0..MaxTickets
           /\ proc[p].since \subseteq 1..created
<1>1. created \in Nat /\ proc[p] \in State(created)
    BY PkiAssumption DEF Types
<1> QED BY <1>1 DEF State

(* What discard does to the credential storage. *)
LEMMA Discarded ==
    ASSUME Types, NEW S \in SUBSET (1..created \cup {Boot}), NEW k, Discard(S, k)
    PROVE  /\ keys' \subseteq 1..created \cup {Boot} /\ stray' \subseteq 1..created \cup {Boot}
           /\ S \ {k} \subseteq keys' /\ keys' \subseteq S
           /\ stray \subseteq stray' /\ keys' \cap {k} \subseteq stray'
BY DEF Types, Discard

(* Where a command stands tells which command it is. *)
LEMMA StageOfState ==
    ASSUME NEW me, me = Idle \/ RequestStage(me) \/ ScanStage(me) \/ OrphansStage(me)
    PROVE  /\ me.pc \in {"create", "bootstrap", "sign", "answer", "store", "truncate",
                        "write", "leave"}
                => RequestStage(me)
           /\ me.pc \in {"scan ecs", "scan ats", "ecs", "ats"} => ScanStage(me)
           /\ me.pc \in {"collect", "list", "discard"} => OrphansStage(me)
           /\ me.cmd = "none" => me = Idle
<1>1. CASE me = Idle
    BY <1>1, IdleFields
<1>2. CASE RequestStage(me)
    BY <1>2 DEF RequestStage, Request
<1>3. CASE ScanStage(me)
    BY <1>3 DEF ScanStage
<1>4. CASE OrphansStage(me)
    BY <1>4 DEF OrphansStage
<1> QED BY <1>1, <1>2, <1>3, <1>4

(* The same for the state a process is in. *)
LEMMA StageOf ==
    ASSUME Stages, NEW p \in Process
    PROVE  /\ proc[p].pc \in {"create", "bootstrap", "sign", "answer", "store", "truncate",
                             "write", "leave"}
                => RequestStage(proc[p])
           /\ proc[p].pc \in {"scan ecs", "scan ats", "ecs", "ats"} => ScanStage(proc[p])
           /\ proc[p].pc \in {"collect", "list", "discard"} => OrphansStage(proc[p])
           /\ proc[p].cmd = "none" => proc[p] = Idle
BY StageOfState DEF Stages

-----------------------------------------------------------------------------
(* A command that gets on with what it holds preserves the invariant, as   *)
(* long as the certificates stay what they are.                            *)
LEMMA Proceeds ==
    ASSUME Inv1, NEW p \in Process, NEW new \in State(created), Go(p, new),
           UNCHANGED <<ecs, ats, ecId, created, expired, gone>>,
           keys' \subseteq 1..created \cup {Boot}, stray' \subseteq 1..created \cup {Boot},
           new.cmd = proc[p].cmd, new.since = proc[p].since,
           RequestStage(new) \/ ScanStage(new) \/ OrphansStage(new),
           new.key \in {proc[p].key, None},
           \/ new.cert \in {proc[p].cert, None}
           \/ proc[p].cmd \in Request /\ new.cert = proc[p].key,
           new.pc \in {"truncate", "write"} <=> proc[p].pc \in {"truncate", "write"},
           new.pc = "ecs" => \/ proc[p].pc = "ecs" /\ new.station = proc[p].station
                             \/ new.station = ecId
    PROVE  Inv1'
<1>1. /\ proc' \in [Process -> State(created)]
      /\ proc'[p] = new /\ \A q \in Process \ {p} : proc'[q] = proc[q]
    BY Gone DEF Inv1, Types
<1>2. Types'
    BY <1>1 DEF Inv1, Types
<1>3. Stages'
    BY <1>1 DEF Inv1, Stages
<1>4. Ownership'
    BY <1>1 DEF Inv1, Ownership, Owns
<1>5. Erased'
    BY <1>1 DEF Inv1, Erased, ScanStage, RequestStage, OrphansStage, Request
<1>6. Apart'
    BY DEF Inv1, Apart
<1>7. Scans'
    BY <1>1 DEF Inv1, Scans
<1>8. EcAvailable'
    BY DEF Inv1, EcAvailable
<1> QED BY <1>2, <1>3, <1>4, <1>5, <1>6, <1>7, <1>8 DEF Inv1

(* So does a command that ends or dies. *)
LEMMA Ends ==
    ASSUME Inv1, NEW p \in Process, Go(p, Idle),
           UNCHANGED <<keys, ecs, ats, ecId, created, expired, gone>>,
           stray' \subseteq 1..created \cup {Boot}
    PROVE  Inv1'
<1>1. Idle \in State(created)
    BY PkiAssumption, IdleType DEF Inv1, Types
<1>2. /\ proc' \in [Process -> State(created)]
      /\ proc'[p] = Idle /\ \A q \in Process \ {p} : proc'[q] = proc[q]
    BY <1>1, Gone DEF Inv1, Types
<1>3. Types'
    BY <1>2 DEF Inv1, Types
<1>4. Stages'
    BY <1>2 DEF Inv1, Stages
<1>5. Ownership'
    BY <1>2, IdleFields DEF Inv1, Ownership, Owns, Request
<1>6. Erased'
    BY <1>2, IdleFields DEF Inv1, Erased
<1>7. Apart'
    BY DEF Inv1, Apart
<1>8. Scans'
    BY <1>2, IdleFields DEF Inv1, Scans
<1>9. EcAvailable'
    BY DEF Inv1, EcAvailable
<1> QED BY <1>3, <1>4, <1>5, <1>6, <1>7, <1>8, <1>9 DEF Inv1

-----------------------------------------------------------------------------
(* One lemma for each action.  A command that starts takes note of the     *)
(* certificates nobody owns.                                               *)
LEMMA Starts ==
    ASSUME Inv1, NEW p \in Process, NEW new \in State(created), Go(p, new),
           proc[p].cmd = "none",
           UNCHANGED <<keys, ecs, ats, ecId, created, expired, stray, gone>>,
           new.key = None, new.cert = None,
           new.since = Command("initial").since,
           RequestStage(new) \/ ScanStage(new) \/ OrphansStage(new),
           new.pc \notin {"ecs", "ats"}
    PROVE  Inv1'
<1>1. /\ proc' \in [Process -> State(created)]
      /\ proc'[p] = new /\ \A q \in Process \ {p} : proc'[q] = proc[q]
    BY Gone DEF Inv1, Types
<1>2. Types'
    BY <1>1 DEF Inv1, Types
<1>3. Stages'
    BY <1>1 DEF Inv1, Stages
<1>4. new.since = (ecs \cup ats) \ UNION {Held(q) : q \in Process}
    BY DEF Command, Idle
<1>5. ASSUME NEW q \in Process, NEW k, Owns(q, k)
      PROVE  k \notin new.since
    <2>1. k \in Held(q)
        BY <1>5 DEF Owns, Held
    <2> QED BY <1>4, <2>1
<1>6. Ownership'
    BY <1>1, <1>5 DEF Inv1, Ownership, Owns, Request
<1>7. Erased'
    BY <1>1 DEF Inv1, Erased
<1>8. Apart'
    BY DEF Inv1, Apart
<1>9. Scans'
    BY <1>1 DEF Inv1, Scans
<1>10. EcAvailable'
    BY DEF Inv1, EcAvailable
<1> QED BY <1>2, <1>3, <1>6, <1>7, <1>8, <1>9, <1>10 DEF Inv1

(* The state of a command that starts *)
LEMMA CommandFields ==
    ASSUME Inv1, NEW cmd \in Request \cup {"expired", "orphans"}
    PROVE  /\ Command(cmd) \in State(created)
           /\ Command(cmd).cmd = cmd /\ Command(cmd).key = None /\ Command(cmd).cert = None
           /\ Command(cmd).boot = FALSE /\ Command(cmd).warned = {}
           /\ Command(cmd).since = Command("initial").since
<1>1. Command(cmd) = [Idle EXCEPT !.cmd = cmd, !.since = Command("initial").since]
    BY DEF Command, Idle
<1>2. Command("initial").since \subseteq 1..created
    BY DEF Command, Idle, Inv1, Types
<1>3. created \in Nat
    BY PkiAssumption DEF Inv1, Types
<1> DEFINE since == Command("initial").since
<1> HIDE DEF since
<1>4. [Idle EXCEPT !.cmd = cmd, !.since = since] \in State(created)
    BY <1>2, <1>3, IdleType DEF State, since
<1> QED BY <1>1, <1>4, IdleFields DEF since, Idle

(* Enrolment, renewal, a request for tickets, prune expired and prune      *)
(* orphans start.                                                          *)
LEMMA StartStep ==
    ASSUME Inv1, NEW p \in Process, Start(p)
    PROVE  Inv1'
<1>1. proc[p].cmd = "none"
    BY DEF Start, StartInitial, StartRenewal, StartTickets, StartExpired, StartOrphans,
           MayStart, Busy
<1>2. UNCHANGED <<keys, ecs, ats, ecId, created, expired, stray, gone>>
    BY DEF Start, StartInitial, StartRenewal, StartTickets, StartExpired, StartOrphans
<1>3. CASE StartInitial(p)
    <2> DEFINE base == Command("initial")
               new == [base EXCEPT !.pc = "create", !.signer = Boot]
    <2>1. Go(p, new)
        BY <1>3 DEF StartInitial
    <2>2. /\ base \in State(created) /\ base.cmd = "initial"
          /\ base.key = None /\ base.cert = None
        BY CommandFields DEF Request
    <2> HIDE DEF base
    <2>3. /\ new \in State(created) /\ new.cmd = "initial" /\ new.pc = "create"
          /\ new.key = None /\ new.cert = None /\ new.since = base.since
        BY <2>2 DEF State
    <2> HIDE DEF new
    <2>4. RequestStage(new)
        BY <2>3 DEF RequestStage, Request
    <2> QED BY <1>1, <1>2, <2>1, <2>3, <2>4, Starts DEF base
<1>4. CASE StartRenewal(p)
    <2> DEFINE base == Command("renewal")
               new == [base EXCEPT !.pc = "create", !.signer = ecId]
    <2>1. Go(p, new) /\ ecId \in 1..created
        BY <1>4 DEF StartRenewal, HasEc, Inv1, Types
    <2>2. /\ base \in State(created) /\ base.cmd = "renewal"
          /\ base.key = None /\ base.cert = None
          /\ base.since = Command("initial").since
        BY CommandFields DEF Request
    <2> HIDE DEF base
    <2>3. /\ new \in State(created) /\ new.cmd = "renewal" /\ new.pc = "create"
          /\ new.key = None /\ new.cert = None /\ new.since = base.since
        BY <2>1, <2>2 DEF State
    <2> HIDE DEF new
    <2>4. RequestStage(new)
        BY <2>3 DEF RequestStage, Request
    <2> QED BY <1>1, <1>2, <2>1, <2>2, <2>3, <2>4, Starts
<1>5. CASE StartTickets(p)
    <2>0. PICK count \in 1..MaxTickets :
            Go(p, [Command("tickets") EXCEPT !.pc = "create", !.signer = ecId, !.left = count])
        BY <1>5 DEF StartTickets
    <2> DEFINE base == Command("tickets")
               new == [base EXCEPT !.pc = "create", !.signer = ecId, !.left = count]
    <2>1. Go(p, new) /\ ecId \in 1..created
        BY <1>5, <2>0 DEF StartTickets, HasEc, Inv1, Types
    <2>2. /\ base \in State(created) /\ base.cmd = "tickets"
          /\ base.key = None /\ base.cert = None
          /\ base.since = Command("initial").since
        BY CommandFields DEF Request
    <2> HIDE DEF base
    <2>a. count \in 0..MaxTickets /\ count >= 1
        BY PkiAssumption
    <2>3. new \in State(created)
        BY <2>a, <2>1, <2>2 DEF State
    <2>4. /\ new.cmd = "tickets" /\ new.pc = "create" /\ new.left = count
          /\ new.key = None /\ new.cert = None /\ new.since = base.since
        BY <2>2 DEF State
    <2> HIDE DEF new
    <2>5. RequestStage(new)
        BY <2>a, <2>4 DEF RequestStage, Request
    <2> QED BY <1>1, <1>2, <2>1, <2>2, <2>3, <2>4, <2>5, Starts
<1>6. CASE StartExpired(p)
    <2>0. PICK force \in BOOLEAN, keep \in BOOLEAN, pc \in {"scan ats", "scan ecs"} :
            Go(p, [Command("expired") EXCEPT !.pc = pc, !.force = force, !.keep = keep])
        BY <1>6 DEF StartExpired
    <2> DEFINE base == Command("expired")
               new == [base EXCEPT !.pc = pc, !.force = force, !.keep = keep]
    <2>1. Go(p, new)
        BY <2>0
    <2>2. /\ base \in State(created) /\ base.cmd = "expired" /\ base.boot = FALSE
          /\ base.key = None /\ base.cert = None
          /\ base.since = Command("initial").since
        BY CommandFields
    <2> HIDE DEF base
    <2>3. new \in State(created)
        BY <2>2 DEF State
    <2>4. /\ new.cmd = "expired" /\ new.pc = pc /\ new.boot = FALSE
          /\ new.key = None /\ new.cert = None /\ new.since = base.since
        BY <2>2 DEF State
    <2> HIDE DEF new
    <2>5. ScanStage(new)
        BY <2>4 DEF ScanStage
    <2> QED BY <1>1, <1>2, <2>1, <2>2, <2>3, <2>4, <2>5, Starts
<1>7. CASE StartOrphans(p)
    <2> DEFINE base == Command("orphans")
               new == [base EXCEPT !.pc = "collect", !.todo = ecs]
    <2>1. Go(p, new) /\ ecs \subseteq 1..created
        BY <1>7 DEF StartOrphans, Inv1, Types
    <2>2. /\ base \in State(created) /\ base.cmd = "orphans" /\ base.boot = FALSE
          /\ base.key = None /\ base.cert = None
          /\ base.since = Command("initial").since
        BY CommandFields
    <2> HIDE DEF base
    <2>3. /\ new \in State(created) /\ new.cmd = "orphans" /\ new.pc = "collect"
          /\ new.boot = FALSE
          /\ new.key = None /\ new.cert = None /\ new.since = base.since
        BY <2>1, <2>2 DEF State
    <2> HIDE DEF new
    <2>4. OrphansStage(new)
        BY <2>3 DEF OrphansStage
    <2> QED BY <1>1, <1>2, <2>1, <2>2, <2>3, <2>4, Starts
<1> QED BY <1>3, <1>4, <1>5, <1>6, <1>7 DEF Start

(* A request goes on with what it holds: it changes no more than pc. *)
LEMMA Moves ==
    ASSUME Inv1, NEW p \in Process, NEW pc, RequestStage(proc[p]),
           Go(p, [proc[p] EXCEPT !.pc = pc]),
           \/ pc = "leave" /\ proc[p].cert = None
           \/ pc = "answer" /\ proc[p].pc = "sign",
           keys' \subseteq 1..created \cup {Boot}, stray' \subseteq 1..created \cup {Boot},
           UNCHANGED <<ecs, ats, ecId, created, expired, gone>>
    PROVE  Inv1'
<1> DEFINE me == proc[p]
           new == [me EXCEPT !.pc = pc]
<1>1. me \in State(created)
    BY ProcessState DEF Inv1
<1>2. /\ keys' \subseteq 1..created \cup {Boot} /\ stray' \subseteq 1..created \cup {Boot}
      /\ Go(p, new)
      /\ UNCHANGED <<ecs, ats, ecId, created, expired, gone>>
    BY DEF Inv1, Types
<1> HIDE DEF me
<1>3. new \in State(created)
    BY <1>1 DEF State
<1>4. /\ new.cmd = me.cmd /\ new.pc = pc /\ new.since = me.since /\ new.key = me.key
      /\ new.cert = me.cert /\ new.left = me.left
    BY <1>1 DEF State
<1> HIDE DEF new
<1>5. /\ RequestStage(new) /\ me.pc \notin {"truncate", "write"}
      /\ new.pc \notin {"truncate", "write", "ecs"}
    BY <1>4 DEF RequestStage, me
<1> QED BY <1>2, <1>3, <1>4, <1>5, Proceeds DEF me

(* A key that is created has no owner yet and belongs to no certificate.   *)
(* One that could not be written never gets an owner.                      *)
LEMMA CreateKeyStep ==
    ASSUME Inv1, NEW p \in Process, CreateKey(p)
    PROVE  Inv1'
<1> DEFINE me == proc[p]
           k == created + 1
           good == [me EXCEPT !.key = k,
                              !.pc = IF me.cmd = "initial" THEN "bootstrap" ELSE "sign"]
           bad == [me EXCEPT !.pc = "leave"]
<1>1. created \in Nat /\ created' = k /\ k \in 0..MaxKeys /\ 1..k = 1..created \cup {k}
    BY PkiAssumption DEF Inv1, Types, CreateKey
<1>2. me \in State(created) /\ RequestStage(me) /\ me.pc = "create"
    BY ProcessState, StageOf DEF Inv1, CreateKey
<1>3. PICK new \in {good, bad} : Go(p, new)
    BY <1>1 DEF CreateKey, Leave
<1>x. /\ keys' \subseteq keys \cup {k} /\ stray' \subseteq stray \cup {k}
      /\ UNCHANGED <<ecs, ats, ecId, expired, gone>>
    BY <1>1 DEF CreateKey
<1> HIDE DEF me, k
<1>4. State(created) \subseteq State(k)
    BY <1>1 DEF State
<1>5. good \in State(k) /\ bad \in State(k)
    <2>1. me \in State(k) /\ k \in 1..k
        BY <1>1, <1>2, <1>4
    <2>a. \A pc \in {"bootstrap", "sign"} : [me EXCEPT !.key = k, !.pc = pc] \in State(k)
        BY <2>1 DEF State
    <2>2. good \in State(k)
        BY <2>a
    <2>3. bad \in State(k)
        BY <2>1 DEF State
    <2> QED BY <2>2, <2>3
<1>6. /\ new.cmd = me.cmd /\ new.pc \in {"bootstrap", "sign", "leave"}
      /\ new.since = me.since /\ new.cert = me.cert /\ new.left = me.left
      /\ new.pc # "leave" => new.key = k
      /\ new.pc = "leave" => new.key = me.key
    <2>1. CASE new = good
        BY <1>2, <2>1 DEF State
    <2>2. CASE new = bad
        BY <1>2, <2>2 DEF State
    <2> QED BY <1>3, <2>1, <2>2
<1>y. new \in State(k)
    BY <1>3, <1>5
<1> HIDE DEF good, bad
<1>7. RequestStage(new) /\ new.cert = None /\ me.key = None
    BY <1>1, <1>2, <1>6, PkiAssumption DEF RequestStage
<1>8. /\ proc' \in [Process -> State(k)]
      /\ proc'[p] = new /\ \A q \in Process \ {p} : proc'[q] = proc[q]
    BY <1>3, <1>4, <1>y, Gone DEF Inv1, Types
<1>9. Types'
    BY <1>1, <1>x, <1>8 DEF Inv1, Types
<1>10. Stages'
    BY <1>7, <1>8 DEF Inv1, Stages
<1>11. /\ k \notin 1..created /\ k \notin expired /\ k \notin ecs /\ k \notin ats
    BY <1>1 DEF Inv1, Types, k
<1>12. \A q \in Process : k \notin proc[q].since /\ k # proc[q].key /\ k # proc[q].cert
    BY <1>11, <1>1, PkiAssumption, ProcessState DEF Inv1
<1>13. Ownership'
    <2>1. new.key \in {k, None} /\ new.pc \notin {"truncate", "write"}
        BY <1>6, <1>7
    <2>2. new.cmd = proc[p].cmd /\ new.since = proc[p].since
        BY <1>6 DEF me
    <2> QED BY <1>1, <1>x, <1>7, <1>8, <1>11, <1>12, <2>1, <2>2 DEF Inv1, Ownership, Owns
<1>14. Erased'
    BY <1>x, <1>7, <1>8 DEF Inv1, Erased
<1>15. Apart'
    BY <1>x DEF Inv1, Apart
<1>16. Scans'
    BY <1>x, <1>6, <1>8 DEF Inv1, Scans
<1>17. EcAvailable'
    BY <1>x DEF Inv1, EcAvailable
<1> QED BY <1>9, <1>10, <1>13, <1>14, <1>15, <1>16, <1>17 DEF Inv1

(* The bootstrap key is no certificate's. *)
LEMMA StoreBootstrapStep ==
    ASSUME Inv1, NEW p \in Process, StoreBootstrap(p)
    PROVE  Inv1'
<1> DEFINE me == proc[p]
           new == [me EXCEPT !.boot = TRUE, !.pc = "sign"]
<1>1. me \in State(created) /\ RequestStage(me) /\ me.pc = "bootstrap"
    BY ProcessState, StageOf DEF Inv1, StoreBootstrap
<1>2. ASSUME NEW stored \in {keys, keys \cup {Boot}}, Discard(stored, Boot), Leave(p)
      PROVE  Inv1'
    <2>1. stored \in SUBSET (1..created \cup {Boot})
        BY DEF Inv1, Types
    <2>2. keys' \subseteq 1..created \cup {Boot} /\ stray' \subseteq 1..created \cup {Boot}
        BY <1>2, <2>1, Discarded DEF Inv1
    <2>3. UNCHANGED <<ecs, ats, ecId, created, expired, gone>>
        BY DEF StoreBootstrap
    <2> QED BY <1>1, <1>2, <2>2, <2>3, Moves DEF Leave, RequestStage
<1>3. CASE keys' = keys \cup {Boot} /\ Go(p, new) /\ UNCHANGED stray
    <2>1. /\ keys' \subseteq 1..created \cup {Boot} /\ stray' \subseteq 1..created \cup {Boot}
          /\ UNCHANGED <<ecs, ats, ecId, created, expired, gone>>
        BY <1>3 DEF Inv1, Types, StoreBootstrap
    <2> HIDE DEF me
    <2>2. new \in State(created)
        BY <1>1 DEF State
    <2>3. /\ new.cmd = me.cmd /\ new.pc = "sign" /\ new.since = me.since
          /\ new.key = me.key /\ new.cert = me.cert /\ new.left = me.left
        BY <1>1 DEF State
    <2>4. Go(p, new)
        BY <1>3
    <2> HIDE DEF new
    <2>5. RequestStage(new)
        BY <1>1, <2>3 DEF RequestStage
    <2> QED BY <1>1, <2>1, <2>2, <2>3, <2>4, <2>5, Proceeds DEF me
<1> QED BY <1>2, <1>3 DEF StoreBootstrap

(* A request is sent or given up. *)
LEMMA SendRequestStep ==
    ASSUME Inv1, NEW p \in Process, SendRequest(p)
    PROVE  Inv1'
<1>1. RequestStage(proc[p]) /\ proc[p].pc = "sign" /\ proc[p].cert = None
    BY StageOf DEF Inv1, SendRequest, RequestStage
<1>2. PICK pc \in {"answer", "leave"} : Go(p, [proc[p] EXCEPT !.pc = pc])
    BY DEF SendRequest, Leave
<1>3. /\ keys' \subseteq 1..created \cup {Boot} /\ stray' \subseteq 1..created \cup {Boot}
      /\ UNCHANGED <<ecs, ats, ecId, created, expired, gone>>
    BY DEF SendRequest, Inv1, Types
<1> QED BY <1>1, <1>2, <1>3, Moves

(* The key becomes that of the certificate: its owner stays the same. *)
LEMMA AnswerStep ==
    ASSUME Inv1, NEW p \in Process, Answer(p)
    PROVE  Inv1'
<1> DEFINE me == proc[p]
           new == [me EXCEPT !.cert = me.key, !.key = None, !.pc = "store"]
<1>1. me \in State(created) /\ RequestStage(me) /\ me.pc = "answer"
    BY ProcessState, StageOf DEF Inv1, Answer
<1>0. /\ keys' \subseteq 1..created \cup {Boot} /\ stray' \subseteq 1..created \cup {Boot}
      /\ UNCHANGED <<ecs, ats, ecId, created, expired, gone>>
    BY DEF Inv1, Types, Answer
<1>2. CASE Leave(p)
    BY <1>0, <1>1, <1>2, Moves DEF Leave, RequestStage
<1>3. CASE Go(p, new)
    <2>1. /\ keys' \subseteq 1..created \cup {Boot} /\ stray' \subseteq 1..created \cup {Boot}
          /\ UNCHANGED <<ecs, ats, ecId, created, expired, gone>>
        BY <1>0
    <2> HIDE DEF me
    <2>2. new \in State(created)
        BY <1>1 DEF State
    <2>3. /\ new.cmd = me.cmd /\ new.pc = "store" /\ new.since = me.since
          /\ new.key = None /\ new.cert = me.key /\ new.left = me.left
        BY <1>1 DEF State
    <2>4. Go(p, new)
        BY <1>3
    <2> HIDE DEF new
    <2>5. RequestStage(new) /\ me.cmd \in Request
        BY <1>1, <2>3 DEF RequestStage
    <2> QED BY <1>1, <2>1, <2>2, <2>3, <2>4, <2>5, Proceeds DEF me
<1> QED BY <1>2, <1>3 DEF Answer

(* A ticket is stored, and its key loses its owner; or an EC is stored. *)
LEMMA StoreCertificateStep ==
    ASSUME Inv1, NEW p \in Process, StoreCertificate(p)
    PROVE  Inv1'
<1> DEFINE me == proc[p]
           k == me.cert
<1>1. /\ me \in State(created) /\ RequestStage(me) /\ me.pc = "store"
      /\ created \in Nat /\ k \in 1..created /\ me.left \in 0..MaxTickets
      /\ me.key = None
    BY ProcessState, StageOf, PkiAssumption DEF Inv1, StoreCertificate, RequestStage
<1>2. UNCHANGED <<keys, ecId, created, expired, gone>>
    BY DEF StoreCertificate
<1>3. Owns(p, k)
    BY <1>1, PkiAssumption DEF Owns, RequestStage
<1>4. /\ k \notin expired /\ k \notin ecs /\ k \notin ats
      /\ \A q \in Process : k \notin proc[q].since /\ (Owns(q, k) => q = p)
    BY <1>1, <1>3 DEF Inv1, Ownership
<1>5. CASE /\ stray' = stray \cup {k}
           /\ Go(p, [me EXCEPT !.cert = None, !.pc = "leave"])
           /\ UNCHANGED <<ecs, ats>>
    <2> DEFINE new == [me EXCEPT !.cert = None, !.pc = "leave"]
    <2>1. /\ keys' \subseteq 1..created \cup {Boot} /\ stray' \subseteq 1..created \cup {Boot}
          /\ UNCHANGED <<ecs, ats, ecId, created, expired, gone>>
          /\ Go(p, new)
        BY <1>1, <1>2, <1>5 DEF Inv1, Types
    <2> HIDE DEF me
    <2>2. new \in State(created)
        <3>1. me \in State(created)
            BY <1>1
        <3> QED BY <3>1, ZenonT(20) DEF State
    <2>3. /\ new.cmd = me.cmd /\ new.pc = "leave" /\ new.since = me.since
          /\ new.key = me.key /\ new.cert = None
        BY <1>1 DEF State
    <2> HIDE DEF new
    <2>4. RequestStage(new)
        BY <1>1, <2>3 DEF RequestStage
    <2> QED BY <1>1, <2>1, <2>2, <2>3, <2>4, Proceeds DEF me
<1>6. CASE /\ me.cmd = "tickets"
           /\ ats' = ats \cup {k}
           /\ Go(p, [me EXCEPT !.left = @ - 1, !.cert = None,
                               !.pc = IF me.left > 1 THEN "create" ELSE "leave"])
           /\ UNCHANGED <<ecs, stray>>
    <2> DEFINE left == me.left - 1
               pc == IF me.left > 1 THEN "create" ELSE "leave"
               new == [me EXCEPT !.left = left, !.cert = None, !.pc = pc]
    <2>0. Go(p, new)
        BY <1>6
    <2>1. left \in 0..MaxTickets /\ pc \in {"create", "leave"} /\ (pc = "create" => left >= 1)
        BY <1>1, <1>6, PkiAssumption DEF RequestStage
    <2> HIDE DEF me, left, pc
    <2>2. new \in State(created)
        <3>1. me \in State(created) /\ left \in 0..MaxTickets /\ pc \in {"create", "leave"}
            BY <1>1, <2>1
        <3> QED BY <3>1 DEF State
    <2>3. /\ new.cmd = me.cmd /\ new.pc = pc /\ new.left = left /\ new.since = me.since
          /\ new.key = None /\ new.cert = None
        BY <1>1 DEF State
    <2> HIDE DEF new
    <2>4. RequestStage(new)
        BY <1>1, <1>6, <2>1, <2>3 DEF RequestStage, Request
    <2>5. /\ proc' \in [Process -> State(created)]
          /\ proc'[p] = new /\ \A q \in Process \ {p} : proc'[q] = proc[q]
        BY <2>0, <2>2, Gone DEF Inv1, Types
    <2>6. Types'
        BY <1>1, <1>2, <1>6, <2>5 DEF Inv1, Types
    <2>7. Stages'
        BY <2>4, <2>5 DEF Inv1, Stages
    <2>8. Ownership'
        BY <1>2, <1>4, <1>6, <2>3, <2>5, PkiAssumption DEF Inv1, Types, Ownership, Owns, me
    <2>9. Erased'
        BY <1>2, <1>4, <1>6, <2>3, <2>5 DEF Inv1, Erased
    <2>10. Apart'
        BY <1>4, <1>6 DEF Inv1, Apart
    <2>11. Scans'
        BY <1>2, <2>1, <2>3, <2>5 DEF Inv1, Scans
    <2>12. EcAvailable'
        BY <1>2, <1>6 DEF Inv1, EcAvailable
    <2> QED BY <2>6, <2>7, <2>8, <2>9, <2>10, <2>11, <2>12 DEF Inv1
<1>7. CASE /\ me.cmd # "tickets"
           /\ ecs' = ecs \cup {k}
           /\ Go(p, [me EXCEPT !.pc = "truncate"])
           /\ UNCHANGED <<ats, stray>>
    <2> DEFINE new == [me EXCEPT !.pc = "truncate"]
    <2>0. Go(p, new)
        BY <1>7
    <2> HIDE DEF me
    <2>2. new \in State(created)
        <3>1. me \in State(created)
            BY <1>1
        <3> QED BY <3>1, ZenonT(20) DEF State
    <2>3. /\ new.cmd = me.cmd /\ new.pc = "truncate" /\ new.since = me.since
          /\ new.key = None /\ new.cert = k /\ new.left = me.left
        BY <1>1 DEF State
    <2> HIDE DEF new
    <2>4. RequestStage(new)
        BY <1>1, <2>3 DEF RequestStage
    <2>5. /\ proc' \in [Process -> State(created)]
          /\ proc'[p] = new /\ \A q \in Process \ {p} : proc'[q] = proc[q]
        BY <2>0, <2>2, Gone DEF Inv1, Types
    <2>6. Types'
        BY <1>1, <1>2, <1>7, <2>5 DEF Inv1, Types
    <2>7. Stages'
        BY <2>4, <2>5 DEF Inv1, Stages
    <2>8. Ownership'
        BY <1>1, <1>2, <1>4, <1>7, <2>3, <2>5, PkiAssumption DEF Inv1, Types, Ownership, Owns, me
    <2>9. Erased'
        BY <1>1, <1>2, <1>4, <1>7, <2>3, <2>4, <2>5 DEF Inv1, Erased, RequestStage, Request
    <2>10. Apart'
        BY <1>4, <1>7 DEF Inv1, Apart
    <2>11. Scans'
        BY <1>2, <2>3, <2>5 DEF Inv1, Scans
    <2>12. EcAvailable'
        BY <1>2, <1>7 DEF Inv1, EcAvailable
    <2> QED BY <2>6, <2>7, <2>8, <2>9, <2>10, <2>11, <2>12 DEF Inv1
<1> QED BY <1>5, <1>6, <1>7 DEF StoreCertificate

(* The identifier is emptied, and refers to nothing for a while. *)
LEMMA TruncateIdentifierStep ==
    ASSUME Inv1, NEW p \in Process, TruncateIdentifier(p)
    PROVE  Inv1'
<1> DEFINE me == proc[p]
           new == [me EXCEPT !.pc = "write"]
<1>1. /\ me \in State(created) /\ RequestStage(me) /\ me.pc = "truncate"
      /\ Go(p, new) /\ ecId' = None
      /\ UNCHANGED <<keys, ecs, ats, created, expired, stray, gone>>
    BY ProcessState, StageOf DEF Inv1, TruncateIdentifier
<1> HIDE DEF me
<1>2. new \in State(created)
    BY <1>1 DEF State
<1>3. /\ new.cmd = me.cmd /\ new.pc = "write" /\ new.since = me.since
      /\ new.key = me.key /\ new.cert = me.cert /\ new.left = me.left
    BY <1>1 DEF State
<1>4. Go(p, new)
    BY <1>1
<1> HIDE DEF new
<1>5. RequestStage(new)
    BY <1>1, <1>3 DEF RequestStage
<1>6. /\ proc' \in [Process -> State(created)]
      /\ proc'[p] = new /\ \A q \in Process \ {p} : proc'[q] = proc[q]
    BY <1>2, <1>4, Gone DEF Inv1, Types
<1>7. Types'
    BY <1>1, <1>6 DEF Inv1, Types
<1>8. Stages'
    BY <1>5, <1>6 DEF Inv1, Stages
<1>9. Ownership'
    BY <1>1, <1>3, <1>6 DEF Inv1, Ownership, Owns, me
<1>10. Erased'
    BY <1>1, <1>3, <1>5, <1>6 DEF Inv1, Erased, RequestStage, Request
<1>11. Apart' /\ Scans' /\ EcAvailable'
    BY <1>1 DEF Inv1, Apart, Scans, EcAvailable
<1> QED BY <1>7, <1>8, <1>9, <1>10, <1>11 DEF Inv1

(* The identifier refers to the EC that was stored.  Its owner has it      *)
(* stored before, and no scan could erase it.                              *)
LEMMA WriteIdentifierStep ==
    ASSUME Inv1, NEW p \in Process, WriteIdentifier(p)
    PROVE  Inv1'
<1> DEFINE me == proc[p]
           k == me.cert
           new == [me EXCEPT !.cert = None, !.pc = "leave"]
<1>1. /\ me \in State(created) /\ RequestStage(me) /\ me.pc = "write"
      /\ created \in Nat /\ k \in 1..created /\ me.key = None
      /\ Go(p, new) /\ ecId' \in {k, None}
      /\ UNCHANGED <<keys, ecs, ats, created, expired, stray, gone>>
    BY ProcessState, StageOf, PkiAssumption DEF Inv1, WriteIdentifier, RequestStage
<1>2. Owns(p, k)
    BY <1>1, PkiAssumption DEF Owns, RequestStage
<1>3. /\ k \notin expired /\ k \in ecs
      /\ \A q \in Process : k \notin proc[q].since /\ (Owns(q, k) => q = p)
    BY <1>1, <1>2 DEF Inv1, Ownership
<1> HIDE DEF me
<1>4. new \in State(created)
    <2>1. me \in State(created)
        BY <1>1
    <2> QED BY <2>1, ZenonT(20) DEF State
<1>5. /\ new.cmd = me.cmd /\ new.pc = "leave" /\ new.since = me.since
      /\ new.key = None /\ new.cert = None /\ new.left = me.left
    BY <1>1 DEF State
<1>6. Go(p, new)
    BY <1>1
<1> HIDE DEF new
<1>7. RequestStage(new)
    BY <1>1, <1>5 DEF RequestStage
<1>8. /\ proc' \in [Process -> State(created)]
      /\ proc'[p] = new /\ \A q \in Process \ {p} : proc'[q] = proc[q]
    BY <1>4, <1>6, Gone DEF Inv1, Types
<1>9. Types'
    BY <1>1, <1>8 DEF Inv1, Types
<1>10. Stages'
    BY <1>7, <1>8 DEF Inv1, Stages
<1>11. Ownership'
    BY <1>1, <1>5, <1>8, PkiAssumption DEF Inv1, Ownership, Owns, me
<1>12. Erased'
    BY <1>1, <1>5, <1>8 DEF Inv1, Erased
<1>13. Scans'
    BY <1>1, <1>3, <1>5, <1>8 DEF Inv1, Scans
<1>14. Apart' /\ EcAvailable'
    BY <1>1, <1>3 DEF Inv1, Apart, EcAvailable
<1> QED BY <1>9, <1>10, <1>11, <1>12, <1>13, <1>14 DEF Inv1

(* The destructors of ScopedCredential and ScopedKeyPair remove keys only. *)
LEMMA DestroyStep ==
    ASSUME Inv1, NEW p \in Process, Destroy(p)
    PROVE  Inv1'
<1> DEFINE me == proc[p]
<1>0. me \in State(created)
    BY ProcessState DEF Inv1
<1>1. RequestStage(me) /\ me.pc = "leave" /\ me.cert = None
    BY StageOf DEF Inv1, Destroy, RequestStage
<1>2. /\ keys' \subseteq 1..created \cup {Boot} /\ stray' \subseteq 1..created \cup {Boot}
      /\ UNCHANGED <<ecs, ats, ecId, created, expired, gone>>
    BY DEF Inv1, Types, Destroy, Discard
<1>3. CASE Go(p, Idle) /\ UNCHANGED keys
    BY <1>2, <1>3, Ends
<1>4. CASE Go(p, [me EXCEPT !.boot = FALSE])
    <2> DEFINE new == [me EXCEPT !.boot = FALSE]
    <2> HIDE DEF me
    <2>1. new \in State(created)
        BY <1>0 DEF State
    <2>2. /\ new.cmd = me.cmd /\ new.pc = "leave" /\ new.since = me.since
          /\ new.key = me.key /\ new.cert = None /\ new.left = me.left
        BY <1>0, <1>1 DEF State
    <2>3. Go(p, new)
        BY <1>4
    <2> HIDE DEF new
    <2>4. RequestStage(new)
        BY <1>1, <2>2 DEF RequestStage
    <2> QED BY <1>1, <1>2, <2>1, <2>2, <2>3, <2>4, Proceeds DEF me
<1>5. CASE Go(p, [me EXCEPT !.key = None])
    <2> DEFINE new == [me EXCEPT !.key = None]
    <2> HIDE DEF me
    <2>1. new \in State(created)
        BY <1>0 DEF State
    <2>2. /\ new.cmd = me.cmd /\ new.pc = "leave" /\ new.since = me.since
          /\ new.key = None /\ new.cert = None /\ new.left = me.left
        BY <1>0, <1>1 DEF State
    <2>3. Go(p, new)
        BY <1>5
    <2> HIDE DEF new
    <2>4. RequestStage(new)
        BY <1>1, <2>2 DEF RequestStage
    <2> QED BY <1>1, <1>2, <2>1, <2>2, <2>3, <2>4, Proceeds DEF me
<1> QED BY <1>3, <1>4, <1>5 DEF Destroy

(* A scan takes note of the EC in use as it stands when the scan begins. *)
LEMMA ScanStoreStep ==
    ASSUME Inv1, NEW p \in Process, ScanStore(p)
    PROVE  Inv1'
<1> DEFINE me == proc[p]
<1>1. /\ me \in State(created) /\ ScanStage(me) /\ me.pc \in {"scan ecs", "scan ats"}
      /\ ecId \in 1..created \cup {None}
    BY ProcessState, StageOf DEF Inv1, Types, ScanStore
<1>2. /\ keys' \subseteq 1..created \cup {Boot} /\ stray' \subseteq 1..created \cup {Boot}
      /\ UNCHANGED <<ecs, ats, ecId, created, expired, gone>>
    BY DEF Inv1, Types, ScanStore
<1>3. PICK pc \in {"ecs", "ats"}, todo \in SUBSET (1..created \cup {Boot}) :
        Go(p, [me EXCEPT !.pc = pc, !.station = ecId, !.todo = todo])
    <2>1. /\ ecs \in SUBSET (1..created \cup {Boot})
          /\ ats \in SUBSET (1..created \cup {Boot})
        BY DEF Inv1, Types
    <2> QED BY <2>1 DEF ScanStore
<1> DEFINE new == [me EXCEPT !.pc = pc, !.station = ecId, !.todo = todo]
<1> HIDE DEF me
<1>4. new \in State(created)
    BY <1>1 DEF State
<1>5. /\ new.cmd = me.cmd /\ new.pc = pc /\ new.since = me.since
      /\ new.key = me.key /\ new.cert = me.cert /\ new.boot = me.boot
      /\ new.station = ecId
    BY <1>1 DEF State
<1>6. Go(p, new)
    BY <1>3
<1> HIDE DEF new
<1>7. ScanStage(new)
    BY <1>1, <1>5 DEF ScanStage
<1> QED BY <1>1, <1>2, <1>4, <1>5, <1>6, <1>7, Proceeds DEF me

(* An EC in use is erased by force only: its scan knows of it, or it has   *)
(* not expired.                                                            *)
LEMMA EraseExpiredStep ==
    ASSUME Inv1, NEW p \in Process, NEW k \in Key, EraseExpired(p, k)
    PROVE  Inv1'
<1> DEFINE me == proc[p]
<1>0. PICK erase \in BOOLEAN :
        /\ erase => Deletable(me, k)
        /\ ecs' = IF erase /\ me.pc = "ecs" THEN ecs \ {k} ELSE ecs
        /\ ats' = IF erase /\ me.pc = "ats" THEN ats \ {k} ELSE ats
        /\ gone' = IF erase /\ me.force THEN gone \cup {k} ELSE gone
        /\ stray' = IF erase /\ me.keep THEN stray \cup {k} ELSE stray
        /\ Go(p, [me EXCEPT !.todo = @ \ {k},
                            !.cert = IF erase /\ ~me.keep THEN k ELSE None])
    BY DEF EraseExpired
<1> DEFINE cert == IF erase /\ ~me.keep THEN k ELSE None
           todo == me.todo \ {k}
           new == [me EXCEPT !.todo = todo, !.cert = cert]
<1>1. /\ me \in State(created) /\ ScanStage(me) /\ me.pc \in {"ecs", "ats"} /\ me.cert = None
      /\ me.todo \subseteq 1..created \cup {Boot}
    BY ProcessState, StageOf DEF Inv1, EraseExpired
<1>2. /\ UNCHANGED <<keys, ecId, created, expired>>
      /\ ecs' = IF erase /\ me.pc = "ecs" THEN ecs \ {k} ELSE ecs
      /\ ats' = IF erase /\ me.pc = "ats" THEN ats \ {k} ELSE ats
      /\ gone' = IF erase /\ me.force THEN gone \cup {k} ELSE gone
      /\ stray' = IF erase /\ me.keep THEN stray \cup {k} ELSE stray
      /\ Go(p, new)
    BY <1>0 DEF EraseExpired
<1>3. /\ erase => k \in expired /\ k \in (IF me.pc = "ecs" THEN ecs ELSE ats)
      /\ erase /\ me.station = k => me.force
    BY <1>0 DEF Deletable
<1>4. expired \subseteq 1..created /\ cert \in 1..created \cup {None}
    BY <1>3 DEF Inv1, Types
<1> HIDE DEF me
<1>5. cert = None \/ (erase /\ cert = k)
    OBVIOUS
<1> HIDE DEF cert, todo
<1>6. new \in State(created)
    <2>1. /\ me \in State(created) /\ cert \in 1..created \cup {None}
          /\ todo \in SUBSET (1..created \cup {Boot})
        BY <1>1, <1>4 DEF todo
    <2> QED BY <2>1 DEF State
<1>7. /\ new.cmd = me.cmd /\ new.pc = me.pc /\ new.since = me.since /\ new.boot = me.boot
      /\ new.key = me.key /\ new.cert = cert /\ new.station = me.station
    BY <1>1 DEF State
<1> HIDE DEF new
<1>8. ScanStage(new)
    BY <1>1, <1>7 DEF ScanStage
<1>9. /\ proc' \in [Process -> State(created)]
      /\ proc'[p] = new /\ \A q \in Process \ {p} : proc'[q] = proc[q]
    BY <1>2, <1>6, Gone DEF Inv1, Types
<1>10. Types'
    BY <1>2, <1>3, <1>4, <1>9 DEF Inv1, Types
<1>11. Stages'
    BY <1>8, <1>9 DEF Inv1, Stages
<1>12. Ownership'
    <2>1. \A q \in Process :
            proc'[q].cmd = proc[q].cmd /\ proc'[q].since = proc[q].since
            /\ proc'[q].pc = proc[q].pc
            /\ (proc[q].cmd \in Request => proc'[q] = proc[q])
        BY <1>7, <1>8, <1>9 DEF ScanStage, Request, me
    <2>2. \A q \in Process : \A c : Owns(q, c)' <=> Owns(q, c)
        BY <2>1 DEF Owns
    <2>3. \A c : c \notin expired => (c \in ecs' <=> c \in ecs) /\ (c \in ats' <=> c \in ats)
        BY <1>2, <1>3
    <2> QED BY <1>2, <2>1, <2>2, <2>3 DEF Inv1, Ownership
<1>13. Erased'
    <2>1. ecs' \subseteq ecs /\ ats' \subseteq ats /\ expired' = expired
        BY <1>2
    <2>2. erase => k \in expired /\ k \notin ecs' \cup ats'
        BY <1>1, <1>2, <1>3 DEF Inv1, Apart
    <2> QED BY <1>5, <1>7, <1>9, <2>1, <2>2 DEF Inv1, Erased
<1>14. Apart'
    BY <1>2 DEF Inv1, Apart
<1>15. Scans'
    BY <1>2, <1>7, <1>9 DEF Inv1, Scans, me
<1>16. EcAvailable'
    <2>1. CASE ecId = k /\ erase /\ me.pc = "ecs"
        BY <1>2, <1>3, <2>1, PkiAssumption DEF Inv1, Scans, EcAvailable, Key, me
    <2>2. CASE ~(ecId = k /\ erase /\ me.pc = "ecs")
        BY <1>2, <2>2 DEF Inv1, EcAvailable
    <2> QED BY <2>1, <2>2
<1> QED BY <1>10, <1>11, <1>12, <1>13, <1>14, <1>15, <1>16 DEF Inv1

(* A scan discards the credential of what it has erased. *)
LEMMA DiscardExpiredStep ==
    ASSUME Inv1, NEW p \in Process, DiscardExpired(p)
    PROVE  Inv1'
<1> DEFINE me == proc[p]
           new == [me EXCEPT !.cert = None]
<1>1. me \in State(created) /\ ScanStage(me) /\ me.pc \in {"ecs", "ats"}
    BY ProcessState, StageOf DEF Inv1, DiscardExpired
<1>2. /\ keys' \subseteq 1..created \cup {Boot} /\ stray' \subseteq 1..created \cup {Boot}
      /\ UNCHANGED <<ecs, ats, ecId, created, expired, gone>>
      /\ Go(p, new)
    BY DEF Inv1, Types, DiscardExpired, Discard
<1> HIDE DEF me
<1>3. new \in State(created)
    BY <1>1 DEF State
<1>4. /\ new.cmd = me.cmd /\ new.pc = me.pc /\ new.since = me.since /\ new.boot = me.boot
      /\ new.key = me.key /\ new.cert = None /\ new.station = me.station
    BY <1>1 DEF State
<1> HIDE DEF new
<1>5. ScanStage(new)
    BY <1>1, <1>4 DEF ScanStage
<1> QED BY <1>1, <1>2, <1>3, <1>4, <1>5, Proceeds DEF me

(* A scan goes on with the tickets, or ends. *)
LEMMA EndScanStep ==
    ASSUME Inv1, NEW p \in Process, EndScan(p)
    PROVE  Inv1'
<1> DEFINE me == proc[p]
           new == [me EXCEPT !.pc = "scan ats"]
<1>1. me \in State(created) /\ ScanStage(me) /\ me.pc \in {"ecs", "ats"} /\ me.cert = None
    BY ProcessState, StageOf DEF Inv1, EndScan
<1>2. /\ keys' \subseteq 1..created \cup {Boot} /\ stray' \subseteq 1..created \cup {Boot}
      /\ UNCHANGED <<keys, ecs, ats, ecId, created, expired, gone>>
      /\ Go(p, new) \/ Go(p, Idle)
    BY DEF Inv1, Types, EndScan
<1>3. CASE Go(p, Idle)
    BY <1>2, <1>3, Ends
<1>4. CASE Go(p, new)
    <2> HIDE DEF me
    <2>1. new \in State(created)
        <3>1. me \in State(created)
            BY <1>1
        <3> QED BY <3>1, ZenonT(20) DEF State
    <2>2. /\ new.cmd = me.cmd /\ new.pc = "scan ats" /\ new.since = me.since
          /\ new.boot = me.boot /\ new.key = me.key /\ new.cert = None
        BY <1>1 DEF State
    <2>3. Go(p, new) /\ UNCHANGED <<ecs, ats, ecId, created, expired, gone>>
        BY <1>2, <1>4
    <2> HIDE DEF new
    <2>4. ScanStage(new)
        BY <1>1, <2>2 DEF ScanStage
    <2> QED BY <1>1, <1>2, <2>1, <2>2, <2>3, <2>4, Proceeds DEF me
<1> QED BY <1>2, <1>3, <1>4

(* prune orphans adds the keys of the tickets to what it has collected. *)
LEMMA CollectTicketsStep ==
    ASSUME Inv1, NEW p \in Process, CollectTickets(p)
    PROVE  Inv1'
<1> DEFINE me == proc[p]
           todo == me.todo \cup ats
           new == [me EXCEPT !.pc = "list", !.todo = todo]
<1>1. /\ me \in State(created) /\ OrphansStage(me) /\ me.pc = "collect"
      /\ todo \in SUBSET (1..created \cup {Boot})
    BY ProcessState, StageOf DEF Inv1, Types, CollectTickets
<1>2. /\ keys' \subseteq 1..created \cup {Boot} /\ stray' \subseteq 1..created \cup {Boot}
      /\ UNCHANGED <<ecs, ats, ecId, created, expired, gone>>
      /\ Go(p, new)
    BY DEF Inv1, Types, CollectTickets
<1> HIDE DEF me, todo
<1>3. new \in State(created)
    BY <1>1 DEF State
<1>4. /\ new.cmd = me.cmd /\ new.pc = "list" /\ new.since = me.since /\ new.boot = me.boot
      /\ new.key = me.key /\ new.cert = me.cert
    BY <1>1 DEF State
<1> HIDE DEF new
<1>5. OrphansStage(new)
    BY <1>1, <1>4 DEF OrphansStage
<1> QED BY <1>1, <1>2, <1>3, <1>4, <1>5, Proceeds DEF me

(* prune orphans lists the credentials. *)
LEMMA ListOrphansStep ==
    ASSUME Inv1, NEW p \in Process, ListOrphans(p)
    PROVE  Inv1'
<1> DEFINE me == proc[p]
           todo == keys \ me.todo
           new == [me EXCEPT !.pc = "discard", !.todo = todo]
<1>1. /\ me \in State(created) /\ OrphansStage(me) /\ me.pc = "list"
      /\ todo \in SUBSET (1..created \cup {Boot})
    BY ProcessState, StageOf DEF Inv1, Types, ListOrphans
<1>2. /\ keys' \subseteq 1..created \cup {Boot} /\ stray' \subseteq 1..created \cup {Boot}
      /\ UNCHANGED <<ecs, ats, ecId, created, expired, gone>>
      /\ Go(p, new)
    BY DEF Inv1, Types, ListOrphans
<1> HIDE DEF me, todo
<1>3. new \in State(created)
    BY <1>1 DEF State
<1>4. /\ new.cmd = me.cmd /\ new.pc = "discard" /\ new.since = me.since
      /\ new.boot = me.boot /\ new.key = me.key /\ new.cert = me.cert
    BY <1>1 DEF State
<1> HIDE DEF new
<1>5. OrphansStage(new)
    BY <1>1, <1>4 DEF OrphansStage
<1> QED BY <1>1, <1>2, <1>3, <1>4, <1>5, Proceeds DEF me

(* prune orphans discards a credential. *)
LEMMA DiscardOrphanStep ==
    ASSUME Inv1, NEW p \in Process, NEW k, DiscardOrphan(p, k)
    PROVE  Inv1'
<1> DEFINE me == proc[p]
           todo == me.todo \ {k}
           warned == me.warned \cup ({k} \cap keys')
           new == [me EXCEPT !.todo = todo, !.warned = warned]
<1>1. /\ me \in State(created) /\ OrphansStage(me) /\ me.pc = "discard"
      /\ todo \in SUBSET (1..created \cup {Boot})
      /\ warned \in SUBSET (1..created \cup {Boot})
    BY ProcessState, StageOf DEF Inv1, DiscardOrphan
<1>2. /\ keys' \subseteq 1..created \cup {Boot} /\ stray' \subseteq 1..created \cup {Boot}
      /\ UNCHANGED <<ecs, ats, ecId, created, expired, gone>>
      /\ Go(p, new)
    BY DEF Inv1, Types, DiscardOrphan, Discard
<1> HIDE DEF me, todo, warned
<1>3. new \in State(created)
    BY <1>1 DEF State
<1>4. /\ new.cmd = me.cmd /\ new.pc = "discard" /\ new.since = me.since
      /\ new.boot = me.boot /\ new.key = me.key /\ new.cert = me.cert
    BY <1>1 DEF State
<1> HIDE DEF new
<1>5. OrphansStage(new)
    BY <1>1, <1>4 DEF OrphansStage
<1> QED BY <1>1, <1>2, <1>3, <1>4, <1>5, Proceeds DEF me

(* prune orphans ends. *)
LEMMA EndOrphansStep ==
    ASSUME Inv1, NEW p \in Process, EndOrphans(p)
    PROVE  Inv1'
<1>1. stray' \subseteq 1..created \cup {Boot}
    BY DEF Inv1, Types, EndOrphans
<1> QED BY <1>1, Ends DEF EndOrphans

(* A process dies and leaves what it held behind. *)
LEMMA CrashStep ==
    ASSUME Inv1, NEW p \in Process, Crash(p)
    PROVE  Inv1'
<1>1. Held(p) \subseteq 1..created \cup {Boot}
    BY ProcessState DEF Inv1, Held
<1>2. stray' \subseteq 1..created \cup {Boot}
    BY <1>1 DEF Inv1, Types, Crash
<1> QED BY <1>2, Ends DEF Crash

(* A certificate that expires was in place when the commands under way     *)
(* were started.                                                           *)
LEMMA ExpireStep ==
    ASSUME Inv1, NEW k \in Key, Expire(k)
    PROVE  Inv1'
<1>1. /\ k \in ecs \cup ats /\ expired' = expired \cup {k}
      /\ UNCHANGED <<keys, ecs, ats, ecId, created, proc, stray, gone>>
      /\ \A p \in Process : proc[p].cmd # "none" => k \in proc[p].since
    BY DEF Expire, Busy
<1>2. Types'
    BY <1>1 DEF Inv1, Types
<1>3. Stages' /\ Apart' /\ EcAvailable'
    BY <1>1 DEF Inv1, Stages, Apart, EcAvailable
<1>4. Ownership'
    <2>1. \A p \in Process : Owns(p, k) => k \in proc[p].since /\ k \in 1..created
        BY <1>1 DEF Owns, Request, Inv1, Types
    <2>2. \A p \in Process : ~Owns(p, k)
        BY <2>1 DEF Inv1, Ownership
    <2>3. \A p \in Process : \A c : Owns(p, c)' <=> Owns(p, c)
        BY <1>1 DEF Owns
    <2> QED BY <1>1, <2>2, <2>3 DEF Inv1, Ownership
<1>5. Erased'
    BY <1>1 DEF Inv1, Erased
<1>6. Scans'
    <2>1. \A p \in Process : proc[p].pc = "ecs" => proc[p].cmd = "expired"
        BY StageOf DEF Inv1, ScanStage
    <2> QED BY <1>1, <2>1 DEF Inv1, Scans
<1> QED BY <1>2, <1>3, <1>4, <1>5, <1>6 DEF Inv1

(* The invariant holds before the first enrolment. *)
LEMMA InitInv1 == ASSUME Init PROVE Inv1
<1>1. created \in Nat /\ created = 0
    BY DEF Init
<1>2. Types
    BY <1>1, IdleType, PkiAssumption DEF Init, Types
<1>3. Stages
    BY DEF Init, Stages
<1>4. Ownership
    BY <1>1 DEF Ownership
<1>5. Erased
    BY IdleFields DEF Init, Erased
<1>6. Apart /\ EcAvailable
    BY DEF Init, Apart, EcAvailable
<1>7. Scans
    BY DEF Init, Scans
<1> QED BY <1>2, <1>3, <1>4, <1>5, <1>6, <1>7 DEF Inv1

(* Every step of every process preserves it. *)
LEMMA StepInv1 == ASSUME Inv1, [Next]_vars PROVE Inv1'
<1>1. CASE UNCHANGED vars
    BY <1>1 DEF vars, Inv1, Types, Stages, Ownership, Owns, Erased, Apart, Scans, EcAvailable
<1>2. CASE Next
    <2>1. ASSUME NEW p \in Process, Start(p) PROVE Inv1'
        BY <2>1, StartStep
    <2>2. ASSUME NEW p \in Process, Step(p) PROVE Inv1'
        BY <2>2, CreateKeyStep, StoreBootstrapStep, SendRequestStep, AnswerStep,
           StoreCertificateStep, TruncateIdentifierStep, WriteIdentifierStep, DestroyStep,
           ScanStoreStep, EraseExpiredStep, DiscardExpiredStep, EndScanStep,
           CollectTicketsStep, ListOrphansStep, DiscardOrphanStep, EndOrphansStep DEF Step
    <2>3. ASSUME NEW p \in Process, Crash(p) PROVE Inv1'
        BY <2>3, CrashStep
    <2>4. ASSUME NEW k \in Key, Expire(k) PROVE Inv1'
        BY <2>4, ExpireStep
    <2> QED BY <1>2, <2>1, <2>2, <2>3, <2>4 DEF Next
<1> QED BY <1>1, <1>2

(* The invariant, whatever runs at the same time. *)
THEOREM Invariant1 == Spec => []Inv1
BY InitInv1, StepInv1, PTL DEF Spec

(* The identifier ec.hid8 never refers to an EC that the station does not  *)
(* have, unless the user has removed that one by force: renewals, scans    *)
(* that erase what has expired and crashes may interleave in any way.      *)
THEOREM EcAlwaysAvailable == Spec => []EcAvailable
<1>1. Inv1 => EcAvailable
    BY DEF Inv1
<1> QED BY <1>1, Invariant1, PTL

-----------------------------------------------------------------------------
(* No key is left over *)

(* What a command holds, before and after a step. *)
LEMMA HeldFields ==
    ASSUME NEW p \in Process
    PROVE  /\ \A k : k \in Held(p) <=> \/ k # None /\ (k = proc[p].key \/ k = proc[p].cert)
                                       \/ k = Boot /\ proc[p].boot
           /\ \A k : k \in Held(p)' <=> \/ k # None /\ (k = proc'[p].key \/ k = proc'[p].cert)
                                        \/ k = Boot /\ proc'[p].boot
BY DEF Held

(* It is enough to look at the command that takes a step. *)
LEMMA KeysKept ==
    ASSUME NoKeyLeft, NEW p \in Process, NEW new, Go(p, new),
           \A k \in keys' \ keys : k \in Held(p)' \cup stray',
           \A k \in keys' : k \in Held(p) \cup ecs \cup ats \cup stray
               => k \in Held(p)' \cup ecs' \cup ats' \cup stray'
    PROVE  NoKeyLeft'
<1>1. \A q \in Process \ {p} : Held(q)' = Held(q)
    BY DEF Go, Held
<1>2. SUFFICES ASSUME NEW k \in keys'
               PROVE  \/ k \in ecs' \cup ats' \cup stray'
                      \/ \E q \in Process : k \in Held(q)'
    BY DEF NoKeyLeft
<1>3. CASE k \notin keys
    BY <1>3
<1>4. CASE k \in Held(p) \cup ecs \cup ats \cup stray
    BY <1>4
<1>5. CASE \E q \in Process \ {p} : k \in Held(q)
    BY <1>1, <1>5
<1> QED BY <1>3, <1>4, <1>5 DEF NoKeyLeft

(* The fields of the state that a process goes to. *)
LEMMA NewState ==
    ASSUME Inv1, NEW p \in Process, NEW new, Go(p, new)
    PROVE  proc'[p] = new
BY DEF Inv1, Types, Go

(* A command that starts holds no key. *)
LEMMA StartNoKeyLeft ==
    ASSUME Inv1, NoKeyLeft, NEW p \in Process, Start(p)
    PROVE  NoKeyLeft'
<1>1. UNCHANGED <<keys, ecs, ats, stray>>
    BY DEF Start, StartInitial, StartRenewal, StartTickets, StartExpired, StartOrphans
<1>2. proc[p].cmd = "none"
    BY DEF Start, StartInitial, StartRenewal, StartTickets, StartExpired, StartOrphans,
           MayStart, Busy
<1>3. Held(p) = {}
    BY <1>2, IdleFields DEF Inv1, Stages, RequestStage, ScanStage, OrphansStage, Held, Request
<1>4. \E new : Go(p, new)
    BY DEF Start, StartInitial, StartRenewal, StartTickets, StartExpired, StartOrphans
<1> QED BY <1>1, <1>3, <1>4, KeysKept

(* The key that is created is held by the ScopedKeyPair, or counts as left *)
(* behind.                                                                 *)
LEMMA CreateKeyNoKeyLeft ==
    ASSUME Inv1, NoKeyLeft, NEW p \in Process, CreateKey(p)
    PROVE  NoKeyLeft'
<1> DEFINE me == proc[p]
<1>1. /\ me \in State(created) /\ RequestStage(me) /\ me.pc = "create"
      /\ created \in Nat
    BY ProcessState, StageOf DEF Inv1, CreateKey
<1>0. created' \in Nat
    BY <1>1 DEF CreateKey
<1>2. PICK new : /\ Go(p, new)
                 /\ \/ /\ new = [me EXCEPT !.key = created',
                                 !.pc = IF me.cmd = "initial" THEN "bootstrap" ELSE "sign"]
                       /\ keys' = keys \cup {created'} /\ UNCHANGED stray
                    \/ /\ new = [me EXCEPT !.pc = "leave"]
                       /\ stray' = stray \cup (keys' \ keys)
    BY DEF CreateKey, Leave
<1>3. me.key = None /\ me.cert = None
    BY <1>1 DEF RequestStage
<1> HIDE DEF me
<1>4. new.boot = me.boot /\ (new.key = created' \/ keys' \ keys \subseteq stray')
    BY <1>1, <1>2 DEF State
<1>5. proc'[p] = new
    BY <1>2, NewState
<1>6. UNCHANGED <<ecs, ats>> /\ stray \subseteq stray' /\ keys' \subseteq keys \cup {created'}
    BY DEF CreateKey
<1>7. keys' \ keys \subseteq Held(p)' \cup stray' /\ Held(p) \subseteq Held(p)'
    BY <1>0, <1>3, <1>4, <1>5, <1>6, HeldFields, PkiAssumption DEF me
<1> QED BY <1>2, <1>6, <1>7, KeysKept

(* A step that changes no certificate keeps what the command holds, or     *)
(* discards it.                                                            *)
LEMMA ProceedNoKeyLeft ==
    ASSUME Inv1, NoKeyLeft, NEW p \in Process,
           \/ StoreBootstrap(p) \/ SendRequest(p) \/ Answer(p) \/ TruncateIdentifier(p)
           \/ Destroy(p) \/ DiscardExpired(p)
    PROVE  NoKeyLeft'
<1> DEFINE me == proc[p]
<1>1. me \in State(created)
    BY ProcessState DEF Inv1
<1>2. UNCHANGED <<ecs, ats>> /\ stray \subseteq stray'
    BY DEF StoreBootstrap, SendRequest, Answer, TruncateIdentifier, Destroy, DiscardExpired,
           Discard
<1>3. CASE StoreBootstrap(p)
    <2>1. PICK new : /\ Go(p, new)
                     /\ \/ /\ new = [me EXCEPT !.pc = "leave"]
                           /\ keys' \ keys \subseteq stray'
                        \/ /\ keys' = keys \cup {Boot}
                           /\ new = [me EXCEPT !.boot = TRUE, !.pc = "sign"]
        BY <1>3 DEF StoreBootstrap, Leave, Discard
    <2> HIDE DEF me
    <2>2. /\ new.key = me.key /\ new.cert = me.cert
          /\ \/ keys' \ keys \subseteq stray' /\ new.boot = me.boot
             \/ keys' = keys \cup {Boot} /\ new.boot = TRUE
        BY <1>1, <2>1 DEF State
    <2>3. proc'[p] = new
        BY <2>1, NewState
    <2>4. Held(p) \subseteq Held(p)' /\ keys' \ keys \subseteq Held(p)' \cup stray'
        BY <2>2, <2>3, HeldFields DEF me
    <2> QED BY <1>2, <2>1, <2>4, KeysKept
<1>4. CASE SendRequest(p) \/ TruncateIdentifier(p)
    <2>1. PICK new, pc : keys' = keys /\ Go(p, new) /\ new = [me EXCEPT !.pc = pc]
        BY <1>4 DEF SendRequest, Leave, TruncateIdentifier
    <2> HIDE DEF me
    <2>2. /\ new.key = me.key /\ new.cert = me.cert /\ new.boot = me.boot
        BY <1>1, <2>1 DEF State
    <2>3. proc'[p] = new
        BY <2>1, NewState
    <2>4. Held(p) \subseteq Held(p)'
        BY <2>2, <2>3, HeldFields DEF me
    <2> QED BY <1>2, <2>1, <2>4, KeysKept
<1>5. CASE Answer(p)
    <2>0. me.cert = None
        BY <1>5, StageOf DEF Answer, RequestStage, Inv1
    <2>1. PICK new : /\ keys' = keys /\ Go(p, new)
                     /\ \/ new = [me EXCEPT !.pc = "leave"]
                        \/ new = [me EXCEPT !.cert = me.key, !.key = None, !.pc = "store"]
        BY <1>5 DEF Answer, Leave
    <2> HIDE DEF me
    <2>2. /\ new.boot = me.boot
          /\ new.key = me.key \/ new.cert = me.key
        BY <1>1, <2>1 DEF State
    <2>3. proc'[p] = new
        BY <2>1, NewState
    <2>4. Held(p) \subseteq Held(p)'
        BY <2>0, <2>2, <2>3, HeldFields DEF me
    <2> QED BY <1>2, <2>1, <2>4, KeysKept
<1>6. CASE Destroy(p)
    <2>0. me.cert = None
        BY <1>6, StageOf DEF Destroy, RequestStage, Inv1
    <2>1. PICK new :
            /\ Go(p, new)
            /\ \/ keys' \cap {Boot} \subseteq stray' /\ new = [me EXCEPT !.boot = FALSE]
               \/ /\ ~me.boot /\ keys' \cap {me.key} \subseteq stray'
                  /\ new = [me EXCEPT !.key = None]
               \/ ~me.boot /\ me.key = None
        BY <1>6 DEF Destroy, Discard
    <2> HIDE DEF me
    <2>2. \/ keys' \cap {Boot} \subseteq stray' /\ new.key = me.key
          \/ ~me.boot /\ keys' \cap {me.key} \subseteq stray'
          \/ ~me.boot /\ me.key = None
        BY <1>1, <2>1 DEF State
    <2>3. proc'[p] = new
        BY <2>1, NewState
    <2>4. \A k \in keys' : k \in Held(p) => k \in Held(p)' \cup stray'
        BY <2>0, <2>2, <2>3, HeldFields DEF me
    <2>5. keys' \subseteq keys
        BY <1>6 DEF Destroy, Discard
    <2> QED BY <1>2, <2>1, <2>4, <2>5, KeysKept
<1>7. CASE DiscardExpired(p)
    <2>0. ScanStage(me)
        BY <1>7, StageOf DEF DiscardExpired, Inv1
    <2>1. /\ \E new : Go(p, new)
          /\ keys' \subseteq keys /\ keys' \cap {me.cert} \subseteq stray'
        BY <1>7 DEF DiscardExpired, Discard
    <2>2. \A k \in keys' : k \in Held(p) => k \in stray'
        BY <2>0, <2>1, HeldFields DEF ScanStage
    <2> QED BY <1>2, <2>1, <2>2, KeysKept
<1> QED BY <1>3, <1>4, <1>5, <1>6, <1>7

(* The key of a certificate that is stored or could not be stored. *)
LEMMA StoreNoKeyLeft ==
    ASSUME Inv1, NoKeyLeft, NEW p \in Process, StoreCertificate(p) \/ WriteIdentifier(p)
    PROVE  NoKeyLeft'
<1> DEFINE me == proc[p]
<1>1. /\ me \in State(created) /\ RequestStage(me) /\ me.pc \in {"store", "write"}
      /\ me.cert \in 1..created
    BY ProcessState, StageOf DEF Inv1, StoreCertificate, WriteIdentifier, RequestStage
<1>2. me.key = None
    BY <1>1 DEF RequestStage
<1>3. PICK new : /\ Go(p, new) /\ keys' = keys
                 /\ ecs \subseteq ecs' /\ ats \subseteq ats' /\ stray \subseteq stray'
                 /\ me.pc = "store" => me.cert \in ecs' \cup ats' \cup stray'
                 /\ \/ new = [me EXCEPT !.cert = None, !.pc = "leave"]
                    \/ new = [me EXCEPT !.left = @ - 1, !.cert = None,
                                        !.pc = IF me.left > 1 THEN "create" ELSE "leave"]
                    \/ new = [me EXCEPT !.pc = "truncate"]
    BY DEF StoreCertificate, WriteIdentifier
<1>4. me.pc = "write" => me.cert \in ecs'
    <2>1. me.pc = "write" => Owns(p, me.cert)
        BY <1>1, PkiAssumption, ProcessState DEF Owns, RequestStage, Inv1
    <2> QED BY <1>1, <1>3, <2>1 DEF Inv1, Ownership
<1> HIDE DEF me
<1>5. new.boot = me.boot
    BY <1>1, <1>3 DEF State
<1>6. proc'[p] = new
    BY <1>3, NewState
<1>7. Held(p) \subseteq Held(p)' \cup ecs' \cup ats' \cup stray'
    BY <1>1, <1>2, <1>3, <1>4, <1>5, <1>6, HeldFields DEF me
<1> QED BY <1>3, <1>7, KeysKept

(* The key of an erased certificate is about to be discarded, or kept on   *)
(* demand.                                                                 *)
LEMMA ScanNoKeyLeft ==
    ASSUME Inv1, NoKeyLeft, NEW p \in Process,
           ScanStore(p) \/ EndScan(p) \/ \E k \in Key : EraseExpired(p, k)
    PROVE  NoKeyLeft'
<1> DEFINE me == proc[p]
<1>1. /\ me \in State(created) /\ ScanStage(me) /\ me.cert = None
    BY ProcessState, StageOf DEF Inv1, ScanStore, EndScan, EraseExpired, ScanStage
<1>2. Held(p) = {}
    BY <1>1, HeldFields DEF ScanStage
<1>3. CASE ScanStore(p) \/ EndScan(p)
    <2>1. (\E new : Go(p, new)) /\ UNCHANGED <<keys, ecs, ats, stray>>
        BY <1>3 DEF ScanStore, EndScan
    <2> QED BY <1>2, <2>1, KeysKept
<1>4. CASE \E k \in Key : EraseExpired(p, k)
    <2>0. PICK k \in Key : EraseExpired(p, k)
        BY <1>4
    <2>1. PICK new :
            /\ Go(p, new) /\ keys' = keys
            /\ ecs \cup ats \subseteq ecs' \cup ats' \cup {k}
            /\ stray \subseteq stray'
            /\ \/ k \in stray' \/ (ecs' = ecs /\ ats' = ats)
               \/ new = [me EXCEPT !.todo = @ \ {k}, !.cert = k]
        <3>1. PICK erase \in BOOLEAN :
                /\ ecs' = IF erase /\ me.pc = "ecs" THEN ecs \ {k} ELSE ecs
                /\ ats' = IF erase /\ me.pc = "ats" THEN ats \ {k} ELSE ats
                /\ stray' = IF erase /\ me.keep THEN stray \cup {k} ELSE stray
                /\ Go(p, [me EXCEPT !.todo = @ \ {k},
                                    !.cert = IF erase /\ ~me.keep THEN k ELSE None])
            BY <2>0 DEF EraseExpired
        <3>2. CASE erase /\ ~me.keep
            BY <2>0, <3>1, <3>2 DEF EraseExpired
        <3>3. CASE ~(erase /\ ~me.keep)
            BY <2>0, <3>1, <3>3 DEF EraseExpired
        <3> QED BY <3>2, <3>3
    <2> HIDE DEF me
    <2>2. k \in Nat
        BY PkiAssumption DEF Key
    <2>3. \/ k \in stray' \/ (ecs' = ecs /\ ats' = ats)
          \/ new.cert = k
        BY <1>1, <2>1 DEF State
    <2>4. proc'[p] = new
        BY <2>1, NewState
    <2>5. \/ k \in stray' \/ (ecs' = ecs /\ ats' = ats)
          \/ k \in Held(p)'
        BY <2>2, <2>3, <2>4, HeldFields, PkiAssumption
    <2> QED BY <1>2, <2>1, <2>5, KeysKept
<1> QED BY <1>3, <1>4

(* prune orphans holds no key, and creates none. *)
LEMMA OrphansNoKeyLeft ==
    ASSUME Inv1, NoKeyLeft, NEW p \in Process,
           \/ CollectTickets(p) \/ ListOrphans(p) \/ EndOrphans(p)
           \/ \E k \in Key \cup {Boot} : DiscardOrphan(p, k)
    PROVE  NoKeyLeft'
<1>1. OrphansStage(proc[p])
    BY StageOf DEF Inv1, CollectTickets, ListOrphans, EndOrphans, DiscardOrphan
<1>2. Held(p) = {}
    BY <1>1, HeldFields DEF OrphansStage
<1>3. /\ \E new : Go(p, new)
      /\ keys' \subseteq keys /\ stray \subseteq stray' /\ UNCHANGED <<ecs, ats>>
    BY DEF CollectTickets, ListOrphans, EndOrphans, DiscardOrphan, Discard
<1> QED BY <1>2, <1>3, KeysKept

(* What a command holds when it dies counts as left behind. *)
LEMMA CrashNoKeyLeft ==
    ASSUME Inv1, NoKeyLeft, NEW p \in Process, Crash(p)
    PROVE  NoKeyLeft'
<1>1. Go(p, Idle) /\ UNCHANGED <<keys, ecs, ats>> /\ stray' = stray \cup Held(p)
    BY DEF Crash
<1> QED BY <1>1, KeysKept

(* Every private key that is stored belongs to a stored certificate or to  *)
(* a command that is under way, or was left behind by a crash, a failed    *)
(* write or removal, or on demand: no other path through a command, the    *)
(* exceptions it throws included, leaves a key of its ScopedKeyPair or     *)
(* ScopedCredential.                                                       *)
THEOREM NoKeyEverLeft == Spec => []NoKeyLeft
<1>1. Init => NoKeyLeft
    BY DEF Init, NoKeyLeft
<1>2. Inv1 /\ NoKeyLeft /\ [Next]_vars => NoKeyLeft'
    <2> SUFFICES ASSUME Inv1, NoKeyLeft, [Next]_vars PROVE NoKeyLeft'
        OBVIOUS
    <2>1. CASE UNCHANGED vars
        BY <2>1 DEF vars, NoKeyLeft, Held
    <2>2. ASSUME NEW p \in Process, Start(p) PROVE NoKeyLeft'
        BY <2>2, StartNoKeyLeft
    <2>3. ASSUME NEW p \in Process, Step(p) PROVE NoKeyLeft'
        BY <2>3, CreateKeyNoKeyLeft, ProceedNoKeyLeft, StoreNoKeyLeft, ScanNoKeyLeft,
           OrphansNoKeyLeft DEF Step
    <2>4. ASSUME NEW p \in Process, Crash(p) PROVE NoKeyLeft'
        BY <2>4, CrashNoKeyLeft
    <2>5. ASSUME NEW k \in Key, Expire(k) PROVE NoKeyLeft'
        BY <2>5 DEF Expire, NoKeyLeft, Held
    <2> QED BY <2>1, <2>2, <2>3, <2>4, <2>5 DEF Next
<1> QED BY <1>1, <1>2, Invariant1, PTL DEF Spec

-----------------------------------------------------------------------------
(* Certificates can be used *)

(* A step of a command other than prune orphans preserves the rest of the  *)
(* invariant if no key is discarded that another command owns or that      *)
(* belongs to a certificate.                                               *)
LEMMA Inv2Kept ==
    ASSUME Inv1, Inv2, Inv1', NEW p \in Process, NEW new, Go(p, new),
           proc[p].cmd \in Request \cup {"expired"}, new.cmd \in {proc[p].cmd, "none"},
           \A k \in 1..created' : Owns(p, k)' /\ new.pc # "leave" => k \in keys',
           \A k \in keys \ keys' :
                k \notin ecs' \cup ats' /\ \A q \in Process \ {p} : ~Owns(q, k),
           ecs' \cup ats' \subseteq ecs \cup ats \cup keys'
    PROVE  Inv2'
<1>1. proc'[p] = new /\ \A q \in Process \ {p} : proc'[q] = proc[q]
    BY DEF Inv1, Types, Go
<1>2. \A q \in Process : proc[q].cmd # "orphans" /\ proc'[q].cmd # "orphans"
    BY <1>1 DEF Inv2, RunsAlone, Request
<1>3. RunsAlone'
    BY <1>2 DEF RunsAlone
<1>4. Collected'
    <2>1. ASSUME NEW q \in Process PROVE proc'[q].pc \notin {"collect", "list", "discard"}
        <3>1. \/ proc'[q] = Idle \/ RequestStage(proc'[q]) \/ ScanStage(proc'[q])
              \/ OrphansStage(proc'[q])
            BY DEF Inv1, Stages
        <3> QED BY <1>2, <3>1, StageOfState DEF OrphansStage
    <2> QED BY <2>1 DEF Collected
<1>5. ecs' \cup ats' \subseteq keys'
    BY DEF Inv2
<1>6. KeysThere'
    <2> SUFFICES ASSUME NEW q \in Process, NEW k \in 1..created',
                        Owns(q, k)', proc'[q].pc # "leave"
                 PROVE  k \in keys'
        BY DEF KeysThere
    <2>1. CASE q = p
        BY <1>1, <2>1
    <2>2. CASE q # p
        <3>1. Owns(q, k) /\ proc[q].pc # "leave" /\ k # None
            BY <1>1, <2>2 DEF Owns
        <3>2. k \in 1..created
            BY <3>1, ProcessState DEF Owns, Inv1
        <3> QED BY <2>2, <3>1, <3>2 DEF Inv2, KeysThere
    <2> QED BY <2>1, <2>2
<1> QED BY <1>3, <1>4, <1>5, <1>6 DEF Inv2

(* A key that a scan or a destructor discards *)
LEMMA DiscardInv2 ==
    ASSUME Inv1, Inv2, Inv1', NEW p \in Process, DiscardExpired(p) \/ Destroy(p)
    PROVE  Inv2'
<1> DEFINE me == proc[p]
<1>1. me \in State(created) /\ UNCHANGED <<ecs, ats, created>>
    BY ProcessState DEF Inv1, DiscardExpired, Destroy
<1>2. ecs \cup ats \subseteq 1..created /\ Boot \notin 1..created /\ None \notin 1..created
    BY PkiAssumption DEF Inv1, Types
<1>3. CASE DiscardExpired(p)
    <2>0. ScanStage(me) /\ me.cert # None /\ me.cert \in expired
        BY <1>3, StageOf DEF Inv1, DiscardExpired, Erased, ScanStage
    <2>1. PICK new : /\ Go(p, new) /\ keys \ keys' \subseteq {me.cert}
                     /\ new = [me EXCEPT !.cert = None]
        BY <1>3 DEF DiscardExpired, Discard
    <2>2. me.cert \notin ecs \cup ats
        BY <2>0 DEF Inv1, Erased, ScanStage
    <2>3. \A q \in Process \ {p} : ~Owns(q, me.cert)
        <3>1. me.cert \in 1..created
            BY <2>0, ProcessState DEF Inv1
        <3> QED BY <2>0, <3>1 DEF Inv1, Ownership
    <2> HIDE DEF me
    <2>4. new.cmd = "expired" /\ proc[p].cmd = "expired"
        BY <1>1, <2>0, <2>1 DEF State, ScanStage, me
    <2>5. proc'[p] = new
        BY <2>1, NewState
    <2>6. \A k : ~Owns(p, k)'
        BY <2>4, <2>5 DEF Owns, Request
    <2>7. \A k \in keys \ keys' :
                k \notin ecs' \cup ats' /\ \A q \in Process \ {p} : ~Owns(q, k)
        BY <1>1, <2>1, <2>2, <2>3
    <2>8. ecs' \cup ats' \subseteq ecs \cup ats \cup keys'
        BY <1>1
    <2> QED BY <2>1, <2>4, <2>6, <2>7, <2>8, Inv2Kept
<1>4. CASE Destroy(p)
    <2>0. RequestStage(me) /\ me.pc = "leave"
        BY <1>4, StageOf DEF Inv1, Destroy
    <2>1. PICK new : /\ Go(p, new)
                     /\ \/ keys \ keys' \subseteq {Boot} /\ new = [me EXCEPT !.boot = FALSE]
                        \/ /\ keys \ keys' \subseteq {me.key} /\ me.key # None
                           /\ new = [me EXCEPT !.key = None]
                        \/ keys' = keys /\ new = Idle
        BY <1>4 DEF Destroy, Discard
    <2>2. me.key # None => /\ me.key \notin ecs \cup ats
                           /\ \A q \in Process \ {p} : ~Owns(q, me.key)
        <3>1. me.key # None => Owns(p, me.key) /\ me.key \in 1..created
            BY <2>0, ProcessState DEF Inv1, Owns, RequestStage
        <3> QED BY <2>0, <3>1 DEF Inv1, Ownership
    <2>3. \A q \in Process : ~Owns(q, Boot)
        BY <1>2, PkiAssumption, ProcessState DEF Owns, Inv1
    <2>4. \A k \in keys \ keys' :
                k \notin ecs' \cup ats' /\ \A q \in Process \ {p} : ~Owns(q, k)
        BY <1>1, <1>2, <2>1, <2>2, <2>3
    <2> HIDE DEF me
    <2>5. \/ new.cmd = me.cmd /\ new.pc = "leave"
          \/ new.cmd = "none" /\ new = Idle
        BY <1>1, <2>0, <2>1, IdleFields DEF State
    <2>6. proc'[p] = new
        BY <2>1, NewState
    <2>7. \A k : Owns(p, k)' => new.pc = "leave"
        BY <2>5, <2>6 DEF Owns, Request
    <2>8. ecs' \cup ats' \subseteq ecs \cup ats \cup keys'
        BY <1>1
    <2>9. proc[p].cmd \in Request \cup {"expired"} /\ new.cmd \in {proc[p].cmd, "none"}
        BY <2>0, <2>5 DEF RequestStage, me
    <2> QED BY <2>1, <2>4, <2>7, <2>8, <2>9, Inv2Kept
<1> QED BY <1>3, <1>4

(* A scan discards no key otherwise. *)
LEMMA ScanInv2 ==
    ASSUME Inv1, Inv2, Inv1', NEW p \in Process,
           ScanStore(p) \/ EndScan(p) \/ \E k \in Key : EraseExpired(p, k)
    PROVE  Inv2'
<1> DEFINE me == proc[p]
<1>1. me \in State(created) /\ me.cmd = "expired"
    BY ProcessState, StageOf DEF Inv1, ScanStore, EndScan, EraseExpired, ScanStage
<1>2. ecs' \subseteq ecs /\ ats' \subseteq ats /\ keys' = keys
    BY DEF ScanStore, EndScan, EraseExpired
<1>3. PICK new : Go(p, new) /\ new.cmd \in {"expired", "none"}
    <2>1. CASE ScanStore(p)
        <3> DEFINE new == [me EXCEPT !.pc = IF me.pc = "scan ecs" THEN "ecs" ELSE "ats",
                            !.station = ecId,
                            !.todo = IF me.pc = "scan ecs" THEN ecs ELSE ats]
        <3>1. Go(p, new)
            BY <2>1 DEF ScanStore
        <3> HIDE DEF me
        <3>2. new.cmd = "expired"
            BY <1>1 DEF State
        <3> HIDE DEF new
        <3> QED BY <3>1, <3>2
    <2>2. CASE EndScan(p)
        <3> DEFINE new == [me EXCEPT !.pc = "scan ats"]
        <3>1. Go(p, new) \/ Go(p, Idle)
            BY <2>2 DEF EndScan
        <3> HIDE DEF me
        <3>2. new.cmd = "expired" /\ Idle.cmd = "none"
            BY <1>1, IdleFields DEF State
        <3> QED BY <3>1, <3>2
    <2>3. ASSUME NEW k \in Key, EraseExpired(p, k)
          PROVE  \E new : Go(p, new) /\ new.cmd \in {"expired", "none"}
        <3>0. PICK erase \in BOOLEAN :
                Go(p, [me EXCEPT !.todo = @ \ {k},
                                 !.cert = IF erase /\ ~me.keep THEN k ELSE None])
            BY <2>3 DEF EraseExpired
        <3> DEFINE new == [me EXCEPT !.todo = @ \ {k},
                               !.cert = IF erase /\ ~me.keep THEN k ELSE None]
        <3>1. Go(p, new)
            BY <3>0
        <3> HIDE DEF me
        <3>2. new.cmd = "expired"
            BY <1>1 DEF State
        <3> QED BY <3>1, <3>2
    <2> QED BY <2>1, <2>2, <2>3
<1>5. proc'[p] = new
    BY <1>3, NewState
<1>6. \A k : ~Owns(p, k)'
    BY <1>3, <1>5 DEF Owns, Request
<1>7. proc[p].cmd \in Request \cup {"expired"} /\ new.cmd \in {proc[p].cmd, "none"}
    BY <1>1, <1>3
<1> QED BY <1>2, <1>3, <1>6, <1>7, Inv2Kept

(* A request has the key that it creates, and a certificate is stored only *)
(* while its request has the key.                                          *)
LEMMA CreateKeyInv2 ==
    ASSUME Inv1, Inv2, Inv1', NEW p \in Process, CreateKey(p)
    PROVE  Inv2'
<1> DEFINE me == proc[p]
<1>1. me \in State(created) /\ RequestStage(me) /\ me.pc = "create"
    BY ProcessState, StageOf DEF Inv1, CreateKey
<1>2. PICK new : /\ Go(p, new)
                 /\ \/ /\ new = [me EXCEPT !.key = created',
                                 !.pc = IF me.cmd = "initial" THEN "bootstrap" ELSE "sign"]
                       /\ keys' = keys \cup {created'}
                    \/ new = [me EXCEPT !.pc = "leave"]
    BY DEF CreateKey, Leave
<1>3. keys \subseteq keys' /\ UNCHANGED <<ecs, ats>>
    BY DEF CreateKey
<1> HIDE DEF me
<1>4. /\ new.cert = me.cert /\ new.cmd = me.cmd
      /\ new.pc = "leave" \/ (new.key = created' /\ created' \in keys')
    BY <1>1, <1>2 DEF State
<1>5. me.cert = None /\ me.cmd \in Request
    BY <1>1 DEF RequestStage
<1>6. proc'[p] = new
    BY <1>2, NewState
<1>7. \A k : Owns(p, k)' /\ new.pc # "leave" => k \in keys'
    BY <1>4, <1>5, <1>6 DEF Owns
<1>8. proc[p].cmd \in Request \cup {"expired"} /\ new.cmd \in {proc[p].cmd, "none"}
    BY <1>4, <1>5 DEF me
<1> QED BY <1>2, <1>3, <1>7, <1>8, Inv2Kept

(* A request that is under way discards nothing but the bootstrap key. *)
LEMMA RequestInv2 ==
    ASSUME Inv1, Inv2, Inv1', NEW p \in Process,
           \/ StoreBootstrap(p) \/ SendRequest(p) \/ Answer(p)
           \/ TruncateIdentifier(p) \/ WriteIdentifier(p)
    PROVE  Inv2'
<1> DEFINE me == proc[p]
<1>1. /\ me \in State(created) /\ RequestStage(me) /\ me.pc # "leave"
    BY ProcessState, StageOf DEF Inv1, StoreBootstrap, SendRequest, Answer,
       TruncateIdentifier, WriteIdentifier
<1>2. keys \ keys' \subseteq {Boot} /\ UNCHANGED <<ecs, ats, created>>
    BY DEF StoreBootstrap, SendRequest, Answer, TruncateIdentifier, WriteIdentifier, Discard
<1>0. /\ Boot \notin 1..created /\ Boot \notin ecs \cup ats
      /\ \A q \in Process : ~Owns(q, Boot)
    <2>0. ecs \cup ats \subseteq 1..created /\ Boot \notin 1..created
        BY PkiAssumption DEF Inv1, Types
    <2>1. Boot \notin 1..created /\ Boot \notin ecs \cup ats
        BY <2>0
    <2>2. \A q \in Process : ~Owns(q, Boot)
        BY <2>1, PkiAssumption, ProcessState DEF Owns, Inv1
    <2> QED BY <2>1, <2>2
<1>3. PICK new : /\ Go(p, new)
                 /\ \/ \E pc : new = [me EXCEPT !.pc = pc]
                    \/ new = [me EXCEPT !.boot = TRUE, !.pc = "sign"]
                    \/ new = [me EXCEPT !.cert = me.key, !.key = None, !.pc = "store"]
                    \/ new = [me EXCEPT !.cert = None, !.pc = "leave"]
    BY DEF StoreBootstrap, SendRequest, Answer, TruncateIdentifier, WriteIdentifier, Leave
<1> HIDE DEF me
<1>4. /\ new.cmd = me.cmd /\ new.key \in {me.key, None}
      /\ new.cert \in {me.key, me.cert, None}
    BY <1>1, <1>3 DEF State
<1>5. proc'[p] = new
    BY <1>3, NewState
<1>6. \A k : Owns(p, k)' => Owns(p, k)
    BY <1>4, <1>5 DEF Owns, me
<1>7. \A k \in 1..created' : Owns(p, k)' => k \in keys'
    BY <1>0, <1>1, <1>2, <1>6 DEF Inv2, KeysThere, me
<1>8. proc[p].cmd \in Request \cup {"expired"} /\ new.cmd \in {proc[p].cmd, "none"}
    BY <1>1, <1>4 DEF RequestStage, me
<1> QED BY <1>0, <1>2, <1>3, <1>7, <1>8, Inv2Kept

(* The certificate that is stored is that of the key the request has. *)
LEMMA StoreCertificateInv2 ==
    ASSUME Inv1, Inv2, Inv1', NEW p \in Process, StoreCertificate(p)
    PROVE  Inv2'
<1> DEFINE me == proc[p]
<1>1. /\ me \in State(created) /\ RequestStage(me) /\ me.pc = "store"
      /\ me.cert \in 1..created
    BY ProcessState, StageOf DEF Inv1, StoreCertificate, RequestStage
<1>2. UNCHANGED <<keys, created>> /\ ecs' \cup ats' \subseteq ecs \cup ats \cup {me.cert}
    BY DEF StoreCertificate
<1>3. PICK new : /\ Go(p, new)
                 /\ \/ new = [me EXCEPT !.cert = None, !.pc = "leave"]
                    \/ new = [me EXCEPT !.left = @ - 1, !.cert = None,
                                        !.pc = IF me.left > 1 THEN "create" ELSE "leave"]
                    \/ new = [me EXCEPT !.pc = "truncate"]
    BY DEF StoreCertificate
<1>4. Owns(p, me.cert) /\ me.cert \in keys
    BY <1>1, ProcessState DEF Owns, RequestStage, Inv1, Inv2, KeysThere
<1> HIDE DEF me
<1>5. /\ new.cmd = me.cmd /\ new.key = me.key /\ new.cert \in {me.cert, None}
    BY <1>1, <1>3 DEF State
<1>6. proc'[p] = new
    BY <1>3, NewState
<1>7. \A k : Owns(p, k)' => Owns(p, k)
    BY <1>5, <1>6 DEF Owns, me
<1>8. \A k \in 1..created' : Owns(p, k)' => k \in keys'
    BY <1>1, <1>2, <1>7 DEF Inv2, KeysThere, me
<1>9. proc[p].cmd \in Request \cup {"expired"} /\ new.cmd \in {proc[p].cmd, "none"}
    BY <1>1, <1>5 DEF RequestStage, me
<1> QED BY <1>2, <1>3, <1>4, <1>8, <1>9, Inv2Kept

(* Nothing changes while prune orphans collects, and what it discards      *)
(* belongs to no certificate.                                              *)
LEMMA OrphansInv2 ==
    ASSUME Inv1, Inv2, NEW p \in Process,
           \/ CollectTickets(p) \/ ListOrphans(p) \/ EndOrphans(p)
           \/ \E k \in Key \cup {Boot} : DiscardOrphan(p, k)
    PROVE  Inv2'
<1> DEFINE me == proc[p]
<1>1. me \in State(created) /\ OrphansStage(me)
    BY ProcessState, StageOf DEF Inv1, CollectTickets, ListOrphans, EndOrphans, DiscardOrphan
<1>2. \A q \in Process \ {p} : proc[q] = Idle
    BY <1>1, StageOf DEF Inv1, Inv2, RunsAlone, OrphansStage
<1>3. UNCHANGED <<ecs, ats, created>>
    BY DEF CollectTickets, ListOrphans, EndOrphans, DiscardOrphan
<1>4. PICK new : /\ Go(p, new)
                 /\ \/ keys' = keys /\ new = Idle
                    \/ /\ keys' = keys /\ me.pc = "collect"
                       /\ new = [me EXCEPT !.pc = "list", !.todo = @ \cup ats]
                    \/ /\ keys' = keys /\ me.pc = "list"
                       /\ new = [me EXCEPT !.pc = "discard", !.todo = keys \ @]
                    \/ /\ me.pc = "discard"
                       /\ \E k \in me.todo :
                            /\ keys' = keys \/ keys' = keys \ {k}
                            /\ new = [me EXCEPT !.todo = @ \ {k},
                                                !.warned = @ \cup ({k} \cap keys')]
    BY DEF CollectTickets, ListOrphans, EndOrphans, DiscardOrphan, Discard
<1>5. \/ keys' = keys /\ new = Idle
      \/ /\ new.cmd = "orphans" /\ keys' = keys /\ new.pc = "list"
         /\ new.todo = ecs \cup ats /\ new.warned = {}
      \/ /\ new.cmd = "orphans" /\ new.pc = "discard"
         /\ new.todo = keys' \ (ecs \cup ats \cup new.warned)
         /\ \/ keys' = keys
            \/ \E k \in me.todo : me.pc = "discard" /\ keys' = keys \ {k}
    <2>1. /\ me.pc = "collect" => me.todo = ecs /\ me.warned = {}
          /\ me.pc = "list" => me.todo = ecs \cup ats /\ me.warned = {}
          /\ me.pc = "discard" => me.todo = keys \ (ecs \cup ats \cup me.warned)
        BY DEF Inv2, Collected
    <2>2. me.cmd = "orphans"
        BY <1>1 DEF OrphansStage
    <2> HIDE DEF me
    <2>3. CASE keys' = keys /\ new = Idle
        BY <2>3
    <2>4. CASE /\ keys' = keys /\ me.pc = "collect"
               /\ new = [me EXCEPT !.pc = "list", !.todo = @ \cup ats]
        <3>1. /\ new.cmd = me.cmd /\ new.pc = "list" /\ new.todo = me.todo \cup ats
              /\ new.warned = me.warned
            BY <1>1, <2>4 DEF State
        <3> QED BY <2>1, <2>2, <2>4, <3>1
    <2>5. CASE /\ keys' = keys /\ me.pc = "list"
               /\ new = [me EXCEPT !.pc = "discard", !.todo = keys \ @]
        <3>1. /\ new.cmd = me.cmd /\ new.pc = "discard" /\ new.todo = keys \ me.todo
              /\ new.warned = me.warned
            BY <1>1, <2>5 DEF State
        <3> QED BY <2>1, <2>2, <2>5, <3>1
    <2>6. ASSUME NEW k \in me.todo, me.pc = "discard", keys' = keys \/ keys' = keys \ {k},
                 new = [me EXCEPT !.todo = @ \ {k}, !.warned = @ \cup ({k} \cap keys')]
          PROVE  /\ new.cmd = "orphans" /\ new.pc = "discard"
                 /\ new.todo = keys' \ (ecs \cup ats \cup new.warned)
        <3>1. /\ new.cmd = me.cmd /\ new.pc = "discard" /\ new.todo = me.todo \ {k}
              /\ new.warned = me.warned \cup ({k} \cap keys')
            BY <1>1, <2>6 DEF State
        <3> QED BY <2>1, <2>2, <2>6, <3>1
    <2> QED BY <1>4, <2>3, <2>4, <2>5, <2>6
<1>6. proc'[p] = new /\ \A q \in Process \ {p} : proc'[q] = Idle
    BY <1>2, <1>4 DEF Inv1, Types, Go
<1>7. RunsAlone'
    BY <1>6, IdleFields DEF RunsAlone
<1>8. ecs' \cup ats' \subseteq keys'
    BY <1>3, <1>5 DEF Inv2, Collected
<1>9. KeysThere'
    BY <1>5, <1>6, IdleFields DEF KeysThere, Owns, Request
<1>10. Collected'
    BY <1>3, <1>5, <1>6, IdleFields DEF Collected
<1> QED BY <1>7, <1>8, <1>9, <1>10 DEF Inv2

(* A crash discards nothing. *)
LEMMA CrashInv2 ==
    ASSUME Inv1, Inv2, NEW p \in Process, Crash(p)
    PROVE  Inv2'
<1>1. proc'[p] = Idle /\ \A q \in Process \ {p} : proc'[q] = proc[q]
    BY DEF Inv1, Types, Go, Crash
<1>2. UNCHANGED <<keys, ecs, ats, created>>
    BY DEF Crash
<1>3. RunsAlone' /\ Collected' /\ ecs' \cup ats' \subseteq keys'
    BY <1>1, <1>2, IdleFields DEF Inv2, RunsAlone, Collected
<1>4. KeysThere'
    BY <1>1, <1>2, IdleFields DEF Inv2, KeysThere, Owns, Request
<1> QED BY <1>3, <1>4 DEF Inv2

(* A command starts: prune orphans only if no other command runs, and none *)
(* while it runs.                                                          *)
LEMMA StartInv2 ==
    ASSUME "orphans" \in Alone, Inv1, Inv2, NEW p \in Process, Start(p)
    PROVE  Inv2'
<1>1. UNCHANGED <<keys, ecs, ats, created>>
    BY DEF Start, StartInitial, StartRenewal, StartTickets, StartExpired, StartOrphans
<1>2. PICK new :
        /\ MayStart(p, new.cmd) /\ Go(p, new)
        /\ new.key = None /\ new.cert = None
        /\ new.pc \notin {"list", "discard"}
        /\ new.pc = "collect" => new.todo = ecs /\ new.warned = {}
    <2>1. CASE StartInitial(p)
        <3> DEFINE base == Command("initial")
                   new == [base EXCEPT !.pc = "create", !.signer = Boot]
        <3>1. Go(p, new) /\ MayStart(p, "initial")
            BY <2>1 DEF StartInitial
        <3>2. /\ base \in State(created) /\ base.cmd = "initial"
              /\ base.key = None /\ base.cert = None
            BY CommandFields DEF Request
        <3> HIDE DEF base
        <3>3. /\ new.cmd = "initial" /\ new.key = None /\ new.cert = None /\ new.pc = "create"
            BY <3>2 DEF State
        <3> HIDE DEF new
        <3> QED BY <3>1, <3>3
    <2>2. CASE StartRenewal(p)
        <3> DEFINE base == Command("renewal")
                   new == [base EXCEPT !.pc = "create", !.signer = ecId]
        <3>1. Go(p, new) /\ MayStart(p, "renewal")
            BY <2>2 DEF StartRenewal
        <3>2. /\ base \in State(created) /\ base.cmd = "renewal"
              /\ base.key = None /\ base.cert = None
            BY CommandFields DEF Request
        <3> HIDE DEF base
        <3>3. /\ new.cmd = "renewal" /\ new.key = None /\ new.cert = None /\ new.pc = "create"
            BY <3>2 DEF State
        <3> HIDE DEF new
        <3> QED BY <3>1, <3>3
    <2>3. CASE StartTickets(p)
        <3>0. PICK count \in 1..MaxTickets :
                Go(p, [Command("tickets") EXCEPT !.pc = "create", !.signer = ecId, !.left = count])
            BY <2>3 DEF StartTickets
        <3> DEFINE base == Command("tickets")
                   new == [base EXCEPT !.pc = "create", !.signer = ecId, !.left = count]
        <3>1. Go(p, new) /\ MayStart(p, "tickets")
            BY <2>3, <3>0 DEF StartTickets
        <3>2. /\ base \in State(created) /\ base.cmd = "tickets"
              /\ base.key = None /\ base.cert = None
            BY CommandFields DEF Request
        <3> HIDE DEF base
        <3>3. /\ new.cmd = "tickets" /\ new.key = None /\ new.cert = None /\ new.pc = "create"
            BY <3>2 DEF State
        <3> HIDE DEF new
        <3> QED BY <3>1, <3>3
    <2>4. CASE StartExpired(p)
        <3>0. PICK force \in BOOLEAN, keep \in BOOLEAN, pc \in {"scan ats", "scan ecs"} :
                Go(p, [Command("expired") EXCEPT !.pc = pc, !.force = force, !.keep = keep])
            BY <2>4 DEF StartExpired
        <3> DEFINE base == Command("expired")
                   new == [base EXCEPT !.pc = pc, !.force = force, !.keep = keep]
        <3>1. Go(p, new) /\ MayStart(p, "expired")
            BY <2>4, <3>0 DEF StartExpired
        <3>2. /\ base \in State(created) /\ base.cmd = "expired"
              /\ base.key = None /\ base.cert = None
            BY CommandFields DEF Request
        <3> HIDE DEF base
        <3>3. /\ new.cmd = "expired" /\ new.key = None /\ new.cert = None /\ new.pc = pc
            BY <3>2 DEF State
        <3> HIDE DEF new
        <3> QED BY <3>1, <3>3
    <2>5. CASE StartOrphans(p)
        <3> DEFINE base == Command("orphans")
                   new == [base EXCEPT !.pc = "collect", !.todo = ecs]
        <3>1. Go(p, new) /\ MayStart(p, "orphans")
            BY <2>5 DEF StartOrphans
        <3>2. /\ base \in State(created) /\ base.cmd = "orphans"
              /\ base.key = None /\ base.cert = None /\ base.warned = {}
            BY CommandFields DEF Request
        <3> HIDE DEF base
        <3>3. /\ new.cmd = "orphans" /\ new.key = None /\ new.cert = None /\ new.pc = "collect"
              /\ new.todo = ecs /\ new.warned = {}
            BY <3>2 DEF State
        <3> HIDE DEF new
        <3> QED BY <3>1, <3>3
    <2> QED BY <2>1, <2>2, <2>3, <2>4, <2>5 DEF Start
<1>3. proc'[p] = new /\ \A q \in Process \ {p} : proc'[q] = proc[q]
    BY <1>2 DEF Inv1, Types, Go
<1>4. RunsAlone'
    BY <1>2, <1>3 DEF RunsAlone, MayStart, Busy, Inv2
<1>5. KeysThere'
    BY <1>1, <1>2, <1>3 DEF Inv2, KeysThere, Owns
<1>6. Collected'
    BY <1>1, <1>2, <1>3 DEF Inv2, Collected
<1> QED BY <1>1, <1>4, <1>5, <1>6 DEF Inv2

(* Every step preserves the rest of the invariant. *)
LEMMA StepInv2 ==
    ASSUME "orphans" \in Alone, Inv1, Inv2, [Next]_vars
    PROVE  Inv2'
<1>1. CASE UNCHANGED vars
    BY <1>1 DEF vars, Inv2, RunsAlone, KeysThere, Collected, Owns
<1>2. ASSUME NEW p \in Process, Start(p) PROVE Inv2'
    BY <1>2, StartInv2
<1>3. ASSUME NEW p \in Process, Step(p), Inv1' PROVE Inv2'
    BY <1>3, CreateKeyInv2, RequestInv2, StoreCertificateInv2, DiscardInv2, ScanInv2,
       OrphansInv2 DEF Step
<1>4. ASSUME NEW p \in Process, Crash(p) PROVE Inv2'
    BY <1>4, CrashInv2
<1>5. ASSUME NEW k \in Key, Expire(k) PROVE Inv2'
    BY <1>5 DEF Expire, Inv2, RunsAlone, KeysThere, Collected, Owns
<1>6. Inv1'
    BY StepInv1
<1> QED BY <1>1, <1>2, <1>3, <1>4, <1>5, <1>6 DEF Next

(* It holds before the first enrolment. *)
LEMMA InitInv2 == ASSUME Init PROVE Inv2
<1>1. \A p \in Process : proc[p] = Idle
    BY DEF Init
<1>2. RunsAlone /\ Collected
    BY <1>1, IdleFields DEF RunsAlone, Collected
<1>3. KeysThere
    BY <1>1, IdleFields DEF KeysThere, Owns, Request
<1> QED BY <1>2, <1>3 DEF Init, Inv2

(* The rest of the invariant, if prune orphans runs only while no other    *)
(* command runs.                                                           *)
THEOREM Invariant2 == ASSUME "orphans" \in Alone PROVE Spec => []Inv2
BY InitInv2, StepInv2, Invariant1, PTL DEF Spec

(* If prune orphans runs alone, a stored certificate can always be used    *)
(* for signing: its private key is stored, wherever a command dies, and    *)
(* whatever other commands run at the same time.  The variables have their *)
(* types.                                                                  *)
THEOREM CertificatesAlwaysUsable ==
    ASSUME "orphans" \in Alone PROVE Spec => []CertificatesUsable
<1>1. Inv1 /\ Inv2 => CertificatesUsable
    <2> SUFFICES ASSUME Inv1, Inv2 PROVE CertificatesUsable
        OBVIOUS
    <2>1. \A p \in Process : /\ proc[p].todo \cup proc[p].warned \subseteq 1..created \cup {Boot}
                             /\ proc[p].left \in 0..MaxTickets
        BY ProcessState DEF Inv1
    <2>2. \A p \in Process : p \notin Busy => proc[p] = Idle
        BY StageOf DEF Inv1, Busy
    <2> QED BY <2>1, <2>2 DEF CertificatesUsable, TypeOK, Inv1, Types, Inv2
<1> QED BY <1>1, Invariant1, Invariant2, PTL

(* If prune orphans runs alone, it leaves no other keys than those of      *)
(* certificates and those it has warned about.                             *)
THEOREM OrphansAlwaysRemoved ==
    ASSUME "orphans" \in Alone PROVE Spec => OrphansRemoved
<1>1. Inv2 /\ [Next]_vars
        => [\A p \in Process :
                EndOrphans(p) /\ Busy = {p}
                    => keys \subseteq ecs \cup ats \cup proc[p].warned]_vars
    BY DEF Inv2, Collected, EndOrphans
<1> QED BY <1>1, Invariant2, PTL DEF Spec, OrphansRemoved
=============================================================================
