------------------------------ MODULE PkiClient ------------------------------
(***************************************************************************)
(* The credentials and certificates of a station, as the commands of the   *)
(* PKI client change them: initial enrolment, renewal, authorization       *)
(* tickets and housekeeping.  Everything is kept in files.  Commands are   *)
(* processes of their own that do not lock anything; each step of one      *)
(* command is one access to the files, and a process may die after any of  *)
(* them.  Enrolment and authorization authorities are external: they       *)
(* answer a request with a certificate for its key, or fail.               *)
(*                                                                         *)
(* A certificate is named by the key it is about: every request uses a     *)
(* fresh key.                                                              *)
(***************************************************************************)
EXTENDS Integers, FiniteSets

CONSTANTS
    Process,    \* processes that run commands
    None, Boot, \* no key; the canonical key that an initial enrolment uses
    Alone,      \* commands that run only while no other command runs
    MaxKeys,    \* bound on the keys that are created
    MaxTickets  \* bound on the tickets that one command asks for

ASSUME PkiAssumption ==
    /\ MaxKeys \in Nat /\ MaxTickets \in Nat \ {0}
    /\ None \notin Nat /\ Boot \notin Nat /\ Boot # None

VARIABLES
    keys,    \* credential storage: private keys
    ecs,     \* stored enrolment credentials
    ats,     \* stored authorization tickets
    ecId,    \* ec.hid8: the EC the station uses, or None
    created, \* number of keys that were ever created
    expired, \* certificates that have expired
    proc,    \* Process -> state of its command
    stray,   \* history: keys that a crash, a failed write or removal or the user left behind
    gone     \* history: certificates that were removed by force

vars == <<keys, ecs, ats, ecId, created, expired, proc, stray, gone>>

Key == 1..MaxKeys

(* pc: where the command stands; key: ScopedKeyPair, None once committed;  *)
(* boot: is the ScopedCredential alive?; signer: the key that signs the    *)
(* request; cert: the certificate that is stored or removed; left: tickets *)
(* to request; todo: what is left of a listing; warned: keys the user was   *)
(* told could not be removed; station: the EC that a scan has found in     *)
(* use; since: history, the certificates that were in place when the       *)
(* command was started                                                     *)
Idle == [cmd |-> "none", pc |-> "idle", key |-> None, boot |-> FALSE, signer |-> None,
         cert |-> None, left |-> 0, todo |-> {}, warned |-> {}, station |-> None, since |-> {},
         force |-> FALSE, keep |-> FALSE]

Busy == {p \in Process : proc[p].cmd # "none"}

(* A command starts, unless it or a running command has to run alone. *)
MayStart(p, cmd) ==
    /\ p \notin Busy
    /\ cmd \in Alone => Busy = {}
    /\ \A q \in Busy : proc[q].cmd \notin Alone

Go(p, state) == proc' = [proc EXCEPT ![p] = state]

(* The keys a command holds or is about to discard. *)
Held(p) ==
    ({proc[p].key, proc[p].cert} \ {None}) \cup (IF proc[p].boot THEN {Boot} ELSE {})

Command(cmd) ==
    [Idle EXCEPT !.cmd = cmd,
                 !.since = (ecs \cup ats) \ UNION {Held(p) : p \in Process}]

(* The command ends: by an exception or because all is done.  The scoped   *)
(* objects are destroyed first.                                            *)
Leave(p) == Go(p, [proc[p] EXCEPT !.pc = "leave"])

(* discard, with these keys stored: the file is removed, or stays there if *)
(* the file system refuses.                                                *)
Discard(stored, k) ==
    \/ keys' = stored \ {k} /\ UNCHANGED stray
    \/ k \in stored /\ keys' = stored /\ stray' = stray \cup {k}

Init ==
    /\ keys = {} /\ ecs = {} /\ ats = {} /\ ecId = None
    /\ created = 0 /\ expired = {}
    /\ proc = [p \in Process |-> Idle]
    /\ stray = {} /\ gone = {}

-----------------------------------------------------------------------------
(* Enrolment and authorization *)

CanSign(k) == k \in keys

(* The station has an EC and the key that belongs to it. *)
HasEc == ecId # None /\ ecId \in ecs /\ CanSign(ecId)

(* enrolment initial *)
StartInitial(p) ==
    \E force \in BOOLEAN :
        /\ MayStart(p, "initial")
        /\ ecId = None \/ force
        /\ Go(p, [Command("initial") EXCEPT !.pc = "create", !.signer = Boot])
        /\ UNCHANGED <<keys, ecs, ats, ecId, created, expired, stray, gone>>

(* enrolment renewal *)
StartRenewal(p) ==
    /\ MayStart(p, "renewal")
    /\ HasEc
    /\ Go(p, [Command("renewal") EXCEPT !.pc = "create", !.signer = ecId])
    /\ UNCHANGED <<keys, ecs, ats, ecId, created, expired, stray, gone>>

(* request_ticket, for a batch of tickets *)
StartTickets(p) ==
    \E count \in 1..MaxTickets :
        /\ MayStart(p, "tickets")
        /\ HasEc
        /\ Go(p, [Command("tickets") EXCEPT !.pc = "create", !.signer = ecId, !.left = count])
        /\ UNCHANGED <<keys, ecs, ats, ecId, created, expired, stray, gone>>

(* The ScopedKeyPair is constructed.  If the key cannot be written the     *)
(* file may have been created: nobody holds it then.                       *)
CreateKey(p) ==
    /\ proc[p].pc = "create"
    /\ created < MaxKeys
    /\ created' = created + 1
    /\ \/ /\ keys' = keys \cup {created'}
          /\ Go(p, [proc[p] EXCEPT !.key = created',
                            !.pc = IF proc[p].cmd = "initial" THEN "bootstrap" ELSE "sign"])
          /\ UNCHANGED stray
       \/ /\ keys' \in {keys, keys \cup {created'}}
          /\ stray' = stray \cup (keys' \ keys)
          /\ Leave(p)
    /\ UNCHANGED <<ecs, ats, ecId, expired, gone>>

(* The canonical identifier is written; then the ScopedCredential stores   *)
(* the bootstrap key.  If that fails its destructor discards whatever is   *)
(* there: the delegated constructor has completed.                         *)
StoreBootstrap(p) ==
    /\ proc[p].pc = "bootstrap"
    /\ \/ /\ keys' = keys \cup {Boot}
          /\ Go(p, [proc[p] EXCEPT !.boot = TRUE, !.pc = "sign"])
          /\ UNCHANGED stray
       \/ /\ \E stored \in {keys, keys \cup {Boot}} : Discard(stored, Boot)
          /\ Leave(p)
    /\ UNCHANGED <<ecs, ats, ecId, created, expired, gone>>

(* The request is signed with the new key and with the bootstrap key or    *)
(* the EC's key, and posted; signing throws if a key is not there.         *)
SendRequest(p) ==
    /\ proc[p].pc = "sign"
    /\ IF CanSign(proc[p].key) /\ CanSign(proc[p].signer)
       THEN Go(p, [proc[p] EXCEPT !.pc = "answer"])
       ELSE Leave(p)
    /\ UNCHANGED <<keys, ecs, ats, ecId, created, expired, stray, gone>>

(* Mutant: the key is committed before the answer has been checked. *)
AnswerCommitsFirst(p) ==
    /\ proc[p].pc = "answer"
    /\ \/ Go(p, [proc[p] EXCEPT !.cert = proc[p].key, !.key = None, !.pc = "store"])
       \/ Go(p, [proc[p] EXCEPT !.key = None, !.pc = "leave"])
    /\ UNCHANGED <<keys, ecs, ats, ecId, created, expired, stray, gone>>

(* Mutant: the key is not committed. *)
AnswerNoCommit(p) ==
    /\ proc[p].pc = "answer"
    /\ \/ Go(p, [proc[p] EXCEPT !.cert = proc[p].key, !.pc = "store"])
       \/ Leave(p)
    /\ UNCHANGED <<keys, ecs, ats, ecId, created, expired, stray, gone>>

(* A good answer arrives and the key is committed; any other answer, or    *)
(* none, ends the command.                                                 *)
Answer(p) ==
    /\ proc[p].pc = "answer"
    /\ \/ Go(p, [proc[p] EXCEPT !.cert = proc[p].key, !.key = None, !.pc = "store"])
       \/ Leave(p)
    /\ UNCHANGED <<keys, ecs, ats, ecId, created, expired, stray, gone>>

(* The certificate is stored: a temporary file is renamed.  If that fails  *)
(* the key stays behind.                                                   *)
StoreCertificate(p) ==
    LET me == proc[p]
    IN  /\ me.pc = "store"
        /\ \/ /\ stray' = stray \cup {me.cert}
              /\ Go(p, [me EXCEPT !.cert = None, !.pc = "leave"])
              /\ UNCHANGED <<ecs, ats>>
           \/ /\ me.cmd = "tickets"
              /\ ats' = ats \cup {me.cert}
              /\ Go(p, [me EXCEPT !.left = @ - 1, !.cert = None,
                                  !.pc = IF me.left > 1 THEN "create" ELSE "leave"])
              /\ UNCHANGED <<ecs, stray>>
           \/ /\ me.cmd # "tickets"
              /\ ecs' = ecs \cup {me.cert}
              /\ Go(p, [me EXCEPT !.pc = "truncate"])
              /\ UNCHANGED <<ats, stray>>
        /\ UNCHANGED <<keys, ecId, created, expired, gone>>

(* set_ec_identifier: the file is emptied when it is opened, and written   *)
(* afterwards.  If that fails it is removed.                               *)
TruncateIdentifier(p) ==
    /\ proc[p].pc = "truncate"
    /\ ecId' = None
    /\ Go(p, [proc[p] EXCEPT !.pc = "write"])
    /\ UNCHANGED <<keys, ecs, ats, created, expired, stray, gone>>

WriteIdentifier(p) ==
    /\ proc[p].pc = "write"
    /\ ecId' \in {proc[p].cert, None}
    /\ Go(p, [proc[p] EXCEPT !.cert = None, !.pc = "leave"])
    /\ UNCHANGED <<keys, ecs, ats, created, expired, stray, gone>>

(* The destructors of ScopedCredential and ScopedKeyPair, in this order. *)
Destroy(p) ==
    LET me == proc[p]
    IN  /\ me.pc = "leave"
        /\ \/ /\ me.boot
              /\ Discard(keys, Boot)
              /\ Go(p, [me EXCEPT !.boot = FALSE])
           \/ /\ ~me.boot /\ me.key # None
              /\ Discard(keys, me.key)
              /\ Go(p, [me EXCEPT !.key = None])
           \/ /\ ~me.boot /\ me.key = None
              /\ Go(p, Idle)
              /\ UNCHANGED <<keys, stray>>
        /\ UNCHANGED <<ecs, ats, ecId, created, expired, gone>>

-----------------------------------------------------------------------------
(* Housekeeping *)

(* prune expired and prune_expired_tickets: EC and ticket storage are      *)
(* scanned in turn.  The second scans the tickets only.                    *)
StartExpired(p) ==
    \E force, keep, ticketsOnly \in BOOLEAN :
        /\ MayStart(p, "expired")
        /\ ticketsOnly => force /\ ~keep
        /\ Go(p, [Command("expired") EXCEPT !.pc = IF ticketsOnly THEN "scan ats" ELSE "scan ecs",
                              !.force = force, !.keep = keep])
        /\ UNCHANGED <<keys, ecs, ats, ecId, created, expired, stray, gone>>

(* The scan of one storage starts: the EC in use is looked up and the      *)
(* storage listed.                                                         *)
ScanStore(p) ==
    LET me == proc[p]
    IN  /\ me.pc \in {"scan ecs", "scan ats"}
        /\ Go(p, [me EXCEPT !.pc = IF me.pc = "scan ecs" THEN "ecs" ELSE "ats",
                            !.station = ecId,
                            !.todo = IF me.pc = "scan ecs" THEN ecs ELSE ats])
        /\ UNCHANGED <<keys, ecs, ats, ecId, created, expired, stray, gone>>

(* Mutant: the EC in use is not left out. *)
DeletableAny(me, k) ==
    k \in expired /\ k \in (IF me.pc = "ecs" THEN ecs ELSE ats)

(* A certificate is erased if it has expired and is not the EC in use,     *)
(* unless the user forces it.  One that is gone meanwhile is skipped.      *)
Deletable(me, k) ==
    /\ k \in expired
    /\ k \in (IF me.pc = "ecs" THEN ecs ELSE ats)
    /\ me.station = k => me.force

(* The scan comes to certificate k.  If it cannot be erased the user is    *)
(* warned, and it stays with its key.                                      *)
EraseExpired(p, k) ==
    LET me == proc[p]
    IN  /\ me.pc \in {"ecs", "ats"}
        /\ me.cert = None /\ k \in me.todo
        /\ \E erase \in BOOLEAN :
            /\ erase => Deletable(me, k)
            /\ ecs' = IF erase /\ me.pc = "ecs" THEN ecs \ {k} ELSE ecs
            /\ ats' = IF erase /\ me.pc = "ats" THEN ats \ {k} ELSE ats
            /\ gone' = IF erase /\ me.force THEN gone \cup {k} ELSE gone
            /\ stray' = IF erase /\ me.keep THEN stray \cup {k} ELSE stray
            /\ Go(p, [me EXCEPT !.todo = @ \ {k},
                                !.cert = IF erase /\ ~me.keep THEN k ELSE None])
        /\ UNCHANGED <<keys, ecId, created, expired>>

(* Its credential is discarded next. *)
DiscardExpired(p) ==
    LET me == proc[p]
    IN  /\ me.pc \in {"ecs", "ats"}
        /\ me.cert # None
        /\ Discard(keys, me.cert)
        /\ Go(p, [me EXCEPT !.cert = None])
        /\ UNCHANGED <<ecs, ats, ecId, created, expired, gone>>

(* The scan of a storage ends. *)
EndScan(p) ==
    /\ proc[p].pc \in {"ecs", "ats"}
    /\ proc[p].todo = {} /\ proc[p].cert = None
    /\ Go(p, IF proc[p].pc = "ecs" THEN [proc[p] EXCEPT !.pc = "scan ats"] ELSE Idle)
    /\ UNCHANGED <<keys, ecs, ats, ecId, created, expired, stray, gone>>

(* prune orphans: the keys of the ECs are collected, *)
StartOrphans(p) ==
    /\ MayStart(p, "orphans")
    /\ Go(p, [Command("orphans") EXCEPT !.pc = "collect", !.todo = ecs])
    /\ UNCHANGED <<keys, ecs, ats, ecId, created, expired, stray, gone>>

(* then those of the tickets, *)
CollectTickets(p) ==
    /\ proc[p].pc = "collect"
    /\ Go(p, [proc[p] EXCEPT !.pc = "list", !.todo = @ \cup ats])
    /\ UNCHANGED <<keys, ecs, ats, ecId, created, expired, stray, gone>>

(* Mutant: the bootstrap key is overlooked. *)
ListOrphansBut(p) ==
    /\ proc[p].pc = "list"
    /\ Go(p, [proc[p] EXCEPT !.pc = "discard", !.todo = (keys \ {Boot}) \ @])
    /\ UNCHANGED <<keys, ecs, ats, ecId, created, expired, stray, gone>>

(* then the credentials are listed, *)
ListOrphans(p) ==
    /\ proc[p].pc = "list"
    /\ Go(p, [proc[p] EXCEPT !.pc = "discard", !.todo = keys \ @])
    /\ UNCHANGED <<keys, ecs, ats, ecId, created, expired, stray, gone>>

(* and the ones that were not collected discarded, or the user is warned.  *)
DiscardOrphan(p, k) ==
    /\ proc[p].pc = "discard"
    /\ k \in proc[p].todo
    /\ Discard(keys, k)
    /\ Go(p, [proc[p] EXCEPT !.todo = @ \ {k}, !.warned = @ \cup ({k} \cap keys')])
    /\ UNCHANGED <<ecs, ats, ecId, created, expired, gone>>

EndOrphans(p) ==
    /\ proc[p].pc = "discard"
    /\ proc[p].todo = {}
    /\ Go(p, Idle)
    /\ UNCHANGED <<keys, ecs, ats, ecId, created, expired, stray, gone>>

-----------------------------------------------------------------------------
(* A process dies. *)
Crash(p) ==
    /\ p \in Busy
    /\ stray' = stray \cup Held(p)
    /\ Go(p, Idle)
    /\ UNCHANGED <<keys, ecs, ats, ecId, created, expired, gone>>

(* A certificate expires.  Its validity is longer than any command takes   *)
(* that was under way when it was put in place.                            *)
Expire(k) ==
    /\ k \in (ecs \cup ats) \ expired
    /\ \A p \in Busy : k \in proc[p].since
    /\ expired' = expired \cup {k}
    /\ UNCHANGED <<keys, ecs, ats, ecId, created, proc, stray, gone>>

Step(p) ==
    \/ CreateKey(p) \/ StoreBootstrap(p) \/ SendRequest(p) \/ Answer(p)
    \/ StoreCertificate(p) \/ TruncateIdentifier(p) \/ WriteIdentifier(p) \/ Destroy(p)
    \/ ScanStore(p) \/ (\E k \in Key : EraseExpired(p, k)) \/ DiscardExpired(p) \/ EndScan(p)
    \/ CollectTickets(p) \/ ListOrphans(p) \/ (\E k \in Key \cup {Boot} : DiscardOrphan(p, k))
    \/ EndOrphans(p)

Start(p) ==
    \/ StartInitial(p) \/ StartRenewal(p) \/ StartTickets(p)
    \/ StartExpired(p) \/ StartOrphans(p)

Next ==
    \/ \E p \in Process : Start(p) \/ Step(p) \/ Crash(p)
    \/ \E k \in Key : Expire(k)

Spec == Init /\ [][Next]_vars

-----------------------------------------------------------------------------
(* Properties *)

(* Every variable has its type; a scan works on certificates and a command *)
(* that is not under way holds nothing.                                    *)
TypeOK ==
    /\ keys \subseteq 1..created \cup {Boot}
    /\ ecs \subseteq 1..created /\ ats \subseteq 1..created
    /\ ecId \in 1..created \cup {None}
    /\ created \in 0..MaxKeys
    /\ expired \subseteq 1..created /\ gone \subseteq 1..created
    /\ stray \subseteq 1..created \cup {Boot}
    /\ \A p \in Process :
            /\ proc[p].todo \cup proc[p].warned \subseteq 1..created \cup {Boot}
            /\ proc[p].left \in 0..MaxTickets
            /\ p \notin Busy => proc[p] = Idle

(* Whatever commands run at the same time, prune orphans apart (Alone),    *)
(* and wherever one of them dies or fails: a stored certificate can be     *)
(* used for signing.  (With the types.)                                    *)
CertificatesUsable == TypeOK /\ ecs \cup ats \subseteq keys

(* The station never refers to an EC that it does not have, unless the     *)
(* user has removed it by force.                                           *)
EcAvailable == ecId # None => ecId \in ecs \cup gone

(* No private key is left over: each belongs to a stored certificate or to *)
(* a command that is under way, or was left behind by a crash, a failed    *)
(* write or removal, or on demand.                                         *)
NoKeyLeft == keys \subseteq ecs \cup ats \cup stray \cup UNION {Held(p) : p \in Process}

(* What is left behind can be cleaned up: when prune orphans ends, the     *)
(* keys that are stored are those of certificates, and those it has warned *)
(* the user about.                                                         *)
OrphansRemoved ==
    [][\A p \in Process :
            EndOrphans(p) /\ Busy = {p} => keys \subseteq ecs \cup ats \cup proc[p].warned]_vars

(* "remove credential files not referenced by any certificate": prune      *)
(* orphans does not discard the key of a stored certificate.               *)
OnlyOrphansPruned ==
    [][\A p \in Process, k \in Key :
            DiscardOrphan(p, k) /\ k \in keys \ keys' => k \notin ecs \cup ats]_vars
=============================================================================
