--------------------------- MODULE OplogConsensus ---------------------------
(***************************************************************************)
(* The life of ONE oplog of an entity at every node that keeps the entity: *)
(* it is created and signed, sent to the nodes that have to sign, collects *)
(* the signatures of all masters, becomes valid (its MasterLogID is set),  *)
(* and spreads to everybody.  Copies that were signed concurrently meet    *)
(* and are integrated; valid copies that differ are reduced to the one     *)
(* with the smallest (UpdateTS, Hash).  A log that is still pending when   *)
(* it expires is deleted.                                                  *)
(*                                                                         *)
(* A handler holds the lock of the oplog from its first read to its last   *)
(* write (LockMap.tla), so each is one action; expiry reads the list of    *)
(* pending logs without the lock, so it is two.                            *)
(***************************************************************************)
EXTENDS Oplog, FiniteSetsExt

CONSTANTS
    Users, Nodes,   \* numbered in the byte order of their ids
    Owner,          \* Owner[n]: the user whose device node n is
    Weight,         \* Weight[n]: MyNode.Weight
    Masters,        \* the users in pm.masters
    Creator,        \* the node that creates the log
    ExpireOplogSeconds,
    LogResults,     \* what processLog may return, and
    PendingResults, \* what processPendingLog may return, in this instance
    MaxTS           \* bound on the clock

(* What processLog can do: the object is good (IsSync), its content still  *)
(* has to be fetched, something newer is there, or the log is refused.     *)
AllLogResults == {"sync", "later", "newer", "refused"}

(* What processPendingLog can do: as above, or sign a deletion that is not *)
(* synced yet.                                                             *)
AllPendingResults == {"sync", "later", "sign", "refused"}

ASSUME ConsensusAssumption ==
    /\ Users \subseteq Nat /\ Nodes \subseteq Nat
    /\ IsFiniteSet(Users)
    /\ Owner \in [Nodes -> Users]
    /\ Weight \in [Nodes -> Nat]
    /\ Masters \subseteq Users
    /\ Creator \in Nodes
    /\ ExpireOplogSeconds \in Nat
    /\ LogResults \subseteq AllLogResults
    /\ PendingResults \subseteq AllPendingResults
    /\ MaxTS \in Nat

VARIABLES
    store,      \* store[n]: the log in the database of node n, or NoLog
    msgs,       \* the copies sent so far: each may arrive late, again, or never
    failing,    \* nodes between GetPendingOplogs and the deletion of the expired log
    now         \* types.GetTimestamp; the log is created when it is 0

vars == <<store, msgs, failing, now>>

SignSets(ids, tss) == SUBSET Signs(ids, Nodes, tss)
Logs(tss) ==
    [ut : tss, mid : BOOLEAN, ms : SignSets(Users, tss), is : SignSets(Nodes, tss),
     hash : [mid : BOOLEAN, ms : SignSets(Users, tss), is : SignSets(Nodes, tss)],
     sync : BOOLEAN]

ASSUME NoLogAssumption == NoLog \notin Logs(0 .. MaxTS)

TypeOK ==
    /\ \A n \in Nodes : store[n] \in Logs(0 .. MaxTS) \cup {NoLog}
    /\ DOMAIN store = Nodes
    /\ msgs \subseteq Logs(0 .. MaxTS)
    /\ failing \subseteq Nodes
    /\ now \in 0 .. MaxTS

Init ==
    /\ store = [n \in Nodes |-> NoLog]
    /\ msgs = {}
    /\ failing = {}
    /\ now = 0

-----------------------------------------------------------------------------
(* Quorums and signing.                                                    *)

isValidOplogAnySigner(ms) == Cardinality(ms) >= Cardinality(Masters)
(* The count is of signatures, not of signers.                             *)
isValidOplog(ms) == Cardinality({s \in ms : s.id \in Masters}) >= Cardinality(Masters)

MyNodes(n) == {m \in Nodes : Owner[m] = Owner[n]}
TotalWeight(n) == MapThenSumSet(LAMBDA m : Weight[m], MyNodes(n))
Quorum(n) == TotalWeight(n) \div 2 + 1

IsValidInternalOplog(n, is) ==
    MapThenSumSet(LAMBDA s : Weight[s.id], {s \in is : s.id \in MyNodes(n)}) >= Quorum(n)

(* A device alone is a quorum of its user, and no device is none: the case *)
(* of users with one device.                                               *)
SingleDevice ==
    \A n \in Nodes :
       /\ ~IsValidInternalOplog(n, {})
       /\ \A ts \in 0 .. MaxTS : IsValidInternalOplog(n, {SignInfo(n, n, ts)})

(* The expiry check of MasterSign and InternalSign, and of GetPendingOplogs.*)
Expired == now > ExpireOplogSeconds

CountIfValid(o) == IF isValidOplog(o.ms) THEN SetMasterLogID(o) ELSE o

MayInternalSign(n, o) ==
    /\ ~o.mid
    /\ Owner[n] = Owner[Creator] \/ Owner[n] \in Masters
    /\ Owner[n] \notin Signers(o.ms)
    /\ n \notin Signers(o.is)

(* defaultInternalSign of a log that MayInternalSign allows.               *)
SignAndCount(n, o) ==
    LET signed == InternalSign(o, n, now)
    IN  IF IsValidInternalOplog(n, signed.is)
        THEN CountIfValid(MasterSign(signed, Owner[n], n, now))
        ELSE signed

(* defaultValidateIntegrateSign.                                           *)
ValidateIntegrateSign(n, o) ==
    CountIfValid(IF IsValidInternalOplog(n, o.is) THEN MasterSign(o, Owner[n], n, now) ELSE o)

-----------------------------------------------------------------------------
(* Saving and sending.                                                     *)

(* SaveCorePending refuses a status below the stored one.                  *)
CanSave(o, orig) == o.mid \/ ToStatus(o) >= StoredStatus(orig)
Saved(o, orig) == IF CanSave(o, orig) THEN o ELSE orig

(* preprocessOplogs resets IsSync of what it receives.                     *)
Broadcast(o, isToBroadcast) ==
    msgs' = msgs \cup (IF isToBroadcast THEN {[o EXCEPT !.sync = FALSE]} ELSE {})

(* Who gets a copy: the peers BroadcastOplogs and GetPendingOplogs pick.   *)
Audience(o) ==
    CASE ToStatus(o) = Alive           -> Nodes
      [] ToStatus(o) = InternalPending -> {n \in Nodes : \E s \in o.is : Owner[n] = Owner[s.id]}
      [] OTHER                         -> {n \in Nodes : Owner[n] \in Masters}

(* preprocessOplogs drops a log from the future or with a wrong hash.      *)
(* Where the bounded clock has stopped nothing is from the future.         *)
Receives(n, o) ==
    /\ o \in msgs /\ n \in Audience(o)
    /\ o.ut < now \/ now = MaxTS
    /\ Verify(o)

-----------------------------------------------------------------------------
(* The handlers.                                                           *)

(* The clock counts from the creation of the log.                          *)
Tick ==
    /\ msgs # {} /\ now < MaxTS
    /\ now' = now + 1
    /\ UNCHANGED <<store, msgs, failing>>

(* createObjectCore, not forced: sign, verify, save, broadcast.            *)
CreateObject ==
    /\ store[Creator] = NoLog /\ msgs = {} /\ now = 0
    /\ LET o == SignAndCount(Creator, NewOplog(now))
       IN  /\ Verify(o)
           /\ store' = [store EXCEPT ![Creator] = o]
           /\ Broadcast(o, TRUE)
    /\ UNCHANGED <<failing, now>>

(* handleOplog: a valid log arrives.                                       *)
HandleOplog(n, o, out) ==
    LET sel  == SelectExisting(o, store[n])
        kept == IF sel.save = NoLog THEN store[n] ELSE sel.save
        done == [sel.o EXCEPT !.sync = out \in {"sync", "newer"} \/ sel.origSync]
    IN  /\ Receives(n, o) /\ o.mid
        /\ \/ /\ sel.o.sync
              /\ store' = [store EXCEPT ![n] = kept]
              /\ Broadcast(sel.o, sel.flag)
           \/ /\ ~sel.o.sync /\ out = "refused"
              /\ store' = [store EXCEPT ![n] = kept]
              /\ UNCHANGED msgs
           \/ /\ ~sel.o.sync /\ out # "refused"
              /\ store' = [store EXCEPT ![n] = done]
              /\ Broadcast(done, out = "sync")
        /\ UNCHANGED <<failing, now>>

(* IntegrateOplog: flag tells whether a new signature set was saved.       *)
IntegrateOplog(n, o) ==
    LET r == IntegrateExisting(o, store[n], now)
    IN  IF ~r.flag THEN r
        ELSE LET v == ValidateIntegrateSign(n, r.o)
                 toSave == [v EXCEPT !.sync = @ \/ r.origSync]
             IN  IF (IsValidInternalOplog(n, r.o.is) /\ Expired) \/ ~CanSave(v, store[n])
                 THEN Failed
                 ELSE Result(v, toSave, r.origSync, TRUE)

(* handlePendingOplog, after IntegrateOplog returned r and left kept in    *)
(* the database.                                                           *)
IntegratedIsSynced(n, r, kept) ==
    /\ r.o.sync
    /\ store' = [store EXCEPT ![n] = IF r.flag THEN r.o ELSE kept]
    /\ Broadcast(r.o, r.flag)

IntegratedIsValid(n, r, kept, out) ==
    /\ ~r.o.sync /\ r.o.mid
    /\ store' = [store EXCEPT ![n] = kept]
    /\ Broadcast(r.o, out # "refused")

(* isNewSign is set whenever processPendingLog asked for a signature.      *)
IntegratedIsPending(n, r, kept, out) ==
    LET toSign == out \in {"sync", "sign"}
        o1 == [r.o EXCEPT !.sync = out = "sync"]
        o2 == IF toSign /\ MayInternalSign(n, o1) THEN SignAndCount(n, o1) ELSE o1
        o3 == [o2 EXCEPT !.sync = @ \/ r.origSync]
        failed == \/ out = "refused"
                  \/ toSign /\ MayInternalSign(n, o1) /\ Expired
                  \/ ~CanSave(o3, kept)
    IN  /\ ~r.o.sync /\ ~r.o.mid
        /\ store' = [store EXCEPT ![n] = IF failed THEN kept ELSE o3]
        /\ Broadcast(o3, ~failed /\ (toSign \/ r.flag))

HandlePendingOplog(n, o, out) ==
    /\ Receives(n, o) /\ ~o.mid
    /\ \E r \in {IntegrateOplog(n, o)} :
         /\ ~r.err
         /\ \E kept \in {IF r.save = NoLog THEN store[n] ELSE r.save} :
              \/ IntegratedIsSynced(n, r, kept)
              \/ IntegratedIsValid(n, r, kept, out)
              \/ IntegratedIsPending(n, r, kept, out)
    /\ UNCHANGED <<failing, now>>

(* HandleSyncCreateObjectAck: the content arrived.  The new signature is   *)
(* sent before the log is saved, and sent also when the save is refused.   *)
HandleSyncCreateObjectAck(n) ==
    /\ store[n] # NoLog /\ ~store[n].sync
    /\ LET o == [store[n] EXCEPT !.sync = TRUE]
           isNewSign == MayInternalSign(n, o) /\ ~Expired
           signed == IF isNewSign THEN SignAndCount(n, o) ELSE o
       IN  /\ store' = [store EXCEPT ![n] = Saved(signed, store[n])]
           /\ Broadcast(signed, isNewSign)
    /\ UNCHANGED <<failing, now>>

(* SyncPendingOplog to a peer: a log that is still pending is sent again.  *)
SyncPendingOplog(n) ==
    /\ store[n] # NoLog /\ ~store[n].mid /\ ~Expired
    /\ Broadcast(store[n], TRUE)
    /\ UNCHANGED <<store, failing, now>>

(* GetPendingOplogs lists an expired pending log as failed ...             *)
ListFailedOplog(n) ==
    /\ store[n] # NoLog /\ ~store[n].mid /\ Expired
    /\ failing' = failing \cup {n}
    /\ UNCHANGED <<store, msgs, now>>

(* ... and HandleFailedOplogs deletes what is stored under its id by then, *)
(* unless handleFailedOplog returned an error.                             *)
HandleFailedOplog(n, isHandled) ==
    /\ n \in failing
    /\ failing' = failing \ {n}
    /\ store' = [store EXCEPT ![n] = IF isHandled THEN NoLog ELSE @]
    /\ UNCHANGED <<msgs, now>>

(* The merkle sync sends a valid log that is synced.                       *)
SyncOplog(n) ==
    /\ store[n] # NoLog /\ store[n].mid /\ store[n].sync
    /\ Broadcast(store[n], TRUE)
    /\ UNCHANGED <<store, failing, now>>

Next ==
    \/ Tick
    \/ CreateObject
    \/ \E n \in Nodes :
          \/ \E o \in msgs, out \in LogResults : HandleOplog(n, o, out)
          \/ \E o \in msgs, out \in PendingResults : HandlePendingOplog(n, o, out)
          \/ HandleSyncCreateObjectAck(n)
          \/ SyncPendingOplog(n)
          \/ ListFailedOplog(n)
          \/ \E isHandled \in BOOLEAN : HandleFailedOplog(n, isHandled)
          \/ SyncOplog(n)

Spec == Init /\ [][Next]_vars

(* A peer that stays connected syncs again and again (the forced sync      *)
(* loops), its messages get through, and content that is asked for comes.  *)
Fairness ==
    /\ WF_vars(Tick)
    /\ WF_vars(CreateObject)
    /\ \A n \in Nodes :
          /\ WF_vars(\E o \in msgs : HandleOplog(n, o, "sync"))
          /\ WF_vars(\E o \in msgs : HandlePendingOplog(n, o, "sync"))
          /\ WF_vars(HandleSyncCreateObjectAck(n))
          /\ WF_vars(SyncPendingOplog(n))
          /\ WF_vars(SyncOplog(n))

FairSpec == Spec /\ Fairness

-----------------------------------------------------------------------------
Stored == {store[n] : n \in Nodes} \ {NoLog}
Copies == Stored \cup msgs

(* A log that counts as valid anywhere (MasterLogID set, stored or sent)   *)
(* carries a signature of every master: no way of signing, integrating or  *)
(* selecting copies makes a log valid too early.                           *)
AliveSignedByAll == \A o \in Copies : o.mid => Masters \subseteq Signers(o.ms)

(* A valid log is never stored or sent with a hash that its receivers      *)
(* would refuse.                                                           *)
AliveVerifies == \A o \in Copies : o.mid => Verify(o)

SameSigns(o, p) == o.hash = p.hash /\ o.ms = p.ms
IsAlive(n) == store[n] # NoLog /\ store[n].mid

Improves(n) ==
    IsAlive(n) =>
       \/ store'[n] = NoLog /\ n \in failing
       \/ /\ IsAlive(n)'
          /\ SameSigns(store'[n], store[n]) \/ Beats(store'[n], store[n])
          /\ store[n].sync => store'[n].sync

(* Once a node has a valid log it replaces its signatures only by those of *)
(* a valid log with a smaller (UpdateTS, Hash), never forgets that it is   *)
(* synced, and loses the log only to an expiry that began before.          *)
AliveOnlyImproves == [][\A n \in Nodes : Improves(n)]_vars

\* All nodes have the same valid log, synced.
AllAgree ==
    \A n, m \in Nodes :
       IsAlive(n) /\ IsAlive(m) /\ store[n].sync /\ SameSigns(store[n], store[m])

(* Every copy that is sent passes the hash check of preprocessOplogs.      *)
SentVerifies == \A o \in msgs : Verify(o)

(* Integrating with the existing log keeps the signature the node itself   *)
(* already gave: only a valid log or the expiry takes its place.           *)
SignatureKept ==
    [][\A n \in Nodes :
          store[n] # NoLog /\ Owner[n] \in Signers(store[n].ms) =>
             store'[n] = NoLog \/ Owner[n] \in Signers(store'[n].ms)]_vars
=============================================================================
