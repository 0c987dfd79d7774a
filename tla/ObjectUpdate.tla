---------------------------- MODULE ObjectUpdate ----------------------------
(***************************************************************************)
(* One object of a user's profile (user name, image, name card) at every   *)
(* node that keeps the profile, under the logs about it: log 0 creates it, *)
(* the logs 1, 2, ... update it.  A log tells that the object changed; the *)
(* content is asked for and comes separately.  Until then the update waits *)
(* in the SyncInfo of the object, where a later log may take its place.    *)
(*                                                                         *)
(* The user is the only master of the profile, so a log is valid once      *)
(* enough of the user's devices signed it.  All update logs have the       *)
(* create log as PreLogID.  A handler holds the locks of the log and of    *)
(* the object throughout, so each is one action; expiry is three.          *)
(***************************************************************************)
EXTENDS Oplog

CONSTANTS
    Nodes,          \* numbered in the byte order of their ids
    Devices,        \* the nodes of the user; the others follow it
    Holders,        \* the nodes that have the object at the start
    Quorum,         \* how many devices have to sign
    MaxUpdates,     \* bound on the updates made
    MaxTS,          \* bound on the clock
    NoObj, NoInfo

(* With at most two signatures a pending copy has that of its creator only *)
(* and IntegrateExisting has nothing to unite.                             *)
ASSUME UpdateAssumption ==
    /\ Nodes \subseteq Nat
    /\ Devices \subseteq Nodes /\ Holders \subseteq Nodes /\ Devices \cap Holders # {}
    /\ Quorum \in 1 .. 2
    /\ MaxUpdates \in Nat /\ MaxTS \in Nat

VARIABLES
    store,      \* store[n][g]: log g in the database of node n, or NoLog
    objs,       \* objs[n]: the object in the database of node n, or NoObj
    msgs,       \* the copies of logs sent so far
    asks,       \* the nodes that asked for the content of the created object
    acks,       \* <<n, g>>: an answer to n with the content of log g
    expired,    \* the logs older than ExpireOplogSeconds
    failing,    \* logs listed as expired and not yet taken out of SyncInfo
    failed,     \* logs taken out of SyncInfo and not yet deleted
    made,       \* how many updates were made
    now         \* types.GetTimestamp: different for any two signatures

vars == <<store, objs, msgs, asks, acks, expired, failing, failed, made, now>>

User == 0
CreateLog == 0
Updates == 1 .. MaxUpdates
LogIDs == {CreateLog} \cup Updates

InternalSync == 2
NoUpdate == 0        \* UpdateLogID is nil: no update has the id of the create log

SignSets(ids) == SUBSET Signs(ids, Devices, 0 .. MaxTS)
Logs == [ut : 0 .. MaxTS, mid : BOOLEAN, ms : SignSets({User}), is : SignSets(Devices),
         hash : [mid : BOOLEAN, ms : SignSets({User}), is : SignSets(Devices)],
         sync : BOOLEAN]
Infos == [log : Updates, ts : 0 .. MaxTS, st : {InternalSync, InternalPending}, good : BOOLEAN]
Objects == [st : {InternalSync, Alive}, upd : LogIDs, ts : 0 .. MaxTS, good : BOOLEAN,
            info : Infos \cup {NoInfo}]

ASSUME NoValueAssumption == NoLog \notin Logs /\ NoInfo \notin Infos /\ NoObj \notin Objects

TypeOK ==
    /\ \A n \in Nodes, g \in LogIDs : store[n][g] \in Logs \cup {NoLog}
    /\ \A n \in Nodes : objs[n] \in Objects \cup {NoObj}
    /\ \A m \in msgs : m.g \in LogIDs /\ m.o \in Logs /\ ~m.o.sync
    /\ asks \subseteq Nodes /\ acks \subseteq Nodes \X LogIDs
    /\ expired \subseteq Updates
    /\ failing \subseteq Devices \X Updates \X (0 .. MaxTS)
    /\ failed \subseteq Devices \X Updates
    /\ made \in 0 .. MaxUpdates /\ now \in 1 .. MaxTS + 1

Valid(o, n, ts) == SetMasterLogID(MasterSign(o, User, n, ts))
FirstDevice == CHOOSE n \in Devices \cap Holders : TRUE
CreateOplog == Valid(NewOplog(0), FirstDevice, 0)
FirstObject == [st |-> Alive, upd |-> NoUpdate, ts |-> 0, good |-> TRUE, info |-> NoInfo]

Init ==
    /\ store = [n \in Nodes |-> [g \in LogIDs |->
                   IF n \in Holders /\ g = CreateLog THEN CreateOplog ELSE NoLog]]
    /\ objs = [n \in Nodes |-> IF n \in Holders THEN FirstObject ELSE NoObj]
    /\ msgs = {[g |-> CreateLog, o |-> [CreateOplog EXCEPT !.sync = FALSE], newer |-> FALSE]}
    /\ asks = {} /\ acks = {}
    /\ expired = {} /\ failing = {} /\ failed = {}
    /\ made = 0
    /\ now = 1

-----------------------------------------------------------------------------
(* What a log does to the object: whether it is not ErrNewerOplog, the new *)
(* object, the log (IsSync may be set), whether to ask for the content,    *)
(* and the log whose place in SyncInfo was taken.                          *)
Done(obj, o, ask) == [ok |-> TRUE, obj |-> obj, o |-> o, ask |-> ask, drop |-> {}]
ErrNewerOplog(obj, o) == [ok |-> FALSE, obj |-> obj, o |-> o, ask |-> FALSE, drop |-> {}]

StatusClass(st) ==
    CASE st = Alive -> 3
      [] st = Pending -> 2
      [] st \in {InternalSync, InternalPending} -> 1
      [] OTHER -> 0

(* A higher class of status wins, then the OLDER log.                      *)
isReplaceOrigSyncInfo(info, st, ts, g) ==
    \/ StatusClass(st) > StatusClass(info.st)
    \/ /\ StatusClass(st) = StatusClass(info.st)
       /\ ts < info.ts \/ (ts = info.ts /\ g < info.log)

NewInfo(g, o) == [log |-> g, ts |-> o.ut, st |-> InternalSync, good |-> FALSE]

(* With ToObject and SetUpdateObjectWithOplog: SyncInfo becomes the object.*)
saveUpdateObjectWithOplog(g, o) ==
    Done([st |-> Alive, upd |-> g, ts |-> o.ut, good |-> TRUE, info |-> NoInfo],
         [o EXCEPT !.sync = TRUE], TRUE)

(* Apply the update when the content is there and the log valid, else let  *)
(* it wait.                                                                *)
handleUpdateObjectNewLog(obj, info, g, o) ==
    IF info.good /\ o.mid
    THEN saveUpdateObjectWithOplog(g, o)
    ELSE Done([obj EXCEPT !.info = [info EXCEPT !.st = IF info.good THEN ToStatus(o) ELSE @]],
              o, TRUE)

handleUpdateObjectDiffLogKeepsInfo(obj, g, o) ==
    [Done(obj, o, TRUE) EXCEPT !.drop = {obj.info.log}]

handleUpdateObjectDiffLog(obj, g, o) ==
    [handleUpdateObjectNewLog(obj, NewInfo(g, o), g, o) EXCEPT !.drop = {obj.info.log}]

handleUpdateObjectWithNewSyncInfo(obj, g, o) ==
    CASE obj.info = NoInfo -> handleUpdateObjectNewLog(obj, NewInfo(g, o), g, o)
      [] obj.info # NoInfo /\ ~isReplaceOrigSyncInfo(obj.info, ToStatus(o), o.ut, g) ->
            ErrNewerOplog(obj, o)
      [] obj.info # NoInfo /\ obj.info.log = g -> handleUpdateObjectNewLog(obj, obj.info, g, o)
      [] OTHER -> handleUpdateObjectDiffLog(obj, g, o)

handleUpdateObjectAnyAge(obj, g, o, newer) ==
    IF obj.upd = g THEN Done([obj EXCEPT !.ts = o.ut], o, FALSE)
    ELSE handleUpdateObjectWithNewSyncInfo(obj, g, o)

(* No object (see UpdateFindsObject), the same update again, a later one   *)
(* applied or known to the sender, or an update to apply.                  *)
handleUpdateObjectCore(obj, g, o, newer) ==
    CASE obj = NoObj -> ErrNewerOplog(obj, o)
      [] obj # NoObj /\ obj.upd = g -> Done([obj EXCEPT !.ts = o.ut], o, FALSE)
      [] obj # NoObj /\ obj.upd # g /\ (o.ut < obj.ts \/ newer) -> ErrNewerOplog(obj, o)
      [] OTHER -> handleUpdateObjectWithNewSyncInfo(obj, g, o)

NewObjectWithOplog ==
    [st |-> InternalSync, upd |-> NoUpdate, ts |-> 0, good |-> FALSE, info |-> NoInfo]

(* A valid create log.  The new object waits for its content.              *)
handleCreateObjectLogCore(obj, o, newer) ==
    CASE obj = NoObj -> Done(NewObjectWithOplog, o, ~newer)
      [] obj # NoObj /\ obj.upd # NoUpdate -> ErrNewerOplog(obj, o)
      [] obj # NoObj /\ obj.upd = NoUpdate /\ obj.st = InternalSync -> Done(obj, o, ~newer)
      [] OTHER -> IF obj.ts <= o.ut THEN ErrNewerOplog(obj, o)
                  ELSE Done([obj EXCEPT !.ts = o.ut], [o EXCEPT !.sync = TRUE], FALSE)

processUserLog(obj, g, o, newer) ==
    IF g = CreateLog THEN handleCreateObjectLogCore(obj, o, newer)
    ELSE handleUpdateObjectCore(obj, g, o, newer)

removeNonSyncOplogAnyAge(o, isRetainValid, ts) ==
    IF isRetainValid /\ o.mid THEN [o EXCEPT !.sync = TRUE] ELSE NoLog

(* removeNonSyncOplog: what becomes of the log that lost its place to one  *)
(* with UpdateTS ts.                                                       *)
removeNonSyncOplog(o, isRetainValid, ts) ==
    CASE o.sync /\ o.mid -> o
      [] ~(o.sync /\ o.mid) /\ isRetainValid /\ o.mid /\ o.ut < ts -> [o EXCEPT !.sync = TRUE]
      [] OTHER -> NoLog

-----------------------------------------------------------------------------
(* Effects on the database and the network.                                *)

SetLog(n, g, o) == store' = [store EXCEPT ![n][g] = o]

(* The displaced log is settled before the new one is saved.  If it is not *)
(* in the database, the handler fails before it changes the object.        *)
ErrNotFound(n, r) == \E h \in r.drop : store[n][h] = NoLog
SetLogs(n, r, isRetainValid, g, o) ==
    store' = [store EXCEPT ![n] = [h \in LogIDs |->
                 CASE h = g -> o
                   [] h # g /\ h \in r.drop -> removeNonSyncOplog(@[h], isRetainValid, r.o.ut)
                   [] OTHER -> @[h]]]

Copy(g, o, newer) == [g |-> g, o |-> [o EXCEPT !.sync = FALSE], newer |-> newer]
Broadcast(n, g, o, isToBroadcast) ==
    msgs' = msgs \cup (IF isToBroadcast /\ n \in Devices THEN {Copy(g, o, FALSE)} ELSE {})
(* A copy stays in msgs and may arrive any number of times, so it is not   *)
(* added twice, and SyncPendingOplog has nothing to add: all pending       *)
(* copies of an update are the one its creator sent.                       *)
Send(m) == m \notin msgs /\ msgs' = msgs \cup {m}

(* Whatever leaves an update waiting without its content also asks for it; *)
(* the content of a new object is not asked for if it was updated since.   *)
SyncObject(n, g, isAsk) == asks' = asks \cup (IF g = CreateLog /\ isAsk THEN {n} ELSE {})
Waits(n, g) ==
    objs[n] # NoObj /\ objs[n].info # NoInfo /\ objs[n].info.log = g /\ ~objs[n].info.good

(* preprocessOplogs with checkPreOplog: an update is handled only where    *)
(* the create log is valid.  Pending logs go to the user's devices only.   *)
Receives(n, m) ==
    /\ m \in msgs
    /\ m.o.mid \/ n \in Devices
    /\ m.g = CreateLog \/ (store[n][CreateLog] # NoLog /\ store[n][CreateLog].mid)

(* SignOplog, InternalSign.                                                *)
Sign(n, o) ==
    LET signed == InternalSign(o, n, now)
    IN  IF Cardinality(signed.is) >= Quorum THEN Valid(signed, n, now) ELSE signed
MaySign(n, g, o) == n \in Devices /\ ~o.mid /\ n \notin Signers(o.is) /\ g \notin expired

-----------------------------------------------------------------------------
(* The handlers.                                                           *)

(* UpdateObject.                                                           *)
UpdateObject(n) ==
    LET g == made + 1
        o == Sign(n, [NewOplog(now) EXCEPT !.sync = FALSE])
        info == [NewInfo(g, o) EXCEPT !.good = TRUE]
        r == handleUpdateObjectNewLog(objs[n], info, g, o)
    IN  /\ n \in Devices /\ made < MaxUpdates /\ now <= MaxTS
        /\ objs[n] # NoObj /\ objs[n].st = Alive /\ objs[n].info = NoInfo
        /\ objs' = [objs EXCEPT ![n] = r.obj]
        /\ SetLog(n, g, r.o)
        /\ Broadcast(n, g, r.o, TRUE)
        /\ made' = g /\ now' = now + 1
        /\ UNCHANGED <<asks, acks, expired, failing, failed>>

(* handleOplog: a valid log arrives.  One that is synced here is compared  *)
(* with the stored copy and not processed again.  When it is not, or fails,*)
(* what SelectExisting saved remains.                                      *)
handleOplog(n, m) ==
    LET sel == SelectExisting(m.o, store[n][m.g])
        r == processUserLog(objs[n], m.g, sel.o, m.newer)
    IN  IF sel.o.sync \/ ErrNotFound(n, r)
        THEN [r |-> Done(objs[n], sel.o, FALSE), o |-> sel.save,
              isToBroadcast |-> sel.o.sync /\ sel.flag]
        ELSE [r |-> r, o |-> [r.o EXCEPT !.sync = @ \/ ~r.ok \/ sel.origSync],
              isToBroadcast |-> r.o.sync]

HandleOplog(n, m) ==
    /\ Receives(n, m) /\ m.o.mid
    /\ \E h \in {handleOplog(n, m)} :
          /\ h.o # NoLog
          /\ objs' = [objs EXCEPT ![n] = h.r.obj]
          /\ SetLogs(n, h.r, TRUE, m.g, h.o)
          /\ Broadcast(n, m.g, h.o, h.isToBroadcast)
          /\ SyncObject(n, m.g, h.r.ask)
    /\ UNCHANGED <<acks, expired, failing, failed, made, now>>

(* handlePendingOplog: a pending log arrives.  One that turns out to be    *)
(* valid here is processed and not saved; one that is older is skipped.    *)
HandlePendingOplog(n, m) ==
    /\ Receives(n, m) /\ ~m.o.mid
    /\ \E i \in {IntegrateExisting(m.o, store[n][m.g], now)} :
       \E r \in {handleUpdateObjectCore(objs[n], m.g, i.o, m.newer)} :
          /\ ~i.o.sync /\ ~ErrNotFound(n, r)
          /\ objs' = [objs EXCEPT ![n] = r.obj]
          /\ SyncObject(n, m.g, r.ask)
          /\ \/ /\ i.o.mid
                /\ SetLogs(n, r, TRUE, m.g, store[n][m.g])
                /\ Broadcast(n, m.g, r.o, TRUE)
             \/ /\ ~i.o.mid /\ r.ok
                /\ SetLogs(n, r, FALSE, m.g, [r.o EXCEPT !.sync = i.origSync])
                /\ UNCHANGED msgs
    /\ UNCHANGED <<acks, expired, failing, failed, made, now>>

(* HandleSyncCreateObject and HandleSyncUpdateObject: node p answers n     *)
(* with what it has, applied or waiting for the log to become valid.       *)
HandleSyncCreateObject(p, n) ==
    /\ n \in asks /\ <<n, CreateLog>> \notin acks
    /\ objs[p] # NoObj /\ objs[p].st # InternalSync /\ objs[p].upd = NoUpdate
    /\ acks' = acks \cup {<<n, CreateLog>>}
    /\ UNCHANGED <<store, objs, msgs, asks, expired, failing, failed, made, now>>

HandleSyncUpdateObject(p, n, g) ==
    /\ Waits(n, g) /\ <<n, g>> \notin acks
    /\ objs[p] # NoObj
    /\ \/ objs[p].upd = g
       \/ objs[p].info # NoInfo /\ objs[p].info.log = g /\ objs[p].info.good
    /\ acks' = acks \cup {<<n, g>>}
    /\ UNCHANGED <<store, objs, msgs, asks, expired, failing, failed, made, now>>

(* HandleSyncCreateObjectAck.                                              *)
HandleSyncCreateObjectAck(n) ==
    LET o == store[n][CreateLog]
    IN  /\ <<n, CreateLog>> \in acks
        /\ o # NoLog /\ ~o.sync
        /\ objs[n] # NoObj /\ ~objs[n].good
        /\ objs' = [objs EXCEPT ![n].good = TRUE, ![n].st = Alive, ![n].ts = o.ut]
        /\ SetLog(n, CreateLog, [o EXCEPT !.sync = TRUE])
        /\ acks' = acks \ {<<n, CreateLog>>} /\ asks' = asks \ {n}
        /\ UNCHANGED <<msgs, expired, failing, failed, made, now>>

(* HandleSyncUpdateObjectAck: the content completes the waiting update; a  *)
(* device signs the log now, and applies the update if that makes it valid.*)
HandleSyncUpdateObjectAck(n, g) ==
    LET o == store[n][g]
        info == [objs[n].info EXCEPT !.good = TRUE]
        isNewSign == MaySign(n, g, o)
        signed == [IF isNewSign THEN Sign(n, o) ELSE o EXCEPT !.sync = TRUE]
        r == handleUpdateObjectNewLog(objs[n], info, g, signed)
    IN  /\ <<n, g>> \in acks
        /\ o # NoLog /\ ~o.sync
        /\ Waits(n, g) /\ objs[n].upd # g
        /\ isNewSign => now <= MaxTS
        /\ objs' = [objs EXCEPT ![n] = r.obj]
        /\ SetLog(n, g, signed)
        /\ Broadcast(n, g, signed, isNewSign)
        /\ acks' = acks \ {<<n, g>>}
        /\ now' = IF isNewSign THEN now + 1 ELSE now
        /\ UNCHANGED <<asks, expired, failing, failed, made>>

(* The merkle sync sends a valid log that is synced, and tells whether the *)
(* object has moved on.                                                    *)
SetNewestCreateObjectLog(n) == objs[n].upd # NoUpdate
SetNewestUpdateObjectLog(n, g) == objs[n].upd # g
SyncOplog(n, g) ==
    /\ store[n][g] # NoLog /\ store[n][g].mid /\ store[n][g].sync
    /\ Send(Copy(g, store[n][g], IF g = CreateLog THEN SetNewestCreateObjectLog(n)
                                 ELSE SetNewestUpdateObjectLog(n, g)))
    /\ UNCHANGED <<store, objs, asks, acks, expired, failing, failed, made, now>>

(* ExpireOplogSeconds pass while the log is pending somewhere.  By then    *)
(* the pending copies that were sent have arrived, as often as they do, or *)
(* are lost.                                                               *)
Expire(g) ==
    /\ g \notin expired
    /\ \/ \E n \in Devices : store[n][g] # NoLog /\ ~store[n][g].mid
       \/ \E m \in msgs : m.g = g /\ ~m.o.mid
    /\ expired' = expired \cup {g}
    /\ msgs' = {m \in msgs : m.g = g => m.o.mid}
    /\ UNCHANGED <<store, objs, asks, acks, failing, failed, made, now>>

(* GetPendingOplogs lists an expired log ...                               *)
ListFailedOplog(n, g) ==
    /\ store[n][g] # NoLog /\ ~store[n][g].mid /\ g \in expired
    /\ failing' = failing \cup {<<n, g, store[n][g].ut>>}
    /\ UNCHANGED <<store, objs, msgs, asks, acks, expired, failed, made, now>>

(* ... which HandleFailedUpdateObjectLog takes out of SyncInfo ...         *)
HandleFailedUpdateObjectLog(n, g, ts) ==
    LET info == objs[n].info
    IN  /\ <<n, g, ts>> \in failing
        /\ failing' = failing \ {<<n, g, ts>>}
        /\ failed' = failed \cup {<<n, g>>}
        /\ objs' = [objs EXCEPT ![n].info =
                       IF info # NoInfo /\ info.log = g /\ ts >= info.ts THEN NoInfo ELSE @]
        /\ UNCHANGED <<store, msgs, asks, acks, expired, made, now>>

(* ... and HandleFailedOplogs deletes, whatever is stored by then.         *)
DeleteFailedOplog(n, g) ==
    /\ <<n, g>> \in failed
    /\ failed' = failed \ {<<n, g>>}
    /\ SetLog(n, g, NoLog)
    /\ UNCHANGED <<objs, msgs, asks, acks, expired, failing, made, now>>

Next ==
    \/ \E n \in Nodes :
          \/ UpdateObject(n)
          \/ \E m \in msgs : HandleOplog(n, m) \/ HandlePendingOplog(n, m)
          \/ HandleSyncCreateObjectAck(n)
          \/ \E p \in Nodes : HandleSyncCreateObject(p, n)
          \/ \E p \in Nodes, g \in Updates : HandleSyncUpdateObject(p, n, g)
          \/ \E g \in Updates : HandleSyncUpdateObjectAck(n, g)
          \/ \E g \in LogIDs : SyncOplog(n, g)
          \/ \E g \in Updates : ListFailedOplog(n, g)
    \/ \E f \in failing : HandleFailedUpdateObjectLog(f[1], f[2], f[3])
    \/ \E f \in failed : DeleteFailedOplog(f[1], f[2])
    \/ \E g \in Updates : Expire(g)

Spec == Init /\ [][Next]_vars

(* Contents are asked for, answered and taken in.                          *)
SyncContent ==
    \E n \in Nodes :
       \/ \E p \in Nodes : HandleSyncCreateObject(p, n)
       \/ HandleSyncCreateObjectAck(n)
       \/ \E p \in Nodes, g \in Updates : HandleSyncUpdateObject(p, n, g)
       \/ \E g \in Updates : HandleSyncUpdateObjectAck(n, g)

(* Handlers run, a log that was sent is delivered until it is synced (the  *)
(* sync with a connected peer repeats), what is asked for is answered by a *)
(* node that has it, and time passes.                                      *)
Fairness ==
    /\ \A n \in Nodes : WF_vars(\E m \in msgs : HandleOplog(n, m))
    /\ \A n \in Devices : WF_vars(\E m \in msgs : HandlePendingOplog(n, m))
    /\ WF_vars(SyncContent)
    /\ WF_vars(\E n \in Devices, g \in Updates : ListFailedOplog(n, g))
    /\ WF_vars(\E f \in failing : HandleFailedUpdateObjectLog(f[1], f[2], f[3]))
    /\ WF_vars(\E f \in failed : DeleteFailedOplog(f[1], f[2]))
    /\ WF_vars(\E g \in Updates : Expire(g))

FairSpec == Spec /\ Fairness

-----------------------------------------------------------------------------
IsAlive(n, g) == store[n][g] # NoLog /\ store[n][g].mid

(* An update that waits in SyncInfo has its log in the database, where the *)
(* answer with the content looks for it.  Only the expiry, which lists     *)
(* logs before it locks them, can delete a log that became valid meanwhile.*)
WaitingHasLog ==
    \A n \in Nodes :
       objs[n] # NoObj /\ objs[n].info # NoInfo =>
          store[n][objs[n].info.log] # NoLog \/ objs[n].info.log \in expired

(* What a node shows is replaced only by a valid update that is later: no  *)
(* order of logs and contents brings an earlier update back.  The          *)
(* exception is real: where the expiry deleted the log of an update that   *)
(* was applied, another valid copy of the log is handled again, and gives  *)
(* the object its UpdateTS though it may be later than that of an update   *)
(* which waits already (handleUpdateObjectCore).                           *)
AppliedOnlyAdvances ==
    [][\A n \in Nodes :
          objs[n] # NoObj /\ objs'[n].upd # objs[n].upd =>
             /\ objs'[n].ts > objs[n].ts \/ objs[n].upd \in expired
             /\ \E g \in Updates : g = objs'[n].upd /\ IsAlive(n, g)']_vars

ValidTS(g) == {m.o.ut : m \in {c \in msgs : c.g = g /\ c.o.mid}}
Newest == {g \in Updates : /\ ValidTS(g) # {}
                           /\ \A h \in Updates : \A t \in ValidTS(g), u \in ValidTS(h) : u <= t}
Settled(n) ==
    /\ objs[n] # NoObj /\ objs[n].info = NoInfo /\ objs[n].st = Alive
    /\ Newest # {} => objs[n].upd \in Newest

(* A valid copy of an expired log came after the log was taken out of      *)
(* SyncInfo and before it is deleted.                                      *)
ValidFailed == \E f \in failed : IsAlive(f[1], f[2])

(* Every node ends with the valid update that is the latest, or with the   *)
(* object as created, and nothing is left waiting.  The exception is real: *)
(* a valid copy that takes the place of a log about to be deleted inherits *)
(* its IsSync, so it is passed on as older than the object (IsNewer), and  *)
(* when it comes back with that mark it is never applied.                  *)
EventuallySettled == <>[](\A n \in Nodes : Settled(n)) \/ <>ValidFailed

=============================================================================
