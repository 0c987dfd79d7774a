------------------------------ MODULE Persons ------------------------------
(***************************************************************************)
(* The masters and the members of an entity: adding, deleting, transferring *)
(* and migrating them, the handlers of the logs this makes, the masters    *)
(* that the protocol manager caches, and what a node cleans when its own   *)
(* user leaves (service/protocol_{add,create,update,delete,transfer}_      *)
(* person*.go, protocol_*_master*.go, protocol_*_member*.go,               *)
(* protocol_manager_utils_{master,member}.go, protocol_op_check_member*.go).*)
(*                                                                         *)
(* Every user runs one node, of the same name; users without a node exist  *)
(* too.  `made` holds what is fixed when a log is made; its index is both   *)
(* the id of the log and its timestamp.  A node's copy of a log says       *)
(* whether MasterLogID is set (mid), who signed as master (ms), IsSync,     *)
(* and whose signature the log itself bears (sig).  A node may get a log   *)
(* that a member has in any order, again and again: broadcasts are lost    *)
(* and rounds of OplogSync repeat them.                                    *)
(***************************************************************************)
EXTENDS Naturals, Sequences, FiniteSets

CONSTANTS Person, Node, Owner,      \* Owner \in Node made the entity
          MaxMasters,               \* pm.maxMasters
          MaxLogs, MaxExpires       \* bounds

VARIABLES
    made,       \* the logs: [fam, op, obj, to, by, pre]
    db,         \* db[n][f][p]: the person p of the family f at n
    masters,    \* masters[n]: pm.masters, the cache
    newest,     \* newest[n]: newestMasterLogID
    owners,     \* owners[n]: the owner ids of the entity at n
    entity,     \* entity[n]: the status of the entity at n
    log,        \* log[n][l]: the copy of the log l at n
    expires

pvars == <<made, db, masters, newest, owners, entity, log, expires>>

Family == {"Master", "Member"}
LogID == 1 .. MaxLogs

(* types.Status, in its order, as far as persons have it; StatusClass.     *)
StatusPending == 4
StatusAlive == 7
StatusPendingDeleted == 14
StatusPendingTransfer == 16
StatusPendingMigrate == 17
StatusDeleted == 19
StatusTransferred == 21
StatusMigrated == 22

StatusToStatusClass(s) ==
    CASE s = StatusPending -> 2
      [] s = StatusAlive -> 3
      [] s \in {StatusPendingDeleted, StatusPendingTransfer} -> 6
      [] s = StatusPendingMigrate -> 8
      [] s \in {StatusDeleted, StatusTransferred} -> 9
      [] s = StatusMigrated -> 10

NoPerson == [st |-> 0]
NoSync == [log |-> 0]
NoCopy == [mid |-> FALSE, ms |-> {}, sync |-> FALSE, sig |-> "none"]

IsPending(c) == ~c.mid /\ c.ms # {}

-----------------------------------------------------------------------------
(* The handlers work on the view v of a node.  v.err is what the handler   *)
(* returned: "", "newer" (ErrNewerOplog), "error", or "panic".             *)
View(n) == [me |-> n, db |-> db[n], masters |-> masters[n], newest |-> newest[n],
            owners |-> owners[n], entity |-> entity[n], log |-> log[n],
            isSync |-> FALSE, deleteInfo |-> {}, err |-> ""]

Save(n, v) ==
    /\ db' = [db EXCEPT ![n] = v.db] /\ masters' = [masters EXCEPT ![n] = v.masters]
    /\ newest' = [newest EXCEPT ![n] = v.newest] /\ owners' = [owners EXCEPT ![n] = v.owners]
    /\ entity' = [entity EXCEPT ![n] = v.entity] /\ log' = [log EXCEPT ![n] = v.log]

Get(v, f, p) == v.db[f][p]
Put(v, f, p, person) == [v EXCEPT !.db[f][p] = person]
Return(v, err) == [v EXCEPT !.err = err]

AliveMasters(v) == {p \in Person : v.db["Master"][p].st = StatusAlive}

IsMaster(v, p) == p \in v.masters
IsMember(v, p) == v.db["Member"][p].st = StatusAlive

RegisterMaster(v, p) == IF v.db["Master"][p].st # StatusAlive THEN v ELSE [v EXCEPT !.masters = @ \cup {p}]
UnregisterMaster(v, p) == [v EXCEPT !.masters = @ \ {p}]
SetNewestMasterLogID(v, l) == [v EXCEPT !.newest = l]

(* Prestart: the cache is what loadMasters finds alive.                    *)
loadMasters(v) == [v EXCEPT !.masters = AliveMasters(v)]

-----------------------------------------------------------------------------
(* Signing.  A user has one device: what it signs internally it signs as   *)
(* master.                                                                 *)
IsValidOplog(v, ms) == v.masters \subseteq ms

SignOplog(v) == [mid |-> IsValidOplog(v, {v.me}), ms |-> {v.me}, sync |-> FALSE, sig |-> v.me]
ForceSignOplog(v) == [mid |-> TRUE, ms |-> {v.me}, sync |-> FALSE, sig |-> v.me]

InternalSign(v, by, c) ==
    IF c.mid \/ v.me \in c.ms \/ (v.me # by /\ ~IsMaster(v, v.me)) THEN c
    ELSE [c EXCEPT !.ms = @ \cup {v.me}, !.mid = IsValidOplog(v, c.ms \cup {v.me})]

(* Who leaves needs nobody else.                                           *)
SignDeleteOplog(v, p, c) == IF v.me = p /\ Cardinality(c.ms) = 1 THEN [c EXCEPT !.mid = TRUE] ELSE c

(* A transfer needs both sides, unless both are mine.                      *)
checkTransferMasterSign(c, from, to) ==
    IF from \in c.ms /\ to \in c.ms THEN c ELSE [c EXCEPT !.mid = FALSE]

(* myEntity.Sign starts the log anew, with the signature of this node and  *)
(* no master signature.                                                    *)
signTransferMasterOplog(v, by, from, to) ==
    LET c == InternalSign(v, by, [mid |-> FALSE, ms |-> {}, sync |-> FALSE, sig |-> v.me])
    IN  IF ~c.mid THEN c ELSE checkTransferMasterSign(c, from, to)

-----------------------------------------------------------------------------
(* Persons and their SyncInfo.                                             *)
SetNewObjectWithOplog(person, l) ==
    [st |-> StatusAlive, log |-> l, upd |-> IF person = NoPerson THEN 0 ELSE person.upd, ts |-> l, sync |-> NoSync]

SetUpdateObjectWithOplog(person, l) == [person EXCEPT !.st = StatusAlive, !.upd = l, !.ts = l]

SetDeleteObjectWithOplog(person, status, l) ==
    [person EXCEPT !.st = status, !.log = l, !.ts = l, !.sync = NoSync]

SetPendingPersonSyncInfo(person, status, l) == [person EXCEPT !.sync = [log |-> l, st |-> status]]

GetNewestLogID(person) == IF person.st = StatusAlive /\ person.upd # 0 THEN person.upd ELSE person.log

isReplaceOrigSyncPersonInfo(sync, status, l) ==
    LET c == StatusToStatusClass(sync.st)
        class == CASE c = 6 -> 2 [] c = 9 -> 3 [] OTHER -> c
    IN  \/ StatusToStatusClass(status) > class
        \/ StatusToStatusClass(status) = class /\ l < sync.log

(* removeNonSyncOplog, of the log that the SyncInfo waits for.             *)
removeNonSyncOplog(v, l) ==
    CASE v.log[l] = NoCopy -> Return(v, "error")
      [] v.log[l].mid -> [v EXCEPT !.log[l].sync = TRUE]
      [] OTHER -> [v EXCEPT !.log[l] = NoCopy]

(* The SyncInfo of another log gives way to a valid log: its own log goes. *)
ReplaceSyncInfo(v, f, p, status, l, sameToo) ==
    LET sync == Get(v, f, p).sync IN
    IF sync = NoSync \/ ~isReplaceOrigSyncPersonInfo(sync, status, l) \/ (sync.log = l /\ ~sameToo) THEN v
    ELSE removeNonSyncOplog(v, sync.log)

saveNewPerson(v, f, p, l) == [Put(v, f, p, SetNewObjectWithOplog(Get(v, f, p), l)) EXCEPT !.isSync = TRUE]

-----------------------------------------------------------------------------
(* What follows an add.                                                    *)
addLeavesCache(v, p, l) == SetNewestMasterLogID(v, l)
postaddMaster(v, p, l) == RegisterMaster(SetNewestMasterLogID(v, l), p)
postaddMember(v, p, l) == v                     \* peers are in PttPeerSet
postadd(v, f, p, l) == IF f = "Master" THEN postaddMaster(v, p, l) ELSE postaddMember(v, p, l)

HandleCreatePersonLog(v, f, p, l) == postadd(saveNewPerson(v, f, p, l), f, p, l)

handleUpdatePersonLogCore(v, f, p, l) ==
    LET w == ReplaceSyncInfo(v, f, p, StatusAlive, l, TRUE)
    IN  IF w.err # "" THEN w ELSE postadd(saveNewPerson(w, f, p, l), f, p, l)

HandleUpdatePersonLog(v, f, p, l) ==
    LET person == Get(v, f, p) IN
    CASE l < person.ts \/ person.st >= StatusMigrated -> Return(v, "newer")
      [] l >= person.ts /\ person.st = StatusAlive ->
            IF person.ts < l THEN saveNewPerson(v, f, p, l) ELSE Return(v, "newer")
      [] OTHER -> handleUpdatePersonLogCore(v, f, p, l)

(* m is what the log says. *)
handleAddMasterLog(v, m, l) ==
    IF Get(v, "Master", m.obj) = NoPerson THEN HandleCreatePersonLog(v, "Master", m.obj, l)
    ELSE HandleUpdatePersonLog(v, "Master", m.obj, l)
handleAddMemberLog(v, m, l) ==
    IF Get(v, "Member", m.obj) = NoPerson THEN HandleCreatePersonLog(v, "Member", m.obj, l)
    ELSE HandleUpdatePersonLog(v, "Member", m.obj, l)

handleDeletePersonLogCore(v, f, p, l) ==
    LET w == ReplaceSyncInfo(v, f, p, StatusDeleted, l, FALSE)
    IN  IF w.err # "" THEN w
        ELSE [Put(w, f, p, SetDeleteObjectWithOplog(Get(w, f, p), StatusDeleted, l))
                EXCEPT !.isSync = TRUE, !.deleteInfo = {l}]

deleteChecksPreLog(v, f, p, l) ==
    IF Get(v, f, p) = NoPerson \/ Get(v, f, p).log # 0 THEN Return(v, "error") ELSE handleDeletePersonLogCore(v, f, p, l)

HandleDeletePersonLog(v, f, p, l) ==
    LET person == Get(v, f, p) IN
    CASE person = NoPerson -> Return(v, "error")
      [] person # NoPerson /\ (l < person.ts \/ person.st = StatusDeleted \/ person.st >= StatusMigrated) ->
            Return(v, "newer")
      [] OTHER -> handleDeletePersonLogCore(v, f, p, l)

handleDeleteMemberLog(v, m, l) == HandleDeletePersonLog(v, "Member", m.obj, l)

(* The successor: NewMaster or NewMember, or the person that is there.     *)
posttransferUpdatePerson(v, f, to, l) ==
    CASE Get(v, f, to).st = StatusAlive -> v
      [] Get(v, f, to).st >= StatusMigrated -> Return(v, "error")
      [] OTHER -> [Put(v, f, to, SetUpdateObjectWithOplog(Get(v, f, to), l)) EXCEPT !.isSync = TRUE]
posttransferCreatePerson(v, f, to, l) == saveNewPerson(v, f, to, l)
posttransferPerson(v, f, to, l) ==
    IF Get(v, f, to) = NoPerson THEN posttransferCreatePerson(v, f, to, l)
    ELSE posttransferUpdatePerson(v, f, to, l)

postposttransferMaster(v, from, to, l) ==
    RegisterMaster(UnregisterMaster(SetNewestMasterLogID(v, l), from), to)

posttransferMaster(v, from, to, l) ==
    LET w == posttransferPerson(v, "Master", to, l)
    IN  IF w.err # "" THEN v ELSE postposttransferMaster(w, from, to, l)

postmigrateMaster(v, from, to, l) == posttransferMaster(v, from, to, l)

postmigrateMember(v, from, to, l) ==
    LET w == posttransferPerson(v, "Member", to, l)
    IN  CASE w.err # "" -> v
          [] w.err = "" /\ v.me = from -> [w EXCEPT !.owners = (@ \ {from}) \cup {to}]
          [] OTHER -> w

posttransfer(v, f, from, to, status, l) ==
    CASE status = StatusTransferred -> posttransferMaster(v, from, to, l)
      [] status = StatusMigrated /\ f = "Master" -> postmigrateMaster(v, from, to, l)
      [] OTHER -> postmigrateMember(v, from, to, l)

(* The logs of others: handleTransferMasterLog, handleMigrateMasterLog and  *)
(* handleMigrateMemberLog pass an empty PersonOpTransferPerson that nobody *)
(* fills, so there is no successor: its nil id ends the process, after the *)
(* transferred person is stored.                                           *)
handleTransferPersonLogCore(v, f, p, to, status, l) ==
    LET w == ReplaceSyncInfo(v, f, p, status, l, TRUE)
        u == [Put(w, f, p, SetDeleteObjectWithOplog(Get(w, f, p), status, l)) EXCEPT !.isSync = TRUE]
    IN  CASE w.err # "" -> w
          [] w.err = "" /\ to = "nil" -> Return(u, "panic")
          [] OTHER -> posttransfer(u, f, p, to, status, l)

HandleTransferPersonLog(v, f, p, pre, status, l) ==
    LET person == Get(v, f, p) IN
    CASE person = NoPerson -> Return(v, "newer")
      [] person # NoPerson /\ person.log # pre -> Return(v, "error")
      [] person # NoPerson /\ person.log = pre /\ person.st = status -> Return(v, "newer")
      [] OTHER -> handleTransferPersonLogCore(v, f, p, "nil", status, l)

handleTransferMasterLog(v, m, l) == HandleTransferPersonLog(v, "Master", m.obj, m.pre, StatusTransferred, l)
handleMigrateMasterLog(v, m, l) == HandleTransferPersonLog(v, "Master", m.obj, m.pre, StatusMigrated, l)
handleMigrateMemberLog(v, m, l) == HandleTransferPersonLog(v, "Member", m.obj, m.pre, StatusMigrated, l)

processMasterLog(v, m, l) ==
    CASE m.op = "Add" -> handleAddMasterLog(v, m, l)
      [] m.op = "Migrate" -> handleMigrateMasterLog(v, m, l)
      [] m.op = "Transfer" -> handleTransferMasterLog(v, m, l)
processMemberLog(v, m, l) ==
    CASE m.op = "Add" -> handleAddMemberLog(v, m, l)
      [] m.op = "Delete" -> handleDeleteMemberLog(v, m, l)
      [] m.op = "Migrate" -> handleMigrateMemberLog(v, m, l)
processLog(v, l) ==
    IF made[l].fam = "Master" THEN processMasterLog(v, made[l], l) ELSE processMemberLog(v, made[l], l)

-----------------------------------------------------------------------------
(* Pending logs.                                                           *)
handlePendingPersonLogCore(v, f, p, status, l) ==
    LET sync == Get(v, f, p).sync
        w == IF sync = NoSync \/ sync.log = l THEN v ELSE removeNonSyncOplog(v, sync.log)
    IN  IF sync # NoSync /\ ~isReplaceOrigSyncPersonInfo(sync, status, l) THEN Return(v, "error")
        ELSE IF w.err # "" THEN w
        ELSE Put(w, f, p, SetPendingPersonSyncInfo(Get(w, f, p), status, l))

handlePendingUpdatePersonLogCore(v, f, p, l) ==
    [handlePendingPersonLogCore(v, f, p, StatusPending, l) EXCEPT !.isSync = TRUE]
handlePendingDeletePersonLogCore(v, p, l) == handlePendingPersonLogCore(v, "Member", p, StatusPendingDeleted, l)
handlePendingTransferPersonLogCore(v, f, p, status, l) ==
    handlePendingPersonLogCore(v, f, p,
        IF status = StatusTransferred THEN StatusPendingTransfer ELSE StatusPendingMigrate, l)

HandlePendingUpdatePersonLog(v, f, p, pre, l) ==
    LET person == Get(v, f, p) IN
    IF person = NoPerson \/ person.log # pre THEN Return(v, "error")
    ELSE IF person.st = StatusAlive \/ person.st >= StatusMigrated THEN Return(v, "newer")
    ELSE handlePendingUpdatePersonLogCore(v, f, p, l)

HandlePendingDeletePersonLog(v, p, pre, l) ==
    LET person == Get(v, "Member", p) IN
    IF person = NoPerson \/ (l >= person.ts /\ person.log # pre) THEN Return(v, "error")
    ELSE IF l < person.ts \/ person.st >= StatusMigrated THEN Return(v, "newer")
    ELSE handlePendingDeletePersonLogCore(v, p, l)

HandlePendingTransferPersonLog(v, f, p, pre, status, l) ==
    LET person == Get(v, f, p) IN
    IF person = NoPerson \/ person.log # pre THEN Return(v, "error")
    ELSE IF StatusToStatusClass(person.st) = StatusToStatusClass(status) THEN Return(v, "newer")
    ELSE handlePendingTransferPersonLogCore(v, f, p, status, l)

(* A person that is not known cannot be added by a pending log             *)
(* (ErrNotImplemented).                                                    *)
handlePendingAddMasterLog(v, m, l) == HandlePendingUpdatePersonLog(v, "Master", m.obj, m.pre, l)
handlePendingAddMemberLog(v, m, l) == HandlePendingUpdatePersonLog(v, "Member", m.obj, m.pre, l)
handlePendingDeleteMemberLog(v, m, l) == HandlePendingDeletePersonLog(v, m.obj, m.pre, l)
handlePendingTransferMasterLog(v, m, l) ==
    HandlePendingTransferPersonLog(v, "Master", m.obj, m.pre, StatusTransferred, l)

(* A migration is forced, thus never pending. *)
processPendingMasterLog(v, m, l) ==
    CASE m.op = "Add" -> handlePendingAddMasterLog(v, m, l)
      [] m.op = "Transfer" -> handlePendingTransferMasterLog(v, m, l)
processPendingMemberLog(v, m, l) ==
    CASE m.op = "Add" -> handlePendingAddMemberLog(v, m, l)
      [] m.op = "Delete" -> handlePendingDeleteMemberLog(v, m, l)
processPendingLog(v, l) ==
    IF made[l].fam = "Master" THEN processPendingMasterLog(v, made[l], l)
    ELSE processPendingMemberLog(v, made[l], l)

-----------------------------------------------------------------------------
(* Leaving.  DefaultPostdeleteEntity cleans the masters, the members but   *)
(* mine, and the logs but my member log.                                   *)
CleanMaster(v) == [v EXCEPT !.masters = {}, !.db["Master"] = [p \in Person |-> NoPerson]]
CleanMember(v) == [v EXCEPT !.db["Member"] = [p \in Person |-> IF p = v.me THEN @[p] ELSE NoPerson]]
CleanOplog(v, mine) == [v EXCEPT !.log = [l \in LogID |-> IF l = mine THEN @[l] ELSE NoCopy]]
DefaultPostdeleteEntity(v, l) == CleanOplog(CleanMember(CleanMaster(v)), l)

postdeleteMember(v, p, l) ==
    IF p = v.me THEN DefaultPostdeleteEntity([v EXCEPT !.entity = StatusDeleted], l) ELSE v

(* postprocessMemberOplogs, for valid logs.                                *)
postprocessMemberOplogs(v) ==
    IF v.deleteInfo = {} THEN v
    ELSE LET l == CHOOSE x \in v.deleteInfo : TRUE IN postdeleteMember(v, made[l].obj, l)

-----------------------------------------------------------------------------
(* handleOplog with SelectExisting: a valid log that is synced is done, a  *)
(* pending copy is replaced before the log is processed.  An error leaves  *)
(* the log out; a panic leaves what is stored, and the node starts again.  *)
handleOplog(v, l, c) ==
    LET orig == v.log[l]
        v0 == IF IsPending(orig) THEN [v EXCEPT !.log[l] = [c EXCEPT !.sync = orig.sync]] ELSE v
        w == processLog(v0, l)
        isSync == w.err = "newer" \/ w.isSync \/ orig.sync
    IN  CASE orig.mid /\ orig.sync -> v
          [] ~(orig.mid /\ orig.sync) /\ w.err = "error" -> v0
          [] ~(orig.mid /\ orig.sync) /\ w.err = "panic" -> loadMasters(w)
          [] OTHER -> [w EXCEPT !.log[l] = [(IF orig.mid THEN orig ELSE c) EXCEPT !.sync = isSync]]

HandleOplogs(v, l, c) == postprocessMemberOplogs(handleOplog(v, l, c))

(* A pending copy, integrated with the one that is there.  signed(cc) is   *)
(* the copy that the node signs when it could handle it.                   *)
handlePending(v, l, c, signed(_)) ==
    LET orig == v.log[l]
        ms == c.ms \cup orig.ms
        cc == [c EXCEPT !.ms = ms, !.mid = orig.mid \/ (orig # NoCopy /\ IsValidOplog(v, ms)), !.sync = orig.sync]
        w == IF cc.mid THEN processLog(v, l) ELSE processPendingLog(v, l)
    IN  CASE cc.sync -> v
          [] ~cc.sync /\ w.err = "panic" -> loadMasters(w)
          [] ~cc.sync /\ w.err \in {"newer", "error"} -> v
          [] ~cc.sync /\ w.err = "" /\ cc.mid -> w
          [] OTHER -> [w EXCEPT !.log[l] = [signed(cc) EXCEPT !.sync = w.isSync \/ orig.sync]]

handlePendingMasterOplog(v, l, c) ==
    LET signed(cc) == IF made[l].op = "Transfer" THEN signTransferMasterOplog(v, made[l].by, made[l].obj, made[l].to)
                      ELSE InternalSign(v, made[l].by, cc)
    IN  handlePending(v, l, c, signed)

handlePendingOplog(v, l, c) ==
    LET signed(cc) == IF made[l].op = "Delete" THEN SignDeleteOplog(v, made[l].obj, InternalSign(v, made[l].by, cc))
                      ELSE InternalSign(v, made[l].by, cc)
    IN  handlePending(v, l, c, signed)

-----------------------------------------------------------------------------
(* Init: Owner ran CreateEntity, with AddMaster and AddMember, by force.   *)
Added(f, p) == [fam |-> f, op |-> "Add", obj |-> p, to |-> "nil", by |-> p, pre |-> 0]
Created(l) == [st |-> StatusAlive, log |-> l, upd |-> 0, ts |-> l, sync |-> NoSync]

Init ==
    /\ made = <<Added("Master", Owner), Added("Member", Owner)>>
    /\ db = [n \in Node |-> [f \in Family |-> [p \in Person |->
                IF n = Owner /\ p = Owner THEN Created(IF f = "Master" THEN 1 ELSE 2) ELSE NoPerson]]]
    /\ masters = [n \in Node |-> IF n = Owner THEN {Owner} ELSE {}]
    /\ newest = [n \in Node |-> IF n = Owner THEN 1 ELSE 0]
    /\ owners = [n \in Node |-> {n}]
    /\ entity = [n \in Node |-> StatusAlive]
    /\ log = [n \in Node |-> [l \in LogID |->
                IF n = Owner /\ l <= 2 THEN [mid |-> TRUE, ms |-> {Owner}, sync |-> TRUE, sig |-> Owner] ELSE NoCopy]]
    /\ expires = 0

(* A log that n makes: l is its id, c the signed copy.                     *)
Make(n, f, op, p, to, pre) ==
    /\ Len(made) < MaxLogs
    /\ made' = Append(made, [fam |-> f, op |-> op, obj |-> p, to |-> to, by |-> n, pre |-> pre])

Keep(v, l, c) == [v EXCEPT !.log[l] = [c EXCEPT !.sync = v.isSync]]

(* CreatePerson, by force, for somebody new; UpdatePerson for somebody who *)
(* was there.                                                              *)
CreatePerson(n, f, p) ==
    LET l == Len(made) + 1 IN
    /\ Get(View(n), f, p) = NoPerson
    /\ Save(n, Keep(HandleCreatePersonLog(View(n), f, p, l), l, ForceSignOplog(View(n))))

UpdatePerson(n, f, p) ==
    LET l == Len(made) + 1
        person == Get(View(n), f, p)
        c == SignOplog(View(n))
    IN  /\ person.st > StatusAlive /\ person.st < StatusMigrated /\ person.sync = NoSync
        /\ Save(n, Keep(IF c.mid THEN handleUpdatePersonLogCore(View(n), f, p, l)
                        ELSE handlePendingUpdatePersonLogCore(View(n), f, p, l), l, c))

(* isForce skips the checks of the entity.                                 *)
AddPerson(n, f, p, isForce, to) ==
    /\ isForce \/ (entity[n] = StatusAlive /\ IsMaster(View(n), n))
    /\ Make(n, f, "Add", p, to, 0)
    /\ CreatePerson(n, f, p) \/ UpdatePerson(n, f, p)
    /\ UNCHANGED expires

(* User q is the one that n's user became, or is to become.                *)
Successor(n, q) == \E l \in 1 .. Len(made) : made[l].op = "Add" /\ made[l].obj = q /\ made[l].to = n

AddMaster(n, p) ==
    Cardinality(masters[n]) < MaxMasters /\ ~Successor(n, p) /\ AddPerson(n, "Master", p, FALSE, "nil")
AddMember(n, p) == ~Successor(n, p) /\ AddPerson(n, "Member", p, FALSE, "nil")

(* DeletePerson, by a master or by the member; no PreLogID is set.         *)
DeletePerson(n, f, p) ==
    LET v == View(n)
        l == Len(made) + 1
        c == SignDeleteOplog(v, p, SignOplog(v))
    IN  /\ entity[n] = StatusAlive /\ (IsMaster(v, n) \/ n = p)
        /\ Get(v, f, p) # NoPerson /\ Get(v, f, p).st < StatusDeleted
        /\ Make(n, f, "Delete", p, "nil", 0)
        /\ \E w \in {IF c.mid THEN handleDeletePersonLogCore(v, f, p, l) ELSE handlePendingDeletePersonLogCore(v, p, l)} :
              /\ w.err = ""
              /\ Save(n, IF c.mid THEN postdeleteMember(Keep(w, l, c), p, l) ELSE Keep(w, l, c))
        /\ UNCHANGED expires

DeleteMember(n, p) == DeletePerson(n, "Member", p)

(* TransferPerson, with the PreLogID of the person.                        *)
TransferPerson(n, f, op, status, from, to, c) ==
    LET v == View(n)
        l == Len(made) + 1
        person == Get(v, f, from)
    IN  /\ person # NoPerson /\ StatusToStatusClass(person.st) < StatusToStatusClass(status)
        /\ Make(n, f, op, from, to, person.log)
        /\ \E w \in {IF c.mid THEN handleTransferPersonLogCore(v, f, from, to, status, l)
                     ELSE handlePendingTransferPersonLogCore(v, f, from, status, l)} :
              w.err = "" /\ Save(n, Keep(w, l, c))
        /\ UNCHANGED expires

TransferMaster(n, to) ==
    LET v == View(n) IN
    /\ IsMaster(v, n) /\ IsMember(v, to) /\ to # n
    /\ TransferPerson(n, "Master", "Transfer", StatusTransferred, n, to, signTransferMasterOplog(v, n, n, to))

(* MigrateMe, from n to the new user `to`: in every entity that n owns the *)
(* new user becomes a member, then the master and the member migrate.      *)
MigrateMe(n, to) ==
    /\ to \notin Node /\ n \in owners[n] /\ Get(View(n), "Member", n) # NoPerson
    /\ \A f \in Family : Get(View(n), f, to) = NoPerson
    /\ AddPerson(n, "Member", to, TRUE, n)

MigrateMaster(n, to) ==
    LET v == View(n) IN
    /\ Successor(n, to) /\ n \in owners[n] /\ IsMaster(v, n)
    /\ TransferPerson(n, "Master", "Migrate", StatusMigrated, n, to, ForceSignOplog(v))

MigrateMember(n, to) ==
    LET v == View(n) IN
    /\ Successor(n, to) /\ n \in owners[n] /\ ~IsMaster(v, n)
    /\ TransferPerson(n, "Member", "Migrate", StatusMigrated, n, to, ForceSignOplog(v))

(* What n may get from m: m sends to its members, and only what it would   *)
(* send; Verify refuses a log that bears the signature of another user     *)
(* than its creator, checkPreOplog one whose PreLogID is not valid here.   *)
Delivers(m, n, l) ==
    /\ m # n /\ entity[m] = StatusAlive /\ entity[n] = StatusAlive
    /\ IsMember(View(m), n) /\ l <= Len(made) /\ log[m][l].sig = made[l].by
    /\ made[l].pre # 0 => log[n][made[l].pre].mid

HandleValidOplog(n, l) ==
    \E m \in Node :
        /\ Delivers(m, n, l) /\ log[m][l].mid /\ log[m][l].sync
        /\ \E v \in {HandleOplogs(View(n), l, [log[m][l] EXCEPT !.sync = FALSE])} : Save(n, v)
        /\ UNCHANGED <<made, expires>>

HandlePendingOplog(n, l) ==
    \E m \in Node :
        /\ Delivers(m, n, l) /\ IsPending(log[m][l])
        /\ \E v \in {IF made[l].fam = "Master" THEN handlePendingMasterOplog(View(n), l, [log[m][l] EXCEPT !.sync = FALSE])
                     ELSE handlePendingOplog(View(n), l, [log[m][l] EXCEPT !.sync = FALSE])} : Save(n, v)
        /\ UNCHANGED <<made, expires>>

(* HandleOpCheckMember at m, with the member logs that n has of itself and *)
(* of m, and HandleOpCheckMemberAck at n.  m may have left.                *)
MemberLog(n, p) ==
    LET person == db[n]["Member"][p] IN IF person = NoPerson THEN 0 ELSE GetNewestLogID(person)

HandleOpCheckMemberAck(m, l) == HandleOplogs(View(m), l, ForceSignOplog([me |-> made[l].by]))

OpCheckMember(n, m) ==
    LET mine == MemberLog(n, n)
        theirs == MemberLog(n, m)
        own == MemberLog(m, m)
    IN  /\ n # m /\ mine # 0 /\ theirs # 0 /\ own # 0
        /\ \/ /\ entity[m] = StatusAlive /\ own < theirs /\ log[n][theirs].mid
              /\ Save(m, HandleOpCheckMemberAck(m, theirs))
           \/ /\ theirs < own /\ log[m][own].mid
              /\ entity[n] = StatusAlive
              /\ Save(n, HandleOpCheckMemberAck(n, own))
        /\ UNCHANGED <<made, expires>>

HandleFailedPersonLog(v, f, p, l) ==
    LET person == Get(v, f, p) IN
    IF person = NoPerson \/ person.sync.log # l THEN v ELSE Put(v, f, p, [person EXCEPT !.sync = NoSync])

HandleFailedMasterOplog(v, m, l) == IF m.op = "Add" THEN v ELSE HandleFailedPersonLog(v, "Master", m.obj, l)
HandleFailedMemberOplog(v, m, l) == IF m.op = "Add" THEN v ELSE HandleFailedPersonLog(v, "Member", m.obj, l)

HandleFailedOplog(n, l) ==
    /\ expires < MaxExpires /\ entity[n] = StatusAlive
    /\ IsPending(log[n][l])
    /\ expires' = expires + 1
    /\ \E v \in {IF made[l].fam = "Master" THEN HandleFailedMasterOplog(View(n), made[l], l)
                 ELSE HandleFailedMemberOplog(View(n), made[l], l)} :
          Save(n, IF made[l].op = "Add" THEN v ELSE [v EXCEPT !.log[l] = NoCopy])
    /\ UNCHANGED made

Next ==
    \E n \in Node :
        \/ \E p \in Person : \/ AddMaster(n, p) \/ AddMember(n, p) \/ DeleteMember(n, p)
                             \/ TransferMaster(n, p) \/ MigrateMe(n, p) \/ MigrateMaster(n, p) \/ MigrateMember(n, p)
        \/ \E l \in LogID : HandleValidOplog(n, l) \/ HandlePendingOplog(n, l) \/ HandleFailedOplog(n, l)
        \/ \E m \in Node : OpCheckMember(n, m)

(* The rounds of OplogSync go on: what a member has, the others get.  The   *)
(* members check each other when the op key of one is unknown to the other, *)
(* which is what a node that left answers.                                 *)
Spec ==
    /\ Init /\ [][Next]_pvars
    /\ \A n \in Node : /\ WF_pvars(\E l \in LogID : HandleValidOplog(n, l))
                       /\ WF_pvars(\E m \in Node : entity[m] = StatusDeleted /\ OpCheckMember(n, m))

-----------------------------------------------------------------------------

(* The masters in the cache, who decide which logs are valid, are the      *)
(* masters alive in the database after every handler: a restart, which     *)
(* loads the cache from the database, changes nothing.                     *)
CacheMatchesDB == \A n \in Node : masters[n] = AliveMasters(View(n))

(* Persons that nobody transferred and that were deleted at most once:     *)
(* a transfer is not completed at other nodes, and a second delete does    *)
(* not renew the timestamp of a deleted person.                            *)
Plain(f, p) ==
    /\ \A l \in 1 .. Len(made) : made[l].fam = f /\ p \in {made[l].obj, made[l].to} => made[l].op \in {"Add", "Delete"}
    /\ Cardinality({l \in 1 .. Len(made) : made[l].fam = f /\ made[l].obj = p /\ made[l].op = "Delete"}) <= 1

(* Members who have each other as members come to agree about a person,    *)
(* by the rounds of OplogSync.                                             *)
MembersAgree ==
    <>[](\A n, m \in Node : IsMember(View(n), m) /\ IsMember(View(m), n) =>
            \A f \in Family, p \in Person :
                Plain(f, p) /\ Plain("Member", n) /\ Plain("Member", m) => db[n][f][p].st = db[m][f][p].st)

=============================================================================
