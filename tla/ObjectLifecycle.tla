--------------------------- MODULE ObjectLifecycle ---------------------------
(***************************************************************************)
(* The life of an object (a user name, a message with its blocks, an       *)
(* operation key ...) at two nodes of an entity: CreateObject and          *)
(* DeleteObject, the handlers of their logs, valid or pending, the content *)
(* that is asked for and comes later, and the logs that expire             *)
(* (service/protocol_create_object*.go, protocol_delete_object*.go,        *)
(* protocol_sync_create_object*.go, protocol_sync_block.go,                *)
(* protocol_sync_create_block_ack.go, protocol_failed_*_object_log.go,     *)
(* protocol_set_newest_*_object_log.go).  Updates are in ObjectUpdate.     *)
(*                                                                         *)
(* The creator of the object is Creator; either node may delete it.  The   *)
(* logs are "C" and "D".  A log is valid when `need` nodes have signed it: *)
(* one, or both (OplogConsensus is about how).  A round of OplogSync sends *)
(* the valid logs of which the other has no leaf, in one message.          *)
(***************************************************************************)
EXTENDS Naturals, Sequences, FiniteSets

CONSTANTS Node, Creator,
          Blocks,                           \* the blocks of the content
          MaxQueue, MaxDrops, MaxExpires    \* bounds

VARIABLES
    need,       \* the signatures that a log needs
    obj,        \* obj[n]: the object at n
    blk,        \* blk[n]: the blocks stored at n
    log,        \* log[n][l]: the log l at n
    delBy,      \* CreatorID and PreLogID of "D", once it is made
    posts,      \* posts[n]: how often postcreate has run at n
    chan,       \* chan[n]: the messages on the way to n
    drops, expires

ovars == <<need, obj, blk, log, delBy, posts, chan, drops, expires>>

Log == {"C", "D"}
Peer(n) == CHOOSE m \in Node : m # n

(* types.Status, as far as objects have it.                                *)
StatusInternalSync == 1
StatusPending == 2
StatusAlive == 3
StatusFailed == 4
StatusDeleted == 5

NoObj == [status |-> 0]
NoLog == [status |-> 0, sync |-> FALSE]
NoDel == [by |-> "none", pre |-> FALSE]

(* The leaves of the merkle tree: SaveCore writes one for a log that is    *)
(* valid and IsSync.                                                       *)
Leaves(n) == {l \in Log : log[n][l] = [status |-> StatusAlive, sync |-> TRUE]}

-----------------------------------------------------------------------------
(* The handlers change the view v of a node: its object, blocks and logs,  *)
(* what it will ask for (the ProcessInfo) and which logs it broadcasts.    *)
View(n) == [me |-> n, obj |-> obj[n], blk |-> blk[n], log |-> log[n], posts |-> posts[n],
            ask |-> FALSE, cast |-> {}, newer |-> FALSE, skip |-> FALSE, sync |-> FALSE]

Save(n, v) ==
    /\ obj' = [obj EXCEPT ![n] = v.obj]
    /\ blk' = [blk EXCEPT ![n] = v.blk]
    /\ log' = [log EXCEPT ![n] = v.log]
    /\ posts' = [posts EXCEPT ![n] = v.posts]

(* BlockInfo.GetIsAllGood *)
BlocksAllGood(o) == o.isGood = Blocks

ResetIsGood(o) == [o EXCEPT !.isGood = {}]

CheckIsGoodOnly(o) == [o EXCEPT !.all = o.all \/ o.good]

CheckIsAllGood(o) == [o EXCEPT !.all = o.all \/ (o.good /\ BlocksAllGood(o))]

NewObjectWithOplog == [status |-> StatusInternalSync, logID |-> "C", good |-> FALSE, isGood |-> {},
                       all |-> FALSE, syncInfo |-> FALSE]

SetNewObjectWithOplog(o, status) == [o EXCEPT !.status = status, !.logID = "C"]

SetFailedObjectWithOplog(o) == [o EXCEPT !.status = StatusFailed, !.logID = "nil", !.syncInfo = FALSE]

(* With RemoveMeta, which drops the BlockInfo.                             *)
SetDeleteObjectWithOplog(o) ==
    [o EXCEPT !.status = StatusDeleted, !.logID = "D", !.isGood = {}, !.syncInfo = FALSE]

removeBlockAndMediaInfoByBlockInfo(v) == [v EXCEPT !.blk = {}]

(* shrinkBlocks and saveBlocks: only blocks that are not good yet are      *)
(* stored and marked.                                                      *)
saveBlocks(v, new) == [v EXCEPT !.obj = [v.obj EXCEPT !.isGood = @ \cup new], !.blk = @ \cup new]

(* Only an object that is all good takes the status of its log.            *)
saveNewObjectWithOplog(v, status) ==
    IF ~v.obj.all THEN v
    ELSE [v EXCEPT !.obj = SetNewObjectWithOplog(v.obj, status), !.sync = TRUE,
                   !.posts = IF status # StatusAlive THEN @ ELSE @ + 1]

(* isNewer: the log was superseded where it came from, its content is not  *)
(* to be had.                                                              *)
handleCreateObjectNewLog(v, isNewer) == [v EXCEPT !.obj = NewObjectWithOplog, !.ask = ~isNewer]

handleCreateObjectSameLog(v, status, isNewer) ==
    CASE v.obj.status = StatusInternalSync -> [v EXCEPT !.ask = ~isNewer]
      [] v.obj.status # StatusInternalSync /\ status <= v.obj.status -> [v EXCEPT !.newer = TRUE]
      [] OTHER -> saveNewObjectWithOplog(v, status)

handleCreateObjectLogCore(v, status, isNewer) ==
    CASE v.obj = NoObj -> handleCreateObjectNewLog(v, isNewer)
      [] v.obj.status = StatusFailed /\ status = StatusAlive ->
            handleCreateObjectNewLog(removeBlockAndMediaInfoByBlockInfo(v), isNewer)
      [] v.obj.status \notin {0, StatusFailed} /\ v.obj.logID = "C" ->
            handleCreateObjectSameLog(v, status, isNewer)
      [] OTHER -> [v EXCEPT !.newer = TRUE]

saveDeleteObjectWithOplog(v) == [v EXCEPT !.obj = SetDeleteObjectWithOplog(v.obj), !.sync = TRUE]

handleDeleteObjectLogCore(v) ==
    LET w == removeBlockAndMediaInfoByBlockInfo(v) IN
    IF v.obj.status < StatusAlive /\ delBy.by # v.me
    THEN [w EXCEPT !.obj = NoObj, !.skip = TRUE]
    ELSE saveDeleteObjectWithOplog(w)

deleteOnlyPending(v) ==
    IF v.obj = NoObj \/ v.obj.status >= StatusAlive THEN [v EXCEPT !.newer = TRUE]
    ELSE handleDeleteObjectLogCore(v)

HandleDeleteObjectLog(v) ==
    IF v.obj = NoObj \/ v.obj.status >= StatusDeleted THEN [v EXCEPT !.newer = TRUE]
    ELSE handleDeleteObjectLogCore(v)

(* A SyncInfo of the same log is not replaced (isReplaceOrigSyncInfo): the *)
(* log is pending already.                                                 *)
HandlePendingDeleteObjectLog(v) ==
    IF v.obj = NoObj \/ v.obj.status = StatusDeleted \/ v.obj.syncInfo THEN [v EXCEPT !.skip = TRUE]
    ELSE [v EXCEPT !.obj = [v.obj EXCEPT !.syncInfo = TRUE]]

processLog(v, l, isNewer) ==
    IF l = "C" THEN handleCreateObjectLogCore(v, StatusAlive, isNewer) ELSE HandleDeleteObjectLog(v)

(* handleOplog, for a valid log.  SelectExisting: a log that is synced is  *)
(* done; a pending one is replaced at once.                                *)
handleOplog(v, l, isNewer) ==
    LET orig == v.log[l]
        v0 == [v EXCEPT !.newer = FALSE, !.skip = FALSE, !.sync = FALSE,
                        !.log[l] = IF orig.status = StatusPending
                                   THEN [status |-> StatusAlive, sync |-> orig.sync] ELSE @]
        w == processLog(v0, l, isNewer)
    IN  CASE orig = [status |-> StatusAlive, sync |-> TRUE] -> v
          [] orig # [status |-> StatusAlive, sync |-> TRUE] /\ w.skip -> w
          [] OTHER -> [w EXCEPT !.log[l] = [status |-> StatusAlive,
                                            sync |-> w.newer \/ w.sync \/ orig.sync],
                                !.cast = IF w.sync THEN @ \cup {l} ELSE @]

(* InternalSign: the signature of this node beside the one of the author.  *)
Signed == IF need <= 2 THEN StatusAlive ELSE StatusPending

(* handlePendingOplog.  A log that turns out to be valid already is        *)
(* processed and not saved; a pending create is signed when its content is *)
(* there, a pending delete at once.                                        *)
handlePendingOplog(v, l) ==
    LET orig == v.log[l]
        v0 == [v EXCEPT !.newer = FALSE, !.skip = FALSE, !.sync = FALSE]
        w == IF orig.status = StatusAlive THEN processLog(v0, l, FALSE)
             ELSE IF l = "C" THEN handleCreateObjectLogCore(v0, StatusPending, FALSE)
             ELSE HandlePendingDeleteObjectLog(v0)
        isToSign == IF l = "C" THEN w.sync ELSE TRUE
    IN  CASE orig.sync -> v
          [] ~orig.sync /\ orig.status = StatusAlive -> [w EXCEPT !.cast = @ \cup {l}]
          [] ~orig.sync /\ orig.status # StatusAlive /\ (w.skip \/ w.newer) -> [w EXCEPT !.log = v.log]
          [] OTHER -> [w EXCEPT !.log[l] = [status |-> IF isToSign THEN Signed ELSE StatusPending,
                                            sync |-> w.sync],
                                !.cast = IF isToSign THEN @ \cup {l} ELSE @]

(* preprocessOplogs with checkPreOplog: a delete of an alive object comes  *)
(* after its create log, which is valid.                                   *)
Usable(n, S) == IF "D" \in S /\ delBy.pre /\ log[n]["C"].status # StatusAlive /\ "C" \notin S
                THEN S \ {"D"} ELSE S

-----------------------------------------------------------------------------
Handle(n, type) == chan[n] # <<>> /\ Head(chan[n]).type = type

(* postprocess: ask for the content, then for its blocks, and broadcast.   *)
Postprocess(v) ==
    (IF v.ask THEN <<[type |-> "SyncCreate"]>> ELSE <<>>)
    \o (IF v.ask /\ Blocks # {} THEN <<[type |-> "SyncBlock"]>> ELSE <<>>)
    \o (LET A == {l \in v.cast : v.log[l].status = StatusAlive}
            P == {l \in v.cast : v.log[l].status = StatusPending}
        IN  (IF A # {} THEN <<[type |-> "AddOplogs", logs |-> A, newer |-> {}]>> ELSE <<>>)
            \o (IF P # {} THEN <<[type |-> "AddPendingOplogs", logs |-> P]>> ELSE <<>>))

Reply(n, msgs) == chan' = [chan EXCEPT ![n] = Tail(@), ![Peer(n)] = @ \o msgs]
Send(n, msgs) == chan' = [chan EXCEPT ![Peer(n)] = @ \o msgs]
Quiet == \A n \in Node : Len(chan[n]) < MaxQueue

Init ==
    /\ need \in {1, 2}
    /\ obj = [n \in Node |-> NoObj] /\ blk = [n \in Node |-> {}]
    /\ log = [n \in Node |-> [l \in Log |-> NoLog]]
    /\ delBy = NoDel /\ posts = [n \in Node |-> 0]
    /\ chan = [n \in Node |-> <<>>] /\ drops = 0 /\ expires = 0

(* createObjectCore: the content and its blocks are there from the start.  *)
CreateObject ==
    LET n == Creator
        status == IF need = 1 THEN StatusAlive ELSE StatusPending
        v == saveNewObjectWithOplog(
                [View(n) EXCEPT !.obj = [NewObjectWithOplog EXCEPT !.good = TRUE, !.all = TRUE,
                                                                   !.isGood = Blocks],
                                !.blk = Blocks],
                status)
        w == [v EXCEPT !.log["C"] = [status |-> status, sync |-> TRUE], !.cast = {"C"}]
    IN  /\ obj[n] = NoObj /\ \A m \in Node : log[m] = [l \in Log |-> NoLog]
        /\ Save(n, w) /\ Send(n, Postprocess(w))
        /\ UNCHANGED <<need, delBy, drops, expires>>

(* DeleteObject, by a node that has the object, whatever its state.        *)
DeleteObject(n) ==
    LET status == IF need = 1 THEN StatusAlive ELSE StatusPending
        v == [View(n) EXCEPT !.cast = {"D"}]
    IN  /\ delBy = NoDel /\ obj[n] # NoObj /\ obj[n].status < StatusDeleted
        /\ delBy' = [by |-> n, pre |-> obj[n].status = StatusAlive]
        /\ \E w \in {IF status = StatusAlive
                     THEN [saveDeleteObjectWithOplog(removeBlockAndMediaInfoByBlockInfo(v))
                              EXCEPT !.log["D"] = [status |-> StatusAlive, sync |-> TRUE]]
                     ELSE [v EXCEPT !.obj = [v.obj EXCEPT !.syncInfo = TRUE],
                                    !.log["D"] = [status |-> StatusPending, sync |-> FALSE]]} :
              Save(n, w) /\ Send(n, Postprocess(w))
        /\ UNCHANGED <<need, drops, expires>>

HandleOplogs(n) ==
    /\ Handle(n, "AddOplogs")
    /\ \E m \in {Head(chan[n])} :
       \E S \in {Usable(n, m.logs)} :
       \E v \in {IF "C" \in S THEN handleOplog(View(n), "C", "C" \in m.newer) ELSE View(n)} :
       \E w \in {IF "D" \in S THEN handleOplog(v, "D", FALSE) ELSE v} :
          Save(n, w) /\ Reply(n, Postprocess(w))
    /\ UNCHANGED <<need, delBy, drops, expires>>

HandlePendingOplogs(n) ==
    /\ Handle(n, "AddPendingOplogs")
    /\ \E m \in {Head(chan[n])} :
       \E S \in {Usable(n, m.logs)} :
       \E v \in {IF "C" \in S THEN handlePendingOplog(View(n), "C") ELSE View(n)} :
       \E w \in {IF "D" \in S THEN handlePendingOplog(v, "D") ELSE v} :
          Save(n, w) /\ Reply(n, Postprocess(w))
    /\ UNCHANGED <<need, delBy, drops, expires>>

(* HandleSyncCreateObject: only the content of the create log is sent.     *)
HandleSyncCreateObject(n) ==
    /\ Handle(n, "SyncCreate")
    /\ Reply(n, IF obj[n] = NoObj \/ obj[n].status = StatusInternalSync \/ obj[n].logID # "C"
                THEN <<>> ELSE <<[type |-> "SyncCreateAck"]>>)
    /\ UNCHANGED <<need, obj, blk, log, delBy, posts, drops, expires>>

HandleSyncBlock(n) ==
    /\ Handle(n, "SyncBlock")
    /\ Reply(n, IF obj[n] = NoObj \/ obj[n].status \in {StatusInternalSync, StatusDeleted} \/ blk[n] = {}
                THEN <<>> ELSE <<[type |-> "SyncBlockAck", blocks |-> blk[n]]>>)
    /\ UNCHANGED <<need, obj, blk, log, delBy, posts, drops, expires>>

syncCreateAckSaveOplog(v) ==
    LET status == IF v.log["C"].status = StatusAlive THEN StatusAlive ELSE Signed
        w == [v EXCEPT !.log["C"] = [status |-> IF v.sync THEN status ELSE @.status, sync |-> v.sync],
                       !.cast = IF v.sync /\ v.log["C"].status = StatusPending THEN {"C"} ELSE {}]
    IN  IF ~v.sync \/ v.obj.status = StatusAlive \/ w.log["C"].status < StatusAlive THEN w
        ELSE saveNewObjectWithOplog(w, w.log["C"].status)

(* HandleSyncCreateObjectAck.  updateCreateObject replaces the BlockInfo,  *)
(* with none of its blocks marked good.                                    *)
HandleSyncCreateObjectAck(n) ==
    /\ Handle(n, "SyncCreateAck")
    /\ \E v \in {View(n)} :
       \E w \in {IF v.log["C"] = NoLog \/ v.obj = NoObj \/ v.log["C"].sync THEN v
                 ELSE IF v.obj.good
                 THEN IF v.obj.all THEN syncCreateAckSaveOplog(v) ELSE v
                 ELSE IF v.obj.logID # "C" THEN syncCreateAckSaveOplog([v EXCEPT !.sync = TRUE])
                 ELSE LET u == [v EXCEPT !.obj = CheckIsAllGood([ResetIsGood(v.obj) EXCEPT !.good = TRUE])] IN
                      IF ~u.obj.all THEN u
                      ELSE syncCreateAckSaveOplog(saveNewObjectWithOplog(u, v.log["C"].status))} :
          Save(n, w) /\ Reply(n, Postprocess(w))
    /\ UNCHANGED <<need, delBy, drops, expires>>

HandleSyncCreateBlockAck(n) ==
    /\ Handle(n, "SyncBlockAck")
    /\ \E v \in {View(n)}, new \in {Head(chan[n]).blocks} :
       \E w \in {IF v.obj = NoObj \/ v.obj.status = StatusDeleted \/ v.obj.all \/ new \subseteq v.obj.isGood
                 THEN v
                 ELSE LET w == saveBlocks(v, new)
                          u == [w EXCEPT !.obj = CheckIsAllGood(w.obj)]
                      IN  IF ~u.obj.all \/ v.log["C"] = NoLog THEN u
                          ELSE syncCreateAckSaveOplog(saveNewObjectWithOplog(u, v.log["C"].status))} :
          Save(n, w) /\ Reply(n, Postprocess(w))
    /\ UNCHANGED <<need, delBy, drops, expires>>

(* A round sends the valid logs the other has no leaf for.  SetNewestX:    *)
(* a create log is newer when the object is gone or has another log.       *)
SetNewestCreateObjectLog(n) == obj[n] = NoObj \/ obj[n].logID # "C"

SyncOplog(n) ==
    /\ Quiet /\ Leaves(n) \ Leaves(Peer(n)) # {}
    /\ Send(n, <<[type |-> "AddOplogs", logs |-> Leaves(n) \ Leaves(Peer(n)),
                  newer |-> IF SetNewestCreateObjectLog(n) THEN {"C"} ELSE {}]>>)
    /\ UNCHANGED <<need, obj, blk, log, delBy, posts, drops, expires>>

SyncPendingOplog(n) ==
    LET P == {l \in Log : log[n][l].status = StatusPending} IN
    /\ Quiet /\ P # {}
    /\ Send(n, <<[type |-> "AddPendingOplogs", logs |-> P]>>)
    /\ UNCHANGED <<need, obj, blk, log, delBy, posts, drops, expires>>

(* HandleFailedOplogs: a pending log has expired (GetPendingOplogs).       *)
HandleFailedCreateObjectLog(n, v) ==
    CASE v.obj = NoObj \/ v.obj.logID # "C" -> v
      [] v.obj # NoObj /\ v.obj.logID = "C" /\ n # Creator -> [removeBlockAndMediaInfoByBlockInfo(v) EXCEPT !.obj = NoObj]
      [] OTHER -> [v EXCEPT !.obj = SetFailedObjectWithOplog(v.obj)]

HandleFailedDeleteObjectLog(v) ==
    IF v.obj = NoObj \/ ~v.obj.syncInfo THEN v
    ELSE [v EXCEPT !.obj = [v.obj EXCEPT !.syncInfo = FALSE]]

HandleFailedOplog(n, l) ==
    /\ expires < MaxExpires /\ log[n][l].status = StatusPending
    /\ expires' = expires + 1
    /\ \E v \in {IF l = "C" THEN HandleFailedCreateObjectLog(n, View(n))
                 ELSE HandleFailedDeleteObjectLog(View(n))} :
          Save(n, [v EXCEPT !.log[l] = NoLog])
    /\ UNCHANGED <<need, delBy, chan, drops>>

Disconnect ==
    /\ drops < MaxDrops /\ \E n \in Node : chan[n] # <<>>
    /\ chan' = [n \in Node |-> <<>>]
    /\ drops' = drops + 1
    /\ UNCHANGED <<need, obj, blk, log, delBy, posts, expires>>

HandleMessage(n) ==
    \/ HandleOplogs(n) \/ HandlePendingOplogs(n) \/ HandleSyncCreateObject(n) \/ HandleSyncBlock(n)
    \/ HandleSyncCreateObjectAck(n) \/ HandleSyncCreateBlockAck(n)

Next ==
    \/ CreateObject \/ Disconnect
    \/ \E n \in Node : \/ DeleteObject(n) \/ HandleMessage(n) \/ SyncOplog(n) \/ SyncPendingOplog(n)
                       \/ \E l \in Log : HandleFailedOplog(n, l)

(* Messages that arrive are handled, and the loops of PMSync start a round *)
(* and send the pending logs again and again while the peer is connected.  *)
Fairness ==
    \A n \in Node : /\ WF_ovars(HandleMessage(n))
                    /\ SF_ovars(SyncOplog(n)) /\ SF_ovars(SyncPendingOplog(n))

Spec == Init /\ [][Next]_ovars /\ Fairness

-----------------------------------------------------------------------------
Has(n) == obj[n] # NoObj

(* An object that is pending or alive has its content, all of its blocks   *)
(* in the store, and a create log at this node; an alive one has a valid   *)
(* create log: whatever order the object ack and the block ack come in.    *)
(* postcreate (the counter of a profile's nodes, the last message seen)    *)
(* has run once for an alive one, though the log is handled pending,       *)
(* valid, again after a failure, and by both acks.                         *)
AliveIsComplete ==
    \A n \in Node :
      /\ posts[n] <= 1
      /\ Has(n) /\ obj[n].status \in {StatusPending, StatusAlive} =>
           /\ obj[n].good /\ blk[n] = Blocks
           /\ log[n]["C"].status >= obj[n].status
           /\ obj[n].status = StatusAlive => posts[n] = 1

(* Where the delete log of an object that was alive is in a tree, in the   *)
(* end no node has the content, and no late create log or content brings   *)
(* it back (the empty object of a create log may come and go).  PreLogID   *)
(* is what this rests on: a delete made before the object is alive has     *)
(* none, and can be handled before the create log.                         *)
DeletedEverywhere ==
    <>[]((delBy.pre /\ \E n \in Node : "D" \in Leaves(n)) =>
            \A n \in Node : obj[n].status \in {0, StatusInternalSync, StatusDeleted})
=============================================================================
