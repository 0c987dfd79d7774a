------------------------------ MODULE OplogSync ------------------------------
(***************************************************************************)
(* Synchronising the valid oplogs of an entity between two nodes           *)
(* (service/protocol_sync_oplog*.go, protocol_force_sync_oplog_by_*.go,    *)
(* merkle_utils.go, HandleOplogs).  A timer starts SyncOplog at each node. *)
(* The old part of the logs is compared by the nodes of the merkle tree    *)
(* and repaired from the top down; the part from one hour before the sync  *)
(* time on is compared key by key.                                         *)
(*                                                                         *)
(* A log is its UpdateTS.  The tree is what it was computed from, gen[n]   *)
(* (MerkleTree models the computation): day and hour nodes stand for the   *)
(* four levels above the leaves.  A node's hash is the set of the logs     *)
(* below it.  Connections deliver in order; a lost connection loses what   *)
(* is on the way.  What HandleOplogs broadcasts goes, with two nodes, back *)
(* to where it came from, and changes nothing there.                       *)
(***************************************************************************)
EXTENDS Integers, Sequences, FiniteSets, FiniteSetsExt, SequencesExt

CONSTANTS
    Node, Logs,
    PreLog,         \* PreLog[l]: the log that l follows (PreLogID), or 0
    CreateTS,       \* the creation of the entity, its first log
    Hour, Day,      \* in ticks; OffsetMerkleSyncTime is an hour
    Now,
    MaxSyncOplogAck, MaxSyncObjectAck,
    MaxQueue, MaxDrops      \* bounds

ASSUME OplogSyncAssumption ==
    /\ Logs \subseteq 1 .. Now - 1 /\ CreateTS \in Logs
    /\ PreLog \in [Logs -> Logs \cup {0}] /\ \A l \in Logs : PreLog[l] < l
    /\ {Hour, Day, Now} \subseteq Nat \ {0} /\ Day % Hour = 0
    /\ {MaxSyncOplogAck, MaxSyncObjectAck, MaxQueue, MaxDrops} \subseteq Nat

VARIABLES
    logs,       \* logs[n]: the valid oplogs of n, with their leaves
    gen,        \* gen[n]: the logs that the hour and day nodes of n cover
    syncTS,     \* Merkle.LastSyncTS and its key in the database
    chan,       \* chan[n]: the messages on the way to n
    drops

svars == <<logs, gen, syncTS, chan, drops>>

Peer(n) == CHOOSE m \in Node : m # n
HR(ts) == (ts \div Hour) * Hour
DAY(ts) == (ts \div Day) * Day

(* The member of a singleton: The({F(x) : x \in {e}}) is F(e), with e      *)
(* evaluated once.                                                         *)
The(S) == CHOOSE x \in S : TRUE

(* The members of S in the order of Key.                                   *)
SortedBy(S, Key(_)) ==
    [i \in 1 .. Cardinality(S) |->
        CHOOSE x \in S : Cardinality({y \in S : Key(y) < Key(x)}) = i - 1]

-----------------------------------------------------------------------------
(* The merkle tree.                                                        *)
LevelNow == 0
LevelHR == 1
LevelDay == 2

Leaves(S, from, to) == {[level |-> LevelNow, ts |-> l, n |-> 0, addr |-> {l}] :
                           l \in {k \in S : from <= k /\ k < to}}

HRNodes(S, from, to) ==
    {[level |-> LevelHR, ts |-> h, addr |-> {l \in S : HR(l) = h},
      n |-> Cardinality({l \in S : HR(l) = h})] :
        h \in {HR(l) : l \in {k \in S : from <= HR(k) /\ HR(k) < to}}}

DayNodes(S, from, to) ==
    {[level |-> LevelDay, ts |-> d, addr |-> {l \in S : DAY(l) = d},
      n |-> Cardinality({HR(l) : l \in {k \in S : DAY(k) = d}})] :
        d \in {DAY(l) : l \in {k \in S : from <= DAY(k) /\ DAY(k) < to}}}

GetMerkleTreeList(n, ts) == DayNodes(gen[n], 0, DAY(ts)) \cup HRNodes(gen[n], DAY(ts), HR(ts))

GetNodeByLevelTS(n, level, ts) ==
    {x \in HRNodes(gen[n], 0, Now) \cup DayNodes(gen[n], 0, Now) : x.level = level /\ x.ts = ts}

(* The leaves are written with the logs, the hour nodes by the loop.       *)
GetChildNodes(n, level, ts) ==
    IF level = LevelHR THEN Leaves(logs[n], HR(ts), HR(ts) + Hour)
    ELSE HRNodes(gen[n], DAY(ts), DAY(ts) + Day)

(* DiffMerkleTree: what the first is to learn about from the second.  Of   *)
(* two nodes for the same time, only the one with fewer children is told;  *)
(* both are when they have as many.                                        *)
NewNodesMatched(mine, theirs) ==
    {t \in theirs : \E x \in mine : /\ x.ts = t.ts /\ x.level = t.level
                                    /\ x.n < t.n \/ (x.n = t.n /\ x.addr # t.addr)}

NewNodes(mine, theirs) ==
    {t \in theirs : \A x \in mine : x.ts = t.ts /\ x.level = t.level =>
                        x.n < t.n \/ (x.n = t.n /\ x.addr # t.addr)}

ToSyncTime(n) == IF syncTS[n] < 3 * Hour THEN 0 ELSE syncTS[n] - Hour

(* SaveSyncTime: the sync time does not go back.                           *)
SaveSyncTime(n, ts) == syncTS' = [syncTS EXCEPT ![n] = IF ts < @ THEN @ ELSE ts]

-----------------------------------------------------------------------------
(* SyncOplogAck: the leaves of [from, Now), hour by hour, in messages of   *)
(* limited size; each message names the range it is about.                 *)
AckMsg(S, startHour, endHour, start, end) ==
    [type |-> "SyncOplogAck", nodes |-> S, startHour |-> startHour, endHour |-> endHour,
     start |-> start, end |-> end]

Blocks(S, cur, next) ==
    LET s == SortedBy(S, LAMBDA l : l)
        k == (Len(s) + MaxSyncOplogAck - 1) \div MaxSyncOplogAck
        First(i) == s[(i - 1) * MaxSyncOplogAck + 1]
        Bound(i) == IF i = 1 THEN cur ELSE IF i > k THEN next ELSE First(i)
    IN  [i \in 1 .. k |->
            AckMsg({l \in S : First(i) <= l /\ (i < k => l < First(i + 1))},
                   cur, next, Bound(i), Bound(i + 1))]

syncOplogAckCore(n, acc, cur) ==
    LET next == IF Now < cur + Hour THEN Now ELSE cur + Hour
        each == {l \in logs[n] : cur <= l /\ l < next}
        sent == IF acc.nodes = {} THEN acc.sent
                ELSE Append(acc.sent, AckMsg(acc.nodes, acc.start, cur, acc.start, cur))
    IN  CASE Cardinality(acc.nodes) + Cardinality(each) < MaxSyncOplogAck ->
                [acc EXCEPT !.nodes = @ \cup each]
          [] OTHER -> IF Cardinality(each) < MaxSyncObjectAck
                      THEN [nodes |-> each, start |-> cur, sent |-> sent]
                      ELSE [nodes |-> {}, start |-> next, sent |-> sent \o Blocks(each, cur, next)]

SyncOplogAck(n, myToSyncTime) ==
    LET offset == HR(IF myToSyncTime = 0 THEN CreateTS ELSE myToSyncTime)
        hours == [i \in 1 .. (Now - offset + Hour - 1) \div Hour |-> offset + (i - 1) * Hour]
        accs == {FoldLeft(LAMBDA a, h : The({syncOplogAckCore(n, x, h) : x \in {a}}),
                          [nodes |-> {}, start |-> offset, sent |-> <<>>], hours)}
    IN  The({IF acc.nodes = {} THEN acc.sent
             ELSE Append(acc.sent, AckMsg(acc.nodes, acc.start, Now, acc.start, Now)) : acc \in accs})

(* preprocessOplogs with checkPreOplog: the list is cut before the first   *)
(* log whose predecessor is neither at hand nor before it in the list.     *)
Usable(n, S) ==
    LET bad == {l \in S : PreLog[l] # 0 /\ PreLog[l] \notin logs[n] \cup {k \in S : k < l}}
    IN  {l \in S : \A k \in bad : l < k}

(* HandleOplogs: the logs that are new get their leaves and mark their     *)
(* hours for the loop; gen is behind until it runs.                        *)
HandleOplogsReplaces(n, S, isUpdateSyncTime) ==
    \E new \in {Usable(n, S)} :
        /\ logs' = [logs EXCEPT ![n] = {CreateTS} \cup new]
        /\ IF isUpdateSyncTime /\ new # {} THEN SaveSyncTime(n, Max(new)) ELSE UNCHANGED syncTS

HandleOplogs(n, S, isUpdateSyncTime) ==
    \E new \in {Usable(n, S)} :
        /\ logs' = [logs EXCEPT ![n] = @ \cup new]
        /\ IF isUpdateSyncTime /\ new # {} THEN SaveSyncTime(n, Max(new)) ELSE UNCHANGED syncTS

-----------------------------------------------------------------------------
(* ForceSyncOplogByMerkle: ask for what is below a node, telling what is   *)
(* there; nothing is sent while the node does not agree with its children, *)
(* the loop is woken up instead (TryForceSync).                            *)
ForceSyncOplogByMerkle(n, x) ==
    LET mine == GetNodeByLevelTS(n, x.level, x.ts)
        nodes == GetChildNodes(n, x.level, x.ts)
    IN  IF Cardinality(nodes) # (IF mine = {} THEN 0 ELSE (CHOOSE y \in mine : TRUE).n) THEN <<>>
        ELSE <<[type |-> "ForceSyncOplogByMerkle", ts |-> x.ts, level |-> x.level, nodes |-> nodes]>>

ForceSyncOplogByMerkles(n, nodes) ==
    FoldLeft(LAMBDA s, x : s \o ForceSyncOplogByMerkle(n, x), <<>>,
             SortedBy(nodes, LAMBDA x : x.ts))

ForceSyncOplogByMerkleAck(nodes) ==
    IF nodes = {} THEN <<>> ELSE <<[type |-> "ForceSyncOplogByMerkleAck", nodes |-> nodes]>>

-----------------------------------------------------------------------------
(* Steps.  Handle(n, type): n takes the next message; Reply answers it.    *)
(* The timers are slow compared with the messages: a round starts while at *)
(* most MaxQueue - 1 messages are on the way.                              *)
Quiet == \A n \in Node : Len(chan[n]) + Len(chan[Peer(n)]) < MaxQueue

Handle(n, type) == chan[n] # <<>> /\ Head(chan[n]).type = type

Reply(n, msgs) == chan' = [chan EXCEPT ![n] = Tail(@), ![Peer(n)] = @ \o msgs]

(* The states two nodes may meet in: each has had the first log, has made  *)
(* or got others, and may have synced with a third up to one of them.      *)
Init ==
    /\ logs \in [Node -> {S \in SUBSET Logs : CreateTS \in S /\ \A l \in S : PreLog[l] \in S \cup {0}}]
    /\ gen = logs
    /\ syncTS \in [Node -> Logs \cup {0}]
    /\ \A n \in Node : syncTS[n] \in logs[n] \cup {0}
    /\ chan = [n \in Node |-> <<>>] /\ drops = 0

(* A log becomes valid at n and is broadcast (BroadcastOplog).             *)
Create(n, l) ==
    /\ \A k \in UNION {logs[m] : m \in Node} : k < l
    /\ PreLog[l] \in logs[n] \cup {0}
    /\ Quiet
    /\ logs' = [logs EXCEPT ![n] = @ \cup {l}]
    /\ chan' = [chan EXCEPT ![Peer(n)] = Append(@, [type |-> "AddOplogs", logs |-> {l}])]
    /\ UNCHANGED <<gen, syncTS, drops>>

HandleAddOplogs(n) ==
    /\ Handle(n, "AddOplogs")
    /\ HandleOplogs(n, Head(chan[n]).logs, FALSE)
    /\ Reply(n, <<>>)
    /\ UNCHANGED <<gen, drops>>

SyncOplog(n) ==
    /\ Quiet
    /\ chan' = [chan EXCEPT ![Peer(n)] =
                    Append(@, [type |-> "SyncOplog", ts |-> ToSyncTime(n),
                               nodes |-> GetMerkleTreeList(n, ToSyncTime(n))])]
    /\ UNCHANGED <<logs, gen, syncTS, drops>>

HandleSyncOplog(n) ==
    /\ Handle(n, "SyncOplog")
    /\ \E m \in {Head(chan[n])}, my \in {ToSyncTime(n)} :
       \E mine \in {GetMerkleTreeList(n, m.ts)} :
       \E myNew \in {NewNodes(mine, m.nodes)}, theirNew \in {NewNodes(m.nodes, mine)} :
          \/ my < m.ts /\ Reply(n, <<>>)
          \/ /\ my >= m.ts /\ myNew \cup theirNew # {}
             /\ Reply(n, ForceSyncOplogByMerkles(n, myNew) \o ForceSyncOplogByMerkleAck(theirNew))
          \/ /\ my >= m.ts /\ myNew \cup theirNew = {}
             /\ Reply(n, SyncOplogAck(n, my))
    /\ UNCHANGED <<logs, gen, syncTS, drops>>

(* SyncOplogNewOplogs is part of it: when there is nothing to send in      *)
(* either direction the range is in sync.                                  *)
HandleSyncOplogAck(n) ==
    /\ Handle(n, "SyncOplogAck")
    /\ \E m \in {Head(chan[n])} :
          LET from == IF m.startHour < m.start THEN m.start ELSE m.startHour
              to == IF m.end < m.endHour THEN m.end ELSE m.endHour
              mine == {l \in logs[n] : from <= l /\ l < to}
          IN  IF mine = m.nodes
              THEN Reply(n, <<>>) /\ SaveSyncTime(n, IF mine = {} THEN 0 ELSE Max(mine))
              ELSE /\ Reply(n, <<[type |-> "NewOplogs", logs |-> mine \ m.nodes,
                                  keys |-> m.nodes \ mine]>>)
                   /\ UNCHANGED syncTS
    /\ UNCHANGED <<logs, gen, drops>>

HandleSyncOplogNewOplogs(n) ==
    /\ Handle(n, "NewOplogs")
    /\ \E m \in {Head(chan[n])} :
          /\ HandleOplogs(n, m.logs, TRUE)
          /\ Reply(n, IF m.keys = {} THEN <<>>
                      ELSE <<[type |-> "NewOplogsAck", logs |-> m.keys \cap logs'[n]]>>)
    /\ UNCHANGED <<gen, drops>>

HandleSyncOplogNewOplogsAck(n) ==
    /\ Handle(n, "NewOplogsAck")
    /\ HandleOplogs(n, Head(chan[n]).logs, TRUE)
    /\ Reply(n, <<>>)
    /\ UNCHANGED <<gen, drops>>

HandleForceSyncOplogByMerkle(n) ==
    /\ Handle(n, "ForceSyncOplogByMerkle")
    /\ \E m \in {Head(chan[n])} :
       \E theirNew \in {NewNodes(m.nodes, GetChildNodes(n, m.level, m.ts))} :
              Reply(n, IF theirNew = {} THEN <<>>
                       ELSE IF m.level = LevelHR
                       THEN <<[type |-> "ForceSyncOplogByOplogAck", logs |-> {x.ts : x \in theirNew}]>>
                       ELSE ForceSyncOplogByMerkleAck(theirNew))
    /\ UNCHANGED <<logs, gen, syncTS, drops>>

HandleForceSyncOplogByMerkleAck(n) ==
    /\ Handle(n, "ForceSyncOplogByMerkleAck")
    /\ Reply(n, ForceSyncOplogByMerkles(n, Head(chan[n]).nodes))
    /\ UNCHANGED <<logs, gen, syncTS, drops>>

HandleForceSyncOplogByOplogAck(n) ==
    /\ Handle(n, "ForceSyncOplogByOplogAck")
    /\ HandleOplogs(n, Head(chan[n]).logs, TRUE)
    /\ Reply(n, <<>>)
    /\ UNCHANGED <<gen, drops>>

(* The loop of MerkleTree has caught up.                                   *)
GenerateOplogMerkleTree(n) ==
    /\ gen[n] # logs[n]
    /\ gen' = [gen EXCEPT ![n] = logs[n]]
    /\ UNCHANGED <<logs, syncTS, chan, drops>>

Disconnect ==
    /\ drops < MaxDrops /\ \E n \in Node : chan[n] # <<>>
    /\ chan' = [n \in Node |-> <<>>]
    /\ drops' = drops + 1
    /\ UNCHANGED <<logs, gen, syncTS>>

HandleMessage(n) ==
    \/ HandleAddOplogs(n) \/ HandleSyncOplog(n) \/ HandleSyncOplogAck(n)
    \/ HandleSyncOplogNewOplogs(n) \/ HandleSyncOplogNewOplogsAck(n)
    \/ HandleForceSyncOplogByMerkle(n) \/ HandleForceSyncOplogByMerkleAck(n)
    \/ HandleForceSyncOplogByOplogAck(n)

Next ==
    \/ \E n \in Node : \/ SyncOplog(n) \/ HandleMessage(n) \/ GenerateOplogMerkleTree(n)
                       \/ \E l \in Logs : Create(n, l)
    \/ Disconnect

Spec == Init /\ [][Next]_svars

(* The sync timers tick, a connection's goroutine handles what comes, and  *)
(* the loop over the tree runs.                                            *)
Fairness == \A n \in Node : /\ WF_svars(HandleMessage(n))
                            /\ SF_svars(SyncOplog(n))
                            /\ WF_svars(GenerateOplogMerkleTree(n))

FairSpec == Spec /\ Fairness

-----------------------------------------------------------------------------
R == INSTANCE ReplicatedLog

(* Logs are only made, spread and kept, whatever the order of the rounds,   *)
(* the acknowledgements and the broadcasts (HandleOplogs).                 *)
ImplementsReplicatedLog == R!Spec

(* After the last log was made and the last connection lost, both nodes    *)
(* come to have the same logs, wherever their sync times and trees are     *)
(* (SyncOplog and its handlers).                                           *)
Converges == <>[]R!Converged
=============================================================================
