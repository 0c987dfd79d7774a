------------------------------ MODULE MyNodes ------------------------------
(***************************************************************************)
(* The devices of a user (me/): how a device joins, how the changes of the *)
(* raft configuration become master oplogs and MyNodes at each device, how *)
(* a device is revoked, and what a restart does to all of it.              *)
(*                                                                         *)
(* Raft is a library: the devices agree on a growing sequence of           *)
(* configuration changes, a device learns a prefix of it, and a proposal   *)
(* may be dropped.  The entries are published again from the first one     *)
(* after a restart (ServeRaftChannels starts from the snapshot index 0).   *)
(***************************************************************************)
EXTENDS Naturals, Sequences, FiniteSetsExt

CONSTANTS Device, First,    \* First made the user; the others join
          Weight,           \* nodeTypeToWeight of each device
          Budgets           \* bounds: faults, revokes, messages under way

VARIABLES
    dev,    \* device -> its state, in memory and in its database
    confs,  \* the configuration changes that raft committed
    props,  \* proposals handed to raft
    mail,   \* messages under way
    budget  \* faults (crashes, losses) and revokes left, and messages allowed

nvars == <<dev, confs, props, mail, budget>>

NewMyNode(st, w) == [st |-> st, w |-> w]
NoNodes == [m \in {} |-> NewMyNode("Init", 0)]
Put(f, m, r) == [x \in DOMAIN f \cup {m} |-> IF x = m THEN r ELSE f[x]]
Del(f, m) == [x \in DOMAIN f \ {m} |-> f[x]]
SumWeights(f) == MapThenSumSet(LAMBDA m : f[m].w, DOMAIN f)

AddNode(m, w, by) == [op |-> "add", node |-> m, w |-> w, by |-> by]
RemoveNode(m, by) == [op |-> "remove", node |-> m, w |-> 0, by |-> by]
Msg(t, from, to, st) == [t |-> t, from |-> from, to |-> to, st |-> st]

(* myNode.Save after a change of the node in MyNodes.                      *)
SaveNode(v, m, r) == [v EXCEPT !.nodes = Put(@, m, r), !.db = Put(@, m, r)]

-----------------------------------------------------------------------------
(* Starting: the nodes are read from the database, and raft starts, from   *)
(* nothing (isNew) when the device is not yet alive.                       *)
LoadMyNodes(v) == [v EXCEPT !.nodes = v.db, !.total = SumWeights(v.db)]
StartRaft(v, isNew) == [v EXCEPT !.raft = TRUE, !.applied = 0, !.stage = "entry",
                                 !.committed = IF isNew THEN 0 ELSE @]
Start(v) ==
    CASE v.st = "Pending" -> [StartRaft(v, TRUE) EXCEPT !.committed = 1]
      [] v.st = "Sync" -> StartRaft(v, TRUE)
      [] v.st = "Alive" -> StartRaft(v, FALSE)
      [] OTHER -> [v EXCEPT !.raft = FALSE, !.stage = "entry"]

NewMyInfo(m) ==
    LET one == Put(NoNodes, m, NewMyNode("Alive", 1))
    IN  [st |-> "Pending", old |-> "alive", nodes |-> one, db |-> one, total |-> 1, logs |-> {},
         committed |-> 0, applied |-> 0, stage |-> "entry", raft |-> FALSE]
Nobody(m) == [NewMyInfo(m) EXCEPT !.st = "None", !.nodes = NoNodes, !.db = NoNodes, !.total = 0]

-----------------------------------------------------------------------------
(* Publishing an entry that adds a node, in the steps between which the    *)
(* device can crash: the node, then the user when it is the device itself  *)
(* (another is dialled, AddDial), then the master oplog.                   *)
nodeNotSaved(v, m, w) ==
    LET node == IF m \in DOMAIN v.nodes THEN v.nodes[m] ELSE NewMyNode("InternalPending", 0)
    IN  [v EXCEPT !.nodes = Put(@, m, [st |-> IF node.st = "Init" THEN "InternalPending" ELSE node.st, w |-> w]),
                  !.total = @ + w - node.w]
publishEntriesAddNodeCreateMasterOplogAndSetMyNode(v, m, w) ==
    LET node == IF m \in DOMAIN v.nodes THEN v.nodes[m] ELSE NewMyNode("InternalPending", 0)
    IN  [SaveNode(v, m, [st |-> IF node.st = "Init" THEN "InternalPending" ELSE node.st, w |-> w])
           EXCEPT !.total = @ + w - node.w]

CreateFullMe(v) == [v EXCEPT !.st = "Alive"]

InternalSyncToAlive(v, n) == SaveNode([v EXCEPT !.st = "Alive"], n, NewMyNode("Alive", v.nodes[n].w))

publishEntriesAddNode(v, n, m) ==
    CASE m = n /\ v.st = "Pending" -> CreateFullMe(v)
      [] m = n /\ v.st = "Sync" -> InternalSyncToAlive(v, n)

ProposedBy(v, n, e) ==
    IF e.node = n /\ v.st = "Sync" /\ e.w # Weight[n] THEN {AddNode(n, Weight[n], n)} ELSE {}

publishEntriesRemoveNodeDealWithMyNodes(v, m) ==
    [v EXCEPT !.nodes = Del(@, m), !.total = SumWeights(Del(v.nodes, m)),
              !.db = Put(@, m, NewMyNode("Deleted", v.nodes[m].w))]

revokeMyNodeSetEntity(v) == [v EXCEPT !.st = "Revoked"]
cleanRaft(v) == [v EXCEPT !.raft = FALSE, !.committed = 0]
revokeMyNodeCleanMyNodes(v) == [v EXCEPT !.nodes = NoNodes, !.db = [m \in DOMAIN @ \ DOMAIN v.nodes |-> @[m]]]
HandleRevokeMyNode(v) == revokeMyNodeCleanMyNodes(cleanRaft(revokeMyNodeSetEntity(v)))

-----------------------------------------------------------------------------
raftEntriesToApply(v) == v.raft /\ v.applied < v.committed

Applied(v) == [v EXCEPT !.applied = @ + 1, !.stage = "entry"]

PublishAdd(v, n, i, e) ==
    CASE v.stage = "entry" ->
            [publishEntriesAddNodeCreateMasterOplogAndSetMyNode(v, e.node, e.w) EXCEPT
                !.stage = IF e.node = n /\ v.st \in {"Pending", "Sync"} THEN "user" ELSE "oplog"]
      [] v.stage = "user" -> [publishEntriesAddNode(v, n, e.node) EXCEPT !.stage = "oplog"]
      [] v.stage = "oplog" -> Applied([v EXCEPT !.logs = @ \cup {i}])

publishEntriesRemoveNode(v, n, i, e) ==
    CASE v.stage = "entry" /\ e.node \notin DOMAIN v.nodes -> Applied(v)
      [] v.stage = "entry" /\ e.node \in DOMAIN v.nodes ->
            [publishEntriesRemoveNodeDealWithMyNodes(v, e.node) EXCEPT !.stage = "oplog"]
      [] v.stage = "oplog" /\ e.node # n -> Applied([v EXCEPT !.logs = @ \cup {i}])
      [] v.stage = "oplog" /\ e.node = n -> [v EXCEPT !.logs = @ \cup {i}, !.stage = "revoke"]
      [] v.stage = "revoke" -> Applied(HandleRevokeMyNode(v))

PublishRaftEntries(n) ==
    /\ raftEntriesToApply(dev[n])
    /\ \E i \in {dev[n].applied + 1}, v \in {dev[n]} :
         LET e == confs[i]
         IN  /\ dev' = [dev EXCEPT ![n] =
                          IF v.stage = "entry" /\ i \in v.logs THEN Applied(v)
                          ELSE IF e.op = "add" THEN PublishAdd(v, n, i, e)
                          ELSE publishEntriesRemoveNode(v, n, i, e)]
             /\ props' = props \cup (IF e.op = "add" /\ v.stage = "user" THEN ProposedBy(v, n, e) ELSE {})
    /\ UNCHANGED <<confs, mail, budget>>

-----------------------------------------------------------------------------
(* Raft: a device that knows all changes, and is one of the members, takes *)
(* up a proposal; a device hears of the next change from one that sends to *)
(* it (SendRaftMsgs) and that it listens to (HandleSendRaftMsgs).          *)
Members(k) == {m \in Device : \E i \in 1 .. k : /\ confs[i].op = "add" /\ confs[i].node = m
                                                /\ \A j \in i + 1 .. k : confs[j] # RemoveNode(m, confs[j].by)}
RaftCommit ==
    /\ \E p \in props, m \in Members(Len(confs)) :
         /\ dev[m].raft /\ dev[m].committed = Len(confs)
         /\ confs' = Append(confs, p) /\ props' = props \ {p}
         /\ dev' = [dev EXCEPT ![m].committed = @ + 1]
    /\ UNCHANGED <<mail, budget>>

SendRaftMsgs(m, n) == n \in DOMAIN dev[m].nodes /\ dev[m].nodes[n].st \notin {"Init", "InternalPending", "Deleted"}
HandleSendRaftMsgs(n) == dev[n].raft /\ dev[n].st \notin {"Init", "InternalPending"}
RaftReplicate(n) ==
    /\ HandleSendRaftMsgs(n)
    /\ \E m \in Device \ {n} : dev[m].raft /\ dev[m].committed > dev[n].committed /\ SendRaftMsgs(m, n)
    /\ dev' = [dev EXCEPT ![n].committed = @ + 1]
    /\ UNCHANGED <<confs, props, mail, budget>>

RaftDrop ==
    /\ budget.faults > 0 /\ budget' = [budget EXCEPT !.faults = @ - 1]
    /\ \E p \in props : props' = props \ {p}
    /\ UNCHANGED <<dev, confs, mail>>

-----------------------------------------------------------------------------
(* Joining.                                                                *)
ApproveJoinMe(n, m) ==
    /\ dev[n].st = "Alive" /\ dev[m].st = "None" /\ m \notin DOMAIN dev[n].nodes
    /\ dev' = [dev EXCEPT ![n].nodes = Put(@, m, NewMyNode("Init", 0))]
    /\ props' = props \cup {AddNode(m, 1, n)}
    /\ mail' = mail \cup {Msg("approve", n, m, "Alive")}
    /\ UNCHANGED <<confs, budget>>

HandleApproveJoinMe(v, x) ==
    LET db == Put(Put(v.db, x.to, NewMyNode("Init", 0)), x.from, NewMyNode("Alive", 0))
    IN  Start(LoadMyNodes([v EXCEPT !.st = "Init", !.db = db]))

initMeInfoLoopCore(n, m) ==
    /\ dev[n].st = "Alive" /\ m \in DOMAIN dev[n].nodes \ {n} /\ dev[n].nodes[m].st # "Alive"
    /\ Cardinality(mail) < budget.mail /\ mail' = mail \cup {Msg("info", n, m, dev[n].st)}
    /\ UNCHANGED <<dev, confs, props, budget>>

(* A connection comes up.                                                  *)
postRegisterPeer(n, m) ==
    /\ dev[n].st \notin {"None", "Revoked"} /\ m \in DOMAIN dev[n].nodes \ {n}
    /\ dev[n].nodes[m].st = "InternalPending"
    /\ Cardinality(mail) < budget.mail /\ mail' = mail \cup {Msg("info", n, m, dev[n].st)}
    /\ UNCHANGED <<dev, confs, props, budget>>

handleInitMeInfoCore(v, m, st) ==
    IF m \notin DOMAIN v.nodes \/ v.nodes[m].st = st THEN v ELSE SaveNode(v, m, NewMyNode(st, v.nodes[m].w))

InitMeInfoAck(v, n) ==
    IF v.st # "Init" THEN v
    ELSE SaveNode([v EXCEPT !.st = "InternalPending"], n, NewMyNode("InternalPending", v.nodes[n].w))

HandleInitMeInfo(v, x) == InitMeInfoAck(handleInitMeInfoCore(v, x.from, x.st), x.to)

ackOnlyAnswers(v, x) == v
HandleInitMeInfoAck(v, x) == IF x.st = "InternalPending" THEN v ELSE handleInitMeInfoCore(v, x.from, x.st)

(* InitMeInfoSync, from HandleInitMeInfoAck: only a device that is alive.  *)
InitMeInfoSync(v, x) ==
    IF x.st = "InternalPending" /\ v.st = "Alive" THEN {Msg("sync", x.to, x.from, "Alive")} ELSE {}

(* The user that the device had before is migrated; that fails when it     *)
(* already was, and when the device restarted as the new user.             *)
MigratesOld(v) == v.old = "alive" /\ v.st \in {"Init", "InternalPending"}
HandleInitMeInfoSync(v) == IF MigratesOld(v) THEN [v EXCEPT !.old = "migrated", !.st = "Sync"] ELSE v

HandleMessage(x) ==
    /\ x \in mail
    /\ \E v \in {dev[x.to]} :
         LET answer(t, w) == Msg(t, x.to, x.from, w.st)
         IN  \/ /\ x.t = "approve" /\ v.st = "None"
                /\ dev' = [dev EXCEPT ![x.to] = HandleApproveJoinMe(v, x)]
                /\ mail' = mail \ {x}
             \/ /\ x.t = "info" /\ v.st \notin {"None", "Revoked"}
                /\ \E w \in {HandleInitMeInfo(v, x)} :
                     /\ dev' = [dev EXCEPT ![x.to] = w]
                     /\ mail' = (mail \ {x}) \cup {answer("ack", w)}
             \/ /\ x.t = "ack" /\ v.st \notin {"None", "Revoked"}
                /\ dev' = [dev EXCEPT ![x.to] = HandleInitMeInfoAck(v, x)]
                /\ mail' = (mail \ {x}) \cup InitMeInfoSync(v, x)
             \/ /\ x.t = "sync" /\ v.st \notin {"None", "Revoked"}
                /\ \E w \in {HandleInitMeInfoSync(v)} :
                     /\ dev' = [dev EXCEPT ![x.to] = w]
                     /\ mail' = (mail \ {x}) \cup (IF MigratesOld(v) THEN {answer("ack", w)} ELSE {})
             \/ v.st \in {"None", "Revoked"} /\ x.t # "approve" /\ mail' = mail \ {x} /\ UNCHANGED dev
    /\ UNCHANGED <<confs, props, budget>>

Lose ==
    /\ budget.faults > 0 /\ budget' = [budget EXCEPT !.faults = @ - 1]
    /\ \E x \in mail : mail' = mail \ {x}
    /\ UNCHANGED <<dev, confs, props>>

-----------------------------------------------------------------------------
(* RevokeNode, once the device is the leader (EnsureRaftLead).             *)
RevokeNode(n, m) ==
    /\ budget.revokes > 0 /\ budget' = [budget EXCEPT !.revokes = @ - 1]
    /\ dev[n].st = "Alive" /\ dev[n].raft /\ dev[n].committed = Len(confs) /\ n \in Members(Len(confs))
    /\ m \in DOMAIN dev[n].nodes
    /\ props' = props \cup {RemoveNode(m, n)}
    /\ UNCHANGED <<dev, confs, mail>>

(* A restart, of its own accord after NotifyNodeRestart or by a crash:     *)
(* what it proposed may not have reached raft.                             *)
NotifyNodeRestart(n) == dev[n].st = "Sync" /\ ~dev[n].raft
Restart(n) ==
    /\ dev[n].st \notin {"None", "Revoked"}
    /\ dev' = [dev EXCEPT ![n] = Start(LoadMyNodes(dev[n]))]
    /\ props' = {p \in props : p.by # n} \/ props' = props
    /\ UNCHANGED <<confs, mail>>

NodeRestart(n) == NotifyNodeRestart(n) /\ UNCHANGED budget /\ Restart(n)
Crash(n) == budget.faults > 0 /\ budget' = [budget EXCEPT !.faults = @ - 1] /\ Restart(n)

-----------------------------------------------------------------------------
Init ==
    /\ dev = [n \in Device |-> IF n = First THEN Start(NewMyInfo(n)) ELSE Nobody(n)]
    /\ confs = <<AddNode(First, Weight[First], First)>>
    /\ props = {} /\ mail = {}
    /\ budget \in Budgets

Receive(n, t) == \E x \in mail : x.to = n /\ x.t = t /\ HandleMessage(x)

Next ==
    \/ RaftCommit \/ RaftDrop \/ Lose
    \/ \E x \in mail : HandleMessage(x)
    \/ \E n \in Device : PublishRaftEntries(n) \/ RaftReplicate(n) \/ NodeRestart(n) \/ Crash(n)
    \/ \E n, m \in Device : ApproveJoinMe(n, m) \/ initMeInfoLoopCore(n, m) \/ postRegisterPeer(n, m) \/ RevokeNode(n, m)

(* Loops, message handlers and raft go on; joins, revokes, losses, crashes *)
(* and new connections need not happen.                                    *)
Fairness ==
    /\ WF_nvars(RaftCommit)
    /\ \A n \in Device, t \in {"approve", "info", "ack", "sync"} : WF_nvars(Receive(n, t))
    /\ \A n \in Device : WF_nvars(PublishRaftEntries(n)) /\ WF_nvars(RaftReplicate(n)) /\ WF_nvars(NodeRestart(n))
    /\ \A n, m \in Device : WF_nvars(initMeInfoLoopCore(n, m))

NSpec == Init /\ [][Next]_nvars /\ Fairness

-----------------------------------------------------------------------------
ConfWeight(m, k) ==
    LET at == {i \in 1 .. k : confs[i].node = m}
    IN  IF at = {} \/ confs[Max(at)].op = "remove" THEN 0 ELSE confs[Max(at)].w

(* However often entries are published again, a device that has published *)
(* all it knows has every member among its nodes, with the weight that     *)
(* raft gives it.                                                          *)
NodesFollowRaft ==
    \A n \in Device : dev[n].st = "Alive" /\ dev[n].stage = "entry" /\ dev[n].applied = dev[n].committed =>
        \A m \in Members(dev[n].applied) : m \in DOMAIN dev[n].nodes /\ dev[n].nodes[m].w = ConfWeight(m, dev[n].applied)

(* What joining comes to: a device that was approved, and whose joining    *)
(* raft agreed on, is alive, and the devices see each other alive, unless  *)
(* one is revoked.                                                         *)
Joined(n) == dev[n].st # "None" /\ n \in Members(Len(confs))
AllJoined ==
    (\A i \in DOMAIN confs : confs[i].op = "add") =>
        \A n \in Device : Joined(n) =>
            /\ dev[n].st = "Alive"
            /\ \A m \in Device : Joined(m) => m \in DOMAIN dev[n].nodes /\ dev[n].nodes[m].st = "Alive"
=============================================================================
