------------------------------ MODULE SyncChain ------------------------------
(***************************************************************************)
(* The oplogs of one entity between two nodes, with everything that has to *)
(* be wired for a log to get there: the chain of the families              *)
(* (master, member, user ...), the codes, the stores of the logs and the   *)
(* objects, what is asked for after a log, and the exchange of the pending *)
(* logs.  The generic handlers are those of OplogSync and ObjectLifecycle, *)
(* made coarse: a tree is the set of its leaves and a handler is a step.   *)
(*                                                                         *)
(* A log is named after its operation: there is one of each.  `seeded`     *)
(* says whether the tree of the service's own family has a log already,    *)
(* those of the masters and the members always do.                         *)
(***************************************************************************)
EXTENDS Naturals, Sequences, FiniteSets, OplogFamilies

CONSTANTS Node, Maker,                      \* the nodes, those that make operations
          Plans,                            \* Plans[svc]: sets of operations that are made
          MaxQueue, MaxDrops, MaxExpires    \* bounds

VARIABLES
    svc,        \* the service of the entity
    need,       \* the signatures that a log needs
    plan,       \* the operations still to be made
    diverged,   \* families whose trees disagree before the sync time
    node,       \* node[n]: logs, leaves, objects and content at n
    chan,       \* chan[n]: the messages on the way to n
    drops,
    expired     \* logs that are too old to be pending

cvars == <<svc, need, plan, diverged, node, chan, drops, expired>>

OneOf(S) == CHOOSE x \in S : TRUE
Peer(n) == CHOOSE m \in Node : m # n
OwnFamily(s) == CASE s = "account" -> "User" [] s = "friend" -> "Friend" [] s = "me" -> "Me"
TreeFamilies(s) == IF s = "me" THEN {"Me"} ELSE {"Master", "Member", OwnFamily(s)}

ObjDBs == {UserNameDB, UserImgDB, NameCardDB, UserNodeDB, MessageDB, OpKeyObjDB, MasterDB, MemberDB,
           FriendDB}

(* The operations a later one works on.                                    *)
Base == [UpdateUserName |-> "CreateUserName", UpdateUserImg |-> "CreateUserImg",
         UpdateNameCard |-> "CreateNameCard", RemoveUserNode |-> "AddUserNode",
         DeleteMember |-> "AddMember", RevokeOpKey |-> "CreateOpKey"]

LogOf(o) == <<OneOf({f \in DOMAIN processLog : o \in DOMAIN processLog[f]}), o>>
HandlerOf(f, o) == processLog[f][o]

(* The code to ask for the content, if the log does not bring it.          *)
Asks(h) == h.info \in DOMAIN postprocessOplogs

-----------------------------------------------------------------------------
(* The view v of a node: pend and valid logs by store, done (IsSync), leaf *)
(* (by tree), content (what is under an object's key for an operation),    *)
(* cur (the operation an object is at), and the messages to send.          *)
Out(v, m) == [v EXCEPT !.out = Append(@, m)]
Msg(code, logs) == [code |-> code, logs |-> logs, newer |-> {}]

Done(v, w, o) == [v EXCEPT !.done = @ \cup {<<w.log, o>>},
                           !.leaf = IF w.merkle = "nil" THEN @ ELSE @ \cup {<<w.merkle, o>>}]

(* The log takes effect on its object.                                     *)
Apply(v, w, o, objDB) == [Done(v, w, o) EXCEPT !.cur[objDB] = o]

IsUpdated(v, o, objDB) == v.cur[objDB] \notin {o, "none"} /\ o # v.cur[objDB]
                          /\ v.cur[objDB] \in DOMAIN Base /\ Base[v.cur[objDB]] = o

(* handleOplog for a valid log: w is the wiring it came through.           *)
handleOplog(v, w, o, isNewer) ==
    LET h == HandlerOf(w.log, o)
        u == [v EXCEPT !.valid = @ \cup {<<w.log, o>>}, !.pend = @ \ {<<w.log, o>>}]
        known == o \notin DOMAIN Base \/ v.cur[h.objDB] # "none"
                 \/ <<w.log, Base[o]>> \in v.valid \cup v.pend
    IN  IF <<w.log, o>> \in v.done \/ ~known THEN v
        ELSE IF IsUpdated(v, o, h.objDB) THEN Done(u, w, o)
        ELSE IF ~Asks(h) \/ <<h.objDB, o>> \in v.content THEN Apply(u, w, o, h.objDB)
        ELSE IF isNewer THEN u
        ELSE Out(u, Msg(postprocessOplogs[h.info], {o}))

(* handlePendingOplog: the content first, then the signature, with which   *)
(* the log is valid.                                                       *)
handlePendingOplog(v, w, o) ==
    LET h == processPendingLog[w.log][o] IN
    IF <<w.log, o>> \in v.done \cup v.valid THEN v
    ELSE IF o \in DOMAIN Base /\ v.cur[h.objDB] = "none" THEN v
    ELSE IF Asks(h) /\ <<h.objDB, o>> \notin v.content
    THEN Out([v EXCEPT !.pend = @ \cup {<<w.log, o>>}], Msg(postprocessOplogs[h.info], {o}))
    ELSE Out(Apply([v EXCEPT !.valid = @ \cup {<<w.log, o>>}, !.pend = @ \ {<<w.log, o>>}], w, o, h.objDB),
             Msg(Casts(w.log).valid, {o}))

(* Logs are handled oldest first: an operation after its base.             *)
InOrder(S) == {q \in [1 .. Cardinality(S) -> S] :
                  /\ \A i, j \in DOMAIN q : q[i] = q[j] => i = j
                  /\ \A i, j \in DOMAIN q : q[j] \in DOMAIN Base /\ Base[q[j]] = q[i] => i < j}

HandleOplogs(v, w, S, newer) ==
    LET q == OneOf(InOrder(S))
        f[i \in 0 .. Cardinality(S)] == IF i = 0 THEN v ELSE handleOplog(f[i - 1], w, q[i], q[i] \in newer)
    IN  f[Cardinality(S)]

HandlePendingOplogs(v, w, S) ==
    LET q == OneOf(InOrder(S))
        f[i \in 0 .. Cardinality(S)] == IF i = 0 THEN v ELSE handlePendingOplog(f[i - 1], w, q[i])
    IN  f[Cardinality(S)]

-----------------------------------------------------------------------------
Leaves(v, f) == {x[2] : x \in {y \in v.leaf : y[1] = f}}
Pending(v, f) == {x[2] : x \in {y \in v.pend : y[1] = f}}

(* GetPendingOplogs and HandleFailedOplogs: the logs that have expired are *)
(* dropped, with what the object held for them.                            *)
HandleFailedOplogs(v, f) ==
    LET failed == {x \in v.pend : x[1] = f /\ x \in expired}
    IN  [v EXCEPT !.pend = @ \ failed,
                  !.content = @ \ {<<HandlerOf(x[1], x[2]).objDB, x[2]>> :
                                     x \in {y \in failed : y[2] \in HandleFailed}}]

(* SetNewestXOplog: the object has gone on from this operation.            *)
Newer(v, f, S) == {o \in S \cap SetNewest : IsUpdated(v, o, HandlerOf(f, o).objDB)}

(* SyncOplog of a family, and postsync: pending logs, then the next one.   *)
SyncMsg(v, f) == Msg(<<f, "Sync">>, Leaves(v, f))

Postsync(v, f) ==
    LET w == HandleFailedOplogs(v, f)
        u == Out(w, Msg(<<f, "Pending">>, Pending(w, f)))
    IN  IF postsync(svc, f) = {} THEN u ELSE Out(u, SyncMsg(u, OneOf(postsync(svc, f))))

(* Logs that are sent in a round: those with a leaf, save the seed.        *)
Sent(S) == S \ {"seed"}

Step(v, h, m) ==
    CASE h.do = "HandleOplogs" -> HandleOplogs(v, h, m.logs, m.newer)
      [] h.do = "HandlePendingOplogs" -> HandlePendingOplogs(v, h, m.logs)
      [] h.do = "HandleSyncPendingOplog" ->
            LET u == HandleFailedOplogs(HandlePendingOplogs(v, h, m.logs), h.log)
            IN  Out(u, Msg(h.ack, Pending(u, h.log)))
      [] h.do = "HandleSyncOplog" ->
            IF h.merkle \in diverged
            THEN Out(Out(v, Msg(h.force, Leaves(v, h.merkle))), Msg(h.forceAck, {}))
            ELSE IF Leaves(v, h.merkle) = {} THEN v
            ELSE Out(v, Msg(h.ack, Leaves(v, h.merkle)))
      [] h.do = "HandleForceSyncOplogByMerkleAck" -> Out(v, Msg(h.ack, Leaves(v, h.merkle)))
      [] h.do = "HandleForceSyncOplogByMerkle" ->
            LET S == Sent(Leaves(v, h.merkle) \ m.logs)
            IN  Out(v, [Msg(h.ack, S) EXCEPT !.newer = Newer(v, h.log, S)])
      [] h.do = "HandleSyncOplogAck" ->
            LET mine == Leaves(v, h.merkle)
                S == Sent(mine \ m.logs)
            IN  IF mine = m.logs THEN Postsync(v, h.merkle)
                ELSE Out(v, [Msg(h.ack, S) @@ [keys |-> m.logs \ mine] EXCEPT !.newer = Newer(v, h.log, S)])
      [] h.do = "HandleSyncOplogNewOplogs" ->
            LET u == HandleOplogs(v, h, m.logs, m.newer) IN
            IF m.keys = {} THEN u
            ELSE Out(u, [Msg(h.ack, Sent(m.keys)) EXCEPT !.newer = Newer(v, h.log, Sent(m.keys))])
      [] h.do = "HandleSyncOplogNewOplogsAck" ->
            Postsync(HandleOplogs(v, h, m.logs, m.newer), h.merkle)
      [] h.do = "HandleSyncOpKeyOplog" ->
            LET u == HandleOplogs(v, h, m.logs, m.newer)
            IN  Out(u, Msg(h.ack, {x[2] : x \in {y \in u.valid : y[1] = h.log}}))
      [] h.do = "HandleSyncOpKeyOplogAck" ->
            Postsync(HandleOplogs(v, h, m.logs, m.newer), h.log)
      [] h.do = "HandleSyncObject" ->
            LET S == {o \in m.logs : <<h.objDB, o>> \in v.content /\ (h.kind = "Update" \/ ~IsUpdated(v, o, h.objDB))}
            IN  IF S = {} THEN v ELSE Out(v, Msg(h.ack, S))
      [] h.do = "HandleSyncObjectAck" ->
            LET o == OneOf(m.logs)
                l == <<h.log, o>>
                u == [v EXCEPT !.content = @ \cup {<<h.objDB, o>>}, !.valid = @ \cup {l}, !.pend = @ \ {l}]
            IN  IF l \notin v.valid \cup v.pend \/ l \in v.done THEN v
                ELSE IF IsUpdated(v, o, h.objDB) THEN Done(u, h, o)
                ELSE IF l \in v.valid THEN Apply(u, h, o, h.objDB)
                ELSE Out(Apply(u, h, o, h.objDB), Msg(h.cast.valid, {o}))

-----------------------------------------------------------------------------
View(n) == node[n] @@ [out |-> <<>>]
Strip(v) == [x \in DOMAIN v \ {"out"} |-> v[x]]
Quiet == \A n \in Node : chan[n] = <<>>

(* Logs that wait for the signature of the other node: those of objects.   *)
Pendable(s, o) == /\ Makers[s][o].log \in {"User", "Friend", "OpKey"}
                  /\ processLog[Makers[s][o].log][o].kind # "Delete"

Existing(p) == {Base[o] : o \in p \cap DOMAIN Base} \ p

Init ==
    \E s \in Service, seeded \in BOOLEAN :
        /\ svc = s /\ plan \in Plans[s]
        /\ need \in IF \E o \in plan : Pendable(s, o) THEN {1, 2} ELSE {1}
        /\ ~seeded => \E o \in plan : Makers[s][o].log = OwnFamily(s)
        /\ \E d \in SUBSET {OwnFamily(s)} : diverged = IF seeded THEN d ELSE {}
        /\ LET seed == {<<f, "seed">> : f \in TreeFamilies(s) \ (IF seeded THEN {} ELSE {OwnFamily(s)})}
               old == Existing(plan)
               objDB(o) == Makers[s][o].objDB
               logs == {<<Makers[s][o].log, o>> : o \in old}
           IN  node = [n \in Node |->
                  [pend |-> {}, valid |-> logs, done |-> logs,
                   leaf |-> seed \cup {<<Makers[s][o].merkle, o>> : o \in old \ {"CreateOpKey"}},
                   content |-> {<<objDB(o), o>> : o \in old},
                   cur |-> [k \in ObjDBs |->
                              IF \E o \in old : objDB(o) = k THEN OneOf({o \in old : objDB(o) = k})
                              ELSE "none"]]]
        /\ chan = [n \in Node |-> <<>>] /\ drops = 0 /\ expired = {}

(* CreateObject, UpdateObject, DeleteObject at a node of Maker.  An operation on an object    *)
(* needs the object; deletes are made when both nodes have it              *)
(* (ObjectLifecycle has the rest).  Logs about persons and friends and     *)
(* deletes are valid at once.                                              *)
MakeOp(n, o) ==
    LET w == Makers[svc][o]
        h == HandlerOf(w.log, o)
        l == <<w.log, o>>
        v == [View(n) EXCEPT !.content = @ \cup {<<w.objDB, o>>}]
    IN  /\ o \in plan /\ n \in Maker /\ \A m \in Node : Len(chan[m]) < MaxQueue
        /\ o \in DOMAIN Base =>
              /\ node[n].cur[w.objDB] = Base[o]
              /\ h.kind = "Delete" => node[Peer(n)].cur[w.objDB] = Base[o]
        /\ plan' = plan \ {o}
        /\ \E u \in {IF need = 2 /\ Pendable(svc, o)
                     THEN Out([v EXCEPT !.pend = @ \cup {l}], Msg(w.cast.pending, {o}))
                     ELSE Out(Apply([v EXCEPT !.valid = @ \cup {l}], w, o, w.objDB), Msg(w.cast.valid, {o}))} :
              /\ node' = [node EXCEPT ![n] = Strip(u)]
              /\ chan' = [chan EXCEPT ![Peer(n)] = @ \o u.out]
        /\ UNCHANGED <<svc, need, diverged, drops, expired>>

(* PMHandleMessageWrapper: a code without a handler is an error.  Once the *)
(* logs of a family were exchanged over the tree, its trees agree.         *)
HandleMessage(n) ==
    /\ chan[n] # <<>>
    /\ \E m \in {Head(chan[n])} :
       \E u \in {IF m.code \in DOMAIN Dispatch[svc] THEN Step(View(n), Dispatch[svc][m.code], m)
                 ELSE View(n)} :
         /\ node' = [node EXCEPT ![n] = Strip(u)]
         /\ chan' = [chan EXCEPT ![n] = Tail(@), ![Peer(n)] = @ \o u.out]
         /\ diverged' = IF m.code[2] = "ByOplogAck" THEN diverged \ {m.code[1]} ELSE diverged
    /\ UNCHANGED <<svc, need, plan, drops, expired>>

(* PMSync with a peer: the operation keys, and the chain of the families.  *)
PMSync(n) ==
    /\ Quiet
    /\ chan' = [chan EXCEPT ![Peer(n)] =
                  <<Msg(<<"OpKey", "Sync">>, {x[2] : x \in {y \in node[n].valid : y[1] = "OpKey"}}),
                    SyncMsg(node[n], Sync(svc))>>]
    /\ UNCHANGED <<svc, need, plan, diverged, node, drops, expired>>

(* PMSync without a peer.                                                  *)
PMSyncNoPeer(n) ==
    /\ Quiet /\ \E l \in node[n].pend : l \in expired
    /\ \E f \in {x[1] : x \in node[n].pend \cap expired} :
          node' = [node EXCEPT ![n] = HandleFailedOplogs(@, f)]
    /\ UNCHANGED <<svc, need, plan, diverged, chan, drops, expired>>

(* The time of a pending log is over.                                      *)
Expire ==
    /\ Cardinality(expired) < MaxExpires
    /\ \E l \in UNION {node[n].pend : n \in Node} : expired' = expired \cup {l}
    /\ UNCHANGED <<svc, need, plan, diverged, node, chan, drops>>

Disconnect ==
    /\ drops < MaxDrops /\ ~Quiet
    /\ chan' = [n \in Node |-> <<>>] /\ drops' = drops + 1
    /\ UNCHANGED <<svc, need, plan, diverged, node, expired>>

Next ==
    \/ \E n \in Node : \/ \E o \in plan : MakeOp(n, o)
                       \/ HandleMessage(n) \/ PMSync(n) \/ PMSyncNoPeer(n)
    \/ Expire \/ Disconnect

(* Messages are handled, and the sync timers of both nodes go off again    *)
(* and again.                                                              *)
Fairness == \A n \in Node : WF_cvars(HandleMessage(n)) /\ SF_cvars(PMSync(n))

Spec == Init /\ [][Next]_cvars /\ Fairness

-----------------------------------------------------------------------------

(* What is held for a log that is not done has the log: nothing stays      *)
(* behind when the log expires (HandleFailedXOplog).                       *)
HeldHasLog ==
    \A n \in Node, o \in DOMAIN Makers[svc] :
        <<Makers[svc][o].objDB, o>> \in node[n].content => LogOf(o) \in node[n].pend \cup node[n].valid

(* A log that is done at a node is done at both in the end, in the tree of *)
(* its family, along the chain of the families.                            *)
LogsSpread == <>[](\A n \in Node : node[n].done = node[Peer(n)].done)

(* Both nodes end up with the same objects at the same operation.          *)
ObjectsAgree == <>[](\A n \in Node : node[n].cur = node[Peer(n)].cur)

=============================================================================
