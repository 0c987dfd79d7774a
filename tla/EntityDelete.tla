---------------------------- MODULE EntityDelete ----------------------------
(***************************************************************************)
(* The deletion of an entity that two nodes share: two friends who end     *)
(* their friendship (friend/protocol_delete_friend.go), or two devices of  *)
(* one user of which one deletes or migrates the account                   *)
(* (me/protocol_delete_me.go, protocol_migrate_me.go), over the common     *)
(* service/protocol_delete_entity.go.                                      *)
(*                                                                         *)
(* A deletion is an oplog.  While its signatures are not enough it is only *)
(* noted in the sync info of the entity; with enough of them it ends the   *)
(* entity.  A node sends a log once, to whom it is connected (sent); an    *)
(* ended entity answers no sync.  A friend entity that ended is cleaned:   *)
(* its keys go, messages for it fail, and the failure leads the other to   *)
(* ask for keys and be told of the end (EntityTerminal).                   *)
(*                                                                         *)
(* A log bears the name of the node that made it: a node makes at most     *)
(* one.  clock gives every signature a time of its own.                    *)
(***************************************************************************)
EXTENDS Naturals, FiniteSets

CONSTANT MaxFaults  \* messages lost and crashes in DeleteEntity

VARIABLES
    scene,    \* what is deleted, by which operation, with how many signatures
    node,     \* a node's entity and its logs
    made,     \* who has asked for a deletion
    expired,  \* the logs that are older than ExpireOplogSeconds
    sent,     \* broadcasts under way
    signed,   \* signatures so far: the clock
    faults

delvars == <<scene, node, made, expired, sent, signed, faults>>

Nodes == {1, 2}
Other(n) == 3 - n

\* A friendship needs both friends.  An account needs as much of the weight of
\* its devices as a quorum: one device may be enough.  lead leads the raft group.
Scenes ==
    [kind : {"friend"}, need : {2}, lead : {1}, op : [Nodes -> {"friend"}]]
      \cup [kind : {"me"}, need : {1, 2}, lead : Nodes, op : [Nodes -> {"delete", "migrate"}]]

IsFriend == scene.kind = "friend"

NoLog == [ut |-> 0, signs |-> {}, sync |-> FALSE]
NoSync == [class |-> 0, ts |-> 0, log |-> 0]

\* MasterLogID is set.
Valid(x) == Cardinality(x.signs) >= scene.need

(***************************************************************************)
(* Status classes.                                                         *)
(***************************************************************************)
Alive == 3
InternalDelete == 5
PendingDelete == 6
InternalTerminal == 7
PendingTerminal == 8
Deleted == 9
Terminal == 10

\* The classes an operation notes at who makes it and at who receives it while
\* it waits, and the one it ends with.
DeleteFriend == [made |-> PendingTerminal, noted |-> PendingTerminal, final |-> Terminal]
DeleteMe == [made |-> InternalDelete, noted |-> InternalDelete, final |-> Deleted]
MigrateMe == [made |-> InternalDelete, noted |-> InternalTerminal, final |-> Terminal]

Operation(l) ==
    CASE scene.op[l] = "friend" -> DeleteFriend
      [] scene.op[l] = "delete" -> DeleteMe
      [] scene.op[l] = "migrate" -> MigrateMe

FinalClass(l) == Operation(l).final
PendingClass(l, n) == IF n = l THEN Operation(l).made ELSE Operation(l).noted

Ended(v) == v.class >= Deleted

\* The class noted is lowered to that of a deletion; the new one is not.
isReplaceOrigSyncInfo(s, class, ts, l) ==
    LET noted == CASE s.class = InternalTerminal -> InternalDelete
                   [] s.class = PendingTerminal -> PendingDelete
                   [] s.class = Terminal -> Deleted
                   [] OTHER -> s.class
    IN  \/ s = NoSync
        \/ class > noted
        \/ class = noted /\ (ts < s.ts \/ (ts = s.ts /\ l < s.log))

setPendingDeleteSyncInfo(n, v, l, x) ==
    [v EXCEPT !.sync = [class |-> PendingClass(l, n), ts |-> x.ut, log |-> l]]

SetNewEntityWithOplog(v, l, x) == [v EXCEPT !.class = FinalClass(l), !.ts = x.ut, !.by = l]

\* The log the sync info names gives way to another, unless it counts.
removeNonSyncOplog(v, l, retain, ts) ==
    LET x == v.log[l]
    IN  IF x = NoLog \/ (Valid(x) /\ x.sync) THEN v
        ELSE IF retain /\ Valid(x) /\ x.ut < ts THEN [v EXCEPT !.log[l].sync = TRUE]
        ELSE [v EXCEPT !.log[l] = NoLog]

(***************************************************************************)
(* After the end.                                                          *)
(***************************************************************************)
CleanAllLogs(v) == [v EXCEPT !.log = [l \in Nodes |-> NoLog]]

\* Of the logs, the one that ended the entity is kept.
CleanLog0(v) == [v EXCEPT !.log = [l \in Nodes |-> IF l = v.by THEN @[l] ELSE NoLog]]

\* Members, messages, keys, masters and peers go as well.
postdeleteFriend(v) == [CleanLog0(v) EXCEPT !.cleaned = TRUE]

\* The lead of the raft group deletes the profile and leaves what the user owns.
postdeleteDeleteMe(n, v, l) ==
    IF scene.op[l] = "delete" /\ n = scene.lead THEN [v EXCEPT !.left = @ + 1] ELSE v

(***************************************************************************)
(* Logs with enough signatures.  A result is the node, whether the log was *)
(* processed, is superseded or was refused.                                *)
(***************************************************************************)
EndTakesAny(n, v, l, x) ==
    IF Ended(v) THEN [v |-> SetNewEntityWithOplog(v, l, x), is |-> "newer"]
    ELSE [v |-> postdeleteDeleteMe(n, [SetNewEntityWithOplog(v, l, x) EXCEPT !.sync = NoSync], l),
          is |-> "done"]

HandleDeleteEntityLog(n, v, l, x) ==
    LET other == v.sync # NoSync /\ v.sync.log # l
        clear == IF other THEN removeNonSyncOplog(v, v.sync.log, TRUE, x.ut) ELSE v
    IN  IF v.class = FinalClass(l)
        THEN [v |-> IF x.ut < v.ts THEN SetNewEntityWithOplog(v, l, x) ELSE v, is |-> "newer"]
        ELSE IF Ended(v) THEN [v |-> v, is |-> "newer"]
        \* removeNonSyncOplog finds no log, and its error is the handler's.
        ELSE IF other /\ v.log[v.sync.log] = NoLog THEN [v |-> v, is |-> "refused"]
        ELSE [v |-> postdeleteDeleteMe(n, [SetNewEntityWithOplog(clear, l, x) EXCEPT !.sync = NoSync], l),
              is |-> "done"]

\* What a node becomes and the copies it sends.
Result(v, out) == [v |-> v, out |-> out]

\* SelectExisting keeps the earlier of two valid copies.
handleOplog(n, v, l, x) ==
    LET orig == v.log[l]
        takes == orig = NoLog \/ ~Valid(orig) \/ x.ut < orig.ut
        y == IF takes THEN [x EXCEPT !.sync = orig.sync] ELSE orig
        u == IF takes /\ orig # NoLog THEN [v EXCEPT !.log[l] = y] ELSE v
        r == HandleDeleteEntityLog(n, u, l, y)
        saved == [r.v EXCEPT !.log[l] = [y EXCEPT !.sync = TRUE]]
    IN  IF Valid(orig) /\ orig.sync THEN Result(u, IF takes THEN {y} ELSE {})
        ELSE IF r.is = "refused" THEN Result(u, {})
        ELSE IF r.is = "newer" THEN Result(saved, {})
        ELSE Result(IF IsFriend THEN postdeleteFriend(saved) ELSE saved, {y})

(***************************************************************************)
(* Logs that wait for signatures.                                          *)
(***************************************************************************)
HandlePendingDeleteEntityLog(n, v, l, x) ==
    LET clear == IF v.sync # NoSync /\ v.sync.log # l
                 THEN removeNonSyncOplog(v, v.sync.log, FALSE, x.ut) ELSE v
    IN  setPendingDeleteSyncInfo(n, clear, l, x)

\* The node takes note of the log and signs it, unless it is too old to sign.
\* What a device notes it sends on, signed or not.
handlePendingOplog(n, v, l, x) ==
    LET orig == v.log[l]
        r == HandleDeleteEntityLog(n, v, l, orig)
        u == HandlePendingDeleteEntityLog(n, v, l, x)
        y == IF n \in x.signs THEN [x EXCEPT !.sync = FALSE]
             ELSE [ut |-> signed + 1, signs |-> x.signs \cup {n}, sync |-> FALSE]
    IN  IF orig.sync THEN Result(v, {})
        \* Processed, not saved, and not cleaned: postprocessFriendOplogs is told it is pending.
        ELSE IF Valid(orig) THEN IF r.is = "refused" THEN Result(v, {}) ELSE Result(r.v, {orig})
        ELSE IF Ended(v) THEN Result(v, {})
        ELSE IF v.sync # NoSync /\ v.sync.log # l
                  /\ ~isReplaceOrigSyncInfo(v.sync, PendingClass(l, n), x.ut, l) THEN Result(v, {})
        ELSE IF n \notin x.signs /\ expired[l] THEN Result(u, IF IsFriend THEN {} ELSE {x})
        ELSE Result([u EXCEPT !.log[l] = y], {y})

\* HandleOplogs or HandlePendingOplogs, as the copy is valid or not.
HandleLog(n, v, l, x) == IF Valid(x) THEN handleOplog(n, v, l, x) ELSE handlePendingOplog(n, v, l, x)

Packets(n, l, copies) == {[to |-> Other(n), log |-> l, copy |-> [x EXCEPT !.sync = FALSE]] : x \in copies}

\* The time goes on when a signature was given.
Signs(v) == IF \E l \in Nodes : v.log[l].ut > signed THEN signed + 1 ELSE signed

\* n handles a copy of l; what is under way is then pending, plus what n sends.
Handles(n, l, x, pending) ==
    \E r \in {HandleLog(n, node[n], l, x)} :
        /\ node' = [node EXCEPT ![n] = r.v]
        /\ sent' = pending \cup Packets(n, l, r.out)
        /\ signed' = Signs(r.v)
        /\ UNCHANGED <<scene, made, expired, faults>>

(***************************************************************************)
(* Operations.                                                             *)
(***************************************************************************)
\* The entity is saved, then the log, then it is sent and the rest is done.  (A
\* friend's deletion is never valid at once, so there is nothing to clean.)
Saved(n, v, x, crash) ==
    LET w == IF Valid(x) THEN SetNewEntityWithOplog(v, n, x)
             ELSE setPendingDeleteSyncInfo(n, v, n, x)
        u == [w EXCEPT !.log[n] = x]
    IN  IF crash THEN w ELSE IF Valid(x) THEN postdeleteDeleteMe(n, u, n) ELSE u

DeleteEntity(n) ==
    \E crash \in BOOLEAN, x \in {[ut |-> signed + 1, signs |-> {n}, sync |-> TRUE]} :
        /\ ~made[n] /\ ~Ended(node[n])
        /\ Valid(x) \/ isReplaceOrigSyncInfo(node[n].sync, PendingClass(n, n), x.ut, n)
        /\ crash => faults < MaxFaults
        /\ made' = [made EXCEPT ![n] = TRUE]
        /\ node' = [node EXCEPT ![n] = Saved(n, @, x, crash)]
        /\ signed' = signed + 1
        /\ sent' = IF crash THEN sent ELSE sent \cup Packets(n, n, {x})
        /\ faults' = IF crash THEN faults + 1 ELSE faults
        /\ UNCHANGED <<scene, expired>>

\* The log that ended the entity, which n sends to who asks for keys.
EntityTerminal(n) == node[n].log[node[n].by]

\* A node without the keys fails, and tells the one who then asks of the end.
Receive(p) ==
    LET n == p.to
    IN  /\ p \in sent
        /\ IF ~node[n].cleaned THEN Handles(n, p.log, p.copy, sent \ {p})
           ELSE IF node[Other(n)].cleaned
           THEN sent' = sent \ {p} /\ UNCHANGED <<scene, node, made, expired, signed, faults>>
           ELSE Handles(Other(n), node[n].by, EntityTerminal(n), sent \ {p})

Lose(p) ==
    /\ p \in sent /\ faults < MaxFaults
    /\ sent' = sent \ {p}
    /\ faults' = faults + 1
    /\ UNCHANGED <<scene, node, made, expired, signed>>

\* n sends the logs that wait again; the other handles them if its entity is alive.
SyncPendingOplog(n, l) ==
    /\ ~Ended(node[n]) /\ ~Ended(node[Other(n)])
    /\ node[n].log[l] # NoLog /\ ~Valid(node[n].log[l]) /\ ~expired[l]
    /\ Handles(Other(n), l, [node[n].log[l] EXCEPT !.sync = FALSE], sent)

Expire(l) ==
    /\ made[l] /\ ~expired[l]
    /\ expired' = [expired EXCEPT ![l] = TRUE]
    /\ UNCHANGED <<scene, node, made, sent, signed, faults>>

HandleFailedDeleteEntityLog(v, l) ==
    IF v.sync.log = l /\ ~(v.log[l].ut < v.sync.ts) THEN [v EXCEPT !.sync = NoSync] ELSE v

\* HandleFailedFriendOplog does nothing for a deletion, HandleFailedMeOplog does.
HandleFailedMeOplog(v, l) == IF IsFriend THEN v ELSE HandleFailedDeleteEntityLog(v, l)

HandleFailedOplogs(n, l) ==
    /\ ~Ended(node[n])
    /\ expired[l] /\ node[n].log[l] # NoLog /\ ~Valid(node[n].log[l])
    /\ node' = [node EXCEPT ![n] = [HandleFailedMeOplog(@, l) EXCEPT !.log[l] = NoLog]]
    /\ UNCHANGED <<scene, made, expired, sent, signed, faults>>

\* The sync of a node whose entity is alive fails at one who cleaned it; asked
\* for keys, that one answers with the log that ended the entity.
RequestOpKey(n) ==
    /\ ~Ended(node[n]) /\ node[Other(n)].cleaned
    /\ EntityTerminal(Other(n)) # NoLog
    /\ Handles(n, node[Other(n)].by, EntityTerminal(Other(n)), sent)

DelInit ==
    /\ scene \in Scenes
    /\ node = [n \in Nodes |-> [class |-> Alive, ts |-> 0, by |-> 0, sync |-> NoSync,
                                log |-> [l \in Nodes |-> NoLog], cleaned |-> FALSE, left |-> 0]]
    /\ made = [n \in Nodes |-> FALSE]
    /\ expired = [l \in Nodes |-> FALSE]
    /\ sent = {} /\ signed = 0 /\ faults = 0

DelNext ==
    \/ \E n \in Nodes : DeleteEntity(n) \/ RequestOpKey(n) \/ Expire(n)
    \/ \E n, l \in Nodes : SyncPendingOplog(n, l) \/ HandleFailedOplogs(n, l)
    \/ \E p \in sent : Receive(p) \/ Lose(p)

\* Sync goes on, and what is not lost arrives.
DelFairness ==
    /\ WF_delvars(\E p \in sent : Receive(p))
    /\ \A n \in Nodes : WF_delvars(RequestOpKey(n))
    /\ \A n, l \in Nodes : WF_delvars(SyncPendingOplog(n, l))

DelSpec == DelInit /\ [][DelNext]_delvars /\ DelFairness

(***************************************************************************)
(* Properties.                                                             *)
(***************************************************************************)
\* The sync info names a log that is gone: HandleDeleteEntityLog refuses every
\* other deletion.
Blocked(v) == v.sync # NoSync /\ v.log[v.sync.log] = NoLog

\* Nothing was lost or came too late.
Smooth == faults = 0 /\ ~\E l \in Nodes : expired[l]

(* An entity that one node ended and cleaned ends at the other as well,    *)
(* whatever was lost; and if nothing was lost, so does one that merely     *)
(* ended; unless the other is blocked (HandleDeleteEntityLog,              *)
(* EntityTerminal).                                                        *)
EndReachesAll ==
    (\E n \in Nodes : node[n].cleaned \/ (Ended(node[n]) /\ faults = 0))
      => \A n \in Nodes : Ended(node[n]) \/ Blocked(node[n])

DeleteReachesAll == <>[]EndReachesAll

(* An entity that ended stays so, by an operation of the same kind and     *)
(* never by a later log (HandleDeleteEntityLog).                           *)
EndIsFinal ==
    [][\A n \in Nodes : Ended(node[n]) =>
          node'[n].class = node[n].class /\ node'[n].ts <= node[n].ts]_delvars

=============================================================================
