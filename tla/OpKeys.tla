------------------------------- MODULE OpKeys -------------------------------
(***************************************************************************)
(* The keys with which the messages of an entity are encrypted: the master *)
(* makes a new one again and again (CreateOpKeyLoop), keys expire and are  *)
(* revoked, and a node that gets a message with a key it does not have     *)
(* says so, upon which the two exchange their keys (service/protocol_      *)
(* manager_utils_op_key.go, protocol_create_op_key.go, protocol_revoke_    *)
(* op_key.go, protocol_op_fail.go, protocol_request_op_key*.go,            *)
(* protocol_sync_op_key_oplog.go, router_utils_op.go).                     *)
(*                                                                         *)
(* A key is named by the time at which it was made, its UpdateTS.  The     *)
(* object handlers are those of ObjectLifecycle: here a log either is      *)
(* handled with the content of the key at hand, or leaves the key in       *)
(* StatusInternalSync.                                                     *)
(***************************************************************************)
EXTENDS Naturals, FiniteSets

CONSTANTS Node, Master,             \* Master \in Node
          Renew, Expire,            \* renewOpKeySeconds, expireOpKeySeconds
          MaxTime, MaxFlight, MaxRevokes, MaxFaults     \* bounds

VARIABLES
    now,
    timer,      \* when the CreateOpKeyLoop of the master wakes up
    opKey,      \* opKey[n][k]: the key k in the database of n
    opLog,      \* opLog[n]: the logs of keys at n: [op, key, ts]
    opKeyInfos, \* opKeyInfos[n]: the map of the protocol manager
    newest,     \* newest[n]: newestOpKeyInfo, or 0
    oldest,     \* oldest[n]: oldestOpKeyInfo, or 0
    ops,        \* ops[n]: router.ops
    wire,       \* messages under way
    faults      \* how many revokes, and restarts and losses

kvars == <<now, timer, opKey, opLog, opKeyInfos, newest, oldest, ops, wire, faults>>

Key == 1 .. MaxTime
NoKey == [st |-> "none", ts |-> 0]
CreateLog(k) == [op |-> "create", key |-> k, ts |-> k]
RevokeLog(k, t) == [op |-> "revoke", key |-> k, ts |-> t]

View(n) == [me |-> n, key |-> opKey[n], log |-> opLog[n], infos |-> opKeyInfos[n],
            newest |-> newest[n], oldest |-> oldest[n], ops |-> ops[n]]
Save(n, v) ==
    /\ opKey' = [opKey EXCEPT ![n] = v.key] /\ opLog' = [opLog EXCEPT ![n] = v.log]
    /\ opKeyInfos' = [opKeyInfos EXCEPT ![n] = v.infos] /\ ops' = [ops EXCEPT ![n] = v.ops]
    /\ newest' = [newest EXCEPT ![n] = v.newest] /\ oldest' = [oldest EXCEPT ![n] = v.oldest]

-----------------------------------------------------------------------------
(* Timestamps, moved up by Expire so that they are natural numbers: a key  *)
(* k is less than getExpireOpKeyTS when k + Expire < now.                  *)
IsExpired(ts) == ts + Expire < now                          \* getExpireOpKeyTS
IsNearExpired(ts) == ts + Expire < now + Renew              \* getExpireRenewOpKeyTS

checkNewestOpKeyInfo(v, k) ==
    IF IsNearExpired(k) \/ (v.newest # 0 /\ v.newest >= k) THEN v ELSE [v EXCEPT !.newest = k]
checkOldestOpKeyInfo(v, k) ==
    IF IsNearExpired(k) \/ (v.oldest # 0 /\ v.oldest <= k) THEN v ELSE [v EXCEPT !.oldest = k]

Fresh(v) == {k \in v.infos : ~IsNearExpired(k)}
getNewestOpKeyFullScan(v) ==
    [v EXCEPT !.newest = IF Fresh(v) = {} THEN 0 ELSE CHOOSE k \in Fresh(v) : \A j \in Fresh(v) : j <= k]
getOldestOpKeyFullScan(v) ==
    [v EXCEPT !.oldest = IF Fresh(v) = {} THEN 0 ELSE CHOOSE k \in Fresh(v) : \A j \in Fresh(v) : k <= j]

RegisterOpKey(v, k) ==
    LET w == checkNewestOpKeyInfo([v EXCEPT !.infos = @ \cup {k}, !.ops = @ \cup {k}], k)
    IN  IF w.oldest = 0 THEN checkOldestOpKeyInfo(w, k) ELSE w

RemoveOpKey(v, k) ==
    getOldestOpKeyFullScan(getNewestOpKeyFullScan([v EXCEPT !.infos = @ \ {k}, !.ops = @ \ {k}]))
RemoveOpKeyFromHash(v, k) == IF k \in v.infos THEN RemoveOpKey(v, k) ELSE v

(* ExpireOpKeyInfo: the key, and the logs that its record names, which for *)
(* a revoked key are both.                                                 *)
ExpireOpKeyInfo(v, k) ==
    [RemoveOpKey(v, k) EXCEPT !.key[k] = NoKey, !.log = {l \in @ : l.key # k}]

-----------------------------------------------------------------------------
(* The handlers of the logs.                                               *)
postcreateOpKey(v, k) == RegisterOpKey(v, k)
postdeleteOpKey(v, k) == RemoveOpKeyFromHash(v, k)

handleCreateOpKeyLog(v, l) ==
    IF v.key[l.key].st \in {"none", "failed"}
    THEN [v EXCEPT !.key[l.key] = [st |-> "sync", ts |-> l.ts], !.log = @ \cup {l}]
    ELSE [v EXCEPT !.log = @ \cup {l}]

(* A key without content is dropped, and the log is skipped.               *)
handleRevokeOpKeyLog(v, l) ==
    CASE v.key[l.key].st = "alive" ->
            postdeleteOpKey([v EXCEPT !.key[l.key] = [st |-> "revoked", ts |-> l.ts], !.log = @ \cup {l}], l.key)
      [] v.key[l.key].st = "sync" -> [v EXCEPT !.key[l.key] = NoKey]
      [] OTHER -> [v EXCEPT !.log = @ \cup {l}]

processOpKeyLog(v, l) == IF l.op = "create" THEN handleCreateOpKeyLog(v, l) ELSE handleRevokeOpKeyLog(v, l)

(* preprocessOplogs stops at the first log whose PreLogID is neither here  *)
(* nor in the batch: a revoke without its create log.                      *)
Good(v, S) ==
    LET bad == {l \in S : l.op = "revoke" /\ CreateLog(l.key) \notin v.log \cup S}
    IN  {l \in S : \A b \in bad : l.ts < b.ts}

(* In the order of time, creates first; the ones that are there are done.  *)
RECURSIVE Process(_, _)
Process(v, S) ==
    IF S = {} THEN v
    ELSE LET l == CHOOSE x \in S : \A y \in S : x.ts < y.ts \/ (x.ts = y.ts /\ (x.op = "create" \/ y.op = "revoke"))
         IN  Process(processOpKeyLog(v, l), S \ {l})
HandleOpKeyOplogs(v, S) == Process(v, Good(v, S) \ v.log)

(* The content of the key, when its log is here and waits for it.          *)
HandleSyncCreateOpKeyAckObj(v, k) ==
    IF CreateLog(k) \in v.log /\ v.key[k].st = "sync"
    THEN postcreateOpKey([v EXCEPT !.key[k].st = "alive"], k) ELSE v
RECURSIVE Contents(_, _)
Contents(v, K) ==
    IF K = {} THEN v
    ELSE LET k == CHOOSE x \in K : TRUE IN Contents(HandleSyncCreateOpKeyAckObj(v, k), K \ {k})

contentsFirst(v, logs, keys) == HandleOpKeyOplogs(Contents(v, keys), logs)
Take(v, logs, keys) == Contents(HandleOpKeyOplogs(v, logs), keys)

(* HandleFailedOplogs, of logs that expired: the key of a create log goes, *)
(* but at its creator it is kept as failed.                                *)
postfailedCreateOpKey(v, k) == RemoveOpKeyFromHash(v, k)
handleFailedCreateOpKeyLog(v, l) ==
    IF v.key[l.key].st \notin {"sync", "alive"} THEN v
    ELSE [postfailedCreateOpKey(v, l.key) EXCEPT
            !.key[l.key] = IF v.me = Master THEN [st |-> "failed", ts |-> now] ELSE NoKey]
RECURSIVE HandleFailedOplogs(_, _)
HandleFailedOplogs(v, S) ==
    IF S = {} THEN v
    ELSE LET l == CHOOSE x \in S : TRUE
             w == IF l.op = "create" THEN handleFailedCreateOpKeyLog(v, l) ELSE v
         IN  HandleFailedOplogs([w EXCEPT !.log = @ \ {l}], S \ {l})

-----------------------------------------------------------------------------
(* CreateOpKeyLoop of the master; NewOpKey at the time `now`.              *)
GetNewestOpKey(v) == IF v.newest = 0 THEN getNewestOpKeyFullScan(v) ELSE v

CreateOpKey(v) ==
    IF v.key[now] # NoKey THEN v        \* one key per unit of time
    ELSE postcreateOpKey([v EXCEPT !.key[now] = [st |-> "alive", ts |-> now], !.log = @ \cup {CreateLog(now)}], now)

TryCreateOpKeyInfo(v) ==
    LET w == GetNewestOpKey(v) IN
    IF w.newest # 0 /\ ~IsNearExpired(w.newest) /\ now < w.newest + Renew THEN w ELSE CreateOpKey(w)

Later == {now + d : d \in {x \in 1 .. Renew : 2 * x >= Renew}}      \* GetToRenewOpKeySeconds

CreateOpKeyLoop ==
    /\ timer = now
    /\ Save(Master, TryCreateOpKeyInfo(View(Master)))
    /\ timer' \in Later
    /\ UNCHANGED <<now, wire, faults>>

RevokeOpKey(k) ==
    LET v == View(Master) IN
    /\ faults.revokes < MaxRevokes /\ opKey[Master][k].st = "alive"
    /\ faults' = [faults EXCEPT !.revokes = @ + 1]
    /\ Save(Master, handleRevokeOpKeyLog(v, RevokeLog(k, now)))
    /\ UNCHANGED <<now, timer, wire>>

-----------------------------------------------------------------------------
(* Messages.                                                               *)
Reply(x, code, body) ==
    wire' = (wire \ {x}) \cup {[code |-> code, from |-> x.to, to |-> x.from, key |-> body.key,
                                keys |-> body.keys, logs |-> body.logs]}
Body(k) == [key |-> k, keys |-> {}, logs |-> {}]
Keys(v) == [key |-> 0, keys |-> v.infos, logs |-> v.log]

(* sendDataToPeers, with the oldest key.  What is sent is a round of       *)
(* SyncOpKeyOplog, for which logs that expired are cleaned first.          *)
GetOldestOpKey(v) == IF v.infos # {} /\ v.oldest = 0 THEN getOldestOpKeyFullScan(v) ELSE v

CleanExpired(v) == HandleFailedOplogs(v, {l \in v.log : IsExpired(l.ts)})

SyncOpKeyOplog(n, m) ==
    /\ n # m /\ Cardinality(wire) < MaxFlight
    /\ \E w \in {GetOldestOpKey(CleanExpired(View(n)))} :
          /\ Save(n, w)
          /\ wire' = IF w.oldest = 0 THEN wire
                     ELSE wire \cup {[code |-> "Op", from |-> n, to |-> m, key |-> w.oldest,
                                           keys |-> {}, logs |-> w.log]}
    /\ UNCHANGED <<now, timer, faults>>

(* HandleCodeOp: the message is handled by the entity of the key, and the  *)
(* answers to it bring the content of the keys.                            *)
HandleCodeOp(n) == \E x \in wire :
    /\ x.to = n /\ x.code = "Op"
    /\ \/ /\ x.key \notin ops[n]
          /\ Reply(x, "OpFail", Body(x.key))
          /\ UNCHANGED <<opKey, opLog, opKeyInfos, newest, oldest, ops>>
       \/ /\ x.key \in ops[n]
          /\ Save(n, Take(View(n), x.logs, opKeyInfos[x.from]))
          /\ wire' = wire \ {x}
    /\ UNCHANGED <<now, timer, faults>>

HandleOpFail(n) == \E x \in wire :
    /\ x.to = n /\ x.code = "OpFail"
    /\ IF x.key \in ops[n] THEN Reply(x, "RequestOpKey", Keys(View(n))) ELSE wire' = wire \ {x}
    /\ UNCHANGED <<now, timer, faults, opKey, opLog, opKeyInfos, newest, oldest, ops>>

HandleRequestOpKey(n) == \E x \in wire :
    /\ x.to = n /\ x.code = "RequestOpKey"
    /\ \E v \in {Take(View(n), x.logs, x.keys)} :
          Save(n, v) /\ Reply(x, "RequestOpKeyAck", Keys(v))
    /\ UNCHANGED <<now, timer, faults>>

HandleRequestOpKeyAck(n) == \E x \in wire :
    /\ x.to = n /\ x.code = "RequestOpKeyAck"
    /\ Save(n, Take(View(n), x.logs, x.keys))
    /\ wire' = wire \ {x}
    /\ UNCHANGED <<now, timer, faults>>

HandleMessage(n) ==
    HandleCodeOp(n) \/ HandleOpFail(n) \/ HandleRequestOpKey(n) \/ HandleRequestOpKeyAck(n)

-----------------------------------------------------------------------------
(* Prestart: keys of the database that expired go, with their logs; the    *)
(* others are registered.                                                  *)
RECURSIVE registerOpKeys(_, _)
registerOpKeys(v, K) ==
    IF K = {} THEN v ELSE LET k == CHOOSE x \in K : TRUE IN registerOpKeys(RegisterOpKey(v, k), K \ {k})
RECURSIVE ExpireOpKeyInfos(_, _)
ExpireOpKeyInfos(v, K) ==
    IF K = {} THEN v ELSE LET k == CHOOSE x \in K : TRUE IN ExpireOpKeyInfos(ExpireOpKeyInfo(v, k), K \ {k})

loadOpKeyInfos(v) ==
    LET dead == {k \in Key : v.key[k] # NoKey /\ IsExpired(v.key[k].ts)}
        w == ExpireOpKeyInfos([v EXCEPT !.infos = {}, !.ops = {}, !.newest = 0, !.oldest = 0], dead)
    IN  registerOpKeys(w, {k \in Key : w.key[k].st = "alive"})

Restart(n) ==
    /\ faults.failures < MaxFaults
    /\ faults' = [faults EXCEPT !.failures = @ + 1]
    /\ Save(n, loadOpKeyInfos(View(n)))
    /\ timer' = IF n = Master THEN now ELSE timer       \* StartPM runs the loop
    /\ wire' = {x \in wire : x.to # n}
    /\ UNCHANGED now

Lose == \E x \in wire :
    /\ faults.failures < MaxFaults
    /\ faults' = [faults EXCEPT !.failures = @ + 1]
    /\ wire' = wire \ {x}
    /\ UNCHANGED <<now, timer, opKey, opLog, opKeyInfos, newest, oldest, ops>>

Tick ==
    /\ now < MaxTime /\ now < timer
    /\ now' = now + 1
    /\ UNCHANGED <<timer, opKey, opLog, opKeyInfos, newest, oldest, ops, wire, faults>>

-----------------------------------------------------------------------------
(* The master made the entity and its first key (ForceCreateOpKey).        *)
Init ==
    /\ now = 1 /\ timer = 1
    /\ opKey = [n \in Node |-> [k \in Key |-> IF n = Master /\ k = 1 THEN [st |-> "alive", ts |-> 1] ELSE NoKey]]
    /\ opLog = [n \in Node |-> IF n = Master THEN {CreateLog(1)} ELSE {}]
    /\ opKeyInfos = [n \in Node |-> IF n = Master THEN {1} ELSE {}]
    /\ ops = opKeyInfos
    /\ newest = [n \in Node |-> IF n = Master THEN 1 ELSE 0] /\ oldest = newest
    /\ wire = {} /\ faults = [revokes |-> 0, failures |-> 0]

Next ==
    \/ Tick \/ CreateOpKeyLoop \/ Lose
    \/ \E k \in Key : RevokeOpKey(k)
    \/ \E n \in Node : Restart(n) \/ HandleMessage(n) \/ \E m \in Node : SyncOpKeyOplog(n, m)

Spec == Init /\ [][Next]_kvars

-----------------------------------------------------------------------------

(* Whatever was lost, expired or revoked before, one exchange that is not  *)
(* lost is enough: afterwards the other node knows the key with which this *)
(* one encrypts, and uses none of the keys that this one revoked.  Except  *)
(* when a node holds a revoke log whose create log expired before it:      *)
(* where that one is not known, every later key is refused with it (Good). *)
Orphan(v) == \E l \in v.log : l.op = "revoke" /\ CreateLog(l.key) \notin v.log
OneExchangeSuffices ==
    \A n, m \in Node :
        LET u == CleanExpired(View(n))                          \* SyncOpKeyOplog
            w == Take(View(m), u.log, u.infos)                  \* HandleRequestOpKey
            v == GetOldestOpKey(Take(u, w.log, w.infos))        \* HandleRequestOpKeyAck
        IN  ~Orphan(u) /\ ~Orphan(View(m)) =>
                /\ v.oldest \in w.ops \cup {0}
                /\ \A l \in v.log \cup w.log : l.op = "revoke" => l.key \notin v.ops \cup w.ops
=============================================================================
