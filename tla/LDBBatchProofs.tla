--------------------------- MODULE LDBBatchProofs ---------------------------
(***************************************************************************)
(* LDBBatch for any number of goroutines, ids and timestamps.  What the    *)
(* puts overwrite (NewerStays) needs only that the lock map excludes and   *)
(* that the shared batch holds entries of goroutines which are putting     *)
(* them (LockInv, BatchInv).  That index and records stay together needs   *)
(* that nobody else resets the batch, which the lock map gives for one id  *)
(* only: those theorems are about one id (OneId), and the run              *)
(* ldb_batch_shared shows that they fail for two.                          *)
(***************************************************************************)
EXTENDS LDBBatch, FiniteSetTheorems, TLAPS

K == [id : Ids, ts : 0 .. MaxTS, kind : {"log", "merkle"}]
Idx == [ts : 0 .. MaxTS, keys : Seq(K)]
CallRec == [op : AllOps, id : Ids, idx : Idx \cup {NoIndex}, orig : Idx \cup {NoIndex}, todo : Seq(K)]
Putting == {"reset", "putIndex", "putAll", "resetAfter"}
PCs == Putting \cup {"idle", "readIndex", "getData", "deleteKeys"}

CallOK(t) ==
    /\ dbCall[t] \in CallRec
    /\ isPut(t) => /\ dbCall[t].idx \in Idx /\ dbCall[t].idx # NoIndex
                   /\ \A k \in KeySet(dbCall[t].idx.keys) : k.id = id(t)
    /\ pc[t] \in Putting => isPut(t)
    /\ pc[t] = "deleteKeys" => dbCall[t].op # "GetByIdxKey"
    /\ pc[t] = "getData" => dbCall[t].op = "GetByIdxKey"

(* The types, with what a goroutine in a call has among its variables.     *)
TypeInv ==
    /\ index \in [Ids -> Idx \cup {NoIndex}]
    /\ data \subseteq K
    /\ batch \in [idxs : SUBSET [id : Ids, idx : Idx], kvs : SUBSET K]
    /\ dbLockMap \in [Ids -> Int]
    /\ pc \in [Threads -> PCs]
    /\ dbCall \in [Threads -> CallRec \cup {NoCall}]
    /\ \A t \in Threads : pc[t] # "idle" => CallOK(t)

Assumptions == LDBBatchAssumption /\ NoIndexAssumption

(* An Index as a caller builds it is an Index, of the id.                  *)
LEMMA IndexesType ==
  ASSUME Assumptions, NEW i \in Ids, NEW x \in Indexes(i)
  PROVE  x \in Idx /\ x # NoIndex /\ \A k \in KeySet(x.keys) : k.id = i
<1>0. PICK ts \in 0 .. MaxTS : x \in {Index(ts, keys) : keys \in KeyLists(i, ts)}
  BY DEF Indexes
<1>1. PICK keys \in KeyLists(i, ts) : x = Index(ts, keys)
  BY <1>0
<1>2. keys \in Seq(K) /\ \A k \in KeySet(keys) : k.id = i
  <2>1. Key(i, ts, "log") \in K /\ Key(i, ts, "merkle") \in K
    BY DEF Key, K
  <2>2. CASE keys = <<Key(i, ts, "log")>>
    BY <2>1, <2>2 DEF KeySet, Key
  <2>3. CASE keys = <<Key(i, ts, "log"), Key(i, ts, "merkle")>>
    BY <2>1, <2>3 DEF KeySet, Key
  <2> QED BY <2>2, <2>3 DEF KeyLists
<1>3. x \in Idx /\ x.keys = keys
  BY <1>1, <1>2 DEF Index, Idx
<1> QED BY <1>2, <1>3 DEF Assumptions, NoIndexAssumption

(* A list of keys is its first and the rest.                               *)
LEMMA HeadTail ==
  ASSUME NEW s \in Seq(K), s # <<>>
  PROVE  Head(s) \in K /\ Tail(s) \in Seq(K) /\ KeySet(s) = {Head(s)} \cup KeySet(Tail(s))
<1>1. Head(s) \in K /\ Tail(s) \in Seq(K) /\ Len(s) \in Nat /\ Len(s) >= 1 /\ Head(s) = s[1]
  OBVIOUS
<1>2. DOMAIN s = 1 .. Len(s) /\ DOMAIN Tail(s) = 1 .. Len(s) - 1
  OBVIOUS
<1>3. \A j \in 1 .. Len(s) - 1 : Tail(s)[j] = s[j + 1]
  OBVIOUS
<1>4. KeySet(s) \subseteq {Head(s)} \cup KeySet(Tail(s))
  <2> SUFFICES ASSUME NEW j \in 1 .. Len(s), j # 1 PROVE s[j] \in KeySet(Tail(s))
    BY <1>1, <1>2 DEF KeySet
  <2>1. j - 1 \in 1 .. Len(s) - 1 /\ Tail(s)[j - 1] = s[j]
    BY <1>1, <1>3
  <2> QED BY <2>1, <1>2 DEF KeySet
<1>5. {Head(s)} \cup KeySet(Tail(s)) \subseteq KeySet(s)
  BY <1>1, <1>2, <1>3 DEF KeySet
<1> QED BY <1>1, <1>4, <1>5

LEMMA TypeInit == DBInit => TypeInv
BY DEF DBInit, TypeInv, EmptyBatch, PCs

(* What a goroutine has in a call is not disturbed by the others.          *)
LEMMA OthersOK ==
  ASSUME NEW u \in Threads, pc[u] # "idle" => CallOK(u),
         pc'[u] = pc[u], dbCall'[u] = dbCall[u], pc'[u] # "idle"
  PROVE  CallOK(u)'
BY DEF CallOK, isPut, id

(* Every step keeps the types.                                             *)
LEMMA TypeStep == ASSUME Assumptions, TypeInv, [DBNext]_dbvars PROVE TypeInv'
<1>1. CASE UNCHANGED dbvars
  BY <1>1 DEF dbvars, TypeInv, CallOK, isPut, id
<1>2. ASSUME NEW t \in Threads, NEW c \in DBCalls, Call(t, c) PROVE TypeInv'
  <2>1. c \in CallRec /\ (c.op \in PutOps => c.idx \in Idx /\ c.idx # NoIndex /\ \A k \in KeySet(c.idx.keys) : k.id = c.id)
    <3>1. PICK i \in Ids : \/ \E op \in DBOps \cap PutOps, idx \in Indexes(i) : c = Started(op, i, idx)
                           \/ \E op \in DBOps \ PutOps : c = Started(op, i, NoIndex)
      BY DEF DBCalls
    <3>2. DBOps \subseteq AllOps
      BY DEF Assumptions, LDBBatchAssumption
    <3>3. CASE \E op \in DBOps \cap PutOps, idx \in Indexes(i) : c = Started(op, i, idx)
      BY <3>2, <3>3, IndexesType DEF Started, CallRec
    <3>4. CASE \E op \in DBOps \ PutOps : c = Started(op, i, NoIndex)
      BY <3>2, <3>4 DEF Started, CallRec
    <3> QED BY <3>1, <3>3, <3>4
  <2>2. dbLockMap' \in [Ids -> Int]
    BY <1>2, <2>1 DEF Call, TryRLockMap, TryLockMap, TypeInv, CallRec
  <2>3. CallOK(t)'
    BY <1>2, <2>1 DEF Call, Goto, TypeInv, CallOK, isPut, id, Putting
  <2> QED BY <1>2, <2>1, <2>2, <2>3, OthersOK DEF TypeInv, Call, Goto, PCs, db
<1>3. ASSUME NEW t \in Threads, Step(t) PROVE TypeInv'
  <2>1. pc[t] # "idle" /\ CallOK(t) /\ id(t) \in Ids
    BY <1>3 DEF Step, ReadNoIndex, ReadIndex, GetData, DeleteKey, DeletedKeys, Reset, PutIndex,
                PutKey, Write, ResetAfter, TypeInv, CallOK, CallRec, id
  <2>2. ASSUME Returns(t) PROVE /\ dbLockMap' \in [Ids -> Int] /\ pc' \in [Threads -> PCs]
                               /\ dbCall' \in [Threads -> CallRec \cup {NoCall}]
                               /\ \A u \in Threads : pc'[u] # "idle" => CallOK(u)'
    BY <2>1, <2>2, OthersOK DEF Returns, Leave, Goto, RUnlockMap, UnlockMap, TypeInv, PCs
  <2>3. CASE ReadNoIndex(t)
    <3>1. CASE isPut(t)
      <4>1. pc' = [pc EXCEPT ![t] = "reset"] /\ UNCHANGED <<db, batch, torn, dbLockMap, dbCall>>
        BY <2>3, <3>1 DEF ReadNoIndex, Goto
      <4>2. CallOK(t)'
        BY <2>1, <3>1, <4>1 DEF CallOK, isPut, id, TypeInv
      <4> QED BY <4>1, <4>2, OthersOK DEF TypeInv, PCs, Putting, db
    <3>2. CASE ~isPut(t)
      BY <2>2, <2>3, <3>2 DEF ReadNoIndex, TypeInv, db
    <3> QED BY <3>1, <3>2
  <2>4. CASE ReadIndex(t)
    <3> DEFINE d == index[id(t)]
    <3>1. d \in Idx /\ d.keys \in Seq(K)
      BY <2>1, <2>4 DEF ReadIndex, TypeInv, Idx
    <3>2. CASE isPut(t) /\ Refused(t, d)
      BY <2>2, <2>4, <3>2 DEF ReadIndex, TypeInv, db
    <3>3. CASE ~(isPut(t) /\ Refused(t, d))
      <4> DEFINE q == IF dbCall[t].op = "GetByIdxKey" THEN "getData" ELSE "deleteKeys"
      <4>1. /\ pc' = [pc EXCEPT ![t] = q] /\ dbCall' = [dbCall EXCEPT ![t].orig = d, ![t].todo = d.keys]
            /\ UNCHANGED <<index, data, batch, torn, dbLockMap>>
        BY <2>4, <3>3 DEF ReadIndex, Goto, db
      <4>2. CallOK(t)' /\ dbCall'[t] \in CallRec
        BY <2>1, <3>1, <4>1 DEF CallOK, CallRec, isPut, id, TypeInv, Putting
      <4>3. \A u \in Threads : u # t => pc'[u] = pc[u] /\ dbCall'[u] = dbCall[u]
        BY <4>1 DEF TypeInv
      <4>4. dbCall' \in [Threads -> CallRec \cup {NoCall}] /\ pc' \in [Threads -> PCs]
        BY <4>1, <4>2, <4>3 DEF TypeInv, PCs
      <4> QED BY <4>1, <4>2, <4>3, <4>4, OthersOK DEF TypeInv
    <3> QED BY <3>2, <3>3
  <2>5. CASE GetData(t)
    BY <2>2, <2>5 DEF GetData, TypeInv, db
  <2>6. CASE DeleteKey(t)
    <3>1. Tail(dbCall[t].todo) \in Seq(K)
      BY <2>1, <2>6, HeadTail DEF DeleteKey, CallOK, CallRec
    <3>2. CallOK(t)' /\ dbCall'[t] \in CallRec
      BY <2>1, <2>6, <3>1 DEF DeleteKey, CallOK, CallRec, isPut, id, TypeInv, Putting
    <3>3. \A u \in Threads : u # t => pc'[u] = pc[u] /\ dbCall'[u] = dbCall[u]
      BY <2>6 DEF DeleteKey, TypeInv
    <3>4. dbCall' \in [Threads -> CallRec \cup {NoCall}]
      BY <2>6, <3>2, <3>3 DEF DeleteKey, TypeInv
    <3> QED BY <2>6, <3>2, <3>3, <3>4, OthersOK DEF DeleteKey, TypeInv
  <2>7. CASE DeletedKeys(t)
    <3>1. CASE isPut(t)
      <4>1. pc' = [pc EXCEPT ![t] = "reset"] /\ UNCHANGED <<index, data, batch, torn, dbLockMap, dbCall>>
        BY <2>7, <3>1 DEF DeletedKeys, Goto
      <4>2. CallOK(t)'
        BY <2>1, <3>1, <4>1 DEF CallOK, isPut, id, TypeInv
      <4> QED BY <4>1, <4>2, OthersOK DEF TypeInv, PCs, Putting
    <3>2. CASE ~isPut(t)
      BY <2>1, <2>2, <2>7, <3>2 DEF DeletedKeys, TypeInv
    <3> QED BY <3>1, <3>2
  <2>8. CASE Reset(t)
    <3>1. CallOK(t)'
      BY <2>1, <2>8 DEF Reset, Goto, CallOK, isPut, id, TypeInv, Putting
    <3> QED BY <2>8, <3>1, OthersOK DEF Reset, Goto, TypeInv, PCs, Putting, EmptyBatch, db
  <2>9. CASE PutIndex(t)
    <3>1. isPut(t) /\ dbCall[t].idx \in Idx /\ dbCall[t].idx.keys \in Seq(K)
      BY <2>1, <2>9 DEF PutIndex, CallOK, Putting, Idx
    <3>2. CallOK(t)' /\ dbCall'[t] \in CallRec
      BY <2>1, <2>9, <3>1 DEF PutIndex, Goto, CallOK, CallRec, isPut, id, TypeInv, Putting
    <3>3. \A u \in Threads : u # t => pc'[u] = pc[u] /\ dbCall'[u] = dbCall[u]
      BY <2>9 DEF PutIndex, Goto, TypeInv
    <3>4. dbCall' \in [Threads -> CallRec \cup {NoCall}] /\ pc' \in [Threads -> PCs]
      BY <2>9, <3>2, <3>3 DEF PutIndex, Goto, TypeInv, PCs, Putting
    <3>5. batch' \in [idxs : SUBSET [id : Ids, idx : Idx], kvs : SUBSET K]
      <4>1. IdxEntry(id(t), dbCall[t].idx) \in [id : Ids, idx : Idx]
        BY <2>1, <3>1 DEF IdxEntry
      <4> QED BY <2>9, <4>1 DEF PutIndex, TypeInv
    <3> QED BY <2>9, <3>2, <3>3, <3>4, <3>5, OthersOK DEF PutIndex, TypeInv, db
  <2>10. CASE PutKey(t)
    <3>1. Tail(dbCall[t].todo) \in Seq(K) /\ Head(dbCall[t].todo) \in K
      BY <2>1, <2>10, HeadTail DEF PutKey, CallOK, CallRec
    <3>2. CallOK(t)' /\ dbCall'[t] \in CallRec
      BY <2>1, <2>10, <3>1 DEF PutKey, CallOK, CallRec, isPut, id, TypeInv, Putting
    <3>3. \A u \in Threads : u # t => pc'[u] = pc[u] /\ dbCall'[u] = dbCall[u]
      BY <2>10 DEF PutKey, TypeInv
    <3>4. dbCall' \in [Threads -> CallRec \cup {NoCall}]
      BY <2>10, <3>2, <3>3 DEF PutKey, TypeInv
    <3>5. batch' \in [idxs : SUBSET [id : Ids, idx : Idx], kvs : SUBSET K]
      BY <2>10, <3>1 DEF PutKey, TypeInv
    <3> QED BY <2>10, <3>2, <3>3, <3>4, <3>5, OthersOK DEF PutKey, TypeInv, db
  <2>11. CASE Write(t)
    <3>1. CallOK(t)'
      BY <2>1, <2>11 DEF Write, Goto, CallOK, isPut, id, TypeInv, Putting
    <3>2. index' \in [Ids -> Idx \cup {NoIndex}]
      <4> SUFFICES ASSUME NEW i \in Ids PROVE index'[i] \in Idx \cup {NoIndex}
        BY <2>11 DEF Write
      <4>1. CASE \E e \in batch.idxs : e.id = i
        <5> DEFINE e == CHOOSE e \in batch.idxs : e.id = i
        <5>1. e \in batch.idxs
          BY <4>1
        <5>2. index'[i] = e.idx
          BY <2>11, <4>1 DEF Write
        <5> QED BY <5>1, <5>2 DEF TypeInv
      <4>2. CASE ~\E e \in batch.idxs : e.id = i
        BY <2>11, <4>2 DEF Write, TypeInv
      <4> QED BY <4>1, <4>2
    <3>3. data' \subseteq K
      BY <2>11 DEF Write, TypeInv
    <3> QED BY <2>11, <3>1, <3>2, <3>3, OthersOK DEF Write, Goto, TypeInv, PCs, Putting
  <2>12. CASE ResetAfter(t)
    BY <2>2, <2>12 DEF ResetAfter, TypeInv, EmptyBatch, db
  <2> QED BY <1>3, <2>3, <2>4, <2>5, <2>6, <2>7, <2>8, <2>9, <2>10, <2>11, <2>12 DEF Step
<1>4. CASE Crash
  BY <1>4 DEF Crash, TypeInv, EmptyBatch, PCs, db
<1> QED BY <1>1, <1>2, <1>3, <1>4 DEF DBNext

-----------------------------------------------------------------------------
(* Who is in a call on an id, to write or to read.                         *)
Writers(i) == {t \in Threads : pc[t] # "idle" /\ dbCall[t].op # "GetByIdxKey" /\ id(t) = i}
Readers(i) == {t \in Threads : pc[t] # "idle" /\ dbCall[t].op = "GetByIdxKey" /\ id(t) = i}

Locked(i) ==
    /\ dbLockMap[i] = -1 => Readers(i) = {} /\ \E t \in Threads : Writers(i) = {t}
    /\ dbLockMap[i] # -1 => Writers(i) = {} /\ dbLockMap[i] = Cardinality(Readers(i))

(* The lock map says who is in a call: one writer, or a number of readers. *)
LockInv == \A i \in Ids : Locked(i)

LEMMA ReadersFinite ==
  ASSUME Assumptions, NEW i \in Ids
  PROVE  /\ IsFiniteSet(Readers(i)) /\ Cardinality(Readers(i)) \in Nat
         /\ Cardinality(Readers(i)) = 0 <=> Readers(i) = {}
BY FS_Subset, FS_CardinalityType, FS_EmptySet DEF Readers, Assumptions, LDBBatchAssumption

(* A goroutine that takes no lock and releases none changes neither.       *)
LEMMA LockSame ==
  ASSUME TypeInv, LockInv, NEW t \in Threads, pc[t] # "idle", pc'[t] # "idle",
         dbCall'[t].op = dbCall[t].op, dbCall'[t].id = dbCall[t].id, dbLockMap' = dbLockMap,
         \A u \in Threads : u # t => pc'[u] = pc[u] /\ dbCall'[u] = dbCall[u]
  PROVE  LockInv'
<1> SUFFICES ASSUME NEW i \in Ids PROVE Locked(i)'
  BY DEF LockInv
<1>1. Writers(i)' = Writers(i) /\ Readers(i)' = Readers(i)
  BY DEF Writers, Readers, id
<1> QED BY <1>1 DEF LockInv, Locked

LEMMA LockCall ==
  ASSUME Assumptions, TypeInv, LockInv, NEW t \in Threads, NEW c \in DBCalls, Call(t, c), c.id \in Ids
  PROVE  LockInv'
<1> SUFFICES ASSUME NEW i \in Ids PROVE Locked(i)'
  BY DEF LockInv
<1>1. /\ pc[t] = "idle" /\ pc'[t] # "idle" /\ dbCall'[t] = c
      /\ \A u \in Threads : u # t => pc'[u] = pc[u] /\ dbCall'[u] = dbCall[u]
  BY DEF Call, Goto, TypeInv
<1>2. CASE i # c.id
  <2>1. Writers(i)' = Writers(i) /\ Readers(i)' = Readers(i)
    BY <1>1, <1>2 DEF Writers, Readers, id
  <2>2. dbLockMap'[i] = dbLockMap[i]
    BY <1>2 DEF Call, TryRLockMap, TryLockMap, TypeInv
  <2> QED BY <2>1, <2>2 DEF LockInv, Locked
<1>3. CASE i = c.id /\ c.op = "GetByIdxKey"
  <2>1. dbLockMap[i] >= 0 /\ dbLockMap'[i] = dbLockMap[i] + 1
    BY <1>3 DEF Call, TryRLockMap, TypeInv
  <2>2. Writers(i) = {} /\ dbLockMap[i] = Cardinality(Readers(i))
    BY <2>1 DEF LockInv, Locked
  <2>3. Writers(i)' = {} /\ Readers(i)' = Readers(i) \cup {t} /\ t \notin Readers(i)
    BY <1>1, <1>3, <2>2 DEF Writers, Readers, id
  <2>4. Cardinality(Readers(i)') = Cardinality(Readers(i)) + 1
    BY <2>3, ReadersFinite, FS_AddElement
  <2> QED BY <2>1, <2>2, <2>3, <2>4, ReadersFinite DEF Locked
<1>4. CASE i = c.id /\ c.op # "GetByIdxKey"
  <2>1. dbLockMap[i] = 0 /\ dbLockMap'[i] = -1
    BY <1>4 DEF Call, TryLockMap, TypeInv
  <2>2. Writers(i) = {} /\ Readers(i) = {}
    BY <2>1, ReadersFinite DEF LockInv, Locked
  <2>3. Writers(i)' = {t} /\ Readers(i)' = {}
    BY <1>1, <1>4, <2>2 DEF Writers, Readers, id
  <2> QED BY <2>1, <2>3 DEF Locked
<1> QED BY <1>2, <1>3, <1>4

LEMMA LockReturn ==
  ASSUME Assumptions, TypeInv, LockInv, NEW t \in Threads, pc[t] # "idle", Returns(t)
  PROVE  LockInv'
<1> SUFFICES ASSUME NEW i \in Ids PROVE Locked(i)'
  BY DEF LockInv
<1>1. /\ pc'[t] = "idle" /\ id(t) \in Ids
      /\ \A u \in Threads : u # t => pc'[u] = pc[u] /\ dbCall'[u] = dbCall[u]
  BY DEF Returns, Leave, Goto, TypeInv, CallOK, CallRec, id
<1>2. CASE i # id(t)
  <2>1. Writers(i)' = Writers(i) /\ Readers(i)' = Readers(i)
    BY <1>1, <1>2 DEF Writers, Readers, id
  <2>2. dbLockMap'[i] = dbLockMap[i]
    BY <1>2 DEF Returns, RUnlockMap, UnlockMap, TypeInv
  <2> QED BY <2>1, <2>2 DEF LockInv, Locked
<1>3. CASE i = id(t) /\ dbCall[t].op = "GetByIdxKey"
  <2>1. t \in Readers(i) /\ dbLockMap'[i] = dbLockMap[i] - 1
    BY <1>3 DEF Readers, Returns, RUnlockMap, TypeInv
  <2>2. Writers(i) = {} /\ dbLockMap[i] = Cardinality(Readers(i))
    BY <2>1 DEF LockInv, Locked
  <2>3. Writers(i)' = {} /\ Readers(i)' = Readers(i) \ {t}
    BY <1>1, <1>3, <2>2 DEF Writers, Readers, id
  <2>4. Cardinality(Readers(i)') = Cardinality(Readers(i)) - 1
    BY <2>1, <2>3, ReadersFinite, FS_RemoveElement
  <2>5. Cardinality(Readers(i)) \in Nat /\ Cardinality(Readers(i)) # 0
    BY <2>1, ReadersFinite
  <2> QED BY <2>1, <2>2, <2>3, <2>4, <2>5 DEF Locked
<1>4. CASE i = id(t) /\ dbCall[t].op # "GetByIdxKey"
  <2>1. t \in Writers(i) /\ dbLockMap'[i] = 0
    BY <1>4 DEF Writers, Returns, UnlockMap, TypeInv
  <2>2. Writers(i) = {t} /\ Readers(i) = {}
    BY <2>1 DEF LockInv, Locked
  <2>3. Writers(i)' = {} /\ Readers(i)' = {}
    BY <1>1, <2>2 DEF Writers, Readers, id
  <2> QED BY <2>1, <2>3, FS_EmptySet DEF Locked
<1> QED BY <1>2, <1>3, <1>4

(* A step of a goroutine ends its call, or leaves the lock and the         *)
(* arguments of the call alone.                                            *)
LEMMA StepShape ==
  ASSUME TypeInv, NEW t \in Threads, Step(t)
  PROVE  /\ pc[t] # "idle" /\ CallOK(t) /\ id(t) \in Ids
         /\ \A u \in Threads : u # t => pc'[u] = pc[u] /\ dbCall'[u] = dbCall[u]
         /\ \/ Returns(t)
            \/ /\ pc'[t] # "idle" /\ dbLockMap' = dbLockMap
               /\ dbCall'[t].op = dbCall[t].op /\ dbCall'[t].id = dbCall[t].id /\ dbCall'[t].idx = dbCall[t].idx
<1>1. pc[t] # "idle" /\ CallOK(t) /\ id(t) \in Ids
  BY DEF Step, ReadNoIndex, ReadIndex, GetData, DeleteKey, DeletedKeys, Reset, PutIndex,
         PutKey, Write, ResetAfter, TypeInv, CallOK, CallRec, id
<1>2. ASSUME Returns(t) PROVE \A u \in Threads : u # t => pc'[u] = pc[u] /\ dbCall'[u] = dbCall[u]
  BY <1>2 DEF Returns, Leave, Goto, TypeInv
<1>3. dbCall[t] \in CallRec /\ dbCall \in [Threads -> CallRec \cup {NoCall}] /\ pc \in [Threads -> PCs]
  BY <1>1 DEF CallOK, TypeInv
<1>4. CASE ReadNoIndex(t)
  BY <1>1, <1>2, <1>3, <1>4 DEF ReadNoIndex, Goto
<1>5. CASE ReadIndex(t)
  BY <1>1, <1>2, <1>3, <1>5 DEF ReadIndex, Goto, CallRec
<1>6. CASE GetData(t) \/ ResetAfter(t)
  BY <1>1, <1>2, <1>6 DEF GetData, ResetAfter
<1>7. CASE DeleteKey(t) \/ PutKey(t)
  BY <1>1, <1>3, <1>7 DEF DeleteKey, PutKey, CallRec
<1>8. CASE DeletedKeys(t)
  BY <1>1, <1>2, <1>3, <1>8 DEF DeletedKeys, Goto
<1>9. CASE Reset(t) \/ Write(t)
  BY <1>1, <1>3, <1>9 DEF Reset, Write, Goto
<1>10. CASE PutIndex(t)
  BY <1>1, <1>3, <1>10 DEF PutIndex, Goto, CallRec
<1> QED BY <1>4, <1>5, <1>6, <1>7, <1>8, <1>9, <1>10 DEF Step

LEMMA LockStep == ASSUME Assumptions, TypeInv, LockInv, [DBNext]_dbvars PROVE LockInv'
<1>1. CASE UNCHANGED dbvars
  BY <1>1 DEF dbvars, LockInv, Locked, Writers, Readers, id
<1>2. ASSUME NEW t \in Threads, NEW c \in DBCalls, Call(t, c) PROVE LockInv'
  BY <1>2, LockCall DEF DBCalls, Started
<1>3. ASSUME NEW t \in Threads, Step(t) PROVE LockInv'
  BY <1>3, StepShape, LockSame, LockReturn
<1>4. CASE Crash
  <2> SUFFICES ASSUME NEW i \in Ids PROVE Locked(i)'
    BY DEF LockInv
  <2>1. Writers(i)' = {} /\ Readers(i)' = {} /\ dbLockMap'[i] = 0
    BY <1>4 DEF Crash, Writers, Readers
  <2> QED BY <2>1, FS_EmptySet DEF Locked
<1> QED BY <1>1, <1>2, <1>3, <1>4 DEF DBNext

(* Nobody else is in a call on the id of a writer.                         *)
LEMMA Exclusive ==
  ASSUME LockInv, NEW t \in Threads, NEW u \in Threads, pc[t] # "idle", pc[u] # "idle",
         dbCall[t].op # "GetByIdxKey", id(t) \in Ids, id(u) = id(t)
  PROVE  u = t
<1>1. t \in Writers(id(t)) /\ (u \in Writers(id(t)) \/ u \in Readers(id(t)))
  BY DEF Writers, Readers
<1> QED BY <1>1 DEF LockInv, Locked

-----------------------------------------------------------------------------
(* What is in the shared batch is being put by somebody who holds the lock *)
(* of its id.                                                              *)
BatchInv ==
    \A e \in batch.idxs : \E t \in Threads :
        pc[t] \in {"putAll", "resetAfter"} /\ id(t) = e.id /\ dbCall[t].idx = e.idx

(* A put that compared UpdateTS and goes on is still newer than what is    *)
(* stored.                                                                 *)
IsNewer(t) ==
    /\ pc[t] \in {"deleteKeys", "reset", "putIndex", "putAll"} /\ isPut(t)
    /\ dbCall[t].op # "ForcePutAll" /\ index[id(t)] # NoIndex
    => index[id(t)].ts <= dbCall[t].idx.ts
NewerInv == \A t \in Threads : IsNewer(t)

LEMMA BatchStep == ASSUME TypeInv, BatchInv, [DBNext]_dbvars PROVE BatchInv'
<1>1. CASE UNCHANGED dbvars
  BY <1>1 DEF dbvars, BatchInv, id
<1>2. ASSUME NEW t \in Threads, NEW c \in DBCalls, Call(t, c) PROVE BatchInv'
  BY <1>2 DEF Call, Goto, TypeInv, BatchInv, id
<1>3. ASSUME NEW t \in Threads, Step(t) PROVE BatchInv'
  <2>1. /\ pc[t] # "idle" /\ \A u \in Threads : u # t => pc'[u] = pc[u] /\ dbCall'[u] = dbCall[u]
        /\ pc'[t] # "idle" => dbCall'[t].id = dbCall[t].id /\ dbCall'[t].idx = dbCall[t].idx
    BY <1>3, StepShape DEF Returns, Leave, Goto, TypeInv
  <2>2. CASE Reset(t) \/ ResetAfter(t)
    BY <2>2 DEF Reset, ResetAfter, EmptyBatch, BatchInv
  <2>3. CASE PutIndex(t)
    <3>1. pc'[t] = "putAll" /\ pc[t] = "putIndex" /\ batch'.idxs = batch.idxs \cup {IdxEntry(id(t), dbCall[t].idx)}
      BY <2>3 DEF PutIndex, Goto, TypeInv
    <3>2. id(t)' = id(t) /\ dbCall'[t].idx = dbCall[t].idx
      BY <2>1, <3>1 DEF id
    <3> QED BY <2>1, <3>1, <3>2 DEF BatchInv, IdxEntry, id
  <2>4. CASE PutKey(t) \/ Write(t)
    <3>1. pc[t] = "putAll" /\ pc'[t] \in {"putAll", "resetAfter"} /\ batch'.idxs = batch.idxs
      BY <2>4 DEF PutKey, Write, Goto, TypeInv
    <3> QED BY <2>1, <3>1 DEF BatchInv, id
  <2>5. CASE ReadNoIndex(t) \/ ReadIndex(t) \/ GetData(t) \/ DeleteKey(t) \/ DeletedKeys(t)
    <3>1. pc[t] \notin {"putAll", "resetAfter"} /\ batch' = batch
      BY <2>5 DEF ReadNoIndex, ReadIndex, GetData, DeleteKey, DeletedKeys
    <3> QED BY <2>1, <3>1 DEF BatchInv, id
  <2> QED BY <1>3, <2>2, <2>3, <2>4, <2>5 DEF Step
<1>4. CASE Crash
  BY <1>4 DEF Crash, EmptyBatch, BatchInv
<1> QED BY <1>1, <1>2, <1>3, <1>4 DEF DBNext

LEMMA NewerStep ==
  ASSUME Assumptions, TypeInv, LockInv, BatchInv, NewerInv, [DBNext]_dbvars PROVE NewerInv'
<1>1. CASE UNCHANGED dbvars
  BY <1>1 DEF dbvars, NewerInv, IsNewer, isPut, id
<1>2. ASSUME NEW t \in Threads, NEW c \in DBCalls, Call(t, c) PROVE NewerInv'
  BY <1>2 DEF Call, Goto, TypeInv, NewerInv, IsNewer, isPut, id, db
<1>3. ASSUME NEW t \in Threads, Step(t) PROVE NewerInv'
  <2> SUFFICES ASSUME NEW u \in Threads, pc'[u] \in {"deleteKeys", "reset", "putIndex", "putAll"}, isPut(u)',
                      dbCall'[u].op # "ForcePutAll", (index[id(u)] # NoIndex)'
               PROVE  (index[id(u)].ts <= dbCall[u].idx.ts)'
    BY DEF NewerInv, IsNewer
  <2>1. /\ pc[t] # "idle" /\ CallOK(t) /\ id(t) \in Ids
        /\ \A w \in Threads : w # t => pc'[w] = pc[w] /\ dbCall'[w] = dbCall[w]
        /\ pc'[t] # "idle" => dbCall'[t].id = dbCall[t].id /\ dbCall'[t].idx = dbCall[t].idx /\ dbCall'[t].op = dbCall[t].op
    BY <1>3, StepShape DEF Returns, Leave, Goto, TypeInv
  <2>2. /\ id(u)' = id(u) /\ dbCall'[u].idx = dbCall[u].idx /\ dbCall'[u].op = dbCall[u].op /\ isPut(u)
        /\ pc[u] # "idle" /\ dbCall[u].op # "GetByIdxKey"
    BY <2>1 DEF id, isPut, PutOps
  <2>3. id(u) \in Ids
    BY <2>2 DEF TypeInv, CallOK, CallRec, id
  <2>4. CASE Write(t)
    <3>1. u # t
      BY <2>4 DEF Write, Goto, TypeInv
    <3>2. IsNewer(u) /\ pc'[u] = pc[u] /\ dbCall'[u] = dbCall[u]
      BY <2>1, <3>1 DEF NewerInv
    <3>3. CASE \E e \in batch.idxs : e.id = id(u)
      <4> DEFINE e == CHOOSE e \in batch.idxs : e.id = id(u)
      <4>1. e \in batch.idxs /\ e.id = id(u) /\ e.idx \in Idx
        BY <3>3 DEF TypeInv
      <4>2. index'[id(u)] = e.idx
        BY <2>3, <2>4, <3>3 DEF Write
      <4>3. PICK w \in Threads : pc[w] \in {"putAll", "resetAfter"} /\ id(w) = e.id /\ dbCall[w].idx = e.idx
        BY <4>1 DEF BatchInv
      <4>4. w = u
        BY <2>2, <2>3, <4>1, <4>3, Exclusive
      <4>5. (index[id(u)].ts)' = dbCall[u].idx.ts /\ dbCall[u].idx.ts \in 0 .. MaxTS
        BY <2>2, <4>1, <4>2, <4>3, <4>4 DEF Idx
      <4> QED BY <2>2, <4>5 DEF Assumptions, LDBBatchAssumption
    <3>4. CASE ~\E e \in batch.idxs : e.id = id(u)
      <4>1. index'[id(u)] = index[id(u)]
        BY <2>3, <2>4, <3>4 DEF Write
      <4> QED BY <2>2, <3>2, <4>1 DEF IsNewer
    <3> QED BY <3>3, <3>4
  <2>5. CASE ReadIndex(t) /\ u = t
    <3> DEFINE d == index[id(t)]
    <3>1. d # NoIndex /\ ~Refused(t, d) /\ index' = index
      BY <2>2, <2>5 DEF ReadIndex, Goto, Returns, Leave, TypeInv, db
    <3>2. d \in Idx /\ dbCall[t].idx \in Idx
      BY <2>1, <2>2, <2>5, <3>1 DEF TypeInv, CallOK
    <3>3. ~(dbCall[t].idx.ts < d.ts)
      BY <2>2, <2>5, <3>1 DEF Refused, isPut, PutOps
    <3>4. d.ts <= dbCall[t].idx.ts
      BY <3>2, <3>3 DEF Idx, Assumptions, LDBBatchAssumption
    <3> QED BY <2>2, <2>5, <3>1, <3>4
  <2>6. CASE ReadNoIndex(t) /\ u = t
    BY <2>2, <2>6 DEF ReadNoIndex, db
  <2>7. CASE /\ DeleteKey(t) \/ DeletedKeys(t) \/ Reset(t) \/ PutIndex(t) \/ PutKey(t) \/ GetData(t) \/ ResetAfter(t)
                \/ ((ReadIndex(t) \/ ReadNoIndex(t)) /\ u # t)
    <3>1. index'[id(u)] \in {index[id(u)], NoIndex}
      BY <2>3, <2>7 DEF DeleteKey, DeletedKeys, Reset, PutIndex, PutKey, GetData, ResetAfter, ReadIndex, ReadNoIndex, db, TypeInv
    <3>2. pc[u] \in {"deleteKeys", "reset", "putIndex", "putAll"}
      BY <2>1, <2>7 DEF DeleteKey, DeletedKeys, Reset, PutIndex, PutKey, GetData, ResetAfter, Returns, Leave, Goto, TypeInv
    <3> QED BY <2>2, <3>1, <3>2 DEF NewerInv, IsNewer
  <2> QED BY <1>3, <2>4, <2>5, <2>6, <2>7 DEF Step
<1>4. CASE Crash
  BY <1>4 DEF Crash, NewerInv, IsNewer
<1> QED BY <1>1, <1>2, <1>3, <1>4 DEF DBNext

LockedInv == TypeInv /\ LockInv /\ BatchInv /\ NewerInv

LEMMA LockedInit == ASSUME Assumptions, DBInit PROVE LockedInv
<1>1. LockInv
  <2> SUFFICES ASSUME NEW i \in Ids PROVE Locked(i)
    BY DEF LockInv
  <2>1. Writers(i) = {} /\ Readers(i) = {} /\ dbLockMap[i] = 0
    BY DEF DBInit, Writers, Readers
  <2> QED BY <2>1, FS_EmptySet DEF Locked
<1>2. BatchInv /\ NewerInv
  BY DEF DBInit, BatchInv, NewerInv, IsNewer, EmptyBatch
<1> QED BY <1>1, <1>2, TypeInit DEF LockedInv

LEMMA LockedStep == ASSUME Assumptions, LockedInv, [DBNext]_dbvars PROVE LockedInv'
BY TypeStep, LockStep, BatchStep, NewerStep DEF LockedInv

(* The puts of pttdb/ldb_database.go that compare UpdateTS never replace a *)
(* newer record, for any number of goroutines, ids and timestamps, though  *)
(* the batch is shared: whoever's entry is written holds the lock of its   *)
(* id since it compared.                                                   *)
THEOREM NewerStaysHolds == ASSUME Assumptions PROVE DBSpec => NewerStays
<1>1. DBInit => LockedInv
  BY LockedInit
<1>2. LockedInv /\ [DBNext]_dbvars => LockedInv'
  BY LockedStep
<1>3. LockedInv /\ [DBNext]_dbvars =>
        [\A t \in Threads :
           /\ pc[t] = "putAll" /\ pc'[t] = "resetAfter"
           /\ dbCall[t].op # "ForcePutAll" /\ index[id(t)] # NoIndex
           => index[id(t)].ts <= dbCall[t].idx.ts]_dbvars
  BY DEF LockedInv, TypeInv, CallOK, Putting, NewerInv, IsNewer
<1> QED BY <1>1, <1>2, <1>3, PTL DEF DBSpec, NewerStays

-----------------------------------------------------------------------------
(* From here on there is one id: whoever writes is alone.                  *)
OneId == \A i, j \in Ids : i = j

Rewriting == {"deleteKeys", "reset", "putIndex", "putAll"}

(* How far the goroutine is: what it deleted is gone, what it put in the   *)
(* batch is still there, and what it read is still so.                     *)
Progress(t) ==
    /\ pc[t] = "deleteKeys" => data \subseteq KeySet(dbCall[t].todo)
    /\ pc[t] \in {"reset", "putIndex", "putAll"} => data = {}
    /\ pc[t] = "putIndex" => batch = EmptyBatch
    /\ pc[t] = "putAll" =>
         /\ batch.idxs = {IdxEntry(id(t), dbCall[t].idx)}
         /\ batch.kvs \cup KeySet(dbCall[t].todo) = KeySet(dbCall[t].idx.keys)
    /\ pc[t] = "resetAfter" => index[id(t)] = dbCall[t].idx /\ KeySet(dbCall[t].idx.keys) \subseteq data
    /\ pc[t] = "getData" => dbCall[t].orig = index[id(t)] /\ index[id(t)] # NoIndex

(* The entry has its records unless a put or a delete is under way or was  *)
(* cut off.                                                                *)
Whole(i) ==
    /\ index[i] # NoIndex /\ i \notin torn /\ \A t \in Threads : pc[t] \notin Rewriting
    => KeySet(index[i].keys) \subseteq data

DataInv == NoOrphan /\ (\A t \in Threads : Progress(t)) /\ \A i \in Ids : Whole(i)

(* Who holds the write lock of the only id is alone.                       *)
LEMMA Alone ==
  ASSUME OneId, TypeInv, LockInv, NEW t \in Threads, pc[t] # "idle", dbCall[t].op # "GetByIdxKey"
  PROVE  \A u \in Threads : u # t => pc[u] = "idle"
<1> SUFFICES ASSUME NEW u \in Threads, u # t, pc[u] # "idle" PROVE FALSE
  OBVIOUS
<1>1. id(t) \in Ids /\ id(u) \in Ids
  BY DEF TypeInv, CallOK, CallRec, id
<1>2. id(u) = id(t)
  BY <1>1 DEF OneId
<1> QED BY <1>1, <1>2, Exclusive

(* What a goroutine has done is not disturbed by a step that leaves the    *)
(* database and the batch alone.                                           *)
LEMMA QuietStep ==
  ASSUME TypeInv, DataInv, UNCHANGED <<index, data, torn>>, NEW t \in Threads,
         \A u \in Threads : u # t => pc'[u] = pc[u] /\ dbCall'[u] = dbCall[u],
         batch' = batch \/ \A u \in Threads : u # t => pc[u] = "idle",
         Progress(t)', pc[t] \in Rewriting => pc'[t] \in Rewriting
  PROVE  DataInv'
<1>1. NoOrphan'
  BY DEF DataInv, NoOrphan
<1>2. ASSUME NEW u \in Threads PROVE Progress(u)'
  BY DEF DataInv, Progress, id
<1>3. ASSUME NEW i \in Ids PROVE Whole(i)'
  BY DEF DataInv, Whole
<1> QED BY <1>1, <1>2, <1>3 DEF DataInv

LEMMA DataStep ==
  ASSUME Assumptions, OneId, TypeInv, LockInv, DataInv, [DBNext]_dbvars PROVE DataInv'
<1>1. CASE UNCHANGED dbvars
  BY <1>1 DEF dbvars, DataInv, NoOrphan, Progress, Whole, id
<1>2. ASSUME NEW t \in Threads, NEW c \in DBCalls, Call(t, c) PROVE DataInv'
  <2>1. /\ UNCHANGED <<index, data, torn, batch>> /\ pc[t] = "idle" /\ pc'[t] = "readIndex"
        /\ \A u \in Threads : u # t => pc'[u] = pc[u] /\ dbCall'[u] = dbCall[u]
    BY <1>2 DEF Call, Goto, TypeInv, db
  <2>2. Progress(t)'
    BY <2>1 DEF Progress
  <2> QED BY <2>1, <2>2, QuietStep DEF Rewriting
<1>3. ASSUME NEW t \in Threads, Step(t) PROVE DataInv'
  <2>1. /\ pc[t] # "idle" /\ CallOK(t) /\ id(t) \in Ids /\ dbCall[t] \in CallRec
        /\ \A u \in Threads : u # t => pc'[u] = pc[u] /\ dbCall'[u] = dbCall[u]
    BY <1>3, StepShape DEF CallOK
  <2>2. Progress(t) /\ NoOrphan /\ \A i \in Ids : i = id(t)
    BY <2>1 DEF DataInv, OneId
  <2>3. \A k \in data : k.id = id(t)
    BY <2>2 DEF TypeInv, K
  <2>4. ASSUME dbCall[t].op # "GetByIdxKey" PROVE \A u \in Threads : u # t => pc[u] = "idle" /\ pc'[u] = "idle"
    BY <2>1, <2>4, Alone
  <2>5. ASSUME \A u \in Threads : u # t => pc'[u] = "idle", Progress(t)', NoOrphan', \A i \in Ids : Whole(i)' PROVE DataInv'
    BY <2>5 DEF DataInv, Progress
  <2>6. CASE ReadNoIndex(t)
    <3>1. data = {}
      BY <2>2, <2>3, <2>6 DEF NoOrphan, ReadNoIndex
    <3>2. Progress(t)'
      BY <2>6, <3>1 DEF ReadNoIndex, Progress, Returns, Leave, Goto, TypeInv, db
    <3> QED BY <2>1, <2>6, <3>2, QuietStep DEF ReadNoIndex, Rewriting, db
  <2>7. CASE ReadIndex(t)
    <3>1. Progress(t)'
      <4>1. CASE pc'[t] = "idle"
        BY <4>1 DEF Progress
      <4>2. CASE pc'[t] # "idle"
        <5>1. pc'[t] \in {"getData", "deleteKeys"} /\ dbCall' = [dbCall EXCEPT ![t].orig = index[id(t)], ![t].todo = index[id(t)].keys]
          BY <2>7, <4>2 DEF ReadIndex, Returns, Leave, Goto, TypeInv
        <5>2. dbCall'[t].orig = index[id(t)] /\ dbCall'[t].todo = index[id(t)].keys /\ dbCall'[t].id = dbCall[t].id
          BY <2>1, <5>1 DEF TypeInv, CallRec
        <5>3. data \subseteq KeySet(index[id(t)].keys)
          BY <2>2, <2>3 DEF NoOrphan
        <5> QED BY <2>7, <5>1, <5>2, <5>3 DEF Progress, ReadIndex, id, db
      <4> QED BY <4>1, <4>2
    <3> QED BY <2>1, <2>7, <3>1, QuietStep DEF ReadIndex, Rewriting, db
  <2>8. CASE GetData(t)
    <3>1. Progress(t)'
      BY <2>8 DEF GetData, Returns, Leave, Goto, TypeInv, Progress
    <3> QED BY <2>1, <2>8, <3>1, QuietStep DEF GetData, Rewriting, db
  <2>9. CASE DeleteKey(t)
    <3>1. /\ dbCall[t].todo \in Seq(K) /\ dbCall[t].todo # <<>> /\ pc' = pc /\ pc[t] = "deleteKeys"
          /\ dbCall'[t].todo = Tail(dbCall[t].todo) /\ data' = data \ {Head(dbCall[t].todo)} /\ index' = index
      BY <2>1, <2>9 DEF DeleteKey, CallRec, TypeInv
    <3>2. KeySet(dbCall[t].todo) = {Head(dbCall[t].todo)} \cup KeySet(Tail(dbCall[t].todo))
      BY <3>1, HeadTail
    <3>3. Progress(t)'
      BY <2>2, <3>1, <3>2 DEF Progress
    <3>4. NoOrphan' /\ \A i \in Ids : Whole(i)'
      BY <2>2, <3>1 DEF NoOrphan, Whole, Rewriting
    <3> QED BY <2>1, <2>4, <2>5, <3>1, <3>3, <3>4 DEF CallOK
  <2>10. CASE DeletedKeys(t)
    <3>1. pc[t] = "deleteKeys" /\ dbCall[t].todo = <<>> /\ data' = data /\ dbCall[t].op # "GetByIdxKey"
      BY <2>1, <2>10 DEF DeletedKeys, CallOK
    <3>2. data = {}
      BY <2>2, <3>1 DEF Progress, KeySet
    <3>3. Progress(t)'
      BY <2>10, <3>1, <3>2 DEF DeletedKeys, Progress, Returns, Leave, Goto, TypeInv
    <3>4. NoOrphan'
      BY <3>1, <3>2 DEF NoOrphan
    <3>5. \A i \in Ids : Whole(i)'
      <4>1. CASE isPut(t)
        <5>1. pc'[t] = "reset"
          BY <2>10, <4>1 DEF DeletedKeys, Goto, TypeInv
        <5> QED BY <5>1 DEF Whole, Rewriting
      <4>2. CASE ~isPut(t)
        <5>1. \A i \in Ids : index'[i] = NoIndex
          BY <2>1, <2>2, <2>10, <4>2 DEF DeletedKeys, TypeInv
        <5> QED BY <5>1 DEF Whole
      <4> QED BY <4>1, <4>2
    <3> QED BY <2>4, <2>5, <3>1, <3>3, <3>4, <3>5
  <2>11. CASE Reset(t)
    <3>1. pc[t] = "reset" /\ pc'[t] = "putIndex" /\ batch' = EmptyBatch /\ UNCHANGED <<index, data, torn>>
      BY <2>11 DEF Reset, Goto, TypeInv, db
    <3>2. Progress(t)'
      BY <2>2, <3>1 DEF Progress
    <3>3. dbCall[t].op # "GetByIdxKey"
      BY <2>1, <3>1 DEF CallOK, Putting, isPut, PutOps
    <3> QED BY <2>1, <2>4, <3>1, <3>2, <3>3, QuietStep DEF Rewriting
  <2>12. CASE PutIndex(t)
    <3>1. /\ pc[t] = "putIndex" /\ pc'[t] = "putAll" /\ UNCHANGED <<index, data, torn>>
          /\ dbCall'[t].todo = dbCall[t].idx.keys /\ dbCall'[t].idx = dbCall[t].idx /\ dbCall'[t].id = dbCall[t].id
          /\ batch' = [batch EXCEPT !.idxs = @ \cup {IdxEntry(id(t), dbCall[t].idx)}]
      BY <2>1, <2>12 DEF PutIndex, Goto, TypeInv, CallRec, db
    <3>2. batch' = [idxs |-> {IdxEntry(id(t), dbCall[t].idx)}, kvs |-> {}] /\ data = {}
      BY <2>2, <3>1 DEF Progress, EmptyBatch
    <3>3. Progress(t)'
      BY <3>1, <3>2 DEF Progress, id
    <3>4. dbCall[t].op # "GetByIdxKey"
      BY <2>1, <3>1 DEF CallOK, Putting, isPut, PutOps
    <3> QED BY <2>1, <2>4, <3>1, <3>3, <3>4, QuietStep DEF Rewriting
  <2>13. CASE PutKey(t)
    <3>1. /\ pc[t] = "putAll" /\ pc'[t] = "putAll" /\ UNCHANGED <<index, data, torn>>
          /\ dbCall[t].todo \in Seq(K) /\ dbCall[t].todo # <<>>
          /\ dbCall'[t].todo = Tail(dbCall[t].todo) /\ dbCall'[t].idx = dbCall[t].idx /\ dbCall'[t].id = dbCall[t].id
          /\ batch'.idxs = batch.idxs /\ batch'.kvs = batch.kvs \cup {Head(dbCall[t].todo)}
      BY <2>1, <2>13 DEF PutKey, TypeInv, CallRec, db
    <3>2. KeySet(dbCall[t].todo) = {Head(dbCall[t].todo)} \cup KeySet(Tail(dbCall[t].todo))
      BY <3>1, HeadTail
    <3>3. Progress(t)'
      BY <2>2, <3>1, <3>2 DEF Progress, id
    <3>4. dbCall[t].op # "GetByIdxKey"
      BY <2>1, <3>1 DEF CallOK, Putting, isPut, PutOps
    <3> QED BY <2>1, <2>4, <3>1, <3>3, <3>4, QuietStep DEF Rewriting
  <2>14. CASE Write(t)
    <3>1. /\ pc[t] = "putAll" /\ dbCall[t].todo = <<>> /\ pc'[t] = "resetAfter" /\ dbCall' = dbCall
          /\ data' = data \cup batch.kvs
      BY <2>14 DEF Write, Goto, TypeInv
    <3>2. data = {} /\ batch.idxs = {IdxEntry(id(t), dbCall[t].idx)} /\ batch.kvs = KeySet(dbCall[t].idx.keys)
      BY <2>2, <3>1 DEF Progress, KeySet
    <3>3. data' = KeySet(dbCall[t].idx.keys)
      BY <3>1, <3>2
    <3>4. index'[id(t)] = dbCall[t].idx
      <4>1. \A e \in batch.idxs : e.id = id(t) /\ e.idx = dbCall[t].idx
        BY <3>2 DEF IdxEntry
      <4>2. \E e \in batch.idxs : e.id = id(t)
        BY <3>2, <4>1
      <4> QED BY <2>1, <2>14, <4>1, <4>2 DEF Write
    <3>5. dbCall[t].op # "GetByIdxKey" /\ dbCall[t].idx # NoIndex /\ \A k \in KeySet(dbCall[t].idx.keys) : k.id = id(t)
      BY <2>1, <3>1 DEF CallOK, Putting, isPut, PutOps
    <3>6. Progress(t)'
      BY <3>1, <3>3, <3>4 DEF Progress, id
    <3>7. NoOrphan'
      BY <3>3, <3>4, <3>5 DEF NoOrphan
    <3>8. \A i \in Ids : Whole(i)'
      BY <2>2, <3>3, <3>4 DEF Whole
    <3> QED BY <2>4, <2>5, <3>5, <3>6, <3>7, <3>8
  <2>15. CASE ResetAfter(t)
    <3>1. pc[t] = "resetAfter" /\ pc'[t] = "idle" /\ UNCHANGED <<index, data, torn>>
      BY <2>15 DEF ResetAfter, Returns, Leave, Goto, TypeInv, db
    <3>2. Progress(t)'
      BY <3>1 DEF Progress
    <3>3. dbCall[t].op # "GetByIdxKey"
      BY <2>1, <3>1 DEF CallOK, Putting, isPut, PutOps
    <3> QED BY <2>1, <2>4, <3>1, <3>2, <3>3, QuietStep DEF Rewriting
  <2> QED BY <1>3, <2>6, <2>7, <2>8, <2>9, <2>10, <2>11, <2>12, <2>13, <2>14, <2>15 DEF Step
<1>4. CASE Crash
  <2>1. /\ UNCHANGED <<index, data>> /\ torn' = torn \cup {i \in Ids : dbLockMap[i] = -1}
        /\ \A t \in Threads : pc'[t] = "idle"
    BY <1>4 DEF Crash, db
  <2>2. NoOrphan' /\ \A t \in Threads : Progress(t)'
    BY <2>1 DEF DataInv, NoOrphan, Progress
  <2>3. ASSUME NEW i \in Ids, i \notin torn', NEW t \in Threads PROVE pc[t] \notin Rewriting
    <3> SUFFICES ASSUME pc[t] \in Rewriting PROVE FALSE
      OBVIOUS
    <3>1. pc[t] # "idle" /\ dbCall[t].op # "GetByIdxKey" /\ id(t) \in Ids
      BY DEF Rewriting, TypeInv, CallOK, CallRec, Putting, isPut, PutOps, id
    <3>2. t \in Writers(i)
      BY <3>1 DEF OneId, Writers
    <3>3. dbLockMap[i] = -1
      BY <3>2 DEF LockInv, Locked
    <3> QED BY <2>1, <2>3, <3>3
  <2>4. ASSUME NEW i \in Ids PROVE Whole(i)'
    BY <2>1, <2>3 DEF DataInv, Whole
  <2> QED BY <2>2, <2>4 DEF DataInv
<1> QED BY <1>1, <1>2, <1>3, <1>4 DEF DBNext

StoreInv == LockedInv /\ DataInv

LEMMA StoreInvariant == ASSUME Assumptions, OneId PROVE DBSpec => []StoreInv
<1>1. DBInit => StoreInv
  BY LockedInit DEF DBInit, StoreInv, DataInv, NoOrphan, Progress, Whole
<1>2. StoreInv /\ [DBNext]_dbvars => StoreInv'
  BY LockedStep, DataStep DEF StoreInv, LockedInv
<1> QED BY <1>1, <1>2, PTL DEF DBSpec

(* LDBBatch never leaves a record that no index entry names, for any       *)
(* number of goroutines on one id and a crash between any two database     *)
(* calls.                                                                  *)
THEOREM NoOrphanHolds == ASSUME Assumptions, OneId PROVE DBSpec => []NoOrphan
<1>1. StoreInv => NoOrphan
  BY DEF StoreInv, DataInv
<1> QED BY <1>1, StoreInvariant, PTL

(* A put of LDBBatch that ends without an error is in the database with    *)
(* its index entry and all its records, for any number of goroutines on    *)
(* one id.                                                                 *)
THEOREM PutTakesEffectHolds == ASSUME Assumptions, OneId PROVE DBSpec => []PutTakesEffect
<1>1. StoreInv => PutTakesEffect
  BY DEF StoreInv, DataInv, Progress, PutTakesEffect
<1> QED BY <1>1, StoreInvariant, PTL

(* GetByIdxKey finds the records of the entry that it read, unless a crash *)
(* cut off the last put or delete of the id: the read lock keeps every     *)
(* writer of the id out between the two reads.                             *)
THEOREM ReaderFindsHolds == ASSUME Assumptions, OneId PROVE DBSpec => []ReaderFinds
<1>1. StoreInv => ReaderFinds
  <2> SUFFICES ASSUME StoreInv, NEW t \in Threads, pc[t] = "getData", id(t) \notin torn
               PROVE  KeySet(dbCall[t].orig.keys) \subseteq data
    BY DEF ReaderFinds
  <2>1. dbCall[t].orig = index[id(t)] /\ index[id(t)] # NoIndex /\ id(t) \in Ids /\ Whole(id(t))
    BY DEF StoreInv, DataInv, Progress, LockedInv, TypeInv, CallOK, CallRec, id
  <2>2. ASSUME NEW u \in Threads, pc[u] \in Rewriting PROVE FALSE
    <3>1. pc[u] # "idle" /\ dbCall[u].op # "GetByIdxKey" /\ pc[t] # "idle" /\ u # t
      BY <2>2 DEF Rewriting, StoreInv, LockedInv, TypeInv, CallOK, Putting, isPut, PutOps
    <3> QED BY <3>1, Alone DEF StoreInv, LockedInv
  <2> QED BY <2>1, <2>2 DEF Whole
<1> QED BY <1>1, StoreInvariant, PTL
=============================================================================
