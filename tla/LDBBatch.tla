------------------------------ MODULE LDBBatch ------------------------------
(***************************************************************************)
(* LDBBatch of pttdb/ldb_database.go: records that are kept under keys     *)
(* with a timestamp and found through an index entry that is kept under    *)
(* their id.  One LDBBatch, with one leveldb batch inside, serves all      *)
(* goroutines that use the database; the lock map excludes goroutines from *)
(* each other per id only.                                                 *)
(*                                                                         *)
(* The database calls are the steps, so that goroutines interleave and the *)
(* process may stop between any two of them.  The writes to the batch      *)
(* object that race in the code are steps too: a call is assumed to take   *)
(* effect whole.  Values are left out: a record is its key.                *)
(***************************************************************************)
EXTENDS Integers, Sequences, FiniteSets

CONSTANTS
    Threads,    \* goroutines
    Ids,        \* the ids of records
    DBOps,      \* the operations the goroutines call in this instance
    MaxTS,      \* timestamps are 0 .. MaxTS
    NoIndex,    \* there is no index entry
    NoCall      \* the goroutine is not in a call

PutOps == {"ForcePutAll", "TryPutAll", "TryPutAllGetOrig", "TryPutAllSameUT"}
AllOps == PutOps \cup {"DeleteAll", "GetByIdxKey"}

LDBBatchAssumption ==
    /\ DBOps \subseteq AllOps
    /\ MaxTS \in Nat
    /\ IsFiniteSet(Threads)

VARIABLES
    index,      \* index[i]: the Index stored under the id, or NoIndex
    data,       \* the keys that are in the database
    batch,      \* what the leveldb batch holds
    dbLockMap,  \* dbLockMap[i]: -1 write-locked, otherwise the number of readers
    pc,         \* the next database call of a goroutine
    dbCall,     \* its arguments and local variables: the Index it read and the
                \* keys that are still to be deleted or put
    torn        \* (history) ids whose writer was cut off by a crash

db == <<index, data>>
dbvars == <<index, data, batch, dbLockMap, pc, dbCall, torn>>

(* A log has its own key and, once it is valid, a merkle key.              *)
Key(i, ts, kind) == [id |-> i, ts |-> ts, kind |-> kind]
KeyLists(i, ts) == {<<Key(i, ts, "log")>>, <<Key(i, ts, "log"), Key(i, ts, "merkle")>>}
KeySet(keys) == {keys[j] : j \in DOMAIN keys}
Index(ts, keys) == [ts |-> ts, keys |-> keys]
Indexes(i) == UNION {{Index(ts, keys) : keys \in KeyLists(i, ts)} : ts \in 0 .. MaxTS}
NoIndexAssumption == \A i \in Ids : NoIndex \notin Indexes(i)
IdxEntry(i, idx) == [id |-> i, idx |-> idx]

Started(op, i, idx) == [op |-> op, id |-> i, idx |-> idx, orig |-> NoIndex, todo |-> <<>>]
DBCalls ==
    UNION {{Started(op, i, idx) : op \in DBOps \cap PutOps, idx \in Indexes(i)}
             \cup {Started(op, i, NoIndex) : op \in DBOps \ PutOps}
           : i \in Ids}

EmptyBatch == [idxs |-> {}, kvs |-> {}]

DBInit ==
    /\ index = [i \in Ids |-> NoIndex]
    /\ data = {}
    /\ batch = EmptyBatch
    /\ dbLockMap = [i \in Ids |-> 0]
    /\ pc = [t \in Threads |-> "idle"]
    /\ dbCall = [t \in Threads |-> NoCall]
    /\ torn = {}

-----------------------------------------------------------------------------
id(t) == dbCall[t].id
isPut(t) == dbCall[t].op \in PutOps
Goto(t, next) == pc' = [pc EXCEPT ![t] = next]

TryLockMapUnchecked(i) == dbLockMap' = [dbLockMap EXCEPT ![i] = -1]
TryLockMap(i) == dbLockMap[i] = 0 /\ dbLockMap' = [dbLockMap EXCEPT ![i] = -1]
TryRLockMap(i) == dbLockMap[i] >= 0 /\ dbLockMap' = [dbLockMap EXCEPT ![i] = @ + 1]
UnlockMap(i) == dbLockMap' = [dbLockMap EXCEPT ![i] = 0]
RUnlockMap(i) == dbLockMap' = [dbLockMap EXCEPT ![i] = @ - 1]

(* Where the lock is busy the call returns ErrBusy and changes nothing.    *)
Call(t, c) ==
    /\ pc[t] = "idle"
    /\ IF c.op = "GetByIdxKey" THEN TryRLockMap(c.id) ELSE TryLockMap(c.id)
    /\ dbCall' = [dbCall EXCEPT ![t] = c]
    /\ Goto(t, "readIndex")
    /\ UNCHANGED <<db, batch, torn>>

Leave(t) == Goto(t, "idle") /\ dbCall' = [dbCall EXCEPT ![t] = NoCall]
Returns(t) ==
    /\ IF dbCall[t].op = "GetByIdxKey" THEN RUnlockMap(id(t)) ELSE UnlockMap(id(t))
    /\ Leave(t)

(* The put is refused because of what is stored.                           *)
Refused(t, d) ==
    LET idx == dbCall[t].idx
    IN  CASE dbCall[t].op = "ForcePutAll"      -> FALSE
          [] dbCall[t].op = "TryPutAll"        -> idx.ts < d.ts
          [] dbCall[t].op = "TryPutAllGetOrig" ->
                idx.ts < d.ts \/ ~(KeySet(d.keys) \subseteq data)
          [] dbCall[t].op = "TryPutAllSameUT"  ->
                idx.ts < d.ts \/ (idx.ts = d.ts /\ idx # d)

(* Has and Get of the index entry: there is none ...                       *)
ReadNoIndex(t) ==
    /\ pc[t] = "readIndex" /\ index[id(t)] = NoIndex
    /\ IF isPut(t) THEN Goto(t, "reset") /\ UNCHANGED <<dbLockMap, dbCall>> ELSE Returns(t)
    /\ UNCHANGED <<db, batch, torn>>

(* ... or there is one, and it decides what follows.                       *)
ReadIndex(t) ==
    LET d == index[id(t)]
    IN  /\ pc[t] = "readIndex" /\ d # NoIndex
        /\ IF isPut(t) /\ Refused(t, d)
           THEN Returns(t)
           ELSE /\ Goto(t, IF dbCall[t].op = "GetByIdxKey" THEN "getData" ELSE "deleteKeys")
                /\ dbCall' = [dbCall EXCEPT ![t].orig = d, ![t].todo = d.keys]
                /\ UNCHANGED dbLockMap
        /\ UNCHANGED <<db, batch, torn>>

(* The record itself: the result is not kept, the read is what matters.    *)
GetData(t) ==
    /\ pc[t] = "getData"
    /\ Returns(t)
    /\ UNCHANGED <<db, batch, torn>>

DeleteKey(t) ==
    /\ pc[t] = "deleteKeys" /\ dbCall[t].todo # <<>>
    /\ data' = data \ {Head(dbCall[t].todo)}
    /\ dbCall' = [dbCall EXCEPT ![t].todo = Tail(@)]
    /\ UNCHANGED <<index, batch, dbLockMap, pc, torn>>

(* DeleteAll deletes the index entry last.                                 *)
DeletedKeys(t) ==
    /\ pc[t] = "deleteKeys" /\ dbCall[t].todo = <<>>
    /\ IF isPut(t)
       THEN Goto(t, "reset") /\ UNCHANGED <<index, dbLockMap, dbCall, torn>>
       ELSE /\ index' = [index EXCEPT ![id(t)] = NoIndex]
            /\ torn' = torn \ {id(t)}
            /\ Returns(t)
    /\ UNCHANGED <<data, batch>>

(* PutAllWithKeyIndex and PutAll.                                          *)
Reset(t) ==
    /\ pc[t] = "reset"
    /\ batch' = EmptyBatch
    /\ Goto(t, "putIndex")
    /\ UNCHANGED <<db, dbLockMap, dbCall, torn>>

PutIndex(t) ==
    /\ pc[t] = "putIndex"
    /\ batch' = [batch EXCEPT !.idxs = @ \cup {IdxEntry(id(t), dbCall[t].idx)}]
    /\ dbCall' = [dbCall EXCEPT ![t].todo = dbCall[t].idx.keys]
    /\ Goto(t, "putAll")
    /\ UNCHANGED <<db, dbLockMap, torn>>

PutKey(t) ==
    /\ pc[t] = "putAll" /\ dbCall[t].todo # <<>>
    /\ batch' = [batch EXCEPT !.kvs = @ \cup {Head(dbCall[t].todo)}]
    /\ dbCall' = [dbCall EXCEPT ![t].todo = Tail(@)]
    /\ UNCHANGED <<db, dbLockMap, pc, torn>>

WriteKeysOnly(t) ==
    /\ pc[t] = "putAll" /\ dbCall[t].todo = <<>>
    /\ data' = data \cup batch.kvs
    /\ Goto(t, "resetAfter")
    /\ UNCHANGED <<index, batch, dbLockMap, dbCall, torn>>

(* leveldb writes a batch atomically.                                      *)
Write(t) ==
    /\ pc[t] = "putAll" /\ dbCall[t].todo = <<>>
    /\ data' = data \cup batch.kvs
    /\ index' = [i \in Ids |->
                    IF \E e \in batch.idxs : e.id = i
                    THEN (CHOOSE e \in batch.idxs : e.id = i).idx ELSE index[i]]
    /\ torn' = torn \ {id(t)}
    /\ Goto(t, "resetAfter")
    /\ UNCHANGED <<batch, dbLockMap, dbCall>>

ResetAfter(t) ==
    /\ pc[t] = "resetAfter"
    /\ batch' = EmptyBatch
    /\ Returns(t)
    /\ UNCHANGED <<db, torn>>

(* The process stops and starts again: only the database is left.          *)
Crash ==
    /\ \E t \in Threads : pc[t] # "idle"
    /\ pc' = [t \in Threads |-> "idle"]
    /\ dbCall' = [t \in Threads |-> NoCall]
    /\ batch' = EmptyBatch
    /\ dbLockMap' = [i \in Ids |-> 0]
    /\ torn' = torn \cup {i \in Ids : dbLockMap[i] = -1}
    /\ UNCHANGED db

Step(t) ==
    \/ ReadNoIndex(t) \/ ReadIndex(t) \/ GetData(t)
    \/ DeleteKey(t) \/ DeletedKeys(t)
    \/ Reset(t) \/ PutIndex(t) \/ PutKey(t) \/ Write(t) \/ ResetAfter(t)

DBNext ==
    \/ \E t \in Threads : Step(t) \/ \E c \in DBCalls : Call(t, c)
    \/ Crash

DBSpec == DBInit /\ [][DBNext]_dbvars

-----------------------------------------------------------------------------
(* Every record can be reached through the index entry of its id, whatever *)
(* call was interrupted by another goroutine or by a crash: keys are       *)
(* deleted before the entry that names them, and put together with it.     *)
NoOrphan == \A k \in data : index[k.id] # NoIndex /\ k \in KeySet(index[k.id].keys)

(* A put that ends without an error is in the database: its index entry    *)
(* and all its records.                                                    *)
PutTakesEffect ==
    \A t \in Threads : pc[t] = "resetAfter" =>
       /\ index[id(t)] = dbCall[t].idx
       /\ KeySet(dbCall[t].idx.keys) \subseteq data

(* GetByIdxKey finds the record that the index entry names, also while     *)
(* other goroutines put and delete; only a put or a delete that a crash    *)
(* cut off leaves an entry without its record, until the next put.         *)
ReaderFinds ==
    \A t \in Threads : pc[t] = "getData" /\ id(t) \notin torn => KeySet(dbCall[t].orig.keys) \subseteq data

(* The puts that compare UpdateTS never replace a newer record: what they  *)
(* compared with is still what they overwrite.                             *)
NewerStays ==
    [][\A t \in Threads :
          /\ pc[t] = "putAll" /\ pc'[t] = "resetAfter"
          /\ dbCall[t].op # "ForcePutAll" /\ index[id(t)] # NoIndex
          => index[id(t)].ts <= dbCall[t].idx.ts]_dbvars
=============================================================================
