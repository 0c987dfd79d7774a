----------------------------- MODULE MerkleTree -----------------------------
(***************************************************************************)
(* The merkle tree over the valid oplogs of an entity at one node          *)
(* (service/merkle.go), and the loop that keeps it up to date              *)
(* (protocol_manager_utils_merkle.go).  Saving a log writes its leaf and   *)
(* then marks the hour of the leaf; the loop takes the marked hours and    *)
(* computes their nodes, level by level.  Marks are kept in memory and in  *)
(* the database, and a list that is being worked on is kept under a key of *)
(* its own, so that a restart can go on with it.                           *)
(*                                                                         *)
(* Every database write is a step, so that savers, the loop and a crash    *)
(* interleave between any two.  A node is the set of the leaves it covers, *)
(* as [hour, log]: the hash over the children is equal when these are.     *)
(* Level 0 are the leaves.                                                 *)
(***************************************************************************)
EXTENDS Integers, Sequences, FiniteSets

CONSTANTS
    Logs,       \* the ids of the oplogs
    Hours,      \* the hours, 0 .. n
    Span,       \* Span[l]: the hours in a node of level l; Span[1] = 1
    NoHour,
    MaxSaves, MaxCrashes, MaxFailures   \* bounds

Levels == DOMAIN Span
Offset(l, h) == (h \div Span[l]) * Span[l]
Offsets(l) == {Offset(l, h) : h \in Hours}

(* A node lies in one node of the next level, as hours do in days, days in *)
(* months and months in years.                                             *)
ASSUME MerkleAssumption ==
    /\ Hours \subseteq Nat /\ NoHour \notin Hours
    /\ Span \in Seq(Nat \ {0}) /\ Len(Span) >= 1 /\ Span[1] = 1
    /\ \A l \in Levels \ {1} : \A h \in Hours : Offset(l, Offset(l - 1, h)) = Offset(l, h)

VARIABLES
    \* the database
    leafOf,         \* leafOf[g]: the hour of the leaf of log g, or NoHour
    indexOf,        \* indexOf[g]: the hour of its keys by the index entry of the log
    tree,           \* tree[l][o]: the node of level l at offset o, {} if there is none
    toUpdateDB,     \* the hours with a to-update key
    updating,       \* the hours in the list of the updating key
    \* memory
    toUpdateTS,     \* Merkle.toUpdateTS
    saver,          \* saver[g]: who is saving log g (under the lock of the log)
    gen,            \* the loop
    forceSync,      \* the goroutine in TryForceSync, if any: it owns isBusyForceSync
    \* history and bounds
    lost,           \* hours whose mark a crash or a failed write took away
    saves, crashes, failures

disk   == <<leafOf, indexOf, tree, toUpdateDB, updating>>
bounds == <<saves, crashes, failures>>
treevars   == <<disk, toUpdateTS, saver, gen, forceSync, lost, bounds>>

NotSaving == [pc |-> "idle", new |-> NoHour, orig |-> NoHour]
Loop(pc) == [pc |-> pc, list |-> {}, hour |-> NoHour, level |-> 0, node |-> {}]

Leaf(h, g) == [hour |-> h, log |-> g]

(* What the iterator over the children of a node finds.                    *)
Children(l, o) ==
    IF l = 1 THEN {Leaf(o, g) : g \in {k \in Logs : leafOf[k] = o}}
    ELSE UNION {tree[l - 1][c] : c \in {k \in Offsets(l - 1) : Offset(l, k) = o}}

TreeTypeOK ==
    /\ {leafOf, indexOf} \subseteq [Logs -> Hours \cup {NoHour}]
    /\ \A l \in Levels : DOMAIN tree[l] = Offsets(l)
    /\ \A l \in Levels : \A o \in Offsets(l) :
          \A x \in tree[l][o] : x.log \in Logs /\ Offset(l, x.hour) = o
    /\ toUpdateDB \subseteq Hours /\ updating \subseteq Hours
    /\ toUpdateTS \subseteq Hours /\ lost \subseteq Hours
    /\ saves \in 0 .. MaxSaves /\ crashes \in 0 .. MaxCrashes /\ failures \in 0 .. MaxFailures

TreeInit ==
    /\ leafOf = [g \in Logs |-> NoHour] /\ indexOf = leafOf
    /\ tree = [l \in Levels |-> [o \in Offsets(l) |-> {}]]
    /\ toUpdateDB = {} /\ updating = {} /\ toUpdateTS = {}
    /\ saver = [g \in Logs |-> NotSaving]
    /\ gen = Loop("select")
    /\ forceSync = "none"
    /\ lost = {} /\ saves = 0 /\ crashes = 0 /\ failures = 0

-----------------------------------------------------------------------------
(* Oplog.Save of a valid and synced log with UpdateTS in hour h: first     *)
(* ForcePutAll, which deletes the old keys, ...                            *)
SaveDelete(g, h) ==
    /\ saver[g].pc = "idle" /\ gen.pc # "down" /\ saves < MaxSaves
    /\ saver' = [saver EXCEPT ![g] = [pc |-> "put", new |-> h, orig |-> indexOf[g]]]
    /\ leafOf' = [leafOf EXCEPT ![g] = NoHour]
    /\ saves' = saves + 1
    /\ UNCHANGED <<indexOf, tree, toUpdateDB, updating, toUpdateTS, gen, forceSync, lost,
                   crashes, failures>>

(* ... and writes the log with its leaf.                                   *)
SavePut(g) ==
    /\ saver[g].pc = "put"
    /\ leafOf' = [leafOf EXCEPT ![g] = saver[g].new]
    /\ indexOf' = [indexOf EXCEPT ![g] = saver[g].new]
    /\ saver' = [saver EXCEPT ![g].pc = "mark"]
    /\ UNCHANGED <<tree, toUpdateDB, updating, toUpdateTS, gen, forceSync, lost, bounds>>

(* lockToUpdateTS is held from taking the marks to writing the list.       *)
lockToUpdateTSFree == gen.pc \notin {"taking", "down"}

SetUpdateTSNewOnly(g) ==
    /\ saver[g].pc = "mark" /\ lockToUpdateTSFree
    /\ toUpdateTS' = toUpdateTS \cup {saver[g].new}
    /\ toUpdateDB' = toUpdateDB \cup {saver[g].new}
    /\ saver' = [saver EXCEPT ![g] = NotSaving]
    /\ UNCHANGED <<leafOf, indexOf, tree, updating, gen, forceSync, lost, bounds>>

(* setMerkleUpdateTS: SetUpdateTS or SetUpdateTS2.  A crash cannot be seen *)
(* between the map and the first key; between the two keys it can, but not *)
(* by a goroutine that waits for lockToUpdateTS.                           *)
SetUpdateTS(g) ==
    /\ saver[g].pc = "mark" /\ lockToUpdateTSFree
    /\ toUpdateTS' = toUpdateTS \cup ({saver[g].new, saver[g].orig} \ {NoHour})
    /\ toUpdateDB' = toUpdateDB \cup {saver[g].new}
    /\ saver' = [saver EXCEPT ![g] =
                    IF @.orig \in {NoHour, @.new} THEN NotSaving ELSE [@ EXCEPT !.pc = "mark2"]]
    /\ UNCHANGED <<leafOf, indexOf, tree, updating, gen, forceSync, lost, bounds>>

SetUpdateTS2(g) ==
    /\ saver[g].pc = "mark2"
    /\ toUpdateDB' = toUpdateDB \cup {saver[g].orig}
    /\ saver' = [saver EXCEPT ![g] = NotSaving]
    /\ UNCHANGED <<leafOf, indexOf, tree, updating, toUpdateTS, gen, forceSync, lost, bounds>>

-----------------------------------------------------------------------------
(* The loop.                                                               *)

(* A tick, or a goroutine that waits in TryForceSync, starts a generation; *)
(* GetAndResetToUpdateTSList takes the marks and deletes their keys ...    *)
(* The entity is alive, as it is for all but the first and last moments of *)
(* its life: otherwise the generation does nothing.                        *)
TakeToUpdateTS(isForced) ==
    /\ gen.pc = "select" /\ \A g \in Logs : saver[g].pc # "mark2"
    /\ isForced => forceSync = "sending"
    /\ forceSync' = IF isForced THEN "sent" ELSE forceSync
    /\ gen' = [Loop("taking") EXCEPT !.list = toUpdateTS]
    /\ toUpdateTS' = {} /\ toUpdateDB' = {}
    /\ UNCHANGED <<leafOf, indexOf, tree, updating, saver, lost, bounds>>

(* ... and then writes the list under the updating key.                    *)
PutUpdating ==
    /\ gen.pc = "taking"
    /\ updating' = gen.list
    /\ gen' = [gen EXCEPT !.pc = "next"]
    /\ UNCHANGED <<leafOf, indexOf, tree, toUpdateDB, toUpdateTS, saver, forceSync, lost, bounds>>

(* The list comes from a map: its order is not fixed.                      *)
SaveMerkleTree(h) ==
    /\ gen.pc = "next" /\ h \in gen.list
    /\ gen' = [gen EXCEPT !.pc = "read", !.list = @ \ {h}, !.hour = h, !.level = 1]
    /\ UNCHANGED <<disk, toUpdateTS, saver, forceSync, lost, bounds>>

(* SaveMerkleTreeCore: the iterator reads a snapshot ...                   *)
ReadChildren ==
    /\ gen.pc = "read"
    /\ gen' = [gen EXCEPT !.pc = "write", !.node = Children(gen.level, Offset(gen.level, gen.hour))]
    /\ UNCHANGED <<disk, toUpdateTS, saver, forceSync, lost, bounds>>

(* ... and the node is put, or deleted when there are no children.  After  *)
(* the last level SaveGenerateTime ends the hour.                          *)
PutNode ==
    LET o == Offset(gen.level, gen.hour)
    IN  /\ gen.pc = "write"
        /\ tree' = [tree EXCEPT ![gen.level][o] = gen.node]
        /\ IF gen.level = Len(Span)
           THEN /\ gen' = [Loop("next") EXCEPT !.list = gen.list]
                /\ lost' = lost \ {gen.hour}
           ELSE /\ gen' = [gen EXCEPT !.pc = "read", !.level = @ + 1, !.node = {}]
                /\ UNCHANGED lost
        /\ UNCHANGED <<leafOf, indexOf, toUpdateDB, updating, toUpdateTS, saver, forceSync, bounds>>

ResetUpdatingTSList ==
    /\ gen.pc = "next" /\ gen.list = {}
    /\ updating' = {}
    /\ gen' = Loop("select")
    /\ UNCHANGED <<leafOf, indexOf, tree, toUpdateDB, toUpdateTS, saver, forceSync, lost, bounds>>

(* A write of the database fails: the loop forgets the rest of the list    *)
(* and leaves the updating key, which the next generation overwrites.      *)
SaveMerkleTreeFails ==
    /\ gen.pc = "write" /\ failures < MaxFailures
    /\ gen' = Loop("select")
    /\ lost' = lost \cup gen.list \cup {gen.hour}
    /\ failures' = failures + 1
    /\ UNCHANGED <<disk, toUpdateTS, saver, forceSync, saves, crashes>>

-----------------------------------------------------------------------------
(* TryForceSync: the flag keeps others out, the send waits for the loop.   *)
TryForceSync ==
    /\ forceSync = "none" /\ gen.pc # "down"
    /\ forceSync' = "sending"
    /\ UNCHANGED <<disk, toUpdateTS, saver, gen, lost, bounds>>

ResetBusyForceSync ==
    /\ forceSync = "sent"
    /\ forceSync' = "none"
    /\ UNCHANGED <<disk, toUpdateTS, saver, gen, lost, bounds>>

(* The protocol manager stops, and the loop with it.                       *)
QuitSync ==
    /\ gen.pc = "select"
    /\ gen' = Loop("quit")
    /\ UNCHANGED <<disk, toUpdateTS, saver, forceSync, lost, bounds>>

(* The process stops.  Marks that were not written yet are lost: those of  *)
(* a saver, and those taken out of the database but not yet on the list.   *)
TreeCrash ==
    /\ gen.pc # "down" /\ crashes < MaxCrashes
    /\ crashes' = crashes + 1
    /\ lost' = lost \cup {h \in Hours : \E g \in Logs : h \in {saver[g].new, saver[g].orig}}
                    \cup (IF gen.pc = "taking" THEN gen.list ELSE {})
    /\ toUpdateTS' = {} /\ saver' = [g \in Logs |-> NotSaving]
    /\ gen' = Loop("down") /\ forceSync' = "none"
    /\ UNCHANGED <<disk, saves, failures>>

RestartForgetsUpdating ==
    /\ gen.pc = "down"
    /\ toUpdateTS' = toUpdateDB
    /\ gen' = Loop("select")
    /\ UNCHANGED <<disk, saver, forceSync, lost, bounds>>

(* PMOplogMerkleTreeLoop starts: LoadToUpdateTSs, then the hours of the    *)
(* updating key are marked again; the generation that follows at once is   *)
(* TakeToUpdateTS.                                                         *)
TreeRestart ==
    /\ gen.pc = "down"
    /\ toUpdateTS' = toUpdateDB \cup updating
    /\ toUpdateDB' = toUpdateDB \cup updating
    /\ gen' = Loop("select")
    /\ UNCHANGED <<leafOf, indexOf, tree, updating, saver, forceSync, lost, bounds>>

Generate ==
    \/ \E isForced \in BOOLEAN : TakeToUpdateTS(isForced)
    \/ PutUpdating \/ (\E h \in Hours : SaveMerkleTree(h))
    \/ ReadChildren \/ PutNode \/ ResetUpdatingTSList

Save(g) == SavePut(g) \/ SetUpdateTS(g) \/ SetUpdateTS2(g)

TreeNext ==
    \/ \E g \in Logs : Save(g) \/ \E h \in Hours : SaveDelete(g, h)
    \/ Generate \/ SaveMerkleTreeFails
    \/ TryForceSync \/ ResetBusyForceSync
    \/ QuitSync \/ TreeCrash \/ TreeRestart

TreeSpec == TreeInit /\ [][TreeNext]_treevars

(* Goroutines run and the ticker ticks; select takes a ready sender, and a *)
(* mutex lets a waiting goroutine in, after finitely many other choices.   *)
TreeFairness ==
    /\ WF_treevars(Generate) /\ WF_treevars(TreeRestart) /\ WF_treevars(ResetBusyForceSync)
    /\ SF_treevars(TakeToUpdateTS(TRUE))
    /\ \A g \in Logs : WF_treevars(Save(g)) /\ SF_treevars(SetUpdateTS(g))

TreeFairSpec == TreeSpec /\ TreeFairness

-----------------------------------------------------------------------------
(* The node of level l at offset o is what its children say.               *)
Fresh(l, o) == tree[l][o] = Children(l, o)

(* Hour h will still be computed: it is marked, or will be marked by the   *)
(* goroutine that saved a log, or is on the list of the loop.              *)
Marked(h) ==
    IF gen.pc = "down" THEN h \in toUpdateDB \cup updating
    ELSE h \in toUpdateTS \cup gen.list \/ \E g \in Logs : h \in {saver[g].new, saver[g].orig}

(* ... or is the one the loop is at, before it is done with level l.       *)
InWork(h, l) ==
    /\ gen.hour = h
    /\ \/ gen.level < l
       \/ gen.level = l /\ (gen.pc = "read" \/ gen.node = Children(l, Offset(l, h)))

(* No change of a leaf is forgotten: a node that does not match its        *)
(* children covers an hour that is going to be computed, at every moment   *)
(* of every interleaving of savers, loop and restarts; the exceptions are  *)
(* the marks that a crash between two writes, or a failed write, destroys. *)
StaleIsScheduled ==
    \A l \in Levels : \A o \in Offsets(l) :
       Fresh(l, o) \/ \E h \in Hours :
                         Offset(l, h) = o /\ (Marked(h) \/ InWork(h, l) \/ h \in lost)

(* When nothing is saved any more the whole tree becomes right, unless a   *)
(* mark was destroyed or the loop was stopped.                             *)
EventuallyFresh ==
    <>[](lost = {} /\ gen.pc # "quit" => \A l \in Levels : \A o \in Offsets(l) : Fresh(l, o))

=============================================================================
