---------------------------- MODULE RaftStorage ----------------------------
(***************************************************************************)
(* The storage of the raft log at one of a user's devices (me/             *)
(* raft_storage.go) and the loop that writes to it what raft made ready    *)
(* (ServeRaftChannels, me/protocol_raft.go), with crashes.                 *)
(*                                                                         *)
(* Raft itself is a library: it hands over entries that follow or replace  *)
(* what is not committed, with a later term, and an index up to which all  *)
(* is committed.  An entry is its term.  Snapshots are never made          *)
(* (MaybeTriggerRaftSnapshot), so the first index stays 1.                 *)
(***************************************************************************)
EXTENDS Naturals, SequencesExt

CONSTANTS MaxIndex, MaxTerm, MaxRaftCrashes,    \* bounds
          CrashInside       \* whether a crash may fall inside a Ready

ASSUME RaftAssumption == MaxIndex \in Nat /\ MaxTerm \in Nat /\ CrashInside \in BOOLEAN

VARIABLES
    rlog,       \* the log as raft has it, and
    rcommit,    \* its committed index
    chosen,     \* what the devices together have committed
    ready,      \* the Ready that ServeRaftChannels handles: what is left to do
    dbRaft,     \* entries in the database: index -> term
    hardState,  \* HardState in the database and in memory: the committed index
    lastIdx, firstIdx,
    raftCrashes

rsvars == <<rlog, rcommit, chosen, ready, dbRaft, hardState, lastIdx, firstIdx, raftCrashes>>

NoReady == [todo |-> <<>>, at |-> 0, ents |-> <<>>, commit |-> 0]

Term == 0 .. MaxTerm
LastTerm(s) == IF s = <<>> THEN 0 ELSE s[Len(s)]

-----------------------------------------------------------------------------
(* The operations of the storage.                                          *)
SaveEntry(db, i, ents) ==
    [j \in DOMAIN db \cup i .. i + Len(ents) - 1 |->
        IF j \in i .. i + Len(ents) - 1 THEN ents[j - i + 1] ELSE db[j]]

appendKeepsLast(i, ents) ==
    /\ dbRaft' = SaveEntry(dbRaft, i, ents)
    /\ lastIdx' = IF i + Len(ents) - 1 > lastIdx THEN i + Len(ents) - 1 ELSE lastIdx
RsAppend(i, ents) ==
    IF ents = <<>> \/ i + Len(ents) - 1 < firstIdx THEN UNCHANGED <<dbRaft, lastIdx>>
    ELSE /\ dbRaft' = SaveEntry(dbRaft, i, ents)
         /\ lastIdx' = i + Len(ents) - 1

SetHardState(c) == hardState' = c

(* Entries of the interface; GetEntry fails when one is missing.           *)
Entries(lo, hi) == [i \in lo .. hi - 1 |-> dbRaft[i]]
LogOf(db, last) == [i \in 1 .. last |-> db[i]]

GetIter == Min(DOMAIN dbRaft)
GetPrevIter == Max(DOMAIN dbRaft)

(* With the dummy entry at index 0.                                        *)
NewRaftStorageWithClean == /\ dbRaft = [i \in {0} |-> 0] /\ firstIdx = 1 /\ lastIdx = 0 /\ hardState = 0

restartMissesLast ==
    /\ firstIdx' = GetIter + 1 /\ lastIdx' = GetPrevIter - 1
    /\ UNCHANGED <<dbRaft, hardState>>
NewRaftStorage ==
    /\ firstIdx' = GetIter + 1 /\ lastIdx' = GetPrevIter
    /\ UNCHANGED <<dbRaft, hardState>>

-----------------------------------------------------------------------------
(* Raft: n entries of term t are written at i, over what was there, as the *)
(* leader of a later term says, or added; some become committed.           *)
Terms(n, t) == [j \in 1 .. n |-> t]
Written(i, n, t) == IF n = 0 THEN rlog ELSE SubSeq(rlog, 1, i - 1) \o Terms(n, t)

RaftStep ==
    /\ ready = NoReady
    /\ \E i \in rcommit + 1 .. Len(rlog) + 1, n \in 0 .. 2, t \in 1 .. MaxTerm :
         /\ rlog' = Written(i, n, t) /\ Len(rlog') <= MaxIndex
         /\ n > 0 => t >= LastTerm(SubSeq(rlog, 1, i - 1)) /\ (i <= Len(rlog) => t > rlog[i])
         /\ rcommit' \in rcommit .. Len(rlog') /\ (n = 0 => rcommit' > rcommit)
         /\ ready' = [todo |-> <<"hardState", "entries">>, at |-> i, ents |-> Terms(n, t),
                      commit |-> rcommit']
    /\ \E s \in {SubSeq(rlog', 1, rcommit')} :
         /\ IsPrefix(s, chosen) \/ IsPrefix(chosen, s)
         /\ chosen' = IF Len(s) > Len(chosen) THEN s ELSE chosen
    /\ UNCHANGED <<dbRaft, hardState, lastIdx, firstIdx, raftCrashes>>

(* ServeRaftChannels: the hard state, then the entries.                    *)
ServeRaftChannels ==
    /\ ready.todo # <<>>
    /\ ready' = IF Len(ready.todo) = 1 THEN NoReady ELSE [ready EXCEPT !.todo = Tail(@)]
    /\ \/ /\ Head(ready.todo) = "hardState" /\ SetHardState(ready.commit)
          /\ UNCHANGED <<dbRaft, lastIdx>>
       \/ Head(ready.todo) = "entries" /\ RsAppend(ready.at, ready.ents) /\ UNCHANGED hardState
    /\ UNCHANGED <<rlog, rcommit, chosen, firstIdx, raftCrashes>>

(* RestartNode takes the log and the committed index from the storage.     *)
RaftRestart ==
    /\ raftCrashes < MaxRaftCrashes /\ raftCrashes' = raftCrashes + 1
    /\ CrashInside \/ ready = NoReady
    /\ NewRaftStorage
    /\ rlog' = LogOf(dbRaft, lastIdx') /\ rcommit' = hardState /\ ready' = NoReady
    /\ UNCHANGED chosen

RaftInit ==
    /\ NewRaftStorageWithClean
    /\ rlog = <<>> /\ rcommit = 0 /\ chosen = <<>> /\ ready = NoReady /\ raftCrashes = 0

RaftNext == RaftStep \/ ServeRaftChannels \/ RaftRestart

RSSpec == RaftInit /\ [][RaftNext]_rsvars

-----------------------------------------------------------------------------
(* Between two Readys the storage answers with the log that raft has: its  *)
(* last index, and each of its entries.                                    *)
StorageServesLog ==
    ready = NoReady => lastIdx = Len(rlog) /\ hardState = rcommit /\ Entries(1, lastIdx + 1) = rlog

(* What a device holds to be committed is what the devices committed, also *)
(* after it restarted from the storage.                                    *)
CommittedIsChosen ==
    /\ rcommit <= Len(rlog) /\ rcommit <= Len(chosen)
    /\ SubSeq(rlog, 1, rcommit) = SubSeq(chosen, 1, rcommit)

(* Raft on this storage has a durable log: entries are replaced only where *)
(* they are not committed, and a restart takes nothing that was committed. *)
DL == INSTANCE DurableLog WITH entries <- rlog, commit <- rcommit
CommittedSurvives == DL!Spec
=============================================================================
