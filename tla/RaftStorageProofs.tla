-------------------------- MODULE RaftStorageProofs --------------------------
(***************************************************************************)
(* For logs of any length and any number of restarts, the storage serves   *)
(* the log that raft has, and, when no crash falls inside a Ready, raft on *)
(* this storage has the durable log of DurableLog.                         *)
(*                                                                         *)
(* The invariant says what a Ready under way still has to write: up to the *)
(* first of its entries the database agrees with raft, and its entries are *)
(* the rest.  Above the last index the database may hold entries that were *)
(* replaced; a restart brings them back, and they are never committed.     *)
(***************************************************************************)
EXTENDS RaftStorage, TLAPS

RaftTypes ==
    /\ rlog \in Seq(Term) /\ Len(rlog) <= MaxIndex /\ rcommit \in Nat
    /\ ready \in [todo : {<<>>, <<"entries">>, <<"hardState", "entries">>},
                  at : Nat, ents : Seq(Term), commit : Nat]
    /\ lastIdx \in Nat /\ firstIdx = 1 /\ hardState \in Nat
    /\ \E top \in lastIdx .. MaxIndex : dbRaft \in [0 .. top -> Term]

\* The database agrees with raft on the first n entries.
Stored(n) == n <= lastIdx /\ n <= Len(rlog) /\ \A j \in 1 .. n : dbRaft[j] = rlog[j]

Saved == lastIdx = Len(rlog) /\ Stored(lastIdx)

\* The entries of the Ready are what the database lacks.
Lacks ==
    /\ ready.at > 0 /\ Stored(ready.at - 1) /\ Len(rlog) = ready.at - 1 + Len(ready.ents)
    /\ \A j \in ready.at .. Len(rlog) : rlog[j] = ready.ents[j - ready.at + 1]

ReadyInv ==
    /\ ready.todo = <<>> => ready = NoReady
    /\ ready.todo # <<>> => ready.commit = rcommit
    /\ Len(ready.todo) < 2 => hardState = rcommit
    /\ IF ready.ents = <<>> THEN Saved ELSE Lacks

RaftInv == RaftTypes /\ ReadyInv

-----------------------------------------------------------------------------
(* Entries that are written at i leave the log below i and are the rest.   *)
LEMMA Replaced ==
    ASSUME rlog \in Seq(Term), NEW i \in 1 .. Len(rlog) + 1, NEW n \in Nat, NEW t \in Term
    PROVE  /\ Terms(n, t) \in Seq(Term) /\ Len(Terms(n, t)) = n
           /\ Written(i, n, t) \in Seq(Term)
           /\ n > 0 => /\ Len(Written(i, n, t)) = i - 1 + n
                       /\ \A j \in 1 .. i - 1 : Written(i, n, t)[j] = rlog[j]
                       /\ \A j \in i .. i - 1 + n : Written(i, n, t)[j] = Terms(n, t)[j - i + 1]
  <1> DEFINE keep == SubSeq(rlog, 1, i - 1)
             ents == Terms(n, t)
  <1>1. keep \in Seq(Term) /\ Len(keep) = i - 1 /\ \A j \in 1 .. i - 1 : keep[j] = rlog[j]
    OBVIOUS
  <1>2. ents \in Seq(Term) /\ Len(ents) = n
    BY DEF Terms
  <1> HIDE DEF keep, ents
  <1>3. keep \o ents \in Seq(Term) /\ Len(keep \o ents) = i - 1 + n
    BY <1>1, <1>2
  <1>4. \A j \in 1 .. i - 1 : (keep \o ents)[j] = rlog[j]
    BY <1>1, <1>2
  <1>5. \A j \in i .. i - 1 + n : (keep \o ents)[j] = ents[j - i + 1]
    BY <1>1, <1>2
  <1> QED BY <1>2, <1>3, <1>4, <1>5 DEF keep, ents, Written

(* The first and the last index of a database without gaps.                *)
LEMMA Ends ==
    ASSUME NEW top \in Nat, DOMAIN dbRaft = 0 .. top
    PROVE  GetIter = 0 /\ GetPrevIter = top
  <1>1. GetIter = 0
    BY DEF GetIter, Min
  <1>2. GetPrevIter = top
    BY DEF GetPrevIter, Max
  <1> QED BY <1>1, <1>2

-----------------------------------------------------------------------------
(* A clean storage serves the empty log.                                   *)
LEMMA RaftInvInit == RaftInit => RaftInv
  <1> SUFFICES ASSUME RaftInit PROVE RaftInv
    OBVIOUS
  <1>1. dbRaft \in [0 .. 0 -> Term] /\ 0 \in lastIdx .. MaxIndex
    <2>1. dbRaft = [x \in {0} |-> 0]
      BY DEF RaftInit, NewRaftStorageWithClean
    <2>2. 0 .. 0 = {0} /\ 0 \in Term
      BY RaftAssumption DEF Term
    <2> QED BY <2>1, <2>2, RaftAssumption DEF RaftInit, NewRaftStorageWithClean
  <1>2. RaftTypes
    BY <1>1, RaftAssumption DEF RaftInit, NewRaftStorageWithClean, RaftTypes, NoReady
  <1>3. ReadyInv
    BY DEF RaftInit, NewRaftStorageWithClean, ReadyInv, NoReady, Saved, Stored
  <1> QED BY <1>2, <1>3 DEF RaftInv

(* Raft makes a Ready of what it changed.                                  *)
LEMMA RaftStepKeeps == RaftInv /\ RaftStep => RaftInv'
  <1> SUFFICES ASSUME RaftInv, RaftStep PROVE RaftInv'
    OBVIOUS
  <1>1. PICK i \in rcommit + 1 .. Len(rlog) + 1, n \in 0 .. 2, t \in 1 .. MaxTerm :
          /\ rlog' = Written(i, n, t) /\ Len(rlog') <= MaxIndex
          /\ rcommit' \in rcommit .. Len(rlog')
          /\ ready' = [todo |-> <<"hardState", "entries">>, at |-> i, ents |-> Terms(n, t),
                       commit |-> rcommit']
    BY DEF RaftStep
  <1>2. /\ RaftTypes /\ ReadyInv /\ ready = NoReady
        /\ UNCHANGED <<dbRaft, hardState, lastIdx, firstIdx>>
    BY DEF RaftStep, RaftInv
  <1>3. i \in 1 .. Len(rlog) + 1 /\ n \in Nat /\ t \in Term /\ rlog \in Seq(Term)
    BY <1>2, RaftAssumption DEF RaftTypes, Term
  <1>4. /\ Terms(n, t) \in Seq(Term) /\ Len(Terms(n, t)) = n /\ rlog' \in Seq(Term)
        /\ n > 0 => /\ Len(rlog') = i - 1 + n
                    /\ \A j \in 1 .. i - 1 : rlog'[j] = rlog[j]
                    /\ \A j \in i .. i - 1 + n : rlog'[j] = Terms(n, t)[j - i + 1]
    BY <1>1, <1>3, Replaced
  <1>5. RaftTypes'
    <2>1. Len(rlog') \in Nat /\ rcommit' \in Nat
      BY <1>1, <1>2, <1>4 DEF RaftTypes
    <2>2. ready' \in [todo : {<<>>, <<"entries">>, <<"hardState", "entries">>},
                      at : Nat, ents : Seq(Term), commit : Nat]
      BY <1>1, <1>3, <1>4, <2>1
    <2> QED BY <1>1, <1>2, <1>4, <2>1, <2>2 DEF RaftTypes
  <1>6. Saved
    BY <1>2 DEF ReadyInv, NoReady
  <1>7. CASE n = 0
    <2>1. rlog' = rlog /\ Terms(n, t) = <<>>
      BY <1>1, <1>4, <1>7 DEF Written
    <2> QED BY <1>1, <1>2, <1>5, <1>6, <2>1 DEF RaftInv, ReadyInv, Saved, Stored
  <1>8. CASE n > 0
    <2>1. Lacks'
      BY <1>1, <1>2, <1>3, <1>4, <1>6, <1>8 DEF Lacks, Saved, Stored
    <2>2. ready'.ents # <<>>
      BY <1>1, <1>4, <1>8
    <2> QED BY <1>1, <1>2, <1>5, <2>1, <2>2 DEF RaftInv, ReadyInv
  <1> QED BY <1>7, <1>8

(* ServeRaftChannels writes the hard state, ...                            *)
LEMMA ServeHardStateKeeps ==
    ASSUME RaftInv, ServeRaftChannels, Head(ready.todo) = "hardState"
    PROVE  RaftInv'
  <1>1. RaftTypes /\ ReadyInv
    BY DEF RaftInv
  <1>2. ready.todo = <<"hardState", "entries">> /\ Len(ready.todo) = 2
    BY <1>1 DEF RaftTypes, ServeRaftChannels
  <1>3. /\ hardState' = ready.commit /\ ready' = [ready EXCEPT !.todo = <<"entries">>]
        /\ UNCHANGED <<rlog, rcommit, dbRaft, lastIdx, firstIdx>>
    BY <1>2 DEF ServeRaftChannels, SetHardState
  <1>4. RaftTypes'
    BY <1>1, <1>3 DEF RaftTypes
  <1>5. /\ ready'.todo = <<"entries">> /\ ready'.ents = ready.ents /\ ready'.at = ready.at
        /\ ready'.commit = ready.commit
    BY <1>1, <1>3 DEF RaftTypes
  <1>6. ReadyInv'
    BY <1>1, <1>2, <1>3, <1>5 DEF ReadyInv, Saved, Lacks, Stored
  <1> QED BY <1>4, <1>6 DEF RaftInv

(* ... and then the entries.                                               *)
LEMMA ServeEntriesKeeps ==
    ASSUME RaftInv, ServeRaftChannels, Head(ready.todo) # "hardState"
    PROVE  RaftInv'
  <1>1. RaftTypes /\ ReadyInv
    BY DEF RaftInv
  <1>2. ready.todo = <<"entries">> /\ Len(ready.todo) = 1
    BY <1>1 DEF RaftTypes, ServeRaftChannels
  <1>3. /\ RsAppend(ready.at, ready.ents) /\ ready' = NoReady
        /\ UNCHANGED <<rlog, rcommit, hardState, firstIdx>>
    BY <1>2 DEF ServeRaftChannels
  <1>4. hardState = rcommit
    BY <1>1, <1>2 DEF ReadyInv
  <1>5. SUFFICES Saved' /\ RaftTypes'
    BY <1>3, <1>4 DEF RaftInv, ReadyInv, NoReady
  <1>6. CASE ready.ents = <<>>
    BY <1>1, <1>3, <1>6 DEF ReadyInv, RsAppend, Saved, Stored, RaftTypes, NoReady
  <1>7. CASE ready.ents # <<>>
    <2> DEFINE last == ready.at + Len(ready.ents) - 1
    <2>1. /\ Lacks /\ ready.at \in Nat \ {0} /\ Len(ready.ents) \in Nat \ {0}
          /\ ready.ents \in Seq(Term)
      BY <1>1, <1>7 DEF ReadyInv, Lacks, RaftTypes
    <2>2. PICK top \in lastIdx .. MaxIndex : dbRaft \in [0 .. top -> Term]
      BY <1>1 DEF RaftTypes
    <2>3. lastIdx' = last /\ dbRaft' = SaveEntry(dbRaft, ready.at, ready.ents)
      BY <1>1, <1>3, <1>7, <2>1 DEF RsAppend, RaftTypes
    <2>4. last = Len(rlog) /\ last \in 1 .. MaxIndex /\ ready.at <= last
      BY <1>1, <2>1 DEF Lacks, RaftTypes
    <2> DEFINE newtop == IF last > top THEN last ELSE top
    <2>5. newtop \in last .. MaxIndex
      BY <1>1, <2>2, <2>4, RaftAssumption DEF RaftTypes
    <2>6. DOMAIN dbRaft \cup ready.at .. last = 0 .. newtop
      BY <1>1, <2>1, <2>2, <2>4 DEF Lacks, Stored, RaftTypes
    <2>7. dbRaft' = [j \in 0 .. newtop |->
                       IF j \in ready.at .. last THEN ready.ents[j - ready.at + 1] ELSE dbRaft[j]]
      BY <2>3, <2>6 DEF SaveEntry
    <2>8. dbRaft' \in [0 .. newtop -> Term]
      <3>1. ASSUME NEW j \in ready.at .. last PROVE ready.ents[j - ready.at + 1] \in Term
        BY <2>1, <3>1
      <3>2. ASSUME NEW j \in 0 .. newtop, j \notin ready.at .. last PROVE dbRaft[j] \in Term
        BY <2>2, <2>6, <3>2
      <3> QED BY <2>7, <3>1, <3>2
    <2>9. ASSUME NEW j \in 1 .. last PROVE dbRaft'[j] = rlog[j]
      <3>1. j \in 0 .. newtop
        BY <2>4, <2>5
      <3>2. CASE j \in ready.at .. last
        BY <2>1, <2>4, <2>7, <3>1, <3>2 DEF Lacks
      <3>3. CASE j \notin ready.at .. last
        <4>1. j \in 1 .. ready.at - 1
          BY <2>1, <2>4, <3>3
        <4> QED BY <2>1, <2>7, <3>1, <3>3, <4>1 DEF Lacks, Stored
      <3> QED BY <3>2, <3>3
    <2>10. Saved'
      BY <1>1, <1>3, <2>3, <2>4, <2>9 DEF Saved, Stored, RaftTypes
    <2>11. NoReady \in [todo : {<<>>, <<"entries">>, <<"hardState", "entries">>},
                        at : Nat, ents : Seq(Term), commit : Nat]
      BY DEF NoReady
    <2>12. \E x \in lastIdx' .. MaxIndex : dbRaft' \in [0 .. x -> Term]
      BY <2>3, <2>5, <2>8
    <2>13. lastIdx' \in Nat
      BY <2>3, <2>4
    <2>14. RaftTypes'
      BY <1>1, <1>3, <2>11, <2>12, <2>13 DEF RaftTypes
    <2> QED BY <2>10, <2>14
  <1> QED BY <1>6, <1>7

(* A restart takes up what the storage has.                                *)
LEMMA RestartKeeps == RaftInv /\ RaftRestart => RaftInv'
  <1> SUFFICES ASSUME RaftInv, RaftRestart PROVE RaftInv'
    OBVIOUS
  <1>1. RaftTypes
    BY DEF RaftInv
  <1>2. PICK top \in lastIdx .. MaxIndex : dbRaft \in [0 .. top -> Term]
    BY <1>1 DEF RaftTypes
  <1>3. top \in Nat /\ DOMAIN dbRaft = 0 .. top
    BY <1>1, <1>2, RaftAssumption DEF RaftTypes
  <1>4. /\ lastIdx' = top /\ firstIdx' = 1 /\ rlog' = [i \in 1 .. top |-> dbRaft[i]]
        /\ rcommit' = hardState /\ ready' = NoReady /\ UNCHANGED <<dbRaft, hardState>>
    BY <1>3, Ends DEF RaftRestart, NewRaftStorage, LogOf
  <1>5. rlog' \in Seq(Term) /\ Len(rlog') = top
    BY <1>2, <1>3, <1>4
  <1>6. RaftTypes'
    <2>1. \E x \in lastIdx' .. MaxIndex : dbRaft' \in [0 .. x -> Term]
      BY <1>2, <1>3, <1>4
    <2>2. NoReady \in [todo : {<<>>, <<"entries">>, <<"hardState", "entries">>},
                       at : Nat, ents : Seq(Term), commit : Nat]
      BY DEF NoReady
    <2>3. Len(rlog') <= MaxIndex /\ rcommit' \in Nat /\ hardState' \in Nat
      BY <1>1, <1>2, <1>4, <1>5, RaftAssumption DEF RaftTypes
    <2>4. lastIdx' \in Nat /\ firstIdx' = 1
      BY <1>3, <1>4
    <2> QED BY <1>4, <1>5, <2>1, <2>2, <2>3, <2>4 DEF RaftTypes
  <1>7. ReadyInv'
    BY <1>3, <1>4, <1>5 DEF ReadyInv, NoReady, Saved, Stored
  <1> QED BY <1>6, <1>7 DEF RaftInv

(* Every step keeps what the storage holds in line with raft.              *)
LEMMA RaftInvNext == RaftInv /\ [RaftNext]_rsvars => RaftInv'
  <1> SUFFICES ASSUME RaftInv, [RaftNext]_rsvars PROVE RaftInv'
    OBVIOUS
  <1>1. CASE RaftNext
    BY <1>1, RaftStepKeeps, ServeHardStateKeeps, ServeEntriesKeeps, RestartKeeps DEF RaftNext
  <1>2. CASE UNCHANGED rsvars
    BY <1>2 DEF rsvars, RaftInv, RaftTypes, ReadyInv, Saved, Lacks, Stored
  <1> QED BY <1>1, <1>2

(* Between two Readys the storage answers with the log that raft has       *)
(* (Append, Entries, NewRaftStorage), for logs of any length, and wherever *)
(* the crashes fall.                                                       *)
THEOREM StorageServesLogHolds == RSSpec => []StorageServesLog
  <1>1. RaftInv => StorageServesLog
    <2> SUFFICES ASSUME RaftInv, ready = NoReady
                 PROVE  /\ lastIdx = Len(rlog) /\ hardState = rcommit
                        /\ Entries(1, lastIdx + 1) = rlog
      BY DEF StorageServesLog
    <2>1. RaftTypes /\ Saved /\ hardState = rcommit
      BY DEF RaftInv, ReadyInv, NoReady
    <2>2. rlog = [j \in 1 .. lastIdx |-> rlog[j]]
      BY <2>1 DEF RaftTypes, Saved
    <2>3. Entries(1, lastIdx + 1) = [j \in 1 .. (lastIdx + 1) - 1 |-> dbRaft[j]]
      BY DEF Entries
    <2>4. 1 .. (lastIdx + 1) - 1 = 1 .. lastIdx
      BY <2>1 DEF RaftTypes
    <2>5. \A j \in 1 .. lastIdx : dbRaft[j] = rlog[j]
      BY <2>1 DEF Saved, Stored
    <2>6. Entries(1, lastIdx + 1) = rlog
      BY <2>2, <2>3, <2>4, <2>5
    <2> QED BY <2>1, <2>6 DEF Saved
  <1> QED BY <1>1, RaftInvInit, RaftInvNext, PTL DEF RSSpec

-----------------------------------------------------------------------------
(* When no crash falls inside a Ready, what is committed is in the log.    *)
CommitInv == RaftInv /\ rcommit <= Len(rlog)

(* The commit index stays within the log.                                  *)
LEMMA CommitInvNext ==
    ASSUME ~CrashInside, CommitInv, [RaftNext]_rsvars
    PROVE  CommitInv'
  <1>1. RaftInv /\ RaftInv' /\ RaftTypes /\ ReadyInv
    BY RaftInvNext DEF CommitInv, RaftInv
  <1>2. CASE RaftStep
    <2>1. PICK i \in rcommit + 1 .. Len(rlog) + 1, n \in 0 .. 2, t \in 1 .. MaxTerm :
            rcommit' \in rcommit .. Len(rlog')
      BY <1>2 DEF RaftStep
    <2>2. rcommit \in Nat /\ Len(rlog') \in Nat
      BY <1>1 DEF RaftInv, RaftTypes
    <2> QED BY <1>1, <2>1, <2>2 DEF CommitInv
  <1>3. CASE ServeRaftChannels \/ UNCHANGED rsvars
    BY <1>1, <1>3 DEF ServeRaftChannels, rsvars, CommitInv
  <1>4. CASE RaftRestart
    <2>1. PICK top \in lastIdx .. MaxIndex : dbRaft \in [0 .. top -> Term]
      BY <1>1 DEF RaftTypes
    <2>2. top \in Nat /\ DOMAIN dbRaft = 0 .. top
      BY <1>1, <2>1, RaftAssumption DEF RaftTypes
    <2>3. rcommit' = hardState /\ rlog' = [i \in 1 .. top |-> dbRaft[i]] /\ ready = NoReady
      BY <1>4, <2>2, Ends DEF RaftRestart, NewRaftStorage, LogOf
    <2>4. hardState = rcommit /\ Len(rlog) = lastIdx
      BY <1>1, <2>3 DEF ReadyInv, NoReady, Saved
    <2>5. Len(rlog') = top
      BY <2>2, <2>3
    <2> QED BY <1>1, <2>1, <2>3, <2>4, <2>5 DEF CommitInv, RaftTypes
  <1> QED BY <1>2, <1>3, <1>4 DEF RaftNext

(* A sequence of terms is a log of DurableLog.                             *)
LEMMA SeqIsLog == ASSUME rlog' \in Seq(Term) PROVE DL!IsLog(rlog')
  <1>1. Len(rlog') \in 0 .. Len(rlog') /\ rlog' \in [1 .. Len(rlog') -> Term]
    OBVIOUS
  <1> QED BY <1>1 DEF DL!IsLog

(* What raft makes ready is a Ready of DurableLog, ...                     *)
LEMMA RaftStepIsReady == ASSUME CommitInv, RaftStep, RaftInv' PROVE DL!Ready
  <1>1. PICK i \in rcommit + 1 .. Len(rlog) + 1, n \in 0 .. 2, t \in 1 .. MaxTerm :
          rlog' = Written(i, n, t) /\ rcommit' \in rcommit .. Len(rlog')
    BY DEF RaftStep
  <1>2. rlog \in Seq(Term) /\ rcommit \in Nat /\ rlog' \in Seq(Term)
    BY DEF CommitInv, RaftInv, RaftTypes
  <1>3. i \in 1 .. Len(rlog) + 1 /\ n \in Nat /\ t \in Term
    BY <1>2, RaftAssumption DEF Term
  <1>4. Len(rlog') >= i - 1 /\ \A j \in 1 .. i - 1 : rlog'[j] = rlog[j]
    <2>1. CASE n = 0
      <3>1. rlog' = rlog
        BY <1>1, <2>1 DEF Written
      <3> QED BY <1>2, <1>3, <3>1
    <2>2. CASE n > 0
      <3>1. Len(rlog') = i - 1 + n /\ \A j \in 1 .. i - 1 : rlog'[j] = rlog[j]
        BY <1>1, <1>2, <1>3, <2>2, Replaced
      <3> QED BY <1>3, <3>1
    <2> QED BY <1>3, <2>1, <2>2
  <1>5. SubSeq(rlog', 1, i - 1) = SubSeq(rlog, 1, i - 1)
    BY <1>2, <1>3, <1>4
  <1>6. rcommit <= rcommit' /\ rcommit' <= Len(rlog')
    BY <1>1, <1>2
  <1> QED BY <1>2, <1>4, <1>5, <1>6, SeqIsLog DEF DL!Ready

(* ... and a restart between two Readys is a Crash of DurableLog.          *)
LEMMA RestartIsCrash ==
    ASSUME ~CrashInside, CommitInv, RaftRestart, RaftInv' PROVE DL!Crash
  <1>1. RaftTypes /\ ReadyInv /\ rcommit <= Len(rlog) /\ rlog' \in Seq(Term)
    BY DEF CommitInv, RaftInv, RaftTypes
  <1>2. PICK top \in lastIdx .. MaxIndex : dbRaft \in [0 .. top -> Term]
    BY <1>1 DEF RaftTypes
  <1>3. top \in Nat /\ DOMAIN dbRaft = 0 .. top
    BY <1>1, <1>2, RaftAssumption DEF RaftTypes
  <1>4. rcommit' = hardState /\ rlog' = [i \in 1 .. top |-> dbRaft[i]] /\ ready = NoReady
    BY <1>3, Ends DEF RaftRestart, NewRaftStorage, LogOf
  <1>5. hardState = rcommit /\ Saved
    BY <1>1, <1>4 DEF ReadyInv, NoReady
  <1>6. Len(rlog') = top /\ top >= rcommit /\ rcommit \in Nat
    BY <1>1, <1>2, <1>3, <1>4, <1>5 DEF Saved, RaftTypes
  <1>7. \A j \in 1 .. rcommit : rlog'[j] = rlog[j]
    BY <1>1, <1>3, <1>4, <1>5, <1>6 DEF Saved, Stored, RaftTypes
  <1>8. SubSeq(rlog', 1, rcommit) = SubSeq(rlog, 1, rcommit)
    BY <1>1, <1>6, <1>7 DEF RaftTypes
  <1> QED BY <1>1, <1>4, <1>5, <1>6, <1>8, SeqIsLog DEF DL!Crash

(* Raft on this storage has a durable log: entries are replaced only where *)
(* they are not committed, and a restart takes nothing that was committed  *)
(* (NewRaftStorage), unless a crash falls between the hard state and the   *)
(* entries of one Ready (ServeRaftChannels).                               *)
THEOREM CommittedSurvivesHolds == ASSUME ~CrashInside PROVE RSSpec => CommittedSurvives
  <1>1. RaftInit => CommitInv /\ DL!Init
    BY RaftInvInit DEF RaftInit, CommitInv, DL!Init
  <1>2. CommitInv /\ [RaftNext]_rsvars => CommitInv' /\ [DL!Next]_<<rlog, rcommit>>
    <2> SUFFICES ASSUME CommitInv, [RaftNext]_rsvars
                 PROVE  CommitInv' /\ [DL!Next]_<<rlog, rcommit>>
      OBVIOUS
    <2>1. CommitInv' /\ RaftInv'
      BY CommitInvNext DEF CommitInv
    <2>2. CASE RaftStep
      BY <2>1, <2>2, RaftStepIsReady DEF DL!Next
    <2>3. CASE ServeRaftChannels \/ UNCHANGED rsvars
      BY <2>1, <2>3 DEF ServeRaftChannels, rsvars
    <2>4. CASE RaftRestart
      BY <2>1, <2>4, RestartIsCrash DEF DL!Next
    <2> QED BY <2>2, <2>3, <2>4 DEF RaftNext
  <1> QED BY <1>1, <1>2, PTL DEF RSSpec, CommittedSurvives, DL!Spec
==============================================================================
