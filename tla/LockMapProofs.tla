--------------------------- MODULE LockMapProofs ---------------------------
(***************************************************************************)
(* Mutual exclusion of common/types/lock_map.go for any number of          *)
(* goroutines, any set of ids and any number of retries.  The inductive    *)
(* invariant is TypeOK, EntryMatchesHolders and CallNotHeld:               *)
(* WriterExclusion alone is not inductive, because what TryLock and        *)
(* TryRLock read is the map entry, so the entry must be tied to what the   *)
(* goroutines hold.                                                        *)
(***************************************************************************)
EXTENDS LockMap, FiniteSetTheorems, TLAPS

(* A goroutine inside a lock call does not hold that id yet.               *)
CallNotHeld == \A p \in Procs : InCall(p) => held[p][call[p].id] = "none"

LockInv == TypeOK /\ EntryMatchesHolders /\ CallNotHeld

(* No entry without a holder and no holder without an entry at the start.  *)
LEMMA InitLockInv == Init => LockInv
<1> SUFFICES ASSUME Init PROVE LockInv
  OBVIOUS
<1>1. TypeOK
  BY LockMapAssumption DEF Init, TypeOK, Modes, Calls, Running
<1>2. EntryMatchesHolders
  BY DEF Init, EntryMatchesHolders, Readers, Writers
<1>3. CallNotHeld
  BY DEF Init, CallNotHeld, InCall, Running, Ops
<1> QED BY <1>1, <1>2, <1>3 DEF LockInv

(* Every operation keeps the variables in their types.                     *)
LEMMA TypeStep == TypeOK /\ [Next]_vars => TypeOK'
<1> SUFFICES ASSUME TypeOK, [Next]_vars PROVE TypeOK'
  OBVIOUS
<1> USE LockMapAssumption DEF TypeOK, Modes
<1>1. CASE UNCHANGED vars
  BY <1>1 DEF vars
<1>2. ASSUME NEW p \in Procs, NEW op \in Ops, NEW id \in IDs, Begin(p, op, id) PROVE TypeOK'
  BY <1>2 DEF Begin, Calls
<1>3. ASSUME NEW p \in Procs, TryLock(p) PROVE TypeOK'
  <2>1. call[p].id \in IDs
    BY <1>3 DEF TryLock, Calls, Running, Returning, Ops
  <2> QED BY <1>3, <2>1 DEF TryLock, Set, Calls
<1>4. ASSUME NEW p \in Procs, TryRLock(p) PROVE TypeOK'
  <2>1. call[p].id \in IDs
    BY <1>4 DEF TryRLock, Calls, Running, Returning, Ops
  <2> QED BY <1>4, <2>1 DEF TryRLock, Set, Calls
<1>5. ASSUME NEW p \in Procs, Busy(p) PROVE TypeOK'
  <2>1. call[p] \in [op : Ops, id : IDs, i : 0 .. (NIterLock - 1)]
    BY <1>5 DEF Busy, InCall, Calls, Running, Returning, Ops
  <2>2. call'[p] \in Calls
    BY <1>5, <2>1 DEF Busy, Calls
  <2> QED BY <1>5, <2>2 DEF Busy
<1>6. ASSUME NEW p \in Procs, Return(p) PROVE TypeOK'
  BY <1>6 DEF Return, Calls
<1>7. ASSUME NEW p \in Procs, NEW id \in IDs, Unlock(p, id) PROVE TypeOK'
  BY <1>7 DEF Unlock, Delete, Release
<1>8. ASSUME NEW p \in Procs, NEW id \in IDs, RUnlock(p, id) PROVE TypeOK'
  BY <1>8 DEF RUnlock, Delete, Set, Release
<1>9. ASSUME NEW p \in Procs, NextHandler(p) PROVE TypeOK'
  BY <1>9 DEF NextHandler, Calls
<1> QED BY <1>1, <1>2, <1>3, <1>4, <1>5, <1>6, <1>7, <1>8, <1>9 DEF Next, Try, Finish

(* The readers of an id are finitely many: their number is a natural.      *)
LEMMA ReadersFinite == ASSUME NEW id \in IDs
                       PROVE  /\ IsFiniteSet(Readers(id))
                              /\ Cardinality(Readers(id)) \in Nat
                              /\ Cardinality(Readers(id)) = 0 <=> Readers(id) = {}
BY LockMapAssumption, FS_Subset, FS_CardinalityType, FS_EmptySet DEF Readers

(* What EntryMatchesHolders says of one id.                                *)
EntryOf(id) ==
    IF id \notin DOMAIN lockMap
    THEN Readers(id) = {} /\ Writers(id) = {}
    ELSE \/ /\ lockMap[id] = -1
            /\ Readers(id) = {}
            /\ \E p \in Procs : Writers(id) = {p}
         \/ /\ lockMap[id] = Cardinality(Readers(id))
            /\ lockMap[id] > 0
            /\ Writers(id) = {}

(* An operation on one id leaves the entry and the holders of the others.  *)
LEMMA OtherEntries ==
  ASSUME TypeOK, NEW p \in Procs, NEW id \in IDs, NEW m \in Modes,
         held' = [held EXCEPT ![p][id] = m],
         NEW j \in IDs, j # id,
         (j \in DOMAIN lockMap)' <=> j \in DOMAIN lockMap,
         j \in DOMAIN lockMap => lockMap'[j] = lockMap[j],
         EntryOf(j)
  PROVE  EntryOf(j)'
<1>1. Readers(j)' = Readers(j) /\ Writers(j)' = Writers(j)
  BY DEF TypeOK, Readers, Writers
<1> QED BY <1>1 DEF EntryOf

(* Every operation keeps each entry equal to what is held of its id.       *)
LEMMA EntryStep == LockInv /\ [Next]_vars => EntryMatchesHolders'
<1> SUFFICES ASSUME TypeOK, EntryMatchesHolders, CallNotHeld, [Next]_vars
             PROVE  EntryMatchesHolders'
  BY DEF LockInv
<1>0. \A id \in IDs : EntryOf(id)
  BY DEF EntryMatchesHolders, EntryOf
<1> SUFFICES ASSUME NEW j \in IDs PROVE EntryOf(j)'
  BY DEF EntryMatchesHolders, EntryOf
<1>1. CASE UNCHANGED <<lockMap, held>>
  <2>1. Readers(j)' = Readers(j) /\ Writers(j)' = Writers(j)
    BY <1>1 DEF Readers, Writers
  <2> QED BY <1>0, <1>1, <2>1 DEF EntryOf
<1>2. ASSUME NEW p \in Procs, TryLock(p) PROVE EntryOf(j)'
  <2> DEFINE id == call[p].id
  <2>1. id \in IDs
    BY <1>2 DEF TryLock, TypeOK, Calls, Running, Returning, Ops
  <2>2. CASE j # id
    BY <1>0, <1>2, <2>1, <2>2, OtherEntries DEF TryLock, Set, Modes
  <2>3. CASE j = id
    <3>1. Readers(j) = {} /\ Writers(j) = {}
      BY <1>0, <1>2, <2>3 DEF TryLock, EntryOf
    <3>2. Readers(j)' = {} /\ Writers(j)' = {p}
      BY <1>2, <2>1, <2>3, <3>1 DEF TryLock, TypeOK, Readers, Writers
    <3> QED BY <1>2, <2>3, <3>2 DEF TryLock, Set, EntryOf
  <2> QED BY <2>2, <2>3
<1>3. ASSUME NEW p \in Procs, TryRLock(p) PROVE EntryOf(j)'
  <2> DEFINE id == call[p].id
  <2>1. id \in IDs
    BY <1>3 DEF TryRLock, TypeOK, Calls, Running, Returning, Ops
  <2>2. CASE j # id
    BY <1>0, <1>3, <2>1, <2>2, OtherEntries DEF TryRLock, Set, Modes
  <2>3. CASE j = id
    <3>1. Writers(j) = {}
      BY <1>0, <1>3, <2>3 DEF TryRLock, EntryOf
    <3>2. Readers(j)' = Readers(j) \cup {p} /\ Writers(j)' = {}
      BY <1>3, <2>1, <2>3, <3>1 DEF TryRLock, TypeOK, Readers, Writers
    <3>3. CASE j \notin DOMAIN lockMap
      <4>1. Readers(j)' = {p}
        BY <1>0, <3>2, <3>3 DEF EntryOf
      <4>2. Cardinality(Readers(j)') = 1
        BY <4>1, FS_Singleton
      <4> QED BY <1>3, <2>3, <3>2, <3>3, <4>2 DEF TryRLock, Set, EntryOf
    <3>4. CASE j \in DOMAIN lockMap
      <4>1. lockMap[j] = Cardinality(Readers(j)) /\ lockMap[j] > 0
        BY <1>0, <1>3, <2>3, <3>4 DEF TryRLock, EntryOf
      <4>2. p \notin Readers(j)
        BY <1>3, <2>3 DEF TryRLock, CallNotHeld, InCall, Ops, Readers
      <4>3. Cardinality(Readers(j)') = Cardinality(Readers(j)) + 1
        BY <3>2, <4>2, ReadersFinite, FS_AddElement
      <4>4. lockMap'[j] = lockMap[j] + 1 /\ j \in DOMAIN lockMap'
        BY <1>3, <2>3, <3>4 DEF TryRLock, Set
      <4> QED BY <3>2, <4>1, <4>3, <4>4, ReadersFinite DEF EntryOf
    <3> QED BY <3>3, <3>4
  <2> QED BY <2>2, <2>3
<1>4. ASSUME NEW p \in Procs, NEW id \in IDs, Unlock(p, id) PROVE EntryOf(j)'
  <2>1. lockMap[id] = -1 /\ id \in DOMAIN lockMap /\ Readers(id) = {} /\ Writers(id) = {p}
    BY <1>0, <1>4 DEF Unlock, EntryOf, Writers
  <2>2. lockMap' = Delete(id) /\ held' = [held EXCEPT ![p][id] = "none"]
    BY <1>4, <2>1 DEF Unlock, Release
  <2>3. CASE j # id
    BY <1>0, <2>2, <2>3, OtherEntries DEF Delete, Modes
  <2>4. CASE j = id
    <3>1. Readers(j)' = {} /\ Writers(j)' = {}
      BY <2>1, <2>2, <2>4 DEF TypeOK, Readers, Writers
    <3> QED BY <2>2, <2>4, <3>1 DEF Delete, EntryOf
  <2> QED BY <2>3, <2>4
<1>5. ASSUME NEW p \in Procs, NEW id \in IDs, RUnlock(p, id) PROVE EntryOf(j)'
  <2>1. p \in Readers(id)
    BY <1>5 DEF RUnlock, Readers
  <2>2. /\ id \in DOMAIN lockMap /\ lockMap[id] = Cardinality(Readers(id)) /\ lockMap[id] > 0
        /\ Writers(id) = {}
    BY <1>0, <2>1 DEF EntryOf
  <2>3. /\ lockMap' = IF lockMap[id] = 1 THEN Delete(id) ELSE Set(id, lockMap[id] - 1)
        /\ held' = [held EXCEPT ![p][id] = "none"]
    BY <1>5, <2>2, ReadersFinite DEF RUnlock, Release
  <2>4. CASE j # id
    BY <1>0, <2>3, <2>4, OtherEntries DEF Delete, Set, Modes
  <2>5. CASE j = id
    <3>1. Readers(j)' = Readers(j) \ {p} /\ Writers(j)' = {}
      BY <2>2, <2>3, <2>5 DEF TypeOK, Readers, Writers
    <3>2. /\ Cardinality(Readers(j)') = Cardinality(Readers(j)) - 1
          /\ IsFiniteSet(Readers(j)')
      BY <2>1, <2>5, <3>1, ReadersFinite, FS_RemoveElement
    <3>3. CASE lockMap[id] = 1
      <4>1. Readers(j)' = {}
        BY <2>2, <2>5, <3>2, <3>3, FS_EmptySet
      <4> QED BY <2>3, <2>5, <3>1, <3>3, <4>1 DEF Delete, EntryOf
    <3>4. CASE lockMap[id] # 1
      <4>1. lockMap'[j] = Cardinality(Readers(j)') /\ lockMap'[j] > 0 /\ j \in DOMAIN lockMap'
        BY <2>2, <2>3, <2>5, <3>2, <3>4, ReadersFinite DEF Set
      <4> QED BY <3>1, <4>1 DEF EntryOf
    <3> QED BY <3>3, <3>4
  <2> QED BY <2>4, <2>5
<1>6. [Next]_vars => \/ UNCHANGED <<lockMap, held>>
                     \/ \E p \in Procs : \/ TryLock(p) \/ TryRLock(p)
                                         \/ \E id \in IDs : Unlock(p, id) \/ RUnlock(p, id)
  BY DEF Next, vars, Try, Finish, Begin, Busy, Return, NextHandler
<1> QED BY <1>1, <1>2, <1>3, <1>4, <1>5, <1>6

(* Begin is the only step that enters a call, and it asks for an id the    *)
(* goroutine does not hold; getting the lock leaves the call.              *)
LEMMA CallStep == LockInv /\ [Next]_vars => CallNotHeld'
<1> SUFFICES ASSUME TypeOK, CallNotHeld, [Next]_vars, NEW q \in Procs, InCall(q)'
             PROVE  held'[q][call'[q].id] = "none"
  BY DEF LockInv, CallNotHeld
<1> USE DEF TypeOK, CallNotHeld, InCall, Running, Returning, Ops
<1>1. CASE UNCHANGED vars
  BY <1>1 DEF vars
<1>2. ASSUME NEW p \in Procs, NEW op \in Ops, NEW id \in IDs, Begin(p, op, id)
      PROVE  held'[q][call'[q].id] = "none"
  BY <1>2 DEF Begin
<1>3. ASSUME NEW p \in Procs, Try(p) PROVE held'[q][call'[q].id] = "none"
  <2>1. CASE TryLock(p)
    BY <2>1 DEF TryLock
  <2>2. CASE TryRLock(p)
    BY <2>2 DEF TryRLock
  <2>3. CASE Busy(p)
    <3>1. CASE q = p
      <4>1. call[p] \in [op : Ops, id : IDs, i : 0 .. (NIterLock - 1)]
        BY <2>3 DEF Busy, Calls
      <4>2. call'[p].id = call[p].id
        BY <2>3, <3>1, <4>1 DEF Busy
      <4> QED BY <2>3, <3>1, <4>2 DEF Busy
    <3>2. CASE q # p
      BY <2>3, <3>2 DEF Busy
    <3> QED BY <3>1, <3>2
  <2> QED BY <1>3, <2>1, <2>2, <2>3 DEF Try
<1>4. ASSUME NEW p \in Procs, Finish(p) PROVE held'[q][call'[q].id] = "none"
  BY <1>4 DEF Finish, Return, NextHandler, Unlock, RUnlock, Release
<1> QED BY <1>1, <1>2, <1>3, <1>4 DEF Next

(* LockInv is inductive.                                                   *)
THEOREM LockInvHolds == Spec => []LockInv
<1>1. Init => LockInv
  BY InitLockInv
<1>2. LockInv /\ [Next]_vars => LockInv'
  BY TypeStep, EntryStep, CallStep DEF LockInv
<1> QED BY <1>1, <1>2, PTL DEF Spec

(* The goroutines' state keeps its type.                                   *)
THEOREM LockTypeCorrect == Spec => []TypeOK
<1>1. LockInv => TypeOK
  BY DEF LockInv
<1> QED BY <1>1, LockInvHolds, PTL

(* For any number of goroutines the entry of an id is what they hold of    *)
(* it: no Unlock meets ErrInvalidLock and no entry outlives its holders.   *)
THEOREM EntryMatchesHoldersHolds == Spec => []EntryMatchesHolders
<1>1. LockInv => EntryMatchesHolders
  BY DEF LockInv
<1> QED BY <1>1, LockInvHolds, PTL

(* Whoever holds an id for writing holds it alone, which is what Save,     *)
(* SelectExisting and IntegrateExisting rely on between read and write.    *)
THEOREM WriterExclusionHolds == Spec => []WriterExclusion
<1>1. LockInv => WriterExclusion
  <2> SUFFICES ASSUME LockInv, NEW id \in IDs, NEW p \in Procs, NEW q \in Procs,
                      held[p][id] = "w", p # q
               PROVE  held[q][id] = "none"
    BY DEF WriterExclusion
  <2>1. p \in Writers(id)
    BY DEF Writers
  <2>2. Readers(id) = {} /\ Writers(id) = {p}
    BY <2>1 DEF LockInv, EntryMatchesHolders
  <2>3. q \notin Readers(id) /\ q \notin Writers(id)
    BY <2>2
  <2> QED BY <2>3 DEF LockInv, TypeOK, Modes, Readers, Writers
<1> QED BY <1>1, LockInvHolds, PTL
=============================================================================
