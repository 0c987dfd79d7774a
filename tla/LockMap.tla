------------------------------ MODULE LockMap ------------------------------
(***************************************************************************)
(* The per-id reader/writer lock of common/types/lock_map.go, under the    *)
(* goroutines that use it.                                                 *)
(*                                                                         *)
(* lockMap maps the ids somebody holds to -1 (one writer) or to the number *)
(* of readers; an id nobody holds has no entry.  Every operation on the    *)
(* map runs under the mutex l.lock, so TryLock, TryRLock, Unlock and       *)
(* RUnlock are one atomic step each; Lock and RLock retry a Try up to      *)
(* NIterLock times and then return ErrBusy, MustLock starts over.          *)
(*                                                                         *)
(* A goroutine runs message handlers one after the other.  A handler takes *)
(* locks, one call at a time and in any order of ids, and gives each back  *)
(* in a deferred call when it returns; a Lock that fails makes the handler *)
(* return.  No handler locks an id it already holds: the callers hand      *)
(* isLocked = true down instead.  MustLock is called only by a handler     *)
(* that holds nothing (me/protocol_revoke_node.go).  A nil id returns nil  *)
(* before the map is touched: such a call is not a step of this module.    *)
(***************************************************************************)
EXTENDS Integers, FiniteSets

CONSTANTS
    Procs,      \* goroutines
    IDs,        \* the PttIDs they lock
    NIterLock   \* attempts of one Lock or RLock

ASSUME LockMapAssumption ==
    /\ IsFiniteSet(Procs)
    /\ NIterLock \in Nat \ {0}

VARIABLES
    lockMap,    \* LockMap.lockMap
    held,       \* held[p][id]: what goroutine p holds of id
    call        \* what goroutine p is doing: running, in a lock call, or returning

vars == <<lockMap, held, call>>

Modes == {"none", "r", "w"}
Ops   == {"Lock", "MustLock", "RLock"}

Running   == [op |-> "run"]
Returning == [op |-> "return"]
Calls     == {Running, Returning} \cup [op : Ops, id : IDs, i : 0 .. (NIterLock - 1)]

InCall(p) == call[p].op \in Ops
Holds(p)  == {id \in IDs : held[p][id] # "none"}

TypeOK ==
    /\ DOMAIN lockMap \subseteq IDs
    /\ \A id \in DOMAIN lockMap : lockMap[id] \in Int
    /\ held \in [Procs -> [IDs -> Modes]]
    /\ call \in [Procs -> Calls]

Init ==
    /\ lockMap = [id \in {} |-> 0]
    /\ held = [p \in Procs |-> [id \in IDs |-> "none"]]
    /\ call = [p \in Procs |-> Running]

-----------------------------------------------------------------------------
(* The map operations.                                                     *)

Set(id, n) == [j \in DOMAIN lockMap \cup {id} |-> IF j = id THEN n ELSE lockMap[j]]
Delete(id) == [j \in DOMAIN lockMap \ {id} |-> lockMap[j]]

(* A handler starts a Lock, RLock or MustLock.                             *)
Begin(p, op, id) ==
    /\ call[p] = Running
    /\ held[p][id] = "none"
    /\ op = "MustLock" => Holds(p) = {}
    /\ call' = [call EXCEPT ![p] = [op |-> op, id |-> id, i |-> 0]]
    /\ UNCHANGED <<lockMap, held>>

(* One attempt of the retry loop found the id free for the mode.           *)
TryLock(p) ==
    /\ call[p].op \in {"Lock", "MustLock"}
    /\ call[p].id \notin DOMAIN lockMap
    /\ lockMap' = Set(call[p].id, -1)
    /\ held' = [held EXCEPT ![p][call[p].id] = "w"]
    /\ call' = [call EXCEPT ![p] = Running]

(* Mutated: the reader does not look at a writer's entry.                  *)
TryRLockIgnoresWriter(p) ==
    /\ call[p].op = "RLock"
    /\ LET id == call[p].id
           n  == IF id \in DOMAIN lockMap THEN lockMap[id] ELSE 0
       IN  /\ lockMap' = Set(id, n + 1)
           /\ held' = [held EXCEPT ![p][id] = "r"]
           /\ call' = [call EXCEPT ![p] = Running]

TryRLock(p) ==
    /\ call[p].op = "RLock"
    /\ LET id == call[p].id
           n  == IF id \in DOMAIN lockMap THEN lockMap[id] ELSE 0
       IN  /\ ~(id \in DOMAIN lockMap /\ lockMap[id] < 0)
           /\ lockMap' = Set(id, n + 1)
           /\ held' = [held EXCEPT ![p][id] = "r"]
           /\ call' = [call EXCEPT ![p] = Running]

(* One attempt found it busy: sleep and retry; after NIterLock attempts    *)
(* Lock and RLock return ErrBusy, and the handler returns the error.       *)
Busy(p) ==
    /\ InCall(p)
    /\ call[p].id \in DOMAIN lockMap
    /\ call[p].op = "RLock" => lockMap[call[p].id] < 0
    /\ call' = [call EXCEPT ![p] =
                    IF call[p].i + 1 < NIterLock THEN [call[p] EXCEPT !.i = @ + 1]
                    ELSE IF call[p].op = "MustLock" THEN [call[p] EXCEPT !.i = 0]
                    ELSE Returning]
    /\ UNCHANGED <<lockMap, held>>

(* The handler returns, its deferred unlocks run one by one.               *)
Return(p) ==
    /\ call[p] = Running
    /\ Holds(p) # {}
    /\ call' = [call EXCEPT ![p] = Returning]
    /\ UNCHANGED <<lockMap, held>>

Release(p, id) ==
    /\ held' = [held EXCEPT ![p][id] = "none"]
    /\ UNCHANGED call

(* An entry that is missing or of the wrong sign is ErrInvalidLock, which  *)
(* every caller drops: the map stays as it was.                            *)
Unlock(p, id) ==
    /\ call[p] = Returning
    /\ held[p][id] = "w"
    /\ lockMap' = IF id \notin DOMAIN lockMap \/ lockMap[id] >= 0 THEN lockMap
                  ELSE Delete(id)
    /\ Release(p, id)

(* Mutated: the last reader leaves a zero entry behind.                    *)
RUnlockKeepsZero(p, id) ==
    /\ call[p] = Returning
    /\ held[p][id] = "r"
    /\ lockMap' = IF id \notin DOMAIN lockMap \/ lockMap[id] <= 0 THEN lockMap
                  ELSE Set(id, lockMap[id] - 1)
    /\ Release(p, id)

RUnlock(p, id) ==
    /\ call[p] = Returning
    /\ held[p][id] = "r"
    /\ lockMap' = IF id \notin DOMAIN lockMap \/ lockMap[id] <= 0 THEN lockMap
                  ELSE IF lockMap[id] = 1 THEN Delete(id)
                  ELSE Set(id, lockMap[id] - 1)
    /\ Release(p, id)

(* All deferred calls are done: the goroutine takes the next message.      *)
NextHandler(p) ==
    /\ call[p] = Returning
    /\ Holds(p) = {}
    /\ call' = [call EXCEPT ![p] = Running]
    /\ UNCHANGED <<lockMap, held>>

Finish(p) ==
    \/ Return(p)
    \/ NextHandler(p)
    \/ \E id \in IDs : Unlock(p, id) \/ RUnlock(p, id)

Try(p) == TryLock(p) \/ TryRLock(p) \/ Busy(p)

Next ==
    \E p \in Procs :
        \/ \E op \in Ops, id \in IDs : Begin(p, op, id)
        \/ Try(p)
        \/ Finish(p)

(* A goroutine inside a lock call wakes from its sleep and tries again, a  *)
(* handler that is returning runs its deferred calls: both are the Go      *)
(* scheduler's promise.  Nothing forces a handler to start a call.         *)
Fairness == \A p \in Procs : WF_vars(Try(p)) /\ WF_vars(call[p] = Returning /\ Finish(p))

Spec == Init /\ [][Next]_vars /\ Fairness

-----------------------------------------------------------------------------
(* What the map promises.                                                  *)

Readers(id) == {p \in Procs : held[p][id] = "r"}
Writers(id) == {p \in Procs : held[p][id] = "w"}

(* A goroutine that came back from Lock(id) is the only one that holds id  *)
(* in either mode, whatever the others do with this and other ids.         *)
WriterExclusion ==
    \A id \in IDs, p, q \in Procs :
        (held[p][id] = "w" /\ p # q) => held[q][id] = "none"

(* The entry of an id is exactly what the goroutines hold: absent when     *)
(* nobody does (so no entry leaks and blocks the id for ever), -1 for one  *)
(* writer, otherwise the number of readers.                                *)
EntryMatchesHolders ==
    \A id \in IDs :
        IF id \notin DOMAIN lockMap
        THEN Readers(id) = {} /\ Writers(id) = {}
        ELSE \/ /\ lockMap[id] = -1
                /\ Readers(id) = {}
                /\ \E p \in Procs : Writers(id) = {p}
             \/ /\ lockMap[id] = Cardinality(Readers(id))
                /\ lockMap[id] > 0
                /\ Writers(id) = {}

=============================================================================
