------------------------------- MODULE Oplog -------------------------------
(***************************************************************************)
(* The oplog record of service/oplog.go and the operations on it that use  *)
(* no database: signing, hashing, verifying, and integrating two copies of *)
(* the same log.                                                           *)
(*                                                                         *)
(* A log is followed by what the operations tell apart: UpdateTS (ut),     *)
(* whether MasterLogID is set (mid), the master and internal signatures    *)
(* (ms, is), the stored Hash and IsSync.  The code keeps signatures in     *)
(* slices sorted by signer; here they are sets of [id, dev, ts], ids being *)
(* integers in the byte order of the ids.  dev is the device that made the *)
(* signature: two signatures of one user differ by their random salts.  A  *)
(* keccak hash over the concatenated fields is the record of those fields: *)
(* equal exactly when they are.  The hash is a field of its own because    *)
(* the code assigns it and the signatures separately.                      *)
(***************************************************************************)
EXTENDS Integers, FiniteSets

CONSTANT NoLog          \* the log is not in the database

(* types.Status, in the order of its iota.                                 *)
Invalid == 0
InternalPending == 3
Pending == 4
Alive == 7

Signs(ids, devs, tss) == [id : ids, dev : devs, ts : tss]
SignInfo(id, dev, ts) == [id |-> id, dev |-> dev, ts |-> ts]
Signers(signs)  == {s.id : s \in signs}

ToStatus(o) ==
    CASE o.mid     -> Alive
      [] ~o.mid /\ o.is # {} -> InternalPending
      [] ~o.mid /\ o.is = {} /\ o.ms # {} -> Pending
      [] OTHER     -> Invalid

(* bytesToStatus reads the same back from the prefix of the stored key.    *)
StoredStatus(o) == IF o = NoLog THEN Invalid ELSE ToStatus(o)

Fields(mid, ms, is) == [mid |-> mid, ms |-> ms, is |-> is]
SignsHash(o) == Fields(o.mid, o.ms, o.is)

(* The part of Verify that can fail on a log the program made itself.      *)
Verify(o) == o.hash = SignsHash(o)

(* bytes.Compare on two hashes, as some total order that is the same at    *)
(* every node: the smallest signature that only one of them covers decides.*)
SignLess(s, t) ==
    \/ s.id < t.id
    \/ s.id = t.id /\ s.ts < t.ts
    \/ s.id = t.id /\ s.ts = t.ts /\ s.dev < t.dev
HashLess(h, g) ==
    \E s \in h.ms \ g.ms : \A t \in g.ms \ h.ms : SignLess(s, t)

(* NewOplog, then Sign: the creator's own signature leaves no master or    *)
(* internal signature.                                                     *)
NewOplog(ts) ==
    [ut |-> ts, mid |-> FALSE, ms |-> {}, is |-> {}, hash |-> Fields(FALSE, {}, {}),
     sync |-> TRUE]

(* InternalSigns is cleared and not restored.                              *)
MasterSign(o, id, dev, ts) ==
    LET ms == o.ms \cup {SignInfo(id, dev, ts)}
    IN  [o EXCEPT !.ut = ts, !.ms = ms, !.is = {}, !.hash = Fields(FALSE, ms, {})]

(* MasterSigns is restored by a deferred function, after the hash was      *)
(* computed without it.                                                    *)
InternalSign(o, id, ts) ==
    LET is == o.is \cup {SignInfo(id, id, ts)}
    IN  [o EXCEPT !.ut = ts, !.is = is, !.hash = Fields(FALSE, {}, is)]

SetMasterLogIDKeepsHash(o) == [o EXCEPT !.mid = TRUE, !.is = {}]
SetMasterLogID(o) == [o EXCEPT !.mid = TRUE, !.is = {}, !.hash = Fields(TRUE, o.ms, {})]

-----------------------------------------------------------------------------
(* integrateSignInfos walks both sorted lists and stops as soon as one is  *)
(* used up: what is left of the other is dropped, and the two flags only   *)
(* compare lengths.  IntegrateSigns.tla checks this closed form against    *)
(* the loop.                                                               *)
LastID(signs) == CHOOSE i \in Signers(signs) : \A j \in Signers(signs) : j <= i

CutMerge(new, orig) ==
    LET last == IF LastID(new) <= LastID(orig) THEN LastID(new) ELSE LastID(orig)
    IN  {s \in new : s.id <= last}
        \cup {s \in orig : s.id <= last /\ s.id \notin Signers(new)}

Integrated(signs, all, allOrig) == [signs |-> signs, all |-> all, allOrig |-> allOrig]

integrateSignInfos(new, orig) ==
    CASE new = {} /\ orig = {} -> Integrated({}, TRUE, TRUE)
      [] new # {} /\ orig = {} -> Integrated(new, TRUE, FALSE)
      [] new = {} /\ orig # {} -> Integrated(orig, FALSE, TRUE)
      [] OTHER ->
            LET merged == CutMerge(new, orig)
            IN  Integrated(merged, Cardinality(merged) = Cardinality(new),
                                   Cardinality(merged) = Cardinality(orig))

(* What a handler gets back: the log in memory, the log to write (or       *)
(* NoLog), the IsSync of the stored log and the second return value.       *)
Result(o, save, origSync, flag) ==
    [o |-> o, save |-> save, origSync |-> origSync, flag |-> flag, err |-> FALSE]
Failed == [err |-> TRUE]

TakeOrig(o, orig) ==
    [o EXCEPT !.ut = orig.ut, !.hash = orig.hash, !.mid = orig.mid,
              !.ms = orig.ms, !.is = orig.is]

(* (UpdateTS, Hash) of a valid log beats that of another.                  *)
Beats(o, orig) == o.ut < orig.ut \/ (o.ut = orig.ut /\ HashLess(o.hash, orig.hash))

NoTieBreakReplaces(o, orig) == ~orig.mid \/ o.ut < orig.ut
(* A valid log that is not the stored one replaces it.                     *)
Replaces(o, orig) == ~orig.mid \/ Beats(o, orig)

(* SelectExisting: keep the valid log with the smaller (UpdateTS, Hash).   *)
(* flag is isToBroadcast; a saved log carries the IsSync of the stored one.*)
SelectExisting(o, orig) ==
    IF orig = NoLog THEN Result(o, NoLog, FALSE, TRUE)
    ELSE LET ret == IF ToStatus(o) <= ToStatus(orig) /\ orig.sync
                    THEN [o EXCEPT !.sync = TRUE] ELSE o
             toSave == [ret EXCEPT !.sync = @ \/ orig.sync]
         IN  CASE o.hash = orig.hash -> Result(ret, NoLog, orig.sync, FALSE)
               [] o.hash # orig.hash /\ ~o.mid -> Failed
               [] o.hash # orig.hash /\ o.mid /\ Replaces(o, orig) ->
                      Result(ret, toSave, orig.sync, TRUE)
               [] OTHER -> Result(TakeOrig(ret, orig), NoLog, orig.sync, FALSE)

IntegrateExistingOverValid(o, orig, ts) ==
    IF orig = NoLog THEN Result(o, NoLog, FALSE, FALSE)
    ELSE LET both == [o EXCEPT !.ms = integrateSignInfos(@, orig.ms).signs]
         IN  Result(both, both, orig.sync, FALSE)

(* IntegrateExisting of a log that is not valid (the senders route logs by *)
(* MasterLogID, so it never meets a valid one): take the stored valid log, *)
(* or unite the signatures.  flag is isToReSign.                           *)
IntegrateExisting(o, orig, ts) ==
    IF orig = NoLog THEN Result(o, NoLog, FALSE, FALSE)
    ELSE LET ret == IF ToStatus(o) <= ToStatus(orig) THEN [o EXCEPT !.sync = orig.sync] ELSE o
             m   == integrateSignInfos(o.ms, orig.ms)
             i   == integrateSignInfos(o.is, orig.is)
             both == [ret EXCEPT !.ms = m.signs, !.is = i.signs]
         IN  CASE o.hash = orig.hash -> Result(ret, NoLog, orig.sync, FALSE)
               [] o.hash # orig.hash /\ orig.mid ->
                      Result(TakeOrig(ret, orig), NoLog, orig.sync, FALSE)
               [] o.hash # orig.hash /\ ~orig.mid /\ m.allOrig /\ i.allOrig ->
                      Result([both EXCEPT !.ut = orig.ut, !.hash = orig.hash],
                             NoLog, orig.sync, FALSE)
               [] o.hash # orig.hash /\ ~orig.mid /\ ~(m.allOrig /\ i.allOrig) /\ m.all /\ i.all ->
                      Result(both, both, orig.sync, FALSE)
               [] OTHER ->
                      Result([both EXCEPT !.ut = ts, !.hash = SignsHash(both)],
                             NoLog, orig.sync, TRUE)
=============================================================================
