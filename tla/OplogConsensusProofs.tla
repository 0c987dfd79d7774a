------------------------ MODULE OplogConsensusProofs ------------------------
(***************************************************************************)
(* Proofs about OplogConsensus, for every set of users, devices, weights   *)
(* and masters.                                                            *)
(***************************************************************************)
EXTENDS OplogConsensus, FiniteSetTheorems, TLAPS

-----------------------------------------------------------------------------
(* A copy that may be stored or sent: well typed, and if it is valid its   *)
(* hash covers its signatures.                                             *)
Well(o) == o \in Logs(0 .. MaxTS) /\ (o.mid => Verify(o))

(* Every operation on logs leads from good logs to good logs.              *)
LEMMA WellSync == ASSUME NEW o, Well(o), NEW b \in BOOLEAN
                  PROVE  Well([o EXCEPT !.sync = b])
  BY DEF Well, Logs, Verify, SignsHash, Fields

LEMMA WellNewOplog == ASSUME NEW ts \in 0 .. MaxTS
                      PROVE  Well(NewOplog(ts)) /\ ~NewOplog(ts).mid
  BY DEF Well, Logs, NewOplog, Fields, SignSets

LEMMA WellMasterSign ==
    ASSUME NEW o, Well(o), ~o.mid, NEW id \in Users, NEW dev \in Nodes, NEW ts \in 0 .. MaxTS
    PROVE  Well(MasterSign(o, id, dev, ts)) /\ ~MasterSign(o, id, dev, ts).mid
  <1>1. SignInfo(id, dev, ts) \in Signs(Users, Nodes, 0 .. MaxTS)
    BY DEF SignInfo, Signs
  <1>2. o.ms \cup {SignInfo(id, dev, ts)} \in SignSets(Users, 0 .. MaxTS)
    BY <1>1 DEF Well, Logs, SignSets
  <1> QED
    BY <1>2 DEF Well, Logs, MasterSign, Fields, SignSets

LEMMA WellInternalSign ==
    ASSUME NEW o, Well(o), ~o.mid, NEW id \in Nodes, NEW ts \in 0 .. MaxTS
    PROVE  Well(InternalSign(o, id, ts)) /\ ~InternalSign(o, id, ts).mid
  <1>1. SignInfo(id, id, ts) \in Signs(Nodes, Nodes, 0 .. MaxTS)
    BY DEF SignInfo, Signs
  <1>2. o.is \cup {SignInfo(id, id, ts)} \in SignSets(Nodes, 0 .. MaxTS)
    BY <1>1 DEF Well, Logs, SignSets
  <1> QED
    BY <1>2 DEF Well, Logs, InternalSign, Fields, SignSets

LEMMA WellSetMasterLogID == ASSUME NEW o, Well(o) PROVE Well(SetMasterLogID(o))
  BY DEF Well, Logs, SetMasterLogID, Fields, Verify, SignsHash, SignSets

LEMMA WellCount == ASSUME NEW o, Well(o) PROVE Well(CountIfValid(o))
  BY WellSetMasterLogID DEF CountIfValid

LEMMA WellSignAndCount ==
    ASSUME NEW n \in Nodes, NEW o, Well(o), ~o.mid, now \in 0 .. MaxTS
    PROVE  Well(SignAndCount(n, o))
  <1> DEFINE signed == InternalSign(o, n, now)
  <1>1. Well(signed) /\ ~signed.mid
    BY WellInternalSign
  <1>2. Owner[n] \in Users
    BY ConsensusAssumption
  <1>3. Well(MasterSign(signed, Owner[n], n, now))
    BY <1>1, <1>2, WellMasterSign
  <1>4. Well(CountIfValid(MasterSign(signed, Owner[n], n, now)))
    BY <1>3, WellCount
  <1> QED
    BY <1>1, <1>4 DEF SignAndCount

LEMMA WellValidate ==
    ASSUME NEW n \in Nodes, NEW o, Well(o), ~o.mid, now \in 0 .. MaxTS
    PROVE  Well(ValidateIntegrateSign(n, o))
  <1>1. Owner[n] \in Users
    BY ConsensusAssumption
  <1>2. Well(MasterSign(o, Owner[n], n, now))
    BY <1>1, WellMasterSign
  <1> QED
    BY <1>2, WellCount DEF ValidateIntegrateSign

LEMMA WellTakeOrig == ASSUME NEW o, NEW orig, Well(o), Well(orig)
                      PROVE  Well(TakeOrig(o, orig))
  BY DEF Well, Logs, TakeOrig, Verify, SignsHash, Fields


-----------------------------------------------------------------------------
(* When a device is enough to sign for its user, no log is ever internally *)
(* signed only, no user signs twice, and a log is valid only with the      *)
(* signatures of all masters.                                              *)
OncePerSigner(signs) == \A s, t \in signs : s.id = t.id => s = t
Complete(o) ==
    /\ o.is = {}
    /\ OncePerSigner(o.ms)
    /\ o.mid => Masters \subseteq Signers(o.ms)

Good(o) == Well(o) /\ (SingleDevice => Complete(o))

ConsensusInv ==
    /\ TypeOK
    /\ \A n \in Nodes : store[n] = NoLog \/ Good(store[n])
    /\ \A o \in msgs : Good(o)

(* Signatures are counted, not signers; the two agree when nobody signs    *)
(* twice.                                                                  *)
LEMMA CountedMeansSigned ==
    ASSUME NEW ms, OncePerSigner(ms), isValidOplog(ms)
    PROVE  Masters \subseteq Signers(ms)
  <1> DEFINE T == {s \in ms : s.id \in Masters}
             f == [s \in T |-> s.id]
  <1>1. IsFiniteSet(Masters)
    BY ConsensusAssumption, FS_Subset
  <1>2. f \in Injection(T, Masters)
    BY DEF Injection, OncePerSigner, IsInjective
  <1>3. Cardinality(T) <= Cardinality(Masters) /\ IsFiniteSet(T)
    BY <1>1, <1>2, FS_Injection
  <1>4. Cardinality(T) = Cardinality(Masters)
    BY <1>1, <1>3, FS_CardinalityType DEF isValidOplog
  <1>5. f \in Surjection(T, Masters)
    BY <1>1, <1>2, <1>4, FS_Injection
  <1> QED
    BY <1>5 DEF Surjection, Signers

LEMMA GoodSync == ASSUME NEW o, Good(o), NEW b \in BOOLEAN
                  PROVE  Good([o EXCEPT !.sync = b])
  <1>1. Well([o EXCEPT !.sync = b])
    BY WellSync DEF Good
  <1>2. o \in Logs(0 .. MaxTS) /\ (SingleDevice => Complete(o))
    BY DEF Good, Well
  <1>3. SingleDevice => Complete([o EXCEPT !.sync = b])
    BY <1>2 DEF Logs, Complete
  <1> QED
    BY <1>1, <1>3 DEF Good

LEMMA GoodNewOplog ==
    ASSUME NEW ts \in 0 .. MaxTS
    PROVE  Good(NewOplog(ts)) /\ ~NewOplog(ts).mid /\ NewOplog(ts).ms = {}
  <1>1. Complete(NewOplog(ts)) /\ NewOplog(ts).ms = {}
    BY DEF Complete, NewOplog, OncePerSigner
  <1> QED
    BY <1>1, WellNewOplog DEF Good

LEMMA CompleteCount ==
    ASSUME NEW o, Well(o), ~o.mid, o.is = {}, OncePerSigner(o.ms)
    PROVE  Complete(CountIfValid(o))
  <1>1. CASE ~isValidOplog(o.ms)
    BY <1>1 DEF CountIfValid, Complete
  <1>2. CASE isValidOplog(o.ms)
    <2>1. Masters \subseteq Signers(o.ms)
      BY <1>2, CountedMeansSigned
    <2>2. SetMasterLogID(o).ms = o.ms /\ SetMasterLogID(o).is = {}
      BY DEF SetMasterLogID, Well, Logs
    <2> QED
      BY <1>2, <2>1, <2>2 DEF CountIfValid, Complete
  <1> QED
    BY <1>1, <1>2

LEMMA GoodSignAndCount ==
    ASSUME NEW n \in Nodes, NEW o, Good(o), ~o.mid, Owner[n] \notin Signers(o.ms),
           now \in 0 .. MaxTS
    PROVE  Good(SignAndCount(n, o))
  <1> DEFINE signed == InternalSign(o, n, now)
             ms == o.ms \cup {SignInfo(Owner[n], n, now)}
             master == MasterSign(signed, Owner[n], n, now)
  <1>1. Well(o) /\ o \in Logs(0 .. MaxTS) /\ Owner[n] \in Users
    BY ConsensusAssumption DEF Good, Well
  <1>2. Well(SignAndCount(n, o))
    BY <1>1, WellSignAndCount
  <1>3. ASSUME SingleDevice PROVE Complete(SignAndCount(n, o))
    <2>1. o.is = {} /\ OncePerSigner(o.ms)
      BY <1>3 DEF Good, Complete
    <2>2. signed.is = {SignInfo(n, n, now)} /\ signed.ms = o.ms /\ Well(signed) /\ ~signed.mid
      <3>1. Well(signed) /\ ~signed.mid
        BY <1>1, WellInternalSign
      <3>2. signed.is = o.is \cup {SignInfo(n, n, now)} /\ signed.ms = o.ms
        BY <1>1 DEF InternalSign, Logs
      <3> QED BY <2>1, <3>1, <3>2
    <2>3. SignAndCount(n, o) = CountIfValid(master)
      BY <1>3, <2>2 DEF SignAndCount, SingleDevice
    <2> HIDE DEF signed
    <2>4. Well(master) /\ ~master.mid
      BY <1>1, <2>2, WellMasterSign
    <2>5. master.is = {} /\ master.ms = ms
      BY <2>2 DEF MasterSign, Well, Logs
    <2>6. OncePerSigner(ms)
      BY <2>1 DEF OncePerSigner, Signers, SignInfo
    <2> HIDE DEF master
    <2> QED
      BY <2>3, <2>4, <2>5, <2>6, CompleteCount
  <1> QED
    BY <1>2, <1>3 DEF Good

LEMMA GoodValidate ==
    ASSUME NEW n \in Nodes, NEW o, Good(o), ~o.mid, now \in 0 .. MaxTS
    PROVE  Good(ValidateIntegrateSign(n, o))
  <1>1. Well(o)
    BY DEF Good
  <1>2. ASSUME SingleDevice PROVE Complete(ValidateIntegrateSign(n, o))
    <2>1. o.is = {} /\ OncePerSigner(o.ms)
      BY <1>2 DEF Good, Complete
    <2>2. ValidateIntegrateSign(n, o) = CountIfValid(o)
      BY <1>2, <2>1 DEF ValidateIntegrateSign, SingleDevice
    <2> QED
      BY <1>1, <2>1, <2>2, CompleteCount
  <1> QED
    BY <1>1, <1>2, WellValidate DEF Good

LEMMA GoodTakeOrig == ASSUME NEW o, NEW orig, Good(o), Good(orig)
                      PROVE  Good(TakeOrig(o, orig))
  <1>1. Well(o) /\ Well(orig)
    BY DEF Good
  <1>2. /\ TakeOrig(o, orig).is = orig.is
        /\ TakeOrig(o, orig).ms = orig.ms
        /\ TakeOrig(o, orig).mid = orig.mid
    BY <1>1 DEF Well, Logs, TakeOrig
  <1>3. SingleDevice => Complete(TakeOrig(o, orig))
    BY <1>2 DEF Good, Complete
  <1> QED
    BY <1>1, <1>3, WellTakeOrig DEF Good

(* A result of selecting or integrating, ready to be used by a handler.    *)
GoodResult(r) ==
    /\ r.err = FALSE
    /\ Good(r.o)
    /\ r.save = NoLog \/ Good(r.save)
    /\ r.origSync \in BOOLEAN
    /\ r.flag \in BOOLEAN

LEMMA GoodResultOf ==
    ASSUME NEW o, Good(o), NEW save, save = NoLog \/ Good(save),
           NEW b \in BOOLEAN, NEW c \in BOOLEAN
    PROVE  GoodResult(Result(o, save, b, c))
  BY DEF GoodResult, Result

LEMMA GoodSelect ==
    ASSUME NEW o, Good(o), o.mid, NEW orig, orig = NoLog \/ Good(orig)
    PROVE  GoodResult(SelectExisting(o, orig))
  <1>1. CASE orig = NoLog
    BY <1>1, GoodResultOf DEF SelectExisting
  <1>2. CASE orig # NoLog
    <2> DEFINE ret == IF ToStatus(o) <= ToStatus(orig) /\ orig.sync
                      THEN [o EXCEPT !.sync = TRUE] ELSE o
               toSave == [ret EXCEPT !.sync = ret.sync \/ orig.sync]
    <2>1. Good(orig) /\ orig.sync \in BOOLEAN
      BY <1>2 DEF Good, Well, Logs
    <2>2. Good(ret) /\ ret.sync \in BOOLEAN
      BY GoodSync DEF Good, Well, Logs
    <2>3. Good(toSave)
      BY <2>1, <2>2, GoodSync
    <2>4. Good(TakeOrig(ret, orig))
      BY <2>1, <2>2, GoodTakeOrig
    <2>5. /\ GoodResult(Result(ret, NoLog, orig.sync, FALSE))
          /\ GoodResult(Result(ret, toSave, orig.sync, TRUE))
          /\ GoodResult(Result(TakeOrig(ret, orig), NoLog, orig.sync, FALSE))
      BY <2>1, <2>2, <2>3, <2>4, GoodResultOf
    <2>6. SelectExisting(o, orig) =
            CASE o.hash = orig.hash -> Result(ret, NoLog, orig.sync, FALSE)
              [] o.hash # orig.hash /\ ~o.mid -> Failed
              [] o.hash # orig.hash /\ o.mid /\ Replaces(o, orig) ->
                     Result(ret, toSave, orig.sync, TRUE)
              [] OTHER -> Result(TakeOrig(ret, orig), NoLog, orig.sync, FALSE)
      BY <1>2 DEF SelectExisting
    <2> HIDE DEF ret, toSave
    <2> QED
      BY <2>5, <2>6, Zenon
  <1> QED
    BY <1>1, <1>2

LEMMA GoodIntegrateSignInfos ==
    ASSUME NEW S, NEW A, NEW B, A \subseteq S, B \subseteq S
    PROVE  /\ integrateSignInfos(A, B).signs \subseteq S
           /\ integrateSignInfos(A, B).all \in BOOLEAN
           /\ integrateSignInfos(A, B).allOrig \in BOOLEAN
  <1>1. CutMerge(A, B) \subseteq S
    BY DEF CutMerge
  <1> QED
    BY <1>1 DEF integrateSignInfos, Integrated

LEMMA OnceIntegrated ==
    ASSUME NEW A, NEW B, OncePerSigner(A), OncePerSigner(B)
    PROVE  OncePerSigner(integrateSignInfos(A, B).signs)
  <1>1. OncePerSigner(CutMerge(A, B))
    BY DEF OncePerSigner, CutMerge, Signers
  <1>2. OncePerSigner({})
    BY DEF OncePerSigner
  <1> QED
    BY <1>1, <1>2 DEF integrateSignInfos, Integrated

LEMMA GoodIntegrateExisting ==
    ASSUME NEW o, Good(o), ~o.mid, NEW orig, orig = NoLog \/ Good(orig), NEW ts \in 0 .. MaxTS
    PROVE  /\ GoodResult(IntegrateExisting(o, orig, ts))
           /\ IntegrateExisting(o, orig, ts).flag => ~IntegrateExisting(o, orig, ts).o.mid
  <1>1. CASE orig = NoLog
    <2>1. GoodResult(Result(o, NoLog, FALSE, FALSE)) /\ ~Result(o, NoLog, FALSE, FALSE).flag
      BY GoodResultOf DEF Result
    <2> QED
      BY <1>1, <2>1 DEF IntegrateExisting
  <1>2. CASE orig # NoLog
    <2> DEFINE ret  == IF ToStatus(o) <= ToStatus(orig) THEN [o EXCEPT !.sync = orig.sync] ELSE o
               m    == integrateSignInfos(o.ms, orig.ms)
               i    == integrateSignInfos(o.is, orig.is)
               both == [ret EXCEPT !.ms = m.signs, !.is = i.signs]
               kept == [both EXCEPT !.ut = orig.ut, !.hash = orig.hash]
               new  == [both EXCEPT !.ut = ts, !.hash = SignsHash(both)]
               r1 == Result(ret, NoLog, orig.sync, FALSE)
               r2 == Result(TakeOrig(ret, orig), NoLog, orig.sync, FALSE)
               r3 == Result(kept, NoLog, orig.sync, FALSE)
               r4 == Result(both, both, orig.sync, FALSE)
               r5 == Result(new, NoLog, orig.sync, TRUE)
    <2>1. Good(orig) /\ orig.sync \in BOOLEAN
      BY <1>2 DEF Good, Well, Logs
    <2>2. Good(ret) /\ ~ret.mid
      BY <2>1, GoodSync DEF Good, Well, Logs
    <2>3. m.signs \in SignSets(Users, 0 .. MaxTS) /\ i.signs \in SignSets(Nodes, 0 .. MaxTS)
      <3>1. /\ o.ms \subseteq Signs(Users, Nodes, 0 .. MaxTS)
            /\ orig.ms \subseteq Signs(Users, Nodes, 0 .. MaxTS)
            /\ o.is \subseteq Signs(Nodes, Nodes, 0 .. MaxTS)
            /\ orig.is \subseteq Signs(Nodes, Nodes, 0 .. MaxTS)
        BY <2>1 DEF Good, Well, Logs, SignSets
      <3>2. m.signs \subseteq Signs(Users, Nodes, 0 .. MaxTS)
        BY <3>1, GoodIntegrateSignInfos, Zenon
      <3>3. i.signs \subseteq Signs(Nodes, Nodes, 0 .. MaxTS)
        BY <3>1, GoodIntegrateSignInfos, Zenon
      <3> QED
        BY <3>2, <3>3 DEF SignSets
    <2>12. ASSUME SingleDevice PROVE i.signs = {} /\ OncePerSigner(m.signs)
      <3>1. o.is = {} /\ orig.is = {} /\ OncePerSigner(o.ms) /\ OncePerSigner(orig.ms)
        BY <2>1, <2>12 DEF Good, Complete
      <3> QED
        BY <3>1, OnceIntegrated DEF integrateSignInfos, Integrated
    <2> HIDE DEF ret, m, i
    <2>4. Good(both) /\ ~both.mid
      <3>1. Well(both) /\ ~both.mid /\ both.ms = m.signs /\ both.is = i.signs
        BY <2>2, <2>3 DEF Good, Well, Logs
      <3> HIDE DEF both
      <3> QED
        BY <3>1, <2>12 DEF Good, Complete
    <2>5. SignsHash(both) \in [mid : BOOLEAN, ms : SignSets(Users, 0 .. MaxTS),
                              is : SignSets(Nodes, 0 .. MaxTS)]
      BY <2>4 DEF Good, Well, Logs, SignsHash, Fields
    <2> HIDE DEF both
    <2>6. Good(kept)
      <3>1. Well(kept) /\ kept.mid = both.mid /\ kept.ms = both.ms /\ kept.is = both.is
        BY <2>1, <2>4 DEF Good, Well, Logs
      <3> HIDE DEF kept
      <3> QED
        BY <3>1, <2>4 DEF Good, Complete
    <2>7. Good(new) /\ ~new.mid
      <3>1. Well(new) /\ new.mid = both.mid /\ new.ms = both.ms /\ new.is = both.is
        BY <2>4, <2>5 DEF Good, Well, Logs
      <3> HIDE DEF new
      <3> QED
        BY <3>1, <2>4 DEF Good, Complete
    <2> HIDE DEF kept, new
    <2>8. Good(TakeOrig(ret, orig))
      BY <2>1, <2>2, GoodTakeOrig
    <2>9. /\ GoodResult(r1) /\ GoodResult(r2) /\ GoodResult(r3) /\ GoodResult(r4) /\ GoodResult(r5)
      BY <2>1, <2>2, <2>4, <2>6, <2>7, <2>8, GoodResultOf
    <2>10. ~r1.flag /\ ~r2.flag /\ ~r3.flag /\ ~r4.flag /\ ~r5.o.mid
      BY <2>7 DEF Result
    <2>11. IntegrateExisting(o, orig, ts) \in {r1, r2, r3, r4, r5}
      <3>1. IntegrateExisting(o, orig, ts) =
              CASE o.hash = orig.hash -> r1
                [] o.hash # orig.hash /\ orig.mid -> r2
                [] o.hash # orig.hash /\ ~orig.mid /\ m.allOrig /\ i.allOrig -> r3
                [] o.hash # orig.hash /\ ~orig.mid /\ ~(m.allOrig /\ i.allOrig)
                   /\ m.all /\ i.all -> r4
                [] OTHER -> r5
        BY <1>2, Zenon DEF IntegrateExisting, ret, m, i, both, kept, new
      <3> HIDE DEF r1, r2, r3, r4, r5
      <3> QED
        BY <3>1
    <2> HIDE DEF r1, r2, r3, r4, r5
    <2> QED
      BY <2>9, <2>10, <2>11
  <1> QED
    BY <1>1, <1>2

LEMMA GoodIntegrateOplog ==
    ASSUME TypeOK, NEW n \in Nodes, store[n] = NoLog \/ Good(store[n]), NEW o, Good(o), ~o.mid
    PROVE  IntegrateOplog(n, o).err \/ GoodResult(IntegrateOplog(n, o))
  <1> DEFINE r == IntegrateExisting(o, store[n], now)
             v == ValidateIntegrateSign(n, r.o)
             toSave == [v EXCEPT !.sync = v.sync \/ r.origSync]
  <1>1. GoodResult(r) /\ (r.flag => ~r.o.mid) /\ now \in 0 .. MaxTS
    BY GoodIntegrateExisting DEF TypeOK
  <1>2. CASE ~r.flag
    BY <1>1, <1>2 DEF IntegrateOplog
  <1>3. CASE r.flag
    <2>1. Good(v)
      BY <1>1, <1>3, GoodValidate DEF GoodResult
    <2>2. Good(toSave)
      BY <1>1, <2>1, GoodSync DEF GoodResult, Good, Well, Logs
    <2>3. GoodResult(Result(v, toSave, r.origSync, TRUE))
      <3>1. r.origSync \in BOOLEAN
        BY <1>1 DEF GoodResult
      <3> HIDE DEF r, v, toSave
      <3> QED BY <2>1, <2>2, <3>1, GoodResultOf
    <2>4. Failed.err
      BY DEF Failed
    <2>5. IntegrateOplog(n, o) = Failed \/ IntegrateOplog(n, o) = Result(v, toSave, r.origSync, TRUE)
      BY <1>3, Zenon DEF IntegrateOplog
    <2> QED
      BY <2>3, <2>4, <2>5, Zenon
  <1> QED
    BY <1>2, <1>3

-----------------------------------------------------------------------------
(* The steps.                                                              *)

LEMMA InitInv == Init => ConsensusInv
  BY ConsensusAssumption DEF Init, ConsensusInv, TypeOK

LEMMA StoreStep ==
    ASSUME ConsensusInv, NEW n \in Nodes, NEW o, o = NoLog \/ Good(o),
           store' = [store EXCEPT ![n] = o]
    PROVE  /\ DOMAIN store' = Nodes
           /\ \A k \in Nodes : store'[k] = NoLog \/ Good(store'[k])
  BY DEF ConsensusInv, TypeOK

LEMMA BroadcastStep ==
    ASSUME ConsensusInv, NEW o, Good(o), NEW b, Broadcast(o, b)
    PROVE  \A m \in msgs' : Good(m)
  <1>1. Good([o EXCEPT !.sync = FALSE])
    BY GoodSync
  <1> QED
    BY <1>1 DEF Broadcast, ConsensusInv

LEMMA InvFromParts ==
    ASSUME ConsensusInv,
           DOMAIN store' = Nodes,
           \A k \in Nodes : store'[k] = NoLog \/ Good(store'[k]),
           \A m \in msgs' : Good(m),
           failing' \subseteq Nodes, now' \in 0 .. MaxTS
    PROVE  ConsensusInv'
  <1>1. TypeOK'
    BY DEF TypeOK, Good, Well
  <1> QED
    BY <1>1 DEF ConsensusInv, Good

LEMMA SaveAndSend ==
    ASSUME ConsensusInv, NEW n \in Nodes, NEW o, o = NoLog \/ Good(o), NEW p, Good(p), NEW b,
           store' = [store EXCEPT ![n] = o], Broadcast(p, b), UNCHANGED <<failing, now>>
    PROVE  ConsensusInv'
  <1>1. failing' \subseteq Nodes /\ now' \in 0 .. MaxTS
    BY DEF ConsensusInv, TypeOK
  <1> QED
    BY <1>1, StoreStep, BroadcastStep, InvFromParts

LEMMA HandleOplogStep ==
    ASSUME ConsensusInv, NEW n \in Nodes, NEW o \in msgs, NEW out, HandleOplog(n, o, out)
    PROVE  ConsensusInv'
  <1> DEFINE sel  == SelectExisting(o, store[n])
             kept == IF sel.save = NoLog THEN store[n] ELSE sel.save
             done == [sel.o EXCEPT !.sync = out \in {"sync", "newer"} \/ sel.origSync]
  <1>1. GoodResult(sel)
    BY GoodSelect DEF ConsensusInv, HandleOplog
  <1>2. kept = NoLog \/ Good(kept)
    BY <1>1 DEF GoodResult, ConsensusInv
  <1>3. Good(sel.o) /\ Good(done)
    BY <1>1, GoodSync DEF GoodResult
  <1>4. UNCHANGED <<failing, now>>
    BY DEF HandleOplog
  <1>5. CASE /\ store' = [store EXCEPT ![n] = kept]
             /\ Broadcast(sel.o, sel.flag)
    BY <1>2, <1>3, <1>4, <1>5, SaveAndSend
  <1>6. CASE store' = [store EXCEPT ![n] = kept] /\ UNCHANGED msgs
    <2>1. failing' \subseteq Nodes /\ now' \in 0 .. MaxTS /\ \A m \in msgs' : Good(m)
      BY <1>4, <1>6 DEF ConsensusInv, TypeOK
    <2> QED
      BY <1>2, <1>6, <2>1, StoreStep, InvFromParts
  <1>7. CASE /\ store' = [store EXCEPT ![n] = done]
             /\ Broadcast(done, out = "sync")
    BY <1>3, <1>4, <1>7, SaveAndSend
  <1> QED
    BY <1>5, <1>6, <1>7, Zenon DEF HandleOplog

LEMMA HandlePendingOplogStep ==
    ASSUME ConsensusInv, NEW n \in Nodes, NEW o \in msgs, NEW out, HandlePendingOplog(n, o, out)
    PROVE  ConsensusInv'
  <1> DEFINE r == IntegrateOplog(n, o)
             kept == IF r.save = NoLog THEN store[n] ELSE r.save
  <1>1. GoodResult(r)
    BY GoodIntegrateOplog DEF ConsensusInv, HandlePendingOplog
  <1>2. (kept = NoLog \/ Good(kept)) /\ Good(r.o) /\ r.origSync \in BOOLEAN
    BY <1>1 DEF GoodResult, ConsensusInv
  <1>3. UNCHANGED <<failing, now>>
    BY DEF HandlePendingOplog
  <1>4. \/ IntegratedIsSynced(n, r, kept)
        \/ IntegratedIsValid(n, r, kept, out)
        \/ IntegratedIsPending(n, r, kept, out)
    BY Zenon DEF HandlePendingOplog
  <1> HIDE DEF r, kept
  <1>5. CASE IntegratedIsSynced(n, r, kept)
    BY <1>2, <1>3, <1>5, SaveAndSend DEF IntegratedIsSynced
  <1>6. CASE IntegratedIsValid(n, r, kept, out)
    BY <1>2, <1>3, <1>6, SaveAndSend DEF IntegratedIsValid
  <1>7. CASE IntegratedIsPending(n, r, kept, out)
    <2> DEFINE toSign == out \in {"sync", "sign"}
               o1 == [r.o EXCEPT !.sync = out = "sync"]
               o2 == IF toSign /\ MayInternalSign(n, o1) THEN SignAndCount(n, o1) ELSE o1
               o3 == [o2 EXCEPT !.sync = o2.sync \/ r.origSync]
               failed == \/ out = "refused"
                         \/ toSign /\ MayInternalSign(n, o1) /\ Expired
                         \/ ~CanSave(o3, kept)
    <2>1. Good(o1) /\ ~o1.mid
      <3>1. Good(o1)
        BY <1>2, GoodSync
      <3>2. ~r.o.mid /\ o1.mid = r.o.mid
        BY <1>2, <1>7 DEF IntegratedIsPending, Good, Logs
      <3> QED
        BY <3>1, <3>2
    <2> HIDE DEF o1
    <2>2. Good(o2)
      BY <2>1, GoodSignAndCount DEF ConsensusInv, TypeOK, MayInternalSign
    <2> HIDE DEF o2
    <2>3. Good(o3)
      BY <1>2, <2>2, GoodSync DEF Good, Well, Logs
    <2>4. /\ store' = [store EXCEPT ![n] = IF failed THEN kept ELSE o3]
          /\ Broadcast(o3, ~failed /\ (toSign \/ r.flag))
      BY <1>7, Zenon DEF IntegratedIsPending, o1, o2
    <2> HIDE DEF o3, failed, toSign
    <2> QED
      BY <1>2, <1>3, <2>3, <2>4, SaveAndSend
  <1> QED
    BY <1>4, <1>5, <1>6, <1>7

LEMMA HandleSyncCreateObjectAckStep ==
    ASSUME ConsensusInv, NEW n \in Nodes, HandleSyncCreateObjectAck(n)
    PROVE  ConsensusInv'
  <1> DEFINE o == [store[n] EXCEPT !.sync = TRUE]
             isNewSign == MayInternalSign(n, o) /\ ~Expired
             signed == IF isNewSign THEN SignAndCount(n, o) ELSE o
  <1>1. Good(store[n]) /\ UNCHANGED <<failing, now>>
    BY DEF HandleSyncCreateObjectAck, ConsensusInv
  <1>2. Good(o)
    BY <1>1, GoodSync
  <1>3. isNewSign => ~o.mid /\ Owner[n] \notin Signers(o.ms)
    BY DEF MayInternalSign
  <1>4. /\ store' = [store EXCEPT ![n] = Saved(signed, store[n])]
        /\ Broadcast(signed, isNewSign)
    BY Zenon DEF HandleSyncCreateObjectAck
  <1> HIDE DEF o
  <1>5. Good(signed)
    BY <1>2, <1>3, GoodSignAndCount DEF ConsensusInv, TypeOK
  <1> HIDE DEF signed, isNewSign
  <1>6. Good(Saved(signed, store[n]))
    BY <1>1, <1>5 DEF Saved
  <1> QED
    BY <1>1, <1>4, <1>5, <1>6, SaveAndSend

LEMMA CreateObjectStep == ASSUME ConsensusInv, CreateObject PROVE ConsensusInv'
  <1> DEFINE o == SignAndCount(Creator, NewOplog(now))
  <1>1. Creator \in Nodes /\ now \in 0 .. MaxTS
    BY ConsensusAssumption DEF ConsensusInv, TypeOK
  <1>2. Good(o)
    <2>1. Owner[Creator] \notin Signers(NewOplog(now).ms)
      BY <1>1, GoodNewOplog DEF Signers
    <2> QED
      BY <1>1, <2>1, GoodNewOplog, GoodSignAndCount
  <1>3. store' = [store EXCEPT ![Creator] = o] /\ Broadcast(o, TRUE) /\ UNCHANGED <<failing, now>>
    BY DEF CreateObject
  <1> HIDE DEF o
  <1> QED
    BY <1>1, <1>2, <1>3, SaveAndSend

LEMMA ResendStep ==
    ASSUME ConsensusInv, NEW n \in Nodes, SyncPendingOplog(n) \/ SyncOplog(n)
    PROVE  ConsensusInv'
  <1>1. Good(store[n]) /\ Broadcast(store[n], TRUE) /\ UNCHANGED <<store, failing, now>>
    BY DEF SyncPendingOplog, SyncOplog, ConsensusInv
  <1>2. \A m \in msgs' : Good(m)
    BY <1>1, BroadcastStep
  <1> QED
    BY <1>1, <1>2, InvFromParts DEF ConsensusInv, TypeOK

LEMMA OtherStep ==
    ASSUME ConsensusInv, NEW n \in Nodes, NEW isHandled \in BOOLEAN,
           Tick \/ ListFailedOplog(n) \/ HandleFailedOplog(n, isHandled)
    PROVE  ConsensusInv'
  <1>1. CASE Tick
    <2>1. now' \in 0 .. MaxTS
      BY <1>1, ConsensusAssumption DEF Tick, ConsensusInv, TypeOK
    <2> QED
      BY <1>1, <2>1, InvFromParts DEF Tick, ConsensusInv, TypeOK
  <1>2. CASE ListFailedOplog(n)
    BY <1>2, InvFromParts DEF ListFailedOplog, ConsensusInv, TypeOK
  <1>3. CASE HandleFailedOplog(n, isHandled)
    <2> DEFINE left == IF isHandled THEN NoLog ELSE store[n]
    <2>1. store' = [store EXCEPT ![n] = left] /\ UNCHANGED <<msgs, now>> /\ failing' \subseteq Nodes
      BY <1>3 DEF HandleFailedOplog, ConsensusInv, TypeOK
    <2>2. left = NoLog \/ Good(left)
      BY DEF ConsensusInv
    <2> HIDE DEF left
    <2> QED
      BY <2>1, <2>2, StoreStep, InvFromParts DEF ConsensusInv, TypeOK
  <1> QED
    BY <1>1, <1>2, <1>3

LEMMA ConsensusInvStep == ConsensusInv /\ [Next]_vars => ConsensusInv'
  <1> SUFFICES ASSUME ConsensusInv, [Next]_vars PROVE ConsensusInv'
    OBVIOUS
  <1>1. CASE UNCHANGED vars
    BY <1>1, InvFromParts DEF vars, ConsensusInv, TypeOK
  <1>2. CASE Tick
    BY <1>2, OtherStep, ConsensusAssumption
  <1>3. CASE CreateObject
    BY <1>3, CreateObjectStep
  <1>4. ASSUME NEW n \in Nodes, NEW o \in msgs, NEW out,
               HandleOplog(n, o, out) \/ HandlePendingOplog(n, o, out)
        PROVE  ConsensusInv'
    BY <1>4, HandleOplogStep, HandlePendingOplogStep
  <1>5. ASSUME NEW n \in Nodes,
               \/ HandleSyncCreateObjectAck(n) \/ SyncPendingOplog(n) \/ SyncOplog(n)
               \/ ListFailedOplog(n)
        PROVE  ConsensusInv'
    BY <1>5, HandleSyncCreateObjectAckStep, ResendStep, OtherStep
  <1>6. ASSUME NEW n \in Nodes, NEW isHandled \in BOOLEAN, HandleFailedOplog(n, isHandled)
        PROVE  ConsensusInv'
    BY <1>6, OtherStep
  <1> QED
    BY <1>1, <1>2, <1>3, <1>4, <1>5, <1>6 DEF Next

(* The database of every node and every copy under way are well typed, and *)
(* a valid copy has a hash its receivers accept.                           *)
THEOREM ConsensusInvHolds == Spec => []ConsensusInv
  BY InitInv, ConsensusInvStep, PTL DEF Spec

(* A log becomes valid anywhere only with the signature of every master,   *)
(* for users whose single device signs for them: the count of signatures   *)
(* in defaultIsValidOplog is then a count of masters, also after           *)
(* integrateSignInfos merged or cut signature lists.                       *)
THEOREM AliveSignedByAllHolds == ASSUME SingleDevice PROVE Spec => []AliveSignedByAll
  <1>1. ConsensusInv => AliveSignedByAll
    BY DEF ConsensusInv, AliveSignedByAll, Copies, Stored, Good, Complete
  <1> QED
    BY <1>1, ConsensusInvHolds, PTL

(* Every variable keeps its type, for every configuration.                 *)
THEOREM ConsensusTypeCorrect == Spec => []TypeOK
  <1>1. ConsensusInv => TypeOK
    BY DEF ConsensusInv
  <1> QED
    BY <1>1, ConsensusInvHolds, PTL

(* No node stores or sends a valid log that the hash check of              *)
(* preprocessOplogs refuses, whoever signs, integrates or selects it.      *)
THEOREM AliveVerifiesHolds == Spec => []AliveVerifies
  <1>1. ConsensusInv => AliveVerifies
    BY DEF ConsensusInv, AliveVerifies, Copies, Stored, Good, Well
  <1> QED
    BY <1>1, ConsensusInvHolds, PTL

-----------------------------------------------------------------------------
(* What may take the place of a valid log.                                 *)
Over(o, orig) == o.mid /\ (SameSigns(o, orig) \/ Beats(o, orig))

LEMMA OverSync ==
    ASSUME NEW o, NEW orig, Good(o), Over(o, orig), NEW b \in BOOLEAN
    PROVE  /\ Over([o EXCEPT !.sync = b], orig) /\ [o EXCEPT !.sync = b].sync = b
           /\ [o EXCEPT !.sync = b] # NoLog
  <1>1. o \in Logs(0 .. MaxTS)
    BY DEF Good, Well
  <1>2. /\ [o EXCEPT !.sync = b].mid = o.mid /\ [o EXCEPT !.sync = b].ms = o.ms
        /\ [o EXCEPT !.sync = b].hash = o.hash /\ [o EXCEPT !.sync = b].ut = o.ut
        /\ [o EXCEPT !.sync = b].sync = b /\ [o EXCEPT !.sync = b] \in Logs(0 .. MaxTS)
    BY <1>1 DEF Logs
  <1> QED BY <1>2, NoLogAssumption DEF Over, SameSigns, Beats

(* SelectExisting with a valid stored log returns, and saves, only what    *)
(* may take its place.                                                     *)
LEMMA SelectOver ==
    ASSUME NEW o, NEW orig, Good(o), Good(orig), o.mid, orig.mid
    PROVE  LET r == SelectExisting(o, orig)
           IN  /\ Over(r.o, orig) /\ r.origSync = orig.sync
               /\ r.save # NoLog => Over(r.save, orig) /\ (orig.sync => r.save.sync)
               /\ orig.sync => r.o.sync
  <1> DEFINE ret == IF ToStatus(o) <= ToStatus(orig) /\ orig.sync
                    THEN [o EXCEPT !.sync = TRUE] ELSE o
             toSave == [ret EXCEPT !.sync = ret.sync \/ orig.sync]
             taken == TakeOrig(ret, orig)
  <1>1. /\ o \in Logs(0 .. MaxTS) /\ orig \in Logs(0 .. MaxTS) /\ Verify(o) /\ Verify(orig)
        /\ orig # NoLog
    BY NoLogAssumption DEF Good, Well
  <1>2. ToStatus(o) <= ToStatus(orig)
    <2>1. ToStatus(o) = Alive /\ ToStatus(orig) = Alive
      BY DEF ToStatus
    <2> QED BY <2>1 DEF Alive
  <1>3. /\ ret.mid /\ ret.ms = o.ms /\ ret.hash = o.hash /\ ret.ut = o.ut /\ ret.sync \in BOOLEAN
        /\ Good(ret) /\ (orig.sync => ret.sync)
    BY <1>1, <1>2, GoodSync DEF Logs
  <1>4. o.hash = orig.hash => SameSigns(ret, orig)
    BY <1>1, <1>3 DEF Verify, SignsHash, Fields, SameSigns
  <1>5. Replaces(o, orig) => Beats(ret, orig)
    BY <1>3 DEF Replaces, Beats
  <1>6. taken.mid /\ SameSigns(taken, orig) /\ taken.sync = ret.sync
    BY <1>1, <1>3 DEF TakeOrig, SameSigns, Good, Well, Logs
  <1>7. SelectExisting(o, orig) =
          CASE o.hash = orig.hash -> Result(ret, NoLog, orig.sync, FALSE)
            [] o.hash # orig.hash /\ ~o.mid -> Failed
            [] o.hash # orig.hash /\ o.mid /\ Replaces(o, orig) ->
                   Result(ret, toSave, orig.sync, TRUE)
            [] OTHER -> Result(taken, NoLog, orig.sync, FALSE)
    BY <1>1 DEF SelectExisting
  <1>8. Replaces(o, orig) => Over(toSave, orig) /\ (orig.sync => toSave.sync)
    BY <1>1, <1>3, <1>5, OverSync DEF Over, Logs
  <1> HIDE DEF ret, toSave, taken
  <1>9. CASE o.hash = orig.hash
    BY <1>3, <1>4, <1>7, <1>9 DEF Result, Over
  <1>10. CASE o.hash # orig.hash /\ Replaces(o, orig)
    BY <1>3, <1>5, <1>7, <1>8, <1>10 DEF Result, Over
  <1>11. CASE o.hash # orig.hash /\ ~Replaces(o, orig)
    BY <1>3, <1>6, <1>7, <1>11 DEF Result, Over
  <1> QED BY <1>9, <1>10, <1>11

(* IntegrateExisting with a valid stored log takes that log.               *)
LEMMA IntegrateOver ==
    ASSUME NEW n \in Nodes, NEW o, Good(o), ~o.mid, Verify(o), Good(store[n]), store[n].mid
    PROVE  LET r == IntegrateOplog(n, o)
           IN  r.o.mid /\ r.save = NoLog /\ ~r.flag
  <1> DEFINE orig == store[n]
             ret == IF ToStatus(o) <= ToStatus(orig) THEN [o EXCEPT !.sync = orig.sync] ELSE o
             r == IntegrateExisting(o, orig, now)
  <1>1. /\ o \in Logs(0 .. MaxTS) /\ orig \in Logs(0 .. MaxTS) /\ Verify(orig) /\ orig # NoLog
    BY NoLogAssumption DEF Good, Well
  <1>2. o.hash # orig.hash
    BY <1>1 DEF Verify, SignsHash, Fields
  <1>3. ret \in Logs(0 .. MaxTS)
    BY <1>1 DEF Logs
  <1>4. r = Result(TakeOrig(ret, orig), NoLog, orig.sync, FALSE)
    BY <1>1, <1>2, Zenon DEF IntegrateExisting
  <1> HIDE DEF ret, r
  <1>5. r.o.mid /\ r.save = NoLog /\ r.flag = FALSE
    BY <1>3, <1>4 DEF Result, TakeOrig, Logs
  <1>6. IntegrateOplog(n, o) = r
    BY <1>5, Zenon DEF IntegrateOplog, r
  <1> QED BY <1>5, <1>6

(* A write to the database of a node leaves those of the others.           *)
LEMMA WriteImproves ==
    ASSUME ConsensusInv, NEW n \in Nodes, NEW o, store' = [store EXCEPT ![n] = o],
           IsAlive(n) => \/ o = NoLog /\ n \in failing
                         \/ o # NoLog /\ Over(o, store[n]) /\ (store[n].sync => o.sync)
    PROVE  \A m \in Nodes : Improves(m)
  <1>1. DOMAIN store = Nodes
    BY DEF ConsensusInv, TypeOK
  <1>2. \A m \in Nodes : store'[m] = IF m = n THEN o ELSE store[m]
    BY <1>1
  <1> QED BY <1>2 DEF Improves, IsAlive, Over, SameSigns

LEMMA HandleOplogImproves ==
    ASSUME ConsensusInv, NEW n \in Nodes, NEW o \in msgs, NEW out, HandleOplog(n, o, out)
    PROVE  \A m \in Nodes : Improves(m)
  <1> DEFINE sel == SelectExisting(o, store[n])
             kept == IF sel.save = NoLog THEN store[n] ELSE sel.save
             b == out \in {"sync", "newer"} \/ sel.origSync
             done == [sel.o EXCEPT !.sync = b]
  <1>1. o.mid /\ Good(o) /\ (store[n] = NoLog \/ Good(store[n]))
    BY DEF HandleOplog, ConsensusInv
  <1>2. store' = [store EXCEPT ![n] = kept] \/ store' = [store EXCEPT ![n] = done]
    BY Zenon DEF HandleOplog
  <1>3. GoodResult(sel)
    BY <1>1, GoodSelect
  <1>4. CASE IsAlive(n)
    <2>1. Good(store[n]) /\ store[n].mid /\ store[n] # NoLog
      BY <1>1, <1>4 DEF IsAlive
    <2>2. /\ Over(sel.o, store[n]) /\ sel.origSync = store[n].sync
          /\ sel.save # NoLog => Over(sel.save, store[n]) /\ (store[n].sync => sel.save.sync)
      BY <1>1, <2>1, SelectOver
    <2> HIDE DEF sel
    <2>3. kept # NoLog /\ Over(kept, store[n]) /\ (store[n].sync => kept.sync)
      BY <2>1, <2>2 DEF Over, SameSigns
    <2>4. Good(sel.o) /\ b \in BOOLEAN
      BY <1>3 DEF GoodResult
    <2>5. done # NoLog /\ Over(done, store[n]) /\ done.sync = b
      <3> HIDE DEF b
      <3> QED BY <2>2, <2>4, OverSync
    <2>6. store[n].sync => b
      BY <2>2
    <2> HIDE DEF kept, done
    <2> QED BY <1>2, <2>3, <2>5, <2>6, WriteImproves
  <1> HIDE DEF kept, done
  <1>5. CASE ~IsAlive(n)
    BY <1>2, <1>5, WriteImproves
  <1> QED BY <1>4, <1>5

LEMMA HandlePendingOplogImproves ==
    ASSUME ConsensusInv, NEW n \in Nodes, NEW o \in msgs, NEW out, HandlePendingOplog(n, o, out)
    PROVE  \A m \in Nodes : Improves(m)
  <1> DEFINE r == IntegrateOplog(n, o)
             kept == IF r.save = NoLog THEN store[n] ELSE r.save
  <1>1. ~o.mid /\ Verify(o) /\ Good(o) /\ (store[n] = NoLog \/ Good(store[n]))
    BY DEF HandlePendingOplog, Receives, ConsensusInv
  <1>2. \/ IntegratedIsSynced(n, r, kept)
        \/ IntegratedIsValid(n, r, kept, out)
        \/ IntegratedIsPending(n, r, kept, out)
    BY Zenon DEF HandlePendingOplog
  <1>3. \E x : store' = [store EXCEPT ![n] = x]
    <2> HIDE DEF r, kept
    <2> QED BY <1>2, Zenon DEF IntegratedIsSynced, IntegratedIsValid, IntegratedIsPending
  <1>4. CASE IsAlive(n)
    <2>1. Good(store[n]) /\ store[n].mid /\ store[n] # NoLog
      BY <1>1, <1>4 DEF IsAlive
    <2>2. r.o.mid /\ r.save = NoLog /\ ~r.flag
      BY <1>1, <2>1, IntegrateOver
    <2>3. kept = store[n]
      BY <2>2
    <2> HIDE DEF r, kept
    <2>4. store' = [store EXCEPT ![n] = store[n]]
      BY <1>2, <2>2, <2>3 DEF IntegratedIsSynced, IntegratedIsValid, IntegratedIsPending
    <2> QED BY <2>1, <2>4, WriteImproves DEF Over, SameSigns
  <1>5. CASE ~IsAlive(n)
    BY <1>3, <1>5, WriteImproves
  <1> QED BY <1>4, <1>5

LEMMA HandleSyncCreateObjectAckImproves ==
    ASSUME ConsensusInv, NEW n \in Nodes, HandleSyncCreateObjectAck(n)
    PROVE  \A m \in Nodes : Improves(m)
  <1> DEFINE o == [store[n] EXCEPT !.sync = TRUE]
             isNewSign == MayInternalSign(n, o) /\ ~Expired
             signed == IF isNewSign THEN SignAndCount(n, o) ELSE o
  <1>1. store' = [store EXCEPT ![n] = Saved(signed, store[n])]
    BY Zenon DEF HandleSyncCreateObjectAck
  <1>2. CASE IsAlive(n)
    <2>1. Good(store[n]) /\ store[n].mid
      BY <1>2 DEF IsAlive, ConsensusInv
    <2>2. Over(store[n], store[n])
      BY <2>1 DEF Over, SameSigns
    <2>3. Over(o, store[n]) /\ o.sync = TRUE /\ o # NoLog
      BY <2>1, <2>2, OverSync
    <2> HIDE DEF o
    <2>4. signed = o /\ Saved(signed, store[n]) = o
      BY <2>3 DEF MayInternalSign, Saved, CanSave, Over
    <2> HIDE DEF signed
    <2> QED BY <1>1, <2>3, <2>4, WriteImproves
  <1>3. CASE ~IsAlive(n)
    <2> HIDE DEF signed
    <2> QED BY <1>1, <1>3, WriteImproves
  <1> QED BY <1>2, <1>3

(* The rest creates the log, deletes it, or writes nothing.                *)
LEMMA OtherImproves ==
    ASSUME ConsensusInv, NEW n \in Nodes, NEW isHandled \in BOOLEAN,
           \/ Tick \/ CreateObject \/ SyncPendingOplog(n) \/ ListFailedOplog(n)
           \/ HandleFailedOplog(n, isHandled) \/ SyncOplog(n) \/ UNCHANGED vars
    PROVE  \A m \in Nodes : Improves(m)
  <1>1. CASE UNCHANGED store
    BY <1>1 DEF Improves, IsAlive, SameSigns
  <1>2. CASE CreateObject
    <2>1. Creator \in Nodes /\ ~IsAlive(Creator)
      BY <1>2, ConsensusAssumption DEF CreateObject, IsAlive
    <2>2. \E x : store' = [store EXCEPT ![Creator] = x]
      BY <1>2, Zenon DEF CreateObject
    <2> QED BY <2>1, <2>2, WriteImproves
  <1>3. CASE HandleFailedOplog(n, isHandled)
    <2>1. n \in failing /\ store' = [store EXCEPT ![n] = IF isHandled THEN NoLog ELSE store[n]]
      BY <1>3 DEF HandleFailedOplog
    <2>2. CASE isHandled
      BY <2>1, <2>2, WriteImproves
    <2>3. CASE ~isHandled
      BY <2>1, <2>3, WriteImproves DEF IsAlive, Over, SameSigns
    <2> QED BY <2>2, <2>3
  <1> QED
    BY <1>1, <1>2, <1>3 DEF Tick, SyncPendingOplog, ListFailedOplog, SyncOplog, vars

(* A node with a valid log only replaces its signatures by those that win  *)
(* in SelectExisting, never forgets that the log is synced, and loses it   *)
(* only in HandleFailedOplogs after GetPendingOplogs listed it as pending: *)
(* for any masters, devices and weights, and any order of the messages.    *)
THEOREM AliveOnlyImprovesHolds == Spec => AliveOnlyImproves
  <1>1. ConsensusInv /\ [Next]_vars => [\A n \in Nodes : Improves(n)]_vars
    <2> SUFFICES ASSUME ConsensusInv, [Next]_vars PROVE \A n \in Nodes : Improves(n)
      OBVIOUS
    <2>1. ASSUME NEW n \in Nodes, NEW o \in msgs, NEW out,
                 HandleOplog(n, o, out) \/ HandlePendingOplog(n, o, out)
          PROVE  \A m \in Nodes : Improves(m)
      BY <2>1, HandleOplogImproves, HandlePendingOplogImproves
    <2>2. ASSUME NEW n \in Nodes, HandleSyncCreateObjectAck(n)
          PROVE  \A m \in Nodes : Improves(m)
      BY <2>2, HandleSyncCreateObjectAckImproves
    <2>3. ASSUME NEW n \in Nodes, NEW isHandled \in BOOLEAN,
                 \/ SyncPendingOplog(n) \/ ListFailedOplog(n)
                 \/ HandleFailedOplog(n, isHandled) \/ SyncOplog(n)
          PROVE  \A m \in Nodes : Improves(m)
      BY <2>3, OtherImproves
    <2>4. CASE Tick \/ CreateObject \/ UNCHANGED vars
      BY <2>4, OtherImproves, ConsensusAssumption
    <2> QED
      BY <2>1, <2>2, <2>3, <2>4 DEF Next
  <1> QED BY <1>1, ConsensusInvHolds, PTL DEF Spec, AliveOnlyImproves
=============================================================================
