--------------------------- MODULE PeerLoopsProofs ---------------------------
(***************************************************************************)
(* For any number of protocols and of other goroutines, one of them at a   *)
(* time writes to the connection of a peer, and the right to write is not  *)
(* lost while Peer.run is in its loop.                                     *)
(*                                                                         *)
(* OneWriter counts where the right is; with the types of what it counts   *)
(* it is inductive.  The steps that move the right are writeMsg, wroteMsg  *)
(* and runWrote; every other step leaves the writers as they are.          *)
(***************************************************************************)
EXTENDS PeerLoops, FiniteSetTheorems, TLAPS

Goroutines == Proto \cup Sender
Place == [x \in Goroutines |-> At(x)]
Writers == {x \in Goroutines : Place[x] = "writing"}
Held == writeStart + Len(writeErr) + Cardinality(Writers)

LoopTypes ==
    /\ writeStart \in Nat /\ writeErr \in Seq({"ok", "err"})
    /\ handler \in [Proto -> {"run", "read", "write", "writing", "report", "done"}]
    /\ sender \in [Sender -> {"idle", "write", "writing", "disc"}]

LoopInv ==
    /\ LoopTypes
    /\ Held <= 1
    /\ run = "loop" => Held = 1

(* The number of writers is a natural number: there are finitely many      *)
(* goroutines.                                                             *)
LEMMA WritersFinite == IsFiniteSet(Writers) /\ Cardinality(Writers) \in Nat
  <1>1. IsFiniteSet(Goroutines)
    BY LoopAssumption, FS_Union DEF Goroutines
  <1>2. Writers \subseteq Goroutines
    BY DEF Writers
  <1> QED BY <1>1, <1>2, FS_Subset, FS_CardinalityType

(* Goes changes the place of one goroutine.                                *)
LEMMA GoesMoves ==
    ASSUME LoopTypes, NEW x \in Goroutines, NEW to \in {"writing", "idle"}, Goes(x, to),
           writeStart' \in Nat, writeErr' \in Seq({"ok", "err"})
    PROVE  /\ LoopTypes'
           /\ Place'[x] = "writing" <=> to = "writing"
           /\ \A y \in Goroutines \ {x} : Place'[y] = Place[y]
  <1>1. CASE x \in Proto
    BY <1>1 DEF Goes, LoopTypes, At, Place, Goroutines
  <1>2. CASE x \notin Proto
    BY <1>2 DEF Goes, LoopTypes, At, Place, Goroutines
  <1> QED BY <1>1, <1>2

(* A goroutine that is given the right is one writer more, ...             *)
LEMMA WriterStarts ==
    ASSUME NEW x \in Goroutines, Place[x] # "writing", Place'[x] = "writing",
           \A y \in Goroutines \ {x} : Place'[y] = Place[y]
    PROVE  Cardinality(Writers)' = Cardinality(Writers) + 1
  <1>1. Writers' = Writers \cup {x} /\ x \notin Writers
    BY DEF Writers
  <1>2. Cardinality(Writers \cup {x}) = Cardinality(Writers) + 1
    BY <1>1, WritersFinite, FS_AddElement
  <1> QED BY <1>1, <1>2

(* ... and one that has written is one writer less.                        *)
LEMMA WriterEnds ==
    ASSUME NEW x \in Goroutines, Place[x] = "writing", Place'[x] # "writing",
           \A y \in Goroutines \ {x} : Place'[y] = Place[y]
    PROVE  Cardinality(Writers)' = Cardinality(Writers) - 1
  <1>1. Writers' = Writers \ {x} /\ x \in Writers
    BY DEF Writers
  <1>2. Cardinality(Writers \ {x}) = Cardinality(Writers) - 1
    BY <1>1, WritersFinite, FS_RemoveElement
  <1> QED BY <1>1, <1>2

-----------------------------------------------------------------------------
(* At the start the right is in writeStart.                                *)
LEMMA LoopInvInit == LoopInit => LoopInv
  <1> SUFFICES ASSUME LoopInit PROVE LoopInv
    OBVIOUS
  <1>1. Cardinality(Writers) = 0
    <2>1. Writers = {}
      BY DEF LoopInit, Writers, Place, Goroutines, At
    <2> QED BY <2>1, FS_EmptySet
  <1>2. LoopTypes /\ Len(writeErr) = 0
    BY DEF LoopInit, LoopTypes
  <1> QED BY <1>1, <1>2 DEF LoopInit, LoopInv, Held

(* A step that touches neither channel of the right, and starts and ends   *)
(* no write, keeps the invariant.                                          *)
LEMMA Elsewhere ==
    ASSUME LoopInv, UNCHANGED <<writeStart, writeErr>>, LoopTypes',
           \A x \in Goroutines : (Place[x] = "writing") <=> (Place'[x] = "writing"),
           run' = "loop" => run = "loop"
    PROVE  LoopInv'
  <1>1. Writers' = Writers
    BY DEF Writers
  <1> QED BY <1>1 DEF LoopInv, Held

(* protoRW.WriteMsg: the right goes to the writer, ...                     *)
LEMMA WriteMsgKeeps ==
    ASSUME LoopInv, NEW x \in Goroutines, writeMsg(x)
    PROVE  LoopInv'
  <1>1. Place[x] = "write" /\ LoopTypes /\ writeErr' = writeErr /\ run' = run
    BY DEF writeMsg, Place, LoopInv
  <1>2. CASE writeStart > 0 /\ writeStart' = writeStart - 1 /\ Goes(x, "writing")
    <2>1. writeStart' \in Nat /\ writeErr' \in Seq({"ok", "err"})
      BY <1>1, <1>2 DEF LoopTypes
    <2>2. LoopTypes' /\ Cardinality(Writers)' = Cardinality(Writers) + 1
      BY <1>1, <1>2, <2>1, GoesMoves, WriterStarts
    <2>3. Held' = Held
      BY <1>1, <1>2, <2>2, WritersFinite DEF Held, LoopTypes
    <2> QED BY <1>1, <2>2, <2>3 DEF LoopInv
  <1>3. CASE Goes(x, "idle") /\ UNCHANGED writeStart
    <2>1. LoopTypes' /\ \A y \in Goroutines : (Place[y] = "writing") <=> (Place'[y] = "writing")
      BY <1>1, <1>3, GoesMoves DEF LoopTypes
    <2> QED BY <1>1, <1>3, <2>1, Elsewhere
  <1> QED BY <1>2, <1>3 DEF writeMsg

(* ... and comes back with the result.                                     *)
LEMMA WroteMsgKeeps ==
    ASSUME LoopInv, NEW x \in Goroutines, wroteMsg(x)
    PROVE  LoopInv'
  <1>1. Place[x] = "writing" /\ LoopTypes /\ writeStart' = writeStart /\ run' = run
    BY DEF wroteMsg, Place, LoopInv
  <1>2. /\ writeErr' \in Seq({"ok", "err"}) /\ Len(writeErr') = Len(writeErr) + 1
        /\ Len(writeErr) \in Nat
    BY <1>1 DEF wroteMsg, LoopTypes
  <1>3. LoopTypes' /\ Cardinality(Writers)' = Cardinality(Writers) - 1
    <2>1. Goes(x, "idle") /\ writeStart' \in Nat
      BY <1>1 DEF wroteMsg, LoopTypes
    <2> QED BY <1>1, <1>2, <2>1, GoesMoves, WriterEnds
  <1>4. Held' = Held
    BY <1>1, <1>2, <1>3, WritersFinite DEF Held, LoopTypes
  <1> QED BY <1>1, <1>3, <1>4 DEF LoopInv

(* Peer.run takes the right back, or leaves its loop.                      *)
LEMMA RunWroteKeeps == LoopInv /\ runWrote => LoopInv'
  <1> SUFFICES ASSUME LoopInv, runWrote PROVE LoopInv'
    OBVIOUS
  <1>1. LoopTypes /\ writeErr # <<>> /\ UNCHANGED <<handler, sender>>
    BY DEF LoopInv, runWrote, goroutines
  <1>2. Cardinality(Writers)' = Cardinality(Writers)
    BY <1>1 DEF Writers, Place, At
  <1>3. /\ writeErr' \in Seq({"ok", "err"}) /\ Len(writeErr') = Len(writeErr) - 1
        /\ Len(writeErr) \in Nat \ {0}
    BY <1>1 DEF runWrote, LoopTypes
  <1>4. CASE writeStart' = writeStart + 1 /\ run' = run
    BY <1>1, <1>2, <1>3, <1>4, WritersFinite DEF LoopInv, LoopTypes, Held
  <1>5. CASE writeStart' = writeStart /\ run' = "close"
    BY <1>1, <1>2, <1>3, <1>5, WritersFinite DEF LoopInv, LoopTypes, Held
  <1> QED BY <1>4, <1>5 DEF runWrote

(* No step loses or doubles the right to write.                            *)
LEMMA LoopInvNext == LoopInv /\ [LoopNext]_loopvars => LoopInv'
  <1> SUFFICES ASSUME LoopInv, [LoopNext]_loopvars PROVE LoopInv'
    OBVIOUS
  <1> DEFINE Same == /\ UNCHANGED <<writeStart, writeErr>> /\ LoopTypes'
                     /\ \A x \in Goroutines : (Place[x] = "writing") <=> (Place'[x] = "writing")
                     /\ run' = "loop" => run = "loop"
  <1>1. CASE runWrote
    BY <1>1, RunWroteKeeps
  <1>2. ASSUME NEW x \in Goroutines, WriteStep(x) PROVE LoopInv'
    BY <1>2, WriteMsgKeeps, WroteMsgKeeps DEF WriteStep
  <1>3. ASSUME Same PROVE LoopInv'
    BY <1>3, Elsewhere
  <1> USE DEF LoopInv, LoopTypes, Place, Goroutines, At, chans
  <1>4. CASE runFails
    <2>1. PICK S \in [Sender -> {"idle", "write", "writing", "disc"}] :
             sender' = S /\ \A s \in Sender : (sender[s] = "writing") <=> (S[s] = "writing")
      BY <1>4 DEF runFails
    <2>2. Same
      BY <1>4, <2>1 DEF runFails
    <2> QED BY <1>3, <2>2
  <1>5. CASE runClose \/ runWait \/ pingLoop \/ Breaks \/ UNCHANGED loopvars
    <2>1. Same
      BY <1>5 DEF runClose, runWait, pingLoop, Breaks, goroutines, loopvars
    <2> QED BY <1>3, <2>1
  <1>6. CASE ReadStep
    <2>1. Same
      BY <1>6 DEF ReadStep, readMsg, handleCloses, readLoopEnds, handOver
    <2> QED BY <1>3, <2>1
  <1>7. ASSUME NEW p \in Proto, ProtoStep(p) PROVE LoopInv'
    <2>1. Same
      BY <1>7 DEF ProtoStep, ProtoCalls, protoReadCloses, protoReports
    <2> QED BY <1>3, <2>1
  <1>8. ASSUME NEW s \in Sender, Call(s) \/ disconnectCloses(s) PROVE LoopInv'
    <2>1. Same
      BY <1>8 DEF Call, disconnectCloses
    <2> QED BY <1>3, <2>1
  <1> QED BY <1>1, <1>2, <1>4, <1>5, <1>6, <1>7, <1>8 DEF LoopNext, LoopStep

(* One goroutine at a time writes to the connection of a peer, and the     *)
(* right to write is not lost while Peer.run is in its loop                *)
(* (protoRW.WriteMsg): for any protocols and goroutines.                   *)
THEOREM OneWriterHolds == LoopSpec => []OneWriter
  <1>1. LoopInv => OneWriter
    BY DEF LoopInv, OneWriter, Held, Writers, Place, Goroutines
  <1> QED BY <1>1, LoopInvInit, LoopInvNext, PTL DEF LoopSpec
==============================================================================
