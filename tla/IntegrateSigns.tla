--------------------------- MODULE IntegrateSigns ---------------------------
(***************************************************************************)
(* The loop of integrateSignInfos (service/oplog.go) over two slices of    *)
(* signatures, each sorted by signer.  Oplog.tla has the closed form of it *)
(* on sets; this module states that the loop computes it.                  *)
(***************************************************************************)
EXTENDS OplogConsensus, Sequences, SequencesExt

SliceIDs == 1 .. 3      \* the signers in a slice (bound)

Slices(dev, ts) ==
    {[i \in 1 .. Len(q) |-> SignInfo(q[i], dev, ts)] :
        q \in {SetToSortSeq(S, <) : S \in SUBSET SliceIDs}}

RECURSIVE MergeLoopSkipping(_, _)
MergeLoopSkipping(new, orig) ==
    IF new = <<>> \/ orig = <<>> THEN <<>>
    ELSE IF new[1].id <= orig[1].id THEN <<new[1]>> \o MergeLoopSkipping(Tail(new), orig)
    ELSE <<orig[1]>> \o MergeLoopSkipping(new, Tail(orig))

(* The loop ends with the shorter slice; of two signatures of one signer   *)
(* it takes the received one.                                              *)
RECURSIVE MergeLoop(_, _)
MergeLoop(new, orig) ==
    IF new = <<>> \/ orig = <<>> THEN <<>>
    ELSE IF new[1].id < orig[1].id THEN <<new[1]>> \o MergeLoop(Tail(new), orig)
    ELSE IF orig[1].id < new[1].id THEN <<orig[1]>> \o MergeLoop(new, Tail(orig))
    ELSE <<new[1]>> \o MergeLoop(Tail(new), Tail(orig))

(* The early returns, and the flags, which compare lengths.                *)
MergeSlices(new, orig) ==
    CASE new = <<>> /\ orig = <<>> -> Integrated(<<>>, TRUE, TRUE)
      [] new # <<>> /\ orig = <<>> -> Integrated(new, TRUE, FALSE)
      [] new = <<>> /\ orig # <<>> -> Integrated(orig, FALSE, TRUE)
      [] OTHER ->
            LET merged == MergeLoop(new, orig)
            IN  Integrated(merged, Len(merged) = Len(new), Len(merged) = Len(orig))

(* The loop returns a sorted slice with the signatures of the closed form, *)
(* each once, and the same two flags, for all pairs of a slice that device *)
(* 2 signs now and a stored one that device 1 signed at the start.         *)
LoopComputesClosedForm ==
    \A new \in Slices(2, now), orig \in Slices(1, 0) :
       LET r == MergeSlices(new, orig)
           s == r.signs
       IN  /\ \A i \in 1 .. Len(s) - 1 : s[i].id < s[i + 1].id
           /\ [r EXCEPT !.signs = ToSet(s)] = integrateSignInfos(ToSet(new), ToSet(orig))
=============================================================================
