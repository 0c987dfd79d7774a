----------------------------- MODULE DurableLog -----------------------------
(***************************************************************************)
(* What raft asks of the storage of its log (vendor/.../raft/doc.go and    *)
(* the Storage interface): writing an entry discards the ones at and above *)
(* its index, and a crash takes nothing that was committed.                *)
(***************************************************************************)
EXTENDS Naturals, Sequences

CONSTANTS Term

VARIABLES entries, commit

IsLog(s) == \E n \in 0 .. Len(s) : s \in [1 .. n -> Term]

Init == entries = <<>> /\ commit = 0

(* Entries from i on are written, and some of what is then there becomes   *)
(* committed.                                                              *)
Ready ==
    \E i \in commit + 1 .. Len(entries) + 1 :
        /\ Len(entries') >= i - 1 /\ IsLog(entries')
        /\ SubSeq(entries', 1, i - 1) = SubSeq(entries, 1, i - 1)
        /\ commit <= commit' /\ commit' <= Len(entries')

Crash ==
    /\ Len(entries') >= commit /\ IsLog(entries')
    /\ SubSeq(entries', 1, commit) = SubSeq(entries, 1, commit)
    /\ UNCHANGED commit

Next == Ready \/ Crash

Spec == Init /\ [][Next]_<<entries, commit>>
=============================================================================
