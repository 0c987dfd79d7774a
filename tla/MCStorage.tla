------------------------------ MODULE MCStorage ------------------------------
(***************************************************************************)
(* What is under the entities, each part for itself: focus says which one  *)
(* runs.                                                                   *)
(***************************************************************************)
EXTENDS LockMap, LDBBatch, MerkleTree, RaftStorage

VARIABLE focus

\* Three hours in two days: hours 0 and 1 share a day, hour 2 is alone.
MCHours == 0 .. 2
MCSpan  == <<1, 2>>

mcvars == <<vars, dbvars, treevars, rsvars, focus>>

InLockMap == focus = "LockMap" /\ UNCHANGED <<dbvars, treevars, rsvars, focus>>
InBatch == focus = "LDBBatch" /\ UNCHANGED <<vars, treevars, rsvars, focus>>
InTree == focus = "MerkleTree" /\ UNCHANGED <<vars, dbvars, rsvars, focus>>
InRaft == focus = "RaftStorage" /\ UNCHANGED <<vars, dbvars, treevars, focus>>

MCInit ==
    /\ focus \in {"LockMap", "LDBBatch", "MerkleTree", "RaftStorage"}
    /\ Init /\ DBInit /\ TreeInit /\ RaftInit
MCNext ==
    \/ InLockMap /\ Next
    \/ InBatch /\ DBNext
    \/ InTree /\ TreeNext
    \/ InRaft /\ RaftNext

\* Fairness of LockMap and TreeFairness, each where its component runs.
MCFairness ==
    /\ \A p \in Procs :
         /\ WF_mcvars(InLockMap /\ Try(p))
         /\ WF_mcvars(InLockMap /\ call[p] = Returning /\ Finish(p))
    /\ WF_mcvars(InTree /\ Generate) /\ WF_mcvars(InTree /\ TreeRestart)
    /\ WF_mcvars(InTree /\ ResetBusyForceSync)
    /\ SF_mcvars(InTree /\ TakeToUpdateTS(TRUE))
    /\ \A g \in Logs : WF_mcvars(InTree /\ Save(g)) /\ SF_mcvars(InTree /\ SetUpdateTS(g))

MCSpec == MCInit /\ [][MCNext]_mcvars /\ MCFairness
=============================================================================
