----------------------------- MODULE MCEntities -----------------------------
(***************************************************************************)
(* What the members of an entity keep together, each for itself: an        *)
(* object, the persons, and the operation keys.  focus says which.         *)
(***************************************************************************)
EXTENDS Persons

CONSTANTS Creator, Blocks, MaxQueue, MaxDrops,
          Master, Renew, Expire, MaxTime, MaxFlight, MaxRevokes, MaxFaults

VARIABLES need, obj, blk, objLog, delBy, posts, chan, drops, objExpires,
          now, timer, opKey, opLog, opKeyInfos, newestKey, oldest, ops, wire, faults,
          focus

OL == INSTANCE ObjectLifecycle WITH log <- objLog, expires <- objExpires
OK == INSTANCE OpKeys WITH newest <- newestKey

olvars == <<need, obj, blk, objLog, delBy, posts, chan, drops, objExpires>>
okvars == <<now, timer, opKey, opLog, opKeyInfos, newestKey, oldest, ops, wire, faults>>
mcvars == <<olvars, pvars, okvars, focus>>

InObject == focus = "ObjectLifecycle" /\ UNCHANGED <<pvars, okvars, focus>>
InPersons == focus = "Persons" /\ UNCHANGED <<olvars, okvars, focus>>
InOpKeys == focus = "OpKeys" /\ UNCHANGED <<olvars, pvars, focus>>

MCInit ==
    /\ focus \in {"ObjectLifecycle", "Persons", "OpKeys"}
    /\ OL!Init /\ Init /\ OK!Init
    /\ focus # "ObjectLifecycle" => need = 1

MCNext ==
    \/ InObject /\ OL!Next
    \/ InPersons /\ Next
    \/ InOpKeys /\ OK!Next

\* The fairness of ObjectLifecycle and of Persons, each where it runs.
MCFairness ==
    \A n \in Node :
       /\ WF_mcvars(InObject /\ OL!HandleMessage(n))
       /\ SF_mcvars(InObject /\ OL!SyncOplog(n)) /\ SF_mcvars(InObject /\ OL!SyncPendingOplog(n))
       /\ WF_mcvars(InPersons /\ \E l \in LogID : HandleValidOplog(n, l))
       /\ WF_mcvars(InPersons /\ \E m \in Node : entity[m] = StatusDeleted /\ OpCheckMember(n, m))

MCSpec == MCInit /\ [][MCNext]_mcvars /\ MCFairness

(* An object that counts has its content, its blocks and its create log,   *)
(* in whatever order the acks come (HandleSyncCreateObjectAck,             *)
(* HandleSyncCreateBlockAck).                                              *)
AliveIsComplete == OL!AliveIsComplete

(* A delete log in a tree takes the content away everywhere, for good      *)
(* (handleDeleteObjectLog, PreLogID).                                      *)
DeletedEverywhere == OL!DeletedEverywhere

(* One exchange of the key logs that is not lost is enough                 *)
(* (SyncOpKeyOplog to HandleSyncOpKeyAck).                                 *)
OneExchangeSuffices == OK!OneExchangeSuffices
=============================================================================
