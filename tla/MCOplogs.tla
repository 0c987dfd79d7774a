------------------------------ MODULE MCOplogs ------------------------------
(***************************************************************************)
(* Two groups of users and devices, each for itself: focus says which.     *)
(* In "masters", which the module extends, every user has one device, a    *)
(* quorum of its own, and a member creates what two masters sign.  In      *)
(* "devices" one master has three devices, of which no one signs alone,    *)
(* and another user follows.                                               *)
(***************************************************************************)
EXTENDS IntegrateSigns

CONSTANTS DevLogResults, DevPendingResults, DevExpireOplogSeconds

VARIABLES devStore, devMsgs, devFailing, devNow, focus

MCOwner  == [n \in Nodes |-> n - 3]      \* the device of user 1 is node 4
MCWeight == [n \in Nodes |-> 2000]          \* WeightDesktop

ASSUME MCSingleDevice == SingleDevice

DevNodes == 1 .. 4
Dev == INSTANCE OplogConsensus
       WITH Users <- 1 .. 2, Nodes <- DevNodes, Masters <- {1}, Creator <- 1,
            Owner <- [n \in DevNodes |-> IF n = 4 THEN 2 ELSE 1],
            Weight <- [n \in DevNodes |-> 2000],
            ExpireOplogSeconds <- DevExpireOplogSeconds,
            LogResults <- DevLogResults, PendingResults <- DevPendingResults,
            store <- devStore, msgs <- devMsgs, failing <- devFailing, now <- devNow

devvars == <<devStore, devMsgs, devFailing, devNow>>
mcvars == <<vars, devvars, focus>>

InMasters == focus = "masters" /\ UNCHANGED <<devvars, focus>>
InDevices == focus = "devices" /\ UNCHANGED <<vars, focus>>

MCInit == focus \in {"masters", "devices"} /\ Init /\ Dev!Init
MCNext ==
    \/ InMasters /\ Next
    \/ InDevices /\ Dev!Next

\* Fairness of OplogConsensus, for the devices.
MCFairness ==
    /\ WF_mcvars(InDevices /\ Dev!Tick)
    /\ WF_mcvars(InDevices /\ Dev!CreateObject)
    /\ \A n \in DevNodes :
          /\ WF_mcvars(InDevices /\ \E o \in devMsgs : Dev!HandleOplog(n, o, "sync"))
          /\ WF_mcvars(InDevices /\ \E o \in devMsgs : Dev!HandlePendingOplog(n, o, "sync"))
          /\ WF_mcvars(InDevices /\ Dev!HandleSyncCreateObjectAck(n))
          /\ WF_mcvars(InDevices /\ Dev!SyncPendingOplog(n))
          /\ WF_mcvars(InDevices /\ Dev!SyncOplog(n))

MCSpec == MCInit /\ [][MCNext]_mcvars /\ MCFairness

(* The devices and the user that follows end with one valid, synced copy,  *)
(* whatever was signed, lost and repeated (HandleOplogs,                   *)
(* HandlePendingOplogs, HandleSyncCreateObjectAck; no log expires here).   *)
DevicesAgree == <>[](focus = "devices" => Dev!AllAgree)
=============================================================================
