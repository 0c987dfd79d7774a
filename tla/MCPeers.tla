------------------------------- MODULE MCPeers -------------------------------
(***************************************************************************)
(* The components on the way of a connection, each for itself: focus says  *)
(* which one runs.                                                         *)
(***************************************************************************)
EXTENDS P2PServer, PeerLoops, TLC

CONSTANTS c1, c2, n1, u1, e1, Conn, Node, User, None, Entity, MyDevices, MaxPeers, MaxChanges,
          x1, x2, a, b, End, IdEntity, Friendly, MaxChallenge, q1, q2

VARIABLES st, toClose, known, isReg, task, rt, entities, started, persons, ps, send, api, loop,
          changes, userID, idEntityID, idChallenge, timers, fresh, stopped, net, focus

\* Two connections of one node, one after the other, with room for one.
NodeOf == c1 :> n1 @@ c2 :> n1
UserOf == n1 :> u1
MaxOf == [t \in {2, 3, 4, 5, 7} |-> 2]

\* The ends share x1 but not x2.
Knows == a :> {x1, x2} @@ b :> {x1}

\* Room for one inbound peer beside a static one; and for one inbound and
\* one dialled peer.
MCConfigs == {[MaxPeers |-> 1, DialRatio |-> 3, NoDiscovery |-> TRUE, StaticNodes |-> {q1},
               MaxEvents |-> 2],
              [MaxPeers |-> 2, DialRatio |-> 2, NoDiscovery |-> FALSE, StaticNodes |-> {},
               MaxEvents |-> 1]}

RP == INSTANCE RouterPeers
IP == INSTANCE IdentifyPeer

rpvars == <<st, toClose, known, isReg, task, rt, entities, started, persons, ps, send, api, loop,
            changes>>
ipvars == <<userID, idEntityID, idChallenge, timers, fresh, stopped, net>>

InRP == focus = "RouterPeers" /\ UNCHANGED <<ipvars, vars, loopvars, focus>>
InIP == focus = "IdentifyPeer" /\ UNCHANGED <<rpvars, vars, loopvars, focus>>
InSV == focus = "P2PServer" /\ UNCHANGED <<rpvars, ipvars, loopvars, focus>>
InPL == focus = "PeerLoops" /\ UNCHANGED <<rpvars, ipvars, vars, focus>>

\* A server that is not in focus has the first configuration.
MCInit ==
    /\ focus \in {"RouterPeers", "IdentifyPeer", "P2PServer", "PeerLoops"}
    /\ RP!Init /\ IP!Init /\ Init /\ LoopInit
    /\ focus # "P2PServer" => cfg.NoDiscovery

MCNext ==
    \/ InRP /\ RP!Next
    \/ InIP /\ IP!Next
    \/ InSV /\ Next
    \/ InPL /\ LoopNext

mcvars == <<rpvars, ipvars, vars, loopvars, focus>>

\* The Fairness of each component, where it runs.
MCFairness ==
    /\ \A e \in Entity :
         /\ WF_mcvars(InRP /\ RP!NewPeerCh(e))
         /\ WF_mcvars(InRP /\ RP!Sync(e))
         /\ WF_mcvars(InRP /\ RP!AddDial(e))
         /\ \A c \in Conn : SF_mcvars(InRP /\ RP!ForceSyncTicker(e, c))
    /\ \A c \in Conn : WF_mcvars(InRP /\ RP!ConnStep(c))
    /\ \A x \in End :
         /\ WF_mcvars(InIP /\ IP!Deliver(x))
         /\ WF_mcvars(InIP /\ \E e \in IdEntity : IP!IdentifyPeer(x, e))
         /\ \A id \in IdEntity \cup {"my-id", "user-id"} :
              WF_mcvars(InIP /\ IP!IdentifyPeerTimeout(x, id))
    /\ WF_mcvars(InSV /\ RunTaskDone) /\ WF_mcvars(InSV /\ RunDelPeer)
    /\ WF_mcvars(InSV /\ RunQuit) /\ WF_mcvars(InSV /\ RunSpinDown)
    /\ WF_mcvars(InSV /\ TaskStep) /\ WF_mcvars(InSV /\ quit /\ Stop)
    /\ WF_mcvars(InSV /\ listenLoop)
    /\ \A n \in Remote : WF_mcvars(InSV /\ Age(n))
    /\ \A k \in Key : WF_mcvars(InSV /\ ConnStep(k))
    /\ WF_mcvars(InPL /\ LoopStep) /\ WF_mcvars(InPL /\ ReadStep)
    /\ WF_mcvars(InPL /\ pingLoop)
    /\ \A p \in Proto : WF_mcvars(InPL /\ (ProtoStep(p) \/ WriteStep(p)))
    /\ \A s \in Sender : WF_mcvars(InPL /\ (disconnectCloses(s) \/ WriteStep(s)))

MCSpec == MCInit /\ [][MCNext]_mcvars /\ MCFairness

(* The router's maps hold a live connection once, a closed one nowhere     *)
(* (SetPeerType, UnsetPeerType).                                           *)
RouterIndexed == RP!RouterIndexed

(* Closed connections leave the lists of the entities (RemovePeer, PMSync). *)
ClosedPeersLeave == RP!ClosedPeersLeave

(* Pending identifications are cleared (FinishID, the timer of InitID).    *)
PendingClears == IP!PendingClears

(* AddPeer keeps a node connected: whatever dials failed and connections   *)
(* dropped, once they stop the node is a peer, for the loop never waits    *)
(* for an event that does not come (waitExpireTask).                       *)
StaticConnects == <>[](focus = "P2PServer" => StaticsConnected)
=============================================================================
