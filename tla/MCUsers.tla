------------------------------ MODULE MCUsers ------------------------------
(***************************************************************************)
(* Coming together and parting, each for itself: the devices of one user   *)
(* (MyNodes), two users who become friends of a third (Friends), and the   *)
(* deletion of a friendship or an account (EntityDelete).  focus says      *)
(* which.                                                                  *)
(***************************************************************************)
EXTENDS Naturals

CONSTANTS Device, First, Inviter, Joiner, Renew, MaxKeys, MaxFaults

VARIABLES dev, confs, props, mail, budget,
          clock, made, joinKeyInfos, booted, renewAt, joins, confirmJoins, friendOf, friendAt,
          requests, link, toInviter, toJoiner, left,
          scene, node, deletes, expired, sent, signed, faults,
          focus

Weight == [n \in Device |-> 2]
Budgets == {[faults |-> 1, revokes |-> 1, mail |-> 1], [faults |-> 1, revokes |-> 0, mail |-> 2]}
Bounds == {[ticks |-> 2, requests |-> 3, faults |-> 0], [ticks |-> 8, requests |-> 1, faults |-> 1],
           [ticks |-> 3, requests |-> 2, faults |-> 1]}

MN == INSTANCE MyNodes
FR == INSTANCE Friends
ED == INSTANCE EntityDelete WITH made <- deletes

mnvars == <<dev, confs, props, mail, budget>>
frvars == <<clock, made, joinKeyInfos, booted, renewAt, joins, confirmJoins, friendOf, friendAt,
            requests, link, toInviter, toJoiner, left>>
edvars == <<scene, node, deletes, expired, sent, signed, faults>>
mcvars == <<mnvars, frvars, edvars, focus>>

InMyNodes == focus = "MyNodes" /\ UNCHANGED <<frvars, edvars, focus>>
InFriends == focus = "Friends" /\ UNCHANGED <<mnvars, edvars, focus>>
InDelete == focus = "EntityDelete" /\ UNCHANGED <<mnvars, frvars, focus>>

MCInit ==
    /\ focus \in {"MyNodes", "Friends", "EntityDelete"}
    /\ MN!Init /\ FR!FInit /\ ED!DelInit
    /\ focus # "MyNodes" => budget = CHOOSE b \in Budgets : TRUE
    /\ focus # "Friends" => left = CHOOSE b \in Bounds : TRUE
    /\ focus # "EntityDelete" => scene = CHOOSE s \in ED!Scenes : TRUE

MCNext ==
    \/ InMyNodes /\ MN!Next
    \/ InFriends /\ FR!FNext
    \/ InDelete /\ ED!DelNext

\* MN!Fairness and the fairness of Friends and EntityDelete, each where it runs.
MCFairness ==
    /\ WF_mcvars(InMyNodes /\ MN!RaftCommit)
    /\ \A n \in Device :
         /\ \A t \in {"approve", "info", "ack", "sync"} : WF_mcvars(InMyNodes /\ MN!Receive(n, t))
         /\ WF_mcvars(InMyNodes /\ MN!PublishRaftEntries(n))
         /\ WF_mcvars(InMyNodes /\ MN!RaftReplicate(n))
         /\ WF_mcvars(InMyNodes /\ MN!NodeRestart(n))
         /\ \A m \in Device : WF_mcvars(InMyNodes /\ MN!initMeInfoLoopCore(n, m))
    /\ WF_mcvars(InFriends /\ FR!CreateJoinFriendKeyLoop)
    /\ \A j \in Joiner :
         /\ WF_mcvars(InFriends /\ FR!SyncJoinFriend(j))
         /\ WF_mcvars(InFriends /\ FR!Connect(j))
         /\ WF_mcvars(InFriends /\ FR!HandleCodeJoin(j))
         /\ WF_mcvars(InFriends /\ FR!HandleCodeJoinAck(j))
         /\ WF_mcvars(InFriends /\ FR!HandleInitFriendInfo(j))
         /\ WF_mcvars(InFriends /\ FR!HandleInitFriendInfoAck(j))
    /\ WF_mcvars(InDelete /\ \E p \in sent : ED!Receive(p))
    /\ \A n \in ED!Nodes :
         /\ WF_mcvars(InDelete /\ ED!RequestOpKey(n))
         /\ \A l \in ED!Nodes : WF_mcvars(InDelete /\ ED!SyncPendingOplog(n, l))

MCSpec == MCInit /\ [][MCNext]_mcvars /\ MCFairness

(* A device that published all it knows has the members and the weights    *)
(* that raft gives (PublishRaftEntries).                      *)
NodesFollowRaft == MN!NodesFollowRaft

(* A device that was approved gets alive, and the devices see each other   *)
(* alive, unless one is revoked (InitMeInfoLoop).                          *)
JoinCompletes == <>[](focus = "MyNodes" => MN!AllJoined)

(* A joiner that asks and the inviter become friends, if nothing fails and *)
(* the keys are not too old (SyncJoinFriend to HandleInitFriendInfoAck).   *)
FriendshipForms == focus = "Friends" => FR!FriendshipForms

(* The end of an entity reaches both nodes, unless one is blocked          *)
(* (HandleDeleteEntityLog, EntityTerminal).                                *)
DeleteReachesAll == <>[]ED!EndReachesAll

(* An entity that ended stays so, and never by a later log                 *)
(* (HandleDeleteEntityLog).                                                *)
EndIsFinal == ED!EndIsFinal

=============================================================================
