------------------------------ MODULE Friends ------------------------------
(***************************************************************************)
(* Making friends: a user shows a URL with a join key, others join by it,  *)
(* and the two nodes set up the friend entity between them (service/       *)
(* protocol_join*.go, protocol_to_confirm_join.go, protocol_approve_join   *)
(* .go, protocol_create_entity.go, protocol_create_join_entity.go, me/     *)
(* protocol_join_friend.go, protocol_approve_join_friend.go, friend/       *)
(* protocol_init_friend_info*.go).                                         *)
(*                                                                         *)
(* One user invites and the others join; users that invite each other at   *)
(* the same time are not part of this, and neither is a deleted friend.    *)
(* All users are alive.  A join key is its number in the order of making;  *)
(* its hash names it as well.  Time is in ticks, Renew of them a day.      *)
(***************************************************************************)
EXTENDS Naturals, SequencesExt

CONSTANTS Inviter, Joiner,  \* Inviter \notin Joiner
          Renew,            \* IntRenewJoinKeySeconds = RenewJoinFriendKeySeconds
          MaxKeys,          \* join keys ever made
          Bounds            \* bounds: ticks, requests of a joiner, faults

VARIABLES
    clock,
    made,           \* made[k]: when join key k was made
    joinKeyInfos,   \* pm.joinFriendKeyInfos of the inviter, oldest first
    booted,         \* keys made before the inviter was started last
    renewAt,        \* when CreateJoinFriendKeyLoop wakes up
    joins,          \* router.joins of the inviter: hashes of join keys
    confirmJoins,   \* router.confirmJoins: the joiners in it
    friendOf,       \* the friend entity with each joiner at the inviter ...
    friendAt,       \* ... and at the joiner
    requests,       \* requests[j][k]: pm.joinFriendRequests of the joiner
    link,           \* joiners the inviter is connected to
    toInviter, toJoiner,    \* messages under way
    left            \* ticks, requests and faults left

fvars == <<clock, made, joinKeyInfos, booted, renewAt, joins, confirmJoins, friendOf,
           friendAt, requests, link, toInviter, toJoiner, left>>
keyvars == <<clock, made, joinKeyInfos, booted, renewAt, joins>>

Key == 1 .. MaxKeys
NoRequest == [st |-> "None", ts |-> 0, challenge |-> 0, fresh |-> FALSE]
NoFriend == [st |-> "None", op |-> 0, masters |-> {}, members |-> {}]

Send(j, c, m) == c' = [c EXCEPT ![j] = IF j \in link THEN Append(@, m) ELSE @]

-----------------------------------------------------------------------------
(* Join keys.                                                              *)
AddJoinKey(S, k) == S \cup {k}
RemoveJoinKey(S, k) == S \ {k}

createJoinFriendKey(k) ==
    LET full == Len(joinKeyInfos) > 2
    IN  /\ joinKeyInfos' = Append(IF full THEN Tail(joinKeyInfos) ELSE joinKeyInfos, k)
        /\ joins' = AddJoinKey(IF full THEN RemoveJoinKey(joins, Head(joinKeyInfos)) ELSE joins, k)

CreateJoinFriendKeyLoop ==
    /\ clock = renewAt /\ Len(made) < MaxKeys
    /\ createJoinFriendKey(Len(made) + 1)
    /\ made' = Append(made, clock) /\ renewAt' = clock + Renew
    /\ UNCHANGED <<clock, booted, confirmJoins, friendOf, friendAt, requests, link, toInviter, toJoiner, left>>

Tick ==
    /\ left.ticks > 0 /\ clock < renewAt
    /\ clock' = clock + 1 /\ left' = [left EXCEPT !.ticks = @ - 1]
    /\ UNCHANGED <<made, joinKeyInfos, booted, renewAt, joins, confirmJoins, friendOf, friendAt, requests, link, toInviter, toJoiner>>

(* For the hash of a message: its join key, and what it is for.            *)
GetJoinFriendKeyFromHash(k) == k \in ToSet(joinKeyInfos)
GetJoinKeyFromHash(k) == GetJoinFriendKeyFromHash(k)
IsJoinFriendKeyHash(k) == k \in ToSet(joinKeyInfos)
GetJoinType(k) == IsJoinFriendKeyHash(k)

-----------------------------------------------------------------------------
(* Requests of a joiner.  A URL of any key ever made may be at hand; the   *)
(* time it says it expires at is not looked at.                            *)
MarshalBackendJoinURL(k) == [key |-> k, expires |-> made[k] + Renew]
ShowURL == {MarshalBackendJoinURL(k) : k \in 1 .. Len(made)}
ParseBackendJoinURL(u, challenge) ==
    [st |-> "Pending", ts |-> clock, challenge |-> challenge, fresh |-> clock <= u.expires]

JoinFriend(j) == \E u \in ShowURL :
    /\ left.requests > 0
    /\ requests[j][u.key].st = "None"
    /\ requests' = [requests EXCEPT ![j][u.key] = ParseBackendJoinURL(u, left.requests)]
    /\ left' = [left EXCEPT !.requests = @ - 1]
    /\ UNCHANGED <<keyvars, confirmJoins, friendOf, friendAt, link, toInviter, toJoiner>>

RemoveFriendRequests(j, k) ==
    /\ left.faults > 0 /\ requests[j][k].st # "None"
    /\ requests' = [requests EXCEPT ![j][k] = NoRequest]
    /\ left' = [left EXCEPT !.faults = @ - 1]
    /\ UNCHANGED <<keyvars, confirmJoins, friendOf, friendAt, link, toInviter, toJoiner>>

JoinMsg(k, challenge) == [t |-> "Join", key |-> k, challenge |-> challenge]

(* TryJoin: a node that is not connected is dialled (Connect), and the     *)
(* request stays pending.                                                  *)
TryJoin(j, r) == IF j \in link THEN [r EXCEPT !.st = "Requested"] ELSE r
processJoinFriendEvent(j, k) == TryJoin(j, requests[j][k])

PendingRequests(j) == {k \in Key : requests[j][k].st = "Pending"}

(* The event that JoinFriend posts, while the request is still there.      *)
JoinFriendLoop(j) == \E k \in PendingRequests(j) :
    /\ j \in link
    /\ requests' = [requests EXCEPT ![j][k] = processJoinFriendEvent(j, k)]
    /\ Send(j, toInviter, JoinMsg(k, requests[j][k].challenge))
    /\ UNCHANGED <<keyvars, confirmJoins, friendOf, friendAt, link, toJoiner, left>>

(* Requests of more than a day are removed, pending ones tried again, in   *)
(* the random order of a Go map.                                           *)
Expired(r) == r.st # "None" /\ r.ts + Renew < clock
SyncJoinFriend(j) ==
    LET old == {k \in Key : Expired(requests[j][k])}
        retry == IF j \in link THEN PendingRequests(j) \ old ELSE {}
    IN  /\ old \cup retry # {}
        /\ requests' = [requests EXCEPT ![j] = [k \in Key |->
               IF k \in old THEN NoRequest ELSE IF k \in retry THEN processJoinFriendEvent(j, k) ELSE @[k]]]
        /\ \E s \in SetToSeqs(retry) :
               toInviter' = [toInviter EXCEPT ![j] = @ \o [i \in DOMAIN s |-> JoinMsg(s[i], requests[j][s[i]].challenge)]]
        /\ UNCHANGED <<keyvars, confirmJoins, friendOf, friendAt, link, toJoiner, left>>

-----------------------------------------------------------------------------
(* The inviter answers the challenge, which shows that the key is its own, *)
(* and upon the request itself approves at once (IsGoodID is always true). *)
JoinAckChallenge(k, challenge) == [t |-> "AckChallenge", key |-> k, challenge |-> challenge]

HandleJoin(j, m) ==
    /\ Send(j, toJoiner, JoinAckChallenge(m.key, m.challenge))
    /\ UNCHANGED <<confirmJoins, friendOf>>

(* AddPerson: creates the person; UpdatePerson refuses one that is alive.  *)
AddPerson(S, x) == S \cup {x}
AlreadyExists(S, x) == x \in S

NewFriend(j) == [st |-> "Init", op |-> friendOf[j].op, masters |-> friendOf[j].masters, members |-> friendOf[j].members]

CanCreateEntity(j) ==
    /\ ~AlreadyExists(friendOf[j].masters, Inviter)
    /\ ~AlreadyExists(friendOf[j].members, Inviter)
    /\ friendOf[j].st = "None"      \* RegisterEntity
CanApprove(j, k) == IsJoinFriendKeyHash(k) /\ CanCreateEntity(j)
CreateEntity(f) ==
    [f EXCEPT !.st = "Alive", !.op = @ + 1, !.masters = AddPerson(@, Inviter), !.members = AddPerson(@, Inviter)]
CreateFriend(j) == [CreateEntity(NewFriend(j)) EXCEPT !.st = "ToBeSynced"]

(* friend.ApproveJoinFriend: the joiner is made a member.                  *)
ApproveFriendData(j, f) == [f EXCEPT !.members = AddPerson(@, j)]
ApproveJoinFriend(j) == ApproveFriendData(j, CreateFriend(j))

ApproveJoinMsg(k, f) == [t |-> "ApproveJoin", key |-> k, friend |-> f]

getConfirmKey(j) == j
ToConfirmJoin(j) == confirmJoins \cup {getConfirmKey(j)}

ApproveJoin(j, k) ==
    IF ~CanApprove(j, k) THEN confirmJoins' = ToConfirmJoin(j) /\ UNCHANGED <<friendOf, toJoiner>>
    ELSE /\ confirmJoins' = confirmJoins
         /\ friendOf' = [friendOf EXCEPT ![j] = ApproveJoinFriend(j)]
         /\ Send(j, toJoiner, ApproveJoinMsg(k, ApproveJoinFriend(j)))

HandleJoinEntity(j, m) ==
    IF GetJoinType(m.key) /\ getConfirmKey(j) \notin confirmJoins THEN ApproveJoin(j, m.key)
    ELSE UNCHANGED <<confirmJoins, friendOf, toJoiner>>

HandleCodeJoin(j) ==
    /\ toInviter[j] # <<>> /\ Head(toInviter[j]).t \in {"Join", "JoinEntity"}
    /\ toInviter' = [toInviter EXCEPT ![j] = Tail(@)]
    /\ \E m \in {Head(toInviter[j])} :
         IF m.key \in joins /\ GetJoinKeyFromHash(m.key)
         THEN IF m.t = "Join" THEN HandleJoin(j, m) ELSE HandleJoinEntity(j, m)
         ELSE UNCHANGED <<confirmJoins, friendOf, toJoiner>>
    /\ UNCHANGED <<keyvars, friendAt, requests, link, left>>

-----------------------------------------------------------------------------
(* The joiner: a challenge that is not the one of the request, or answered *)
(* twice, is refused.                                                      *)
GetJoinRequest(j, k) == requests[j][k]
JoinEntityMsg(k) == [t |-> "JoinEntity", key |-> k]

HandleJoinAckChallenge(j, m) ==
    LET r == GetJoinRequest(j, m.key)
    IN  IF r.st = "Requested" /\ r.challenge = m.challenge
        THEN /\ requests' = [requests EXCEPT ![j][m.key].st = "WaitAccepted"]     \* JoinEntity
             /\ Send(j, toInviter, JoinEntityMsg(m.key)) /\ UNCHANGED friendAt
        ELSE UNCHANGED <<requests, toInviter, friendAt>>

InitFriendInfo(j, op) == [t |-> "InitFriendInfo", op |-> op]

(* The friend entity as it was approved, with the logs and the op key that *)
(* came along; the request is done, and the profile is sent, once.         *)
infoNotSent(j, m) ==
    /\ friendAt' = [friendAt EXCEPT ![j] = [m.friend EXCEPT !.st = "Init"]]
    /\ requests' = [requests EXCEPT ![j][m.key] = NoRequest]
    /\ UNCHANGED toInviter
HandleApproveJoinFriend(j, m) ==
    /\ friendAt' = [friendAt EXCEPT ![j] = [m.friend EXCEPT !.st = "Init"]]
    /\ requests' = [requests EXCEPT ![j][m.key] = NoRequest]
    /\ Send(j, toInviter, InitFriendInfo(j, m.friend.op))

HandleApproveJoin(j, m) ==
    IF GetJoinRequest(j, m.key).st = "WaitAccepted" THEN HandleApproveJoinFriend(j, m)
    ELSE UNCHANGED <<requests, toInviter, friendAt>>

HandleCodeJoinAck(j) ==
    /\ toJoiner[j] # <<>> /\ Head(toJoiner[j]).t \in {"AckChallenge", "ApproveJoin"}
    /\ toJoiner' = [toJoiner EXCEPT ![j] = Tail(@)]
    /\ \E m \in {Head(toJoiner[j])} :
         IF m.t = "AckChallenge" THEN HandleJoinAckChallenge(j, m) ELSE HandleApproveJoin(j, m)
    /\ UNCHANGED <<keyvars, confirmJoins, friendOf, link, left>>

-----------------------------------------------------------------------------
(* Profiles are exchanged, encrypted with the op key of the entity.  The   *)
(* data of the answer are put together before the friend is made a master. *)
InitFriendInfoAckCore(j) == [t |-> "InitFriendInfoAck", op |-> friendOf[j].op,
                             masters |-> friendOf[j].masters, members |-> {j, Inviter}]
InitFriendInfoAck(j) ==
    /\ friendOf' = [friendOf EXCEPT ![j].st = "Alive", ![j].masters = AddPerson(@, j)]
    /\ Send(j, toJoiner, InitFriendInfoAckCore(j))

HandleInitFriendInfo(j) ==
    /\ toInviter[j] # <<>> /\ Head(toInviter[j]).t = "InitFriendInfo"
    /\ toInviter' = [toInviter EXCEPT ![j] = Tail(@)]
    /\ IF Head(toInviter[j]).op = friendOf[j].op THEN InitFriendInfoAck(j) ELSE UNCHANGED <<friendOf, toJoiner>>
    /\ UNCHANGED <<keyvars, confirmJoins, friendAt, requests, link, left>>

(* CreateJoinEntity: the member logs are cleaned and taken anew.           *)
CreateJoinEntity(f, m) ==
    [f EXCEPT !.st = "Alive", !.op = m.op, !.masters = @ \cup m.masters, !.members = m.members]
HandleInitFriendInfoAckCore(j, m) == friendAt' = [friendAt EXCEPT ![j] = CreateJoinEntity(@, m)]

HandleInitFriendInfoAck(j) ==
    /\ toJoiner[j] # <<>> /\ Head(toJoiner[j]).t = "InitFriendInfoAck"
    /\ toJoiner' = [toJoiner EXCEPT ![j] = Tail(@)]
    /\ IF Head(toJoiner[j]).op = friendAt[j].op THEN HandleInitFriendInfoAckCore(j, Head(toJoiner[j])) ELSE UNCHANGED friendAt
    /\ UNCHANGED <<keyvars, confirmJoins, friendOf, requests, link, toInviter, left>>

-----------------------------------------------------------------------------
(* Connections, and restarts: join keys, requests and what waits for       *)
(* confirmation are in memory only, the friends are read back.             *)
Connect(j) ==
    /\ j \notin link /\ PendingRequests(j) # {}
    /\ link' = link \cup {j}
    /\ UNCHANGED <<keyvars, confirmJoins, friendOf, friendAt, requests, toInviter, toJoiner, left>>

Cut(J) ==
    /\ left.faults > 0 /\ left' = [left EXCEPT !.faults = @ - 1]
    /\ link' = link \ J
    /\ toInviter' = [j \in Joiner |-> IF j \in J THEN <<>> ELSE toInviter[j]]
    /\ toJoiner' = [j \in Joiner |-> IF j \in J THEN <<>> ELSE toJoiner[j]]

Disconnect(j) ==
    /\ j \in link /\ Cut({j})
    /\ UNCHANGED <<keyvars, confirmJoins, friendOf, friendAt, requests>>
RestartJoiner(j) ==
    /\ Cut({j})
    /\ requests' = [requests EXCEPT ![j] = [k \in Key |-> NoRequest]]
    /\ UNCHANGED <<keyvars, confirmJoins, friendOf, friendAt>>
RestartInviter ==
    /\ Len(made) < MaxKeys
    /\ Cut(Joiner)
    /\ joinKeyInfos' = <<>> /\ joins' = {} /\ confirmJoins' = {}
    /\ booted' = Len(made) /\ renewAt' = clock
    /\ UNCHANGED <<clock, made, friendOf, friendAt, requests>>

-----------------------------------------------------------------------------
FInit ==
    /\ clock = 0 /\ made = <<>> /\ joinKeyInfos = <<>> /\ booted = 0 /\ renewAt = 0
    /\ joins = {} /\ confirmJoins = {} /\ link = {}
    /\ friendOf = [j \in Joiner |-> NoFriend] /\ friendAt = [j \in Joiner |-> NoFriend]
    /\ requests = [j \in Joiner |-> [k \in Key |-> NoRequest]]
    /\ toInviter = [j \in Joiner |-> <<>>] /\ toJoiner = [j \in Joiner |-> <<>>]
    /\ left \in Bounds

FNext ==
    \/ CreateJoinFriendKeyLoop \/ Tick \/ RestartInviter
    \/ \E j \in Joiner :
         \/ JoinFriend(j) \/ JoinFriendLoop(j) \/ SyncJoinFriend(j) \/ \E k \in Key : RemoveFriendRequests(j, k)
         \/ HandleCodeJoin(j) \/ HandleCodeJoinAck(j) \/ HandleInitFriendInfo(j) \/ HandleInitFriendInfoAck(j)
         \/ Connect(j) \/ Disconnect(j) \/ RestartJoiner(j)

(* The loops and the handlers go on, and a node that is dialled answers.   *)
FSpec ==
    /\ FInit /\ [][FNext]_fvars /\ WF_fvars(CreateJoinFriendKeyLoop)
    /\ \A j \in Joiner :
         /\ WF_fvars(SyncJoinFriend(j)) /\ WF_fvars(Connect(j)) /\ WF_fvars(HandleCodeJoin(j))
         /\ WF_fvars(HandleCodeJoinAck(j)) /\ WF_fvars(HandleInitFriendInfo(j)) /\ WF_fvars(HandleInitFriendInfoAck(j))

-----------------------------------------------------------------------------

(* While no connection breaks, no node is restarted and no more than a day *)
(* passes, a joiner that asks, by one URL or by several, and the inviter   *)
(* become friends (SyncJoinFriend to HandleInitFriendInfoAck).             *)
FriendshipForms ==
    (left.ticks <= Renew /\ left.faults = 0) =>
        <>[](\A j \in Joiner : (friendOf[j].st # "None" \/ \E k \in Key : requests[j][k].st # "None")
                => friendOf[j].st = "Alive" /\ friendAt[j].st = "Alive")

=============================================================================
