---------------------------- MODULE OplogFamilies ----------------------------
(***************************************************************************)
(* Which handler, log store, merkle tree, object store and reply code each *)
(* service gives to the generic handlers of package service: the tables    *)
(* that the account, friend, me and service packages spell out, once per   *)
(* family of oplogs (Master, Member, OpKey, Me, User, Friend) and once per *)
(* kind of object.  A message code is a pair <<family or object, kind>>.   *)
(* SyncChain runs the generic handlers over these tables.                  *)
(***************************************************************************)
EXTENDS TLC

Service == {"account", "friend", "me"}

-----------------------------------------------------------------------------
(* Wiring of one family f: what each code of the family is handled by.     *)
(* `log` is the oplog store (SetXDB), `merkle` the tree.                   *)
Call(do, f) == [do |-> do, log |-> f, merkle |-> f]

AddHandlers(f) ==
    [c \in {<<f, "Add">>, <<f, "Adds">>} |-> Call("HandleOplogs", f)]
    @@ [c \in {<<f, "AddPending">>, <<f, "AddPendings">>} |-> Call("HandlePendingOplogs", f)]

PendingHandlers(f) ==
    <<f, "Pending">> :> (Call("HandleSyncPendingOplog", f) @@ [ack |-> <<f, "PendingAck">>])
    @@ <<f, "PendingAck">> :> Call("HandlePendingOplogs", f)

(* Handled, but sent by nobody.                                            *)
ForceHandlers(f) ==
    <<f, "Invalid">> :> (Call("HandleSyncOplogInvalid", f) @@ [ack |-> <<f, "Force">>])
    @@ <<f, "Force">> :> (Call("HandleForceSyncOplog", f) @@ [ack |-> <<f, "ForceAck">>])
    @@ <<f, "ForceAck">> :> (Call("HandleForceSyncOplogAck", f) @@ [ack |-> <<f, "NewOplogs">>])

SyncHandlers(f) ==
    <<f, "Sync">> :> (Call("HandleSyncOplog", f)
                        @@ [ack |-> <<f, "SyncAck">>, force |-> <<f, "ByMerkle">>,
                            forceAck |-> <<f, "ByMerkleAck">>])
    @@ <<f, "ByMerkle">> :> (Call("HandleForceSyncOplogByMerkle", f) @@ [ack |-> <<f, "ByOplogAck">>])
    @@ <<f, "ByMerkleAck">> :> (Call("HandleForceSyncOplogByMerkleAck", f) @@ [ack |-> <<f, "ByMerkle">>])
    @@ <<f, "ByOplogAck">> :> Call("HandleOplogs", f)
    @@ <<f, "SyncAck">> :> (Call("HandleSyncOplogAck", f) @@ [ack |-> <<f, "NewOplogs">>])
    @@ <<f, "NewOplogs">> :> (Call("HandleSyncOplogNewOplogs", f) @@ [ack |-> <<f, "NewOplogsAck">>])
    @@ <<f, "NewOplogsAck">> :> Call("HandleSyncOplogNewOplogsAck", f)
    @@ ForceHandlers(f)

MemberHandlers == SyncHandlers("Member")
MemberAddHandlers == AddHandlers("Member") @@ PendingHandlers("Member")
MasterHandlers == SyncHandlers("Master")
MasterAddHandlers == AddHandlers("Master") @@ PendingHandlers("Master")
UserHandlers == SyncHandlers("User")
UserAddHandlers == AddHandlers("User") @@ PendingHandlers("User")
FriendHandlers == SyncHandlers("Friend")
FriendAddHandlers == AddHandlers("Friend") @@ PendingHandlers("Friend")
MeHandlers == SyncHandlers("Me")
MeAddHandlers == AddHandlers("Me") @@ PendingHandlers("Me")

HandleSyncOpKeyOplog ==
    <<"OpKey", "Sync">> :> [do |-> "HandleSyncOpKeyOplog", log |-> "OpKey", merkle |-> "nil",
                            ack |-> <<"OpKey", "SyncAck">>]
    @@ <<"OpKey", "SyncAck">> :> [do |-> "HandleSyncOpKeyOplogAck", log |-> "OpKey", merkle |-> "nil"]

OpKeyAddHandlers ==
    LET table == AddHandlers("OpKey") @@ PendingHandlers("OpKey")
    IN  [c \in DOMAIN table |-> [table[c] EXCEPT !.merkle = "nil"]]

(* BroadcastOplog and BroadcastOplogs: a valid log is added, one without   *)
(* MasterLogID is added as pending.                                        *)
Cast(f) == [valid |-> <<f, "Add">>, pending |-> <<f, "AddPending">>]
Casts(f) == [valid |-> <<f, "Adds">>, pending |-> <<f, "AddPendings">>]

broadcastMasterOplogsCore == Casts("Master")
broadcastMemberOplogsCore == Casts("Member")
broadcastOpKeyOplogsCore == Casts("OpKey")
broadcastMeOplogsCore == Casts("Me")
broadcastUserOplogsCore == Casts("User")
broadcastFriendOplogsCore == Casts("Friend")

-----------------------------------------------------------------------------
(* Operations: what CreateObject, UpdateObject and DeleteObject are called *)
(* with, and what the handlers of the operation's logs are.                *)
Make(op, f, objDB) == [op |-> op, log |-> f, merkle |-> f, cast |-> Cast(f), objDB |-> objDB]
LogHandler(kind, objDB, info) == [kind |-> kind, objDB |-> objDB, info |-> info]

(* The handlers of the content of an object.                               *)
ServeObject(kind, k, objDB) ==
    <<k, kind>> :> [do |-> "HandleSyncObject", kind |-> kind, objDB |-> objDB, ack |-> <<k, kind, "Ack">>]

AckObject(kind, k, f, objDB) ==
    <<k, kind, "Ack">> :>
        [do |-> "HandleSyncObjectAck", objDB |-> objDB, log |-> f, merkle |-> f, cast |-> Cast(f)]

\* account: user name, user image and name card, one of each per user
UserNameDB == ".umdb"
UserImgDB == ".uidb"
NameCardDB == ".ncdb"

CreateUserName == Make("CreateUserName", "User", UserNameDB)
CreateUserImg == Make("CreateUserImg", "User", UserImgDB)
CreateNameCard == Make("CreateNameCard", "User", NameCardDB)
UpdateUserName == Make("UpdateUserName", "User", UserNameDB)
UpdateUserImg == Make("UpdateUserImg", "User", UserImgDB)
UpdateNameCard == Make("UpdateNameCard", "User", NameCardDB)

handleCreateUserNameLogs == LogHandler("Create", UserNameDB, "CreateUserNameInfo")
handleCreateUserImgLogs == LogHandler("Create", UserImgDB, "CreateUserImgInfo")
handleCreateNameCardLogs == LogHandler("Create", NameCardDB, "CreateNameCardInfo")
handleUpdateUserNameLogs == LogHandler("Update", UserNameDB, "UserNameInfo")
handleUpdateUserImgLogs == LogHandler("Update", UserImgDB, "UserImgInfo")
handleUpdateNameCardLogs == LogHandler("Update", NameCardDB, "NameCardInfo")

HandleSyncUserName == ServeObject("Create", "UserName", UserNameDB) @@ ServeObject("Update", "UserName", UserNameDB)
HandleSyncUserImg == ServeObject("Create", "UserImg", UserImgDB) @@ ServeObject("Update", "UserImg", UserImgDB)
HandleSyncNameCard == ServeObject("Create", "NameCard", NameCardDB) @@ ServeObject("Update", "NameCard", NameCardDB)

HandleSyncCreateUserNameAck == AckObject("Create", "UserName", "User", UserNameDB)
HandleSyncCreateUserImgAck == AckObject("Create", "UserImg", "User", UserImgDB)
HandleSyncCreateNameCardAck == AckObject("Create", "NameCard", "User", NameCardDB)
HandleSyncUpdateUserNameAck == AckObject("Update", "UserName", "User", UserNameDB)
HandleSyncUpdateUserImgAck == AckObject("Update", "UserImg", "User", UserImgDB)
ackInUserNames == AckObject("Update", "NameCard", "User", UserNameDB)
HandleSyncUpdateNameCardAck == AckObject("Update", "NameCard", "User", NameCardDB)

\* account: the nodes of a user.  Their content is in the log.
UserNodeDB == ".undb"
AddUserNode == Make("AddUserNode", "User", UserNodeDB)
handleAddUserNodeLogs == LogHandler("Create", UserNodeDB, "CreateUserNodeInfo")
RemoveUserNode == Make("RemoveUserNode", "User", UserNodeDB)
handleRemoveUserNodeLogs == LogHandler("Delete", UserNodeDB, "UserNodeInfo")

\* friend: messages
MessageDB == ".mgdb"
CreateMessage == Make("CreateMessage", "Friend", MessageDB)
handleCreateMessageLogs == LogHandler("Create", MessageDB, "CreateMessageInfo")
HandleSyncCreateMessage == ServeObject("Create", "Message", MessageDB)
HandleSyncCreateMessageAck == AckObject("Create", "Message", "Friend", MessageDB)

\* service: operation keys
OpKeyObjDB == ".okdb"
CreateOpKey == [Make("CreateOpKey", "OpKey", OpKeyObjDB) EXCEPT !.merkle = "nil"]
handleCreateOpKeyLogs == LogHandler("Create", OpKeyObjDB, "CreateOpKeyInfo")
RevokeOpKey == [Make("RevokeOpKey", "OpKey", OpKeyObjDB) EXCEPT !.merkle = "nil"]
handleRevokeOpKeyLogs == LogHandler("Delete", OpKeyObjDB, "DeleteOpKeyInfo")
HandleSyncCreateOpKey == ServeObject("Create", "OpKey", OpKeyObjDB)
HandleSyncCreateOpKeyAck ==
    LET table == AckObject("Create", "OpKey", "OpKey", OpKeyObjDB)
    IN  [c \in DOMAIN table |-> [table[c] EXCEPT !.merkle = "nil"]]

\* service: persons.  Their content is in the log.
MasterDB == ".MAdb"
MemberDB == ".mbdb"
AddMaster == Make("AddMaster", "Master", MasterDB)
handleAddMasterLogs == LogHandler("Create", MasterDB, "CreateMasterInfo")
AddMember == Make("AddMember", "Member", MemberDB)
handleAddMemberLogs == LogHandler("Create", MemberDB, "CreateMemberInfo")
DeleteMember == Make("DeleteMember", "Member", MemberDB)
handleDeleteMemberLogs == LogHandler("Delete", MemberDB, "DeleteMemberInfo")

\* me: a log with which my devices learn of a new friend
FriendDB == ".frdb"
CreateEntityOplog == Make("CreateFriend", "Me", FriendDB)
CreateJoinEntityOplog == Make("JoinFriend", "Me", FriendDB)
handleFriendLog == LogHandler("Create", FriendDB, "FriendInfo")
HandleInternalSyncFriend ==
    <<"Me", "InternalSyncFriend">> :> [do |-> "HandleSyncObject", kind |-> "Create", objDB |-> FriendDB,
                                       ack |-> <<"Me", "InternalSyncFriendAck">>]
    @@ <<"Me", "InternalSyncFriendAck">> :>
          [do |-> "HandleSyncObjectAck", objDB |-> FriendDB, log |-> "Me", merkle |-> "Me", cast |-> Cast("Me")]

Makers == [svc \in Service |->
    (IF svc = "me" THEN <<>> ELSE
        [AddMaster |-> AddMaster, AddMember |-> AddMember, DeleteMember |-> DeleteMember])
    @@ [CreateOpKey |-> CreateOpKey, RevokeOpKey |-> RevokeOpKey]
    @@ CASE svc = "account" ->
              [AddUserNode |-> AddUserNode, RemoveUserNode |-> RemoveUserNode,
               CreateUserName |-> CreateUserName, UpdateUserName |-> UpdateUserName,
               CreateUserImg |-> CreateUserImg, UpdateUserImg |-> UpdateUserImg,
               CreateNameCard |-> CreateNameCard, UpdateNameCard |-> UpdateNameCard]
         [] svc = "friend" -> [CreateMessage |-> CreateMessage]
         [] svc = "me" -> [CreateFriend |-> CreateEntityOplog, JoinFriend |-> CreateJoinEntityOplog]]

-----------------------------------------------------------------------------
(* The switches over the operation of a log.                               *)
processMasterLog == [AddMaster |-> handleAddMasterLogs]
processMemberLog == [AddMember |-> handleAddMemberLogs, DeleteMember |-> handleDeleteMemberLogs]
processOpKeyLog == [CreateOpKey |-> handleCreateOpKeyLogs, RevokeOpKey |-> handleRevokeOpKeyLogs]
processMeLog == [CreateFriend |-> handleFriendLog, JoinFriend |-> handleFriendLog]
processUserLog ==
    [AddUserNode |-> handleAddUserNodeLogs, RemoveUserNode |-> handleRemoveUserNodeLogs,
     CreateUserName |-> handleCreateUserNameLogs, UpdateUserName |-> handleUpdateUserNameLogs,
     CreateUserImg |-> handleCreateUserImgLogs, UpdateUserImg |-> handleUpdateUserImgLogs,
     CreateNameCard |-> handleCreateNameCardLogs, UpdateNameCard |-> handleUpdateNameCardLogs]
processFriendLog == [CreateMessage |-> handleCreateMessageLogs]

processLog == [Master |-> processMasterLog, Member |-> processMemberLog, OpKey |-> processOpKeyLog,
               Me |-> processMeLog, User |-> processUserLog, Friend |-> processFriendLog]

(* Pending logs: Me has no case for the logs about friends.                *)
processPendingUserLog == processUserLog
processPendingFriendLog == processFriendLog
processPendingOpKeyLog == processOpKeyLog

processPendingLog == [OpKey |-> processPendingOpKeyLog, User |-> processPendingUserLog,
                      Friend |-> processPendingFriendLog, Me |-> <<>>, Master |-> processMasterLog,
                      Member |-> processMemberLog]

(* What is asked for, by the map of the ProcessInfo that the log went to;  *)
(* a log whose info has no entry has its content with it.                  *)
postprocessOpKeyOplogs == [CreateOpKeyInfo |-> <<"OpKey", "Create">>]
postprocessMeOplogs == [FriendInfo |-> <<"Me", "InternalSyncFriend">>]
postprocessFriendOplogs == [CreateMessageInfo |-> <<"Message", "Create">>]
postprocessUserOplogs ==
    [CreateUserNameInfo |-> <<"UserName", "Create">>, UserNameInfo |-> <<"UserName", "Update">>,
     CreateUserImgInfo |-> <<"UserImg", "Create">>, UserImgInfo |-> <<"UserImg", "Update">>,
     CreateNameCardInfo |-> <<"NameCard", "Create">>, NameCardInfo |-> <<"NameCard", "Update">>]

postprocessOplogs ==
    postprocessOpKeyOplogs @@ postprocessMeOplogs @@ postprocessFriendOplogs @@ postprocessUserOplogs

(* SetNewestXOplog and HandleFailedXOplog: the operations with a case.     *)
SetNewestOpKeyOplog == {"CreateOpKey", "RevokeOpKey"}
SetNewestUserOplog == DOMAIN processUserLog
SetNewestFriendOplog == {"CreateMessage"}
SetNewestMeOplog == {"CreateFriend", "JoinFriend"}
SetNewestMemberOplog == {"AddMember", "DeleteMember"}
SetNewestMasterOplog == {"AddMaster"}
SetNewest == SetNewestOpKeyOplog \cup SetNewestUserOplog \cup SetNewestFriendOplog \cup SetNewestMeOplog
             \cup SetNewestMemberOplog \cup SetNewestMasterOplog

HandleFailedOpKeyOplog == {"CreateOpKey", "RevokeOpKey"}
failedForgetsUpdates == {"AddUserNode", "RemoveUserNode", "CreateUserName", "CreateUserImg", "CreateNameCard"}
HandleFailedUserOplog == DOMAIN processUserLog
HandleFailedFriendOplog == {"CreateMessage"}
HandleFailed == HandleFailedOpKeyOplog \cup HandleFailedUserOplog \cup HandleFailedFriendOplog

-----------------------------------------------------------------------------
(* The chain: Sync starts with the first family, and what is done after a  *)
(* family is in sync starts the next one.                                  *)
Sync(svc) == IF svc = "me" THEN "Me" ELSE "Master"

memberSyncEnds(svc) == {}
postsyncMemberOplog(svc) ==
    CASE svc = "account" -> {"User"}
      [] svc = "friend" -> {"Friend"}
      [] svc = "me" -> {}

postsyncMasterOplogs(svc) == {"Member"}

(* The families to sync next, and the one whose pending logs are sent.     *)
postsync(svc, f) ==
    CASE f = "Master" -> postsyncMasterOplogs(svc)
      [] f = "Member" -> postsyncMemberOplog(svc)
      [] OTHER -> {}

-----------------------------------------------------------------------------
(* HandleMessage: base codes first, then those of the service.             *)
PMHandleMessageWrapper ==
    MasterHandlers @@ MasterAddHandlers @@ MemberHandlers @@ MemberAddHandlers
    @@ HandleSyncOpKeyOplog @@ OpKeyAddHandlers @@ HandleSyncCreateOpKey @@ HandleSyncCreateOpKeyAck

HandleMessageMe == MeHandlers @@ MeAddHandlers @@ HandleInternalSyncFriend

HandleMessageAccount ==
    UserHandlers @@ UserAddHandlers
    @@ HandleSyncUserName @@ HandleSyncCreateUserNameAck @@ HandleSyncUpdateUserNameAck
    @@ HandleSyncUserImg @@ HandleSyncCreateUserImgAck @@ HandleSyncUpdateUserImgAck
    @@ HandleSyncNameCard @@ HandleSyncCreateNameCardAck @@ HandleSyncUpdateNameCardAck

HandleMessageFriend ==
    FriendHandlers @@ FriendAddHandlers @@ HandleSyncCreateMessage @@ HandleSyncCreateMessageAck

Dispatch == [svc \in Service |->
    PMHandleMessageWrapper
    @@ CASE svc = "account" -> HandleMessageAccount
         [] svc = "friend" -> HandleMessageFriend
         [] svc = "me" -> HandleMessageMe]
=============================================================================
