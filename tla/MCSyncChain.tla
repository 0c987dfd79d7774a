----------------------------- MODULE MCSyncChain -----------------------------
(***************************************************************************)
(* Every operation alone, and the pairs that meet in one store, in one     *)
(* chain or in two families.                                               *)
(***************************************************************************)
EXTENDS SyncChain

Pairs ==
    {{"CreateUserName", "UpdateUserName"}, {"CreateUserImg", "UpdateUserImg"},
     {"CreateNameCard", "UpdateNameCard"}, {"CreateUserName", "CreateUserImg"},
     {"AddUserNode", "CreateNameCard"}, {"AddMaster", "AddMember"}, {"AddMember", "CreateUserImg"},
     {"CreateOpKey", "AddMember"}, {"CreateMessage", "AddMember"},
     {"CreateFriend", "CreateOpKey"}}

MCPlans == [s \in Service |->
    {{o} : o \in DOMAIN Makers[s]} \cup {p \in Pairs : p \subseteq DOMAIN Makers[s]}]
=============================================================================
