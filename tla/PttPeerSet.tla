----------------------------- MODULE PttPeerSet -----------------------------
(***************************************************************************)
(* The peer set of one entity (service/ptt_peer_set.go).  A node is         *)
(* indexed twice: peerTypes gives its type, and one map per type gives the  *)
(* connection.  Four lists are rebuilt from the maps when the map they      *)
(* mirror changes; the sync loop and the senders only read the lists.       *)
(* PeerType is an ordered enumeration in service/types.go.                  *)
(***************************************************************************)
EXTENDS Integers, FiniteSets

CONSTANTS Conn,      \* connections (*PttPeer), one per p2p session
          Node,      \* discover.NodeID
          User,      \* user ids
          NodeOf,    \* the node at the other end of a connection
          UserOf,    \* the user who owns a node
          None

\* service/types.go, PeerType
PeerTypeErr == 0
PeerTypeRandom == 2
PeerTypePending == 3
PeerTypeMember == 4
PeerTypeImportant == 5
PeerTypeMe == 7

SetTypes == {PeerTypeMe, PeerTypeImportant, PeerTypeMember, PeerTypePending}

NewPttPeerSet ==
  [peerTypes |-> [n \in Node |-> None],
   peers     |-> [t \in SetTypes |-> [n \in Node |-> None]],
   lists     |-> [t \in SetTypes |-> {}]]

\* Rebuild the lists of the types in ts from their maps.
PeersToPeerList(m) == {m[n] : n \in {n \in Node : m[n] # None}}

Rebuilt(s, ts) ==
  [s EXCEPT !.lists = [t \in SetTypes |->
     IF t \in ts THEN PeersToPeerList(s.peers[t]) ELSE s.lists[t]]]

\* Peer and GetPeerWithPeerType
GetPeerWithPeerType(s, n, t) == IF t \in SetTypes THEN s.peers[t][n] ELSE None

Peer(s, n) == GetPeerWithPeerType(s, n, s.peerTypes[n])

PeerList(s) ==
  s.lists[PeerTypeMe] \cup s.lists[PeerTypeImportant] \cup s.lists[PeerTypeMember]

IsPendingPeer(s, c) == s.peers[PeerTypePending][NodeOf[c]] # None

\* Register refuses a second connection of a registered node and otherwise
\* moves the connection from the map of its old type to that of the new.
RegisterOK(s, c) == Peer(s, NodeOf[c]) \in {None, c}

Register(s, c, t) ==
  LET n    == NodeOf[c]
      orig == s.peerTypes[n]
      cleared == [u \in SetTypes |-> IF u = orig
                                     THEN [s.peers[u] EXCEPT ![n] = None]
                                     ELSE s.peers[u]]
  IN  IF ~RegisterOK(s, c) \/ orig = t
      THEN s
      ELSE Rebuilt([s EXCEPT !.peerTypes[n] = t,
                             !.peers = [cleared EXCEPT ![t][n] = c]],
                   {orig, t})

\* Unregister removes only the very connection that is registered.
Unregister(s, c) ==
  LET n    == NodeOf[c]
      orig == s.peerTypes[n]
  IN  IF orig = None \/ Peer(s, n) # c
      THEN s
      ELSE Rebuilt([s EXCEPT !.peerTypes[n] = None, !.peers[orig][n] = None],
                   {orig})

\* The candidates of UnregisterPeerByOtherUserID: the important list is
\* searched first, then the member list, then the pending list.
OfUser(l, u) == {c \in l : UserOf[NodeOf[c]] = u}

PeersByOtherUserID(s, u) ==
  LET imp == OfUser(s.lists[PeerTypeImportant], u)
      mem == OfUser(s.lists[PeerTypeMember], u)
  IN  IF imp # {} THEN imp
      ELSE IF mem # {} THEN mem
      ELSE OfUser(s.lists[PeerTypePending], u)

=============================================================================
