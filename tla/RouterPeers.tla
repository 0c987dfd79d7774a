----------------------------- MODULE RouterPeers -----------------------------
(***************************************************************************)
(* How a node files its connections (service/router_utils_peer.go,          *)
(* router_utils_entity.go, protocol_manager_utils_peer.go).                 *)
(*                                                                         *)
(* The router keeps one map per peer type and a map from users to nodes;    *)
(* every entity keeps a PttPeerSet.  Three kinds of threads change them:    *)
(*   - the goroutine of a connection c (HandlePeer): admission,             *)
(*     identification, the messages of the peer and the final RemovePeer;   *)
(*   - a goroutine that changes who is master or member of an entity        *)
(*     (variable api);                                                      *)
(*   - the sync loop of every started entity (PMSync, variable loop).       *)
(* A step is what happens between two lock operations.  peerLock is held    *)
(* over several steps only by the api goroutine, as a reader (api.pc =      *)
(* "reg"); entityLock by connections that walk over the entities.           *)
(* PM.RegisterPeer hands a connection to the sync loop over an unbuffered   *)
(* channel before it enters the set: a pending hand-over is a record of     *)
(* send, stage "wait" until the loop has received it, then "got".           *)
(***************************************************************************)
EXTENDS PttPeerSet, FiniteSetsExt

CONSTANTS Entity,
          MyDevices,    \* the nodes of the local user
          MaxOf,        \* config.MaxRandomPeers ... per peer type
          MaxPeers,     \* config.MaxPeers
          MaxChanges    \* bound on changes of masters and members

VARIABLES
  st,        \* per connection: new, up, down (closed by p2p), unset, gone
  toClose,   \* peer.IsToClose
  known,     \* peer.UserID # nil
  isReg,     \* peer.IsRegistered
  task,      \* what the connection's goroutine is in the middle of
  rt,        \* the router: maps, userPeerMap and peer.PeerType
  entities,  \* router.entities
  started,   \* pm.isStart
  persons,   \* per entity and user: none, member or master
  ps,        \* pm.peers
  send,      \* hand-overs in progress
  api, loop, changes

cvars == <<st, toClose, known, isReg, task>>
vars == <<st, toClose, known, isReg, task, rt, entities, started, persons,
          ps, send, api, loop, changes>>

RouterTypes == SetTypes \cup {PeerTypeRandom}
Idle == [pc |-> "idle"]

Init ==
  /\ st = [c \in Conn |-> "new"]
  /\ toClose = [c \in Conn |-> FALSE]
  /\ known = [c \in Conn |-> FALSE]
  /\ isReg = [c \in Conn |-> FALSE]
  /\ task = [c \in Conn |-> Idle]
  /\ rt = [maps |-> [t \in RouterTypes |-> [n \in Node |-> None]],
           userPeerMap |-> [u \in User |-> None],
           type |-> [c \in Conn |-> PeerTypeErr]]
  /\ entities = {}
  /\ started = {}
  /\ persons = [e \in Entity |-> [u \in User |-> "none"]]
  /\ ps = [e \in Entity |-> NewPttPeerSet]
  /\ send = {}
  /\ api = Idle
  /\ loop = [e \in Entity |-> Idle]
  /\ changes = 0

-----------------------------------------------------------------------------
(* The router's maps *)

InMap(r, t) == {n \in Node : r.maps[t][n] # None}
lenPeers(r) == Cardinality({<<t, n>> \in RouterTypes \X Node : r.maps[t][n] # None})

\* dropAnyPeer finds somebody to disconnect: the lowest type in use is dropped
\* unless it is above the type asked for.  The disconnection itself reaches
\* the connection as a network event.
dropAnyPeer(t) ==
  \E s \in RouterTypes \ {PeerTypeMe} : s <= t /\ InMap(rt, s) # {}

\* ValidatePeer: a user is served through one node, and no type is overfull.
ValidatePeer(c, t) ==
  \/ t = PeerTypeMe
  \/ /\ known[c] => rt.userPeerMap[UserOf[NodeOf[c]]] \in {None, NodeOf[c]}
     /\ Cardinality(InMap(rt, t)) < MaxOf[t]
     /\ lenPeers(rt) >= MaxPeers => dropAnyPeer(t)

\* SetPeerType moves the connection between the maps; without force the type
\* is only raised.
SetPeerTypeForgetsOld(r, c, t) ==
  IF toClose[c] \/ r.type[c] >= t
  THEN r
  ELSE [r EXCEPT !.maps[t][NodeOf[c]] = c, !.type[c] = t]

SetPeerType(r, c, t) ==
  LET n == NodeOf[c]
      cleared == [s \in RouterTypes |-> IF s = r.type[c]
                                        THEN [r.maps[s] EXCEPT ![n] = None]
                                        ELSE r.maps[s]]
  IN  IF toClose[c] \/ r.type[c] >= t
      THEN r
      ELSE [maps |-> [cleared EXCEPT ![t][n] = c],
            userPeerMap |-> IF known[c]
                            THEN [r.userPeerMap EXCEPT ![UserOf[n]] = n]
                            ELSE r.userPeerMap,
            type |-> [r.type EXCEPT ![c] = t]]

UnsetPeerType(r, c) ==
  IF r.type[c] \in RouterTypes /\ r.maps[r.type[c]][NodeOf[c]] = c
  THEN [r EXCEPT !.maps[r.type[c]][NodeOf[c]] = None]
  ELSE r

\* GetPeerByUserID searches the maps from important to random, not myPeers.
GetPeerByUserID(u) ==
  LET of(t) == {rt.maps[t][n] : n \in {n \in InMap(rt, t) :
                  UserOf[n] = u /\ known[rt.maps[t][n]]}}
      hit == {t \in RouterTypes \ {PeerTypeMe} : of(t) # {}}
  IN  IF hit = {} THEN {} ELSE of(CHOOSE t \in hit : \A s \in hit : s <= t)

GetPeer(n) ==
  LET hit == {t \in RouterTypes : rt.maps[t][n] # None}
  IN  IF hit = {} THEN None
      ELSE rt.maps[CHOOSE t \in hit : \A s \in hit : s <= t][n]

-----------------------------------------------------------------------------
(* What a connection is to an entity *)

IsImportantPeer(e, c) == known[c] /\ persons[e][UserOf[NodeOf[c]]] = "master"
IsMemberPeer(e, c) == known[c] /\ persons[e][UserOf[NodeOf[c]]] # "none"
IsMyDevice(c) == known[c] /\ NodeOf[c] \in MyDevices

defaultGetPeerType(e, c) ==
  IF rt.type[c] = PeerTypeMe THEN PeerTypeMe
  ELSE IF IsImportantPeer(e, c) THEN PeerTypeImportant
  ELSE IF IsMemberPeer(e, c) THEN PeerTypeMember
  ELSE IF IsPendingPeer(ps[e], c) THEN PeerTypePending
  ELSE PeerTypeRandom

determinePeerTypeFromAllEntities(c) ==
  IF IsMyDevice(c) THEN PeerTypeMe
  ELSE IF \E e \in entities : IsImportantPeer(e, c) THEN PeerTypeImportant
  ELSE IF \E e \in entities : IsMemberPeer(e, c) THEN PeerTypeMember
  ELSE IF \E e \in entities : IsPendingPeer(ps[e], c) THEN PeerTypePending
  ELSE PeerTypeRandom

addPeerKnownUserID(c, t) ==
  IF ValidatePeer(c, t) THEN SetPeerType(rt, c, t) ELSE rt

ResetPeerType(c) ==
  IF toClose[c] \/ ~known[c] THEN rt
  ELSE addPeerKnownUserID(c, determinePeerTypeFromAllEntities(c))

\* The first half of pm.RegisterPeer, by thread th: registered at once, or
\* refused, or a hand-over that the sync loop of e has to receive.
checkOrigPeerAndRegister(e, c) == Peer(ps[e], NodeOf[c]) # None

RegisterPeer(th, e, c, t) ==
  IF t = PeerTypePending \/ checkOrigPeerAndRegister(e, c)
  THEN ps' = [ps EXCEPT ![e] = Register(@, c, t)] /\ UNCHANGED send
  ELSE /\ send' = IF e \in started
                  THEN send \cup {[by |-> th, e |-> e, c |-> c, t |-> t,
                                   stage |-> "wait"]}
                  ELSE send
       /\ UNCHANGED ps

Sending(th) == \E s \in send : s.by = th
peerLockFree == api.pc # "reg"
entityLockFree == \A c \in Conn : task[c].pc \notin {"register", "unregister"}
Ready(c) == st[c] = "up" /\ task[c].pc = "idle" /\ ~Sending(c)

-----------------------------------------------------------------------------
(* The goroutine of a connection *)

\* HandlePeer up to AddNewPeer.  p2p runs one session per node at a time.  A
\* connection that is refused ends without RemovePeer.
AddNewPeer(c) ==
  /\ st[c] = "new" /\ peerLockFree
  /\ \A d \in Conn : NodeOf[d] = NodeOf[c] => d = c \/ st[d] \in {"new", "gone"}
  /\ IF ValidatePeer(c, PeerTypeRandom)
     THEN /\ rt' = SetPeerType(rt, c, PeerTypeRandom)
          /\ st' = [st EXCEPT ![c] = "up"]
     ELSE st' = [st EXCEPT ![c] = "gone"] /\ UNCHANGED rt
  /\ UNCHANGED <<toClose, known, isReg, task, entities, started, persons, ps,
                 send, api, loop, changes>>

\* The end of the identification: FinishIdentifyPeer reads the type.
FinishIdentifyPeer(c) ==
  /\ Ready(c) /\ ~isReg[c]
  /\ known' = [known EXCEPT ![c] = TRUE]
  /\ task' = [task EXCEPT ![c] = [pc |-> "determine"]]
  /\ UNCHANGED <<st, toClose, isReg, rt, entities, started, persons, ps, send,
                 api, loop, changes>>

Determine(c) ==
  /\ task[c].pc = "determine"
  /\ task' = [task EXCEPT ![c] = [pc |-> "setup",
                                  t |-> determinePeerTypeFromAllEntities(c)]]
  /\ UNCHANGED <<st, toClose, known, isReg, rt, entities, started, persons, ps,
                 send, api, loop, changes>>

\* SetupPeer: addPeerKnownUserID under peerLock, then on to the entities.
SetupPeer(c) ==
  /\ task[c].pc = "setup" /\ peerLockFree
  /\ IF ValidatePeer(c, task[c].t)
     THEN /\ rt' = SetPeerType(rt, c, task[c].t)
          /\ task' = [task EXCEPT ![c] = [pc |-> "register", todo |-> entities]]
     ELSE UNCHANGED rt /\ task' = [task EXCEPT ![c] = Idle]
  /\ UNCHANGED <<st, toClose, known, isReg, entities, started, persons, ps,
                 send, api, loop, changes>>

RegisterPeerToEntities(c) ==
  /\ task[c].pc = "register" /\ ~Sending(c)
  /\ IF task[c].todo = {}
     THEN /\ isReg' = [isReg EXCEPT ![c] = TRUE]
          /\ task' = [task EXCEPT ![c] = Idle]
          /\ UNCHANGED <<ps, send>>
     ELSE \E e \in task[c].todo :
          /\ task' = [task EXCEPT ![c].todo = @ \ {e}]
          /\ IF defaultGetPeerType(e, c) < PeerTypePending
             THEN UNCHANGED <<ps, send>>
             ELSE RegisterPeer(c, e, c, defaultGetPeerType(e, c))
          /\ UNCHANGED isReg
  /\ UNCHANGED <<st, toClose, known, rt, entities, started, persons, api,
                 loop, changes>>

\* PMHandleMessageWrapper before it dispatches: a peer that lost its place is
\* unregistered, one that is registered under another type is registered anew.
PMHandleMessageWrapper(c, e) ==
  /\ Ready(c) /\ e \in entities
  /\ LET fit == defaultGetPeerType(e, c)
     IN  IF fit < PeerTypePending
         THEN /\ Peer(ps[e], NodeOf[c]) # None
              /\ ps' = [ps EXCEPT ![e] = Unregister(@, c)]
              /\ \/ fit < rt.type[c] /\ UNCHANGED rt
                 \/ /\ fit >= rt.type[c] /\ peerLockFree
                    /\ rt' = ResetPeerType(c)
              /\ UNCHANGED send
         ELSE /\ isReg[c]
              /\ GetPeerWithPeerType(ps[e], NodeOf[c], fit) = None
              /\ RegisterPeer(c, e, c, fit)
              /\ UNCHANGED rt
  /\ UNCHANGED <<cvars, entities, started, persons, api, loop, changes>>

\* A peer asks to join: it becomes a pending peer of the entity.
RegisterPendingPeer(c, e) ==
  /\ Ready(c) /\ known[c] /\ e \in entities /\ changes < MaxChanges
  /\ Peer(ps[e], NodeOf[c]) = None
  /\ persons[e][UserOf[NodeOf[c]]] = "none"
  /\ changes' = changes + 1
  /\ ps' = [ps EXCEPT ![e] = Register(@, c, PeerTypePending)]
  /\ UNCHANGED <<cvars, rt, entities, started, persons, send, api, loop>>

\* The session ends: from here on a write to c fails with ErrPeerShutdown.
Shutdown(c) ==
  /\ st[c] = "up"
  /\ st' = [st EXCEPT ![c] = "down"]
  /\ UNCHANGED <<toClose, known, isReg, task, rt, entities, started, persons,
                 ps, send, api, loop, changes>>

\* RemovePeer: mark, leave the entities one by one, then the router.
RemovePeer(c) ==
  /\ st[c] = "down" /\ task[c].pc = "idle" /\ ~Sending(c) /\ ~toClose[c]
  /\ toClose' = [toClose EXCEPT ![c] = TRUE]
  /\ task' = [task EXCEPT ![c] = [pc |-> "unregister", todo |-> entities]]
  /\ UNCHANGED <<st, known, isReg, rt, entities, started, persons, ps, send,
                 api, loop, changes>>

UnregisterPeerFromEntities(c) ==
  /\ task[c].pc = "unregister"
  /\ IF task[c].todo = {}
     THEN task' = [task EXCEPT ![c] = [pc |-> "unset"]] /\ UNCHANGED ps
     ELSE \E e \in task[c].todo :
          /\ task' = [task EXCEPT ![c].todo = @ \ {e}]
          /\ ps' = [ps EXCEPT ![e] = Unregister(@, c)]
  /\ UNCHANGED <<st, toClose, known, isReg, rt, entities, started, persons,
                 send, api, loop, changes>>

RemovePeerDone(c) ==
  /\ task[c].pc = "unset" /\ peerLockFree
  /\ rt' = UnsetPeerType(rt, c)
  /\ st' = [st EXCEPT ![c] = "gone"]
  /\ task' = [task EXCEPT ![c] = Idle]
  /\ UNCHANGED <<toClose, known, isReg, entities, started, persons, ps, send,
                 api, loop, changes>>

-----------------------------------------------------------------------------
(* Masters, members and entities *)

\* RegisterMaster / RegisterMember: RegisterEntityPeerWithOtherUserID finds a
\* connection of the user and keeps peerLock for reading while it registers it.
RegisterEntityPeerWithOtherUserID(e, u, role, t) ==
  /\ api.pc = "idle" /\ changes < MaxChanges
  /\ persons[e][u] # role
  /\ changes' = changes + 1
  /\ persons' = [persons EXCEPT ![e][u] = role]
  /\ IF GetPeerByUserID(u) = {}
     THEN UNCHANGED api
     ELSE \E c \in GetPeerByUserID(u) :
            api' = [pc |-> "reg", e |-> e, c |-> c, t |-> t, sent |-> FALSE]
  /\ UNCHANGED <<cvars, rt, entities, started, ps, send, loop>>

RegisterMaster(e, u) ==
  RegisterEntityPeerWithOtherUserID(e, u, "master", PeerTypeImportant)

RegisterMember(e, u) ==
  persons[e][u] = "none" /\ RegisterEntityPeerWithOtherUserID(e, u, "member", PeerTypeMember)

ApiRegisterPeer ==
  /\ api.pc = "reg" /\ ~Sending("api")
  /\ IF api.sent
     THEN api' = Idle /\ UNCHANGED <<ps, send>>
     ELSE /\ RegisterPeer("api", api.e, api.c, api.t)
          /\ api' = [api EXCEPT !.sent = TRUE]
  /\ UNCHANGED <<cvars, rt, entities, started, persons, loop, changes>>

\* UnregisterMaster / UnregisterMember, then ResetPeerType.
UnregisterPeerByOtherUserID(e, u) ==
  /\ api.pc = "idle" /\ changes < MaxChanges
  /\ persons[e][u] # "none"
  /\ changes' = changes + 1
  /\ persons' = [persons EXCEPT ![e][u] = "none"]
  /\ IF PeersByOtherUserID(ps[e], u) = {}
     THEN UNCHANGED <<ps, api>>
     ELSE \E c \in PeersByOtherUserID(ps[e], u) :
          /\ ps' = [ps EXCEPT ![e] = Unregister(@, c)]
          /\ api' = IF ps[e].peerTypes[NodeOf[c]] < rt.type[c] THEN Idle
                    ELSE [pc |-> "reset", c |-> c]
  /\ UNCHANGED <<cvars, rt, entities, started, send, loop>>

ApiResetPeerType ==
  /\ api.pc = "reset"
  /\ rt' = ResetPeerType(api.c)
  /\ api' = Idle
  /\ UNCHANGED <<cvars, entities, started, persons, ps, send, loop, changes>>

\* registerEntityPeers files what is connected already.  The entity is not
\* started, so pm.RegisterPeer changes only who is in its set.
registerEntityPeers(e) ==
  LET conns == {rt.maps[t][n] : t \in RouterTypes, n \in Node} \ {None}
      place(c, acc) ==
        LET fit == defaultGetPeerType(e, c)
        IN  IF fit < PeerTypePending THEN acc
            ELSE [rt |-> SetPeerType(acc.rt, c, fit),
                  ps |-> IF fit = PeerTypePending \/ Peer(acc.ps, NodeOf[c]) # None
                         THEN Register(acc.ps, c, fit) ELSE acc.ps]
  IN  FoldSet(place, [rt |-> rt, ps |-> ps[e]], conns)

RegisterEntity(e) ==
  /\ e \notin entities /\ entityLockFree
  /\ entities' = entities \cup {e}
  /\ rt' = registerEntityPeers(e).rt
  /\ ps' = [ps EXCEPT ![e] = registerEntityPeers(e).ps]
  /\ UNCHANGED <<cvars, started, persons, send, api, loop, changes>>

StartPM(e) ==
  /\ e \in entities \ started
  /\ started' = started \cup {e}
  /\ UNCHANGED <<cvars, rt, entities, persons, ps, send, api, loop, changes>>

-----------------------------------------------------------------------------
(* The sync loop of an entity *)

\* A hand-over: the loop goes on to sync with the peer, the sender to Register.
NewPeerCh(e) ==
  /\ loop[e].pc = "idle" /\ e \in started
  /\ \E s \in send :
       /\ s.e = e /\ s.stage = "wait"
       /\ send' = (send \ {s}) \cup {[s EXCEPT !.stage = "got"]}
       /\ loop' = [loop EXCEPT ![e] = [pc |-> "sync", c |-> s.c]]
  /\ UNCHANGED <<cvars, rt, entities, started, persons, ps, api, changes>>

RegisterAfterSend(s) ==
  /\ s.stage = "got"
  /\ send' = send \ {s}
  /\ ps' = [ps EXCEPT ![s.e] = Register(@, s.c, s.t)]
  /\ UNCHANGED <<cvars, rt, entities, started, persons, api, loop, changes>>

\* Ticker: a random peer of the list, or LoadPeers when there is none.
ForceSyncTicker(e, c) ==
  /\ loop[e].pc = "idle" /\ e \in started
  /\ c \in PeerList(ps[e])
  /\ loop' = [loop EXCEPT ![e] = [pc |-> "sync", c |-> c]]
  /\ UNCHANGED <<cvars, rt, entities, started, persons, ps, send, api, changes>>

\* Sync writes to the peer; ErrPeerShutdown takes it out of the set.
SyncIgnoresShutdown(e) ==
  /\ loop[e].pc = "sync"
  /\ loop' = [loop EXCEPT ![e] = Idle]
  /\ UNCHANGED <<cvars, rt, entities, started, persons, ps, send, api, changes>>

Sync(e) ==
  /\ loop[e].pc = "sync"
  /\ loop' = [loop EXCEPT ![e] = Idle]
  /\ ps' = IF isReg[loop[e].c] /\ st[loop[e].c] # "up"
           THEN [ps EXCEPT ![e] = Unregister(@, loop[e].c)]
           ELSE ps
  /\ UNCHANGED <<cvars, rt, entities, started, persons, send, api, changes>>

\* LoadPeers dials a node of the entity; AddDial registers a peer that is
\* known already, in the loop's own goroutine: a hand-over would wait for
\* the loop itself.
LoadPeers(e, n) ==
  /\ loop[e].pc = "idle" /\ e \in started /\ peerLockFree
  /\ PeerList(ps[e]) = {} /\ persons[e][UserOf[n]] # "none"
  /\ LET c == GetPeer(n)
     IN  /\ c # None /\ known[c]
         /\ rt' = IF rt.type[c] < PeerTypeImportant THEN ResetPeerType(c) ELSE rt
         /\ loop' = [loop EXCEPT ![e] = [pc |-> "dialed", c |-> c]]
  /\ UNCHANGED <<cvars, entities, started, persons, ps, send, api, changes>>

AddDial(e) ==
  /\ loop[e].pc = "dialed"
  /\ IF Peer(ps[e], NodeOf[loop[e].c]) # None
     THEN /\ ps' = [ps EXCEPT ![e] = Register(@, loop[e].c, PeerTypeImportant)]
          /\ loop' = [loop EXCEPT ![e] = Idle]
     ELSE UNCHANGED ps /\ loop' = [loop EXCEPT ![e] = [pc |-> "stuck"]]
  /\ UNCHANGED <<cvars, rt, entities, started, persons, send, api, changes>>

-----------------------------------------------------------------------------
ConnStep(c) ==
  \/ Determine(c) \/ SetupPeer(c) \/ RegisterPeerToEntities(c)
  \/ RemovePeer(c) \/ UnregisterPeerFromEntities(c) \/ RemovePeerDone(c)

Next ==
  \/ \E c \in Conn : AddNewPeer(c) \/ FinishIdentifyPeer(c) \/ Shutdown(c) \/ ConnStep(c)
  \/ \E c \in Conn, e \in Entity :
       PMHandleMessageWrapper(c, e) \/ RegisterPendingPeer(c, e)
  \/ \E e \in Entity, u \in User :
       RegisterMaster(e, u) \/ RegisterMember(e, u) \/ UnregisterPeerByOtherUserID(e, u)
  \/ ApiRegisterPeer \/ ApiResetPeerType
  \/ \E e \in Entity : RegisterEntity(e) \/ StartPM(e)
  \/ \E e \in Entity : NewPeerCh(e) \/ Sync(e) \/ AddDial(e)
  \/ \E e \in Entity, c \in Conn : ForceSyncTicker(e, c)
  \/ \E e \in Entity, n \in Node : LoadPeers(e, n)
  \/ \E s \in send : RegisterAfterSend(s)

(* The loops, the goroutine of a connection and a receiver that was served   *)
(* go on; the ticker's random choice does not avoid a peer for ever.         *)
Fairness ==
  /\ \A e \in Entity : WF_vars(NewPeerCh(e)) /\ WF_vars(Sync(e)) /\ WF_vars(AddDial(e))
  /\ \A e \in Entity, c \in Conn : SF_vars(ForceSyncTicker(e, c))
  /\ \A c \in Conn : WF_vars(ConnStep(c))

Spec == Init /\ [][Next]_vars /\ Fairness

-----------------------------------------------------------------------------
(* Properties *)

TypeOK ==
  /\ st \in [Conn -> {"new", "up", "down", "gone"}]
  /\ \A c \in Conn : task[c].pc \in
       {"idle", "determine", "setup", "register", "unregister", "unset"}
  /\ rt.maps \in [RouterTypes -> [Node -> Conn \cup {None}]]
  /\ rt.userPeerMap \in [User -> Node \cup {None}]
  /\ started \subseteq entities /\ entities \subseteq Entity
  /\ changes \in 0 .. MaxChanges

(* However the types of a connection change, the router finds a live         *)
(* connection in the map of its type and in no other, and a closed one in    *)
(* none (SetPeerType, registerEntityPeers and UnsetPeerType run in           *)
(* different goroutines).                                                    *)
RouterIndexed ==
  \A c \in Conn, t \in RouterTypes :
    /\ rt.maps[t][NodeOf[c]] = c => rt.type[c] = t /\ st[c] # "gone"
    /\ st[c] = "up" /\ rt.type[c] = t => rt.maps[t][NodeOf[c]] = c

(* A connection that finished its registration and closed leaves for good    *)
(* the peer list of a started entity, even when another goroutine registers  *)
(* it while RemovePeer runs: the sync loop meets ErrPeerShutdown.  A loop    *)
(* that waits for itself (AddDial from LoadPeers) is out of service.         *)
ClosedPeersLeave ==
  <>[](\A e \in Entity, c \in Conn :
         (st[c] = "gone" /\ isReg[c] /\ e \in started /\ c \in PeerList(ps[e]))
           => loop[e].pc = "stuck")

=============================================================================
