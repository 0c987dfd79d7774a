---------------------------- MODULE IdentifyPeer ----------------------------
(***************************************************************************)
(* How the two ends of a connection learn each other's user                *)
(* (service/protocol_identify_peer*.go, ptt_peer.go).  Each end sends a     *)
(* random challenge, under the op-key of an entity it believes to share, or *)
(* under its own id when the other end does not know that entity, and       *)
(* accepts the user whose signature over the pending challenge comes back.  *)
(* A timer per attempt clears what is pending.  A connection delivers in    *)
(* order and loses nothing while it lives.  All deadlines are reordered     *)
(* freely against the messages.                                             *)
(***************************************************************************)
EXTENDS Integers, Sequences

CONSTANTS End,          \* the two ends of the connection
          IdEntity,     \* entities whose op-key an end may use
          Knows,        \* Knows[x]: the entities x has, found by op-key hash
          Friendly,     \* the ends to whom the other's user is not a stranger
          MaxChallenge  \* bound on the challenges an end creates

VARIABLES userID,       \* userID[x]: x knows the user at the other end
          idEntityID,   \* peer.IDEntityID, "nil" when nothing is pending
          idChallenge,  \* peer.IDChallenge, 0 for nil
          timers,       \* the ids whose timers still run, per end
          fresh,        \* challenges created so far, per end
          stopped,      \* the entities whose quitSync is closed, per end
          net           \* net[x]: the messages on their way to x

ivars == <<userID, idEntityID, idChallenge, timers, fresh, stopped, net>>

Other(x) == CHOOSE y \in End : y # x

Init ==
  /\ userID = [x \in End |-> FALSE]
  /\ idEntityID = [x \in End |-> "nil"]
  /\ idChallenge = [x \in End |-> 0]
  /\ timers = [x \in End |-> {}]
  /\ fresh = [x \in End |-> 0]
  /\ stopped = [x \in End |-> {}]
  /\ net = [x \in End |-> <<>>]

\* InitID refuses when the user is known, or something is pending that
\* isForce does not clear; otherwise a new challenge and its timer.
CanInitID(x, isForce) ==
  ~userID[x] /\ (isForce \/ idEntityID[x] = "nil")

InitIDNoTimer(x, pending, timed) ==
  /\ fresh[x] < MaxChallenge
  /\ fresh' = [fresh EXCEPT ![x] = @ + 1]
  /\ idChallenge' = [idChallenge EXCEPT ![x] = fresh'[x]]
  /\ idEntityID' = [idEntityID EXCEPT ![x] = pending]
  /\ UNCHANGED timers

InitID(x, pending, timed) ==
  /\ fresh[x] < MaxChallenge
  /\ fresh' = [fresh EXCEPT ![x] = @ + 1]
  /\ idChallenge' = [idChallenge EXCEPT ![x] = fresh'[x]]
  /\ idEntityID' = [idEntityID EXCEPT ![x] = pending]
  /\ timers' = [timers EXCEPT ![x] = (@ \cup {timed}) \ stopped[x]]

FinishID(x, id) ==
  IF idEntityID[x] = id
  THEN /\ idEntityID' = [idEntityID EXCEPT ![x] = "nil"]
       /\ idChallenge' = [idChallenge EXCEPT ![x] = 0]
  ELSE UNCHANGED <<idEntityID, idChallenge>>

\* What x sends, with the message it consumed taken off.
Reply(x, ms) == net' = [net EXCEPT ![Other(x)] = @ \o ms, ![x] = Tail(@)]
Got(x, code) == net[x] # <<>> /\ Head(net[x]).code = code

-----------------------------------------------------------------------------
\* pm.IdentifyPeer, from AddNewPeer or AddDial with an entity of x.
IdentifyPeer(x, e) ==
  /\ e \in Knows[x] \ stopped[x] /\ CanInitID(x, FALSE)
  /\ InitID(x, e, e)
  /\ net' = [net EXCEPT ![Other(x)] =
       Append(@, [code |-> "IdentifyPeer", e |-> e, ch |-> fresh'[x]])]
  /\ UNCHANGED <<userID, stopped>>

\* HandleIdentifyPeer: sign the challenge, and identify the sender as well.
\* An unknown entity is answered by IdentifyPeerFail.
HandleIdentifyPeer(x) ==
  /\ Got(x, "IdentifyPeer")
  /\ LET m   == Head(net[x])
         ack == [code |-> "IdentifyPeerAck", e |-> m.e, ack |-> m.ch]
     IN  IF m.e \notin Knows[x]
         THEN /\ Reply(x, <<[code |-> "IdentifyPeerFail"]>>)
              /\ UNCHANGED <<idEntityID, idChallenge, timers, fresh>>
         ELSE IF CanInitID(x, FALSE) /\ fresh[x] < MaxChallenge
         THEN /\ InitID(x, m.e, m.e)
              /\ Reply(x, <<ack, [code |-> "IdentifyPeer", e |-> m.e, ch |-> fresh'[x]]>>)
         ELSE /\ Reply(x, <<ack>>)
              /\ UNCHANGED <<idEntityID, idChallenge, timers, fresh>>
  /\ UNCHANGED <<userID, stopped>>

\* router.HandleIdentifyPeerAck, shared by the three ack messages: the
\* signature has to be over the challenge that is pending now.
Accepts(x, ack) == idChallenge[x] # 0 /\ idChallenge[x] = ack

AcceptAck(x, ack, id) ==
  IF Accepts(x, ack) /\ ~userID[x]
  THEN userID' = [userID EXCEPT ![x] = TRUE] /\ FinishID(x, id)
  ELSE UNCHANGED <<userID, idEntityID, idChallenge>>

HandleIdentifyPeerAck(x) ==
  /\ Got(x, "IdentifyPeerAck")
  /\ AcceptAck(x, Head(net[x]).ack, Head(net[x]).e)
  /\ Reply(x, <<>>)
  /\ UNCHANGED <<timers, fresh, stopped>>

\* HandleIdentifyPeerFail -> IdentifyPeerWithMyID: nothing stays pending but
\* the challenge.
HandleIdentifyPeerFail(x) ==
  /\ Got(x, "IdentifyPeerFail")
  /\ IF CanInitID(x, TRUE) /\ fresh[x] < MaxChallenge
     THEN /\ InitID(x, "nil", "my-id")
          /\ Reply(x, <<[code |-> "WithMyID", ch |-> fresh'[x]]>>)
     ELSE /\ Reply(x, <<>>)
          /\ UNCHANGED <<idEntityID, idChallenge, timers, fresh>>
  /\ UNCHANGED <<userID, stopped>>

\* HandleIdentifyPeerWithMyID: a known user is answered, another challenged.
HandleIdentifyPeerWithMyID(x) ==
  /\ Got(x, "WithMyID")
  /\ IF userID[x]
     THEN /\ Reply(x, <<[code |-> "WithMyIDAck", ack |-> Head(net[x]).ch]>>)
          /\ UNCHANGED <<idEntityID, idChallenge, timers, fresh>>
     ELSE IF fresh[x] < MaxChallenge
     THEN /\ InitID(x, "user-id", "user-id")
          /\ Reply(x, <<[code |-> "Challenge", ch |-> fresh'[x]]>>)
     ELSE /\ Reply(x, <<>>)
          /\ UNCHANGED <<idEntityID, idChallenge, timers, fresh>>
  /\ UNCHANGED <<userID, stopped>>

HandleIdentifyPeerWithMyIDChallenge(x) ==
  /\ Got(x, "Challenge")
  /\ Reply(x, <<[code |-> "ChallengeAck", ack |-> Head(net[x]).ch, ch |-> idChallenge[x]]>>)
  /\ UNCHANGED <<userID, idEntityID, idChallenge, timers, fresh, stopped>>

\* HandleIdentifyPeerWithMyIDChallengeAck: a stranger (PeerTypeRandom) is not
\* answered; a refused ack ends the exchange.
HandleIdentifyPeerWithMyIDChallengeAck(x) ==
  /\ Got(x, "ChallengeAck")
  /\ LET m == Head(net[x])
     IN  /\ AcceptAck(x, m.ack, "my-id")
         /\ Reply(x, IF Accepts(x, m.ack) /\ x \in Friendly /\ m.ch # 0
                     THEN <<[code |-> "WithMyIDAck", ack |-> m.ch]>> ELSE <<>>)
  /\ UNCHANGED <<timers, fresh, stopped>>

HandleIdentifyPeerWithMyIDAck(x) ==
  /\ Got(x, "WithMyIDAck")
  /\ AcceptAck(x, Head(net[x]).ack, "my-id")
  /\ Reply(x, <<>>)
  /\ UNCHANGED <<timers, fresh, stopped>>

\* The timer of an attempt runs out; it does not know which attempt is
\* pending, only under which id.
IdentifyPeerTimeout(x, id) ==
  /\ id \in timers[x]
  /\ timers' = [timers EXCEPT ![x] = @ \ {id}]
  /\ FinishID(x, id)
  /\ UNCHANGED <<userID, fresh, stopped, net>>

\* StopPM of an entity closes its quitSync: the timers that it started end
\* without FinishID.
QuitSync(x, e) ==
  /\ e \in Knows[x] \ stopped[x]
  /\ stopped' = [stopped EXCEPT ![x] = @ \cup {e}]
  /\ timers' = [timers EXCEPT ![x] = @ \ {e}]
  /\ UNCHANGED <<userID, idEntityID, idChallenge, fresh, net>>

Deliver(x) ==
  \/ HandleIdentifyPeer(x) \/ HandleIdentifyPeerAck(x)
  \/ HandleIdentifyPeerFail(x) \/ HandleIdentifyPeerWithMyID(x)
  \/ HandleIdentifyPeerWithMyIDChallenge(x)
  \/ HandleIdentifyPeerWithMyIDChallengeAck(x) \/ HandleIdentifyPeerWithMyIDAck(x)

Next ==
  \E x \in End :
    \/ \E e \in IdEntity : IdentifyPeer(x, e) \/ QuitSync(x, e)
    \/ Deliver(x)
    \/ \E id \in IdEntity \cup {"my-id", "user-id"} : IdentifyPeerTimeout(x, id)

(* Messages of a live connection arrive, timers run out, and an entity that  *)
(* wants the peer dials it again (the sync ticker's LoadPeers and AddDial).  *)
Fairness ==
  /\ \A x \in End : WF_ivars(Deliver(x)) /\ WF_ivars(\E e \in IdEntity : IdentifyPeer(x, e))
  /\ \A x \in End, id \in IdEntity \cup {"my-id", "user-id"} :
       WF_ivars(IdentifyPeerTimeout(x, id))

Spec == Init /\ [][Next]_ivars /\ Fairness

-----------------------------------------------------------------------------

(* When nothing is in flight, no identification is pending under an entity   *)
(* that both ends have: its answer was accepted, however the exchanges of    *)
(* the two ends and their timers cross.                                      *)
Quiet == \A x \in End : net[x] = <<>>

(* What is pending is cleared in the end, or its entity has stopped, and the *)
(* conversation of the two ends comes to rest.                               *)
PendingClears ==
  <>[](\A x \in End : idEntityID[x] # "nil" => Quiet /\ idEntityID[x] \in stopped[x])
=============================================================================
