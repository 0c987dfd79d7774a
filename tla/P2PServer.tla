------------------------------ MODULE P2PServer ------------------------------
(***************************************************************************)
(* The server of the p2p transport: the loop of Server.run with the dialer *)
(* (dialstate), the goroutines that set connections up, the listener, the  *)
(* goroutine of each peer, and Stop.  One run of the loop ends with the    *)
(* scheduling of dial tasks that precedes the next select.                 *)
(*                                                                         *)
(* Abstractions: the clock is the step Age of an entry of the dial         *)
(* history; what discovery returns is any set of nodes; nobody dials       *)
(* themselves and no netrestrict is set.                                   *)
(***************************************************************************)
EXTENDS Integers, FiniteSets, Sequences, Functions

CONSTANTS Remote,       \* ids of the other nodes
          Nobody,       \* no id, no peer, no connection
          Configs,      \* [MaxPeers, DialRatio, NoDiscovery, StaticNodes] of the server,
                        \* with MaxEvents, the bound on the calls, the connections
                        \* from outside and the failures
          BootstrapNodes,
          MaxActive,    \* maxActiveDialTasks
          Slots         \* MaxPendingPeers

Flags == {"inbound", "dyn", "static", "trusted"}     \* connFlag

ASSUME ServerAssumption ==
    /\ IsFiniteSet(Remote) /\ \A F \in SUBSET Flags : F # Nobody
    /\ \A c \in Configs : /\ c.MaxPeers \in Nat /\ c.DialRatio \in Nat \ {0}
                          /\ c.NoDiscovery \in BOOLEAN /\ c.StaticNodes \subseteq Remote
    /\ BootstrapNodes \subseteq Remote /\ MaxActive \in Nat

VARIABLES cfg,          \* the configuration of this server
          peers,        \* Server.run: id -> flags of its peer
          inboundCount, trusted,
          dial,         \* the dialstate
          runningTasks, queuedTasks,
          taskdone,     \* tasks whose Do has returned
          at,           \* Server.run: "select", "locked", "spin", "done"
          conn,         \* connections being set up
          procs,        \* goroutines of runPeer
          listen,       \* where listenLoop is
          stop,         \* the call of Stop; it holds srv.lock while "waiting"
          events

vars == <<cfg, peers, inboundCount, trusted, dial, runningTasks, queuedTasks, taskdone, at, conn,
          procs, listen, stop, events>>

quit == stop # "no"
lockHeld == stop = "waiting"
Key == Remote \X {"in", "dial"}

maxDialedConns == IF cfg.NoDiscovery THEN 0 ELSE cfg.MaxPeers \div cfg.DialRatio

maxInboundConns == cfg.MaxPeers - maxDialedConns

\* Later nobody reads the tasks and the history.
InLoop == at \in {"select", "locked"}

Connected(ps) == {n \in Remote : ps[n] # Nobody}

-----------------------------------------------------------------------------
\* the dialer

checkDial(s, ps, n) == s.dialing[n] = "no" /\ ps[n] = Nobody /\ s.hist[n] = "no"

DialTask(n, flag) == [do |-> "dial", id |-> n, flag |-> flag]
DiscoverTask == [do |-> "discover", id |-> Nobody, flag |-> "none"]
WaitTask(n) == [do |-> "wait", id |-> n, flag |-> "none"]

addStatic(s, n) == [s EXCEPT !.static = @ \cup {n}]

removeStatic(s, n) == [s EXCEPT !.static = @ \ {n}, !.hist[n] = "no"]

expire(s) == [s EXCEPT !.hist = [n \in Remote |-> IF @[n] = "old" THEN "no" ELSE @[n]]]

StartDials(s, N, flag) ==
    [s EXCEPT !.dialing = [n \in Remote |-> IF n \in N THEN flag ELSE @[n]]]

neverWaits(nRunning, tasks, s) == {<<>>}

\* waitExpireTask: keeps the loop ticking when nothing else does.
waitTasks(nRunning, tasks, s) ==
    IF nRunning = 0 /\ tasks = <<>> /\ \E n \in Remote : s.hist[n] # "no"
    THEN {<<WaitTask(n)>> : n \in {i \in Remote : s.hist[i] # "no"}}
    ELSE {<<>>}

countDialsOnly(s, ps) == maxDialedConns - Cardinality({n \in Remote : s.dialing[n] = "dyn"})

needDynDials(s, ps) ==
    maxDialedConns - Cardinality({n \in Connected(ps) : "dyn" \in ps[n]})
                   - Cardinality({n \in Remote : s.dialing[n] = "dyn"})

\* The nodes that may be dialled besides the static ones, out of a bootnode,
\* of random nodes of the table and of the results of the last lookup; with
\* what is left of these.
dynamicDials(s, ps, need) ==
    LET ok(N) == {n \in N : checkDial(s, ps, n)}
        Left(N) == need - Cardinality(ok(N))
        Boot == IF Connected(ps) = {} /\ need > 0 THEN {{n} : n \in BootstrapNodes} ELSE {}
        Random(k) == {R \in SUBSET Remote : R = {} \/ Cardinality(R) <= k \div 2}
        Tried(k) == IF k <= 0 THEN {{}}
                    ELSE {C \in SUBSET s.lookupBuf :
                            \/ C = s.lookupBuf /\ Cardinality(ok(C)) <= k
                            \/ Cardinality(ok(C)) = k}
    IN {[dials |-> ok(x.boot \cup x.random \cup x.found), buf |-> s.lookupBuf \ x.found] :
          x \in {y \in [boot : Boot \cup {{}}, random : SUBSET Remote, found : SUBSET s.lookupBuf] :
                   /\ y.random \in Random(Left(y.boot))
                   /\ y.found \in Tried(Left(y.boot \cup y.random))}}

\* Tasks come in the order in which a map or the table has the nodes: in any.
dialTasks(N, flag) == Bijection(1 .. Cardinality(N), {DialTask(n, flag) : n \in N})

needsLookup(s, c, need) == Cardinality(c.buf) < need - Cardinality(c.dials) /\ ~s.lookupRunning

\* The dialer after the choice c of dynamicDials, and its tasks.
afterDials(s, c, need) ==
    [StartDials(s, c.dials, "dyn") EXCEPT
       !.lookupBuf = c.buf, !.lookupRunning = @ \/ needsLookup(s, c, need)]
taskLists(s, fixed, c, need) ==
    {f \o d \o (IF needsLookup(s, c, need) THEN <<DiscoverTask>> ELSE <<>>) :
       f \in dialTasks(fixed, "static"), d \in dialTasks(c.dials, "dyn")}

thenWait(s, ts, nRunning) == {[s |-> s, tasks |-> ts \o w] : w \in waitTasks(nRunning, ts, s)}

newTasks(s0, nRunning, ps) ==
    LET s == expire(s0)
        need == needDynDials(s, ps)
        fixed == {n \in s.static : checkDial(s, ps, n)}
        s1 == StartDials(s, fixed, "static")
    IN UNION {UNION {thenWait(afterDials(s1, c, need), ts, nRunning) :
                       ts \in taskLists(s1, fixed, c, need)} :
              c \in dynamicDials(s1, ps, need)}

taskDone(s, t, results) ==
    CASE t.do = "dial" -> [s EXCEPT !.hist[t.id] = "fresh", !.dialing[t.id] = "no"]
      [] t.do = "discover" -> [s EXCEPT !.lookupRunning = FALSE, !.lookupBuf = @ \cup results]
      [] OTHER -> s

startTasks(run, ts) ==
    LET room == MaxActive - Cardinality(run)
        k == IF Len(ts) < room THEN Len(ts) ELSE room
    IN [run |-> run \cup Range(SubSeq(ts, 1, k)), rest |-> SubSeq(ts, k + 1, Len(ts))]

\* The tasks nt start after those of the queue, of which q has what is left.
startNew(q, nt) ==
    LET r == startTasks(q.run, nt.tasks)
    IN [s |-> nt.s, run |-> r.run, queue |-> q.rest \o r.rest]

scheduleTasks(s, run, queue, ps) ==
    LET q == startTasks(run, queue)
    IN IF Cardinality(q.run) < MaxActive
       THEN {startNew(q, nt) : nt \in newTasks(s, Cardinality(q.run) + Len(q.rest), ps)}
       ELSE {[s |-> s, run |-> q.run, queue |-> q.rest]}

newDialState ==
    [static |-> cfg.StaticNodes, dialing |-> [n \in Remote |-> "no"],
     hist |-> [n \in Remote |-> "no"], lookupBuf |-> {}, lookupRunning |-> FALSE]

-----------------------------------------------------------------------------
\* Server.run

\* The way back to the select, with a dialer s and the tasks run.
Loop(s, run, ps) ==
    /\ \E r \in scheduleTasks(s, run, queuedTasks, ps) :
         dial' = r.s /\ runningTasks' = r.run /\ queuedTasks' = r.queue
    /\ at' = "select"

Start ==
    /\ cfg \in Configs
    /\ peers = [n \in Remote |-> Nobody] /\ inboundCount = 0 /\ trusted = {}
    /\ \E r \in scheduleTasks(newDialState, {}, <<>>, peers) :
         dial = r.s /\ runningTasks = r.run /\ queuedTasks = r.queue
    /\ taskdone = {} /\ at = "select"
    /\ conn = [k \in Key |-> Nobody] /\ procs = {} /\ listen = "slot" /\ stop = "no"

Init == Start /\ events = 0

Happens == events < cfg.MaxEvents /\ events' = events + 1

SetTrusted(n) ==
    /\ at = "select" /\ Happens /\ n \notin trusted
    /\ trusted' = trusted \cup {n}
    /\ Loop(dial, runningTasks, peers)
    /\ UNCHANGED <<cfg, peers, inboundCount, taskdone, conn, procs, listen, stop>>

AddPeer(n) ==
    /\ at = "select" /\ Happens /\ n \notin dial.static
    /\ Loop(addStatic(dial, n), runningTasks, peers)
    /\ UNCHANGED <<cfg, peers, inboundCount, trusted, taskdone, conn, procs, listen, stop>>

Disconnect(P) == {[p EXCEPT !.up = @ /\ p \notin P] : p \in procs}

RemovePeer(n) ==
    /\ at = "select" /\ Happens
    /\ procs' = Disconnect({p \in procs : p.id = n})
    /\ Loop(removeStatic(dial, n), runningTasks, peers)
    /\ UNCHANGED <<cfg, peers, inboundCount, trusted, taskdone, conn, listen, stop>>

RunTaskDone ==
    /\ at = "select"
    /\ \E t \in taskdone, results \in {{}} \cup {{n} : n \in Remote} :
         /\ t.do # "discover" => results = {}
         /\ taskdone' = taskdone \ {t}
         /\ Loop(taskDone(dial, t, results), runningTasks \ {t}, peers)
    /\ UNCHANGED <<cfg, peers, inboundCount, trusted, conn, procs, listen, stop, events>>

passesTwice(id, flags) ==
    /\ flags \cap {"trusted", "static"} = {} => Cardinality(Connected(peers)) < cfg.MaxPeers
    /\ ("inbound" \in flags /\ "trusted" \notin flags) => inboundCount < maxInboundConns

encHandshakeChecks(id, flags) ==
    /\ flags \cap {"trusted", "static"} = {} => Cardinality(Connected(peers)) < cfg.MaxPeers
    /\ ("inbound" \in flags /\ "trusted" \notin flags) => inboundCount < maxInboundConns
    /\ peers[id] = Nobody

\* What ends with the connection k: for a dial its task.
Ends(k) ==
    /\ conn' = [conn EXCEPT ![k] = Nobody]
    /\ taskdone' = taskdone \cup
                   {t \in runningTasks : k[2] = "dial" /\ t.do = "dial" /\ t.id = k[1]}

\* The check that lets a connection pass compares it with Self, which takes
\* srv.lock: the loop stays there while Stop has it.
WaitForLock ==
    /\ lockHeld /\ at' = "locked"
    /\ UNCHANGED <<peers, inboundCount, dial, runningTasks, queuedTasks, taskdone, conn, procs,
                   events>>

\* <-posthandshake
RunPostHandshake(k) ==
    /\ at = "select" /\ conn[k] # Nobody /\ conn[k].at = "post"
    /\ LET flags == conn[k].flags \cup (IF k[1] \in trusted THEN {"trusted"} ELSE {})
           passes == encHandshakeChecks(k[1], flags)
       IN \/ passes /\ WaitForLock
          \/ /\ ~(passes /\ lockHeld)
             /\ IF passes
                THEN /\ conn' = [conn EXCEPT ![k].at = "proto", ![k].flags = flags]
                     /\ UNCHANGED taskdone
                ELSE Ends(k)
             /\ Loop(dial, runningTasks, peers)
             /\ UNCHANGED <<peers, inboundCount, procs, events>>
    /\ UNCHANGED <<cfg, trusted, listen, stop>>

\* <-addpeer: the checks are repeated, and a connection with no common
\* protocol is dropped.
RunAddPeer(k) ==
    /\ at = "select" /\ conn[k] # Nobody /\ conn[k].at = "add"
    /\ LET flags == conn[k].flags
           passes == encHandshakeChecks(k[1], flags)
       IN \/ passes /\ WaitForLock
          \/ /\ passes /\ ~lockHeld
             /\ procs' = procs \cup {[id |-> k[1], flags |-> flags, up |-> TRUE]}
             /\ inboundCount' = inboundCount + (IF "inbound" \in flags THEN 1 ELSE 0)
             /\ \E ps \in {[peers EXCEPT ![k[1]] = flags]} :
                  peers' = ps /\ Loop(dial, runningTasks, ps)
             /\ Ends(k) /\ UNCHANGED events
          \/ /\ (~passes /\ UNCHANGED events) \/ Happens
             /\ Ends(k) /\ Loop(dial, runningTasks, peers)
             /\ UNCHANGED <<peers, inboundCount, procs>>
    /\ UNCHANGED <<cfg, trusted, listen, stop>>

RunDelPeer ==
    /\ at = "select"
    /\ \E p \in procs :
         /\ ~p.up
         /\ procs' = procs \ {p}
         /\ \E ps \in {[peers EXCEPT ![p.id] = Nobody]} :
              peers' = ps /\ Loop(dial, runningTasks, ps)
         /\ inboundCount' = inboundCount - (IF "inbound" \in p.flags THEN 1 ELSE 0)
    /\ UNCHANGED <<cfg, trusted, taskdone, conn, listen, stop, events>>

\* <-quit in either select: all peers are told to leave.
RunQuit ==
    /\ quit /\ at = "select"
    /\ at' = "spin"
    /\ procs' = Disconnect(procs)
    /\ UNCHANGED <<cfg, peers, inboundCount, trusted, dial, runningTasks, queuedTasks, taskdone,
                   conn, listen, stop, events>>

RunSpinDown ==
    /\ at = "spin"
    /\ IF Connected(peers) = {}
       THEN at' = "done" /\ UNCHANGED <<peers, procs>>
       ELSE /\ \E p \in procs : /\ ~p.up
                                /\ procs' = procs \ {p}
                                /\ peers' = [peers EXCEPT ![p.id] = Nobody]
            /\ UNCHANGED at
    /\ UNCHANGED <<cfg, inboundCount, trusted, dial, runningTasks, queuedTasks, taskdone, conn,
                   listen, stop, events>>

-----------------------------------------------------------------------------
\* goroutines around the loop

runvars == <<cfg, peers, inboundCount, trusted, dial, runningTasks, queuedTasks, at, procs>>

NewConn(k, flags, slot) ==
    conn' = [conn EXCEPT ![k] = [at |-> "setup", flags |-> flags, slot |-> slot]]

\* dialTask.Do: the dial fails or leads to SetupConn.
Dial(t) ==
    /\ t \in runningTasks \ taskdone /\ t.do = "dial" /\ conn[<<t.id, "dial">>] = Nobody
    /\ \/ NewConn(<<t.id, "dial">>, {t.flag}, FALSE) /\ UNCHANGED <<taskdone, events>>
       \/ Happens /\ taskdone' = taskdone \cup {t} /\ UNCHANGED conn
    /\ UNCHANGED <<runvars, listen, stop>>

\* discoverTask.Do and waitExpireTask.Do
Lookup(t) ==
    /\ t \in runningTasks \ taskdone /\ InLoop
    /\ t.do = "discover" \/ (t.do = "wait" /\ dial.hist[t.id] # "fresh")
    /\ taskdone' = taskdone \cup {t}
    /\ UNCHANGED <<runvars, conn, listen, stop, events>>

Age(n) ==
    /\ dial.hist[n] = "fresh" /\ InLoop
    /\ dial' = [dial EXCEPT !.hist[n] = "old"]
    /\ UNCHANGED <<cfg, peers, inboundCount, trusted, runningTasks, queuedTasks, at, procs,
                   taskdone, conn, listen, stop, events>>

\* setupConn up to the encryption handshake; Self and the test of running
\* take srv.lock.
Setup(k) ==
    /\ conn[k] # Nobody /\ conn[k].at = "setup" /\ ~lockHeld
    /\ \/ ~quit /\ conn' = [conn EXCEPT ![k].at = "post"] /\ UNCHANGED <<taskdone, events>>
       \/ ~quit /\ Happens /\ Ends(k)
       \/ quit /\ Ends(k) /\ UNCHANGED events
    /\ UNCHANGED <<runvars, listen, stop>>

\* doProtoHandshake
protoHandshake(k) ==
    /\ conn[k] # Nobody /\ conn[k].at = "proto"
    /\ \/ conn' = [conn EXCEPT ![k].at = "add"] /\ UNCHANGED <<taskdone, events>>
       \/ Happens /\ Ends(k)
    /\ UNCHANGED <<runvars, listen, stop>>

checkpointWaits(k) == FALSE /\ UNCHANGED vars

\* checkpoint: <-quit
checkpointQuits(k) ==
    /\ quit /\ conn[k] # Nobody /\ conn[k].at \in {"post", "add"}
    /\ Ends(k)
    /\ UNCHANGED <<runvars, listen, stop, events>>

SlotsTaken == Cardinality({k \in Key : conn[k] # Nobody /\ conn[k].slot})

listenLoop ==
    /\ \/ listen = "slot" /\ SlotsTaken < Slots /\ listen' = "accept"
       \/ listen = "accept" /\ quit /\ listen' = "done"
    /\ UNCHANGED <<runvars, taskdone, conn, stop, events>>

Accept(n) ==
    /\ listen = "accept" /\ ~quit /\ Happens /\ listen' = "slot"
    /\ conn[<<n, "in">>] = Nobody /\ NewConn(<<n, "in">>, {"inbound"}, TRUE)
    /\ UNCHANGED <<runvars, taskdone, stop>>

\* handleP2PStream, handleWebrtcStream: a connection that needs no slot.
handleStream(n) ==
    /\ Happens /\ stop # "stopped" /\ conn[<<n, "in">>] = Nobody
    /\ NewConn(<<n, "in">>, {"inbound"}, FALSE)
    /\ UNCHANGED <<runvars, taskdone, listen, stop>>

\* runPeer: the peer's own end.
PeerEnds(p) ==
    /\ p \in procs /\ p.up /\ Happens
    /\ procs' = Disconnect({p})
    /\ UNCHANGED <<cfg, peers, inboundCount, trusted, dial, runningTasks, queuedTasks, at,
                   taskdone, conn, listen, stop>>

Stop ==
    /\ \/ stop = "no" /\ stop' = "waiting"
       \/ stop = "waiting" /\ at = "done" /\ listen = "done" /\ stop' = "stopped"
    /\ UNCHANGED <<runvars, taskdone, conn, listen, events>>

-----------------------------------------------------------------------------
RunStep == RunTaskDone \/ RunDelPeer \/ RunQuit \/ RunSpinDown
TaskStep == \E t \in runningTasks : Dial(t) \/ Lookup(t)
ConnStep(k) == RunPostHandshake(k) \/ RunAddPeer(k) \/ Setup(k) \/ protoHandshake(k) \/ checkpointQuits(k)

Next ==
    \/ RunStep \/ TaskStep \/ listenLoop \/ Stop
    \/ \E n \in Remote : \/ SetTrusted(n) \/ AddPeer(n) \/ RemovePeer(n)
                         \/ Age(n) \/ Accept(n) \/ handleStream(n)
    \/ \E k \in Key : ConnStep(k)
    \/ \E p \in procs : PeerEnds(p)

\* Goroutines that can run do, and a select takes every channel that stays
\* ready in turn.  Nobody has to call Stop.
Fairness ==
    /\ WF_vars(RunTaskDone) /\ WF_vars(RunDelPeer) /\ WF_vars(RunQuit) /\ WF_vars(RunSpinDown)
    /\ WF_vars(TaskStep) /\ WF_vars(listenLoop) /\ WF_vars(quit /\ Stop)
    /\ \A n \in Remote : WF_vars(Age(n))
    /\ \A k \in Key : WF_vars(ConnStep(k))

Spec == Init /\ [][Next]_vars /\ Fairness

-----------------------------------------------------------------------------
(* The map of peers, the count of inbound ones and the goroutines of       *)
(* runPeer describe the same connections, one for each id, however         *)
(* connections from both sides and disconnects interleave (Server.run:     *)
(* addpeer, delpeer).                                                      *)
PeersMatch ==
    /\ {p.id : p \in procs} = Connected(peers)
    /\ Cardinality(procs) = Cardinality(Connected(peers))
    /\ InLoop => inboundCount = Cardinality({p \in procs : "inbound" \in p.flags})

DynDials == {n \in Remote : \/ dial.dialing[n] = "dyn"
                            \/ peers[n] # Nobody /\ "dyn" \in peers[n]}

(* However checks and additions of several connections interleave, peers   *)
(* that are neither trusted nor static stay within MaxPeers, inbound ones  *)
(* that are not trusted within their share, and the dials that the dialer  *)
(* made of its own accord, under way or connected, within theirs.  No node *)
(* is dialled twice at a time: dialing has exactly the nodes of the tasks  *)
(* that run or are queued (encHandshakeChecks, newTasks, taskDone).        *)
WithinLimits ==
    /\ Cardinality({n \in Connected(peers) : peers[n] \cap {"trusted", "static"} = {}})
         <= cfg.MaxPeers
    /\ Cardinality({n \in Connected(peers) : peers[n] \cap {"inbound", "trusted"} = {"inbound"}})
         <= maxInboundConns
    /\ Cardinality(DynDials) <= maxDialedConns
    /\ \A n \in Remote :
         Cardinality({t \in runningTasks : t.do = "dial" /\ t.id = n})
         + Cardinality({i \in DOMAIN queuedTasks : queuedTasks[i].do = "dial"
                                                   /\ queuedTasks[i].id = n})
           = (IF dial.dialing[n] = "no" THEN 0 ELSE 1)

StaticsConnected == ~quit => \A n \in dial.static : peers[n] # Nobody

(* Stop returns, except where a connection's check or its set-up wants     *)
(* srv.lock, which Stop holds while it waits for the loops                 *)
(* (encHandshakeChecks calls Self; SetupConn calls it too while it has a   *)
(* slot of listenLoop).                                                    *)
StopReturns ==
    <>[](stop = "waiting" =>
           \/ at = "locked"
           \/ listen = "slot" /\ \E k \in Key : /\ conn[k] # Nobody /\ conn[k].slot
                                                /\ conn[k].at = "setup")
=============================================================================
