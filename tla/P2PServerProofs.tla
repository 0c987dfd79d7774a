-------------------------- MODULE P2PServerProofs --------------------------
(***************************************************************************)
(* The peers of the server and its limits, for any number of nodes and any *)
(* configuration.                                                          *)
(*                                                                         *)
(* The limit on dials that the dialer makes of its own accord holds across *)
(* three components: the dialer counts nodes it dials and peers, a task of *)
(* such a dial holds the place of its node in dialing until its connection *)
(* is a peer or is gone, and no node has two tasks.                        *)
(***************************************************************************)
EXTENDS P2PServer, FiniteSetTheorems, TLAPS

Tasks ==
    {DialTask(n, f) : n \in Remote, f \in {"static", "dyn"}}
    \cup {WaitTask(n) : n \in Remote} \cup {DiscoverTask}

DialStates ==
    [static : SUBSET Remote, dialing : [Remote -> {"no", "static", "dyn"}],
     hist : [Remote -> {"no", "fresh", "old"}], lookupBuf : SUBSET Remote, lookupRunning : BOOLEAN]

Dials(t, n) == t.do = "dial" /\ t.id = n

\* The running tasks run dial the nodes R, which dialing has.
RunOK(s, run, R) ==
    /\ run \subseteq Tasks /\ IsFiniteSet(run) /\ Cardinality(run) <= MaxActive
    /\ \A t \in run : t.do = "dial" => t.id \in R /\ s.dialing[t.id] = t.flag
    /\ \A n \in R : \E t \in run : Dials(t, n)

\* The tasks ts dial the nodes D, which dialing has, each of them once.
ListOK(s, ts, D) ==
    /\ ts \in Seq(Tasks)
    /\ \A i \in 1 .. Len(ts) :
          ts[i].do = "dial" => ts[i].id \in D /\ s.dialing[ts[i].id] = ts[i].flag
    /\ \A i, j \in 1 .. Len(ts) : ts[i].do = "dial" /\ Dials(ts[j], ts[i].id) => j = i
    /\ \A n \in D : \E i \in 1 .. Len(ts) : Dials(ts[i], n)

\* dialing has the nodes of the tasks that run or are queued.
TasksOK(s, run, queue) ==
    /\ s \in DialStates
    /\ \E R, Q \in SUBSET Remote :
         /\ RunOK(s, run, R) /\ ListOK(s, queue, Q) /\ R \cap Q = {}
         /\ R \cup Q = {n \in Remote : s.dialing[n] # "no"}

DynOf(s, ps) == {n \in Remote : s.dialing[n] = "dyn" \/ (ps[n] # Nobody /\ "dyn" \in ps[n])}

Peers == [Remote -> (SUBSET Flags) \cup {Nobody}]
ConnStates ==
    [at : {"setup", "post", "proto", "add"}, flags : SUBSET Flags, slot : BOOLEAN]

Conns == [Key -> ConnStates \cup {Nobody}]
Procs == [id : Remote, flags : SUBSET Flags, up : BOOLEAN]

ServerTypes ==
    /\ cfg \in Configs /\ peers \in Peers /\ inboundCount \in Int
    /\ conn \in Conns
    /\ procs \subseteq Procs

TasksInv == TasksOK(dial, runningTasks, queuedTasks) /\ taskdone \subseteq runningTasks

\* Each peer has its goroutine, with the same flags.
ProcInv ==
    /\ \A p \in procs : peers[p.id] = p.flags
    /\ \A p, q \in procs : p.id = q.id => p = q
    /\ \A n \in Remote : peers[n] # Nobody => \E p \in procs : p.id = n

InboundPeers == {n \in Remote : peers[n] # Nobody /\ "inbound" \in peers[n]}
CountInv == InLoop => inboundCount = Cardinality(InboundPeers)

\* A connection of a dial that the dialer chose has a task that runs.
DynInv ==
    \A k \in Key : conn[k] # Nobody /\ "dyn" \in conn[k].flags =>
       k[2] = "dial" /\ DialTask(k[1], "dyn") \in runningTasks \ taskdone

PlainPeers == {n \in Remote : peers[n] # Nobody /\ peers[n] \cap {"trusted", "static"} = {}}
UntrustedInbound ==
    {n \in Remote : peers[n] # Nobody /\ peers[n] \cap {"inbound", "trusted"} = {"inbound"}}

LimitInv ==
    /\ Cardinality(PlainPeers) <= cfg.MaxPeers
    /\ Cardinality(UntrustedInbound) <= maxInboundConns
    /\ Cardinality(DynDials) <= maxDialedConns

PeersInv == ServerTypes /\ TasksInv /\ ProcInv /\ CountInv /\ DynInv /\ LimitInv

-----------------------------------------------------------------------------
(* Lists of tasks *)

LEMMA TaskFields ==
    ASSUME NEW t \in Tasks
    PROVE  t.do = "dial" =>
             t.id \in Remote /\ t.flag \in {"static", "dyn"} /\ t = DialTask(t.id, t.flag)
BY DEF Tasks, DialTask, WaitTask, DiscoverTask

LEMMA ListJoin ==
    ASSUME NEW s, NEW a, NEW b, NEW A, NEW B, ListOK(s, a, A), ListOK(s, b, B), A \cap B = {}
    PROVE  ListOK(s, a \o b, A \cup B)
  <1> DEFINE c == a \o b
  <1>1. a \in Seq(Tasks) /\ b \in Seq(Tasks) /\ c \in Seq(Tasks) /\ Len(c) = Len(a) + Len(b)
    BY DEF ListOK
  <1>2. \A i \in 1 .. Len(a) : i \in 1 .. Len(c) /\ c[i] = a[i]
    BY <1>1
  <1>3. \A i \in 1 .. Len(b) : Len(a) + i \in 1 .. Len(c) /\ c[Len(a) + i] = b[i]
    BY <1>1
  <1>4. \A i \in 1 .. Len(c) : \/ i \in 1 .. Len(a) /\ c[i] = a[i]
                               \/ i - Len(a) \in 1 .. Len(b) /\ c[i] = b[i - Len(a)]
    BY <1>1
  <1> HIDE DEF c
  <1>5. \A i \in 1 .. Len(c) : c[i].do = "dial" =>
                                  c[i].id \in A \cup B /\ s.dialing[c[i].id] = c[i].flag
    BY <1>4 DEF ListOK
  <1>6. \A i, j \in 1 .. Len(c) : c[i].do = "dial" /\ Dials(c[j], c[i].id) => j = i
    <2> SUFFICES ASSUME NEW i \in 1 .. Len(c), NEW j \in 1 .. Len(c), c[i].do = "dial",
                        Dials(c[j], c[i].id)
                 PROVE  j = i
      OBVIOUS
    <2>1. CASE c[i].id \in A
      <3>1. i \in 1 .. Len(a) /\ c[i] = a[i] /\ j \in 1 .. Len(a) /\ c[j] = a[j]
        BY <1>4, <2>1 DEF ListOK, Dials
      <3> QED BY <3>1 DEF ListOK
    <2>2. CASE c[i].id \in B
      <3>1. /\ i - Len(a) \in 1 .. Len(b) /\ c[i] = b[i - Len(a)]
            /\ j - Len(a) \in 1 .. Len(b) /\ c[j] = b[j - Len(a)]
        BY <1>4, <2>2 DEF ListOK, Dials
      <3>2. j - Len(a) = i - Len(a)
        BY <3>1 DEF ListOK
      <3> QED BY <1>1, <3>2
    <2> QED BY <1>5, <2>1, <2>2
  <1>7. \A n \in A \cup B : \E i \in 1 .. Len(c) : Dials(c[i], n)
    <2>1. \A n \in A : \E i \in 1 .. Len(c) : Dials(c[i], n)
      BY <1>2 DEF ListOK
    <2>2. \A n \in B : \E i \in 1 .. Len(c) : Dials(c[i], n)
      BY <1>3 DEF ListOK
    <2> QED BY <2>1, <2>2
  <1>8. ListOK(s, c, A \cup B)
    BY <1>1, <1>5, <1>6, <1>7 DEF ListOK, c
  <1> QED BY <1>8 DEF c

LEMMA ListOther ==
    ASSUME NEW s
    PROVE  /\ ListOK(s, <<>>, {}) /\ ListOK(s, <<DiscoverTask>>, {})
           /\ \A n \in Remote : ListOK(s, <<WaitTask(n)>>, {})
  <1>1. DiscoverTask \in Tasks /\ \A n \in Remote : WaitTask(n) \in Tasks
    BY DEF Tasks
  <1>2. DiscoverTask.do # "dial" /\ \A n \in Remote : WaitTask(n).do # "dial"
    BY DEF DiscoverTask, WaitTask
  <1> QED BY <1>1, <1>2 DEF ListOK

LEMMA DialLists ==
    ASSUME NEW s, NEW N \in SUBSET Remote, NEW flag \in {"static", "dyn"},
           NEW ts \in dialTasks(N, flag), \A n \in N : s.dialing[n] = flag
    PROVE  ListOK(s, ts, N)
  <1> DEFINE T == {DialTask(n, flag) : n \in N}
             k == Cardinality(N)
  <1>1. k \in Nat
    BY FS_Subset, FS_CardinalityType, ServerAssumption
  <1>2. /\ ts \in [1 .. k -> T] /\ \A i, j \in 1 .. k : ts[i] = ts[j] => i = j
        /\ \A t \in T : \E i \in 1 .. k : ts[i] = t
    BY DEF dialTasks, Bijection, Injection, Surjection, IsInjective
  <1>3. \A t \in T : t.do = "dial" /\ t.id \in N /\ t.flag = flag /\ t \in Tasks
    BY DEF DialTask, Tasks
  <1>4. \A t, u \in T : t.id = u.id => t = u
    BY DEF DialTask
  <1>5. \A n \in N : DialTask(n, flag) \in T /\ Dials(DialTask(n, flag), n)
    BY DEF DialTask, Dials
  <1> HIDE DEF T, k
  <1>6. ts \in Seq(T) /\ Len(ts) = k
    BY <1>1, <1>2
  <1>7. \A i \in 1 .. Len(ts) : ts[i] \in T
    BY <1>6
  <1>8. ts \in Seq(Tasks)
    BY <1>3, <1>6, <1>7
  <1>9. \A i, j \in 1 .. Len(ts) : ts[i].do = "dial" /\ Dials(ts[j], ts[i].id) => j = i
    BY <1>2, <1>4, <1>6, <1>7 DEF Dials
  <1>10. \A n \in N : \E i \in 1 .. Len(ts) : Dials(ts[i], n)
    BY <1>2, <1>5, <1>6
  <1> QED BY <1>3, <1>7, <1>8, <1>9, <1>10 DEF ListOK

-----------------------------------------------------------------------------
(* newTasks *)

LEMMA Limits ==
    ASSUME cfg \in Configs
    PROVE  maxDialedConns \in Nat /\ maxInboundConns \in Nat /\ cfg.MaxPeers \in Nat
  <1>1. cfg.MaxPeers \in Nat /\ cfg.DialRatio \in Nat \ {0}
    BY ServerAssumption
  <1>2. cfg.MaxPeers \div cfg.DialRatio \in Nat /\ cfg.MaxPeers \div cfg.DialRatio <= cfg.MaxPeers
    BY <1>1
  <1> QED BY <1>1, <1>2 DEF maxDialedConns, maxInboundConns

LEMMA NodeSets ==
    ASSUME NEW N \in SUBSET Remote
    PROVE  /\ IsFiniteSet(N) /\ Cardinality(N) \in Nat /\ (Cardinality(N) = 0 <=> N = {})
           /\ \A M \in SUBSET N : Cardinality(M) <= Cardinality(N)
           /\ \A M \in SUBSET Remote : Cardinality(N \cup M) <= Cardinality(N) + Cardinality(M)
  <1>1. \A M \in SUBSET Remote : IsFiniteSet(M) /\ Cardinality(M) \in Nat
    BY FS_Subset, FS_CardinalityType, ServerAssumption
  <1>2. \A M \in SUBSET N : Cardinality(M) <= Cardinality(N)
    BY <1>1, FS_Subset
  <1>3. ASSUME NEW M \in SUBSET Remote
        PROVE  Cardinality(N \cup M) <= Cardinality(N) + Cardinality(M)
    <2>1. Cardinality(N \cup M) = Cardinality(N) + Cardinality(M) - Cardinality(N \cap M)
      BY <1>1, FS_Union
    <2>2. Cardinality(N \cap M) \in Nat /\ Cardinality(N) \in Nat /\ Cardinality(M) \in Nat
      BY <1>1
    <2> QED BY <2>1, <2>2
  <1> QED BY <1>1, <1>2, <1>3, FS_EmptySet

LEMMA OneMore ==
    ASSUME NEW N \in SUBSET Remote, NEW n
    PROVE  Cardinality(N \cup {n}) \in Nat /\ Cardinality(N \cup {n}) <= Cardinality(N) + 1
  <1>1. IsFiniteSet(N) /\ Cardinality(N) \in Nat
    BY NodeSets
  <1>2. Cardinality(N \cup {n}) = IF n \in N THEN Cardinality(N) ELSE Cardinality(N) + 1
    BY <1>1, FS_AddElement
  <1>3. CASE n \in N
    BY <1>1, <1>2, <1>3
  <1>4. CASE n \notin N
    BY <1>1, <1>2, <1>4
  <1> QED BY <1>3, <1>4

(* The dialer chooses no more nodes than it needs, and only nodes that may *)
(* be dialled.                                                             *)
LEMMA DialsBound ==
    ASSUME NEW s \in DialStates, NEW ps, NEW need \in Int, NEW c \in dynamicDials(s, ps, need)
    PROVE  /\ c.dials \subseteq {n \in Remote : checkDial(s, ps, n)}
           /\ c.buf \subseteq s.lookupBuf
           /\ c.dials = {} \/ Cardinality(c.dials) <= need
  <1> DEFINE ok(N) == {n \in N : checkDial(s, ps, n)}
             Left(N) == need - Cardinality(ok(N))
  <1>1. PICK boot \in SUBSET Remote, random \in SUBSET Remote, found \in SUBSET s.lookupBuf :
          /\ c.dials = ok(boot \cup random \cup found) /\ c.buf = s.lookupBuf \ found
          /\ boot = {} \/ (need > 0 /\ \E n \in BootstrapNodes : boot = {n})
          /\ random = {} \/ Cardinality(random) <= Left(boot) \div 2
          /\ IF Left(boot \cup random) <= 0 THEN found = {}
             ELSE Cardinality(ok(found)) <= Left(boot \cup random)
    <2>1. PICK x : /\ x.boot \in (IF Connected(ps) = {} /\ need > 0
                                  THEN {{n} : n \in BootstrapNodes} ELSE {}) \cup {{}}
                   /\ x.random \in SUBSET Remote /\ x.found \in SUBSET s.lookupBuf
                   /\ x.random \in {R \in SUBSET Remote :
                                      R = {} \/ Cardinality(R) <= Left(x.boot) \div 2}
                   /\ x.found \in (IF Left(x.boot \cup x.random) <= 0 THEN {{}}
                                   ELSE {C \in SUBSET s.lookupBuf :
                                           \/ /\ C = s.lookupBuf
                                              /\ Cardinality(ok(C)) <= Left(x.boot \cup x.random)
                                           \/ Cardinality(ok(C)) = Left(x.boot \cup x.random)})
                   /\ c = [dials |-> ok(x.boot \cup x.random \cup x.found),
                           buf |-> s.lookupBuf \ x.found]
      BY DEF dynamicDials
    <2>2. x.boot = {} \/ (need > 0 /\ \E n \in BootstrapNodes : x.boot = {n})
      BY <2>1
    <2>3. x.boot \in SUBSET Remote
      BY <2>2, ServerAssumption
    <2>4. ok(x.boot \cup x.random) \in SUBSET Remote
      BY <2>1, <2>3
    <2>5. Left(x.boot \cup x.random) \in Int
      BY <2>4, NodeSets
    <2>6. IF Left(x.boot \cup x.random) <= 0 THEN x.found = {}
          ELSE Cardinality(ok(x.found)) <= Left(x.boot \cup x.random)
      BY <2>1, <2>5
    <2> QED BY <2>1, <2>2, <2>3, <2>6
  <1>2. found \in SUBSET Remote
    BY <1>1 DEF DialStates
  <1> DEFINE B == ok(boot)
             R == ok(random)
             F == ok(found)
  <1>3. B \in SUBSET Remote /\ R \in SUBSET Remote /\ F \in SUBSET Remote
    BY <1>1, <1>2
  <1>4. ok(boot \cup random) = B \cup R /\ c.dials = (B \cup R) \cup F
    BY <1>1
  <1>5. /\ Cardinality(B) \in Nat /\ Cardinality(R) \in Nat /\ Cardinality(F) \in Nat
        /\ Cardinality(B \cup R) \in Nat /\ Cardinality(B \cup R) <= Cardinality(B) + Cardinality(R)
        /\ Cardinality((B \cup R) \cup F) \in Nat
        /\ Cardinality((B \cup R) \cup F) <= Cardinality(B \cup R) + Cardinality(F)
    BY <1>3, NodeSets
  <1>6. Cardinality(R) <= Cardinality(random) /\ Cardinality(random) \in Nat
    BY <1>1, NodeSets
  <1>7. B = {} \/ (need > 0 /\ Cardinality(B) <= 1)
    <2>1. ASSUME NEW n, boot = {n} PROVE Cardinality(B) <= 1
      <3>1. Cardinality(boot) = 1
        BY <2>1, FS_Singleton
      <3> QED BY <1>1, <3>1, NodeSets
    <2> QED BY <1>1, <2>1
  <1>8. Cardinality({}) = 0
    BY FS_EmptySet
  <1>9. R = {} \/ Cardinality(R) <= (need - Cardinality(B)) \div 2
    BY <1>1, <1>5, <1>6
  <1>10. IF need - Cardinality(B \cup R) <= 0 THEN F = {}
         ELSE Cardinality(F) <= need - Cardinality(B \cup R)
    BY <1>1, <1>4
  <1> HIDE DEF B, R, F
  <1>11. CASE need <= 0
    <2>1. B = {} /\ Cardinality(B) = 0
      BY <1>7, <1>8, <1>11
    <2>2. R = {}
      BY <1>3, <1>5, <1>9, <1>11, <2>1, NodeSets
    <2>3. F = {}
      BY <1>8, <1>10, <1>11, <2>1, <2>2
    <2> QED BY <1>1, <1>2, <1>4, <2>1, <2>2, <2>3
  <1>12. CASE need > 0
    <2>1. need - Cardinality(B) \in Nat
      <3>1. CASE B = {}
        BY <1>8, <1>12, <3>1
      <3>2. CASE Cardinality(B) <= 1
        BY <1>5, <1>12, <3>2
      <3> QED BY <1>7, <3>1, <3>2
    <2>2. Cardinality(B) + Cardinality(R) <= need
      <3>1. CASE R = {}
        BY <1>5, <1>8, <2>1, <3>1
      <3>2. CASE Cardinality(R) <= (need - Cardinality(B)) \div 2
        <4> DEFINE k == need - Cardinality(B)
        <4>1. k \in Nat /\ Cardinality(R) <= k \div 2
          BY <2>1, <3>2
        <4>2. Cardinality(B) + k = need
          BY <1>5
        <4> HIDE DEF k
        <4>3. Cardinality(R) <= k
          BY <1>5, <4>1
        <4> QED BY <1>5, <4>1, <4>2, <4>3
      <3> QED BY <1>9, <3>1, <3>2
    <2>3. Cardinality(B \cup R) + Cardinality(F) <= need
      <3>1. CASE F = {}
        BY <1>5, <1>8, <2>2, <3>1
      <3>2. CASE Cardinality(F) <= need - Cardinality(B \cup R)
        BY <1>5, <3>2
      <3> QED BY <1>10, <3>1, <3>2
    <2>4. Cardinality(c.dials) <= need
      BY <1>4, <1>5, <2>3
    <2>5. c.buf \subseteq s.lookupBuf /\ c.dials \subseteq {n \in Remote : checkDial(s, ps, n)}
      BY <1>1, <1>2
    <2> QED BY <2>4, <2>5
  <1> QED BY <1>11, <1>12

DynPeers(ps) == {n \in Connected(ps) : "dyn" \in ps[n]}
DynDialing(s) == {n \in Remote : s.dialing[n] = "dyn"}

(***************************************************************************)
(* A list of new tasks is static dials, then dynamic dials, then perhaps a *)
(* discovery lookup.                                                       *)
(***************************************************************************)
LEMMA TaskList ==
    ASSUME NEW s, NEW fixed, NEW c, NEW need, NEW ts \in taskLists(s, fixed, c, need)
    PROVE  \E f \in dialTasks(fixed, "static"), d \in dialTasks(c.dials, "dyn") :
              ts = f \o d \o (IF needsLookup(s, c, need) THEN <<DiscoverTask>> ELSE <<>>)
  BY SMTT(60) DEF taskLists

(* newTasks begins to dial nodes N that were not being dialled, one task   *)
(* for each, and keeps the limit on its own dials.                         *)
LEMMA NewTasksList ==
    ASSUME NEW s0 \in DialStates, NEW nRunning, NEW ps, NEW nt \in newTasks(s0, nRunning, ps),
           cfg \in Configs
    PROVE  /\ nt.s \in DialStates
           /\ \E N \in SUBSET Remote :
                /\ ListOK(nt.s, nt.tasks, N)
                /\ \A n \in N : s0.dialing[n] = "no" /\ nt.s.dialing[n] # "no"
                /\ \A n \in Remote \ N : nt.s.dialing[n] = s0.dialing[n]
           /\ Cardinality(DynOf(s0, ps)) <= maxDialedConns =>
                 Cardinality(DynOf(nt.s, ps)) <= maxDialedConns
  <1> DEFINE s == expire(s0)
             need == needDynDials(s, ps)
             fixed == {n \in s.static : checkDial(s, ps, n)}
             s1 == StartDials(s, fixed, "static")
  <1>1. PICK c \in dynamicDials(s1, ps, need) : \E ts \in taskLists(s1, fixed, c, need) :
          nt \in thenWait(afterDials(s1, c, need), ts, nRunning)
    BY DEF newTasks
  <1>2. PICK ts \in taskLists(s1, fixed, c, need) :
          nt \in thenWait(afterDials(s1, c, need), ts, nRunning)
    BY <1>1
  <1>3. s \in DialStates /\ s.dialing = s0.dialing
    BY DEF expire, DialStates
  <1>4. fixed \in SUBSET Remote /\ \A n \in fixed : s0.dialing[n] = "no"
    BY <1>3 DEF DialStates, checkDial
  <1>5. /\ s1 \in DialStates
        /\ s1.dialing = [n \in Remote |-> IF n \in fixed THEN "static" ELSE s0.dialing[n]]
    BY <1>3 DEF DialStates, StartDials
  <1>6. need \in Int
        /\ need = maxDialedConns - Cardinality(DynPeers(ps)) - Cardinality(DynDialing(s0))
    <2>1. DynPeers(ps) \in SUBSET Remote /\ DynDialing(s0) \in SUBSET Remote
      BY DEF DynPeers, DynDialing, Connected
    <2>2. /\ Cardinality(DynPeers(ps)) \in Nat /\ Cardinality(DynDialing(s0)) \in Nat
          /\ maxDialedConns \in Nat
      BY <2>1, NodeSets, Limits
    <2>3. need = maxDialedConns - Cardinality(DynPeers(ps)) - Cardinality(DynDialing(s0))
      BY <1>3 DEF needDynDials, DynPeers, DynDialing
    <2> QED BY <2>2, <2>3
  <1> HIDE DEF s, need, fixed, s1
  <1>7. /\ c.dials \subseteq {n \in Remote : checkDial(s1, ps, n)} /\ c.buf \subseteq s1.lookupBuf
        /\ c.dials = {} \/ Cardinality(c.dials) <= need
    BY <1>5, <1>6, DialsBound
  <1>8. /\ c.dials \in SUBSET Remote /\ fixed \cap c.dials = {}
        /\ \A n \in c.dials : s0.dialing[n] = "no"
    BY <1>4, <1>5, <1>7 DEF checkDial
  <1> DEFINE s2 == afterDials(s1, c, need)
             N == fixed \cup c.dials
  <1>9. s2 \in DialStates
        /\ s2.dialing = [n \in Remote |-> IF n \in c.dials THEN "dyn" ELSE s1.dialing[n]]
    <2>1. needsLookup(s1, c, need) \in BOOLEAN
      BY DEF needsLookup
    <2>2. StartDials(s1, c.dials, "dyn") \in DialStates
          /\ StartDials(s1, c.dials, "dyn").dialing =
               [n \in Remote |-> IF n \in c.dials THEN "dyn" ELSE s1.dialing[n]]
      BY <1>5 DEF DialStates, StartDials
    <2>3. c.buf \in SUBSET Remote
      BY <1>5, <1>7 DEF DialStates
    <2> QED BY <2>1, <2>2, <2>3 DEF DialStates, afterDials
  <1>10. nt.s = s2 /\ \E w \in waitTasks(nRunning, ts, s2) : nt.tasks = ts \o w
    BY <1>2 DEF thenWait
  <1>11. PICK f \in dialTasks(fixed, "static"), d \in dialTasks(c.dials, "dyn") :
           ts = f \o d \o (IF needsLookup(s1, c, need) THEN <<DiscoverTask>> ELSE <<>>)
    BY <1>2, TaskList
  <1> HIDE DEF s2
  <1>12. /\ \A n \in fixed : s2.dialing[n] = "static"
         /\ \A n \in c.dials : s2.dialing[n] = "dyn"
         /\ \A n \in Remote \ N : s2.dialing[n] = s0.dialing[n]
    BY <1>4, <1>5, <1>8, <1>9
  <1>13. ListOK(s2, ts, N)
    <2>1. ListOK(s2, f, fixed)
      BY <1>4, <1>11, <1>12, DialLists
    <2>2. ListOK(s2, d, c.dials)
      BY <1>8, <1>11, <1>12, DialLists
    <2>3. ListOK(s2, f \o d, N)
      BY <1>8, <2>1, <2>2, ListJoin
    <2>4. ListOK(s2, (f \o d) \o (IF needsLookup(s1, c, need) THEN <<DiscoverTask>> ELSE <<>>),
                 N \cup {})
      BY <2>3, ListJoin, ListOther
    <2> QED BY <1>11, <2>4
  <1>14. ListOK(s2, nt.tasks, N)
    <2>1. PICK w \in waitTasks(nRunning, ts, s2) : nt.tasks = ts \o w
      BY <1>10
    <2>2. w = <<>> \/ \E n \in Remote : w = <<WaitTask(n)>>
      BY DEF waitTasks
    <2>3. ListOK(s2, w, {})
      BY <2>2, ListOther
    <2>4. ListOK(s2, ts \o w, N \cup {})
      BY <1>13, <2>3, ListJoin
    <2> QED BY <2>1, <2>4
  <1>15. ASSUME Cardinality(DynOf(s0, ps)) <= maxDialedConns
         PROVE  Cardinality(DynOf(s2, ps)) <= maxDialedConns
    <2>1. DynOf(s0, ps) = DynPeers(ps) \cup DynDialing(s0)
      BY DEF DynOf, DynPeers, DynDialing, Connected
    <2>2. DynOf(s2, ps) = DynOf(s0, ps) \cup c.dials
      BY <1>4, <1>8, <1>12 DEF DynOf
    <2>3. CASE c.dials = {}
      BY <1>15, <2>2, <2>3
    <2>4. CASE Cardinality(c.dials) <= need
      <3>1. DynPeers(ps) \in SUBSET Remote /\ DynDialing(s0) \in SUBSET Remote
        BY DEF DynPeers, DynDialing, Connected
      <3>2. /\ Cardinality(DynPeers(ps)) \in Nat /\ Cardinality(DynDialing(s0)) \in Nat
            /\ Cardinality(DynOf(s0, ps)) \in Nat /\ Cardinality(DynOf(s2, ps)) \in Nat
            /\ Cardinality(c.dials) \in Nat /\ maxDialedConns \in Nat
        BY <1>8, <2>1, <2>2, <3>1, NodeSets, Limits
      <3>3. Cardinality(DynOf(s0, ps)) <= Cardinality(DynPeers(ps)) + Cardinality(DynDialing(s0))
        BY <2>1, <3>1, NodeSets
      <3>4. Cardinality(DynOf(s2, ps)) <= Cardinality(DynOf(s0, ps)) + Cardinality(c.dials)
        BY <1>8, <2>1, <2>2, <3>1, NodeSets
      <3> QED BY <1>6, <2>4, <3>2, <3>3, <3>4
    <2> QED BY <1>7, <2>3, <2>4
  <1>16. N \in SUBSET Remote /\ \A n \in N : s0.dialing[n] = "no" /\ s2.dialing[n] # "no"
    BY <1>4, <1>8, <1>12
  <1> QED BY <1>9, <1>10, <1>12, <1>14, <1>15, <1>16

-----------------------------------------------------------------------------
(* scheduleTasks *)

(* startTasks moves the first tasks of a list to the running ones, within  *)
(* MaxActive.                                                              *)
LEMMA StartTasksMoves ==
    ASSUME NEW s, NEW run, NEW ts, NEW R, NEW Q, RunOK(s, run, R), ListOK(s, ts, Q), R \cap Q = {}
    PROVE  \E A \in SUBSET Q : /\ RunOK(s, startTasks(run, ts).run, R \cup A)
                               /\ ListOK(s, startTasks(run, ts).rest, Q \ A)
                               /\ run \subseteq startTasks(run, ts).run
  <1> DEFINE room == MaxActive - Cardinality(run)
             k == IF Len(ts) < room THEN Len(ts) ELSE room
             first == SubSeq(ts, 1, k)
             rest == SubSeq(ts, k + 1, Len(ts))
             now == run \cup Range(first)
             A == {n \in Q : \E i \in 1 .. k : Dials(ts[i], n)}
  <1>1. ts \in Seq(Tasks) /\ Cardinality(run) \in Nat /\ IsFiniteSet(run) /\ MaxActive \in Nat
    BY FS_CardinalityType, ServerAssumption DEF RunOK, ListOK
  <1>2. room \in Nat /\ k \in 0 .. Len(ts) /\ k <= room
    BY <1>1 DEF RunOK
  <1>3. startTasks(run, ts) = [run |-> now, rest |-> rest]
    BY DEF startTasks
  <1> HIDE DEF k, room
  <1>4. /\ first \in Seq(Tasks) /\ Len(first) = k
        /\ \A i \in 1 .. k : first[i] = ts[i] /\ i \in 1 .. Len(ts)
    BY <1>1, <1>2
  <1>5. /\ rest \in Seq(Tasks) /\ Len(rest) = Len(ts) - k
        /\ \A i \in 1 .. Len(ts) - k : rest[i] = ts[k + i] /\ k + i \in 1 .. Len(ts)
    BY <1>1, <1>2
  <1> HIDE DEF first, rest
  <1>6. Range(first) = {ts[i] : i \in 1 .. k} /\ Range(first) \subseteq Tasks
    BY <1>4 DEF Range
  <1>7. IsFiniteSet(now) /\ Cardinality(now) <= MaxActive
    <2> DEFINE g == [i \in 1 .. k |-> ts[i]]
    <2>1. IsFiniteSet(1 .. k) /\ Cardinality(1 .. k) = k /\ k \in Nat
      BY <1>2, FS_Interval
    <2>2. g \in Surjection(1 .. k, Range(first))
      BY <1>6 DEF Surjection
    <2>3. IsFiniteSet(Range(first)) /\ Cardinality(Range(first)) <= k
      BY <2>1, <2>2, FS_Surjection
    <2>4. /\ IsFiniteSet(now)
          /\ Cardinality(now) = Cardinality(run) + Cardinality(Range(first))
                                - Cardinality(run \cap Range(first))
      BY <1>1, <2>3, FS_Union
    <2>5. /\ Cardinality(run \cap Range(first)) \in Nat /\ Cardinality(Range(first)) \in Nat
      BY <1>1, <2>3, FS_Intersection, FS_CardinalityType
    <2> QED BY <1>1, <1>2, <2>1, <2>3, <2>4, <2>5 DEF room
  <1>8. RunOK(s, now, R \cup A)
    <2>1. now \subseteq Tasks
      BY <1>6 DEF RunOK
    <2>2. ASSUME NEW t \in now, t.do = "dial" PROVE t.id \in R \cup A /\ s.dialing[t.id] = t.flag
      <3>1. CASE t \in run
        BY <2>2, <3>1 DEF RunOK
      <3>2. ASSUME NEW i \in 1 .. k, t = ts[i] PROVE t.id \in R \cup A /\ s.dialing[t.id] = t.flag
        BY <1>4, <2>2, <3>2 DEF ListOK, Dials
      <3> QED BY <1>6, <3>1, <3>2
    <2>3. ASSUME NEW n \in R \cup A PROVE \E t \in now : Dials(t, n)
      BY <1>6 DEF RunOK
    <2> QED BY <1>7, <2>1, <2>2, <2>3 DEF RunOK
  <1>9. ListOK(s, rest, Q \ A)
    <2>1. ASSUME NEW i \in 1 .. Len(rest), rest[i].do = "dial"
          PROVE  rest[i].id \in Q \ A /\ s.dialing[rest[i].id] = rest[i].flag
      <3>1. rest[i] = ts[k + i] /\ k + i \in 1 .. Len(ts) /\ k + i > k
        BY <1>2, <1>5
      <3>2. ts[k + i].id \in Q /\ s.dialing[ts[k + i].id] = ts[k + i].flag
        BY <2>1, <3>1 DEF ListOK
      <3>3. ASSUME NEW j \in 1 .. k, Dials(ts[j], ts[k + i].id) PROVE FALSE
        <4>1. j \in 1 .. Len(ts) /\ j # k + i
          BY <1>4, <3>1, <1>2
        <4> QED BY <2>1, <3>1, <3>3, <4>1 DEF ListOK
      <3> QED BY <3>1, <3>2, <3>3
    <2>2. ASSUME NEW i \in 1 .. Len(rest), NEW j \in 1 .. Len(rest), rest[i].do = "dial",
                 Dials(rest[j], rest[i].id)
          PROVE  j = i
      <3>1. k + j = k + i
        BY <1>5, <2>2 DEF ListOK
      <3> QED BY <1>2, <1>5, <3>1
    <2>3. ASSUME NEW n \in Q \ A PROVE \E i \in 1 .. Len(rest) : Dials(rest[i], n)
      <3>1. PICK i \in 1 .. Len(ts) : Dials(ts[i], n)
        BY DEF ListOK
      <3>2. i \notin 1 .. k
        BY <3>1
      <3>3. i - k \in 1 .. Len(rest) /\ k + (i - k) = i
        BY <1>1, <1>2, <1>5, <3>2
      <3>4. rest[i - k] = ts[i]
        BY <1>5, <3>3
      <3> QED BY <3>1, <3>3, <3>4
    <2> QED BY <1>5, <2>1, <2>2, <2>3 DEF ListOK
  <1>10. A \in SUBSET Q /\ run \subseteq now
    OBVIOUS
  <1>11. startTasks(run, ts).run = now /\ startTasks(run, ts).rest = rest
    BY <1>3
  <1> HIDE DEF A, now
  <1> SUFFICES /\ RunOK(s, startTasks(run, ts).run, R \cup A)
               /\ ListOK(s, startTasks(run, ts).rest, Q \ A)
               /\ run \subseteq startTasks(run, ts).run
    BY <1>10, Zenon
  <1> QED BY <1>8, <1>9, <1>10, <1>11

(* RunOK and ListOK depend on what dialing has for their nodes.            *)
LEMMA DialingKept ==
    ASSUME NEW s, NEW r, NEW D, \A n \in D : r.dialing[n] = s.dialing[n]
    PROVE  /\ \A run : RunOK(s, run, D) => RunOK(r, run, D)
           /\ \A ts : ListOK(s, ts, D) => ListOK(r, ts, D)
BY DEF RunOK, ListOK

LEMMA SameDialing ==
    ASSUME NEW s, NEW run, NEW queue, TasksOK(s, run, queue),
           NEW r \in DialStates, r.dialing = s.dialing
    PROVE  TasksOK(r, run, queue)
  <1>1. PICK R \in SUBSET Remote, Q \in SUBSET Remote :
          /\ RunOK(s, run, R) /\ ListOK(s, queue, Q) /\ R \cap Q = {}
          /\ R \cup Q = {n \in Remote : s.dialing[n] # "no"}
    BY DEF TasksOK
  <1>2. RunOK(r, run, R) /\ ListOK(r, queue, Q)
    BY <1>1, DialingKept
  <1> QED BY <1>1, <1>2 DEF TasksOK

LEMMA ScheduleKeeps ==
    ASSUME NEW s, NEW run, NEW queue, NEW ps, TasksOK(s, run, queue), cfg \in Configs,
           NEW r \in scheduleTasks(s, run, queue, ps)
    PROVE  /\ TasksOK(r.s, r.run, r.queue) /\ run \subseteq r.run
           /\ Cardinality(DynOf(s, ps)) <= maxDialedConns =>
                 Cardinality(DynOf(r.s, ps)) <= maxDialedConns
  <1> DEFINE q == startTasks(run, queue)
  <1>1. s \in DialStates
    BY DEF TasksOK
  <1>2. PICK R \in SUBSET Remote, Q \in SUBSET Remote :
          /\ RunOK(s, run, R) /\ ListOK(s, queue, Q) /\ R \cap Q = {}
          /\ R \cup Q = {n \in Remote : s.dialing[n] # "no"}
    BY DEF TasksOK
  <1>3. PICK A \in SUBSET Q : /\ RunOK(s, q.run, R \cup A)
                              /\ ListOK(s, q.rest, Q \ A)
                              /\ run \subseteq q.run
    BY <1>2, StartTasksMoves, Zenon
  <1> HIDE DEF q
  <1> DEFINE R1 == R \cup A
             Q1 == Q \ A
  <1>4. /\ R1 \in SUBSET Remote /\ Q1 \in SUBSET Remote /\ R1 \cap Q1 = {}
        /\ R1 \cup Q1 = {n \in Remote : s.dialing[n] # "no"}
    BY <1>2
  <1> HIDE DEF R1, Q1
  <1>5. CASE r = [s |-> s, run |-> q.run, queue |-> q.rest]
    BY <1>1, <1>3, <1>4, <1>5 DEF TasksOK, R1, Q1
  <1>6. ASSUME NEW nt \in newTasks(s, Cardinality(q.run) + Len(q.rest), ps), r = startNew(q, nt)
        PROVE  /\ TasksOK(r.s, r.run, r.queue) /\ run \subseteq r.run
               /\ Cardinality(DynOf(s, ps)) <= maxDialedConns =>
                     Cardinality(DynOf(r.s, ps)) <= maxDialedConns
    <2>1. /\ nt.s \in DialStates
          /\ Cardinality(DynOf(s, ps)) <= maxDialedConns =>
                Cardinality(DynOf(nt.s, ps)) <= maxDialedConns
      BY <1>1, NewTasksList
    <2>2. PICK N \in SUBSET Remote : /\ ListOK(nt.s, nt.tasks, N)
                                     /\ \A n \in N : s.dialing[n] = "no" /\ nt.s.dialing[n] # "no"
                                     /\ \A n \in Remote \ N : nt.s.dialing[n] = s.dialing[n]
      BY <1>1, NewTasksList
    <2>3. R1 \cap N = {} /\ Q1 \cap N = {}
      BY <1>4, <2>2
    <2>4. /\ \A n \in R1 : nt.s.dialing[n] = s.dialing[n]
          /\ \A n \in Q1 : nt.s.dialing[n] = s.dialing[n]
      BY <1>4, <2>2, <2>3
    <2>5. RunOK(nt.s, q.run, R1) /\ ListOK(nt.s, q.rest, Q1)
      BY <1>3, <2>4, DialingKept DEF R1, Q1
    <2> DEFINE st == startTasks(q.run, nt.tasks)
    <2>6. PICK B \in SUBSET N : /\ RunOK(nt.s, st.run, R1 \cup B)
                                /\ ListOK(nt.s, st.rest, N \ B)
                                /\ q.run \subseteq st.run
      BY <2>2, <2>3, <2>5, StartTasksMoves, Zenon
    <2>7. r.s = nt.s /\ r.run = st.run /\ r.queue = q.rest \o st.rest
      BY <1>6 DEF startNew
    <2> HIDE DEF st
    <2>8. ListOK(nt.s, q.rest \o st.rest, Q1 \cup (N \ B))
      BY <2>3, <2>5, <2>6, ListJoin
    <2>9. /\ R1 \cup B \in SUBSET Remote /\ Q1 \cup (N \ B) \in SUBSET Remote
          /\ (R1 \cup B) \cap (Q1 \cup (N \ B)) = {}
      BY <1>4, <2>2, <2>3
    <2>10. (R1 \cup B) \cup (Q1 \cup (N \ B)) = {n \in Remote : nt.s.dialing[n] # "no"}
      BY <1>4, <2>2, <2>3
    <2>11. TasksOK(nt.s, st.run, q.rest \o st.rest)
      BY <2>1, <2>6, <2>8, <2>9, <2>10 DEF TasksOK
    <2> QED BY <1>3, <2>1, <2>6, <2>7, <2>11
  <1> QED BY <1>5, <1>6 DEF scheduleTasks, q

-----------------------------------------------------------------------------
(* Server.run *)

LEMMA LoopKeeps ==
    ASSUME NEW s, NEW run, NEW ps, cfg \in Configs, TasksOK(s, run, queuedTasks),
           Cardinality(DynOf(s, ps)) <= maxDialedConns, Loop(s, run, ps)
    PROVE  /\ TasksOK(dial', runningTasks', queuedTasks') /\ run \subseteq runningTasks'
           /\ Cardinality(DynOf(dial', ps)) <= maxDialedConns
           /\ at' = "select"
BY ScheduleKeeps DEF Loop

(* The part of the invariant that a run of the dialer can disturb.         *)
DialInv == TasksInv /\ Cardinality(DynDials) <= maxDialedConns

(* A loop that changes neither the tasks that run nor the peers.           *)
LEMMA PlainLoop ==
    ASSUME PeersInv, NEW s \in DialStates, s.dialing = dial.dialing, Loop(s, runningTasks, peers),
           UNCHANGED <<cfg, peers>>, taskdone' \subseteq runningTasks
    PROVE  DialInv' /\ runningTasks \subseteq runningTasks' /\ at' = "select"
  <1>1. TasksOK(s, runningTasks, queuedTasks)
    BY SameDialing DEF PeersInv, TasksInv
  <1>2. DynOf(s, peers) = DynDials /\ cfg \in Configs
    BY DEF DynOf, DynDials, PeersInv, ServerTypes
  <1>3. /\ TasksOK(dial', runningTasks', queuedTasks') /\ runningTasks \subseteq runningTasks'
        /\ Cardinality(DynOf(dial', peers)) <= maxDialedConns
        /\ at' = "select"
    BY <1>1, <1>2, LoopKeeps DEF PeersInv, LimitInv
  <1>4. DynOf(dial', peers) = DynDials'
    BY DEF DynOf, DynDials
  <1>5. maxDialedConns' = maxDialedConns
    BY DEF maxDialedConns
  <1> QED BY <1>3, <1>4, <1>5 DEF DialInv, TasksInv

(* Steps that leave the peers alone keep what is counted.                  *)
LEMMA SamePeers ==
    ASSUME PeersInv, UNCHANGED <<cfg, peers, inboundCount>>, InLoop' => InLoop,
           DialInv', ProcInv', DynInv',
           conn' \in Conns,
           procs' \subseteq Procs
    PROVE  PeersInv'
  <1>1. ServerTypes'
    BY DEF PeersInv, ServerTypes, Peers
  <1>2. CountInv'
    BY DEF PeersInv, CountInv, InboundPeers
  <1>3. PlainPeers' = PlainPeers /\ UntrustedInbound' = UntrustedInbound
        /\ maxInboundConns' = maxInboundConns /\ maxDialedConns' = maxDialedConns
    BY DEF PlainPeers, UntrustedInbound, maxInboundConns, maxDialedConns
  <1>4. LimitInv'
    BY <1>3 DEF PeersInv, LimitInv, DialInv
  <1> QED BY <1>1, <1>2, <1>4 DEF PeersInv, DialInv

(* A dialer and tasks that stay as they are.                               *)
LEMMA SameDials ==
    ASSUME PeersInv, UNCHANGED <<cfg, peers, dial, runningTasks, queuedTasks>>,
           taskdone' \subseteq runningTasks
    PROVE  DialInv'
  <1>1. DynDials' = DynDials /\ maxDialedConns' = maxDialedConns
    BY DEF DynDials, maxDialedConns
  <1>2. TasksOK(dial, runningTasks, queuedTasks)'
    BY DEF PeersInv, TasksInv, TasksOK, RunOK, ListOK
  <1> QED BY <1>1, <1>2 DEF PeersInv, LimitInv, DialInv, TasksInv

LEMMA SameProcs ==
    ASSUME PeersInv, UNCHANGED <<peers, procs>>
    PROVE  ProcInv' /\ procs' \subseteq Procs
BY DEF PeersInv, ProcInv, ServerTypes

LEMMA SameConns ==
    ASSUME PeersInv, UNCHANGED conn, runningTasks \ taskdone \subseteq runningTasks' \ taskdone'
    PROVE  DynInv' /\ conn' \in Conns
BY DEF PeersInv, DynInv, ServerTypes

LEMMA DisconnectKeeps ==
    ASSUME PeersInv, NEW P, procs' = Disconnect(P), UNCHANGED peers
    PROVE  ProcInv' /\ procs' \subseteq Procs
  <1> DEFINE down(p) == [p EXCEPT !.up = @ /\ p \notin P]
  <1>1. procs \subseteq Procs
    BY DEF PeersInv, ServerTypes
  <1>2. \A p \in procs : /\ down(p) \in Procs
                         /\ down(p).id = p.id /\ down(p).flags = p.flags
    BY <1>1 DEF Procs
  <1>3. procs' = {down(p) : p \in procs}
    BY DEF Disconnect
  <1> HIDE DEF down
  <1>4. \A p \in procs' : peers'[p.id] = p.flags
    BY <1>2, <1>3 DEF PeersInv, ProcInv
  <1>5. ASSUME NEW p \in procs', NEW q \in procs', p.id = q.id PROVE p = q
    <2>1. PICK x \in procs, y \in procs : p = down(x) /\ q = down(y)
      BY <1>3
    <2>2. x.id = y.id
      BY <1>2, <1>5, <2>1
    <2>3. x = y
      BY <2>2 DEF PeersInv, ProcInv
    <2> QED BY <2>1, <2>3
  <1>6. ASSUME NEW n \in Remote, peers'[n] # Nobody PROVE \E p \in procs' : p.id = n
    <2>1. PICK x \in procs : x.id = n
      BY <1>6 DEF PeersInv, ProcInv
    <2> QED BY <1>2, <1>3, <2>1
  <1> QED BY <1>2, <1>3, <1>4, <1>5, <1>6 DEF ProcInv

(* A connection that begins or goes on.                                    *)
LEMMA ConnGoesOn ==
    ASSUME PeersInv, NEW k \in Key, NEW c \in ConnStates, conn' = [conn EXCEPT ![k] = c],
           "dyn" \in c.flags => k[2] = "dial" /\ DialTask(k[1], "dyn") \in runningTasks \ taskdone,
           runningTasks \subseteq runningTasks', UNCHANGED taskdone
    PROVE  DynInv' /\ conn' \in Conns /\ taskdone' \subseteq runningTasks
  <1>1. conn' \in Conns /\ taskdone' \subseteq runningTasks
    BY DEF PeersInv, ServerTypes, TasksInv, Conns
  <1>2. ASSUME NEW j \in Key, conn'[j] # Nobody, "dyn" \in conn'[j].flags
        PROVE  j[2] = "dial" /\ DialTask(j[1], "dyn") \in runningTasks' \ taskdone'
    <2>1. CASE j = k
      BY <1>2, <2>1 DEF PeersInv, ServerTypes, Conns
    <2>2. CASE j # k
      BY <1>2, <2>2 DEF PeersInv, ServerTypes, DynInv
    <2> QED BY <2>1, <2>2
  <1> QED BY <1>1, <1>2 DEF DynInv

(* With a connection only its own task ends.                               *)
LEMMA ConnEnds ==
    ASSUME PeersInv, NEW k \in Key, Ends(k), runningTasks \subseteq runningTasks'
    PROVE  DynInv' /\ conn' \in Conns /\ taskdone' \subseteq runningTasks
  <1>1. conn' \in Conns /\ taskdone' \subseteq runningTasks
    BY DEF PeersInv, ServerTypes, TasksInv, Ends, Conns
  <1>2. ASSUME NEW j \in Key, conn'[j] # Nobody, "dyn" \in conn'[j].flags
        PROVE  j[2] = "dial" /\ DialTask(j[1], "dyn") \in runningTasks' \ taskdone'
    <2>1. j # k /\ conn[j] # Nobody /\ "dyn" \in conn[j].flags
      BY <1>2 DEF PeersInv, ServerTypes, Ends, Conns
    <2>2. j[2] = "dial" /\ DialTask(j[1], "dyn") \in runningTasks \ taskdone
      BY <2>1 DEF PeersInv, DynInv
    <2>3. k[2] = "dial" => j[1] # k[1]
      BY <2>1, <2>2 DEF Key
    <2>4. DialTask(j[1], "dyn").id = j[1]
      BY DEF DialTask
    <2> QED BY <2>2, <2>3, <2>4 DEF Ends
  <1> QED BY <1>1, <1>2 DEF DynInv

(* Calls that the loop serves.                                             *)
LEMMA CallsKeep ==
    ASSUME PeersInv, NEW n \in Remote, SetTrusted(n) \/ AddPeer(n) \/ RemovePeer(n)
    PROVE  PeersInv'
  <1>1. /\ UNCHANGED <<cfg, peers, inboundCount, taskdone, conn>> /\ InLoop
        /\ taskdone' \subseteq runningTasks
    BY DEF SetTrusted, AddPeer, RemovePeer, PeersInv, TasksInv, InLoop
  <1>2. dial \in DialStates
    BY DEF PeersInv, TasksInv, TasksOK
  <1>3. DialInv' /\ runningTasks \subseteq runningTasks'
    <2>1. CASE SetTrusted(n)
      BY <1>1, <1>2, <2>1, PlainLoop DEF SetTrusted
    <2>2. CASE AddPeer(n)
      <3>1. addStatic(dial, n) \in DialStates /\ addStatic(dial, n).dialing = dial.dialing
        BY <1>2 DEF DialStates, addStatic
      <3> QED BY <1>1, <2>2, <3>1, PlainLoop DEF AddPeer
    <2>3. CASE RemovePeer(n)
      <3>1. removeStatic(dial, n) \in DialStates /\ removeStatic(dial, n).dialing = dial.dialing
        BY <1>2 DEF DialStates, removeStatic
      <3> QED BY <1>1, <2>3, <3>1, PlainLoop DEF RemovePeer
    <2> QED BY <2>1, <2>2, <2>3
  <1>4. ProcInv' /\ procs' \subseteq Procs
    <2>1. CASE RemovePeer(n)
      BY <2>1, DisconnectKeeps DEF RemovePeer
    <2>2. CASE SetTrusted(n) \/ AddPeer(n)
      <3>1. UNCHANGED <<peers, procs>>
        BY <2>2 DEF SetTrusted, AddPeer
      <3> QED BY <3>1, SameProcs
    <2> QED BY <2>1, <2>2
  <1>5. DynInv' /\ conn' \in Conns
    BY <1>1, <1>3, SameConns
  <1> QED BY <1>1, <1>3, <1>4, <1>5, SamePeers

LEMMA RunTaskDoneKeeps ==
    ASSUME PeersInv, RunTaskDone
    PROVE  PeersInv'
  <1>1. PICK t \in taskdone, results \in SUBSET Remote :
          taskdone' = taskdone \ {t} /\ Loop(taskDone(dial, t, results), runningTasks \ {t}, peers)
    BY DEF RunTaskDone
  <1> DEFINE s == taskDone(dial, t, results)
             run == runningTasks \ {t}
  <1>2. PICK R \in SUBSET Remote, Q \in SUBSET Remote :
          /\ RunOK(dial, runningTasks, R) /\ ListOK(dial, queuedTasks, Q) /\ R \cap Q = {}
          /\ R \cup Q = {n \in Remote : dial.dialing[n] # "no"}
    BY DEF PeersInv, TasksInv, TasksOK
  <1>3. /\ t \in runningTasks /\ t \in Tasks /\ runningTasks \subseteq Tasks
        /\ dial \in DialStates /\ cfg \in Configs
        /\ t.do = "dial" => t.id \in R /\ t.id \in Remote
    BY <1>2 DEF PeersInv, TasksInv, TasksOK, RunOK, ServerTypes
  <1>4. ASSUME t.do = "dial"
        PROVE  TasksOK(s, run, queuedTasks) /\ DynOf(s, peers) \subseteq DynDials
    <2>1. s \in DialStates /\ s.dialing = [dial.dialing EXCEPT ![t.id] = "no"]
      BY <1>3, <1>4 DEF taskDone, DialStates
    <2> DEFINE R1 == R \ {t.id}
    <2>2. RunOK(dial, run, R1)
      <3>1. IsFiniteSet(run) /\ Cardinality(run) <= Cardinality(runningTasks)
            /\ Cardinality(run) \in Nat /\ Cardinality(runningTasks) \in Nat
        BY <1>2, FS_Subset, FS_CardinalityType DEF RunOK
      <3>2. run \subseteq Tasks /\ Cardinality(run) <= MaxActive
        BY <1>2, <3>1, ServerAssumption DEF RunOK
      <3>3. ASSUME NEW u \in run, u.do = "dial" PROVE u.id \in R1 /\ dial.dialing[u.id] = u.flag
        <4>1. u.id \in R /\ dial.dialing[u.id] = u.flag /\ dial.dialing[t.id] = t.flag
          BY <1>2, <1>3, <1>4, <3>3 DEF RunOK
        <4>2. u = DialTask(u.id, u.flag) /\ t = DialTask(t.id, t.flag)
          BY <1>3, <1>4, <3>2, <3>3, TaskFields
        <4>3. u.id # t.id
          BY <4>1, <4>2
        <4> QED BY <4>1, <4>3
      <3>4. ASSUME NEW n \in R1 PROVE \E u \in run : Dials(u, n)
        BY <1>2 DEF RunOK, Dials
      <3> QED BY <3>1, <3>2, <3>3, <3>4 DEF RunOK
    <2>3. /\ \A n \in R1 : s.dialing[n] = dial.dialing[n]
          /\ \A n \in Q : s.dialing[n] = dial.dialing[n]
      BY <1>2, <1>3, <1>4, <2>1 DEF DialStates
    <2>4. RunOK(s, run, R1) /\ ListOK(s, queuedTasks, Q)
      BY <1>2, <2>2, <2>3, DialingKept
    <2>5. R1 \cap Q = {} /\ R1 \cup Q = {n \in Remote : s.dialing[n] # "no"}
      BY <1>2, <1>3, <1>4, <2>1 DEF DialStates
    <2>6. TasksOK(s, run, queuedTasks)
      BY <1>2, <2>1, <2>4, <2>5 DEF TasksOK
    <2>7. DynOf(s, peers) \subseteq DynDials
      BY <1>3, <1>4, <2>1 DEF DynOf, DynDials, DialStates
    <2> QED BY <2>6, <2>7
  <1>5. ASSUME t.do # "dial"
        PROVE  TasksOK(s, run, queuedTasks) /\ DynOf(s, peers) \subseteq DynDials
    <2>1. s \in DialStates /\ s.dialing = dial.dialing
      BY <1>3, <1>5 DEF taskDone, DialStates
    <2>2. RunOK(dial, run, R)
      <3>1. IsFiniteSet(run) /\ Cardinality(run) <= Cardinality(runningTasks)
            /\ Cardinality(run) \in Nat /\ Cardinality(runningTasks) \in Nat
        BY <1>2, FS_Subset, FS_CardinalityType DEF RunOK
      <3> QED BY <1>2, <1>5, <3>1, ServerAssumption DEF RunOK, Dials
    <2>3. RunOK(s, run, R) /\ ListOK(s, queuedTasks, Q)
      BY <1>2, <2>1, <2>2, DialingKept
    <2>4. TasksOK(s, run, queuedTasks)
      BY <1>2, <2>1, <2>3 DEF TasksOK
    <2>5. DynOf(s, peers) \subseteq DynDials
      BY <2>1 DEF DynOf, DynDials
    <2> QED BY <2>4, <2>5
  <1>6. TasksOK(s, run, queuedTasks) /\ DynOf(s, peers) \subseteq DynDials
    BY <1>4, <1>5
  <1> HIDE DEF s, run
  <1>7. Cardinality(DynOf(s, peers)) <= maxDialedConns
    <2>1. DynDials \in SUBSET Remote /\ DynOf(s, peers) \in SUBSET Remote
      BY DEF DynDials, DynOf
    <2>2. Cardinality(DynOf(s, peers)) <= Cardinality(DynDials)
      BY <1>6, <2>1, NodeSets
    <2>3. /\ Cardinality(DynDials) \in Nat /\ Cardinality(DynOf(s, peers)) \in Nat
          /\ maxDialedConns \in Nat /\ Cardinality(DynDials) <= maxDialedConns
      BY <1>3, <2>1, NodeSets, Limits DEF PeersInv, LimitInv
    <2> QED BY <2>2, <2>3
  <1>8. Loop(s, run, peers)
    BY <1>1 DEF s, run
  <1>9. /\ TasksOK(dial', runningTasks', queuedTasks') /\ run \subseteq runningTasks'
        /\ Cardinality(DynOf(dial', peers)) <= maxDialedConns
    BY <1>3, <1>6, <1>7, <1>8, LoopKeeps
  <1>10. UNCHANGED <<cfg, peers, inboundCount, conn, procs>> /\ InLoop
    BY DEF RunTaskDone, InLoop
  <1>11. DynOf(dial', peers) = DynDials' /\ maxDialedConns' = maxDialedConns
    BY <1>10 DEF DynOf, DynDials, maxDialedConns
  <1>12. /\ taskdone' \subseteq runningTasks'
         /\ runningTasks \ taskdone \subseteq runningTasks' \ taskdone'
    BY <1>1, <1>9 DEF PeersInv, TasksInv, run
  <1>13. DialInv'
    BY <1>9, <1>11, <1>12 DEF DialInv, TasksInv
  <1> QED BY <1>10, <1>12, <1>13, SameProcs, SameConns, SamePeers

LEMMA RunPostHandshakeKeeps ==
    ASSUME PeersInv, NEW k \in Key, RunPostHandshake(k)
    PROVE  PeersInv'
  <1> DEFINE flags == conn[k].flags \cup (IF k[1] \in trusted THEN {"trusted"} ELSE {})
             passes == encHandshakeChecks(k[1], flags)
  <1>1. /\ InLoop /\ conn[k] # Nobody /\ conn[k] \in ConnStates /\ dial \in DialStates
        /\ taskdone \subseteq runningTasks
    BY DEF RunPostHandshake, InLoop, PeersInv, ServerTypes, TasksInv, TasksOK, Conns
  <1>2. \/ WaitForLock
        \/ /\ \/ /\ conn' = [conn EXCEPT ![k].at = "proto", ![k].flags = flags]
                 /\ UNCHANGED taskdone
              \/ Ends(k)
           /\ Loop(dial, runningTasks, peers)
           /\ UNCHANGED <<peers, inboundCount, procs>>
    BY DEF RunPostHandshake
  <1>3. UNCHANGED cfg
    BY DEF RunPostHandshake
  <1> HIDE DEF flags, passes
  <1>4. CASE WaitForLock
    <2>1. UNCHANGED <<cfg, peers, inboundCount, dial, runningTasks, queuedTasks, taskdone,
                      conn, procs>>
      BY <1>3, <1>4 DEF WaitForLock
    <2>2. DialInv'
      BY <1>1, <2>1, SameDials
    <2> QED BY <1>1, <2>1, <2>2, SameProcs, SameConns, SamePeers
  <1>5. CASE /\ Loop(dial, runningTasks, peers) /\ UNCHANGED <<peers, inboundCount, procs>>
             /\ conn' = [conn EXCEPT ![k].at = "proto", ![k].flags = flags] /\ UNCHANGED taskdone
    <2> DEFINE c == [conn[k] EXCEPT !.at = "proto", !.flags = flags]
    <2>1. flags \in SUBSET Flags
      BY <1>1 DEF flags, ConnStates, Flags
    <2>2. c \in ConnStates /\ c.flags = flags
      BY <1>1, <2>1 DEF ConnStates
    <2>3. conn' = [conn EXCEPT ![k] = c]
      BY <1>5
    <2>4. "dyn" \in flags => "dyn" \in conn[k].flags
      BY DEF flags
    <2>5. "dyn" \in c.flags => k[2] = "dial" /\ DialTask(k[1], "dyn") \in runningTasks \ taskdone
      BY <1>1, <2>2, <2>4 DEF PeersInv, DynInv
    <2>6. DialInv' /\ runningTasks \subseteq runningTasks'
      BY <1>1, <1>3, <1>5, PlainLoop
    <2> HIDE DEF c
    <2>7. DynInv' /\ conn' \in Conns
      BY <1>5, <2>2, <2>3, <2>5, <2>6, ConnGoesOn
    <2> QED BY <1>1, <1>3, <1>5, <2>6, <2>7, SameProcs, SamePeers
  <1>6. CASE Loop(dial, runningTasks, peers) /\ UNCHANGED <<peers, inboundCount, procs>> /\ Ends(k)
    <2>1. taskdone' \subseteq runningTasks
      BY <1>1, <1>6 DEF Ends
    <2>2. DialInv' /\ runningTasks \subseteq runningTasks'
      BY <1>1, <1>3, <1>6, <2>1, PlainLoop
    <2>3. DynInv' /\ conn' \in Conns
      BY <1>6, <2>2, ConnEnds
    <2> QED BY <1>1, <1>3, <1>6, <2>2, <2>3, SameProcs, SamePeers
  <1> QED BY <1>2, <1>4, <1>5, <1>6

(* A new peer that the dialer chose takes the place of its node in dialing *)
(* and so needs no room.                                                   *)
LEMMA RunAddPeerKeeps ==
    ASSUME PeersInv, NEW k \in Key, RunAddPeer(k)
    PROVE  PeersInv'
  <1> DEFINE n == k[1]
             flags == conn[k].flags
             ps == [peers EXCEPT ![n] = flags]
  <1>1. /\ InLoop /\ conn[k] # Nobody /\ conn[k] \in ConnStates /\ dial \in DialStates
        /\ taskdone \subseteq runningTasks /\ cfg \in Configs /\ UNCHANGED cfg
        /\ peers \in Peers /\ n \in Remote /\ inboundCount \in Int
    BY DEF RunAddPeer, InLoop, PeersInv, ServerTypes, TasksInv, TasksOK, Key, Conns
  <1>2. flags \in SUBSET Flags /\ flags # Nobody
    BY <1>1, ServerAssumption DEF ConnStates
  <1>3. CASE WaitForLock
    <2>1. UNCHANGED <<cfg, peers, inboundCount, dial, runningTasks, queuedTasks, taskdone,
                      conn, procs>>
      BY <1>1, <1>3 DEF WaitForLock
    <2>2. DialInv'
      BY <1>1, <2>1, SameDials
    <2> QED BY <1>1, <2>1, <2>2, SameProcs, SameConns, SamePeers
  <1>4. CASE Ends(k) /\ Loop(dial, runningTasks, peers) /\ UNCHANGED <<peers, inboundCount, procs>>
    <2>1. taskdone' \subseteq runningTasks
      BY <1>1, <1>4 DEF Ends
    <2>2. DialInv' /\ runningTasks \subseteq runningTasks'
      BY <1>1, <1>4, <2>1, PlainLoop
    <2>3. DynInv' /\ conn' \in Conns
      BY <1>4, <2>2, ConnEnds
    <2> QED BY <1>1, <1>4, <2>2, <2>3, SameProcs, SamePeers
  <1>5. CASE /\ encHandshakeChecks(n, flags)
             /\ procs' = procs \cup {[id |-> n, flags |-> flags, up |-> TRUE]}
             /\ inboundCount' = inboundCount + (IF "inbound" \in flags THEN 1 ELSE 0)
             /\ peers' = ps /\ Loop(dial, runningTasks, ps) /\ Ends(k)
    <2>1. peers[n] = Nobody /\ ps \in Peers
      BY <1>1, <1>2, <1>5 DEF encHandshakeChecks, Peers
    <2>2. \A m \in Remote : ps[m] = IF m = n THEN flags ELSE peers[m]
      BY <1>1 DEF Peers
    <2>3. /\ TasksOK(dial', runningTasks', queuedTasks') /\ runningTasks \subseteq runningTasks'
          /\ Cardinality(DynOf(dial', ps)) <= maxDialedConns
      <3>1. "dyn" \in flags => dial.dialing[n] = "dyn"
        <4>1. "dyn" \in flags => DialTask(n, "dyn") \in runningTasks
          BY <1>1 DEF PeersInv, DynInv
        <4>2. LET t == DialTask(n, "dyn") IN t.do = "dial" /\ t.id = n /\ t.flag = "dyn"
          BY DEF DialTask
        <4>3. PICK R \in SUBSET Remote : RunOK(dial, runningTasks, R)
          BY DEF PeersInv, TasksInv, TasksOK
        <4> QED BY <4>1, <4>2, <4>3 DEF RunOK
      <3>2. DynOf(dial, ps) \subseteq DynDials
        BY <2>2, <3>1 DEF DynOf, DynDials
      <3>3. DynDials \in SUBSET Remote /\ DynOf(dial, ps) \in SUBSET Remote
        BY DEF DynDials, DynOf
      <3>4. /\ Cardinality(DynOf(dial, ps)) <= Cardinality(DynDials)
            /\ Cardinality(DynDials) \in Nat /\ Cardinality(DynOf(dial, ps)) \in Nat
            /\ maxDialedConns \in Nat /\ Cardinality(DynDials) <= maxDialedConns
        BY <1>1, <3>2, <3>3, NodeSets, Limits DEF PeersInv, LimitInv
      <3>5. Cardinality(DynOf(dial, ps)) <= maxDialedConns
        BY <3>4
      <3> QED BY <1>1, <1>5, <3>5, LoopKeeps DEF PeersInv, TasksInv
    <2>4. DynInv' /\ conn' \in Conns /\ taskdone' \subseteq runningTasks
      BY <1>5, <2>3, ConnEnds
    <2>5. TasksInv'
      BY <2>3, <2>4 DEF TasksInv
    <2>6. ProcInv' /\ procs' \subseteq Procs
      <3> DEFINE new == [id |-> n, flags |-> flags, up |-> TRUE]
      <3>1. new \in Procs /\ new.id = n /\ new.flags = flags
        BY <1>1, <1>2 DEF Procs
      <3>2. procs' = procs \cup {new} /\ procs \subseteq Procs
        BY <1>5 DEF PeersInv, ServerTypes
      <3> HIDE DEF new
      <3>3. \A p \in procs : peers[p.id] = p.flags /\ p.flags # Nobody
        BY <3>2, ServerAssumption DEF PeersInv, ProcInv, Procs
      <3>4. \A p \in procs : p.id # n /\ p.id \in Remote
        BY <2>1, <3>2, <3>3 DEF Procs
      <3>5. \A p \in procs' : peers'[p.id] = p.flags
        BY <1>1, <1>5, <2>2, <3>1, <3>2, <3>3, <3>4
      <3>6. \A p, q \in procs' : p.id = q.id => p = q
        BY <3>1, <3>2, <3>4 DEF PeersInv, ProcInv
      <3>7. \A m \in Remote : peers'[m] # Nobody => \E p \in procs' : p.id = m
        BY <1>5, <2>2, <3>1, <3>2 DEF PeersInv, ProcInv
      <3> QED BY <3>1, <3>2, <3>5, <3>6, <3>7 DEF ProcInv
    <2> DEFINE I == InboundPeers
               U == UntrustedInbound
               P == PlainPeers
    <2>7. /\ I \in SUBSET Remote /\ U \in SUBSET I /\ P \in SUBSET Connected(peers)
          /\ Connected(peers) \in SUBSET Remote /\ n \notin I
      BY <2>1 DEF InboundPeers, UntrustedInbound, PlainPeers, Connected
    <2>8. /\ Cardinality(I) \in Nat /\ Cardinality(U) \in Nat /\ Cardinality(P) \in Nat
          /\ Cardinality(Connected(peers)) \in Nat
          /\ Cardinality(U) <= Cardinality(I) /\ Cardinality(P) <= Cardinality(Connected(peers))
          /\ IsFiniteSet(I) /\ IsFiniteSet(U) /\ IsFiniteSet(P)
      BY <2>7, NodeSets
    <2>9. inboundCount = Cardinality(I)
      BY <1>1 DEF PeersInv, CountInv
    <2>10. inboundCount' = Cardinality(InboundPeers')
      <3>1. InboundPeers' = IF "inbound" \in flags THEN I \cup {n} ELSE I
        BY <1>1, <1>2, <1>5, <2>1, <2>2 DEF InboundPeers
      <3>2. Cardinality(I \cup {n}) = Cardinality(I) + 1
        BY <2>7, <2>8, FS_AddElement
      <3> QED BY <1>5, <2>8, <2>9, <3>1, <3>2
    <2>11. Cardinality(PlainPeers') <= cfg.MaxPeers
      <3>1. CASE flags \cap {"trusted", "static"} = {}
        <4>1. PlainPeers' = P \cup {n}
          BY <1>1, <1>2, <1>5, <2>2, <3>1 DEF PlainPeers
        <4>2. Cardinality(P \cup {n}) <= Cardinality(P) + 1 /\ Cardinality(P \cup {n}) \in Nat
          BY <2>7, OneMore
        <4>3. Cardinality(Connected(peers)) < cfg.MaxPeers /\ cfg.MaxPeers \in Nat
          BY <1>1, <1>5, <3>1, Limits DEF encHandshakeChecks
        <4> QED BY <2>8, <4>1, <4>2, <4>3
      <3>2. CASE flags \cap {"trusted", "static"} # {}
        <4>1. PlainPeers' = P
          BY <1>1, <1>5, <2>1, <2>2, <3>2 DEF PlainPeers
        <4> QED BY <4>1 DEF PeersInv, LimitInv
      <3> QED BY <3>1, <3>2
    <2>12. Cardinality(UntrustedInbound') <= maxInboundConns
      <3>1. CASE "inbound" \in flags /\ "trusted" \notin flags
        <4>1. UntrustedInbound' = U \cup {n}
          BY <1>1, <1>2, <1>5, <2>2, <3>1 DEF UntrustedInbound
        <4>2. Cardinality(U \cup {n}) <= Cardinality(U) + 1 /\ Cardinality(U \cup {n}) \in Nat
          BY <2>7, OneMore
        <4>3. inboundCount < maxInboundConns /\ maxInboundConns \in Nat
          BY <1>1, <1>5, <3>1, Limits DEF encHandshakeChecks
        <4> QED BY <2>8, <2>9, <4>1, <4>2, <4>3
      <3>2. CASE ~("inbound" \in flags /\ "trusted" \notin flags)
        <4>1. UntrustedInbound' = U
          BY <1>1, <1>5, <2>1, <2>2, <3>2 DEF UntrustedInbound
        <4> QED BY <4>1 DEF PeersInv, LimitInv
      <3> QED BY <3>1, <3>2
    <2>13. /\ DynOf(dial', ps) = DynDials' /\ cfg' = cfg
           /\ maxDialedConns' = maxDialedConns /\ maxInboundConns' = maxInboundConns
      BY <1>1, <1>5 DEF DynOf, DynDials, maxDialedConns, maxInboundConns
    <2>14. LimitInv'
      BY <2>3, <2>11, <2>12, <2>13 DEF LimitInv
    <2>15. ServerTypes'
      BY <1>1, <1>5, <2>1, <2>4, <2>6, <2>13 DEF ServerTypes, Peers
    <2>16. CountInv'
      BY <2>10 DEF CountInv
    <2> QED BY <2>4, <2>5, <2>6, <2>14, <2>15, <2>16 DEF PeersInv
  <1> QED BY <1>3, <1>4, <1>5 DEF RunAddPeer

(* The peer p is gone: what is counted can only shrink.                    *)
LEMMA PeerGone ==
    ASSUME PeersInv, NEW p \in procs, procs' = procs \ {p},
           peers' = [peers EXCEPT ![p.id] = Nobody],
           UNCHANGED cfg
    PROVE  /\ p.id \in Remote /\ peers[p.id] = p.flags /\ p.flags # Nobody
           /\ peers' \in Peers
           /\ \A m \in Remote : peers'[m] = IF m = p.id THEN Nobody ELSE peers[m]
           /\ ProcInv' /\ procs' \subseteq Procs
           /\ Cardinality(PlainPeers') <= cfg'.MaxPeers
           /\ Cardinality(UntrustedInbound') <= maxInboundConns'
  <1>1. /\ p.id \in Remote /\ peers[p.id] = p.flags /\ p.flags # Nobody
        /\ peers \in Peers /\ cfg \in Configs
        /\ procs \subseteq Procs
    BY ServerAssumption DEF PeersInv, ServerTypes, ProcInv, Procs
  <1>2. peers' \in Peers /\ \A m \in Remote : peers'[m] = IF m = p.id THEN Nobody ELSE peers[m]
    BY <1>1 DEF Peers
  <1>3. ProcInv'
    <2>1. \A q \in procs' : q \in procs /\ q.id # p.id /\ q.id \in Remote
      BY <1>1 DEF PeersInv, ProcInv, Procs
    <2>2. \A q \in procs' : peers'[q.id] = q.flags
      BY <1>2, <2>1 DEF PeersInv, ProcInv
    <2>3. \A q, r \in procs' : q.id = r.id => q = r
      BY <2>1 DEF PeersInv, ProcInv
    <2>4. \A m \in Remote : peers'[m] # Nobody => \E q \in procs' : q.id = m
      BY <1>2 DEF PeersInv, ProcInv
    <2> QED BY <2>2, <2>3, <2>4 DEF ProcInv
  <1>4. /\ PlainPeers' \in SUBSET PlainPeers /\ PlainPeers \in SUBSET Remote
        /\ UntrustedInbound' \in SUBSET UntrustedInbound /\ UntrustedInbound \in SUBSET Remote
    BY <1>2 DEF PlainPeers, UntrustedInbound
  <1>5. /\ Cardinality(PlainPeers') <= Cardinality(PlainPeers)
        /\ Cardinality(UntrustedInbound') <= Cardinality(UntrustedInbound)
        /\ Cardinality(PlainPeers) \in Nat /\ Cardinality(UntrustedInbound) \in Nat
    BY <1>4, NodeSets
  <1>6. Cardinality(PlainPeers') \in Nat /\ Cardinality(UntrustedInbound') \in Nat
    <2>1. PlainPeers' \in SUBSET Remote /\ UntrustedInbound' \in SUBSET Remote
      BY <1>4
    <2> QED BY <2>1, NodeSets
  <1>7. /\ maxInboundConns' = maxInboundConns /\ maxInboundConns \in Nat /\ cfg.MaxPeers \in Nat
    BY <1>1, Limits DEF maxInboundConns, maxDialedConns
  <1>8. Cardinality(PlainPeers) <= cfg.MaxPeers /\ Cardinality(UntrustedInbound) <= maxInboundConns
    BY DEF PeersInv, LimitInv
  <1> QED BY <1>1, <1>2, <1>3, <1>5, <1>6, <1>7, <1>8

LEMMA RunDelPeerKeeps ==
    ASSUME PeersInv, RunDelPeer
    PROVE  PeersInv'
  <1>1. PICK p \in procs : /\ procs' = procs \ {p}
                           /\ peers' = [peers EXCEPT ![p.id] = Nobody]
                           /\ Loop(dial, runningTasks, peers')
                           /\ inboundCount' = inboundCount
                                              - (IF "inbound" \in p.flags THEN 1 ELSE 0)
    BY DEF RunDelPeer
  <1>2. InLoop /\ UNCHANGED <<cfg, taskdone, conn>> /\ cfg \in Configs /\ inboundCount \in Int
    BY DEF RunDelPeer, InLoop, PeersInv, ServerTypes
  <1>3. /\ p.id \in Remote /\ peers[p.id] = p.flags /\ p.flags # Nobody
        /\ peers' \in Peers /\ \A m \in Remote : peers'[m] = IF m = p.id THEN Nobody ELSE peers[m]
        /\ ProcInv' /\ procs' \subseteq Procs
        /\ Cardinality(PlainPeers') <= cfg'.MaxPeers
        /\ Cardinality(UntrustedInbound') <= maxInboundConns'
    BY <1>1, <1>2, PeerGone
  <1>4. Cardinality(DynOf(dial, peers')) <= maxDialedConns
    <2>1. /\ DynOf(dial, peers') \in SUBSET DynDials
          /\ DynDials \in SUBSET Remote /\ DynOf(dial, peers') \in SUBSET Remote
      BY <1>3 DEF DynOf, DynDials
    <2>2. /\ Cardinality(DynOf(dial, peers')) <= Cardinality(DynDials)
          /\ Cardinality(DynDials) \in Nat /\ Cardinality(DynOf(dial, peers')) \in Nat
          /\ maxDialedConns \in Nat /\ Cardinality(DynDials) <= maxDialedConns
      BY <1>2, <2>1, NodeSets, Limits DEF PeersInv, LimitInv
    <2> QED BY <2>2
  <1>5. /\ TasksOK(dial', runningTasks', queuedTasks') /\ runningTasks \subseteq runningTasks'
        /\ Cardinality(DynOf(dial', peers')) <= maxDialedConns
    BY <1>1, <1>2, <1>4, LoopKeeps DEF PeersInv, TasksInv
  <1>6. TasksInv' /\ runningTasks \ taskdone \subseteq runningTasks' \ taskdone'
    BY <1>2, <1>5 DEF PeersInv, TasksInv
  <1>7. DynInv' /\ conn' \in Conns
    BY <1>2, <1>6, SameConns
  <1>8. CountInv' /\ inboundCount' \in Int
    <2>1. InboundPeers' = InboundPeers \ {p.id}
      BY <1>3 DEF InboundPeers
    <2>2. p.id \in InboundPeers <=> "inbound" \in p.flags
      BY <1>3 DEF InboundPeers
    <2>3. /\ IsFiniteSet(InboundPeers) /\ Cardinality(InboundPeers) \in Nat
          /\ inboundCount = Cardinality(InboundPeers)
      BY <1>2, NodeSets DEF InboundPeers, PeersInv, CountInv
    <2>4. Cardinality(InboundPeers \ {p.id}) =
            IF p.id \in InboundPeers THEN Cardinality(InboundPeers) - 1
                                     ELSE Cardinality(InboundPeers)
      BY <2>3, FS_RemoveElement
    <2>5. inboundCount' = Cardinality(InboundPeers')
      BY <1>1, <2>1, <2>2, <2>3, <2>4
    <2> QED BY <1>1, <1>2, <2>5 DEF CountInv
  <1>9. LimitInv'
    <2>1. DynOf(dial', peers') = DynDials' /\ maxDialedConns' = maxDialedConns
      BY <1>2 DEF DynOf, DynDials, maxDialedConns
    <2> QED BY <1>3, <1>5, <2>1 DEF LimitInv
  <1>10. ServerTypes'
    BY <1>2, <1>3, <1>7, <1>8 DEF ServerTypes, Peers
  <1> QED BY <1>3, <1>6, <1>7, <1>8, <1>9, <1>10 DEF PeersInv

(* After the loop nobody counts the inbound peers.                         *)
LEMMA RunSpinDownKeeps ==
    ASSUME PeersInv, RunSpinDown
    PROVE  PeersInv'
  <1>1. /\ UNCHANGED <<cfg, inboundCount, dial, runningTasks, queuedTasks, taskdone, conn>>
        /\ ~InLoop' /\ cfg \in Configs /\ inboundCount \in Int
    BY DEF RunSpinDown, InLoop, PeersInv, ServerTypes
  <1>2. taskdone' \subseteq runningTasks
    BY <1>1 DEF PeersInv, TasksInv
  <1>3. DynInv' /\ conn' \in Conns
    BY <1>1, SameConns
  <1>4. CASE UNCHANGED <<peers, procs>>
    <2>1. DialInv'
      BY <1>1, <1>2, <1>4, SameDials
    <2> QED BY <1>1, <1>3, <1>4, <2>1, SameProcs, SamePeers
  <1>5. ASSUME NEW p \in procs, procs' = procs \ {p}, peers' = [peers EXCEPT ![p.id] = Nobody]
        PROVE  PeersInv'
    <2>1. /\ peers' \in Peers /\ \A m \in Remote : peers'[m] = IF m = p.id THEN Nobody ELSE peers[m]
          /\ ProcInv' /\ procs' \subseteq Procs
          /\ Cardinality(PlainPeers') <= cfg'.MaxPeers
          /\ Cardinality(UntrustedInbound') <= maxInboundConns'
      BY <1>1, <1>5, PeerGone
    <2>2. Cardinality(DynDials') <= maxDialedConns'
      <3>1. /\ DynDials' \in SUBSET DynDials /\ DynDials \in SUBSET Remote
            /\ DynDials' \in SUBSET Remote
        BY <1>1, <2>1 DEF DynDials
      <3>2. /\ Cardinality(DynDials') <= Cardinality(DynDials)
            /\ Cardinality(DynDials) \in Nat /\ Cardinality(DynDials') \in Nat
            /\ maxDialedConns \in Nat /\ Cardinality(DynDials) <= maxDialedConns
        BY <1>1, <3>1, NodeSets, Limits DEF PeersInv, LimitInv
      <3>3. maxDialedConns' = maxDialedConns
        BY <1>1 DEF maxDialedConns
      <3> QED BY <3>2, <3>3
    <2>3. TasksInv'
      <3>1. TasksOK(dial, runningTasks, queuedTasks)'
        BY <1>1 DEF PeersInv, TasksInv, TasksOK, RunOK, ListOK
      <3> QED BY <1>1, <1>2, <3>1 DEF TasksInv
    <2>4. ServerTypes'
      BY <1>1, <1>3, <2>1 DEF ServerTypes, Peers
    <2> QED BY <1>1, <1>3, <2>1, <2>2, <2>3, <2>4 DEF PeersInv, CountInv, LimitInv
  <1> QED BY <1>4, <1>5 DEF RunSpinDown

-----------------------------------------------------------------------------
(* Steps around the loop *)

(* A step that changes neither the peers nor the dials, and leaves the     *)
(* tasks of connections alone.                                             *)
LEMMA AsideKeeps ==
    ASSUME PeersInv, UNCHANGED <<cfg, peers, inboundCount, dial, runningTasks, queuedTasks>>,
           InLoop' => InLoop, taskdone' \subseteq runningTasks, ProcInv', DynInv',
           conn' \in Conns,
           procs' \subseteq Procs
    PROVE  PeersInv'
BY SameDials, SamePeers

LEMMA LeavingKeeps ==
    ASSUME PeersInv, RunQuit \/ \E p \in procs : PeerEnds(p)
    PROVE  PeersInv'
  <1>1. /\ UNCHANGED <<cfg, peers, inboundCount, dial, runningTasks, queuedTasks, taskdone, conn>>
        /\ InLoop' => InLoop
        /\ \E P : procs' = Disconnect(P)
    BY DEF RunQuit, PeerEnds, InLoop
  <1>2. ProcInv' /\ procs' \subseteq Procs
    BY <1>1, DisconnectKeeps
  <1>3. taskdone' \subseteq runningTasks
    BY <1>1 DEF PeersInv, TasksInv
  <1> QED BY <1>1, <1>2, <1>3, SameConns, AsideKeeps

LEMMA TaskStepKeeps ==
    ASSUME PeersInv, NEW t \in runningTasks, Dial(t) \/ Lookup(t)
    PROVE  PeersInv'
  <1>1. /\ UNCHANGED <<cfg, peers, inboundCount, dial, runningTasks, queuedTasks, procs>>
        /\ InLoop' = InLoop
    BY DEF Dial, Lookup, runvars, InLoop
  <1>2. t \in Tasks /\ t \notin taskdone /\ taskdone \subseteq runningTasks
    BY DEF Dial, Lookup, PeersInv, TasksInv, TasksOK, RunOK
  <1>3. CASE /\ t.do = "dial" /\ conn[<<t.id, "dial">>] = Nobody
             /\ taskdone' = taskdone \cup {t} /\ UNCHANGED conn
    <2>1. \A k \in Key : conn[k] # Nobody /\ "dyn" \in conn[k].flags =>
                            k[2] = "dial" /\ DialTask(k[1], "dyn") \in runningTasks' \ taskdone'
      <3> SUFFICES ASSUME NEW k \in Key, conn[k] # Nobody, "dyn" \in conn[k].flags
                   PROVE  k[2] = "dial" /\ DialTask(k[1], "dyn") \in runningTasks' \ taskdone'
        OBVIOUS
      <3>1. k[2] = "dial" /\ DialTask(k[1], "dyn") \in runningTasks \ taskdone
        BY DEF PeersInv, DynInv
      <3>2. k = <<k[1], "dial">>
        BY <3>1 DEF Key
      <3>3. DialTask(k[1], "dyn") # t
        BY <1>3, <3>2 DEF DialTask
      <3> QED BY <1>1, <1>3, <3>1, <3>3
    <2>2. DynInv' /\ conn' \in Conns /\ taskdone' \subseteq runningTasks
      BY <1>2, <1>3, <2>1 DEF DynInv, PeersInv, ServerTypes
    <2> QED BY <1>1, <2>2, SameProcs, AsideKeeps
  <1>4. CASE Lookup(t)
    <2>1. t.do # "dial" /\ taskdone' = taskdone \cup {t} /\ UNCHANGED conn
      BY <1>4 DEF Lookup
    <2>2. \A n : DialTask(n, "dyn") # t
      BY <2>1 DEF DialTask
    <2>3. DynInv' /\ conn' \in Conns /\ taskdone' \subseteq runningTasks
      BY <1>1, <1>2, <2>1, <2>2 DEF DynInv, PeersInv, ServerTypes
    <2> QED BY <1>1, <2>3, SameProcs, AsideKeeps
  <1>5. CASE t.do = "dial" /\ NewConn(<<t.id, "dial">>, {t.flag}, FALSE) /\ UNCHANGED taskdone
    <2> DEFINE k == <<t.id, "dial">>
               c == [at |-> "setup", flags |-> {t.flag}, slot |-> FALSE]
    <2>1. t.id \in Remote /\ t.flag \in {"static", "dyn"} /\ t = DialTask(t.id, t.flag)
      BY <1>2, <1>5, TaskFields
    <2>2. k \in Key /\ c \in ConnStates /\ conn' = [conn EXCEPT ![k] = c]
      BY <1>5, <2>1 DEF Key, ConnStates, NewConn, Flags
    <2>3. "dyn" \in c.flags => k[2] = "dial" /\ DialTask(k[1], "dyn") \in runningTasks \ taskdone
      BY <1>2, <2>1
    <2> HIDE DEF k, c
    <2>4. DynInv' /\ conn' \in Conns /\ taskdone' \subseteq runningTasks
      BY <1>1, <1>5, <2>2, <2>3, ConnGoesOn
    <2> QED BY <1>1, <2>4, SameProcs, AsideKeeps
  <1> QED BY <1>3, <1>4, <1>5 DEF Dial

LEMMA ConnStepKeeps ==
    ASSUME PeersInv, NEW k \in Key, Setup(k) \/ protoHandshake(k) \/ checkpointQuits(k)
    PROVE  PeersInv'
  <1>1. /\ UNCHANGED <<cfg, peers, inboundCount, dial, runningTasks, queuedTasks, procs>>
        /\ InLoop' = InLoop
    BY DEF Setup, protoHandshake, checkpointQuits, runvars, InLoop
  <1>2. conn[k] # Nobody /\ conn[k] \in ConnStates
    BY DEF Setup, protoHandshake, checkpointQuits, PeersInv, ServerTypes, Conns
  <1>3. CASE Ends(k)
    <2>1. DynInv' /\ conn' \in Conns /\ taskdone' \subseteq runningTasks
      BY <1>1, <1>3, ConnEnds
    <2> QED BY <1>1, <2>1, SameProcs, AsideKeeps
  <1>4. ASSUME NEW a \in {"post", "add"}, conn' = [conn EXCEPT ![k].at = a], UNCHANGED taskdone
        PROVE  PeersInv'
    <2> DEFINE c == [conn[k] EXCEPT !.at = a]
    <2>1. c \in ConnStates /\ c.flags = conn[k].flags /\ conn' = [conn EXCEPT ![k] = c]
      BY <1>2, <1>4 DEF ConnStates
    <2> HIDE DEF c
    <2>2. "dyn" \in c.flags => k[2] = "dial" /\ DialTask(k[1], "dyn") \in runningTasks \ taskdone
      BY <1>2, <2>1 DEF PeersInv, DynInv
    <2>3. DynInv' /\ conn' \in Conns /\ taskdone' \subseteq runningTasks
      BY <1>1, <1>4, <2>1, <2>2, ConnGoesOn
    <2> QED BY <1>1, <2>3, SameProcs, AsideKeeps
  <1> QED BY <1>3, <1>4 DEF Setup, protoHandshake, checkpointQuits

LEMMA InboundKeeps ==
    ASSUME PeersInv, NEW n \in Remote, Accept(n) \/ handleStream(n)
    PROVE  PeersInv'
  <1>1. /\ UNCHANGED <<cfg, peers, inboundCount, dial, runningTasks, queuedTasks, procs,
                      taskdone>>
        /\ InLoop' = InLoop
    BY DEF Accept, handleStream, runvars, InLoop
  <1> DEFINE k == <<n, "in">>
  <1>2. PICK slot \in BOOLEAN : NewConn(k, {"inbound"}, slot)
    BY DEF Accept, handleStream
  <1> DEFINE c == [at |-> "setup", flags |-> {"inbound"}, slot |-> slot]
  <1>3. k \in Key /\ c \in ConnStates /\ conn' = [conn EXCEPT ![k] = c] /\ "dyn" \notin c.flags
    BY <1>2 DEF Key, ConnStates, NewConn, Flags
  <1> HIDE DEF k, c
  <1>4. DynInv' /\ conn' \in Conns /\ taskdone' \subseteq runningTasks
    BY <1>1, <1>3, ConnGoesOn
  <1> QED BY <1>1, <1>4, SameProcs, AsideKeeps

LEMMA AgeKeeps ==
    ASSUME PeersInv, NEW n \in Remote, Age(n)
    PROVE  PeersInv'
  <1>1. /\ UNCHANGED <<cfg, peers, inboundCount, runningTasks, queuedTasks, procs, taskdone,
                      conn>>
        /\ InLoop' = InLoop
    BY DEF Age, InLoop
  <1>2. dial \in DialStates
    BY DEF PeersInv, TasksInv, TasksOK
  <1>3. dial' \in DialStates /\ dial'.dialing = dial.dialing
    BY <1>2 DEF Age, DialStates
  <1>4. TasksOK(dial', runningTasks, queuedTasks)
    BY <1>3, SameDialing DEF PeersInv, TasksInv
  <1>5. TasksInv'
    BY <1>1, <1>4 DEF TasksInv, PeersInv
  <1>6. DynDials' = DynDials /\ maxDialedConns' = maxDialedConns
    BY <1>1, <1>3 DEF DynDials, maxDialedConns
  <1>7. DialInv'
    BY <1>5, <1>6 DEF DialInv, PeersInv, LimitInv
  <1> QED BY <1>1, <1>7, SameProcs, SameConns, SamePeers

LEMMA OtherKeeps ==
    ASSUME PeersInv, listenLoop \/ Stop \/ UNCHANGED vars
    PROVE  PeersInv'
  <1>1. /\ UNCHANGED <<cfg, peers, inboundCount, dial, runningTasks, queuedTasks, procs,
                      taskdone, conn>>
        /\ InLoop' = InLoop
    BY DEF listenLoop, Stop, runvars, vars, InLoop
  <1>2. taskdone' \subseteq runningTasks
    BY <1>1 DEF PeersInv, TasksInv
  <1> QED BY <1>1, <1>2, SameProcs, SameConns, AsideKeeps

-----------------------------------------------------------------------------
LEMMA InitPeers == Init => PeersInv
  <1> SUFFICES ASSUME Init PROVE PeersInv
    OBVIOUS
  <1>1. /\ cfg \in Configs /\ peers = [n \in Remote |-> Nobody] /\ inboundCount = 0 /\ taskdone = {}
        /\ conn = [k \in Key |-> Nobody] /\ procs = {}
    BY DEF Init, Start
  <1>2. PICK r \in scheduleTasks(newDialState, {}, <<>>, peers) :
          dial = r.s /\ runningTasks = r.run /\ queuedTasks = r.queue
    BY DEF Init, Start
  <1>3. newDialState \in DialStates /\ \A n \in Remote : newDialState.dialing[n] = "no"
    BY <1>1, ServerAssumption DEF newDialState, DialStates
  <1>4. RunOK(newDialState, {}, {})
    BY FS_EmptySet, ServerAssumption DEF RunOK
  <1>5. TasksOK(newDialState, {}, <<>>)
    <2>1. ListOK(newDialState, <<>>, {})
      BY ListOther
    <2>2. {} \cap {} = {} /\ {} \cup {} = {n \in Remote : newDialState.dialing[n] # "no"}
      BY <1>3
    <2> HIDE DEF newDialState
    <2> QED BY <1>3, <1>4, <2>1, <2>2 DEF TasksOK
  <1>6. /\ Cardinality(DynOf(newDialState, peers)) <= maxDialedConns /\ Cardinality({}) = 0
        /\ maxInboundConns \in Nat /\ cfg.MaxPeers \in Nat
    <2>1. DynOf(newDialState, peers) = {}
      BY <1>1, <1>3 DEF DynOf
    <2>2. Cardinality({}) = 0
      BY FS_EmptySet
    <2>3. maxDialedConns \in Nat /\ maxInboundConns \in Nat /\ cfg.MaxPeers \in Nat
      BY <1>1, Limits
    <2> QED BY <2>1, <2>2, <2>3
  <1>7. /\ TasksOK(dial, runningTasks, queuedTasks)
        /\ Cardinality(DynOf(dial, peers)) <= maxDialedConns
    BY <1>1, <1>2, <1>5, <1>6, ScheduleKeeps
  <1>8. TasksInv
    BY <1>1, <1>7 DEF TasksInv
  <1>9. ServerTypes /\ ProcInv /\ DynInv
    BY <1>1 DEF ServerTypes, Peers, ProcInv, DynInv, Conns
  <1>10. /\ InboundPeers = {} /\ PlainPeers = {} /\ UntrustedInbound = {}
         /\ DynDials = DynOf(dial, peers)
    BY <1>1 DEF InboundPeers, PlainPeers, UntrustedInbound, DynDials, DynOf
  <1>11. CountInv /\ LimitInv
    BY <1>1, <1>6, <1>7, <1>10 DEF CountInv, LimitInv
  <1> QED BY <1>8, <1>9, <1>11 DEF PeersInv

LEMMA PeersStep == PeersInv /\ [Next]_vars => PeersInv'
  <1> SUFFICES ASSUME PeersInv, [Next]_vars PROVE PeersInv'
    OBVIOUS
  <1>1. CASE RunStep
    BY <1>1, RunTaskDoneKeeps, RunDelPeerKeeps, LeavingKeeps, RunSpinDownKeeps DEF RunStep
  <1>2. CASE TaskStep
    BY <1>2, TaskStepKeeps DEF TaskStep
  <1>3. ASSUME NEW n \in Remote,
               \/ SetTrusted(n) \/ AddPeer(n) \/ RemovePeer(n)
               \/ Age(n) \/ Accept(n) \/ handleStream(n)
        PROVE  PeersInv'
    BY <1>3, CallsKeep, AgeKeeps, InboundKeeps
  <1>4. ASSUME NEW k \in Key, ConnStep(k)
        PROVE  PeersInv'
    BY <1>4, RunPostHandshakeKeeps, RunAddPeerKeeps, ConnStepKeeps DEF ConnStep
  <1>5. CASE \E p \in procs : PeerEnds(p)
    BY <1>5, LeavingKeeps
  <1>6. CASE listenLoop \/ Stop \/ UNCHANGED vars
    BY <1>6, OtherKeeps
  <1> QED BY <1>1, <1>2, <1>3, <1>4, <1>5, <1>6 DEF Next

(* Whatever the connections, calls and failures, the server keeps its      *)
(* invariant.                                                              *)
THEOREM PeersInvariant == Spec => []PeersInv
  <1>1. Init => PeersInv
    BY InitPeers
  <1>2. PeersInv /\ [Next]_vars => PeersInv'
    BY PeersStep
  <1> QED BY <1>1, <1>2, PTL DEF Spec

(* One goroutine of runPeer for each peer, and the right count of inbound  *)
(* ones, for any number of nodes (Server.run: addpeer, delpeer).           *)
THEOREM PeersMatchHolds == Spec => []PeersMatch
  <1>1. PeersInv => PeersMatch
    <2> SUFFICES ASSUME PeersInv PROVE PeersMatch
      OBVIOUS
    <2>1. /\ procs \subseteq Procs
          /\ \A p \in procs : p.id \in Remote /\ peers[p.id] = p.flags /\ p.flags # Nobody
          /\ \A p, q \in procs : p.id = q.id => p = q
          /\ \A n \in Remote : peers[n] # Nobody => \E p \in procs : p.id = n
      BY ServerAssumption DEF PeersInv, ServerTypes, ProcInv, Procs
    <2>2. ASSUME NEW P \in SUBSET procs, NEW N \in SUBSET Remote,
                 \A p \in P : p.id \in N, \A n \in N : \E p \in P : p.id = n
          PROVE  Cardinality(P) = Cardinality(N)
      <3> DEFINE f == [p \in P |-> p.id]
      <3>1. f \in Injection(P, N)
        BY <2>1, <2>2 DEF Injection, IsInjective
      <3>2. f \in Surjection(P, N)
        BY <2>2 DEF Surjection
      <3>3. IsFiniteSet(N)
        BY NodeSets
      <3> HIDE DEF f
      <3> QED BY <3>1, <3>2, <3>3, FS_Injection
    <2>3. {p.id : p \in procs} = Connected(peers)
      BY <2>1 DEF Connected
    <2>4. Cardinality(procs) = Cardinality(Connected(peers))
      <3>1. Connected(peers) \in SUBSET Remote /\ procs \in SUBSET procs
        BY DEF Connected
      <3>2. /\ \A p \in procs : p.id \in Connected(peers)
            /\ \A n \in Connected(peers) : \E p \in procs : p.id = n
        BY <2>3
      <3> QED BY <2>2, <3>1, <3>2
    <2>5. Cardinality({p \in procs : "inbound" \in p.flags}) = Cardinality(InboundPeers)
      <3> DEFINE P == {p \in procs : "inbound" \in p.flags}
      <3>1. P \in SUBSET procs /\ InboundPeers \in SUBSET Remote
        BY DEF InboundPeers
      <3>2. \A p \in P : p.id \in InboundPeers
        BY <2>1 DEF InboundPeers
      <3>3. \A n \in InboundPeers : \E p \in P : p.id = n
        BY <2>1 DEF InboundPeers
      <3> HIDE DEF P
      <3>4. Cardinality(P) = Cardinality(InboundPeers)
        BY <2>2, <3>1, <3>2, <3>3
      <3> QED BY <3>4 DEF P
    <2> QED BY <2>3, <2>4, <2>5 DEF PeersMatch, PeersInv, CountInv
  <1> QED BY <1>1, PeersInvariant, PTL

(* The limits on peers, inbound peers and dials hold, and no node is       *)
(* dialled twice at a time, for any number of nodes and any configuration  *)
(* (encHandshakeChecks, newTasks, taskDone).                               *)
THEOREM WithinLimitsHolds == Spec => []WithinLimits
  <1>1. PeersInv => WithinLimits
    <2> SUFFICES ASSUME PeersInv PROVE WithinLimits
      OBVIOUS
    <2>1. /\ {n \in Connected(peers) : peers[n] \cap {"trusted", "static"} = {}} = PlainPeers
          /\ {n \in Connected(peers) : peers[n] \cap {"inbound", "trusted"} = {"inbound"}}
               = UntrustedInbound
      BY DEF Connected, PlainPeers, UntrustedInbound
    <2>2. PICK R \in SUBSET Remote, Q \in SUBSET Remote :
            /\ RunOK(dial, runningTasks, R) /\ ListOK(dial, queuedTasks, Q) /\ R \cap Q = {}
            /\ R \cup Q = {n \in Remote : dial.dialing[n] # "no"}
      BY DEF PeersInv, TasksInv, TasksOK
    <2>3. queuedTasks \in Seq(Tasks) /\ DOMAIN queuedTasks = 1 .. Len(queuedTasks)
      BY <2>2 DEF ListOK
    <2>4. ASSUME NEW n \in Remote
          PROVE  Cardinality({t \in runningTasks : t.do = "dial" /\ t.id = n})
                 + Cardinality({i \in DOMAIN queuedTasks : queuedTasks[i].do = "dial"
                                                           /\ queuedTasks[i].id = n})
                   = (IF dial.dialing[n] = "no" THEN 0 ELSE 1)
      <3> DEFINE T == {t \in runningTasks : t.do = "dial" /\ t.id = n}
                 I == {i \in DOMAIN queuedTasks : queuedTasks[i].do = "dial"
                                                  /\ queuedTasks[i].id = n}
      <3>1. n \notin R => T = {}
        BY <2>2 DEF RunOK
      <3>2. n \notin Q => I = {}
        BY <2>2, <2>3 DEF ListOK
      <3>3. n \in R => Cardinality(T) = 1
        <4> SUFFICES ASSUME n \in R PROVE Cardinality(T) = 1
          OBVIOUS
        <4>1. PICK t \in runningTasks : t.do = "dial" /\ t.id = n
          BY <2>2 DEF RunOK, Dials
        <4>2. \A u \in T : u = DialTask(n, dial.dialing[n])
          BY <2>2, TaskFields DEF RunOK
        <4>3. T = {t}
          BY <4>1, <4>2
        <4> QED BY <4>3, FS_Singleton
      <3>4. n \in Q => Cardinality(I) = 1
        <4> SUFFICES ASSUME n \in Q PROVE Cardinality(I) = 1
          OBVIOUS
        <4>1. PICK i \in 1 .. Len(queuedTasks) : Dials(queuedTasks[i], n)
          BY <2>2 DEF ListOK
        <4>2. \A j \in I : j = i
          BY <2>2, <2>3, <4>1 DEF ListOK, Dials
        <4>3. I = {i}
          BY <2>3, <4>1, <4>2 DEF Dials
        <4> QED BY <4>3, FS_Singleton
      <3>5. Cardinality({}) = 0
        BY FS_EmptySet
      <3>6. dial.dialing[n] = "no" <=> n \notin R /\ n \notin Q
        BY <2>2
      <3> HIDE DEF T, I
      <3>7. Cardinality(T) + Cardinality(I) = (IF dial.dialing[n] = "no" THEN 0 ELSE 1)
        BY <2>2, <3>1, <3>2, <3>3, <3>4, <3>5, <3>6
      <3> QED BY <3>7 DEF T, I
    <2> QED BY <2>1, <2>4 DEF WithinLimits, PeersInv, LimitInv
  <1> QED BY <1>1, PeersInvariant, PTL
=============================================================================
