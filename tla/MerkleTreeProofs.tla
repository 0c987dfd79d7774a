-------------------------- MODULE MerkleTreeProofs --------------------------
(***************************************************************************)
(* No change of a leaf is forgotten, for any number of logs, hours, levels *)
(* and savers, and wherever crashes and failed writes fall.                *)
(*                                                                         *)
(* The invariant adds what the property leaves out: what the loop has done *)
(* of the hour it is at, that a mark in memory has a key in the database   *)
(* or a saver that is about to write it, and that the updating key covers  *)
(* what the loop still has to do.                                          *)
(***************************************************************************)
EXTENDS MerkleTree, TLAPS

(* What the iterator finds, for all nodes.                                 *)
Kids == [l \in Levels |-> [o \in Offsets(l) |-> Children(l, o)]]

(* The hours that are marked, or will be.                                  *)
Due ==
    IF gen.pc = "down" THEN toUpdateDB \cup updating
    ELSE toUpdateTS \cup gen.list
         \cup {h \in Hours : \E g \in Logs : h \in {saver[g].new, saver[g].orig}}

SaverStates ==
    [pc : {"idle", "put", "mark", "mark2"}, new : Hours \cup {NoHour}, orig : Hours \cup {NoHour}]

TreeTypes ==
    /\ leafOf \in [Logs -> Hours \cup {NoHour}] /\ indexOf \in [Logs -> Hours \cup {NoHour}]
    /\ DOMAIN tree = Levels /\ \A l \in Levels : tree[l] = [o \in Offsets(l) |-> tree[l][o]]
    /\ toUpdateDB \subseteq Hours /\ updating \subseteq Hours
    /\ toUpdateTS \subseteq Hours /\ lost \subseteq Hours
    /\ saver \in [Logs -> SaverStates]
    /\ gen = [pc |-> gen.pc, list |-> gen.list, hour |-> gen.hour, level |-> gen.level,
              node |-> gen.node]
    /\ gen.pc \in {"select", "taking", "next", "read", "write", "quit", "down"}
    /\ gen.list \subseteq Hours /\ gen.level \in Nat

(* The loop is at an hour and a level exactly when it computes a node.     *)
LoopInv ==
    /\ IF gen.pc \in {"read", "write"} THEN gen.hour \in Hours /\ gen.level \in Levels
       ELSE gen.hour = NoHour
    /\ gen.pc \in {"select", "quit", "down"} => gen.list = {}
    /\ gen.pc \in {"next", "read", "write"} =>
          gen.list \subseteq updating /\ (gen.hour \in Hours => gen.hour \in updating)

(* A saver that has deleted the leaf has noted the hour it was in.         *)
SaverInv ==
    \A g \in Logs :
       /\ leafOf[g] \in {indexOf[g], NoHour}
       /\ saver[g].pc = "idle" => saver[g] = NotSaving
       /\ saver[g].pc # "idle" => saver[g].new \in Hours
       /\ saver[g].pc = "put" => leafOf[g] = NoHour
       /\ saver[g].pc = "mark2" => {saver[g].new, saver[g].orig} \subseteq toUpdateTS
       /\ gen.pc = "down" => saver[g] = NotSaving

(* A mark in memory is in the database, or is about to be written.         *)
MarkInv ==
    gen.pc # "down" =>
       \A h \in toUpdateTS :
          h \in toUpdateDB \/ \E g \in Logs : saver[g].pc = "mark2" /\ saver[g].orig = h

(* The snapshot that the loop has read is still right, or its hour is due. *)
SnapshotInv ==
    gen.pc = "write" =>
       \/ gen.node = Kids[gen.level][Offset(gen.level, gen.hour)]
       \/ gen.level = 1 /\ gen.hour \in Due

(* A stale node covers an hour that is due, destroyed or in work ...       *)
StaleInv ==
    \A l \in Levels : \A o \in Offsets(l) :
       tree[l][o] # Kids[l][o] =>
          \E h \in Hours : /\ Offset(l, h) = o
                           /\ h \in Due \cup lost \/ (gen.hour = h /\ gen.level <= l)

(* ... and the hour in work no longer excuses the levels that are done.    *)
DoneInv ==
    gen.pc \in {"read", "write"} =>
       \A l \in Levels :
          l < gen.level /\ tree[l][Offset(l, gen.hour)] # Kids[l][Offset(l, gen.hour)] =>
             \E h \in Hours : /\ Offset(l, h) = Offset(l, gen.hour)
                              /\ h \in Due \cup (lost \ {gen.hour})

TreeInv ==
    /\ TreeTypes /\ LoopInv /\ SaverInv /\ MarkInv
    /\ SnapshotInv /\ StaleInv /\ DoneInv

-----------------------------------------------------------------------------
(* Levels, offsets and children.                                           *)

LEMMA LevelFacts == Len(Span) \in Nat /\ Levels = 1 .. Len(Span) /\ 1 \in Levels
  BY MerkleAssumption DEF Levels

LEMMA Hourly == \A h \in Hours : Offset(1, h) = h
  BY MerkleAssumption DEF Offset

LEMMA OffsetIn == \A l \in Levels : \A h \in Hours : Offset(l, h) \in Offsets(l)
  BY DEF Offsets

LEMMA KidsAt == \A l \in Levels : \A o \in Offsets(l) : Kids[l][o] = Children(l, o)
  BY DEF Kids

(* What the iterator finds changes only with leaves and nodes, ...         *)
LEMMA KidsKept == ASSUME UNCHANGED <<leafOf, tree>> PROVE Kids' = Kids
  BY DEF Kids, Children

(* ... above the hours only with nodes, ...                                *)
LEMMA KidsAbove ==
    ASSUME UNCHANGED tree, NEW l \in Levels, l # 1, NEW o \in Offsets(l)
    PROVE  Kids'[l][o] = Kids[l][o]
  BY DEF Kids, Children

(* ... in an hour only with its leaves, ...                                *)
LEMMA KidsOfHour ==
    ASSUME NEW o \in Offsets(1), \A k \in Logs : leafOf'[k] = o <=> leafOf[k] = o
    PROVE  Kids'[1][o] = Kids[1][o]
  <1>1. {k \in Logs : leafOf'[k] = o} = {k \in Logs : leafOf[k] = o}
    OBVIOUS
  <1> QED BY <1>1, LevelFacts DEF Kids, Children

(* ... and a node is a child of one node of the next level.                *)
LEMMA KidsAfterPut ==
    ASSUME TreeTypes, UNCHANGED leafOf, NEW k \in Levels, NEW h \in Hours, NEW x,
           tree' = [tree EXCEPT ![k][Offset(k, h)] = x],
           NEW l \in Levels, NEW o \in Offsets(l), ~(l = k + 1 /\ o = Offset(l, h))
    PROVE  Kids'[l][o] = Kids[l][o]
  <1>1. CASE l = 1
    BY <1>1, KidsOfHour
  <1>2. CASE l # 1
    <2>1. l - 1 \in Levels
      BY <1>2, LevelFacts
    <2>2. ASSUME NEW c \in Offsets(l - 1), Offset(l, c) = o
          PROVE  tree'[l - 1][c] = tree[l - 1][c]
      <3>1. CASE l - 1 # k
        BY <2>1, <3>1 DEF TreeTypes
      <3>2. CASE l - 1 = k
        <4>1. l = k + 1
          BY <3>2, LevelFacts
        <4>2. Offset(l, Offset(k, h)) = Offset(l, h)
          BY <1>2, <3>2, MerkleAssumption
        <4>3. c # Offset(k, h)
          BY <2>2, <4>1, <4>2
        <4> QED BY <2>1, <2>2, <3>2, <4>3 DEF TreeTypes
      <3> QED BY <3>1, <3>2
    <2>3. {tree'[l - 1][c] : c \in {j \in Offsets(l - 1) : Offset(l, j) = o}}
          = {tree[l - 1][c] : c \in {j \in Offsets(l - 1) : Offset(l, j) = o}}
      BY <2>2
    <2> QED BY <1>2, <2>3 DEF Kids, Children
  <1> QED BY <1>1, <1>2

-----------------------------------------------------------------------------
(* Steps that leave leaves and nodes.                                      *)

LEMMA StaleKept ==
    ASSUME TreeInv, UNCHANGED <<leafOf, tree>>, lost \subseteq lost', gen'.level \in Nat,
           \A h \in Due : h \in Due' \cup lost' \/ (gen'.hour = h /\ gen'.level = 1),
           gen.hour \in Hours => \/ gen.hour \in Due' \cup lost'
                                 \/ gen'.hour = gen.hour /\ gen'.level <= gen.level
    PROVE  StaleInv'
  <1>1. Kids' = Kids
    BY KidsKept
  <1>2. SUFFICES ASSUME NEW l \in Levels, NEW o \in Offsets(l), tree[l][o] # Kids[l][o]
                 PROVE  \E h \in Hours : /\ Offset(l, h) = o
                                         /\ \/ h \in Due' \cup lost'
                                            \/ gen'.hour = h /\ gen'.level <= l
    BY <1>1 DEF StaleInv
  <1>3. PICK h \in Hours : /\ Offset(l, h) = o
                           /\ h \in Due \cup lost \/ (gen.hour = h /\ gen.level <= l)
    BY <1>2 DEF TreeInv, StaleInv
  <1>4. l \in Nat /\ l >= 1 /\ gen.level \in Nat
    BY LevelFacts DEF TreeInv, TreeTypes
  <1>5. h \in Due' \cup lost' \/ (gen'.hour = h /\ gen'.level <= l)
    BY <1>3, <1>4
  <1> QED BY <1>3, <1>5

LEMMA DoneKept ==
    ASSUME TreeInv, UNCHANGED <<leafOf, tree>>, lost \subseteq lost', Due \subseteq Due',
           gen.pc \in {"read", "write"}, gen'.hour = gen.hour, gen'.level = gen.level
    PROVE  DoneInv'
  <1>1. Kids' = Kids
    BY KidsKept
  <1> QED BY <1>1 DEF TreeInv, DoneInv

LEMMA QuietKeeps ==
    ASSUME TreeInv, UNCHANGED <<leafOf, tree, gen>>, lost \subseteq lost', Due \subseteq Due'
    PROVE  SnapshotInv' /\ StaleInv' /\ DoneInv'
  <1>1. Kids' = Kids
    BY KidsKept
  <1>2. SnapshotInv'
    BY <1>1 DEF TreeInv, SnapshotInv
  <1>3. StaleInv'
    BY StaleKept DEF TreeInv, TreeTypes
  <1>4. DoneInv'
    BY <1>1 DEF TreeInv, DoneInv
  <1> QED BY <1>2, <1>3, <1>4

(* The leaf of one log moves between hours that are due.                   *)
LEMMA LeafMoves ==
    ASSUME TreeInv, UNCHANGED <<tree, gen, lost>>, NEW g \in Logs,
           \A k \in Logs \ {g} : leafOf'[k] = leafOf[k],
           leafOf[g] \in Due' \cup {NoHour}, leafOf'[g] \in Due' \cup {NoHour}, Due \subseteq Due'
    PROVE  SnapshotInv' /\ StaleInv' /\ DoneInv'
  <1>1. \A o \in Offsets(1) : o \in Hours
    BY Hourly DEF Offsets
  <1>2. ASSUME NEW l \in Levels, NEW o \in Offsets(l), ~(l = 1 /\ o \in Due')
        PROVE  Kids'[l][o] = Kids[l][o]
    <2>1. CASE l = 1
      <3>1. leafOf[g] # o /\ leafOf'[g] # o
        BY <1>1, <1>2, <2>1, MerkleAssumption
      <3> QED BY <2>1, <3>1, KidsOfHour
    <2>2. CASE l # 1
      BY <2>2, KidsAbove
    <2> QED BY <2>1, <2>2
  <1>3. SnapshotInv'
    <2> SUFFICES ASSUME gen.pc = "write"
                 PROVE  \/ gen.node = Kids'[gen.level][Offset(gen.level, gen.hour)]
                        \/ gen.level = 1 /\ gen.hour \in Due'
      BY DEF SnapshotInv
    <2>1. gen.level \in Levels /\ gen.hour \in Hours
      BY DEF TreeInv, LoopInv
    <2>2. Offset(gen.level, gen.hour) \in Offsets(gen.level)
      BY <2>1, OffsetIn
    <2>3. gen.level = 1 => Offset(gen.level, gen.hour) = gen.hour
      BY <2>1, Hourly
    <2> QED BY <1>2, <2>1, <2>2, <2>3 DEF TreeInv, SnapshotInv
  <1>4. StaleInv'
    <2> SUFFICES ASSUME NEW l \in Levels, NEW o \in Offsets(l), tree[l][o] # Kids'[l][o]
                 PROVE  \E h \in Hours : /\ Offset(l, h) = o
                                         /\ h \in Due' \cup lost \/ (gen.hour = h /\ gen.level <= l)
      BY DEF StaleInv
    <2>1. CASE l = 1 /\ o \in Due'
      BY <1>1, <2>1, Hourly
    <2>2. CASE ~(l = 1 /\ o \in Due')
      BY <1>2, <2>2 DEF TreeInv, StaleInv
    <2> QED BY <2>1, <2>2
  <1>5. DoneInv'
    <2> SUFFICES ASSUME gen.pc \in {"read", "write"}, NEW l \in Levels, l < gen.level,
                        tree[l][Offset(l, gen.hour)] # Kids'[l][Offset(l, gen.hour)]
                 PROVE  \E h \in Hours : /\ Offset(l, h) = Offset(l, gen.hour)
                                         /\ h \in Due' \cup (lost \ {gen.hour})
      BY DEF DoneInv
    <2>1. gen.hour \in Hours /\ Offset(l, gen.hour) \in Offsets(l)
      BY OffsetIn DEF TreeInv, LoopInv
    <2>2. CASE l = 1 /\ Offset(l, gen.hour) \in Due'
      BY <2>1, <2>2, Hourly
    <2>3. CASE ~(l = 1 /\ Offset(l, gen.hour) \in Due')
      BY <1>2, <2>1, <2>3 DEF TreeInv, DoneInv
    <2> QED BY <2>2, <2>3
  <1> QED BY <1>3, <1>4, <1>5

-----------------------------------------------------------------------------
(* A tree without leaves.                                                  *)
LEMMA TreeInvInit == TreeInit => TreeInv
  <1> SUFFICES ASSUME TreeInit PROVE TreeInv
    OBVIOUS
  <1>1. gen = [pc |-> "select", list |-> {}, hour |-> NoHour, level |-> 0, node |-> {}]
    BY DEF TreeInit, Loop
  <1>2. \A l \in Levels : \A o \in Offsets(l) : tree[l][o] = {}
    BY DEF TreeInit
  <1>3. ASSUME NEW l \in Levels, NEW o \in Offsets(l) PROVE Kids[l][o] = {}
    <2>1. CASE l = 1
      <3>1. o \in Hours
        BY <2>1, Hourly DEF Offsets
      <3>2. {k \in Logs : leafOf[k] = o} = {}
        BY <3>1, MerkleAssumption DEF TreeInit
      <3>3. Kids[l][o] = {Leaf(o, g) : g \in {k \in Logs : leafOf[k] = o}}
        BY <2>1, KidsAt, Zenon DEF Children
      <3> QED BY <3>2, <3>3
    <2>2. CASE l # 1
      <3>1. l - 1 \in Levels
        BY <2>2, LevelFacts
      <3>2. Kids[l][o] = UNION {tree[l - 1][c] : c \in {k \in Offsets(l - 1) : Offset(l, k) = o}}
        BY <2>2, KidsAt, Zenon DEF Children
      <3>3. \A c \in Offsets(l - 1) : tree[l - 1][c] = {}
        BY <1>2, <3>1
      <3> QED BY <3>2, <3>3
    <2> QED BY <2>1, <2>2
  <1>4. TreeTypes
    BY <1>1 DEF TreeInit, TreeTypes, NotSaving, SaverStates
  <1>5. LoopInv /\ SnapshotInv /\ DoneInv /\ MarkInv
    BY <1>1 DEF TreeInit, LoopInv, SnapshotInv, DoneInv, MarkInv
  <1>6. SaverInv
    BY <1>1 DEF TreeInit, SaverInv, NotSaving
  <1>7. StaleInv
    BY <1>2, <1>3 DEF StaleInv
  <1> QED BY <1>4, <1>5, <1>6, <1>7 DEF TreeInv

-----------------------------------------------------------------------------
(* The savers.                                                             *)

LEMMA SaveDeleteKeeps ==
    ASSUME TreeInv, NEW g \in Logs, NEW h \in Hours, SaveDelete(g, h) PROVE TreeInv'
  <1>1. TreeTypes /\ LoopInv /\ SaverInv /\ MarkInv
    BY DEF TreeInv
  <1>2. /\ saver' = [saver EXCEPT ![g] = [pc |-> "put", new |-> h, orig |-> indexOf[g]]]
        /\ leafOf' = [leafOf EXCEPT ![g] = NoHour] /\ saver[g] = NotSaving /\ gen.pc # "down"
        /\ UNCHANGED <<indexOf, tree, toUpdateDB, updating, toUpdateTS, gen, lost>>
    BY <1>1 DEF SaveDelete, SaverInv
  <1>3. TreeTypes'
    BY <1>1, <1>2 DEF TreeTypes, SaverStates
  <1>4. LoopInv'
    BY <1>1, <1>2 DEF LoopInv
  <1>5. SaverInv'
    BY <1>1, <1>2 DEF SaverInv, TreeTypes
  <1>6. MarkInv'
    BY <1>1, <1>2 DEF MarkInv, TreeTypes, NotSaving
  <1>7. Due \subseteq Due' /\ indexOf[g] \in Due' \cup {NoHour}
    BY <1>1, <1>2, MerkleAssumption DEF Due, TreeTypes, NotSaving
  <1>8. leafOf[g] \in Due' \cup {NoHour} /\ leafOf'[g] \in Due' \cup {NoHour}
    BY <1>1, <1>2, <1>7 DEF SaverInv, TreeTypes
  <1>9. SnapshotInv' /\ StaleInv' /\ DoneInv'
    BY <1>1, <1>2, <1>7, <1>8, LeafMoves DEF TreeTypes
  <1> QED BY <1>3, <1>4, <1>5, <1>6, <1>9 DEF TreeInv

LEMMA SavePutKeeps == ASSUME TreeInv, NEW g \in Logs, SavePut(g) PROVE TreeInv'
  <1>1. TreeTypes /\ LoopInv /\ SaverInv /\ MarkInv
    BY DEF TreeInv
  <1>2. /\ saver[g].pc = "put" /\ saver[g].new \in Hours /\ gen.pc # "down"
        /\ saver' = [saver EXCEPT ![g].pc = "mark"]
        /\ leafOf' = [leafOf EXCEPT ![g] = saver[g].new] /\ leafOf[g] = NoHour
        /\ indexOf' = [indexOf EXCEPT ![g] = saver[g].new]
        /\ UNCHANGED <<tree, toUpdateDB, updating, toUpdateTS, gen, lost>>
    BY <1>1 DEF SavePut, SaverInv, NotSaving
  <1>3. TreeTypes'
    BY <1>1, <1>2 DEF TreeTypes, SaverStates
  <1>4. LoopInv'
    BY <1>1, <1>2 DEF LoopInv
  <1>5. SaverInv'
    BY <1>1, <1>2 DEF SaverInv, TreeTypes, SaverStates, NotSaving
  <1>6. MarkInv'
    BY <1>1, <1>2 DEF MarkInv, TreeTypes, SaverStates
  <1>7. Due \subseteq Due' /\ saver[g].new \in Due'
    BY <1>1, <1>2 DEF Due, TreeTypes, SaverStates
  <1>8. SnapshotInv' /\ StaleInv' /\ DoneInv'
    BY <1>1, <1>2, <1>7, LeafMoves DEF TreeTypes
  <1> QED BY <1>3, <1>4, <1>5, <1>6, <1>8 DEF TreeInv

LEMMA SetUpdateTSKeeps == ASSUME TreeInv, NEW g \in Logs, SetUpdateTS(g) PROVE TreeInv'
  <1> DEFINE both == saver[g].orig \notin {NoHour, saver[g].new}
  <1>1. TreeTypes /\ LoopInv /\ SaverInv /\ MarkInv
    BY DEF TreeInv
  <1>2. /\ saver[g].pc = "mark" /\ saver[g].new \in Hours /\ gen.pc # "down"
        /\ toUpdateTS' = toUpdateTS \cup ({saver[g].new, saver[g].orig} \ {NoHour})
        /\ toUpdateDB' = toUpdateDB \cup {saver[g].new}
        /\ saver' = [saver EXCEPT ![g] = IF both THEN [saver[g] EXCEPT !.pc = "mark2"]
                                         ELSE NotSaving]
        /\ UNCHANGED <<leafOf, indexOf, tree, updating, gen, lost>>
    BY <1>1 DEF SetUpdateTS, SaverInv, lockToUpdateTSFree
  <1>3. saver[g] = [pc |-> "mark", new |-> saver[g].new, orig |-> saver[g].orig]
        /\ saver[g].orig \in Hours \cup {NoHour}
    BY <1>1, <1>2 DEF TreeTypes, SaverStates
  <1>4. \A k \in Logs : saver'[k] = IF k # g THEN saver[k]
                                    ELSE IF both THEN [pc |-> "mark2", new |-> saver[g].new,
                                                       orig |-> saver[g].orig]
                                    ELSE NotSaving
    BY <1>1, <1>2, <1>3 DEF TreeTypes
  <1>5. toUpdateTS' \subseteq Hours /\ toUpdateDB' \subseteq Hours
    BY <1>1, <1>2, <1>3 DEF TreeTypes
  <1>6. saver' \in [Logs -> SaverStates]
    BY <1>1, <1>2, <1>3 DEF TreeTypes, SaverStates, NotSaving
  <1>7. TreeTypes'
    BY <1>1, <1>2, <1>5, <1>6 DEF TreeTypes
  <1>8. LoopInv'
    BY <1>1, <1>2 DEF LoopInv
  <1>9. SaverInv'
    <2> SUFFICES ASSUME NEW k \in Logs
                 PROVE  /\ leafOf[k] \in {indexOf[k], NoHour}
                        /\ saver'[k].pc = "idle" => saver'[k] = NotSaving
                        /\ saver'[k].pc # "idle" => saver'[k].new \in Hours
                        /\ saver'[k].pc = "put" => leafOf[k] = NoHour
                        /\ saver'[k].pc = "mark2" =>
                              {saver'[k].new, saver'[k].orig} \subseteq toUpdateTS'
      BY <1>2 DEF SaverInv
    <2>1. CASE k # g
      BY <1>1, <1>2, <1>4, <2>1 DEF SaverInv
    <2>2. CASE k = g /\ both
      BY <1>1, <1>2, <1>4, <2>2, MerkleAssumption DEF SaverInv
    <2>3. CASE k = g /\ ~both
      BY <1>1, <1>4, <2>3 DEF SaverInv, NotSaving
    <2> QED BY <2>1, <2>2, <2>3
  <1>10. MarkInv'
    <2> SUFFICES ASSUME NEW h \in toUpdateTS'
                 PROVE  h \in toUpdateDB'
                        \/ \E k \in Logs : saver'[k].pc = "mark2" /\ saver'[k].orig = h
      BY DEF MarkInv
    <2>1. CASE h \in toUpdateTS
      BY <1>1, <1>2, <1>4, <2>1 DEF MarkInv
    <2>2. CASE h = saver[g].new
      BY <1>2, <2>2
    <2>3. CASE h = saver[g].orig /\ h # saver[g].new /\ h # NoHour
      BY <1>4, <2>3
    <2> QED BY <1>2, <2>1, <2>2, <2>3
  <1>11. Due \subseteq Due'
    BY <1>1, <1>2, <1>3, <1>4, MerkleAssumption DEF Due
  <1>12. SnapshotInv' /\ StaleInv' /\ DoneInv'
    BY <1>2, <1>11, QuietKeeps
  <1> QED BY <1>7, <1>8, <1>9, <1>10, <1>12 DEF TreeInv

LEMMA SetUpdateTS2Keeps == ASSUME TreeInv, NEW g \in Logs, SetUpdateTS2(g) PROVE TreeInv'
  <1>1. TreeTypes /\ LoopInv /\ SaverInv /\ MarkInv
    BY DEF TreeInv
  <1>2. /\ saver[g].pc = "mark2" /\ {saver[g].new, saver[g].orig} \subseteq toUpdateTS
        /\ gen.pc # "down"
        /\ toUpdateDB' = toUpdateDB \cup {saver[g].orig}
        /\ saver' = [saver EXCEPT ![g] = NotSaving]
        /\ UNCHANGED <<leafOf, indexOf, tree, updating, toUpdateTS, gen, lost>>
    BY <1>1 DEF SetUpdateTS2, SaverInv, NotSaving
  <1>3. TreeTypes'
    BY <1>1, <1>2 DEF TreeTypes, SaverStates, NotSaving
  <1>4. LoopInv'
    BY <1>1, <1>2 DEF LoopInv
  <1>5. SaverInv'
    BY <1>1, <1>2 DEF SaverInv, TreeTypes, NotSaving
  <1>6. MarkInv'
    BY <1>1, <1>2 DEF MarkInv, TreeTypes
  <1>7. Due \subseteq Due'
    BY <1>1, <1>2 DEF Due, TreeTypes
  <1>8. SnapshotInv' /\ StaleInv' /\ DoneInv'
    BY <1>2, <1>7, QuietKeeps
  <1> QED BY <1>3, <1>4, <1>5, <1>6, <1>8 DEF TreeInv

-----------------------------------------------------------------------------
(* The loop.                                                               *)

(* Steps to a state in which the loop is at no hour.                       *)
LEMMA RestKeeps ==
    ASSUME TreeInv, UNCHANGED <<leafOf, tree>>, lost \subseteq lost',
           gen' = [Loop(gen'.pc) EXCEPT !.list = gen'.list], gen'.pc \notin {"read", "write"},
           Due \subseteq Due' \cup lost', gen.hour \in Hours => gen.hour \in lost'
    PROVE  SnapshotInv' /\ StaleInv' /\ DoneInv'
  <1>1. gen'.level = 0
    BY DEF Loop
  <1>2. StaleInv'
    BY <1>1, StaleKept
  <1> QED BY <1>2 DEF SnapshotInv, DoneInv

LEMMA TakeKeeps ==
    ASSUME TreeInv, NEW isForced, TakeToUpdateTS(isForced) PROVE TreeInv'
  <1>1. TreeTypes /\ LoopInv /\ SaverInv /\ MarkInv
    BY DEF TreeInv
  <1>2. /\ gen.pc = "select" /\ \A g \in Logs : saver[g].pc # "mark2"
        /\ gen' = [pc |-> "taking", list |-> toUpdateTS, hour |-> NoHour, level |-> 0, node |-> {}]
        /\ toUpdateTS' = {} /\ toUpdateDB' = {}
        /\ UNCHANGED <<leafOf, indexOf, tree, updating, saver, lost>>
    BY DEF TakeToUpdateTS, Loop
  <1>3. TreeTypes'
    BY <1>1, <1>2 DEF TreeTypes
  <1>4. LoopInv' /\ MarkInv'
    BY <1>2 DEF LoopInv, MarkInv
  <1>5. SaverInv'
    BY <1>1, <1>2 DEF SaverInv
  <1>6. Due \subseteq Due' /\ gen.hour \notin Hours
    BY <1>1, <1>2, MerkleAssumption DEF Due, LoopInv
  <1>7. SnapshotInv' /\ StaleInv' /\ DoneInv'
    BY <1>2, <1>6, RestKeeps DEF Loop
  <1> QED BY <1>3, <1>4, <1>5, <1>7 DEF TreeInv

LEMMA PutUpdatingKeeps == ASSUME TreeInv, PutUpdating PROVE TreeInv'
  <1>1. TreeTypes /\ LoopInv /\ SaverInv /\ MarkInv
    BY DEF TreeInv
  <1>2. /\ gen.pc = "taking" /\ updating' = gen.list /\ gen.hour = NoHour
        /\ gen' = [pc |-> "next", list |-> gen.list, hour |-> NoHour, level |-> gen.level,
                   node |-> gen.node]
        /\ UNCHANGED <<leafOf, indexOf, tree, toUpdateDB, toUpdateTS, saver, lost>>
    BY <1>1 DEF PutUpdating, TreeTypes, LoopInv
  <1>3. TreeTypes'
    BY <1>1, <1>2 DEF TreeTypes
  <1>4. LoopInv'
    BY <1>2, MerkleAssumption DEF LoopInv
  <1>5. SaverInv' /\ MarkInv'
    BY <1>1, <1>2 DEF SaverInv, MarkInv
  <1>6. Due \subseteq Due' /\ gen.hour \notin Hours
    BY <1>2, MerkleAssumption DEF Due
  <1>7. StaleInv'
    BY <1>1, <1>2, <1>6, StaleKept DEF TreeTypes
  <1>8. SnapshotInv' /\ DoneInv'
    BY <1>2 DEF SnapshotInv, DoneInv
  <1> QED BY <1>3, <1>4, <1>5, <1>7, <1>8 DEF TreeInv

LEMMA SaveMerkleTreeKeeps ==
    ASSUME TreeInv, NEW h \in Hours, SaveMerkleTree(h) PROVE TreeInv'
  <1>1. TreeTypes /\ LoopInv /\ SaverInv /\ MarkInv
    BY DEF TreeInv
  <1>2. /\ gen.pc = "next" /\ h \in gen.list /\ gen.hour = NoHour /\ gen.list \subseteq updating
        /\ gen' = [pc |-> "read", list |-> gen.list \ {h}, hour |-> h, level |-> 1,
                   node |-> gen.node]
        /\ UNCHANGED <<leafOf, indexOf, tree, toUpdateDB, updating, toUpdateTS, saver, lost>>
    BY <1>1 DEF SaveMerkleTree, TreeTypes, LoopInv, disk
  <1>3. TreeTypes'
    BY <1>1, <1>2 DEF TreeTypes
  <1>4. LoopInv'
    BY <1>2, LevelFacts DEF LoopInv
  <1>5. SaverInv' /\ MarkInv'
    BY <1>1, <1>2 DEF SaverInv, MarkInv
  <1>6. \A x \in Due : x \in Due' \/ x = h
    BY <1>2 DEF Due
  <1>7. StaleInv'
    BY <1>2, <1>6, MerkleAssumption, StaleKept
  <1>8. SnapshotInv' /\ DoneInv'
    BY <1>2, LevelFacts DEF SnapshotInv, DoneInv
  <1> QED BY <1>3, <1>4, <1>5, <1>7, <1>8 DEF TreeInv

LEMMA ReadChildrenKeeps == ASSUME TreeInv, ReadChildren PROVE TreeInv'
  <1>1. TreeTypes /\ LoopInv /\ SaverInv /\ MarkInv
    BY DEF TreeInv
  <1>2. /\ gen.pc = "read" /\ gen.hour \in Hours /\ gen.level \in Levels
        /\ gen' = [pc |-> "write", list |-> gen.list, hour |-> gen.hour, level |-> gen.level,
                   node |-> Children(gen.level, Offset(gen.level, gen.hour))]
        /\ UNCHANGED <<leafOf, indexOf, tree, toUpdateDB, updating, toUpdateTS, saver, lost>>
    BY <1>1 DEF ReadChildren, TreeTypes, LoopInv, disk
  <1>3. TreeTypes'
    BY <1>1, <1>2 DEF TreeTypes
  <1>4. LoopInv'
    BY <1>1, <1>2 DEF LoopInv
  <1>5. SaverInv' /\ MarkInv'
    BY <1>1, <1>2 DEF SaverInv, MarkInv
  <1>6. Due' = Due
    BY <1>2 DEF Due
  <1>7. StaleInv'
    BY <1>1, <1>2, <1>6, StaleKept DEF TreeTypes
  <1>8. DoneInv'
    BY <1>2, <1>6, DoneKept
  <1>9. Kids' = Kids /\ gen'.node = Kids[gen.level][Offset(gen.level, gen.hour)]
    BY <1>2, KidsKept, KidsAt, OffsetIn
  <1>10. SnapshotInv'
    BY <1>2, <1>9 DEF SnapshotInv
  <1> QED BY <1>3, <1>4, <1>5, <1>7, <1>8, <1>10 DEF TreeInv

LEMMA ResetUpdatingTSListKeeps == ASSUME TreeInv, ResetUpdatingTSList PROVE TreeInv'
  <1>1. TreeTypes /\ LoopInv /\ SaverInv /\ MarkInv
    BY DEF TreeInv
  <1>2. /\ gen.pc = "next" /\ gen.list = {} /\ gen.hour = NoHour /\ updating' = {}
        /\ gen' = [pc |-> "select", list |-> {}, hour |-> NoHour, level |-> 0, node |-> {}]
        /\ UNCHANGED <<leafOf, indexOf, tree, toUpdateDB, toUpdateTS, saver, lost>>
    BY <1>1 DEF ResetUpdatingTSList, LoopInv, Loop
  <1>3. TreeTypes'
    BY <1>1, <1>2 DEF TreeTypes
  <1>4. LoopInv'
    BY <1>2 DEF LoopInv
  <1>5. SaverInv' /\ MarkInv'
    BY <1>1, <1>2 DEF SaverInv, MarkInv
  <1>6. Due \subseteq Due' /\ gen.hour \notin Hours
    BY <1>2, MerkleAssumption DEF Due
  <1>7. SnapshotInv' /\ StaleInv' /\ DoneInv'
    BY <1>2, <1>6, RestKeeps DEF Loop
  <1> QED BY <1>3, <1>4, <1>5, <1>7 DEF TreeInv

(* A failed write destroys the marks on the list.                          *)
LEMMA SaveMerkleTreeFailsKeeps == ASSUME TreeInv, SaveMerkleTreeFails PROVE TreeInv'
  <1>1. TreeTypes /\ LoopInv /\ SaverInv /\ MarkInv
    BY DEF TreeInv
  <1>2. /\ gen.pc = "write" /\ gen.hour \in Hours
        /\ gen' = [pc |-> "select", list |-> {}, hour |-> NoHour, level |-> 0, node |-> {}]
        /\ lost' = lost \cup gen.list \cup {gen.hour}
        /\ UNCHANGED <<leafOf, indexOf, tree, toUpdateDB, updating, toUpdateTS, saver>>
    BY <1>1 DEF SaveMerkleTreeFails, LoopInv, Loop, disk
  <1>3. TreeTypes'
    BY <1>1, <1>2 DEF TreeTypes
  <1>4. LoopInv'
    BY <1>2 DEF LoopInv
  <1>5. SaverInv' /\ MarkInv'
    BY <1>1, <1>2 DEF SaverInv, MarkInv
  <1>6. Due \subseteq Due' \cup lost'
    BY <1>2 DEF Due
  <1>7. SnapshotInv' /\ StaleInv' /\ DoneInv'
    BY <1>2, <1>6, RestKeeps DEF Loop
  <1> QED BY <1>3, <1>4, <1>5, <1>7 DEF TreeInv

LEMMA QuitSyncKeeps == ASSUME TreeInv, QuitSync PROVE TreeInv'
  <1>1. TreeTypes /\ LoopInv /\ SaverInv /\ MarkInv
    BY DEF TreeInv
  <1>2. /\ gen.pc = "select" /\ gen.list = {} /\ gen.hour = NoHour
        /\ gen' = [pc |-> "quit", list |-> {}, hour |-> NoHour, level |-> 0, node |-> {}]
        /\ UNCHANGED <<leafOf, indexOf, tree, toUpdateDB, updating, toUpdateTS, saver, lost>>
    BY <1>1 DEF QuitSync, LoopInv, Loop, disk
  <1>3. TreeTypes'
    BY <1>1, <1>2 DEF TreeTypes
  <1>4. LoopInv'
    BY <1>2 DEF LoopInv
  <1>5. SaverInv' /\ MarkInv'
    BY <1>1, <1>2 DEF SaverInv, MarkInv
  <1>6. Due \subseteq Due' /\ gen.hour \notin Hours
    BY <1>2, MerkleAssumption DEF Due
  <1>7. SnapshotInv' /\ StaleInv' /\ DoneInv'
    BY <1>2, <1>6, RestKeeps DEF Loop
  <1> QED BY <1>3, <1>4, <1>5, <1>7 DEF TreeInv

-----------------------------------------------------------------------------
(* Crash and restart.                                                      *)

LEMMA TreeCrashKeeps == ASSUME TreeInv, TreeCrash PROVE TreeInv'
  <1> DEFINE taken == IF gen.pc = "taking" THEN gen.list ELSE {}
             saved == {h \in Hours : \E g \in Logs : h \in {saver[g].new, saver[g].orig}}
  <1>1. TreeTypes /\ LoopInv /\ SaverInv /\ MarkInv
    BY DEF TreeInv
  <1>2. /\ gen.pc # "down" /\ lost' = lost \cup saved \cup taken
        /\ toUpdateTS' = {} /\ saver' = [g \in Logs |-> NotSaving]
        /\ gen' = [pc |-> "down", list |-> {}, hour |-> NoHour, level |-> 0, node |-> {}]
        /\ UNCHANGED <<leafOf, indexOf, tree, toUpdateDB, updating>>
    BY DEF TreeCrash, Loop, disk
  <1>3. saved \subseteq Hours /\ taken \subseteq Hours
    BY <1>1 DEF TreeTypes
  <1>4. NotSaving \in SaverStates
    BY DEF NotSaving, SaverStates
  <1>5. TreeTypes'
    BY <1>1, <1>2, <1>3, <1>4 DEF TreeTypes
  <1>6. LoopInv' /\ MarkInv'
    BY <1>2 DEF LoopInv, MarkInv
  <1>7. SaverInv'
    BY <1>1, <1>2 DEF SaverInv, NotSaving
  <1>8. ASSUME NEW h \in Due PROVE h \in Due' \cup lost'
    <2>1. Due' = toUpdateDB \cup updating
      BY <1>2 DEF Due
    <2>2. h \in Hours
      BY <1>1 DEF Due, TreeTypes
    <2>3. CASE \E g \in Logs : h \in {saver[g].new, saver[g].orig}
      BY <1>2, <2>2, <2>3
    <2>4. CASE h \in toUpdateTS
      BY <1>1, <1>2, <2>1, <2>2, <2>3, <2>4 DEF MarkInv
    <2>5. CASE h \in gen.list
      BY <1>1, <1>2, <2>1, <2>5 DEF LoopInv, TreeTypes
    <2> QED BY <1>2, <2>3, <2>4, <2>5 DEF Due
  <1>9. gen.hour \in Hours => gen.hour \in Due'
    BY <1>1, <1>2, MerkleAssumption DEF LoopInv, Due
  <1>10. StaleInv'
    BY <1>2, <1>8, <1>9, StaleKept
  <1>11. SnapshotInv' /\ DoneInv'
    BY <1>2 DEF SnapshotInv, DoneInv
  <1> QED BY <1>5, <1>6, <1>7, <1>10, <1>11 DEF TreeInv

LEMMA TreeRestartKeeps == ASSUME TreeInv, TreeRestart PROVE TreeInv'
  <1>1. TreeTypes /\ LoopInv /\ SaverInv /\ MarkInv
    BY DEF TreeInv
  <1>2. /\ gen.pc = "down" /\ gen.hour = NoHour
        /\ toUpdateTS' = toUpdateDB \cup updating /\ toUpdateDB' = toUpdateDB \cup updating
        /\ gen' = [pc |-> "select", list |-> {}, hour |-> NoHour, level |-> 0, node |-> {}]
        /\ UNCHANGED <<leafOf, indexOf, tree, updating, saver, lost>>
    BY <1>1 DEF TreeRestart, LoopInv, Loop
  <1>3. TreeTypes'
    BY <1>1, <1>2 DEF TreeTypes
  <1>4. LoopInv' /\ MarkInv'
    BY <1>2 DEF LoopInv, MarkInv
  <1>5. SaverInv'
    BY <1>1, <1>2 DEF SaverInv, NotSaving
  <1>6. Due \subseteq Due' /\ gen.hour \notin Hours
    BY <1>2, MerkleAssumption DEF Due
  <1>7. SnapshotInv' /\ StaleInv' /\ DoneInv'
    BY <1>2, <1>6, RestKeeps DEF Loop
  <1> QED BY <1>3, <1>4, <1>5, <1>7 DEF TreeInv

-----------------------------------------------------------------------------
(* The loop writes the node of its hour and level.  The levels below stay  *)
(* as they are, the node is what was read, and only its parent, which is   *)
(* the next to be computed, sees the difference.                           *)
LEMMA PutNodeKeeps == ASSUME TreeInv, PutNode PROVE TreeInv'
  <1> DEFINE o == Offset(gen.level, gen.hour)
             last == gen.level = Len(Span)
  <1>1. TreeTypes /\ LoopInv /\ SaverInv /\ MarkInv /\ SnapshotInv /\ StaleInv /\ DoneInv
    BY DEF TreeInv
  <1>2. gen.pc = "write" /\ gen.hour \in Hours /\ gen.level \in Levels /\ gen.level \in Nat
    BY <1>1 DEF PutNode, LoopInv, TreeTypes
  <1>3. /\ tree' = [tree EXCEPT ![gen.level][o] = gen.node]
        /\ gen' = IF last THEN [pc |-> "next", list |-> gen.list, hour |-> NoHour, level |-> 0,
                                node |-> {}]
                  ELSE [pc |-> "read", list |-> gen.list, hour |-> gen.hour,
                        level |-> gen.level + 1, node |-> {}]
        /\ lost' = IF last THEN lost \ {gen.hour} ELSE lost
        /\ UNCHANGED <<leafOf, indexOf, toUpdateDB, updating, toUpdateTS, saver>>
    BY <1>1 DEF PutNode, TreeTypes, Loop
  <1>4. o \in Offsets(gen.level)
    BY <1>2, OffsetIn
  <1>5. /\ \A l \in Levels : \A x \in Offsets(l) :
              tree'[l][x] = IF l = gen.level /\ x = o THEN gen.node ELSE tree[l][x]
        /\ DOMAIN tree' = Levels /\ \A l \in Levels : tree'[l] = [x \in Offsets(l) |-> tree'[l][x]]
    BY <1>1, <1>2, <1>3, <1>4 DEF TreeTypes
  <1>6. ASSUME NEW l \in Levels, NEW x \in Offsets(l),
               ~(l = gen.level + 1 /\ x = Offset(l, gen.hour))
        PROVE  Kids'[l][x] = Kids[l][x]
    BY <1>1, <1>2, <1>3, <1>6, KidsAfterPut
  <1> HIDE DEF o
  <1>7. ~last => gen.level + 1 \in Levels
    BY <1>2, LevelFacts
  <1>8. Due' = Due
    BY <1>2, <1>3 DEF Due
  <1>9. TreeTypes'
    <2>1. /\ gen' = [pc |-> gen'.pc, list |-> gen'.list, hour |-> gen'.hour,
                      level |-> gen'.level, node |-> gen'.node]
          /\ gen'.pc \in {"next", "read"} /\ gen'.list = gen.list /\ gen'.level \in Nat
      <3>1. CASE last
        BY <1>3, <3>1
      <3>2. CASE ~last
        BY <1>2, <1>3, <3>2
      <3> QED BY <3>1, <3>2
    <2>2. lost' \subseteq lost
      BY <1>3
    <2> QED BY <1>1, <1>3, <1>5, <2>1, <2>2 DEF TreeTypes
  <1>10. LoopInv'
    BY <1>1, <1>2, <1>3, <1>7, MerkleAssumption DEF LoopInv
  <1>11. SaverInv' /\ MarkInv'
    BY <1>1, <1>2, <1>3 DEF SaverInv, MarkInv
  <1>12. SnapshotInv'
    BY <1>3 DEF SnapshotInv
  \* The hour no longer excuses the level that is written now.
  <1>13. ASSUME NEW l \in Levels, l <= gen.level,
                tree'[l][Offset(l, gen.hour)] # Kids'[l][Offset(l, gen.hour)]
         PROVE  \E h \in Hours : /\ Offset(l, h) = Offset(l, gen.hour)
                                 /\ h \in Due \cup (lost \ {gen.hour})
    <2>1. Offset(l, gen.hour) \in Offsets(l) /\ l # gen.level + 1
      BY <1>2, <1>13, OffsetIn, LevelFacts
    <2>2. Kids'[l][Offset(l, gen.hour)] = Kids[l][Offset(l, gen.hour)]
      BY <1>6, <2>1
    <2>3. CASE l = gen.level
      <3>1. tree'[l][Offset(l, gen.hour)] = gen.node
        BY <1>5, <2>1, <2>3 DEF o
      <3>2. gen.node # Kids[gen.level][Offset(gen.level, gen.hour)]
        BY <1>13, <2>2, <2>3, <3>1
      <3>3. gen.hour \in Due
        BY <1>1, <1>2, <3>2 DEF SnapshotInv
      <3> QED BY <1>2, <3>3
    <2>4. CASE l # gen.level
      <3>1. l < gen.level /\ tree'[l][Offset(l, gen.hour)] = tree[l][Offset(l, gen.hour)]
        BY <1>2, <1>5, <1>13, <2>1, <2>4, LevelFacts
      <3> QED BY <1>1, <1>2, <1>13, <2>2, <3>1 DEF DoneInv
    <2> QED BY <2>3, <2>4
  <1>14. DoneInv'
    <2> SUFFICES ASSUME ~last, NEW l \in Levels, l < gen.level + 1,
                        tree'[l][Offset(l, gen.hour)] # Kids'[l][Offset(l, gen.hour)]
                 PROVE  \E h \in Hours : /\ Offset(l, h) = Offset(l, gen.hour)
                                         /\ h \in Due \cup (lost \ {gen.hour})
      BY <1>3, <1>8 DEF DoneInv
    <2>1. l <= gen.level
      BY <1>2, LevelFacts
    <2> QED BY <1>13, <2>1
  <1>15. StaleInv'
    <2> SUFFICES ASSUME NEW l \in Levels, NEW x \in Offsets(l), tree'[l][x] # Kids'[l][x]
                 PROVE  \E h \in Hours : /\ Offset(l, h) = x
                                         /\ \/ h \in Due \cup lost'
                                            \/ gen'.hour = h /\ gen'.level <= l
      BY <1>8 DEF StaleInv
    <2>1. lost \ {gen.hour} \subseteq lost' /\ l \in Nat
      BY <1>3, LevelFacts
    <2>2. CASE x = Offset(l, gen.hour) /\ l <= gen.level
      BY <1>13, <2>1, <2>2
    <2>3. CASE x = Offset(l, gen.hour) /\ ~(l <= gen.level)
      <3>1. ~last /\ gen.level + 1 <= l
        BY <1>2, <2>3, LevelFacts
      <3>2. gen'.hour = gen.hour /\ gen'.level <= l
        BY <1>3, <3>1
      <3> QED BY <1>2, <2>3, <3>2
    <2>4. CASE x # Offset(l, gen.hour)
      <3>1. tree'[l][x] = tree[l][x] /\ Kids'[l][x] = Kids[l][x]
        BY <1>5, <1>6, <2>4 DEF o
      <3>2. PICK h \in Hours : /\ Offset(l, h) = x
                               /\ h \in Due \cup lost \/ (gen.hour = h /\ gen.level <= l)
        BY <1>1, <3>1 DEF StaleInv
      <3>3. h # gen.hour
        BY <2>4, <3>2
      <3> QED BY <2>1, <3>2, <3>3
    <2> QED BY <2>2, <2>3, <2>4
  <1> QED BY <1>9, <1>10, <1>11, <1>12, <1>14, <1>15 DEF TreeInv

-----------------------------------------------------------------------------
LEMMA TreeInvNext == TreeInv /\ [TreeNext]_treevars => TreeInv'
  <1> SUFFICES ASSUME TreeInv, [TreeNext]_treevars PROVE TreeInv'
    OBVIOUS
  <1>1. CASE \E g \in Logs : Save(g) \/ \E h \in Hours : SaveDelete(g, h)
    BY <1>1, SaveDeleteKeeps, SavePutKeeps, SetUpdateTSKeeps, SetUpdateTS2Keeps DEF Save
  <1>2. CASE Generate
    BY <1>2, TakeKeeps, PutUpdatingKeeps, SaveMerkleTreeKeeps, ReadChildrenKeeps, PutNodeKeeps,
       ResetUpdatingTSListKeeps DEF Generate
  <1>3. CASE SaveMerkleTreeFails \/ QuitSync \/ TreeCrash \/ TreeRestart
    BY <1>3, SaveMerkleTreeFailsKeeps, QuitSyncKeeps, TreeCrashKeeps, TreeRestartKeeps
  <1>4. CASE TryForceSync \/ ResetBusyForceSync \/ UNCHANGED treevars
    <2>1. UNCHANGED <<disk, toUpdateTS, saver, gen, lost>>
      BY <1>4 DEF TryForceSync, ResetBusyForceSync, treevars
    <2>2. SnapshotInv' /\ StaleInv' /\ DoneInv'
      BY <2>1, QuietKeeps DEF disk, Due
    <2>3. TreeTypes' /\ LoopInv' /\ SaverInv' /\ MarkInv'
      BY <2>1 DEF TreeInv, disk, TreeTypes, LoopInv, SaverInv, MarkInv
    <2> QED BY <2>2, <2>3 DEF TreeInv
  <1> QED BY <1>1, <1>2, <1>3, <1>4 DEF TreeNext

(* A node that does not match its children covers an hour that the loop    *)
(* is going to compute, unless a crash between two writes or a failed      *)
(* write destroyed the mark (SetUpdateTS, GetAndResetToUpdateTSList,       *)
(* SaveMerkleTree, PMOplogMerkleTreeLoop): for any logs, hours and levels, *)
(* and any interleaving of savers, loop, crashes and restarts.             *)
THEOREM StaleIsScheduledHolds == TreeSpec => []StaleIsScheduled
  <1>1. TreeInv => StaleIsScheduled
    <2> SUFFICES ASSUME TreeInv, NEW l \in Levels, NEW o \in Offsets(l), ~Fresh(l, o)
                 PROVE  \E h \in Hours :
                           Offset(l, h) = o /\ (Marked(h) \/ InWork(h, l) \/ h \in lost)
      BY DEF StaleIsScheduled
    <2>1. \A h \in Hours : h \in Due => Marked(h)
      BY DEF Due, Marked
    <2>2. tree[l][o] # Kids[l][o]
      BY KidsAt DEF Fresh
    <2>3. PICK h \in Hours : /\ Offset(l, h) = o
                             /\ h \in Due \cup lost \/ (gen.hour = h /\ gen.level <= l)
      BY <2>2 DEF TreeInv, StaleInv
    <2>4. CASE h \in Due \cup lost
      BY <2>1, <2>3, <2>4
    <2>5. CASE gen.hour = h /\ gen.level <= l
      <3>1. gen.pc \in {"read", "write"} /\ gen.level \in Levels
        BY <2>5, MerkleAssumption DEF TreeInv, LoopInv
      <3>2. CASE gen.level < l \/ gen.pc = "read"
        BY <2>3, <2>5, <3>1, <3>2, LevelFacts DEF InWork
      <3>3. CASE gen.level = l /\ gen.pc = "write"
        <4>1. gen.node = Children(l, Offset(l, h)) \/ h \in Due
          BY <2>3, <2>5, <3>3, KidsAt DEF TreeInv, SnapshotInv
        <4> QED BY <2>1, <2>3, <2>5, <3>3, <4>1 DEF InWork
      <3> QED BY <2>5, <3>1, <3>2, <3>3, LevelFacts
    <2> QED BY <2>3, <2>4, <2>5
  <1> QED BY <1>1, TreeInvInit, TreeInvNext, PTL DEF TreeSpec
=============================================================================
