---------------------------- MODULE ReplicatedLog ----------------------------
(***************************************************************************)
(* What the synchronisation of an entity's valid oplogs promises: a log    *)
(* appears at the node that made it valid, spreads only from nodes that    *)
(* have it, is never taken away, and in the end the nodes have the same.   *)
(***************************************************************************)
CONSTANTS Node, Logs

VARIABLE logs       \* logs[n]: the valid and synced oplogs of node n

Existing == UNION {logs[n] : n \in Node}

Init == logs \in [Node -> SUBSET Logs]

Create(n, l) ==
    /\ l \notin Existing
    /\ logs' = [logs EXCEPT ![n] = @ \cup {l}]

Receive(n, S) ==
    /\ S \subseteq Existing
    /\ logs' = [logs EXCEPT ![n] = @ \cup S]

Next == \E n \in Node : (\E l \in Logs : Create(n, l)) \/ (\E S \in SUBSET Logs : Receive(n, S))

Spec == Init /\ [][Next]_logs

Converged == \A n, m \in Node : logs[n] = logs[m]
=============================================================================
