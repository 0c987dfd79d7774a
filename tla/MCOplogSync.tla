------------------------------ MODULE MCOplogSync ------------------------------
EXTENDS OplogSync

CONSTANTS a, b

\* 9 follows 7, both above what the nodes compare by the tree.
MCPreLog == [l \in Logs |-> IF l = 9 THEN 7 ELSE 0]

=============================================================================
