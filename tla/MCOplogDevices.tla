--------------------------- MODULE MCOplogDevices ---------------------------
(* The second master has two desktops (WeightDesktop each).                *)
EXTENDS OplogConsensus

MasterDevices == [n \in Nodes |-> IF n = 1 THEN 1 ELSE 2]

MCWeight == [n \in Nodes |-> 2000]
=============================================================================
