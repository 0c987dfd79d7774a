-------------------------- MODULE MCOplogConsensus --------------------------
(* Every user has one device, which is a quorum of its own.               *)
EXTENDS OplogConsensus

MCOwner  == [n \in Nodes |-> n]
MCWeight == [n \in Nodes |-> 2000]
=============================================================================
