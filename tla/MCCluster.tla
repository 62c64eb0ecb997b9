------------------------------- MODULE MCCluster -------------------------------
(* Cluster with at most one thread on each node, which has the number of the node. *)
EXTENDS Cluster
OneEach == [t \in Threads |-> t]
===============================================================================
