------------------------------ MODULE MCLWWGraph ------------------------------
(* Instances of LWWGraphReplicas for TLC.  Vertices and replicas are interchangeable. *)
EXTENDS LWWGraphReplicas, TLC

Symmetry == Permutations(Replica) \cup Permutations(Vertex)
===============================================================================
