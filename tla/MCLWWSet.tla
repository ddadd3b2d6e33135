------------------------------- MODULE MCLWWSet -------------------------------
(* Instances of LWWSetReplicas for TLC.  Keys and replicas are interchangeable. *)
EXTENDS LWWSetReplicas, TLC

Symmetry == Permutations(Replica) \cup Permutations(Key)
===============================================================================
