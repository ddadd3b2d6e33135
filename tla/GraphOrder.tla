------------------------------ MODULE GraphOrder ------------------------------
(***************************************************************************)
(* What a replicated graph promises as long as no vertex is removed: its   *)
(* vertices are those some operation added, and an edge is in the graph of *)
(* a replica exactly when, among all the operations the replica has        *)
(* applied that concern the edge, the one with the highest timestamp is an *)
(* add_edge.  No metadata, no counters, no entries for what was removed.   *)
(* LWWGraphReplicas is shown to implement this specification.              *)
(***************************************************************************)
EXTENDS GraphOperations

VARIABLE view  \* view[r]: the vertices and the edges a user of replica r sees

orderVars == <<issued, delivered, context, view>>

GraphView(D) == [vertices |-> VertexView(D), edges |-> EdgeView(D)]

OrderInit == NetInit /\ view = [r \in Replica |-> [vertices |-> {}, edges |-> {}]]

OrderStep(r, op) ==
    /\ Call(r, op)
    /\ view' = [view EXCEPT ![r] = GraphView(delivered'[r])]

OrderNext == \E r \in Replica : \E op \in Op : OrderStep(r, op)

OrderSpec == OrderInit /\ [][OrderNext]_orderVars
===============================================================================
