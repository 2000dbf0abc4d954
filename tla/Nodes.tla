--------------------------------- MODULE Nodes ---------------------------------
(***************************************************************************)
(* The nodes a terminal can run on: the enrolled agent nodes, and the host *)
(* of the control plane, which the code writes as node_id None.            *)
(***************************************************************************)
CONSTANTS
    Node,     \* ids of enrolled nodes
    NoNode    \* None: a terminal on the control plane host

ASSUME NoNodeAssumption == NoNode \notin Node
=============================================================================
