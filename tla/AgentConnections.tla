---------------------------- MODULE AgentConnections ----------------------------
(***************************************************************************)
(* The agents' side door of the control plane: AgentConnectionRegistry and *)
(* the WebSocket transport handler handle_agent_transport_socket           *)
(* (crates/sunbolt-control/src/agent/mod.rs), with as much of              *)
(* NodeEnrollmentStore (node.rs) as admits a node or shuts it out.         *)
(*                                                                         *)
(* A Link is one outbound WebSocket of an agent and its handler task. It   *)
(* is `up` until the network loses it, and the handler may notice later:   *)
(* by a read or write error, or by the liveness timeout. The module gives  *)
(* the actions; RemoteTerminal runs them with the rest.                    *)
(***************************************************************************)

EXTENDS Nodes

CONSTANTS
    Link,     \* connection attempts of agents, each made once
    Nobody    \* no connection

ASSUME NobodyAssumption == Nobody \notin Link

VARIABLES
    trust,    \* NodeStatus as far as it is not computed: trusted or revoked
    recent,   \* whether the node's last heartbeat is younger than NODE_OFFLINE_AFTER
    conn,     \* AgentConnectionRegistry: the registered link of a node
    link      \* the handler of each link

linkVars == <<trust, recent, conn, link>>

Transport ==
    [pc : {"new", "negotiated", "open", "leaving", "closed"},
     node : Node \cup {Nobody}, up : BOOLEAN]

LinksTypeOK ==
    /\ trust \in [Node -> {"trusted", "revoked"}]
    /\ recent \in [Node -> BOOLEAN]
    /\ conn \in [Node -> Link \cup {Nobody}]
    /\ link \in [Link -> Transport]

LinksInit ==
    /\ trust = [n \in Node |-> "trusted"]
    /\ recent = [n \in Node |-> TRUE]
    /\ conn = [n \in Node |-> Nobody]
    /\ link = [l \in Link |-> [pc |-> "new", node |-> Nobody, up |-> TRUE]]

-----------------------------------------------------------------------------
LinkAt(l, at)         == link[l].pc = at
LinkGoto(l, from, to) == LinkAt(l, from) /\ link' = [link EXCEPT ![l].pc = to]

\* node_is_online: the stored status, and node_view's Offline once heartbeats stop.
NodeIsOnline(n) == trust[n] = "trusted" /\ recent[n]

\* AgentConnection::transport_id is "{node_id}-outbound": every link of a node has the same.
TransportId(l) == link[l].node

\* negotiate_transport authenticates the node and counts as a heartbeat, or fails.
Negotiate(l, n) ==
    /\ LinkAt(l, "new")
    /\ \/ /\ trust[n] = "trusted"
          /\ link' = [link EXCEPT ![l].pc = "negotiated", ![l].node = n]
          /\ recent' = [recent EXCEPT ![n] = TRUE]
       \/ /\ trust[n] = "revoked"
          /\ link' = [link EXCEPT ![l].pc = "closed", ![l].node = n]
          /\ UNCHANGED recent
    /\ UNCHANGED <<trust, conn>>

\* register_transport replaces whatever the node had registered.
Register(l) ==
    /\ LinkGoto(l, "negotiated", "open")
    /\ conn' = [conn EXCEPT ![link[l].node] = l]
    /\ UNCHANGED <<trust, recent>>

\* The select! loop ends: the socket is lost, or nobody holds a command_tx any more.
Break(l, forsaken) ==
    /\ LinkGoto(l, "open", "leaving")
    /\ ~link[l].up \/ forsaken
    /\ UNCHANGED <<trust, recent, conn>>

\* disconnect_transport removes the registration that bears this transport id.
Leave(l) ==
    /\ LinkGoto(l, "leaving", "closed")
    /\ LET n == link[l].node
       IN  conn' = IF conn[n] # Nobody /\ TransportId(conn[n]) = TransportId(l)
                   THEN [conn EXCEPT ![n] = Nobody] ELSE conn
    /\ UNCHANGED <<trust, recent>>

\* disconnect asks for no transport id.
Disconnect(n) ==
    /\ conn' = [conn EXCEPT ![n] = Nobody]
    /\ UNCHANGED <<trust, recent, link>>

\* revoke_node of the enrollment store; a node may be revoked again.
MarkRevoked(n) ==
    /\ trust' = [trust EXCEPT ![n] = "revoked"]
    /\ UNCHANGED <<recent, conn, link>>

\* An accepted /agent/heartbeat, and the time in which none came.
Heartbeat(n) ==
    /\ trust[n] = "trusted" /\ ~recent[n]
    /\ recent' = [recent EXCEPT ![n] = TRUE]
    /\ UNCHANGED <<trust, conn, link>>

Lapse(n) ==
    /\ recent[n]
    /\ recent' = [recent EXCEPT ![n] = FALSE]
    /\ UNCHANGED <<trust, conn, link>>

SocketDies(l) ==
    /\ link[l].up /\ link[l].pc # "closed"
    /\ link' = [link EXCEPT ![l].up = FALSE]
    /\ UNCHANGED <<trust, recent, conn>>
-----------------------------------------------------------------------------
(* Duplicate connections of a node: a handler that ends takes no registration   *)
(* but its own out of the registry. (The agent gives every connection attempt   *)
(* the same transport id, so the end of the replaced link removes the new one.) *)
LeavesOwnOnly ==
    [][\A l \in Link :
          LinkAt(l, "leaving") /\ link'[l].pc = "closed" =>
              \A n \in Node : conn[n] # l => conn'[n] = conn[n]]_linkVars
=============================================================================
