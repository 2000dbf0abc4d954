---------------------------- MODULE NodeEnrollment ----------------------------
(***************************************************************************)
(* How an agent becomes a node and stays one: NodeEnrollmentRegistry       *)
(* (crates/sunbolt-control/src/node.rs) under the routes of the agents and *)
(* administrators, and AgentRuntime with its identity file                 *)
(* (crates/sunbolt-agent/src/lib.rs).                                      *)
(*                                                                         *)
(* The control plane keeps everything in memory: a restart forgets tokens, *)
(* nodes and credentials, and numbers nodes from 1 again. An agent can end *)
(* at any moment, by an error, a signal or a crash; a request it sent may  *)
(* still arrive. Token and Secret hold the values random_token can draw,   *)
(* none twice. The proof an agent presents is a digest of the node id and  *)
(* the secret, so both are compared as they are.                           *)
(***************************************************************************)
EXTENDS Requests, Clock, Sequences, FiniteSets

CONSTANTS
    Host,          \* machines that run an agent, one process each
    EnrollToken, Secret,
    TokenTtl, CredentialTtl, OfflineAfter,  \* NODE_CREDENTIAL_TTL, NODE_OFFLINE_AFTER
    MaxRestarts,   \* a bound: restarts of the control plane in an instance
    MaxInFlight    \* a bound: requests on their way

\* None is no node id.
ASSUME EnrollmentAssumption ==
    /\ {TokenTtl, CredentialTtl, OfflineAfter, MaxRestarts, MaxInFlight} \subseteq Nat
    /\ Absent \notin Nat

VARIABLES
    vouchers,  \* tokens_by_hash
    nodes,     \* NodeRecord by id, with the time of the node's latest heartbeat
    keys,      \* credentials, in the order they were made
    restarts,
    disk,      \* the identity file of each host
    agent,     \* the agent process of each host
    wire,      \* requests on their way to the control plane
    handed,    \* identities with a rotated secret that administrators were given, and for which host
    made,      \* history: by which token and for which host each node was made
    base,      \* history: how many of those were made before the last restart
    drawn,     \* history: the random values in use
    fitted     \* history: the rotated secrets that were put on a host

enrollVars ==
    <<now, vouchers, nodes, keys, restarts, disk, agent, wire, handed, made, base, drawn, fitted>>

NodeStatus == {"Enrolled", "Online", "Offline", "Revoked"}
Identity   == [node : Nat, secret : Secret \cup {Absent}]
Truncated  == [node |-> 0, secret |-> Absent]
Stopped    == [pc |-> "down", id |-> Absent]
Post       == [host : Host, heard : BOOLEAN, token : EnrollToken \cup {Absent},
               id : Identity \cup {Absent}]

\* EnrollmentTokenRecord, NodeRecord with its latest heartbeat, and NodeCredentialRecord
Voucher    == [expires : Nat, node : Nat \cup {Absent}]
Node       == [host : Host, status : NodeStatus \ {"Offline"}, beat : Time]
Credential == [node : Nat, secret : Secret, expires : Nat, rotated : BOOLEAN]

EnrollmentTypeOK ==
    /\ now \in Time
    /\ vouchers \in [EnrollToken -> Voucher \cup {Absent}]
    /\ nodes \in Seq(Node)
    /\ keys \in Seq(Credential)
    /\ restarts \in 0..MaxRestarts
    /\ disk \in [Host -> Identity \cup {Absent}]
    /\ agent \in [Host -> [pc : {"down", "enrolling", "opening", "writing", "running", "beating"},
                           id : Identity \cup {Absent}]]
    /\ wire \in SUBSET Post
    /\ made \in Seq([token : EnrollToken, host : Host])
    /\ base \in Nat
    /\ drawn \in SUBSET (EnrollToken \cup Secret)
    /\ handed \in SUBSET (Host \X Identity)
    /\ fitted \in SUBSET Secret

EnrollmentInit ==
    /\ now = 0
    /\ vouchers = [e \in EnrollToken |-> Absent]
    /\ nodes = <<>>
    /\ keys = <<>>
    /\ restarts = 0
    /\ disk = [h \in Host |-> Absent]
    /\ agent = [h \in Host |-> Stopped]
    /\ wire = {}
    /\ made = <<>>
    /\ base = 0
    /\ drawn = {}
    /\ handed = {}
    /\ fitted = {}

-----------------------------------------------------------------------------
\* create_token
NewVoucher == [expires |-> now + TokenTtl, node |-> Absent]

\* create_enrollment_token, for an administrator the limiter let pass.
CreateToken(e) ==
    /\ e \notin drawn
    /\ drawn' = drawn \cup {e}
    /\ vouchers' = [vouchers EXCEPT ![e] = NewVoucher]
    /\ UNCHANGED <<now, nodes, keys, restarts, disk, agent, wire, made, base, handed, fitted>>

\* generate_node_credential and credential_expiration_unix_secs
NewSecrets == Secret \ drawn
NewCredential(i, s, again) ==
    [node |-> i, secret |-> s, expires |-> now + CredentialTtl, rotated |-> again]

\* A variant with a fault: a token is good until it expires.
UsableUntilExpired(e) == vouchers[e] # Absent /\ vouchers[e].expires > now

Usable(e) == vouchers[e] # Absent /\ vouchers[e].node = Absent /\ vouchers[e].expires > now

Replies(m, a) ==
    /\ wire' = wire \ {m}
    /\ agent' = IF m.heard THEN [agent EXCEPT ![m.host] = a] ELSE agent

\* agent_enroll: the answer makes the agent save its identity, a refusal ends it.
AnswerEnroll(m) ==
    LET i == Len(nodes) + 1 IN
    /\ m.token # Absent
    /\ IF Usable(m.token)
       THEN \E s \in NewSecrets :
              /\ drawn' = drawn \cup {s}
              /\ vouchers' = [vouchers EXCEPT ![m.token].node = i]
              /\ nodes' = Append(nodes, [host |-> m.host, status |-> "Enrolled", beat |-> now])
              /\ keys' = Append(keys, NewCredential(i, s, FALSE))
              /\ made' = Append(made, [token |-> m.token, host |-> m.host])
              /\ Replies(m, [pc |-> "opening", id |-> [node |-> i, secret |-> s]])
       ELSE /\ Replies(m, Stopped)
            /\ UNCHANGED <<drawn, vouchers, nodes, keys, made>>
    /\ UNCHANGED <<now, restarts, disk, base, handed, fitted>>

\* A variant with a fault: the proof is not looked at.
AuthenticatedByName(id) == {k \in DOMAIN keys : keys[k].node = id.node}

\* authenticated_credential: secrets are drawn once, so it is the only one.
Authenticated(id) == {k \in DOMAIN keys : keys[k].node = id.node /\ keys[k].secret = id.secret}

\* A variant with a fault: the expiry that is compared is the node's newest.
AdmittedByNewest(id) ==
    /\ id.node \in DOMAIN nodes
    /\ nodes[id.node].status # "Revoked"
    /\ Authenticated(id) # {}
    /\ \E k \in DOMAIN keys : keys[k].node = id.node /\ keys[k].expires > now

\* What heartbeat and authenticate_transport demand.
Admitted(id) ==
    /\ id.node \in DOMAIN nodes
    /\ nodes[id.node].status # "Revoked"
    /\ \E k \in Authenticated(id) : keys[k].expires > now

\* What they change.
Beat(id, h) == nodes' = [nodes EXCEPT ![id.node] = [host |-> h, status |-> "Online", beat |-> now]]

\* agent_heartbeat: any refusal ends the agent.
AnswerHeartbeat(m) ==
    /\ m.id # Absent
    /\ IF Admitted(m.id)
       THEN Beat(m.id, m.host) /\ Replies(m, [pc |-> "running", id |-> m.id])
       ELSE UNCHANGED nodes /\ Replies(m, Stopped)
    /\ UNCHANGED <<now, vouchers, keys, restarts, disk, made, base, drawn, handed, fitted>>

\* authenticate_transport, for the outbound connection of a running agent.
AuthenticateTransport(h) ==
    /\ agent[h].pc = "running"
    /\ Admitted(agent[h].id)
    /\ nodes' = [nodes EXCEPT ![agent[h].id.node].status = "Online", ![agent[h].id.node].beat = now]
    /\ UNCHANGED <<now, vouchers, keys, restarts, disk, agent, wire, made, base, drawn, handed, fitted>>

\* A variant with a fault: what node_view shows is written back.
RevokeAsShown(i) ==
    /\ i \in DOMAIN nodes
    /\ nodes' = [nodes EXCEPT ![i].status =
                    IF now - nodes[i].beat >= OfflineAfter THEN "Offline" ELSE "Revoked"]
    /\ UNCHANGED <<now, vouchers, keys, restarts, disk, agent, wire, made, base, drawn, handed, fitted>>

\* revoke_node of the registry; AgentConnections and RemoteTerminal have the rest of the route.
RevokeNode(i) ==
    /\ i \in DOMAIN nodes
    /\ nodes' = [nodes EXCEPT ![i].status = "Revoked"]
    /\ UNCHANGED <<now, vouchers, keys, restarts, disk, agent, wire, made, base, drawn, handed, fitted>>

\* rotate_credential: the new secret is the answer to the administrator, the old one stays valid.
RotateCredential(i) ==
    /\ i \in DOMAIN nodes
    /\ nodes[i].status # "Revoked"
    /\ \E s \in NewSecrets :
        /\ drawn' = drawn \cup {s}
        /\ keys' = Append(keys, NewCredential(i, s, TRUE))
        /\ handed' = handed \cup {<<nodes[i].host, [node |-> i, secret |-> s]>>}
    /\ UNCHANGED <<now, vouchers, nodes, restarts, disk, agent, wire, made, base, fitted>>

\* node_view's status, in list_nodes, node_details and node_is_online.
Shown(i) ==
    IF nodes[i].status = "Online" /\ now - nodes[i].beat >= OfflineAfter
    THEN "Offline" ELSE nodes[i].status

RestartControl ==
    /\ restarts < MaxRestarts
    /\ restarts' = restarts + 1
    /\ vouchers' = [e \in EnrollToken |-> Absent]
    /\ nodes' = <<>>
    /\ keys' = <<>>
    /\ wire' = {}
    /\ agent' = [h \in Host |-> IF agent[h].pc \in {"enrolling", "beating"} THEN Stopped ELSE agent[h]]
    /\ base' = Len(made)
    /\ UNCHANGED <<now, disk, made, drawn, handed, fitted>>

-----------------------------------------------------------------------------
Sends(h, token, id) ==
    /\ Cardinality(wire) < MaxInFlight
    /\ wire' = wire \cup {[host |-> h, heard |-> TRUE, token |-> token, id |-> id]}

\* A variant with a fault: a token in the environment wins over the identity file.
StartForgetting(h, e) ==
    /\ agent[h].pc = "down"
    /\ disk[h] # Truncated
    /\ \/ /\ disk[h] # Absent /\ e = Absent
          /\ agent' = [agent EXCEPT ![h] = [pc |-> "running", id |-> disk[h]]]
          /\ UNCHANGED wire
       \/ /\ e # Absent
          /\ agent' = [agent EXCEPT ![h].pc = "enrolling"]
          /\ Sends(h, e, Absent)
    /\ UNCHANGED <<now, vouchers, nodes, keys, restarts, disk, made, base, drawn, handed, fitted>>

\* load_or_enroll_identity: a file that does not parse, or neither file nor token, ends the agent.
Start(h, e) ==
    /\ agent[h].pc = "down"
    /\ disk[h] # Truncated
    /\ \/ /\ disk[h] # Absent
          /\ agent' = [agent EXCEPT ![h] = [pc |-> "running", id |-> disk[h]]]
          /\ UNCHANGED wire
       \/ /\ disk[h] = Absent /\ e # Absent
          /\ agent' = [agent EXCEPT ![h].pc = "enrolling"]
          /\ Sends(h, e, Absent)
    /\ UNCHANGED <<now, vouchers, nodes, keys, restarts, disk, made, base, drawn, handed, fitted>>

\* save_to_path: opening the file truncates it.
OpenIdentity(h) ==
    /\ agent[h].pc = "opening"
    /\ agent' = [agent EXCEPT ![h].pc = "writing"]
    /\ disk' = [disk EXCEPT ![h] = Truncated]
    /\ UNCHANGED <<now, vouchers, nodes, keys, restarts, wire, made, base, drawn, handed, fitted>>

WriteIdentity(h) ==
    /\ agent[h].pc = "writing"
    /\ agent' = [agent EXCEPT ![h].pc = "running"]
    /\ disk' = [disk EXCEPT ![h] = agent[h].id]
    /\ UNCHANGED <<now, vouchers, nodes, keys, restarts, wire, made, base, drawn, handed, fitted>>

\* An administrator puts the rotated secret into the identity file of the node's host, whose
\* agent is stopped: nothing in the code does it.
InstallRotated(h, id) ==
    /\ agent[h].pc = "down"
    /\ <<h, id>> \in handed
    /\ disk' = [disk EXCEPT ![h] = id]
    /\ fitted' = fitted \cup {id.secret}
    /\ UNCHANGED <<now, vouchers, nodes, keys, restarts, agent, wire, handed, made, base, drawn>>

\* send_heartbeat, once on start and at every tick.
SendHeartbeat(h) ==
    /\ agent[h].pc = "running"
    /\ agent' = [agent EXCEPT ![h].pc = "beating"]
    /\ Sends(h, Absent, agent[h].id)
    /\ UNCHANGED <<now, vouchers, nodes, keys, restarts, disk, made, base, drawn, handed, fitted>>

\* run_until_shutdown returns, or the process is killed; its request may be on its way.
AgentEnds(h) ==
    /\ agent[h].pc # "down"
    /\ agent' = [agent EXCEPT ![h] = Stopped]
    /\ wire' = {[m EXCEPT !.heard = @ /\ m.host # h] : m \in wire}
    /\ UNCHANGED <<now, vouchers, nodes, keys, restarts, disk, made, base, drawn, handed, fitted>>

ClockMoves ==
    /\ ClockTicks
    /\ UNCHANGED <<vouchers, nodes, keys, restarts, disk, agent, wire, made, base, drawn, handed, fitted>>

EnrollmentNext ==
    \/ ClockMoves
    \/ RestartControl
    \/ \E e \in EnrollToken : CreateToken(e)
    \/ \E m \in wire : AnswerEnroll(m) \/ AnswerHeartbeat(m)
    \/ \E i \in DOMAIN nodes : RevokeNode(i) \/ RotateCredential(i)
    \/ \E h \in Host :
        \/ \E e \in EnrollToken \cup {Absent} : Start(h, e)
        \/ OpenIdentity(h)
        \/ WriteIdentity(h)
        \/ \E x \in handed : InstallRotated(h, x[2])
        \/ SendHeartbeat(h)
        \/ AuthenticateTransport(h)
        \/ AgentEnds(h)

EnrollmentSpec == EnrollmentInit /\ [][EnrollmentNext]_enrollVars

-----------------------------------------------------------------------------
(* An enrollment token makes at most one node, however often it is         *)
(* presented, by whom, and whether or not the control plane restarted or   *)
(* the agent ever got the answer.                                          *)
OneNodePerToken ==
    \A i, j \in DOMAIN made : made[i].token = made[j].token => i = j

(* A node is reported on only by the host it was made for. Node ids are    *)
(* used again after a restart, so an agent of before the restart presents  *)
(* the id of a node that is now another host's.                            *)
NodesKeepTheirHost ==
    \A i \in DOMAIN nodes : nodes[i].host = made[base + i].host

\* An agent can present this credential: enrollment gave it to the agent, or an administrator did.
InUse(k) == ~keys[k].rotated \/ keys[k].secret \in fitted

(* A node is shown online no longer than NODE_OFFLINE_AFTER past the end   *)
(* of a credential that its agent was given. The old credential stays      *)
(* valid beside a rotated one and any valid one of the node is accepted,   *)
(* yet rotating prolongs nothing by itself: as long as the new secret is   *)
(* not put on the host, the node goes offline with the credential it has.  *)
OnlineEndsWithCredential ==
    \A i \in DOMAIN nodes : Shown(i) = "Online" =>
        \E k \in DOMAIN keys :
            keys[k].node = i /\ InUse(k) /\ now < keys[k].expires + OfflineAfter

(* A host that once saved its identity keeps it, but for a rotated one     *)
(* made for this host: no later start, refusal, crash or restart of the    *)
(* control plane damages or replaces the file.                             *)
IdentityKept ==
    [][\A h \in Host : disk[h] \notin {Absent, Truncated} =>
        disk'[h] = disk[h] \/ <<h, disk'[h]>> \in handed]_enrollVars
=============================================================================
