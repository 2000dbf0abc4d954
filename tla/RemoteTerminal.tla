----------------------------- MODULE RemoteTerminal -----------------------------
(***************************************************************************)
(* A terminal on an agent node: handle_remote_terminal_socket              *)
(* (crates/sunbolt-control/src/terminal/mod.rs), the link to the agent     *)
(* (AgentConnections), AgentTerminalRuntime at its other end, the terminate *)
(* route, the cleanup worker and the revocation of a node, all around one  *)
(* SessionRegistry.                                                        *)
(*                                                                         *)
(* A browser WebSocket opens one session and no remote session can be      *)
(* reattached: the browser is never given its token (agent_event_to_       *)
(* browser_message). So a handler is named by its session.                 *)
(***************************************************************************)
EXTENDS SessionRegistry, AgentConnections, Sequences

CONSTANTS
    Actor,        \* the user all browsers are signed in as
    CommandCap,   \* capacity of the command channel of a link
    EventCap,     \* capacity of the event channel of a link
    Inputs        \* what browsers, agents, operators and the clock may do

Frames == {"input", "terminate", "detach"}

ASSUME ActorAssumption == Actor \in User
ASSUME CapAssumption == CommandCap \in Nat \ {0} /\ EventCap \in Nat \ {0}
ASSUME InputAssumption ==
    Inputs \subseteq Frames \cup {"http", "revoke", "leave", "output", "exit", "fail", "die",
                              "offline", "idle", "old"}

VARIABLES
    r,         \* the handler of each session's browser
    cmds,      \* per link: the command channel and the wire behind it
    events,    \* per link: the event channel
    term,      \* the session's entry in AgentTerminalRuntime::sessions
    due,       \* a CloseTerminal still to be sent for a removed entry, and by whom
    revoker    \* the revoke_node request for a node

channelVars == <<cmds, events>>
remoteVars  == <<regVars, linkVars, r, channelVars, term, due, revoker>>

Command == [kind : {"start", "input", "close"}, sid : Session]
Event   == [kind : {"started", "output", "exited", "error"}, sid : Session]

\* The handlers that hold the lock on the event receiver of their link.
Holding == {"looping", "relaying", "killing", "ending", "closing"}
PC == Holding \cup {"idle", "online", "routed", "sent", "refusing", "waiting", "done"}

\* link: the connection chosen, afterwards the command_tx of the registry entry;
\* cur: the event being relayed; gone: the browser closed the socket.
RemoteHandler ==
    [pc : PC, node : Node \cup {NoNode}, link : Link \cup {Nobody},
     cur : Event \cup {Absent}, gone : BOOLEAN]

RemoteTypeOK ==
    /\ TypeOK /\ LinksTypeOK
    /\ r \in [Session -> RemoteHandler]
    /\ cmds \in [Link -> Seq(Command)] /\ events \in [Link -> Seq(Event)]
    /\ \A l \in Link : Len(cmds[l]) <= CommandCap /\ Len(events[l]) <= EventCap
    /\ term \in [Session -> {"none", "running", "ended"}]
    /\ due \in [Session -> {"none", "http", "worker", "revoke"}]
    /\ revoker \in [Node -> {"idle", "marked", "closing", "done"}]

RemoteInit ==
    /\ RegInit /\ LinksInit
    /\ r = [s \in Session |-> [pc |-> "idle", node |-> NoNode, link |-> Nobody,
                               cur |-> Absent, gone |-> FALSE]]
    /\ cmds = [l \in Link |-> <<>>]
    /\ events = [l \in Link |-> <<>>]
    /\ term = [s \in Session |-> "none"]
    /\ due = [s \in Session |-> "none"]
    /\ revoker = [n \in Node |-> "idle"]

-----------------------------------------------------------------------------
At(s, at)         == r[s].pc = at
Goto(s, from, to) == At(s, from) /\ r' = [r EXCEPT ![s].pc = to]
LinkOf(s)         == r[s].link
Busy(s)           == r[s].pc \notin {"idle", "online", "done"}

\* command_tx.send(..).await: waits while the channel is full, fails once the link's
\* handler has returned; the callers that ignore the failure use SendOrLose.
Receives(l)       == l = Nobody \/ ~LinkAt(l, "closed")
Send(l, kind, s)  == /\ Receives(l) /\ Len(cmds[l]) < CommandCap
                     /\ cmds' = [cmds EXCEPT ![l] = Append(@, [kind |-> kind, sid |-> s])]
SendOrLose(l, kind, s) == Send(l, kind, s) \/ (~Receives(l) /\ UNCHANGED cmds)

\* A variant with a fault: events are queued without a bound.
OfferedUnbounded(l, kind, s) == [events EXCEPT ![l] = Append(@, [kind |-> kind, sid |-> s])]

\* event_tx.try_send: an event that finds the channel full is rejected and lost.
Offered(l, kind, s) == IF Len(events[l]) < EventCap
                       THEN [events EXCEPT ![l] = Append(@, [kind |-> kind, sid |-> s])]
                       ELSE events

RemoveIfPresent(s) == IF Present(s) THEN Remove(s) ELSE UNCHANGED regVars

\* Somebody holds a command_tx of the link: the connection registry, a handler, an entry
\* of the session registry, or a request with a CloseTerminal to send.
HasSender(l) ==
    \/ conn[link[l].node] = l
    \/ \E s \in Session : LinkOf(s) = l /\ (Busy(s) \/ Present(s) \/ due[s] # "none")

-----------------------------------------------------------------------------
(* handle_remote_terminal_socket until its loop *)

\* The node_is_online check.
OpenRequest(s, n) ==
    /\ At(s, "idle")
    /\ r' = [r EXCEPT ![s].pc = IF NodeIsOnline(n) THEN "online" ELSE "done", ![s].node = n]
    /\ UNCHANGED <<regVars, linkVars, channelVars, term, due, revoker>>

\* select_route and connection: the node's link, if it has one and the router takes it.
PickConnection(s) ==
    /\ At(s, "online")
    /\ conn[r[s].node] # Nobody
    /\ r' = [r EXCEPT ![s].pc = "routed", ![s].link = conn[r[s].node]]
    /\ UNCHANGED <<regVars, linkVars, channelVars, term, due, revoker>>

NoRoute(s) ==
    /\ Goto(s, "online", "done")
    /\ UNCHANGED <<regVars, linkVars, channelVars, term, due, revoker>>

\* StartTerminal goes out before the registry is asked.
SendStart(s) ==
    /\ Goto(s, "routed", "sent")
    /\ Send(LinkOf(s), "start", s)
    /\ UNCHANGED <<regVars, linkVars, events, term, due, revoker>>

StartFails(s) ==
    /\ Goto(s, "routed", "done")
    /\ ~Receives(LinkOf(s))
    /\ Disconnect(r[s].node)
    /\ UNCHANGED <<regVars, channelVars, term, due, revoker>>

InsertRemoteOk(s) ==
    /\ Goto(s, "sent", "waiting")
    /\ InsertRemote(s, Actor, r[s].node)
    /\ UNCHANGED <<linkVars, channelVars, term, due, revoker>>

\* A variant with a fault: the terminal started for a refused session is not closed.
RefusedLeaks(s) ==
    /\ Goto(s, "sent", "done")
    /\ ~Admissible(Actor, r[s].node)
    /\ UNCHANGED <<regVars, linkVars, channelVars, term, due, revoker>>

InsertRemoteRefused(s) ==
    /\ Goto(s, "sent", "refusing")
    /\ ~Admissible(Actor, r[s].node)
    /\ UNCHANGED <<regVars, linkVars, channelVars, term, due, revoker>>

\* event_rx.lock().await: one handler per link at a time, until it returns.
AcquireEvents(s) ==
    /\ \A o \in Session \ {s} : ~(LinkOf(o) = LinkOf(s) /\ r[o].pc \in Holding)
    /\ Goto(s, "waiting", "looping")
    /\ UNCHANGED <<regVars, linkVars, channelVars, term, due, revoker>>

-----------------------------------------------------------------------------
(* The select! loop *)

\* The event is whichever comes next on the link; a started event activates the
\* handler's own session.
RecvEvent(s) ==
    /\ At(s, "looping")
    /\ events[LinkOf(s)] # <<>>
    /\ LET e == Head(events[LinkOf(s)])
       IN  /\ r' = [r EXCEPT ![s].pc = "relaying", ![s].cur = e]
           /\ IF e.kind = "started" THEN SetState(s, "Active") ELSE UNCHANGED regVars
    /\ events' = [events EXCEPT ![LinkOf(s)] = Tail(@)]
    /\ UNCHANGED <<linkVars, cmds, term, due, revoker>>

\* After an exited event the handler's own entry is removed.
RelayOk(s) ==
    /\ At(s, "relaying")
    /\ LET exited == r[s].cur.kind = "exited"
       IN  /\ r' = [r EXCEPT ![s].pc = IF exited THEN "ending" ELSE "looping",
                             ![s].cur = Absent]
           /\ IF exited THEN RemoveIfPresent(s) ELSE UNCHANGED regVars
    /\ UNCHANGED <<linkVars, channelVars, term, due, revoker>>

\* The browser is lost: seen by a failing send, or by the end of its stream.
BrowserLost(s) ==
    /\ r[s].gone /\ r[s].pc \in {"looping", "relaying"}
    /\ r' = [r EXCEPT ![s].pc = "ending", ![s].cur = Absent]
    /\ SetState(s, "Detached")
    /\ UNCHANGED <<linkVars, channelVars, term, due, revoker>>

\* A variant with a fault: the end of the events is treated like a lagging receiver.
LinkLostContinues(s) ==
    /\ At(s, "looping")
    /\ events[LinkOf(s)] = <<>> /\ ~Receives(LinkOf(s))
    /\ UNCHANGED remoteVars

\* recv() yields None: the link's handler has returned and every event was read.
LinkLost(s) ==
    /\ Goto(s, "looping", "ending")
    /\ events[LinkOf(s)] = <<>> /\ ~Receives(LinkOf(s))
    /\ UNCHANGED <<regVars, linkVars, channelVars, term, due, revoker>>

\* handle_remote_client_frame: Input and Resize are passed on, or end the handler.
InputFrame(s) ==
    /\ "input" \in Inputs /\ ~r[s].gone
    /\ \/ /\ At(s, "looping") /\ UNCHANGED r
          /\ Send(LinkOf(s), "input", s)
       \/ /\ Goto(s, "looping", "ending")
          /\ ~Receives(LinkOf(s)) /\ UNCHANGED cmds
    /\ UNCHANGED <<regVars, linkVars, events, term, due, revoker>>

TerminateFrame(s) ==
    /\ "terminate" \in Inputs /\ ~r[s].gone
    /\ Goto(s, "looping", "killing")
    /\ SetState(s, "Terminating")
    /\ UNCHANGED <<linkVars, channelVars, term, due, revoker>>

DetachFrame(s) ==
    /\ "detach" \in Inputs /\ ~r[s].gone
    /\ Goto(s, "looping", "ending")
    /\ SetState(s, "Detached")
    /\ UNCHANGED <<linkVars, channelVars, term, due, revoker>>

-----------------------------------------------------------------------------
(* After the loop *)

\* A variant with a fault: the entry is removed and the agent is not told.
EndingSilently(s) ==
    /\ Goto(s, "ending", "done")
    /\ IF InState(s, {"Detached"}) THEN UNCHANGED regVars ELSE RemoveIfPresent(s)
    /\ UNCHANGED <<linkVars, channelVars, term, due, revoker>>

\* A session that is Detached stays, every other is taken out of the registry.
Ending(s) ==
    /\ IF InState(s, {"Detached"})
       THEN Goto(s, "ending", "done") /\ UNCHANGED regVars
       ELSE Goto(s, "ending", "closing") /\ RemoveIfPresent(s)
    /\ UNCHANGED <<linkVars, channelVars, term, due, revoker>>

\* CloseTerminal: after the loop, at a Terminate frame, and for a refused session.
SendClose(s) ==
    /\ \/ Goto(s, "closing", "done")
       \/ Goto(s, "killing", "ending")
       \/ Goto(s, "refusing", "done")
    /\ SendOrLose(LinkOf(s), "close", s)
    /\ UNCHANGED <<regVars, linkVars, events, term, due, revoker>>

-----------------------------------------------------------------------------
(* The terminate route, the cleanup worker and revoke_node *)

\* The entries of S were just removed by `who`, which sends each its CloseTerminal.
Owe(S, who) == due' = [s \in Session |-> IF s \in S THEN who ELSE due[s]]

HttpTerminate(s) ==
    /\ "http" \in Inputs
    /\ Terminate(s)
    /\ Owe({s}, "http")
    /\ UNCHANGED <<linkVars, r, channelVars, term, revoker>>

\* One pass of the worker: the next drain waits until every CloseTerminal is sent.
WorkerDrain ==
    /\ \A s \in Session : due[s] # "worker"
    /\ DrainExpired
    /\ Owe(Expired, "worker")
    /\ UNCHANGED <<linkVars, r, channelVars, term, revoker>>

SendDue(s) ==
    /\ due[s] # "none"
    /\ SendOrLose(LinkOf(s), "close", s)
    /\ Owe({s}, "none")
    /\ UNCHANGED <<regVars, linkVars, r, events, term, revoker>>

Revoking(n, from, to) == revoker[n] = from /\ revoker' = [revoker EXCEPT ![n] = to]

\* revoke_node: the node is marked, its sessions are closed, its connection is dropped.
RevokeMarks(n) ==
    /\ "revoke" \in Inputs
    /\ Revoking(n, "idle", "marked")
    /\ MarkRevoked(n)
    /\ UNCHANGED <<regVars, r, channelVars, term, due>>

RevokeCloses(n) ==
    /\ Revoking(n, "marked", "closing")
    /\ IF OfNode(n) = {} THEN UNCHANGED <<regVars, due>>
       ELSE CloseSessionsForNode(n) /\ Owe(OfNode(n), "revoke")
    /\ UNCHANGED <<linkVars, r, channelVars, term>>

RevokeDisconnects(n) ==
    /\ \A s \in Session : ~(r[s].node = n /\ due[s] = "revoke")
    /\ Revoking(n, "closing", "done")
    /\ Disconnect(n)
    /\ UNCHANGED <<regVars, r, channelVars, term, due>>

-----------------------------------------------------------------------------
(* The link and the agent *)

\* The link's handler writes the next command to the socket and the agent's
\* handle_command acts on it, unless the socket has died.
Carry(l) ==
    /\ LinkAt(l, "open") /\ cmds[l] # <<>>
    /\ cmds' = [cmds EXCEPT ![l] = Tail(@)]
    /\ LET s == Head(cmds[l]).sid
           Becomes(kind, to) == events' = Offered(l, kind, s)
                                /\ term' = [term EXCEPT ![s] = to]
       IN  \/ ~link[l].up /\ UNCHANGED <<events, term>>
           \/ /\ link[l].up /\ Head(cmds[l]).kind = "start"
              /\ \/ Becomes("started", "running")
                 \/ "fail" \in Inputs /\ Becomes("error", "ended")
           \/ /\ link[l].up /\ Head(cmds[l]).kind = "close"
              /\ Becomes(IF term[s] = "running" THEN "exited" ELSE "error", "ended")
           \/ /\ link[l].up /\ Head(cmds[l]).kind = "input"
              /\ UNCHANGED <<events, term>>
    /\ UNCHANGED <<regVars, linkVars, r, due, revoker>>

\* read_output and poll_exit of the agent, over the link the terminal was started on.
AgentEvent(s) ==
    /\ term[s] = "running"
    /\ LET l       == LinkOf(s)
           To(kind) == events' = IF LinkAt(l, "open") /\ link[l].up
                                 THEN Offered(l, kind, s) ELSE events
       IN  \/ "output" \in Inputs /\ To("output") /\ UNCHANGED term
           \/ "exit" \in Inputs /\ To("exited") /\ term' = [term EXCEPT ![s] = "ended"]
    /\ UNCHANGED <<regVars, linkVars, r, cmds, due, revoker>>

\* What the handler of a link does by itself.
LinkStep(l) ==
    /\ Register(l) \/ Break(l, ~HasSender(l) /\ cmds[l] = <<>>) \/ Leave(l)
    /\ UNCHANGED <<regVars, r, channelVars, term, due, revoker>>

Network ==
    /\ \/ \E l \in Link, n \in Node : Negotiate(l, n)
       \/ \E l \in Link : "die" \in Inputs /\ SocketDies(l)
       \/ \E n \in Node : "offline" \in Inputs /\ (Heartbeat(n) \/ Lapse(n))
    /\ UNCHANGED <<regVars, r, channelVars, term, due, revoker>>

BrowserLeaves(s) ==
    /\ "leave" \in Inputs /\ Busy(s) /\ ~r[s].gone
    /\ r' = [r EXCEPT ![s].gone = TRUE]
    /\ UNCHANGED <<regVars, linkVars, channelVars, term, due, revoker>>

Clock(s) ==
    /\ \/ "idle" \in Inputs /\ Idle(s)
       \/ "old" \in Inputs /\ Age(s)
    /\ UNCHANGED <<linkVars, r, channelVars, term, due, revoker>>

-----------------------------------------------------------------------------
\* What a handler does without a new frame from its browser.
HandlerStep(s) ==
    \/ PickConnection(s) \/ NoRoute(s) \/ SendStart(s) \/ StartFails(s)
    \/ InsertRemoteOk(s) \/ InsertRemoteRefused(s) \/ AcquireEvents(s)
    \/ RecvEvent(s) \/ RelayOk(s) \/ BrowserLost(s) \/ LinkLost(s)
    \/ Ending(s) \/ SendClose(s)

RevokeStep(n) == RevokeCloses(n) \/ RevokeDisconnects(n)

RemoteNext ==
    \/ \E s \in Session : HandlerStep(s) \/ BrowserLeaves(s) \/ Clock(s)
    \/ \E s \in Session : InputFrame(s) \/ TerminateFrame(s) \/ DetachFrame(s)
    \/ \E s \in Session : HttpTerminate(s) \/ SendDue(s) \/ AgentEvent(s)
    \/ \E s \in Session, n \in Node : OpenRequest(s, n)
    \/ \E n \in Node : RevokeMarks(n) \/ RevokeStep(n)
    \/ \E l \in Link : Carry(l) \/ LinkStep(l)
    \/ WorkerDrain
    \/ Network

RemoteSpec == RemoteInit /\ [][RemoteNext]_remoteVars

\* Tasks that can run do run, each link's handler sees commands and the death of its
\* socket (the liveness timeout), and time passes. Nothing is assumed of browsers,
\* agents, operators or the network.
TimePasses(s) == Age(s) /\ UNCHANGED <<linkVars, r, channelVars, term, due, revoker>>

Fairness ==
    /\ \A s \in Session : WF_remoteVars(HandlerStep(s)) /\ WF_remoteVars(SendDue(s))
    /\ \A s \in Session : WF_remoteVars(TimePasses(s))
    /\ \A n \in Node : WF_remoteVars(RevokeStep(n))
    /\ \A l \in Link : WF_remoteVars(Carry(l)) /\ WF_remoteVars(LinkStep(l))
    /\ WF_remoteVars(WorkerDrain)

FairRemoteSpec == RemoteSpec /\ Fairness

-----------------------------------------------------------------------------
\* The link still carries what is sent on it.
Carries(l)          == l # Nobody /\ LinkAt(l, "open") /\ link[l].up
InTransit(s, kind)  == \E i \in DOMAIN cmds[LinkOf(s)] :
                           cmds[LinkOf(s)][i] = [kind |-> kind, sid |-> s]

(* StartTerminal is sent before insert_remote can refuse the session, and four  *)
(* callers remove entries. Whoever does, a terminal the agent runs, or is about *)
(* to be told to start, on a link that still works is in the registry, or in    *)
(* the hands of its handler, or its CloseTerminal is owed or under way.         *)
NoForgottenTerminal ==
    \A s \in Session :
        /\ Carries(LinkOf(s))
        /\ term[s] = "running" \/ InTransit(s, "start")
        => Present(s) \/ Busy(s) \/ due[s] # "none" \/ InTransit(s, "close")

(* An agent that is lost takes its handlers with it: also the one that has yet  *)
(* to get the event receiver another handler of the link holds.                 *)
LostLinkEndsHandlers ==
    \A s \in Session : (Busy(s) /\ ~Receives(LinkOf(s))) ~> At(s, "done")

(* max_duration ends every remote session, attached or not, connected or not.   *)
RemoteSessionEnds == \A s \in Session : Present(s) ~> ~Present(s)

(* The terminal of a session that has ended is closed on the agent, unless the  *)
(* link it was started on is lost.                                              *)
TerminalCloses ==
    \A s \in Session :
        (term[s] = "running" /\ ~Present(s) /\ ~Busy(s)) ~>
            (term[s] = "ended" \/ ~Carries(LinkOf(s)))

(* docs/security-model.md: a revoked node must be unable to open or continue    *)
(* terminal sessions. Once revoke_node has answered, no session of the node is  *)
(* in use.                                                                      *)
RevokedHasNoSession ==
    \A n \in Node : revoker[n] = "done" =>
        \A s \in OfNode(n) : ~InState(s, Reattachable)

(* docs/security-model.md: only an explicit terminate, a process exit, an expiry *)
(* or a policy close the PTY. A handler must not end its own session for an exit *)
(* that the agent reported for another one.                                     *)
OthersExitKeepsSession ==
    [][\A s \in Session :
          At(s, "relaying") /\ r[s].cur.kind = "exited" /\ r[s].cur.sid # s /\ Present(s)
              => Present(s)' \/ r'[s] = r[s]]_remoteVars
=============================================================================
