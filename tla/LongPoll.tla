------------------------------- MODULE LongPoll -------------------------------
(***************************************************************************)
(* The restrictive-network transport of an agent: the long-poll route and  *)
(* its handler (crates/sunbolt-control/src/agent/mod.rs), and the tasks    *)
(* that wait for room in its command channel (terminal/mod.rs).            *)
(*                                                                         *)
(* Every request is a handler of its own, and an agent or a proxy that     *)
(* gives up on one and asks again has several at once. They share one link *)
(* of the registry: its command receiver behind an async mutex, its        *)
(* message ids behind another. A handler is dropped at an await when its   *)
(* client hangs up. One node is modelled, with the one transport id an     *)
(* agent derives from it; who may register, and the WebSocket link the node *)
(* may have beside, are AgentConnections' and here only take the entry.    *)
(***************************************************************************)
EXTENDS Requests, Naturals, Sequences, FiniteSets, Functions

CONSTANTS
    Terminal,      \* browser sockets that open a terminal of the node
    Batch,         \* AGENT_TRANSPORT_LONG_POLL_BATCH
    QueueCap,      \* AGENT_TRANSPORT_CHANNEL_CAPACITY, of commands and of events
    Carried,       \* the sequences of envelopes a request brings
    MaxLinks, MaxId, MaxFrames   \* bounds of an instance: links, message ids, frames of a browser

ASSUME LongPollAssumption ==
    /\ Batch \in Nat \ {0} /\ QueueCap \in Nat \ {0}
    /\ Carried \subseteq Seq({"ping", "output", "stray"})

VARIABLES
    links,      \* every long-poll connection that was ever registered
    registered, \* the node's entry in AgentConnectionRegistry, 0 for another or none
    poll,       \* the requests being handled
    answered,   \* history: the commands in the responses of a link
    task,       \* remote terminal handlers, and whether the session registry lists theirs
    worker      \* the link the cleanup worker sends a CloseTerminal on, or 0

pollVars == <<links, registered, poll, answered, task, worker>>

Payload  == {"hello", "pong", "error", "command"}
Envelope == [id : Nat, kind : Payload, command : Nat]
NoPoll   == [pc |-> "idle", link |-> 0, todo |-> <<>>, answer |-> <<>>]

PollTypeOK ==
    /\ links \in Seq([queue : Seq(Nat), sent : Nat, events : 0 .. QueueCap, nextId : Nat])
    /\ \A n \in DOMAIN links : Len(links[n].queue) <= QueueCap
    /\ registered \in 0 .. Len(links)
    /\ poll \in [Caller -> [pc : {"idle", "negotiated", "registered", "events", "waiting",
                                  "draining"},
                            link : 0 .. Len(links), todo : Seq({"ping", "output", "stray"}),
                            answer : Seq(Envelope)]]
    /\ answered \in Seq(SUBSET Envelope)
    /\ task \in [Terminal -> [pc : {"idle", "starting", "looping", "sending", "done"},
                              link : 0 .. Len(links), listed : BOOLEAN]]
    /\ worker \in 0 .. Len(links)

PollInit ==
    /\ links = <<>> /\ answered = <<>> /\ registered = 0
    /\ poll = [p \in Caller |-> NoPoll]
    /\ task = [s \in Terminal |-> [pc |-> "idle", link |-> 0, listed |-> FALSE]] /\ worker = 0

-----------------------------------------------------------------------------
(* A request: negotiate_transport_for_kind, then ensure_long_poll_transport *)

PollAt(p, at) == poll[p].pc = at

\* negotiate_transport_for_kind of a request whose client hello is good.
Negotiated(todo) == [NoPoll EXCEPT !.pc = "negotiated", !.todo = todo]

\* The request brings its client hello, which is authenticated, and its envelopes.
Arrive(p) ==
    /\ PollAt(p, "idle")
    /\ \A n \in DOMAIN links : links[n].nextId < MaxId
    /\ \E todo \in Carried : poll' = [poll EXCEPT ![p] = Negotiated(todo)]
    /\ UNCHANGED <<links, registered, answered, task, worker>>

\* The node's long-poll link if it is the entry, or a new one in the place of what is.
Ensure(p) ==
    /\ PollAt(p, "negotiated")
    /\ IF registered # 0
       THEN UNCHANGED <<links, registered, answered>>
       ELSE /\ Len(links) < MaxLinks
            /\ links' = Append(links, [queue |-> <<>>, sent |-> 0, events |-> 0, nextId |-> 2])
            /\ answered' = Append(answered, {})
            /\ registered' = Len(links) + 1
    /\ poll' = [poll EXCEPT ![p].pc = "registered", ![p].link = registered']
    /\ UNCHANGED <<task, worker>>

\* next_long_poll_message_id, and the envelope that gets it.
Put(p, at, kind, todo) ==
    LET n == poll[p].link
        e == [id |-> links[n].nextId, kind |-> kind, command |-> 0]
    IN  /\ poll' = [poll EXCEPT ![p].pc = at, ![p].todo = todo, ![p].answer = Append(@, e)]
        /\ links' = [links EXCEPT ![n].nextId = @ + 1]

Hello(p) ==
    /\ PollAt(p, "registered")
    /\ Put(p, "events", "hello", poll[p].todo)
    /\ UNCHANGED <<registered, answered, task, worker>>

\* handle_agent_transport_envelope for the next envelope of the request: one that is not
\* valid or names another node or transport is an error, and so is an event without room; one
\* of another kind is ignored.
HandleEnvelope(p) ==
    /\ PollAt(p, "events") /\ poll[p].todo # <<>>
    /\ LET n == poll[p].link
           next == Head(poll[p].todo)
           rest == Tail(poll[p].todo)
           room == links[n].events < QueueCap
       IN  \/ next = "ping" /\ Put(p, "events", "pong", rest)
           \/ /\ next = "stray" \/ (next = "output" /\ ~room)
              /\ Put(p, "events", "error", rest)
           \/ /\ next = "output" /\ room
              /\ links' = [links EXCEPT ![n].events = @ + 1]
              /\ poll' = [poll EXCEPT ![p].todo = rest]
    /\ UNCHANGED <<registered, answered, task, worker>>

-----------------------------------------------------------------------------
(* append_long_poll_commands *)

\* command_rx.lock().await: one handler at a time. Only an answer that says no more than
\* hello waits for a command.
LockReceiver(p) ==
    /\ PollAt(p, "events") /\ poll[p].todo = <<>>
    /\ \A q \in Caller : ~(poll[q].link = poll[p].link /\ poll[q].pc \in {"waiting", "draining"})
    /\ poll' = [poll EXCEPT ![p].pc = IF Len(poll[p].answer) = 1 THEN "waiting" ELSE "draining"]
    /\ UNCHANGED <<links, registered, answered, task, worker>>

\* A variant with a fault: the commands of an answer are numbered on from its hello.
CommandTakenNumberedOn(p, at) ==
    LET n == poll[p].link
    IN  /\ links[n].queue # <<>>
        /\ links' = [links EXCEPT ![n].queue = Tail(@), ![n].nextId = @ + 1]
        /\ poll' = [poll EXCEPT ![p].pc = at, ![p].answer =
                       Append(@, [id |-> @[1].id + Len(@), kind |-> "command",
                                  command |-> Head(links[n].queue)])]

\* recv or try_recv, and the id of the command_envelope, under the receiver's lock.
CommandTaken(p, at) ==
    LET n == poll[p].link
    IN  /\ links[n].queue # <<>>
        /\ links' = [links EXCEPT ![n].queue = Tail(@), ![n].nextId = @ + 1]
        /\ poll' = [poll EXCEPT ![p].pc = at, ![p].answer =
                       Append(@, [id |-> links[n].nextId, kind |-> "command",
                                  command |-> Head(links[n].queue)])]

FirstCommand(p) ==
    /\ PollAt(p, "waiting")
    /\ CommandTaken(p, "draining")
    /\ UNCHANGED <<registered, answered, task, worker>>

\* time::timeout(AGENT_TRANSPORT_LONG_POLL_WAIT, ..)
WaitEnds(p) ==
    /\ PollAt(p, "waiting")
    /\ poll' = [poll EXCEPT ![p].pc = "draining"]
    /\ UNCHANGED <<links, registered, answered, task, worker>>

\* While there is room in the answer, which hello, pongs and errors take too.
NextCommand(p) ==
    /\ PollAt(p, "draining") /\ Len(poll[p].answer) < Batch
    /\ CommandTaken(p, "draining")
    /\ UNCHANGED <<registered, answered, task, worker>>

CommandsOf(answer) == {e \in Range(answer) : e.kind = "command"}

\* The response is on its way; nothing is kept of it if it is lost.
Respond(p) ==
    /\ PollAt(p, "draining")
    /\ Len(poll[p].answer) >= Batch \/ links[poll[p].link].queue = <<>>
    /\ answered' = [answered EXCEPT ![poll[p].link] = @ \cup CommandsOf(poll[p].answer)]
    /\ poll' = [poll EXCEPT ![p] = NoPoll]
    /\ UNCHANGED <<links, registered, task, worker>>

\* The client hangs up and the handler is dropped at the await it is in: that for the
\* lock, or that for the first command.
HangUp(p) ==
    /\ PollAt(p, "waiting") \/ (PollAt(p, "events") /\ poll[p].todo = <<>>)
    /\ poll' = [poll EXCEPT ![p] = NoPoll]
    /\ UNCHANGED <<links, registered, answered, task, worker>>

-----------------------------------------------------------------------------
\* register_transport of a WebSocket link, its disconnect_transport when it ends, which has
\* the same transport id, and disconnect: the entry is another's or nobody's.
EntryLost ==
    /\ registered # 0 /\ registered' = 0
    /\ UNCHANGED <<links, poll, answered, task, worker>>

-----------------------------------------------------------------------------
(* Terminals over a long-poll link, as far as they use it: RemoteTerminal has the rest *)

TaskAt(s, at) == task[s].pc = at

\* Somebody holds the link's LongPollConnectionState, which has both ends of its channels:
\* the registry, a request, or a terminal's handler with its clone of the connection. That
\* handler holds event_tx itself, so its event_rx.recv() never says that the link is lost.
Alive(n) ==
    \/ registered = n
    \/ \E p \in Caller : poll[p].link = n
    \/ \E s \in Terminal : task[s].link = n /\ task[s].pc \in {"starting", "looping", "sending"}

\* command_tx.send(..).await waits while the channel is full.
SendCommand(n) ==
    /\ Len(links[n].queue) < QueueCap
    /\ links' = [links EXCEPT ![n].queue = Append(@, links[n].sent + 1), ![n].sent = @ + 1]

LinkUnchanged == UNCHANGED <<registered, poll, answered>>

TerminalPicksLink(s) ==
    /\ TaskAt(s, "idle") /\ registered # 0
    /\ task' = [task EXCEPT ![s].pc = "starting", ![s].link = registered]
    /\ UNCHANGED <<links, worker>> /\ LinkUnchanged

\* StartTerminal, then insert_remote.
TerminalStarts(s) ==
    /\ TaskAt(s, "starting")
    /\ SendCommand(task[s].link)
    /\ task' = [task EXCEPT ![s].pc = "looping", ![s].listed = TRUE]
    /\ UNCHANGED worker /\ LinkUnchanged

\* An Input or Resize frame is read; nothing else is, until it is sent.
BrowserSends(s) ==
    /\ TaskAt(s, "looping") /\ links[task[s].link].sent <= MaxFrames
    /\ task' = [task EXCEPT ![s].pc = "sending"]
    /\ UNCHANGED <<links, worker>> /\ LinkUnchanged

FrameForwarded(s) ==
    /\ TaskAt(s, "sending")
    /\ SendCommand(task[s].link)
    /\ task' = [task EXCEPT ![s].pc = "looping"]
    /\ UNCHANGED worker /\ LinkUnchanged

EventRelayed(s) ==
    /\ TaskAt(s, "looping") /\ links[task[s].link].events > 0
    /\ links' = [links EXCEPT ![task[s].link].events = @ - 1]
    /\ UNCHANGED <<task, worker>> /\ LinkUnchanged

\* The browser's stream ends: the session is detached, its handler returns.
BrowserEnds(s) ==
    /\ TaskAt(s, "looping")
    /\ task' = [task EXCEPT ![s].pc = "done"]
    /\ UNCHANGED <<links, worker>> /\ LinkUnchanged

\* spawn_session_cleanup_worker: drain_expired takes out an entry that is due and the worker
\* sends its CloseTerminal before it looks at another.
WorkerExpires(s) ==
    /\ worker = 0 /\ task[s].listed
    /\ task' = [task EXCEPT ![s].listed = FALSE]
    /\ worker' = task[s].link
    /\ UNCHANGED links /\ LinkUnchanged

WorkerSends ==
    /\ worker # 0
    /\ SendCommand(worker) \/ (~Alive(worker) /\ UNCHANGED links)
    /\ worker' = 0
    /\ UNCHANGED task /\ LinkUnchanged

-----------------------------------------------------------------------------
PollStep(p) ==
    \/ Ensure(p) \/ Hello(p) \/ HandleEnvelope(p) \/ LockReceiver(p)
    \/ FirstCommand(p) \/ WaitEnds(p) \/ NextCommand(p) \/ Respond(p)

TaskStep(s) == TerminalStarts(s) \/ FrameForwarded(s) \/ EventRelayed(s)

PollNext ==
    \/ \E p \in Caller : Arrive(p) \/ PollStep(p) \/ HangUp(p)
    \/ \E s \in Terminal : \/ TerminalPicksLink(s) \/ TaskStep(s) \/ BrowserSends(s)
                           \/ BrowserEnds(s) \/ WorkerExpires(s)
    \/ WorkerSends \/ EntryLost

PollSpec == PollInit /\ [][PollNext]_pollVars

\* Tasks of the control plane that can run do run, and sessions come of age. Nothing is
\* assumed of the agent.
FairPollSpec ==
    /\ PollSpec
    /\ \A p \in Caller : WF_pollVars(PollStep(p))
    /\ \A s \in Terminal : WF_pollVars(TaskStep(s)) /\ WF_pollVars(WorkerExpires(s))
    /\ WF_pollVars(WorkerSends)

-----------------------------------------------------------------------------
CommandsDrawn(n) ==
    answered[n] \cup UNION {CommandsOf(poll[p].answer) : p \in {q \in Caller : poll[q].link = n}}

(* Requests that overlap take commands from one queue, number their envelopes   *)
(* from one counter and are dropped at any await. Still every command that was  *)
(* sent is in one response or in the queue, and the message ids of the          *)
(* responses are in the order the commands were sent in, so that an agent that  *)
(* gets its responses out of order can put the commands back in order.          *)
IdsOrderCommands ==
    \A n \in DOMAIN links :
        LET given == CommandsDrawn(n)
            taken  == links[n].sent - Len(links[n].queue)
        IN  /\ {e.command : e \in given} = 1 .. taken
            /\ \A i \in DOMAIN links[n].queue : links[n].queue[i] = taken + i
            /\ \A d, e \in given : d.id < e.id <=> d.command < e.command

(* docs/terminal-lifecycle.md: idle timeout and absolute max duration apply to   *)
(* every session, detached ones as well. Each is taken out of the registry.      *)
MaxDurationHolds == \A s \in Terminal : task[s].listed ~> ~task[s].listed
=============================================================================
