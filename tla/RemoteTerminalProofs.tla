-------------------------- MODULE RemoteTerminalProofs --------------------------
(***************************************************************************)
(* Proofs about RemoteTerminal for any number of sessions, nodes and links *)
(* and any channel capacities: the types, that the whole is an             *)
(* implementation of SessionRegistry, and that the control plane forgets   *)
(* no terminal it told an agent to start.                                  *)
(*                                                                         *)
(* The last needs the order of the commands of a link: a CloseTerminal     *)
(* must not overtake the StartTerminal of its session, which holds because *)
(* nobody owes a session a close before its handler has sent the start.    *)
(***************************************************************************)
EXTENDS RemoteTerminal, SessionRegistryProofs

\* A handler between the choice of its connection and its end knows both.
Placed == \A s \in Session :
    /\ r[s].pc \notin {"idle", "done"} => r[s].node \in Node
    /\ r[s].pc \notin {"idle", "online", "done"} => LinkOf(s) \in Link

RemoteInv == RemoteTypeOK /\ Placed

\* A command for s of this kind is on its way over l.
Queued(l, s, kind) == \E i \in DOMAIN cmds[l] : cmds[l][i] = [kind |-> kind, sid |-> s]

\* The handlers that have not sent their StartTerminal.
Early(s) == r[s].pc \in {"idle", "online", "routed"}

\* No link is chosen before it is open, and a session keeps the link chosen for it.
LinksInOrder ==
    /\ \A n \in Node : conn[n] # Nobody => link[conn[n]].pc \notin {"new", "negotiated"}
    /\ \A s \in Session : LinkOf(s) # Nobody => link[LinkOf(s)].pc \notin {"new", "negotiated"}
    /\ \A s \in Session : r[s].pc \in {"idle", "online"} => LinkOf(s) = Nobody

\* Commands travel on the link of their session.
Addressed ==
    \A l \in Link, s \in Session, kind \in {"start", "close"} :
        Queued(l, s, kind) => LinkOf(s) = l

\* Nothing exists that could make somebody close a terminal before it is started.
NothingEarly ==
    \A s \in Session : Early(s) =>
        /\ ~Present(s) /\ due[s] = "none"
        /\ \A l \in Link : ~Queued(l, s, "close")

\* No start of a session follows its close.
StartFirst ==
    \A l \in Link : \A i, j \in DOMAIN cmds[l] :
        i < j /\ cmds[l][i].kind = "close" /\ cmds[l][j].kind = "start"
            => cmds[l][i].sid # cmds[l][j].sid

Ordered == LinksInOrder /\ Addressed /\ NothingEarly /\ StartFirst

-----------------------------------------------------------------------------
(* A handler takes a new value, the others keep theirs.                        *)
HandlersOK == r \in [Session -> RemoteHandler] /\ Placed

LEMMA OneHandler ==
    ASSUME HandlersOK, NEW s \in Session, NEW v \in RemoteHandler,
           v.pc \notin {"idle", "done"} => v.node \in Node,
           v.pc \notin {"idle", "online", "done"} => v.link \in Link,
           r' = [r EXCEPT ![s] = v]
    PROVE  HandlersOK'
  BY DEF HandlersOK, Placed, LinkOf

LEMMA GotoOK ==
    ASSUME HandlersOK, NEW s \in Session, NEW from, NEW to \in PC,
           from \notin {"idle", "online", "done"} \/ to = "done", Goto(s, from, to)
    PROVE  HandlersOK'
<1> DEFINE v == [r[s] EXCEPT !.pc = to]
<1>1. r[s] \in RemoteHandler /\ r[s].pc = from
  BY DEF HandlersOK, Goto, At
<1>2. v \in RemoteHandler /\ v.pc = to /\ v.link = r[s].link /\ v.node = r[s].node
  BY <1>1 DEF RemoteHandler
<1>3. v.pc # "done" => v.link \in Link /\ v.node \in Node
  BY <1>1, <1>2 DEF HandlersOK, Placed, LinkOf
<1>4. r' = [r EXCEPT ![s] = v]
  BY DEF Goto
<1>5. QED
  BY <1>2, <1>3, <1>4, OneHandler

(* The channels of the links. *)
ChannelsOK ==
    /\ cmds \in [Link -> Seq(Command)] /\ events \in [Link -> Seq(Event)]
    /\ \A l \in Link : Len(cmds[l]) <= CommandCap /\ Len(events[l]) <= EventCap

LEMMA SendOK ==
    ASSUME ChannelsOK, NEW l, NEW kind \in {"start", "input", "close"}, NEW s \in Session,
           SendOrLose(l, kind, s), UNCHANGED events
    PROVE  ChannelsOK'
<1> DEFINE c == [kind |-> kind, sid |-> s]
<1>1. CASE Send(l, kind, s) /\ l \in Link
  <2>1. cmds[l] \in Seq(Command) /\ c \in Command /\ Len(cmds[l]) < CommandCap
    BY <1>1 DEF ChannelsOK, Send, Command
  <2>2. Append(cmds[l], c) \in Seq(Command) /\ Len(Append(cmds[l], c)) = Len(cmds[l]) + 1
    BY <2>1
  <2>3. Len(Append(cmds[l], c)) <= CommandCap
    BY <2>1, <2>2, CapAssumption
  <2>4. cmds' = [cmds EXCEPT ![l] = Append(cmds[l], c)]
    BY <1>1 DEF Send
  <2> HIDE DEF c
  <2>5. QED
    BY <2>2, <2>3, <2>4 DEF ChannelsOK
<1>2. CASE Send(l, kind, s) /\ l \notin Link
  BY <1>2 DEF ChannelsOK, Send
<1>3. CASE UNCHANGED cmds
  BY <1>3 DEF ChannelsOK
<1>4. QED
  BY <1>1, <1>2, <1>3 DEF SendOrLose

(* A full event channel rejects the event, so it never outgrows its capacity.   *)
LEMMA OfferedOK ==
    ASSUME ChannelsOK, NEW l, NEW kind \in {"started", "output", "exited", "error"},
           NEW s \in Session
    PROVE  /\ Offered(l, kind, s) \in [Link -> Seq(Event)]
           /\ \A m \in Link : Len(Offered(l, kind, s)[m]) <= EventCap
<1> DEFINE e == [kind |-> kind, sid |-> s]
<1>1. CASE l \in Link /\ Len(events[l]) < EventCap
  <2>1. events[l] \in Seq(Event) /\ e \in Event
    BY <1>1 DEF ChannelsOK, Event
  <2>2. Append(events[l], e) \in Seq(Event) /\ Len(Append(events[l], e)) = Len(events[l]) + 1
    BY <2>1
  <2>3. Len(Append(events[l], e)) <= EventCap
    BY <1>1, <2>1, <2>2, CapAssumption
  <2>4. Offered(l, kind, s) = [events EXCEPT ![l] = Append(events[l], e)]
    BY <1>1 DEF Offered
  <2> HIDE DEF e
  <2>5. QED
    BY <2>2, <2>3, <2>4 DEF ChannelsOK
<1>2. CASE ~(l \in Link /\ Len(events[l]) < EventCap)
  BY <1>2 DEF Offered, ChannelsOK
<1>3. QED
  BY <1>1, <1>2

LEMMA TailFacts ==
    ASSUME NEW T, NEW q \in Seq(T), q # <<>>
    PROVE  /\ Head(q) \in T /\ Tail(q) \in Seq(T)
           /\ Len(q) \in Nat \ {0} /\ Len(Tail(q)) = Len(q) - 1
           /\ \A i \in 1..(Len(q) - 1) : Tail(q)[i] = q[i + 1]
  OBVIOUS

-----------------------------------------------------------------------------
(* Every step calls the registry at most once, and leaves handlers and         *)
(* channels in their types.                                                    *)
RegStep == [Next]_regVars

LEMMA SetStateStep ==
    ASSUME NEW s \in Session, NEW st \in Requested, SetState(s, st)
    PROVE  RegStep
  BY DEF RegStep, Next

LEMMA RemoveStep ==
    ASSUME NEW s \in Session, RemoveIfPresent(s)
    PROVE  RegStep
  BY DEF RegStep, Next, RemoveIfPresent

Good == HandlersOK /\ ChannelsOK

LEMMA OpeningSteps ==
    ASSUME Good, NEW s \in Session,
           \/ PickConnection(s) \/ NoRoute(s) \/ SendStart(s) \/ StartFails(s)
           \/ InsertRemoteOk(s) \/ InsertRemoteRefused(s) \/ AcquireEvents(s),
           LinksTypeOK
    PROVE  Good' /\ RegStep
<1> USE DEF Good
<1>1. CASE PickConnection(s)
  <2> DEFINE v == [r[s] EXCEPT !.pc = "routed", !.link = conn[r[s].node]]
  <2>1. r[s] \in RemoteHandler /\ r[s].pc = "online"
    BY <1>1 DEF PickConnection, At, HandlersOK
  <2>2. conn[r[s].node] \in Link /\ r[s].node \in Node
    BY <1>1, <2>1 DEF PickConnection, LinksTypeOK, At, HandlersOK, Placed
  <2>3. v \in RemoteHandler /\ v.pc = "routed" /\ v.link \in Link /\ v.node = r[s].node
    BY <2>1, <2>2 DEF RemoteHandler, PC
  <2>4. r' = [r EXCEPT ![s] = v]
    BY <1>1 DEF PickConnection
  <2>5. HandlersOK'
    BY <2>2, <2>3, <2>4, OneHandler
  <2>6. QED
    BY <1>1, <2>5 DEF PickConnection, channelVars, ChannelsOK, RegStep
<1>2. CASE NoRoute(s) \/ StartFails(s) \/ InsertRemoteRefused(s) \/ AcquireEvents(s)
  <2>1. HandlersOK'
    BY <1>2, GotoOK DEF NoRoute, StartFails, InsertRemoteRefused, AcquireEvents, PC, Holding
  <2>2. QED
    BY <1>2, <2>1 DEF NoRoute, StartFails, InsertRemoteRefused, AcquireEvents, channelVars,
                      ChannelsOK, RegStep
<1>3. CASE SendStart(s)
  BY <1>3, GotoOK, SendOK DEF SendStart, SendOrLose, RegStep, PC
<1>4. CASE InsertRemoteOk(s)
  <2>1. r[s].node \in Node
    BY <1>4 DEF InsertRemoteOk, Goto, At, HandlersOK, Placed
  <2>2. RegStep
    BY <1>4, <2>1, ActorAssumption DEF InsertRemoteOk, RegStep, Next
  <2>3. HandlersOK'
    BY <1>4, GotoOK DEF InsertRemoteOk, PC
  <2>4. QED
    BY <1>4, <2>2, <2>3 DEF InsertRemoteOk, channelVars, ChannelsOK
<1>5. QED
  BY <1>1, <1>2, <1>3, <1>4

LEMMA LoopSteps ==
    ASSUME Good, NEW s \in Session,
           \/ RecvEvent(s) \/ RelayOk(s) \/ BrowserLost(s) \/ LinkLost(s)
           \/ InputFrame(s) \/ TerminateFrame(s) \/ DetachFrame(s)
    PROVE  Good' /\ RegStep
<1> USE DEF Good
<1>1. CASE RecvEvent(s)
  <2>1. r[s] \in RemoteHandler /\ r[s].link \in Link /\ r[s].node \in Node
    BY <1>1 DEF RecvEvent, At, HandlersOK, Placed, LinkOf
  <2> DEFINE q == events[LinkOf(s)]
  <2>2. q \in Seq(Event) /\ q # <<>> /\ Len(q) <= EventCap
    BY <1>1, <2>1 DEF RecvEvent, ChannelsOK, LinkOf
  <2> HIDE DEF q
  <2>3. /\ Head(q) \in Event /\ Tail(q) \in Seq(Event)
        /\ Len(q) \in Nat \ {0} /\ Len(Tail(q)) = Len(q) - 1
    BY <2>2, TailFacts
  <2>4. Len(Tail(q)) <= EventCap
    BY <2>2, <2>3, CapAssumption
  <2>5. ChannelsOK'
    <3>1. events' = [events EXCEPT ![LinkOf(s)] = Tail(q)] /\ cmds' = cmds
      BY <1>1 DEF RecvEvent, q
    <3>2. QED
      BY <2>3, <2>4, <3>1 DEF ChannelsOK
  <2> DEFINE v == [r[s] EXCEPT !.pc = "relaying", !.cur = Head(q)]
  <2>6. v \in RemoteHandler /\ v.link = r[s].link /\ v.node = r[s].node
    BY <2>1, <2>3 DEF RemoteHandler, PC, Holding
  <2>7. r' = [r EXCEPT ![s] = v]
    BY <1>1 DEF RecvEvent, q
  <2>8. HandlersOK'
    BY <2>1, <2>6, <2>7, OneHandler
  <2>9. RegStep
    BY <1>1, SetStateStep DEF RecvEvent, RegStep, Requested
  <2>10. QED
    BY <2>5, <2>8, <2>9
<1>2. CASE RelayOk(s) \/ BrowserLost(s)
  <2>1. PICK to \in {"looping", "ending"} : r' = [r EXCEPT ![s].pc = to, ![s].cur = Absent]
    BY <1>2 DEF RelayOk, BrowserLost
  <2>2. r[s] \in RemoteHandler /\ r[s].link \in Link /\ r[s].node \in Node
    BY <1>2 DEF RelayOk, BrowserLost, At, HandlersOK, Placed, LinkOf
  <2> DEFINE v == [r[s] EXCEPT !.pc = to, !.cur = Absent]
  <2>3. v \in RemoteHandler /\ v.link = r[s].link /\ v.node = r[s].node
    BY <2>2 DEF RemoteHandler, PC, Holding
  <2>4. HandlersOK'
    BY <2>1, <2>2, <2>3, OneHandler
  <2>5. RegStep
    BY <1>2, SetStateStep, RemoveStep DEF RelayOk, BrowserLost, RegStep, Requested
  <2>6. QED
    BY <1>2, <2>4, <2>5 DEF RelayOk, BrowserLost, channelVars, ChannelsOK
<1>3. CASE LinkLost(s)
  BY <1>3, GotoOK DEF LinkLost, PC, Holding, channelVars, ChannelsOK, RegStep
<1>4. CASE InputFrame(s)
  <2>1. HandlersOK'
    <3>1. CASE UNCHANGED r
      BY <3>1 DEF HandlersOK, Placed, LinkOf
    <3>2. CASE Goto(s, "looping", "ending")
      BY <3>2, GotoOK DEF PC, Holding
    <3>3. QED
      BY <1>4, <3>1, <3>2 DEF InputFrame
  <2>2. SendOrLose(LinkOf(s), "input", s)
    BY <1>4 DEF InputFrame, SendOrLose
  <2>3. QED
    BY <1>4, <2>1, <2>2, SendOK DEF InputFrame, RegStep
<1>5. CASE TerminateFrame(s) \/ DetachFrame(s)
  <2>1. HandlersOK'
    BY <1>5, GotoOK DEF TerminateFrame, DetachFrame, PC, Holding
  <2>2. RegStep
    BY <1>5, SetStateStep DEF TerminateFrame, DetachFrame, Requested
  <2>3. QED
    BY <1>5, <2>1, <2>2 DEF TerminateFrame, DetachFrame, channelVars, ChannelsOK
<1>6. QED
  BY <1>1, <1>2, <1>3, <1>4, <1>5

LEMMA EndingSteps ==
    ASSUME Good, NEW s \in Session, Ending(s) \/ SendClose(s) \/ BrowserLeaves(s)
    PROVE  Good' /\ RegStep
<1> USE DEF Good
<1>1. CASE Ending(s)
  <2>1. HandlersOK'
    BY <1>1, GotoOK DEF Ending, PC, Holding
  <2>2. RegStep
    BY <1>1, RemoveStep DEF Ending, RegStep
  <2>3. QED
    BY <1>1, <2>1, <2>2 DEF Ending, channelVars, ChannelsOK
<1>2. CASE SendClose(s)
  <2>1. HandlersOK'
    BY <1>2, GotoOK DEF SendClose, PC, Holding
  <2>2. QED
    BY <1>2, <2>1, SendOK DEF SendClose, RegStep
<1>3. CASE BrowserLeaves(s)
  <2> DEFINE v == [r[s] EXCEPT !.gone = TRUE]
  <2>1. r[s] \in RemoteHandler /\ r[s].link \in Link /\ r[s].node \in Node
    BY <1>3 DEF BrowserLeaves, Busy, HandlersOK, Placed, LinkOf
  <2>2. v \in RemoteHandler /\ v.link = r[s].link /\ v.node = r[s].node
    BY <2>1 DEF RemoteHandler
  <2>3. r' = [r EXCEPT ![s] = v]
    BY <1>3 DEF BrowserLeaves
  <2>4. HandlersOK'
    BY <2>1, <2>2, <2>3, OneHandler
  <2>5. QED
    BY <1>3, <2>4 DEF BrowserLeaves, channelVars, ChannelsOK, RegStep
<1>4. QED
  BY <1>1, <1>2, <1>3

(* The terminate route, the cleanup worker, a revocation, and the clock. *)
LEMMA RequestSteps ==
    ASSUME Good,
           \/ \E s \in Session : HttpTerminate(s) \/ Clock(s)
           \/ \E n \in Node : RevokeMarks(n) \/ RevokeStep(n)
           \/ WorkerDrain
    PROVE  Good' /\ RegStep
<1>1. Good'
  BY DEF Good, HttpTerminate, Clock, RevokeMarks, RevokeStep, RevokeCloses, RevokeDisconnects,
         WorkerDrain, channelVars, ChannelsOK, HandlersOK, Placed, LinkOf
<1>2. RegStep
  BY DEF HttpTerminate, Clock, RevokeMarks, RevokeStep, RevokeCloses, RevokeDisconnects,
         WorkerDrain, RegStep, Next
<1>3. QED
  BY <1>1, <1>2

LEMMA SendDueStep ==
    ASSUME Good, NEW s \in Session, SendDue(s)
    PROVE  Good' /\ RegStep
  BY SendOK DEF Good, SendDue, HandlersOK, Placed, LinkOf, RegStep

LEMMA OpenStep ==
    ASSUME Good, NEW s \in Session, NEW n \in Node, OpenRequest(s, n)
    PROVE  Good' /\ RegStep
<1>1. PICK to \in {"online", "done"} : r' = [r EXCEPT ![s].pc = to, ![s].node = n]
  BY DEF OpenRequest
<1> DEFINE v == [r[s] EXCEPT !.pc = to, !.node = n]
<1>2. v \in RemoteHandler /\ v.pc = to /\ v.node = n
  BY <1>1 DEF Good, HandlersOK, RemoteHandler, PC
<1>3. HandlersOK'
  BY <1>1, <1>2, OneHandler DEF Good
<1>4. QED
  BY <1>3 DEF Good, OpenRequest, channelVars, ChannelsOK, RegStep

(* A link carries its first command to the agent. *)
LEMMA CarryStep ==
    ASSUME Good, NEW l \in Link, Carry(l)
    PROVE  Good' /\ RegStep
<1>1. cmds[l] \in Seq(Command) /\ cmds[l] # <<>> /\ Len(cmds[l]) <= CommandCap
  BY DEF Good, ChannelsOK, Carry
<1>2. /\ Tail(cmds[l]) \in Seq(Command) /\ Len(Tail(cmds[l])) <= CommandCap
      /\ Head(cmds[l]).sid \in Session
  <2>1. /\ Head(cmds[l]) \in Command /\ Tail(cmds[l]) \in Seq(Command)
        /\ Len(cmds[l]) \in Nat \ {0} /\ Len(Tail(cmds[l])) = Len(cmds[l]) - 1
    BY <1>1, TailFacts
  <2>2. QED
    BY <1>1, <2>1, CapAssumption DEF Command
<1> DEFINE s == Head(cmds[l]).sid
<1>3. \/ UNCHANGED events
      \/ \E kind \in {"started", "exited", "error"} : events' = Offered(l, kind, s)
  BY DEF Carry
<1> HIDE DEF s
<1>4. events' \in [Link -> Seq(Event)] /\ \A m \in Link : Len(events'[m]) <= EventCap
  <2>1. s \in Session
    BY <1>2 DEF s
  <2>2. CASE UNCHANGED events
    BY <2>2 DEF Good, ChannelsOK
  <2>3. ASSUME NEW kind \in {"started", "exited", "error"}, events' = Offered(l, kind, s)
        PROVE  events' \in [Link -> Seq(Event)] /\ \A m \in Link : Len(events'[m]) <= EventCap
    BY <2>1, <2>3, OfferedOK DEF Good
  <2>4. QED
    BY <1>3, <2>2, <2>3
<1>5. cmds' \in [Link -> Seq(Command)] /\ \A m \in Link : Len(cmds'[m]) <= CommandCap
  BY <1>2 DEF Carry, Good, ChannelsOK
<1>6. HandlersOK' /\ RegStep
  BY DEF Carry, Good, HandlersOK, Placed, LinkOf, RegStep
<1>7. QED
  BY <1>4, <1>5, <1>6 DEF Good, ChannelsOK

LEMMA AgentStep ==
    ASSUME Good, NEW s \in Session, AgentEvent(s)
    PROVE  Good' /\ RegStep
<1>1. \/ UNCHANGED events
      \/ \E kind \in {"output", "exited"} : events' = Offered(LinkOf(s), kind, s)
  BY DEF AgentEvent
<1>2. events' \in [Link -> Seq(Event)] /\ \A m \in Link : Len(events'[m]) <= EventCap
  <2>1. CASE UNCHANGED events
    BY <2>1 DEF Good, ChannelsOK
  <2>2. ASSUME NEW kind \in {"output", "exited"}, events' = Offered(LinkOf(s), kind, s)
        PROVE  events' \in [Link -> Seq(Event)] /\ \A m \in Link : Len(events'[m]) <= EventCap
    BY <2>2, OfferedOK DEF Good
  <2>3. QED
    BY <1>1, <2>1, <2>2
<1>3. HandlersOK' /\ RegStep /\ cmds' = cmds
  BY DEF AgentEvent, Good, HandlersOK, Placed, LinkOf, RegStep
<1>4. QED
  BY <1>2, <1>3 DEF Good, ChannelsOK

LEMMA QuietSteps ==
    ASSUME Good, Network \/ (\E l \in Link : LinkStep(l)) \/ UNCHANGED remoteVars
    PROVE  Good' /\ RegStep
  BY DEF Good, Network, LinkStep, remoteVars, channelVars, ChannelsOK, HandlersOK, Placed,
         LinkOf, RegStep

LEMMA RemoteStep == RemoteInv /\ [RemoteNext]_remoteVars => Good' /\ RegStep
<1> SUFFICES ASSUME RemoteInv, [RemoteNext]_remoteVars PROVE Good' /\ RegStep
  OBVIOUS
<1>0. Good /\ LinksTypeOK
  BY DEF RemoteInv, RemoteTypeOK, Good, HandlersOK, ChannelsOK
<1>1. CASE UNCHANGED remoteVars \/ Network
  BY <1>0, <1>1, QuietSteps
<1>2. ASSUME NEW s \in Session,
             \/ HandlerStep(s) \/ BrowserLeaves(s)
             \/ InputFrame(s) \/ TerminateFrame(s) \/ DetachFrame(s)
      PROVE  Good' /\ RegStep
  BY <1>0, <1>2, OpeningSteps, LoopSteps, EndingSteps DEF HandlerStep
<1>3. ASSUME NEW s \in Session, Clock(s) \/ HttpTerminate(s) \/ SendDue(s) PROVE Good' /\ RegStep
  BY <1>0, <1>3, RequestSteps, SendDueStep
<1>4. ASSUME NEW s \in Session, AgentEvent(s) PROVE Good' /\ RegStep
  BY <1>0, <1>4, AgentStep
<1>5. ASSUME NEW s \in Session, NEW n \in Node, OpenRequest(s, n) PROVE Good' /\ RegStep
  BY <1>0, <1>5, OpenStep
<1>6. ASSUME NEW n \in Node, RevokeMarks(n) \/ RevokeStep(n) PROVE Good' /\ RegStep
  BY <1>0, <1>6, RequestSteps
<1>7. ASSUME NEW l \in Link, Carry(l) \/ LinkStep(l) PROVE Good' /\ RegStep
  BY <1>0, <1>7, CarryStep, QuietSteps
<1>8. CASE WorkerDrain
  BY <1>0, <1>8, RequestSteps
<1>9. QED
  BY <1>1, <1>2, <1>3, <1>4, <1>5, <1>6, <1>7, <1>8 DEF RemoteNext

-----------------------------------------------------------------------------
(* The links, the terminals of the agents and the requests. *)
OtherTypes ==
    /\ LinksTypeOK
    /\ term \in [Session -> {"none", "running", "ended"}]
    /\ due \in [Session -> {"none", "http", "worker", "revoke"}]
    /\ revoker \in [Node -> {"idle", "marked", "closing", "done"}]

LEMMA LinkTypes ==
    ASSUME LinksTypeOK,
           \/ \E l \in Link, n \in Node : Negotiate(l, n)
           \/ \E l \in Link : SocketDies(l) \/ Leave(l) \/ Break(l, ~HasSender(l) /\ cmds[l] = <<>>)
           \/ \E n \in Node : Heartbeat(n) \/ Lapse(n) \/ MarkRevoked(n) \/ Disconnect(n)
    PROVE  LinksTypeOK'
<1>1. CASE \E n \in Node : Heartbeat(n) \/ Lapse(n) \/ MarkRevoked(n) \/ Disconnect(n)
  BY <1>1 DEF LinksTypeOK, Heartbeat, Lapse, MarkRevoked, Disconnect
<1>2. ASSUME NEW l \in Link,
             \/ \E n \in Node : Negotiate(l, n)
             \/ SocketDies(l) \/ Leave(l) \/ Break(l, ~HasSender(l) /\ cmds[l] = <<>>)
      PROVE  LinksTypeOK'
  <2>1. link[l] \in Transport
    BY DEF LinksTypeOK
  <2>2. ASSUME NEW n \in Node, NEW at \in {"negotiated", "closed"},
               link' = [link EXCEPT ![l].pc = at, ![l].node = n]
        PROVE  link' \in [Link -> Transport]
    <3> DEFINE w == [link[l] EXCEPT !.pc = at, !.node = n]
    <3>1. w \in Transport
      BY <2>1 DEF Transport
    <3>2. link' = [link EXCEPT ![l] = w]
      BY <2>2
    <3> HIDE DEF w
    <3>3. QED
      BY <3>1, <3>2 DEF LinksTypeOK
  <2>3. /\ [link[l] EXCEPT !.pc = "leaving"] \in Transport
        /\ [link[l] EXCEPT !.pc = "closed"] \in Transport
        /\ [link[l] EXCEPT !.up = FALSE] \in Transport
    BY <2>1 DEF Transport
  <2>4. link' \in [Link -> Transport]
    <3>1. CASE \E n \in Node : Negotiate(l, n)
      BY <2>2, <3>1 DEF Negotiate
    <3>2. CASE SocketDies(l) \/ Leave(l) \/ Break(l, ~HasSender(l) /\ cmds[l] = <<>>)
      BY <2>3, <3>2 DEF LinksTypeOK, SocketDies, Leave, Break, LinkGoto
    <3>3. QED
      BY <1>2, <3>1, <3>2
  <2>5. /\ trust' \in [Node -> {"trusted", "revoked"}]
        /\ recent' \in [Node -> BOOLEAN]
        /\ conn' \in [Node -> Link \cup {Nobody}]
    BY <1>2 DEF LinksTypeOK, Negotiate, SocketDies, Leave, Break
  <2>6. QED
    BY <2>4, <2>5 DEF LinksTypeOK
<1>3. QED
  BY <1>1, <1>2

LEMMA RegisterType ==
    ASSUME LinksTypeOK, NEW l \in Link, Register(l)
    PROVE  LinksTypeOK'
<1>1. [link[l] EXCEPT !.pc = "open"] \in Transport
  BY DEF LinksTypeOK, Transport
<1>2. QED
  BY <1>1 DEF LinksTypeOK, Register, LinkGoto

LEMMA OtherTypesNext == RemoteInv /\ [RemoteNext]_remoteVars => OtherTypes'
<1> SUFFICES ASSUME RemoteInv, [RemoteNext]_remoteVars PROVE OtherTypes'
  OBVIOUS
<1>0. OtherTypes
  BY DEF RemoteInv, RemoteTypeOK, OtherTypes
<1>1. CASE UNCHANGED remoteVars
  BY <1>0, <1>1 DEF OtherTypes, LinksTypeOK, remoteVars, linkVars
<1>2. ASSUME NEW s \in Session,
             \/ HandlerStep(s) /\ ~StartFails(s)
             \/ BrowserLeaves(s) \/ Clock(s) \/ InputFrame(s) \/ TerminateFrame(s)
             \/ DetachFrame(s) \/ \E n \in Node : OpenRequest(s, n)
      PROVE  OtherTypes'
  BY <1>0, <1>2
     DEF HandlerStep, PickConnection, NoRoute, SendStart, InsertRemoteOk, InsertRemoteRefused,
         AcquireEvents, RecvEvent, RelayOk, BrowserLost, LinkLost, Ending, SendClose,
         BrowserLeaves, Clock, InputFrame, TerminateFrame, DetachFrame, OpenRequest,
         OtherTypes, LinksTypeOK, linkVars
<1>3. ASSUME NEW s \in Session, StartFails(s) PROVE OtherTypes'
  <2>1. r[s].node \in Node
    BY <1>3 DEF StartFails, Goto, At, RemoteInv, Placed
  <2>2. LinksTypeOK'
    BY <1>0, <1>3, <2>1, LinkTypes DEF StartFails, OtherTypes
  <2>3. QED
    BY <1>0, <1>3, <2>2 DEF StartFails, OtherTypes
<1>4. ASSUME NEW s \in Session, HttpTerminate(s) \/ SendDue(s) \/ AgentEvent(s)
      PROVE  OtherTypes'
  BY <1>0, <1>4 DEF HttpTerminate, SendDue, AgentEvent, Owe, OtherTypes, LinksTypeOK, linkVars
<1>5. ASSUME NEW n \in Node, RevokeMarks(n) \/ RevokeStep(n) PROVE OtherTypes'
  <2>1. CASE RevokeMarks(n) \/ RevokeDisconnects(n)
    <3>1. LinksTypeOK'
      BY <1>0, <2>1, LinkTypes DEF RevokeMarks, RevokeDisconnects, OtherTypes
    <3>2. QED
      BY <1>0, <2>1, <3>1 DEF RevokeMarks, RevokeDisconnects, Revoking, OtherTypes
  <2>2. CASE RevokeCloses(n)
    BY <1>0, <2>2 DEF RevokeCloses, Revoking, Owe, OtherTypes, LinksTypeOK, linkVars
  <2>3. QED
    BY <1>5, <2>1, <2>2 DEF RevokeStep
<1>6. ASSUME NEW l \in Link, Carry(l) PROVE OtherTypes'
  BY <1>0, <1>6 DEF Carry, OtherTypes, LinksTypeOK, linkVars
<1>7. ASSUME NEW l \in Link, LinkStep(l) PROVE OtherTypes'
  <2>1. LinksTypeOK'
    BY <1>0, <1>7, LinkTypes, RegisterType DEF LinkStep, OtherTypes
  <2>2. QED
    BY <1>0, <1>7, <2>1 DEF LinkStep, OtherTypes
<1>8. CASE WorkerDrain
  BY <1>0, <1>8 DEF WorkerDrain, Owe, OtherTypes, LinksTypeOK, linkVars
<1>9. CASE Network
  <2>1. LinksTypeOK'
    BY <1>0, <1>9, LinkTypes DEF Network, OtherTypes
  <2>2. QED
    BY <1>0, <1>9, <2>1 DEF Network, OtherTypes
<1>10. QED
  BY <1>1, <1>2, <1>3, <1>4, <1>5, <1>6, <1>7, <1>8, <1>9 DEF RemoteNext, HandlerStep

LEMMA RemoteInvInit == RemoteInit => RemoteInv
<1> SUFFICES ASSUME RemoteInit PROVE RemoteInv
  OBVIOUS
<1>1. TypeOK
  BY TypeInit DEF RemoteInit
<1>2. LinksTypeOK
  BY DEF RemoteInit, LinksInit, LinksTypeOK, Transport
<1>3. r \in [Session -> RemoteHandler] /\ Placed
  BY DEF RemoteInit, RemoteHandler, PC, Placed
<1>4. ChannelsOK
  <2>1. <<>> \in Seq(Command) /\ <<>> \in Seq(Event) /\ Len(<<>>) = 0
    OBVIOUS
  <2>2. \A l \in Link : cmds[l] = <<>> /\ events[l] = <<>>
    BY DEF RemoteInit
  <2>3. \A l \in Link : Len(cmds[l]) = 0 /\ Len(events[l]) = 0
    BY <2>1, <2>2
  <2>4. QED
    BY <2>1, <2>3, CapAssumption DEF RemoteInit, ChannelsOK
<1>5. QED
  BY <1>1, <1>2, <1>3, <1>4 DEF RemoteInit, RemoteInv, RemoteTypeOK, ChannelsOK

LEMMA RemoteInvNext == RemoteInv /\ [RemoteNext]_remoteVars => RemoteInv' /\ RegStep
<1> SUFFICES ASSUME RemoteInv, [RemoteNext]_remoteVars PROVE RemoteInv' /\ RegStep
  OBVIOUS
<1>1. Good' /\ RegStep /\ OtherTypes'
  BY RemoteStep, OtherTypesNext
<1>2. TypeOK'
  BY <1>1, TypeNext DEF RegStep, RemoteInv, RemoteTypeOK
<1>3. QED
  BY <1>1, <1>2 DEF RemoteInv, RemoteTypeOK, Good, HandlersOK, ChannelsOK, OtherTypes

(* Type correctness of the remote terminal: in no interleaving of handlers,     *)
(* requests, agents and links does a channel outgrow its capacity or a field    *)
(* leave its type.                                                              *)
THEOREM RemoteTypeCorrect == RemoteSpec => []RemoteTypeOK
<1>1. RemoteInv => RemoteTypeOK
  BY DEF RemoteInv
<1>2. QED
  BY <1>1, RemoteInvInit, RemoteInvNext, PTL DEF RemoteSpec

(* Every registry call the remote handlers, the routes, the worker and the      *)
(* revocation make is one SessionRegistry allows at that moment.                *)
THEOREM RemoteUsesRegistry == RemoteSpec => Spec
<1>1. RemoteInit => RegInit
  BY DEF RemoteInit
<1>2. QED
  BY <1>1, RemoteInvInit, RemoteInvNext, PTL DEF RemoteSpec, Spec, RegStep

(* The session limits hold in the running remote terminal too.                  *)
THEOREM RemoteLimits == RemoteSpec => []LimitsHold
  BY RemoteUsesRegistry, RegistryLimits, PTL

(* And neither an agent's late event nor a request brings back a session that   *)
(* ended: the remote terminal implements TerminalAccess.                        *)
THEOREM RemoteImplementsAccess == RemoteSpec => ImplementsAccess
  BY RemoteUsesRegistry, RegistryImplementsAccess, PTL

(* Its reconnect tokens are spent once, whatever a node does.                   *)
THEOREM RemoteTokens == RemoteSpec => []TokensSound
  BY RemoteUsesRegistry, RegistryTokens, PTL

-----------------------------------------------------------------------------
(* What one step may change of what Ordered speaks about. *)
HandlersKept ==
    \A s \in Session :
        /\ Early(s)' => Early(s)
        /\ r'[s].pc \in {"idle", "online"} => r[s].pc \in {"idle", "online"}
        /\ \/ LinkOf(s)' = LinkOf(s)
           \/ /\ r[s].pc = "online" /\ r'[s].pc = "routed"
              /\ r[s].node \in Node /\ LinkOf(s)' = conn[r[s].node] /\ LinkOf(s)' # Nobody
              /\ UNCHANGED <<linkVars, channelVars>>

RegistryKept ==
    \A s \in Session :
        /\ Present(s)' => Present(s) \/ ~Early(s)'
        /\ due'[s] # "none" => due[s] # "none" \/ Present(s)

LinksKept ==
    /\ \A l \in Link : link'[l].pc \in {"new", "negotiated"} => link[l].pc \in {"new", "negotiated"}
    /\ \A n \in Node : \/ conn'[n] \in {conn[n], Nobody}
                       \/ link'[conn'[n]].pc \notin {"new", "negotiated"}

\* A session's start is sent first and its close later, over its own link.
Sends(s, kind) ==
    /\ LinkOf(s) \in Link /\ LinkOf(s)' = LinkOf(s)
    /\ cmds' = [cmds EXCEPT ![LinkOf(s)] = Append(@, [kind |-> kind, sid |-> s])]
    /\ ~Early(s)'
    /\ IF kind = "start" THEN Early(s) ELSE ~Early(s)

Delivers(l) == cmds[l] # <<>> /\ cmds' = [cmds EXCEPT ![l] = Tail(@)]

QueueStep ==
    \/ UNCHANGED cmds
    \/ \E s \in Session, kind \in {"start", "input", "close"} : Sends(s, kind)
    \/ \E l \in Link : Delivers(l)

(* How a queue changes when a command is sent or carried. *)
LEMMA SentFacts ==
    ASSUME ChannelsOK, NEW s \in Session, NEW kind \in {"start", "input", "close"},
           Sends(s, kind)
    PROVE  \A l \in Link, o \in Session, k \in {"start", "close"} :
              Queued(l, o, k)' <=> Queued(l, o, k) \/ (l = LinkOf(s) /\ o = s /\ k = kind)
<1> DEFINE c == [kind |-> kind, sid |-> s]
           q == cmds[LinkOf(s)]
<1>1. q \in Seq(Command) /\ c \in Command /\ LinkOf(s) \in Link
  BY DEF ChannelsOK, Sends, Command
<1>2. cmds' = [cmds EXCEPT ![LinkOf(s)] = Append(q, c)]
  BY DEF Sends
<1>3. \A o \in Session, k \in {"start", "close"} :
          c = [kind |-> k, sid |-> o] <=> o = s /\ k = kind
  OBVIOUS
<1> HIDE DEF c, q
<1>4. /\ DOMAIN Append(q, c) = 1..(Len(q) + 1) /\ DOMAIN q = 1..Len(q) /\ Len(q) \in Nat
      /\ Append(q, c)[Len(q) + 1] = c /\ \A i \in 1..Len(q) : Append(q, c)[i] = q[i]
  BY <1>1
<1>5. \A e : (\E i \in DOMAIN Append(q, c) : Append(q, c)[i] = e)
                <=> (\E i \in DOMAIN q : q[i] = e) \/ c = e
  <2> TAKE e
  <2>1. ASSUME NEW i \in DOMAIN Append(q, c), Append(q, c)[i] = e
        PROVE  (\E j \in DOMAIN q : q[j] = e) \/ c = e
    BY <1>4, <2>1
  <2>2. ASSUME NEW i \in DOMAIN q, q[i] = e
        PROVE  \E j \in DOMAIN Append(q, c) : Append(q, c)[j] = e
    BY <1>4, <2>2
  <2>3. c = e => \E j \in DOMAIN Append(q, c) : Append(q, c)[j] = e
    BY <1>4
  <2>4. QED
    BY <2>1, <2>2, <2>3
<1>6. ASSUME NEW l \in Link, NEW o \in Session, NEW k \in {"start", "close"}
      PROVE  Queued(l, o, k)' <=> Queued(l, o, k) \/ (l = LinkOf(s) /\ o = s /\ k = kind)
  <2>1. CASE l = LinkOf(s)
    <3>1. cmds'[l] = Append(q, c) /\ cmds[l] = q
      BY <1>1, <1>2, <2>1 DEF ChannelsOK, q
    <3>2. QED
      BY <1>3, <1>5, <2>1, <3>1 DEF Queued
  <2>2. CASE l # LinkOf(s)
    <3>1. cmds'[l] = cmds[l]
      BY <1>2, <2>2 DEF ChannelsOK
    <3>2. QED
      BY <2>2, <3>1 DEF Queued
  <2>3. QED
    BY <2>1, <2>2
<1>7. QED
  BY <1>6

(* What was sent is under way on the link the session had. *)
LEMMA SentQueued ==
    ASSUME ChannelsOK, NEW s \in Session, NEW kind \in {"start", "close"}, Sends(s, kind)
    PROVE  InTransit(s, kind)'
<1>1. PICK l \in Link : l = LinkOf(s) /\ l = LinkOf(s)'
  BY DEF Sends
<1>2. \A m \in Link, o \in Session, k \in {"start", "close"} :
        Queued(m, o, k)' <=> Queued(m, o, k) \/ (m = LinkOf(s) /\ o = s /\ k = kind)
  BY SentFacts
<1>3. Queued(l, s, kind)'
  BY <1>1, <1>2
<1>4. QED
  BY <1>1, <1>3 DEF Queued, InTransit

LEMMA DeliveredFacts ==
    ASSUME ChannelsOK, NEW l \in Link, Delivers(l)
    PROVE  /\ \A m \in Link, o \in Session, k \in {"start", "close"} :
                 Queued(m, o, k)' => Queued(m, o, k)
           /\ \A m \in Link, o \in Session, k \in {"start", "close"} :
                 Queued(m, o, k) => \/ Queued(m, o, k)'
                                    \/ m = l /\ Head(cmds[l]) = [kind |-> k, sid |-> o]
<1> DEFINE q == cmds[l]
<1>1. q \in Seq(Command) /\ q # <<>>
  BY DEF ChannelsOK, Delivers
<1>2. cmds'[l] = Tail(q) /\ \A m \in Link \ {l} : cmds'[m] = cmds[m]
  BY DEF Delivers, ChannelsOK
<1> HIDE DEF q
<1>3. /\ DOMAIN Tail(q) = 1..(Len(q) - 1) /\ DOMAIN q = 1..Len(q) /\ Len(q) \in Nat
      /\ Head(q) = q[1] /\ \A i \in 1..(Len(q) - 1) : Tail(q)[i] = q[i + 1]
  BY <1>1
<1>4. \A e : /\ (\E i \in DOMAIN Tail(q) : Tail(q)[i] = e) => \E i \in DOMAIN q : q[i] = e
             /\ (\E i \in DOMAIN q : q[i] = e) =>
                   (\E i \in DOMAIN Tail(q) : Tail(q)[i] = e) \/ Head(q) = e
  <2> TAKE e
  <2>1. ASSUME NEW i \in DOMAIN Tail(q), Tail(q)[i] = e PROVE \E j \in DOMAIN q : q[j] = e
    <3>1. i + 1 \in DOMAIN q /\ q[i + 1] = e
      BY <1>3, <2>1
    <3>2. QED
      BY <3>1
  <2>2. ASSUME NEW i \in DOMAIN q, q[i] = e
        PROVE  (\E j \in DOMAIN Tail(q) : Tail(q)[j] = e) \/ Head(q) = e
    <3>1. CASE i = 1
      BY <1>3, <2>2, <3>1
    <3>2. CASE i # 1
      <4>1. i - 1 \in DOMAIN Tail(q) /\ Tail(q)[i - 1] = e
        BY <1>3, <2>2, <3>2
      <4>2. QED
        BY <4>1
    <3>3. QED
      BY <3>1, <3>2
  <2>3. QED
    BY <2>1, <2>2
<1>5. ASSUME NEW m \in Link, NEW o \in Session, NEW k \in {"start", "close"}
      PROVE  /\ Queued(m, o, k)' => Queued(m, o, k)
             /\ Queued(m, o, k) => \/ Queued(m, o, k)'
                                   \/ m = l /\ Head(cmds[l]) = [kind |-> k, sid |-> o]
  <2>1. CASE m = l
    <3>1. cmds'[m] = Tail(q) /\ cmds[m] = q /\ Head(cmds[l]) = Head(q)
      BY <1>2, <2>1 DEF q
    <3>2. QED
      BY <1>4, <2>1, <3>1 DEF Queued
  <2>2. CASE m # l
    BY <1>2, <2>2 DEF Queued
  <2>3. QED
    BY <2>1, <2>2
<1>6. QED
  BY <1>5

LEMMA SentInOrder ==
    ASSUME ChannelsOK, Ordered, NEW s \in Session, NEW kind \in {"start", "input", "close"},
           Sends(s, kind)
    PROVE  StartFirst'
<1> DEFINE c == [kind |-> kind, sid |-> s]
           q == cmds[LinkOf(s)]
<1>1. q \in Seq(Command) /\ c \in Command /\ c.sid = s /\ c.kind = kind /\ LinkOf(s) \in Link
  BY DEF ChannelsOK, Sends, Command
<1>2. cmds' = [cmds EXCEPT ![LinkOf(s)] = Append(q, c)]
  BY DEF Sends
<1> HIDE DEF c, q
<1>3. /\ DOMAIN Append(q, c) = 1..(Len(q) + 1) /\ DOMAIN q = 1..Len(q) /\ Len(q) \in Nat
      /\ Append(q, c)[Len(q) + 1] = c /\ \A i \in 1..Len(q) : Append(q, c)[i] = q[i]
      /\ \A i \in 1..Len(q) : q[i] \in Command
  BY <1>1
<1>4. ASSUME NEW i \in DOMAIN q, q[i].kind = "close", kind = "start"
      PROVE  q[i].sid # s
  <2>1. ~Queued(LinkOf(s), s, "close")
    BY <1>1, <1>4 DEF Sends, Ordered, NothingEarly
  <2>2. SUFFICES ASSUME q[i].sid = s PROVE FALSE
    OBVIOUS
  <2>3. q[i] = [kind |-> "close", sid |-> s]
    BY <1>3, <1>4, <2>2 DEF Command
  <2>4. QED
    BY <2>1, <2>3 DEF Queued, q
<1>5. ASSUME NEW i \in DOMAIN Append(q, c), NEW j \in DOMAIN Append(q, c), i < j,
             Append(q, c)[i].kind = "close", Append(q, c)[j].kind = "start"
      PROVE  Append(q, c)[i].sid # Append(q, c)[j].sid
  <2>1. i \in DOMAIN q /\ Append(q, c)[i] = q[i]
    BY <1>3, <1>5
  <2>2. CASE j = Len(q) + 1
    BY <1>1, <1>3, <1>4, <1>5, <2>1, <2>2
  <2>3. CASE j # Len(q) + 1
    <3>1. j \in DOMAIN q /\ Append(q, c)[j] = q[j]
      BY <1>3, <2>3
    <3>2. QED
      BY <1>1, <1>5, <2>1, <3>1 DEF Ordered, StartFirst, q
  <2>4. QED
    BY <2>2, <2>3
<1>6. ASSUME NEW l \in Link, NEW i \in DOMAIN cmds'[l], NEW j \in DOMAIN cmds'[l], i < j,
             cmds'[l][i].kind = "close", cmds'[l][j].kind = "start"
      PROVE  cmds'[l][i].sid # cmds'[l][j].sid
  <2>1. CASE l = LinkOf(s)
    <3>1. cmds'[l] = Append(q, c)
      BY <1>1, <1>2, <2>1 DEF ChannelsOK
    <3>2. QED
      BY <1>5, <1>6, <3>1
  <2>2. CASE l # LinkOf(s)
    <3>1. cmds'[l] = cmds[l]
      BY <1>2, <2>2 DEF ChannelsOK
    <3>2. QED
      BY <1>6, <3>1 DEF Ordered, StartFirst
  <2>3. QED
    BY <2>1, <2>2
<1>7. QED
  BY <1>6 DEF StartFirst

LEMMA DeliveredInOrder ==
    ASSUME ChannelsOK, Ordered, NEW l \in Link, Delivers(l)
    PROVE  /\ StartFirst'
           /\ \A o \in Session :
                 Head(cmds[l]) = [kind |-> "close", sid |-> o] => ~Queued(l, o, "start")'
<1> DEFINE q == cmds[l]
<1>1. q \in Seq(Command) /\ q # <<>>
  BY DEF ChannelsOK, Delivers
<1>2. cmds'[l] = Tail(q) /\ \A m \in Link \ {l} : cmds'[m] = cmds[m]
  BY DEF Delivers, ChannelsOK
<1>3. \A i, j \in DOMAIN q : i < j /\ q[i].kind = "close" /\ q[j].kind = "start"
                                => q[i].sid # q[j].sid
  BY DEF Ordered, StartFirst
<1> HIDE DEF q
<1>4. /\ DOMAIN Tail(q) = 1..(Len(q) - 1) /\ DOMAIN q = 1..Len(q) /\ Len(q) \in Nat \ {0}
      /\ Head(q) = q[1] /\ \A i \in 1..(Len(q) - 1) : Tail(q)[i] = q[i + 1]
  BY <1>1
<1>5. ASSUME NEW i \in DOMAIN Tail(q), NEW j \in DOMAIN Tail(q), i < j,
             Tail(q)[i].kind = "close", Tail(q)[j].kind = "start"
      PROVE  Tail(q)[i].sid # Tail(q)[j].sid
  <2>1. /\ i + 1 \in DOMAIN q /\ j + 1 \in DOMAIN q /\ i + 1 < j + 1
        /\ Tail(q)[i] = q[i + 1] /\ Tail(q)[j] = q[j + 1]
    BY <1>4, <1>5
  <2>2. QED
    BY <1>3, <1>5, <2>1
<1>6. ASSUME NEW m \in Link, NEW i \in DOMAIN cmds'[m], NEW j \in DOMAIN cmds'[m], i < j,
             cmds'[m][i].kind = "close", cmds'[m][j].kind = "start"
      PROVE  cmds'[m][i].sid # cmds'[m][j].sid
  <2>1. CASE m = l
    <3>1. cmds'[m] = Tail(q)
      BY <1>2, <2>1
    <3>2. /\ i \in DOMAIN Tail(q) /\ j \in DOMAIN Tail(q)
          /\ Tail(q)[i].kind = "close" /\ Tail(q)[j].kind = "start"
      BY <1>6, <3>1
    <3>3. Tail(q)[i].sid # Tail(q)[j].sid
      BY <1>5, <1>6, <3>2
    <3>4. QED
      BY <3>1, <3>3
  <2>2. CASE m # l
    <3>1. cmds'[m] = cmds[m]
      BY <1>2, <2>2
    <3>2. QED
      BY <1>6, <3>1 DEF Ordered, StartFirst
  <2>3. QED
    BY <2>1, <2>2
<1>7. ASSUME NEW o \in Session, Head(q) = [kind |-> "close", sid |-> o],
             NEW i \in DOMAIN Tail(q), Tail(q)[i] = [kind |-> "start", sid |-> o]
      PROVE  FALSE
  <2>1. /\ i + 1 \in DOMAIN q /\ 1 \in DOMAIN q /\ 1 < i + 1
        /\ Tail(q)[i] = q[i + 1] /\ Head(q) = q[1]
    BY <1>4
  <2>2. q[i + 1].kind = "start" /\ q[i + 1].sid = o /\ q[1].kind = "close" /\ q[1].sid = o
    BY <1>7, <2>1
  <2>3. QED
    BY <1>3, <2>1, <2>2
<1>8. ASSUME NEW o \in Session, Head(cmds[l]) = [kind |-> "close", sid |-> o],
             Queued(l, o, "start")'
      PROVE  FALSE
  <2>1. Head(q) = [kind |-> "close", sid |-> o]
    BY <1>8 DEF q
  <2>2. QED
    BY <1>2, <1>7, <1>8, <2>1 DEF Queued
<1>9. QED
  BY <1>6, <1>8 DEF StartFirst

(* A step within these bounds keeps links and commands in order. *)
LEMMA OrderedKept ==
    ASSUME RemoteInv, Ordered, HandlersKept, RegistryKept, LinksKept, QueueStep
    PROVE  Ordered'
<1>0. ChannelsOK /\ LinksTypeOK /\ r \in [Session -> RemoteHandler]
  BY DEF RemoteInv, RemoteTypeOK, ChannelsOK
<1>1. \A l \in Link, s \in Session, k \in {"start", "close"} :
        Queued(l, s, k)' => Queued(l, s, k) \/ (l = LinkOf(s) /\ ~Early(s)' /\ LinkOf(s)' = LinkOf(s))
  <2>1. CASE UNCHANGED cmds
    BY <2>1 DEF Queued
  <2>2. CASE \E s \in Session, kind \in {"start", "input", "close"} : Sends(s, kind)
    <3>1. PICK s \in Session, kind \in {"start", "input", "close"} : Sends(s, kind)
      BY <2>2
    <3>2. ~Early(s)' /\ LinkOf(s)' = LinkOf(s)
      BY <3>1 DEF Sends
    <3>3. \A l \in Link, o \in Session, k \in {"start", "close"} :
            Queued(l, o, k)' => Queued(l, o, k) \/ (l = LinkOf(s) /\ o = s)
      BY <1>0, <3>1, SentFacts
    <3>4. QED
      BY <3>2, <3>3
  <2>3. CASE \E l \in Link : Delivers(l)
    <3>1. PICK l \in Link : Delivers(l)
      BY <2>3
    <3>2. \A m \in Link, o \in Session, k \in {"start", "close"} :
            Queued(m, o, k)' => Queued(m, o, k)
      BY <1>0, <3>1, DeliveredFacts
    <3>3. QED
      BY <3>2
  <2>4. QED
    BY <2>1, <2>2, <2>3 DEF QueueStep
<1>2. LinksInOrder'
  <2>1. \A n \in Node : conn'[n] # Nobody => link'[conn'[n]].pc \notin {"new", "negotiated"}
    BY <1>0 DEF LinksKept, LinksTypeOK, Ordered, LinksInOrder
  <2>2. ASSUME NEW s \in Session, LinkOf(s)' # Nobody
        PROVE  link'[LinkOf(s)'].pc \notin {"new", "negotiated"}
    <3>1. CASE LinkOf(s)' = LinkOf(s)
      <4>1. LinkOf(s) \in Link
        BY <1>0, <2>2, <3>1 DEF LinkOf, RemoteHandler
      <4>2. link[LinkOf(s)].pc \notin {"new", "negotiated"}
        BY <2>2, <3>1 DEF Ordered, LinksInOrder
      <4>3. QED
        BY <3>1, <4>1, <4>2 DEF LinksKept
    <3>2. CASE LinkOf(s)' # LinkOf(s)
      <4>1. /\ r[s].node \in Node /\ LinkOf(s)' = conn[r[s].node] /\ conn[r[s].node] # Nobody
            /\ link' = link
        BY <3>2 DEF HandlersKept, linkVars
      <4>2. QED
        BY <4>1 DEF Ordered, LinksInOrder
    <3>3. QED
      BY <3>1, <3>2
  <2>3. ASSUME NEW s \in Session, r'[s].pc \in {"idle", "online"} PROVE LinkOf(s)' = Nobody
    BY <2>3 DEF HandlersKept, Ordered, LinksInOrder
  <2>4. QED
    BY <2>1, <2>2, <2>3 DEF LinksInOrder
<1>3. Addressed'
  <2>1. ASSUME NEW l \in Link, NEW s \in Session, NEW k \in {"start", "close"}, Queued(l, s, k)'
        PROVE  LinkOf(s)' = l
    <3>1. CASE Queued(l, s, k)
      <4>1. LinkOf(s) = l /\ LinkOf(s) # Nobody
        BY <3>1, NobodyAssumption DEF Ordered, Addressed
      <4>2. r[s].pc # "online"
        BY <4>1 DEF Ordered, LinksInOrder
      <4>3. QED
        BY <4>1, <4>2 DEF HandlersKept
    <3>2. CASE ~Queued(l, s, k)
      BY <1>1, <2>1, <3>2
    <3>3. QED
      BY <3>1, <3>2
  <2>2. QED
    BY <2>1 DEF Addressed
<1>4. NothingEarly'
  <2>1. ASSUME NEW s \in Session, Early(s)'
        PROVE  /\ ~Present(s)' /\ due'[s] = "none"
               /\ \A l \in Link : ~Queued(l, s, "close")'
    <3>1. Early(s)
      BY <2>1 DEF HandlersKept
    <3>2. ~Present(s) /\ due[s] = "none" /\ \A l \in Link : ~Queued(l, s, "close")
      BY <3>1 DEF Ordered, NothingEarly
    <3>3. ~Present(s)' /\ due'[s] = "none"
      BY <2>1, <3>2 DEF RegistryKept
    <3>4. \A l \in Link : ~Queued(l, s, "close")'
      BY <1>1, <2>1, <3>2
    <3>5. QED
      BY <3>3, <3>4
  <2>2. QED
    BY <2>1 DEF NothingEarly
<1>5. StartFirst'
  <2>1. CASE UNCHANGED cmds
    BY <2>1 DEF Ordered, StartFirst
  <2>2. QED
    BY <1>0, <2>1, SentInOrder, DeliveredInOrder DEF QueueStep
<1>6. QED
  BY <1>2, <1>3, <1>4, <1>5 DEF Ordered

-----------------------------------------------------------------------------
(* The registry calls, as far as an entry comes or goes. *)
LEMMA FlagPresence ==
    ASSUME TypeOK, NEW s \in Session,
           Idle(s) \/ Age(s) \/ \E st \in Requested : SetState(s, st)
    PROVE  \A o \in Session : Present(o)' <=> Present(o)
<1>1. CASE Present(s)
  <2>1. sessions[s] \in Tracked
    BY <1>1 DEF TypeOK, Present
  <2>2. /\ [sessions[s] EXCEPT !.idle = TRUE] \in Tracked
        /\ [sessions[s] EXCEPT !.old = TRUE] \in Tracked
        /\ \A st \in Requested : [sessions[s] EXCEPT !.state = st] \in Tracked
    BY <2>1 DEF Tracked, Requested, TerminalSessionState
  <2>3. \/ sessions' = sessions
        \/ \E e \in Tracked : sessions' = [sessions EXCEPT ![s] = e]
    BY <2>2 DEF Idle, Age, SetState, AfterSetState
  <2>4. QED
    BY <1>1, <2>3, AbsentAssumption DEF Present, TypeOK
<1>2. CASE ~Present(s)
  BY <1>2 DEF Idle, Age, SetState, AfterSetState, Present
<1>3. QED
  BY <1>1, <1>2

LEMMA RemovePresence ==
    ASSUME NEW S, RemoveTracked(S)
    PROVE  \A o \in Session : Present(o)' <=> Present(o) /\ o \notin S
  BY DEF RemoveTracked, Present

LEMMA InsertPresence ==
    ASSUME TypeOK, NEW s \in Session, NEW n, InsertRemote(s, Actor, n)
    PROVE  \A o \in Session \ {s} : Present(o)' <=> Present(o)
  BY DEF InsertRemote, InsertBackend, TypeOK, Present

\* Nobody but s is concerned by what its handler does.
OwnStep(s) ==
    /\ \A o \in Session \ {s} : r'[o] = r[o] /\ (Present(o)' <=> Present(o))
    /\ term' = term /\ due' = due /\ link' = link
    /\ UNCHANGED cmds \/ \E kind \in {"start", "input", "close"} : Sends(s, kind)
    /\ Present(s)' => Present(s) \/ ~Early(s)'

LEMMA SendFacts ==
    ASSUME ChannelsOK, NEW s \in Session, NEW kind \in {"start", "input", "close"},
           SendOrLose(LinkOf(s), kind, s), LinkOf(s)' = LinkOf(s), ~Early(s)',
           IF kind = "start" THEN Early(s) ELSE ~Early(s)
    PROVE  UNCHANGED cmds \/ Sends(s, kind)
<1>1. CASE LinkOf(s) \in Link
  BY <1>1 DEF SendOrLose, Send, Sends
<1>2. CASE LinkOf(s) \notin Link
  BY <1>2 DEF SendOrLose, Send, ChannelsOK
<1>3. QED
  BY <1>1, <1>2

(* A handler that moves on keeps its link and stays past its start.            *)
LEMMA GotoFacts ==
    ASSUME r \in [Session -> RemoteHandler], NEW s \in Session, NEW from, NEW to,
           Goto(s, from, to)
    PROVE  /\ \A o \in Session \ {s} : r'[o] = r[o]
           /\ r[s].pc = from /\ r'[s].pc = to
           /\ LinkOf(s)' = LinkOf(s) /\ r'[s].node = r[s].node
<1>1. r' = [r EXCEPT ![s] = [r[s] EXCEPT !.pc = to]] /\ r[s].pc = from
  BY DEF Goto, At
<1>2. [r[s] EXCEPT !.pc = to].pc = to /\ [r[s] EXCEPT !.pc = to].link = r[s].link
      /\ [r[s] EXCEPT !.pc = to].node = r[s].node
  BY DEF RemoteHandler
<1>3. QED
  BY <1>1, <1>2 DEF LinkOf

LEMMA EventFacts ==
    ASSUME r \in [Session -> RemoteHandler], NEW s \in Session,
           RecvEvent(s) \/ RelayOk(s) \/ BrowserLost(s)
    PROVE  /\ \A o \in Session \ {s} : r'[o] = r[o]
           /\ r[s].pc \in {"looping", "relaying"} /\ r'[s].pc \in {"looping", "relaying", "ending"}
           /\ LinkOf(s)' = LinkOf(s)
<1>1. r[s].pc \in {"looping", "relaying"}
  BY DEF RecvEvent, RelayOk, BrowserLost, At
<1>2. PICK to \in {"looping", "relaying", "ending"} :
        \E x : r' = [r EXCEPT ![s].pc = to, ![s].cur = x]
  BY DEF RecvEvent, RelayOk, BrowserLost
<1>3. PICK x : r' = [r EXCEPT ![s].pc = to, ![s].cur = x]
  BY <1>2
<1> DEFINE v == [r[s] EXCEPT !.pc = to, !.cur = x]
<1>4. v.pc = to /\ v.link = r[s].link
  BY DEF RemoteHandler
<1>5. r' = [r EXCEPT ![s] = v]
  BY <1>3
<1>6. QED
  BY <1>1, <1>4, <1>5 DEF LinkOf

Answered(s) == Present(s) \/ Busy(s) \/ due[s] # "none" \/ InTransit(s, "close")
Accounted(s) == Carries(LinkOf(s)) => Answered(s)

HandlerFacts(s) == HandlersKept /\ OwnStep(s) /\ Accounted(s)'

LEMMA OpeningFacts ==
    ASSUME RemoteInv, Ordered, NEW s \in Session,
           \/ NoRoute(s) \/ SendStart(s) \/ StartFails(s)
           \/ InsertRemoteOk(s) \/ InsertRemoteRefused(s) \/ AcquireEvents(s)
    PROVE  HandlerFacts(s)
<1>0. r \in [Session -> RemoteHandler] /\ ChannelsOK /\ TypeOK
  BY DEF RemoteInv, RemoteTypeOK, ChannelsOK
<1>1. PICK from \in {"online", "routed", "sent", "waiting"},
            to \in {"done", "sent", "waiting", "refusing", "looping"} : Goto(s, from, to)
  BY DEF NoRoute, SendStart, StartFails, InsertRemoteOk, InsertRemoteRefused, AcquireEvents
<1>2. /\ \A o \in Session \ {s} : r'[o] = r[o]
      /\ r[s].pc = from /\ r'[s].pc = to /\ LinkOf(s)' = LinkOf(s)
  BY <1>0, <1>1, GotoFacts
<1>3. ~Early(s)'
  BY <1>1, <1>2 DEF Early
<1>4. HandlersKept
  BY <1>1, <1>2 DEF HandlersKept, Early, LinkOf
<1>5. OwnStep(s)
  <2>1. \A o \in Session \ {s} : Present(o)' <=> Present(o)
    BY <1>0, InsertPresence DEF NoRoute, SendStart, StartFails, InsertRemoteOk,
       InsertRemoteRefused, AcquireEvents, regVars, Present
  <2>2. term' = term /\ due' = due /\ link' = link
    BY DEF NoRoute, SendStart, StartFails, InsertRemoteOk,
       InsertRemoteRefused, AcquireEvents, linkVars, Disconnect
  <2>3. UNCHANGED cmds \/ \E kind \in {"start", "input", "close"} : Sends(s, kind)
    <3>1. CASE SendStart(s)
      <4>1. Early(s) /\ SendOrLose(LinkOf(s), "start", s)
        BY <3>1 DEF Early, SendStart, SendOrLose, Goto, At
      <4>2. QED
        BY <1>0, <1>2, <1>3, <4>1, SendFacts
    <3>2. CASE ~SendStart(s)
      BY <3>2 DEF NoRoute, StartFails, InsertRemoteOk, InsertRemoteRefused, AcquireEvents,
                  channelVars
    <3>3. QED
      BY <3>1, <3>2
  <2>4. QED
    BY <1>2, <1>3, <2>1, <2>2, <2>3 DEF OwnStep
<1>6. Accounted(s)'
  <2>1. CASE NoRoute(s)
    <3>1. LinkOf(s) = Nobody
      BY <2>1 DEF NoRoute, Goto, At, Ordered, LinksInOrder
    <3>2. QED
      BY <1>2, <3>1 DEF Accounted, Carries
  <2>2. CASE StartFails(s)
    <3>1. ~Receives(LinkOf(s)) /\ link' = link
      BY <2>2 DEF StartFails, Disconnect
    <3>2. QED
      BY <1>2, <3>1 DEF Receives, Accounted, Carries, LinkAt
  <2>3. CASE SendStart(s) \/ InsertRemoteOk(s) \/ InsertRemoteRefused(s) \/ AcquireEvents(s)
    <3>1. PICK at \in {"sent", "waiting", "refusing", "looping"},
            was \in {"routed", "sent", "waiting"} : Goto(s, was, at)
      BY <2>3 DEF SendStart, InsertRemoteOk, InsertRemoteRefused, AcquireEvents
    <3>2. r'[s].pc = at
      BY <1>0, <3>1, GotoFacts
    <3>3. QED
      BY <3>2 DEF Accounted, Answered, Busy
  <2>4. QED
    BY <2>1, <2>2, <2>3
<1>7. QED
  BY <1>4, <1>5, <1>6 DEF HandlerFacts

LEMMA LoopFacts ==
    ASSUME RemoteInv, Ordered, NEW s \in Session,
           \/ RecvEvent(s) \/ RelayOk(s) \/ BrowserLost(s) \/ LinkLost(s)
           \/ InputFrame(s) \/ TerminateFrame(s) \/ DetachFrame(s)
    PROVE  HandlerFacts(s)
<1>0. r \in [Session -> RemoteHandler] /\ ChannelsOK /\ TypeOK
  BY DEF RemoteInv, RemoteTypeOK, ChannelsOK
<1>1. /\ \A o \in Session \ {s} : r'[o] = r[o]
      /\ r[s].pc \in {"looping", "relaying"}
      /\ r'[s].pc \in {"looping", "relaying", "killing", "ending"}
      /\ LinkOf(s)' = LinkOf(s)
  <2>1. CASE RecvEvent(s) \/ RelayOk(s) \/ BrowserLost(s)
    BY <1>0, <2>1, EventFacts
  <2>2. CASE LinkLost(s) \/ TerminateFrame(s) \/ DetachFrame(s)
    BY <1>0, <2>2, GotoFacts DEF LinkLost, TerminateFrame, DetachFrame
  <2>3. CASE InputFrame(s)
    <3>1. CASE At(s, "looping") /\ UNCHANGED r
      BY <3>1 DEF At, LinkOf
    <3>2. CASE Goto(s, "looping", "ending")
      BY <1>0, <3>2, GotoFacts
    <3>3. QED
      BY <2>3, <3>1, <3>2 DEF InputFrame
  <2>4. QED
    BY <2>1, <2>2, <2>3
<1>2. HandlersKept
  BY <1>1 DEF HandlersKept, Early, LinkOf
<1>3. OwnStep(s)
  <2>1. \A o \in Session \ {s} : Present(o)' <=> Present(o)
    <3>1. CASE UNCHANGED regVars
      BY <3>1 DEF regVars, Present
    <3>2. CASE \E st \in Requested : SetState(s, st)
      BY <1>0, <3>2, FlagPresence
    <3>3. CASE Remove(s)
      BY <3>3, RemovePresence DEF Remove
    <3>4. QED
      BY <3>1, <3>2, <3>3 DEF RecvEvent, RelayOk, BrowserLost, LinkLost, InputFrame,
         TerminateFrame, DetachFrame, RemoveIfPresent, Requested
  <2>2. term' = term /\ due' = due /\ link' = link
    BY DEF RecvEvent, RelayOk, BrowserLost, LinkLost, InputFrame, TerminateFrame, DetachFrame,
           linkVars
  <2>3. UNCHANGED cmds \/ \E kind \in {"start", "input", "close"} : Sends(s, kind)
    <3>1. CASE InputFrame(s)
      <4>1. /\ SendOrLose(LinkOf(s), "input", s)
            /\ ~Early(s) /\ ~Early(s)'
        BY <1>1, <3>1 DEF InputFrame, SendOrLose, Early
      <4>2. QED
        BY <1>0, <1>1, <4>1, SendFacts
    <3>2. CASE ~InputFrame(s)
      BY <3>2 DEF RecvEvent, RelayOk, BrowserLost, LinkLost, TerminateFrame, DetachFrame,
                  channelVars
    <3>3. QED
      BY <3>1, <3>2
  <2>4. ~Early(s)'
    BY <1>1 DEF Early
  <2>5. QED
    BY <1>1, <2>1, <2>2, <2>3, <2>4 DEF OwnStep
<1>4. Accounted(s)'
  BY <1>1 DEF Accounted, Answered, Busy
<1>5. QED
  BY <1>2, <1>3, <1>4 DEF HandlerFacts

LEMMA EndingFacts ==
    ASSUME RemoteInv, Ordered, NEW s \in Session, Ending(s) \/ SendClose(s)
    PROVE  HandlerFacts(s)
<1>0. r \in [Session -> RemoteHandler] /\ ChannelsOK /\ TypeOK
  BY DEF RemoteInv, RemoteTypeOK, ChannelsOK
<1>1. PICK from \in {"ending", "closing", "killing", "refusing"}, to \in {"done", "closing", "ending"} :
        Goto(s, from, to)
  BY DEF Ending, SendClose
<1>2. /\ \A o \in Session \ {s} : r'[o] = r[o]
      /\ r[s].pc = from /\ r'[s].pc = to /\ LinkOf(s)' = LinkOf(s)
  BY <1>0, <1>1, GotoFacts
<1>3. ~Early(s) /\ ~Early(s)'
  BY <1>2 DEF Early
<1>4. HandlersKept
  BY <1>2 DEF HandlersKept, Early, LinkOf
<1>5. term' = term /\ due' = due /\ link' = link
  BY DEF Ending, SendClose, linkVars
<1>6. \A o \in Session \ {s} : Present(o)' <=> Present(o)
  BY RemovePresence DEF Ending, SendClose, RemoveIfPresent, Remove, regVars, Present
<1>7. CASE Ending(s)
  <2>1. OwnStep(s)
    BY <1>2, <1>3, <1>5, <1>6, <1>7 DEF OwnStep, Ending, channelVars
  <2>2. Accounted(s)'
    <3>1. CASE Present(s) /\ UNCHANGED regVars
      BY <3>1 DEF Accounted, Answered, Present, regVars
    <3>2. CASE Goto(s, "ending", "closing")
      <4>1. r'[s].pc = "closing"
        BY <1>0, <3>2, GotoFacts
      <4>2. QED
        BY <4>1 DEF Accounted, Answered, Busy
    <3>3. QED
      BY <1>7, <3>1, <3>2 DEF Ending, InState
  <2>3. QED
    BY <1>4, <2>1, <2>2 DEF HandlerFacts
<1>8. CASE SendClose(s)
  <2>1. UNCHANGED cmds \/ Sends(s, "close")
    BY <1>0, <1>2, <1>3, <1>8, SendFacts DEF SendClose
  <2>2. OwnStep(s)
    BY <1>2, <1>3, <1>5, <1>6, <2>1 DEF OwnStep
  <2>3. Accounted(s)'
    <3>1. LinkOf(s) \in Link
      BY <1>2 DEF RemoteInv, Placed
    <3>2. CASE ~Receives(LinkOf(s))
      BY <1>2, <1>5, <3>2 DEF Receives, Accounted, Carries, LinkAt
    <3>3. CASE Receives(LinkOf(s))
      <4>1. Sends(s, "close")
        BY <1>2, <1>3, <1>8, <3>1, <3>3 DEF SendClose, SendOrLose, Send, Sends
      <4>2. InTransit(s, "close")'
        BY <1>0, <4>1, SentQueued
      <4>3. QED
        BY <4>2 DEF Accounted, Answered
    <3>4. QED
      BY <3>2, <3>3
  <2>4. QED
    BY <1>4, <2>2, <2>3 DEF HandlerFacts
<1>9. QED
  BY <1>7, <1>8

LEMMA MoveFacts ==
    ASSUME RemoteInv, Ordered, NEW s \in Session,
           PickConnection(s) \/ BrowserLeaves(s) \/ \E n \in Node : OpenRequest(s, n)
    PROVE  HandlerFacts(s)
<1>0. r[s] \in RemoteHandler /\ r \in [Session -> RemoteHandler]
  BY DEF RemoteInv, RemoteTypeOK
<1>1. /\ UNCHANGED <<regVars, linkVars, channelVars>> /\ term' = term /\ due' = due
      /\ link' = link /\ conn' = conn /\ cmds' = cmds
  BY DEF PickConnection, BrowserLeaves, OpenRequest, linkVars, channelVars
<1>2. \A o \in Session : Present(o)' <=> Present(o)
  BY <1>1 DEF regVars, Present
<1>3. \A o \in Session \ {s} : r'[o] = r[o]
  BY <1>0 DEF PickConnection, BrowserLeaves, OpenRequest
<1>4. OwnStep(s)
  BY <1>1, <1>2, <1>3 DEF OwnStep
<1>5. CASE PickConnection(s)
  <2> DEFINE v == [r[s] EXCEPT !.pc = "routed", !.link = conn[r[s].node]]
  <2>1. v.pc = "routed" /\ v.link = conn[r[s].node] /\ r' = [r EXCEPT ![s] = v]
    BY <1>0, <1>5 DEF PickConnection, RemoteHandler
  <2>2. /\ r[s].pc = "online" /\ r'[s].pc = "routed" /\ LinkOf(s)' = conn[r[s].node]
        /\ r[s].node \in Node /\ conn[r[s].node] # Nobody
    BY <1>0, <1>5, <2>1 DEF PickConnection, At, LinkOf, RemoteInv, Placed
  <2>3. HandlersKept
    BY <1>1, <1>3, <2>2 DEF HandlersKept, Early, LinkOf
  <2>4. Accounted(s)'
    BY <2>2 DEF Accounted, Answered, Busy
  <2>5. QED
    BY <1>4, <2>3, <2>4 DEF HandlerFacts
<1>6. CASE BrowserLeaves(s)
  <2> DEFINE v == [r[s] EXCEPT !.gone = TRUE]
  <2>1. v.pc = r[s].pc /\ v.link = r[s].link /\ r' = [r EXCEPT ![s] = v]
    BY <1>0, <1>6 DEF BrowserLeaves, RemoteHandler
  <2>2. r'[s].pc = r[s].pc /\ LinkOf(s)' = LinkOf(s) /\ Busy(s)
    BY <1>0, <1>6, <2>1 DEF BrowserLeaves, LinkOf
  <2>3. HandlersKept
    BY <1>3, <2>2 DEF HandlersKept, Early, LinkOf
  <2>4. Accounted(s)'
    BY <2>2 DEF Accounted, Answered, Busy
  <2>5. QED
    BY <1>4, <2>3, <2>4 DEF HandlerFacts
<1>7. CASE \E n \in Node : OpenRequest(s, n)
  <2>1. PICK n \in Node, to \in {"online", "done"} : r' = [r EXCEPT ![s].pc = to, ![s].node = n]
    BY <1>7 DEF OpenRequest
  <2> DEFINE v == [r[s] EXCEPT !.pc = to, !.node = n]
  <2>2. v.pc = to /\ v.link = r[s].link /\ r' = [r EXCEPT ![s] = v]
    BY <1>0, <2>1 DEF RemoteHandler
  <2>3. r[s].pc = "idle" /\ r'[s].pc = to /\ LinkOf(s)' = LinkOf(s)
    BY <1>0, <1>7, <2>2 DEF OpenRequest, At, LinkOf
  <2>4. HandlersKept
    BY <1>3, <2>3 DEF HandlersKept, Early, LinkOf
  <2>5. Accounted(s)'
    BY <2>3 DEF Accounted, Carries, Ordered, LinksInOrder
  <2>6. QED
    BY <1>4, <2>4, <2>5 DEF HandlerFacts
<1>8. QED
  BY <1>5, <1>6, <1>7

LEMMA HandlerFactsNext ==
    ASSUME RemoteInv, Ordered, NEW s \in Session,
           \/ HandlerStep(s) \/ BrowserLeaves(s) \/ \E n \in Node : OpenRequest(s, n)
           \/ InputFrame(s) \/ TerminateFrame(s) \/ DetachFrame(s)
    PROVE  HandlerFacts(s)
  BY OpeningFacts, LoopFacts, EndingFacts, MoveFacts DEF HandlerStep

(* A handler's step forgets nobody: neither its own terminal, nor another one,   *)
(* of which it changes nothing.                                                 *)
LEMMA HandlerForgetsNobody ==
    ASSUME RemoteInv, Ordered, NoForgottenTerminal, NEW s \in Session, HandlerFacts(s)
    PROVE  RegistryKept /\ QueueStep /\ NoForgottenTerminal'
<1>0. ChannelsOK
  BY DEF RemoteInv, RemoteTypeOK, ChannelsOK
<1>1. RegistryKept
  BY DEF HandlerFacts, OwnStep, RegistryKept
<1>2. QueueStep
  BY DEF HandlerFacts, OwnStep, QueueStep
<1>3. ASSUME NEW o \in Session \ {s}, Carries(LinkOf(o))',
             (term[o] = "running")' \/ InTransit(o, "start")'
      PROVE  Answered(o)'
  <2>1. /\ r'[o] = r[o] /\ link' = link /\ term' = term /\ due' = due
        /\ Present(o)' <=> Present(o)
    BY DEF HandlerFacts, OwnStep
  <2>2. LinkOf(o)' = LinkOf(o) /\ LinkOf(o) \in Link /\ Carries(LinkOf(o))
    BY <1>3, <2>1 DEF LinkOf, Carries, LinkAt, RemoteInv, RemoteTypeOK, RemoteHandler
  <2>3. PICK l \in Link : l = LinkOf(o) /\ l = LinkOf(o)'
    BY <2>2
  <2>4. \A k \in {"start", "close"} : Queued(l, o, k)' <=> Queued(l, o, k)
    <3>1. CASE UNCHANGED cmds
      BY <3>1 DEF Queued
    <3>2. CASE \E kind \in {"start", "input", "close"} : Sends(s, kind)
      <4>1. PICK kind \in {"start", "input", "close"} : Sends(s, kind)
        BY <3>2
      <4>2. \A m \in Link, q \in Session, k \in {"start", "close"} :
              Queued(m, q, k)' <=> Queued(m, q, k) \/ (m = LinkOf(s) /\ q = s /\ k = kind)
        BY <1>0, <4>1, SentFacts
      <4>3. QED
        BY <4>2
    <3>3. QED
      BY <3>1, <3>2 DEF HandlerFacts, OwnStep
  <2>5. \A k \in {"start", "close"} : /\ InTransit(o, k)' <=> Queued(l, o, k)'
                                      /\ InTransit(o, k) <=> Queued(l, o, k)
    BY <2>3 DEF InTransit, Queued
  <2>6. Answered(o)
    BY <1>3, <2>1, <2>2, <2>4, <2>5 DEF NoForgottenTerminal, Answered
  <2>7. QED
    BY <2>1, <2>4, <2>5, <2>6 DEF Answered, Busy
<1>4. Carries(LinkOf(s))' => Answered(s)'
  BY DEF HandlerFacts, Accounted
<1>5. QED
  BY <1>1, <1>2, <1>3, <1>4 DEF NoForgottenTerminal, Answered

\* What a step keeps of the control plane's knowledge, if nothing is sent or carried.
Remembers ==
    /\ r' = r /\ cmds' = cmds
    /\ \A o \in Session :
          /\ Present(o) => Present(o)' \/ due'[o] # "none"
          /\ due[o] # "none" => due'[o] # "none"
          /\ Present(o)' => Present(o)
          /\ due'[o] # "none" => due[o] # "none" \/ Present(o)
          /\ term'[o] = "running" => term[o] = "running"
          /\ Carries(LinkOf(o))' => Carries(LinkOf(o))

LEMMA RemembersFacts ==
    ASSUME NoForgottenTerminal, Remembers
    PROVE  HandlersKept /\ RegistryKept /\ QueueStep /\ NoForgottenTerminal'
<1>1. HandlersKept /\ RegistryKept /\ QueueStep
  BY DEF Remembers, HandlersKept, RegistryKept, QueueStep, Early, LinkOf
<1>2. ASSUME NEW o \in Session, Carries(LinkOf(o))',
             (term[o] = "running")' \/ InTransit(o, "start")'
      PROVE  Answered(o)'
  <2>1. \A k \in {"start", "close"} : InTransit(o, k)' <=> InTransit(o, k)
    BY DEF Remembers, InTransit, LinkOf
  <2>2. Answered(o)
    BY <1>2, <2>1 DEF Remembers, NoForgottenTerminal, Answered
  <2>3. QED
    BY <2>1, <2>2 DEF Remembers, Answered, Busy
<1>3. QED
  BY <1>1, <1>2 DEF NoForgottenTerminal, Answered

(* A request or the worker that removes an entry owes it a CloseTerminal.        *)
LEMMA RequestRemembers ==
    ASSUME RemoteInv,
           \/ \E s \in Session : HttpTerminate(s) \/ Clock(s) \/ AgentEvent(s)
           \/ \E n \in Node : RevokeMarks(n) \/ RevokeStep(n)
           \/ WorkerDrain
    PROVE  Remembers
<1>0. /\ TypeOK /\ term \in [Session -> {"none", "running", "ended"}]
      /\ due \in [Session -> {"none", "http", "worker", "revoke"}]
  BY DEF RemoteInv, RemoteTypeOK
<1>1. r' = r /\ cmds' = cmds /\ link' = link
  BY DEF HttpTerminate, Clock, AgentEvent, RevokeMarks, RevokeStep, RevokeCloses,
         RevokeDisconnects, WorkerDrain, channelVars, linkVars, Disconnect, MarkRevoked
<1>2. \A o \in Session : /\ term'[o] = "running" => term[o] = "running"
                         /\ Carries(LinkOf(o))' => Carries(LinkOf(o))
  <2>1. \A o \in Session : term'[o] = "running" => term[o] = "running"
    BY <1>0 DEF HttpTerminate, Clock, AgentEvent, RevokeMarks, RevokeStep, RevokeCloses,
         RevokeDisconnects, WorkerDrain
  <2>2. QED
    BY <1>1, <2>1 DEF Carries, LinkAt, LinkOf
<1>3. CASE \E S \in SUBSET Session, who \in {"http", "worker", "revoke"} :
             /\ \A o \in Session : Present(o)' <=> Present(o) /\ o \notin S
             /\ \A o \in S : Present(o)
             /\ Owe(S, who)
  BY <1>0, <1>1, <1>2, <1>3 DEF Remembers, Owe
<1>4. CASE due' = due /\ \A o \in Session : Present(o)' <=> Present(o)
  BY <1>1, <1>2, <1>4 DEF Remembers
<1>5. CASE \E s \in Session : HttpTerminate(s)
  <2>1. PICK s \in Session : HttpTerminate(s)
    BY <1>5
  <2>2. /\ \A o \in Session : Present(o)' <=> Present(o) /\ o \notin {s}
        /\ \A o \in {s} : Present(o)
        /\ Owe({s}, "http")
    BY <2>1, RemovePresence DEF HttpTerminate, Terminate
  <2>3. QED
    BY <1>3, <2>2
<1>6. CASE WorkerDrain
  <2>1. /\ \A o \in Session : Present(o)' <=> Present(o) /\ o \notin Expired
        /\ Owe(Expired, "worker")
    BY <1>6, RemovePresence DEF WorkerDrain, DrainExpired
  <2>2. Expired \in SUBSET Session /\ \A o \in Expired : Present(o)
    BY DEF Expired, Counted
  <2>3. QED
    BY <1>3, <2>1, <2>2
<1>7. CASE \E n \in Node : RevokeCloses(n)
  <2>1. PICK n \in Node : RevokeCloses(n)
    BY <1>7
  <2>2. CASE UNCHANGED <<regVars, due>>
    BY <1>4, <2>2 DEF regVars, Present
  <2>3. CASE CloseSessionsForNode(n) /\ Owe(OfNode(n), "revoke")
    <3>1. /\ \A o \in Session : Present(o)' <=> Present(o) /\ o \notin OfNode(n)
          /\ OfNode(n) \in SUBSET Session /\ \A o \in OfNode(n) : Present(o)
      BY <2>3, RemovePresence DEF CloseSessionsForNode, OfNode, Counted
    <3>2. QED
      BY <1>3, <2>3, <3>1
  <2>4. QED
    BY <2>1, <2>2, <2>3 DEF RevokeCloses
<1>8. CASE \E s \in Session : Clock(s) \/ AgentEvent(s)
  <2>1. due' = due
    BY <1>8 DEF Clock, AgentEvent
  <2>2. \A o \in Session : Present(o)' <=> Present(o)
    BY <1>0, <1>8, FlagPresence DEF Clock, AgentEvent, regVars, Present
  <2>3. QED
    BY <1>4, <2>1, <2>2
<1>9. CASE \E n \in Node : RevokeMarks(n) \/ RevokeDisconnects(n)
  BY <1>4, <1>9 DEF RevokeMarks, RevokeDisconnects, regVars, Present
<1>10. QED
  BY <1>5, <1>6, <1>7, <1>8, <1>9 DEF RevokeStep

(* A link that was chosen never starts to carry again.                           *)
LEMMA LinkRemembers ==
    ASSUME RemoteInv, Ordered, Network \/ (\E l \in Link : LinkStep(l)) \/ UNCHANGED remoteVars
    PROVE  Remembers
<1>1. /\ r' = r /\ cmds' = cmds /\ term' = term /\ due' = due
      /\ \A o \in Session : Present(o)' <=> Present(o)
  BY DEF Network, LinkStep, remoteVars, regVars, channelVars, Present
<1>2. \A l \in Link : /\ link[l].pc \notin {"new", "negotiated"}
                      /\ link'[l].pc = "open" /\ link'[l].up
                      => link[l].pc = "open" /\ link[l].up
  <2>1. link \in [Link -> Transport]
    BY DEF RemoteInv, RemoteTypeOK, LinksTypeOK
  <2>2. CASE link' = link
    BY <2>2
  <2>3. ASSUME NEW m \in Link,
               \/ \E n \in Node : Negotiate(m, n)
               \/ Register(m) \/ Break(m, ~HasSender(m) /\ cmds[m] = <<>>) \/ Leave(m)
               \/ SocketDies(m)
        PROVE  /\ \A l \in Link \ {m} : link'[l] = link[l]
               /\ \/ link[m].pc \in {"new", "negotiated"}
                  \/ link'[m].pc # "open" \/ ~link'[m].up
    BY <2>1, <2>3 DEF Negotiate, Register, Break, Leave, SocketDies, LinkGoto, LinkAt, Transport
  <2>4. QED
    BY <2>2, <2>3 DEF Network, LinkStep, Heartbeat, Lapse, remoteVars, linkVars
<1>3. ASSUME NEW o \in Session, Carries(LinkOf(o))' PROVE Carries(LinkOf(o))
  <2>1. LinkOf(o)' = LinkOf(o) /\ LinkOf(o) \in Link /\ LinkOf(o) # Nobody
    BY <1>1, <1>3 DEF LinkOf, Carries, RemoteInv, RemoteTypeOK, RemoteHandler
  <2>2. link[LinkOf(o)].pc \notin {"new", "negotiated"}
    BY <2>1 DEF Ordered, LinksInOrder
  <2>3. PICK l \in Link : l = LinkOf(o) /\ l = LinkOf(o)'
    BY <2>1
  <2>4. link'[l].pc = "open" /\ link'[l].up
    BY <1>3, <2>3 DEF Carries, LinkAt
  <2>5. QED
    BY <1>2, <2>1, <2>2, <2>3, <2>4 DEF Carries, LinkAt
<1>4. QED
  BY <1>1, <1>3 DEF Remembers

(* Whoever owes a CloseTerminal queues it behind the session's start, or loses   *)
(* it with the link.                                                             *)
LEMMA SendDueFacts ==
    ASSUME RemoteInv, Ordered, NoForgottenTerminal, NEW s \in Session, SendDue(s)
    PROVE  HandlersKept /\ RegistryKept /\ QueueStep /\ NoForgottenTerminal'
<1>0. ChannelsOK /\ due \in [Session -> {"none", "http", "worker", "revoke"}]
  BY DEF RemoteInv, RemoteTypeOK, ChannelsOK
<1>1. /\ r' = r /\ term' = term /\ link' = link /\ \A o \in Session : Present(o)' <=> Present(o)
      /\ \A o \in Session \ {s} : due'[o] = due[o]
      /\ due'[s] = "none"
  BY <1>0 DEF SendDue, Owe, regVars, linkVars, Present
<1>2. ~Early(s) /\ ~Early(s)' /\ \A o \in Session : LinkOf(o)' = LinkOf(o)
  BY <1>1 DEF SendDue, Ordered, NothingEarly, Early, LinkOf
<1>3. UNCHANGED cmds \/ Sends(s, "close")
  BY <1>0, <1>2, SendFacts DEF SendDue
<1>4. HandlersKept
  BY <1>1 DEF HandlersKept, Early, LinkOf
<1>5. RegistryKept
  BY <1>1 DEF RegistryKept
<1>6. QueueStep
  BY <1>3 DEF QueueStep
<1>7. ASSUME NEW o \in Session \ {s}, Carries(LinkOf(o))',
             (term[o] = "running")' \/ InTransit(o, "start")'
      PROVE  Answered(o)'
  <2>1. LinkOf(o)' = LinkOf(o) /\ LinkOf(o) \in Link /\ Carries(LinkOf(o))
    BY <1>1, <1>7 DEF LinkOf, Carries, LinkAt, RemoteInv, RemoteTypeOK, RemoteHandler
  <2>2. PICK l \in Link : l = LinkOf(o) /\ l = LinkOf(o)'
    BY <2>1
  <2>3. \A k \in {"start", "close"} : Queued(l, o, k)' <=> Queued(l, o, k)
    <3>1. CASE UNCHANGED cmds
      BY <3>1 DEF Queued
    <3>2. CASE Sends(s, "close")
      <4>1. \A m \in Link, q \in Session, k \in {"start", "close"} :
              Queued(m, q, k)' <=> Queued(m, q, k) \/ (m = LinkOf(s) /\ q = s /\ k = "close")
        BY <1>0, <3>2, SentFacts
      <4>2. QED
        BY <4>1
    <3>3. QED
      BY <1>3, <3>1, <3>2
  <2>4. \A k \in {"start", "close"} : /\ InTransit(o, k)' <=> Queued(l, o, k)'
                                      /\ InTransit(o, k) <=> Queued(l, o, k)
    BY <2>2 DEF InTransit, Queued
  <2>5. Answered(o)
    BY <1>1, <1>7, <2>1, <2>3, <2>4 DEF NoForgottenTerminal, Answered
  <2>6. QED
    BY <1>1, <2>3, <2>4, <2>5 DEF Answered, Busy
<1>8. Carries(LinkOf(s))' => Answered(s)'
  <2>1. SUFFICES ASSUME Carries(LinkOf(s))' PROVE Answered(s)'
    OBVIOUS
  <2>2. LinkOf(s) \in Link /\ Receives(LinkOf(s))
    BY <1>1, <2>1 DEF LinkOf, Carries, LinkAt, Receives, RemoteInv, RemoteTypeOK, RemoteHandler
  <2>3. Sends(s, "close")
    BY <1>2, <2>2 DEF SendDue, SendOrLose, Send, Sends
  <2>4. QED
    BY <1>0, <2>3, SentQueued DEF Answered
<1>9. QED
  BY <1>4, <1>5, <1>6, <1>7, <1>8 DEF NoForgottenTerminal, Answered

(* A link that carries a close has carried the start before; one that carries a  *)
(* start leaves the close of the session, if there is one, in the queue.         *)
LEMMA CarryFacts ==
    ASSUME RemoteInv, Ordered, NoForgottenTerminal, NEW l \in Link, Carry(l)
    PROVE  HandlersKept /\ RegistryKept /\ QueueStep /\ NoForgottenTerminal'
<1>0. ChannelsOK /\ term \in [Session -> {"none", "running", "ended"}]
  BY DEF RemoteInv, RemoteTypeOK, ChannelsOK
<1>1. /\ r' = r /\ due' = due /\ link' = link /\ \A o \in Session : Present(o)' <=> Present(o)
      /\ \A o \in Session : LinkOf(o)' = LinkOf(o)
  BY DEF Carry, regVars, linkVars, Present, LinkOf
<1>2. Delivers(l)
  BY DEF Carry, Delivers
<1>3. HandlersKept /\ RegistryKept /\ QueueStep
  BY <1>1, <1>2 DEF HandlersKept, Early, LinkOf, RegistryKept, QueueStep
<1>4. PICK c \in Command : c = Head(cmds[l])
  <2>1. cmds[l] \in Seq(Command) /\ cmds[l] # <<>>
    BY <1>0, <1>2 DEF ChannelsOK, Delivers
  <2>2. Head(cmds[l]) \in Command
    BY <2>1, TailFacts
  <2>3. QED
    BY <2>2
<1>5. /\ c.sid \in Session /\ c.kind \in {"start", "input", "close"}
      /\ c = [kind |-> c.kind, sid |-> c.sid]
  BY DEF Command
<1>6. /\ \A o \in Session \ {c.sid} : term'[o] = term[o]
      /\ c.kind = "close" /\ link[l].up => term'[c.sid] = "ended"
      /\ c.kind = "input" \/ ~link[l].up => term'[c.sid] = term[c.sid]
  BY <1>0, <1>4, <1>5 DEF Carry
<1>7. \A m \in Link, o \in Session, k \in {"start", "close"} :
        Queued(m, o, k)' => Queued(m, o, k)
  BY <1>0, <1>2, DeliveredFacts
<1>8. \A m \in Link, o \in Session, k \in {"start", "close"} :
        Queued(m, o, k) => Queued(m, o, k)' \/ (m = l /\ c = [kind |-> k, sid |-> o])
  <2>1. \A m \in Link, o \in Session, k \in {"start", "close"} :
          Queued(m, o, k) => \/ Queued(m, o, k)'
                             \/ m = l /\ Head(cmds[l]) = [kind |-> k, sid |-> o]
    BY <1>0, <1>2, DeliveredFacts
  <2>2. QED
    BY <1>4, <2>1
<1>9. ASSUME NEW o \in Session, Carries(LinkOf(o))',
             (term[o] = "running")' \/ InTransit(o, "start")'
      PROVE  Answered(o)'
  <2>1. LinkOf(o) \in Link /\ Carries(LinkOf(o))
    BY <1>1, <1>9 DEF LinkOf, Carries, LinkAt, RemoteInv, RemoteTypeOK, RemoteHandler
  <2>2. PICK m \in Link : m = LinkOf(o) /\ m = LinkOf(o)'
    BY <1>1, <2>1
  <2>3. \A k \in {"start", "close"} : /\ InTransit(o, k)' <=> Queued(m, o, k)'
                                      /\ InTransit(o, k) <=> Queued(m, o, k)
    BY <2>2 DEF InTransit, Queued
  <2>4. link[m].up
    BY <2>1, <2>2 DEF Carries
  <2>5. term[o] = "running" \/ Queued(m, o, "start")
    <3>1. CASE Queued(m, o, "start")'
      BY <1>7, <3>1
    <3>2. CASE term'[o] = "running" /\ term'[o] = term[o]
      BY <3>2
    <3>3. CASE term'[o] = "running" /\ term'[o] # term[o]
      <4>1. o = c.sid
        BY <1>6, <3>3
      <4>2. CASE ~link[l].up \/ c.kind # "start"
        BY <1>5, <1>6, <3>3, <4>1, <4>2
      <4>3. CASE c.kind = "start"
        <5>1. cmds[l] \in Seq(Command) /\ cmds[l] # <<>>
          BY <1>0, <1>2 DEF ChannelsOK, Delivers
        <5>2. 1 \in DOMAIN cmds[l] /\ cmds[l][1] = c
          BY <1>4, <5>1
        <5>3. Queued(l, o, "start")
          BY <1>5, <4>1, <4>3, <5>2 DEF Queued
        <5>4. LinkOf(o) = l
          BY <5>3 DEF Ordered, Addressed
        <5>5. QED
          BY <2>2, <5>3, <5>4
      <4>4. QED
        BY <4>2, <4>3
    <3>4. QED
      BY <1>9, <2>3, <3>1, <3>2, <3>3
  <2>6. Answered(o)
    BY <2>1, <2>3, <2>5 DEF NoForgottenTerminal, Answered
  <2>7. CASE c = [kind |-> "close", sid |-> o] /\ m = l
    <3>1. ~Queued(m, o, "start")'
      BY <1>0, <1>2, <1>4, <2>7, DeliveredInOrder
    <3>2. term'[o] = "ended"
      BY <1>6, <2>4, <2>7
    <3>3. QED
      BY <1>9, <2>3, <3>1, <3>2
  <2>8. CASE ~(c = [kind |-> "close", sid |-> o] /\ m = l)
    <3>1. Queued(m, o, "close") => Queued(m, o, "close")'
      BY <1>8, <2>8
    <3>2. QED
      BY <1>1, <2>3, <2>6, <3>1 DEF Answered, Busy
  <2>9. QED
    BY <2>7, <2>8
<1>10. QED
  BY <1>3, <1>9 DEF NoForgottenTerminal, Answered

LEMMA LinksKeptNext == RemoteInv /\ [RemoteNext]_remoteVars => LinksKept
<1> SUFFICES ASSUME RemoteInv, [RemoteNext]_remoteVars PROVE LinksKept
  OBVIOUS
<1>0. link \in [Link -> Transport] /\ conn \in [Node -> Link \cup {Nobody}]
  BY DEF RemoteInv, RemoteTypeOK, LinksTypeOK
<1>1. CASE link' = link /\ \A n \in Node : conn'[n] \in {conn[n], Nobody}
  BY <1>1 DEF LinksKept
<1>2. ASSUME NEW s \in Session,
             \/ HandlerStep(s) \/ BrowserLeaves(s) \/ Clock(s)
             \/ InputFrame(s) \/ TerminateFrame(s) \/ DetachFrame(s)
             \/ HttpTerminate(s) \/ SendDue(s) \/ AgentEvent(s)
             \/ \E n \in Node : OpenRequest(s, n)
      PROVE  link' = link /\ \A n \in Node : conn'[n] \in {conn[n], Nobody}
  BY <1>0, <1>2
     DEF HandlerStep, PickConnection, NoRoute, SendStart, StartFails, InsertRemoteOk,
         InsertRemoteRefused, AcquireEvents, RecvEvent, RelayOk, BrowserLost, LinkLost, Ending,
         SendClose, BrowserLeaves, Clock, InputFrame, TerminateFrame, DetachFrame, HttpTerminate,
         SendDue, AgentEvent, OpenRequest, linkVars, Disconnect
<1>3. ASSUME NEW n \in Node, RevokeMarks(n) \/ RevokeStep(n)
      PROVE  link' = link /\ \A m \in Node : conn'[m] \in {conn[m], Nobody}
  BY <1>0, <1>3 DEF RevokeMarks, RevokeStep, RevokeCloses, RevokeDisconnects, linkVars,
                    Disconnect, MarkRevoked
<1>4. CASE UNCHANGED linkVars
  BY <1>1, <1>4 DEF linkVars
<1>5. ASSUME NEW l \in Link,
             \/ \E n \in Node : Negotiate(l, n)
             \/ Register(l) \/ Break(l, ~HasSender(l) /\ cmds[l] = <<>>) \/ Leave(l)
             \/ SocketDies(l)
      PROVE  LinksKept
  <2>1. /\ \A m \in Link \ {l} : link'[m] = link[m]
        /\ link'[l].pc \in {"new", "negotiated"} => link[l].pc \in {"new", "negotiated"}
    BY <1>0, <1>5 DEF Negotiate, Register, Break, Leave, SocketDies, LinkGoto, LinkAt, Transport
  <2>2. \A n \in Node : conn'[n] \in {conn[n], Nobody} \/ (Register(l) /\ conn'[n] = l)
    BY <1>0, <1>5 DEF Negotiate, Register, Break, Leave, SocketDies
  <2>3. Register(l) => link'[l].pc = "open"
    BY <1>0 DEF Register, LinkGoto, Transport
  <2>4. \A n \in Node : \/ conn'[n] \in {conn[n], Nobody}
                        \/ link'[conn'[n]].pc \notin {"new", "negotiated"}
    BY <2>2, <2>3
  <2>5. QED
    BY <2>1, <2>4 DEF LinksKept
<1>6. CASE \E n \in Node : Heartbeat(n) \/ Lapse(n)
  BY <1>1, <1>6 DEF Heartbeat, Lapse
<1>7. QED
  BY <1>1, <1>2, <1>3, <1>4, <1>5, <1>6
     DEF RemoteNext, Network, LinkStep, Carry, WorkerDrain, remoteVars

LEMMA ForgetNobodyNext ==
    ASSUME RemoteInv, Ordered, NoForgottenTerminal, [RemoteNext]_remoteVars
    PROVE  HandlersKept /\ RegistryKept /\ QueueStep /\ NoForgottenTerminal'
<1>1. ASSUME NEW s \in Session,
             \/ HandlerStep(s) \/ BrowserLeaves(s) \/ \E n \in Node : OpenRequest(s, n)
             \/ InputFrame(s) \/ TerminateFrame(s) \/ DetachFrame(s)
      PROVE  HandlersKept /\ RegistryKept /\ QueueStep /\ NoForgottenTerminal'
  BY <1>1, HandlerFactsNext, HandlerForgetsNobody DEF HandlerFacts
<1>2. ASSUME NEW s \in Session, SendDue(s)
      PROVE  HandlersKept /\ RegistryKept /\ QueueStep /\ NoForgottenTerminal'
  BY <1>2, SendDueFacts
<1>3. ASSUME NEW l \in Link, Carry(l)
      PROVE  HandlersKept /\ RegistryKept /\ QueueStep /\ NoForgottenTerminal'
  BY <1>3, CarryFacts
<1>4. CASE Remembers
  BY <1>4, RemembersFacts
<1>5. QED
  BY <1>1, <1>2, <1>3, <1>4, RequestRemembers, LinkRemembers DEF RemoteNext

(* No interleaving of handlers, requests, the worker, a revocation and lost       *)
(* links leaves an agent on a working link with a terminal the control plane      *)
(* has forgotten, for any number of sessions, nodes, links and any capacities.    *)
THEOREM NothingForgotten == RemoteSpec => []NoForgottenTerminal
<1>1. RemoteInit => Ordered /\ NoForgottenTerminal
  <2> SUFFICES ASSUME RemoteInit PROVE Ordered /\ NoForgottenTerminal
    OBVIOUS
  <2>1. DOMAIN <<>> = {}
    OBVIOUS
  <2>2. /\ \A l \in Link : DOMAIN cmds[l] = {}
        /\ \A s \in Session : /\ LinkOf(s) = Nobody /\ r[s].pc = "idle"
                              /\ ~Present(s) /\ due[s] = "none"
        /\ \A n \in Node : conn[n] = Nobody
    <3>1. \A l \in Link : cmds[l] = <<>>
      BY DEF RemoteInit
    <3>2. \A l \in Link : DOMAIN cmds[l] = {}
      BY <2>1, <3>1
    <3>3. \A s \in Session : LinkOf(s) = Nobody /\ r[s].pc = "idle" /\ due[s] = "none"
      BY DEF RemoteInit, LinkOf
    <3>4. (\A s \in Session : ~Present(s)) /\ \A n \in Node : conn[n] = Nobody
      BY DEF RemoteInit, RegInit, LinksInit, Present
    <3>5. QED
      BY <3>2, <3>3, <3>4
  <2>3. LinksInOrder /\ NothingEarly /\ Addressed /\ StartFirst
    BY <2>2 DEF LinksInOrder, NothingEarly, Addressed, StartFirst, Queued
  <2>4. NoForgottenTerminal
    BY <2>2 DEF NoForgottenTerminal, Carries
  <2>5. QED
    BY <2>3, <2>4 DEF Ordered
<1>2. (RemoteInv /\ Ordered /\ NoForgottenTerminal) /\ [RemoteNext]_remoteVars
        => (RemoteInv /\ Ordered /\ NoForgottenTerminal)'
  BY RemoteInvNext, LinksKeptNext, ForgetNobodyNext, OrderedKept
<1>3. QED
  BY <1>1, <1>2, RemoteInvInit, PTL DEF RemoteSpec
=============================================================================
