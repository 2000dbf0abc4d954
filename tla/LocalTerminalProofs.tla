--------------------------- MODULE LocalTerminalProofs ---------------------------
(***************************************************************************)
(* Proofs about LocalTerminal for any number of browsers, sessions and     *)
(* tokens, any limits and any channel capacity: the types, that the whole  *)
(* is an implementation of SessionRegistry (so that what holds of every    *)
(* sequence of registry calls holds of the handlers), that no shell is     *)
(* orphaned, that an attached session has its handler and that each end of *)
(* a session is audited. LocalInv adds to the types that a handler past    *)
(* its first message works for a session; LifeInv, for the last two, who   *)
(* holds a session at each point of its life.                              *)
(***************************************************************************)
EXTENDS LocalTerminal, SessionRegistryProofs

HandlersOK ==
    /\ h \in [Conn -> Handler]
    /\ \A c \in Conn : Len(h[c].inbox) <= ChannelCap
    /\ \A c \in Conn : h[c].pc \notin {"idle", "done"} => h[c].sid \in Session
    /\ \A c \in Conn : h[c].pc = "replaying" => h[c].grant \in Token

LocalInv == LocalTypeOK /\ HandlersOK

(* One handler takes a new value, the others keep theirs.                      *)
LEMMA OneHandler ==
    ASSUME HandlersOK, NEW c \in Conn, NEW r \in Handler, Len(r.inbox) <= ChannelCap,
           r.pc \notin {"idle", "done"} => r.sid \in Session,
           r.pc = "replaying" => r.grant \in Token,
           h' = [h EXCEPT ![c] = r]
    PROVE  HandlersOK'
  BY DEF HandlersOK

LEMMA GotoOK ==
    ASSUME HandlersOK, NEW c \in Conn, NEW from, from \notin {"idle", "done"}, NEW to \in PC,
           to # "replaying", Goto(c, from, to)
    PROVE  HandlersOK'
<1> DEFINE r == [h[c] EXCEPT !.pc = to]
<1>1. h[c] \in Handler /\ h[c].sid \in Session /\ Len(h[c].inbox) <= ChannelCap
  BY DEF HandlersOK, Goto, At
<1>2. r \in Handler /\ r.sid = h[c].sid /\ r.inbox = h[c].inbox
  BY <1>1 DEF Handler
<1>3. r.pc = to
  BY <1>1 DEF Handler
<1>4. h' = [h EXCEPT ![c] = r]
  BY DEF Goto
<1>5. QED
  BY <1>1, <1>2, <1>3, <1>4, OneHandler

LEMMA FreshOK ==
    /\ Fresh("idle") \in Handler /\ Fresh("done") \in Handler
    /\ Len(Fresh("idle").inbox) = 0 /\ Len(Fresh("done").inbox) = 0
    /\ Fresh("idle").pc = "idle" /\ Fresh("done").pc = "done"
  BY DEF Fresh, Handler, PC, NoMessage

LEMMA ReturnOK ==
    ASSUME HandlersOK, NEW c \in Conn, NEW from, Return(c, from)
    PROVE  HandlersOK'
<1>1. /\ Fresh("done") \in Handler
      /\ Len(Fresh("done").inbox) <= ChannelCap
      /\ Fresh("done").pc \notin {"idle", "done"} => Fresh("done").sid \in Session
      /\ Fresh("done").pc # "replaying"
  BY FreshOK, ChannelAssumption
<1>2. h' = [h EXCEPT ![c] = Fresh("done")]
  BY DEF Return
<1>3. QED
  BY <1>1, <1>2, OneHandler

LEMMA PartOK ==
    ASSUME HandlersOK, NEW c \in Conn, NEW from, from \notin {"idle", "done"}, Part(c, from)
    PROVE  HandlersOK'
<1> DEFINE r == [h[c] EXCEPT !.pc = "leaving", !.cur = NoMessage, !.parted = TRUE]
<1>1. h[c] \in Handler /\ h[c].sid \in Session /\ Len(h[c].inbox) <= ChannelCap
  BY DEF HandlersOK, Part, At
<1>2. r \in Handler /\ r.pc = "leaving" /\ r.sid = h[c].sid /\ r.inbox = h[c].inbox
  BY <1>1 DEF Handler, PC
<1>3. h' = [h EXCEPT ![c] = r]
  BY DEF Part
<1>4. QED
  BY <1>1, <1>2, <1>3, OneHandler

(* A full receiver gives up its oldest message, so no inbox outgrows the       *)
(* channel.                                                                    *)
LEMMA QueuedOK ==
    ASSUME NEW q \in Seq(Message), Len(q) <= ChannelCap, NEW m \in Message
    PROVE  Queued(q, m) \in Seq(Message) /\ Len(Queued(q, m)) <= ChannelCap
<1>1. CASE Len(q) < ChannelCap
  BY <1>1, ChannelAssumption DEF Queued
<1>2. CASE ~(Len(q) < ChannelCap)
  <2>1. q # <<>> /\ Len(q) = ChannelCap
    BY <1>2, ChannelAssumption
  <2>2. Tail(q) \in Seq(Message) /\ Len(Tail(q)) = Len(q) - 1
    BY <2>1
  <2>3. QED
    BY <1>2, <2>1, <2>2, ChannelAssumption DEF Queued
<1>3. QED
  BY <1>1, <1>2

LEMMA BroadcastOK ==
    ASSUME HandlersOK, NEW s, NEW m \in Message, Broadcast(s, m)
    PROVE  HandlersOK'
<1>1. ASSUME NEW c \in Conn
      PROVE  /\ h'[c] \in Handler /\ Len(h'[c].inbox) <= ChannelCap
             /\ h'[c].pc \notin {"idle", "done"} => h'[c].sid \in Session
             /\ h'[c].pc = "replaying" => h'[c].grant \in Token
  <2>1. h[c] \in Handler /\ h[c].inbox \in Seq(Message) /\ Len(h[c].inbox) <= ChannelCap
    BY DEF HandlersOK, Handler
  <2>2. [h[c] EXCEPT !.inbox = Queued(h[c].inbox, m)] \in Handler
    BY <2>1, QueuedOK DEF Handler
  <2>3. CASE h'[c] = h[c]
    BY <2>1, <2>3 DEF HandlersOK
  <2>4. CASE h'[c] = [h[c] EXCEPT !.inbox = Queued(h[c].inbox, m)]
    BY <2>1, <2>2, <2>4, QueuedOK DEF HandlersOK, Handler
  <2>5. QED
    BY <2>3, <2>4 DEF Broadcast
<1>2. h' \in [Conn -> Handler]
  BY <1>1 DEF Broadcast
<1>3. QED
  BY <1>1, <1>2 DEF HandlersOK

-----------------------------------------------------------------------------
(* Registry calls of the handlers are registry steps. *)
RegStep == [Next]_regVars

LEMMA SetStateStep ==
    ASSUME NEW s \in Session, NEW st \in Requested, SetState(s, st)
    PROVE  RegStep
  BY DEF RegStep, Next

LEMMA TouchStep ==
    ASSUME NEW s \in Session, TouchIfPresent(s)
    PROVE  RegStep
  BY DEF RegStep, Next, TouchIfPresent

LEMMA RemoveStep ==
    ASSUME NEW s \in Session, RemoveIfPresent(s)
    PROVE  RegStep
  BY DEF RegStep, Next, RemoveIfPresent

(* A handler that is not at "idle" or "done" works for a session. *)
LEMMA Working ==
    ASSUME HandlersOK, NEW c \in Conn, h[c].pc \notin {"idle", "done"}
    PROVE  Sid(c) \in Session
  BY DEF HandlersOK, Sid

(* The steps of handle_terminal_socket and handle_terminal_reattach before     *)
(* their loops.                                                                *)
LEMMA OpeningSteps ==
    ASSUME LocalInv, NEW c \in Conn,
           \/ InsertOk(c) \/ InsertRefused(c) \/ SendStarted(c) \/ StartedFails(c)
           \/ Activate(c) \/ Subscribe(c) \/ FinishReattach(c)
    PROVE  HandlersOK' /\ RegStep
<1> USE DEF LocalInv
<1>1. CASE InsertOk(c)
  <2>1. Sid(c) \in Session
    BY <1>1, Working DEF InsertOk, Goto, At
  <2>2. RegStep
    BY <1>1, <2>1, ActorAssumption DEF InsertOk, RegStep, Next
  <2>3. QED
    BY <1>1, <2>2, GotoOK DEF InsertOk, PC
<1>2. CASE InsertRefused(c)
  BY <1>2, ReturnOK DEF InsertRefused, RegStep
<1>3. CASE SendStarted(c)
  BY <1>3, GotoOK DEF SendStarted, RegStep, PC
<1>4. CASE StartedFails(c)
  BY <1>4, ReturnOK DEF StartedFails, RegStep
<1>5. CASE Activate(c)
  <2>1. Sid(c) \in Session
    BY <1>5, Working DEF Activate, Goto, At
  <2>2. RegStep
    BY <1>5, <2>1, SetStateStep DEF Activate, Requested
  <2>3. QED
    BY <1>5, <2>2, GotoOK DEF Activate, PC
<1>6. CASE Subscribe(c)
  BY <1>6, GotoOK DEF Subscribe, RegStep, PC, Listening, InLoop
<1>7. CASE FinishReattach(c)
  <2>1. Sid(c) \in Session /\ h[c] \in Handler
    BY <1>7, Working DEF FinishReattach, At, HandlersOK
  <2>2. RegStep
    BY <1>7, <2>1, SetStateStep DEF FinishReattach, Requested
  <2> DEFINE r == [h[c] EXCEPT !.pc = "looping", !.grant = Absent]
  <2>3. r \in Handler /\ r.pc = "looping" /\ r.sid = h[c].sid /\ r.inbox = h[c].inbox
    BY <2>1 DEF Handler, PC, Listening, InLoop
  <2>4. h' = [h EXCEPT ![c] = r]
    BY <1>7 DEF FinishReattach
  <2>5. HandlersOK'
    BY <2>1, <2>3, <2>4, OneHandler DEF HandlersOK, Sid
  <2>6. QED
    BY <2>2, <2>5
<1>8. QED
  BY <1>1, <1>2, <1>3, <1>4, <1>5, <1>6, <1>7

(* The select! loop. *)
LEMMA LoopSteps ==
    ASSUME LocalInv, NEW c \in Conn,
           \/ RecvOutput(c) \/ RecvClosed(c) \/ RecvGone(c) \/ Tick(c) \/ Expire(c)
           \/ RelayExit(c) \/ RelaySent(c) \/ RelayFails(c) \/ RecvFrame(c)
    PROVE  HandlersOK' /\ RegStep
<1> USE DEF LocalInv
<1>1. CASE RecvOutput(c)
  <2>1. Sid(c) \in Session /\ h[c] \in Handler /\ h[c].inbox \in Seq(Message) /\ h[c].inbox # <<>>
    BY <1>1, Working DEF RecvOutput, At, HandlersOK, Handler
  <2>2. RegStep
    BY <1>1, <2>1, TouchStep DEF RecvOutput
  <2> DEFINE r == [h[c] EXCEPT !.pc = "relaying", !.cur = Head(h[c].inbox),
                               !.inbox = Tail(h[c].inbox),
                               !.failed = h[c].failed \/ Head(h[c].inbox) = "error"]
  <2>3. /\ Head(h[c].inbox) \in Message
        /\ Tail(h[c].inbox) \in Seq(Message)
        /\ Len(Tail(h[c].inbox)) = Len(h[c].inbox) - 1
        /\ Len(h[c].inbox) \in Nat
    BY <2>1
  <2>4. (h[c].failed \/ Head(h[c].inbox) = "error") \in BOOLEAN
    OBVIOUS
  <2>5. r \in Handler /\ r.pc = "relaying" /\ r.sid = h[c].sid /\ r.inbox = Tail(h[c].inbox)
    BY <2>1, <2>3, <2>4 DEF Handler, PC, Listening, InLoop
  <2>6. h' = [h EXCEPT ![c] = r]
    BY <1>1 DEF RecvOutput
  <2>7. Len(h[c].inbox) <= ChannelCap
    BY DEF HandlersOK
  <2>8. Len(r.inbox) <= ChannelCap
    BY <2>3, <2>5, <2>7, ChannelAssumption
  <2>9. HandlersOK'
    BY <2>1, <2>5, <2>6, <2>8, OneHandler DEF Sid
  <2>10. QED
    BY <2>2, <2>9
<1>2. CASE RecvClosed(c)
  BY <1>2, GotoOK DEF RecvClosed, RegStep, PC
<1>3. CASE RecvGone(c)
  <2>1. Sid(c) \in Session
    BY <1>3, Working DEF RecvGone, Part, At
  <2>2. RegStep
    BY <1>3, <2>1, SetStateStep DEF RecvGone, Requested
  <2>3. QED
    BY <1>3, <2>2, PartOK DEF RecvGone
<1>4. CASE Tick(c)
  BY <1>4, GotoOK DEF Tick, RegStep, PC, Listening, InLoop
<1>5. CASE Expire(c)
  <2>1. Sid(c) \in Session
    BY <1>5, Working DEF Expire, Goto, At
  <2>2. RegStep
    BY <1>5, <2>1, SetStateStep DEF Expire, Requested
  <2>3. QED
    BY <1>5, <2>2, GotoOK DEF Expire, PC
<1>6. CASE RelayExit(c)
  <2>1. Sid(c) \in Session
    BY <1>6, Working DEF RelayExit, Goto, At
  <2>2. RegStep
    BY <1>6, <2>1, SetStateStep DEF RelayExit, Requested
  <2>3. QED
    BY <1>6, <2>2, GotoOK DEF RelayExit, PC
<1>7. CASE RelaySent(c)
  <2>1. PICK to \in {"looping", "leaving"} :
          h' = [h EXCEPT ![c].pc = to, ![c].cur = NoMessage]
    BY <1>7 DEF RelaySent
  <2>2. h[c] \in Handler /\ h[c].sid \in Session /\ Len(h[c].inbox) <= ChannelCap
    BY <1>7 DEF RelaySent, At, HandlersOK
  <2> DEFINE r == [h[c] EXCEPT !.pc = to, !.cur = NoMessage]
  <2>3. r \in Handler /\ r.pc = to /\ r.sid = h[c].sid /\ r.inbox = h[c].inbox
    BY <2>1, <2>2 DEF Handler, PC, Listening, InLoop
  <2>4. h' = [h EXCEPT ![c] = r]
    BY <2>1
  <2>5. HandlersOK'
    BY <2>2, <2>3, <2>4, OneHandler
  <2>6. QED
    BY <1>7, <2>5 DEF RelaySent, RegStep
<1>8. CASE RelayFails(c)
  <2>1. PICK from \in {"relaying", "exiting"} : Part(c, from)
    BY <1>8 DEF RelayFails
  <2>2. Sid(c) \in Session
    BY <2>1, Working DEF Part, At
  <2>3. RegStep
    BY <1>8, <2>2, SetStateStep DEF RelayFails, Requested
  <2>4. QED
    BY <2>1, <2>3, PartOK
<1>9. CASE RecvFrame(c)
  <2>1. Sid(c) \in Session
    BY <1>9, Working DEF RecvFrame, Goto, At
  <2>2. RegStep
    BY <1>9, <2>1, TouchStep DEF RecvFrame
  <2>3. QED
    BY <1>9, <2>2, GotoOK DEF RecvFrame, PC, Listening, InLoop
<1>10. QED
  BY <1>1, <1>2, <1>3, <1>4, <1>5, <1>6, <1>7, <1>8, <1>9

LEMMA ReattachKeepsLive ==
    ASSUME TypeOK, NEW s \in Session, NEW t \in Token, NEW u \in User, Reattach(s, t, u)
    PROVE  s \in Live'
<1>1. PICK new \in Token \ drawn :
        sessions' = [sessions EXCEPT ![s].token = new, ![s].state = "Reattaching",
                                     ![s].idle = FALSE]
  BY DEF Reattach
<1>2. sessions[s] \in Tracked
  BY DEF Reattach, MayReattach, Present, TypeOK
<1>3. [[[sessions[s] EXCEPT !.token = new] EXCEPT !.state = "Reattaching"]
          EXCEPT !.idle = FALSE] \in Tracked
  BY <1>2 DEF Tracked, TerminalSessionState
<1>4. QED
  BY <1>1, <1>3, AbsentAssumption DEF TypeOK, Live, Present

(* handle_client_frame and what follows the loop. *)
LEMMA FrameSteps ==
    ASSUME LocalInv, NEW c \in Conn,
           \/ OtherFrame(c) \/ TerminateFrame(c) \/ ClosePty(c) \/ DetachFrame(c)
           \/ ReattachFrame(c) \/ Resume(c)
    PROVE  HandlersOK' /\ RegStep
<1> USE DEF LocalInv
<1>1. CASE OtherFrame(c)
  BY <1>1, GotoOK DEF OtherFrame, RegStep, PC, Listening, InLoop
<1>2. CASE TerminateFrame(c)
  <2>1. Sid(c) \in Session
    BY <1>2, Working DEF TerminateFrame, Goto, At
  <2>2. RegStep
    BY <1>2, <2>1, SetStateStep DEF TerminateFrame, Requested
  <2>3. QED
    BY <1>2, <2>2, GotoOK DEF TerminateFrame, PC
<1>3. CASE ClosePty(c)
  BY <1>3, GotoOK DEF ClosePty, RegStep, PC
<1>4. CASE DetachFrame(c)
  <2>1. Sid(c) \in Session
    BY <1>4, Working DEF DetachFrame, Part, At
  <2>2. RegStep
    BY <1>4, <2>1, SetStateStep DEF DetachFrame, Requested
  <2>3. QED
    BY <1>4, <2>2, PartOK DEF DetachFrame
<1>5. CASE ReattachFrame(c)
  <2>1. Sid(c) \in Session
    BY <1>5, Working DEF ReattachFrame, Goto, At
  <2>2. RegStep
    BY <1>5, <2>1, SetStateStep DEF ReattachFrame, Requested
  <2>3. QED
    BY <1>5, <2>2, GotoOK DEF ReattachFrame, PC, Listening, InLoop
<1>6. CASE Resume(c)
  <2>1. PICK from \in {"resuming", "resumed"}, to \in {"resumed", "looping"} :
          Goto(c, from, to)
    BY <1>6 DEF Resume
  <2>2. Sid(c) \in Session
    BY <2>1, Working DEF Goto, At
  <2>3. RegStep
    BY <1>6, <2>2, SetStateStep DEF Resume, Requested
  <2>4. QED
    BY <2>1, <2>3, GotoOK DEF PC, Listening, InLoop
<1>7. QED
  BY <1>1, <1>2, <1>3, <1>4, <1>5, <1>6

LEMMA EndingSteps ==
    ASSUME LocalInv, NEW c \in Conn,
           Leave(c) \/ MarkTerminating(c) \/ RemoveSession(c) \/ RecordClosed(c)
    PROVE  HandlersOK' /\ RegStep
<1> USE DEF LocalInv
<1>1. CASE Leave(c)
  <2>1. CASE Return(c, "leaving")
    BY <1>1, <2>1, ReturnOK DEF Leave, RegStep
  <2>2. CASE h' = [h EXCEPT ![c].pc = "closing", ![c].inbox = <<>>]
    <3>1. h[c] \in Handler /\ h[c].sid \in Session
      BY <1>1 DEF Leave, At, HandlersOK
    <3> DEFINE r == [h[c] EXCEPT !.pc = "closing", !.inbox = <<>>]
    <3>2. r \in Handler /\ r.pc = "closing" /\ r.sid = h[c].sid /\ Len(r.inbox) = 0
      <4>1. <<>> \in Seq(Message) /\ Len(<<>>) = 0
        OBVIOUS
      <4>2. r \in Handler /\ r.pc = "closing" /\ r.sid = h[c].sid /\ r.inbox = <<>>
        BY <3>1, <4>1 DEF Handler, PC
      <4>3. QED
        BY <4>1, <4>2
    <3>3. Len(r.inbox) <= ChannelCap
      BY <3>2, ChannelAssumption
    <3>4. h' = [h EXCEPT ![c] = r]
      BY <2>2
    <3>5. HandlersOK'
      BY <3>1, <3>2, <3>3, <3>4, OneHandler
    <3>6. QED
      BY <1>1, <3>5 DEF Leave, RegStep
  <2>3. QED
    BY <1>1, <2>1, <2>2 DEF Leave
<1>2. CASE MarkTerminating(c)
  <2>1. Sid(c) \in Session
    BY <1>2, Working DEF MarkTerminating, Goto, At
  <2>2. RegStep
    BY <1>2, <2>1, SetStateStep DEF MarkTerminating, Requested
  <2>3. QED
    BY <1>2, <2>2, GotoOK DEF MarkTerminating, PC
<1>3. CASE RemoveSession(c)
  <2>1. Sid(c) \in Session
    BY <1>3, Working DEF RemoveSession, Goto, At
  <2>2. RegStep
    BY <1>3, <2>1, RemoveStep DEF RemoveSession
  <2>3. QED
    BY <1>3, <2>2, GotoOK DEF RemoveSession, PC
<1>4. CASE RecordClosed(c)
  BY <1>4, ReturnOK DEF RecordClosed, RegStep
<1>5. QED
  BY <1>1, <1>2, <1>3, <1>4

(* The handshakes: a handler gets its session. *)
LEMMA StartStep ==
    ASSUME LocalInv, NEW c \in Conn, NEW s \in Session, Start(c, s)
    PROVE  HandlersOK' /\ RegStep
<1> USE DEF LocalInv
<1>1. CASE Return(c, "idle")
  BY <1>1, ReturnOK DEF Start, Spawned, RegStep
<1>2. CASE h' = [h EXCEPT ![c].pc = "spawned", ![c].sid = s]
  <2> DEFINE r == [h[c] EXCEPT !.pc = "spawned", !.sid = s]
  <2>1. h[c] \in Handler /\ Len(h[c].inbox) <= ChannelCap
    BY DEF HandlersOK
  <2>2. r \in Handler /\ r.pc = "spawned" /\ r.sid = s /\ r.inbox = h[c].inbox
    BY <2>1 DEF Handler, PC
  <2>3. h' = [h EXCEPT ![c] = r]
    BY <1>2
  <2>4. HandlersOK'
    BY <2>1, <2>2, <2>3, OneHandler
  <2>5. QED
    BY <2>4 DEF Start, Spawned, RegStep
<1>3. QED
  BY <1>1, <1>2 DEF Start, Spawned

LEMMA ReattachSteps ==
    ASSUME LocalInv, NEW c \in Conn, NEW s \in Session, NEW t \in Token,
           ReattachOk(c, s, t) \/ ReattachRefused(c, s, t)
    PROVE  HandlersOK' /\ RegStep
<1> USE DEF LocalInv
<1>1. h[c] \in Handler /\ Len(h[c].inbox) <= ChannelCap
  BY DEF HandlersOK
<1>2. CASE ReattachOk(c, s, t)
  <2>1. RegStep
    BY <1>2, ActorAssumption DEF ReattachOk, RegStep, Next
  <2>2. TypeOK'
    BY <2>1, TypeNext DEF RegStep, LocalTypeOK
  <2>3. sessions'[s].token \in Token
    <3>1. s \in Live'
      BY <1>2, ReattachKeepsLive, ActorAssumption DEF ReattachOk, LocalTypeOK
    <3>2. QED
      BY <3>1, <2>2 DEF Live, Present, TypeOK, Tracked
  <2> DEFINE r == [h[c] EXCEPT !.pc = "replaying", !.sid = s, !.grant = sessions'[s].token]
  <2>4. r \in Handler /\ r.sid = s /\ r.inbox = h[c].inbox /\ r.grant \in Token
    BY <1>1, <2>3 DEF Handler, PC, Listening
  <2>5. h' = [h EXCEPT ![c] = r]
    BY <1>2 DEF ReattachOk
  <2>6. HandlersOK'
    BY <1>1, <2>4, <2>5, OneHandler
  <2>7. QED
    BY <2>1, <2>6
<1>3. CASE ReattachRefused(c, s, t)
  BY <1>3, ReturnOK DEF ReattachRefused, RegStep
<1>4. QED
  BY <1>2, <1>3

(* The reader, the route, the worker and the environment. *)
LEMMA SessionSteps ==
    ASSUME LocalInv, NEW s \in Session,
           \/ ReaderOutput(s) \/ ReaderStep(s) \/ ShellExits(s) \/ Clock(s)
           \/ HttpTerminate(s) \/ HttpRecord(s) \/ WorkerNotify(s)
    PROVE  HandlersOK' /\ RegStep
<1> USE DEF LocalInv
<1>1. CASE ReaderOutput(s)
  BY <1>1, BroadcastOK DEF ReaderOutput, RegStep, Message
<1>2. CASE ReaderEof(s) \/ ShellExits(s) \/ HttpRecord(s)
  BY <1>2 DEF ReaderEof, ShellExits, HttpRecord, HandlersOK, RegStep
<1>3. CASE ReaderError(s) \/ ReaderExit(s) \/ WorkerNotify(s)
  <2>1. \E m \in Message : Broadcast(s, m)
    BY <1>3 DEF ReaderError, ReaderExit, WorkerNotify, Message
  <2>2. QED
    BY <1>3, <2>1, BroadcastOK DEF ReaderError, ReaderExit, WorkerNotify, RegStep
<1>4. CASE Clock(s)
  BY <1>4 DEF Clock, HandlersOK, RegStep, Next
<1>5. CASE HttpTerminate(s)
  BY <1>5 DEF HttpTerminate, HandlersOK, RegStep, Next
<1>6. QED
  BY <1>1, <1>2, <1>3, <1>4, <1>5 DEF ReaderStep

LEMMA WorkerStep ==
    ASSUME LocalInv, WorkerDrain
    PROVE  HandlersOK' /\ RegStep
  BY DEF LocalInv, WorkerDrain, HandlersOK, RegStep, Next

LEMMA LeavesStep ==
    ASSUME LocalInv, NEW c \in Conn, BrowserLeaves(c)
    PROVE  HandlersOK' /\ RegStep
<1> DEFINE r == [h[c] EXCEPT !.gone = TRUE]
<1>1. /\ h[c] \in Handler /\ h[c].sid \in Session /\ Len(h[c].inbox) <= ChannelCap
      /\ h[c].pc = "replaying" => h[c].grant \in Token
  BY DEF LocalInv, HandlersOK, BrowserLeaves
<1>2. /\ r \in Handler /\ r.sid = h[c].sid /\ r.inbox = h[c].inbox
      /\ r.pc = h[c].pc /\ r.grant = h[c].grant
  BY <1>1 DEF Handler
<1>3. h' = [h EXCEPT ![c] = r]
  BY DEF BrowserLeaves
<1>4. QED
  BY <1>1, <1>2, <1>3, OneHandler DEF LocalInv, BrowserLeaves, RegStep

LEMMA LocalStep == LocalInv /\ [LocalNext]_vars => HandlersOK' /\ RegStep
<1> SUFFICES ASSUME LocalInv, [LocalNext]_vars PROVE HandlersOK' /\ RegStep
  OBVIOUS
<1>1. CASE UNCHANGED vars
  BY <1>1 DEF LocalInv, HandlersOK, vars, RegStep
<1>2. ASSUME NEW c \in Conn, HandlerStep(c) \/ RecvFrame(c) \/ BrowserLeaves(c)
      PROVE  HandlersOK' /\ RegStep
  <2>1. CASE HandlerStep(c)
    BY <2>1, OpeningSteps, LoopSteps, FrameSteps, EndingSteps DEF HandlerStep
  <2>2. QED
    BY <1>2, <2>1, LoopSteps, LeavesStep
<1>3. ASSUME NEW c \in Conn, NEW s \in Session, Start(c, s)
      PROVE  HandlersOK' /\ RegStep
  BY <1>3, StartStep
<1>4. ASSUME NEW c \in Conn, NEW s \in Session, NEW t \in Token,
             ReattachOk(c, s, t) \/ ReattachRefused(c, s, t)
      PROVE  HandlersOK' /\ RegStep
  BY <1>4, ReattachSteps
<1>5. ASSUME NEW s \in Session,
             \/ ReaderOutput(s) \/ ReaderStep(s) \/ ShellExits(s) \/ Clock(s)
             \/ HttpTerminate(s) \/ HttpRecord(s) \/ WorkerNotify(s)
      PROVE  HandlersOK' /\ RegStep
  BY <1>5, SessionSteps
<1>6. QED
  BY <1>1, <1>2, <1>3, <1>4, <1>5, WorkerStep DEF LocalNext

-----------------------------------------------------------------------------
(* The variables besides the handlers and the registry. *)
OtherTypes ==
    /\ known \in SUBSET Token
    /\ child \in [Session -> {"none", "running", "exited", "reaped"}]
    /\ reader \in [Session -> {"none", "reading", "waiting", "done"}]
    /\ owed \in [Session -> {"none", "http", "worker"}]
    /\ audit \in [Session -> SUBSET {"opened", "ended"}]

LEMMA CloseType ==
    ASSUME OtherTypes, NEW S, Close(S)
    PROVE  child' \in [Session -> {"none", "running", "exited", "reaped"}]
  BY DEF OtherTypes, Close

LEMMA RecordType ==
    ASSUME OtherTypes, NEW s, NEW kind \in {"opened", "ended"}, Record(s, kind)
    PROVE  audit' \in [Session -> SUBSET {"opened", "ended"}]
  BY DEF OtherTypes, Record

LEMMA OtherTypesNext == LocalInv /\ [LocalNext]_vars => OtherTypes'
<1> SUFFICES ASSUME LocalInv, [LocalNext]_vars PROVE OtherTypes'
  OBVIOUS
<1>0. OtherTypes
  BY DEF LocalInv, LocalTypeOK, OtherTypes
<1>1. CASE UNCHANGED vars
  BY <1>0, <1>1 DEF OtherTypes, vars, ptyVars, auditVars
<1>2. ASSUME NEW c \in Conn, HandlerStep(c) PROVE OtherTypes'
  <2>1. Present(Sid(c)) /\ Sid(c) \in Session => sessions[Sid(c)].token \in Token
    BY DEF LocalInv, LocalTypeOK, TypeOK, Present, Tracked
  <2>2. h[c] \in Handler
    BY DEF LocalInv, HandlersOK
  <2>3. CASE InsertOk(c) \/ InsertRefused(c) \/ StartedFails(c) \/ Activate(c)
    BY <1>0, <2>3, CloseType, RecordType
       DEF InsertOk, InsertRefused, StartedFails, Activate, OtherTypes, ptyVars, auditVars
  <2>4. CASE SendStarted(c) \/ Resume(c)
    <3>1. Sid(c) \in Session
      BY <2>4, Working DEF LocalInv, SendStarted, Resume, Goto, At
    <3>2. QED
      BY <1>0, <2>1, <2>4, <3>1 DEF SendStarted, Resume, OtherTypes, ptyVars, auditVars
  <2>5. CASE Subscribe(c)
    BY <1>0, <2>5 DEF Subscribe, OtherTypes, auditVars
  <2>6. CASE FinishReattach(c)
    <3>1. h[c].grant \in Token
      BY <2>6 DEF FinishReattach, At, LocalInv, HandlersOK
    <3>2. QED
      BY <1>0, <2>6, <3>1 DEF FinishReattach, OtherTypes, ptyVars, auditVars
  <2>7. CASE RecvOutput(c) \/ RecordClosed(c)
    BY <1>0, <2>7 DEF RecvOutput, RecordClosed, OtherTypes, ptyVars
  <2>8. CASE \/ RecvClosed(c) \/ RecvGone(c) \/ Tick(c) \/ Expire(c)
             \/ RelayExit(c) \/ RelaySent(c) \/ RelayFails(c)
    BY <1>0, <2>8 DEF RecvClosed, RecvGone, Tick, Expire, RelayExit, RelaySent,
                      RelayFails, OtherTypes, ptyVars, auditVars
  <2>9. CASE \/ OtherFrame(c) \/ TerminateFrame(c) \/ ClosePty(c) \/ DetachFrame(c)
             \/ ReattachFrame(c)
    BY <1>0, <2>9, CloseType, RecordType
       DEF OtherFrame, TerminateFrame, ClosePty, DetachFrame, ReattachFrame,
           OtherTypes, ptyVars, auditVars
  <2>10. CASE Leave(c) \/ MarkTerminating(c) \/ RemoveSession(c)
    BY <1>0, <2>10, CloseType
       DEF Leave, MarkTerminating, RemoveSession, OtherTypes, ptyVars, auditVars
  <2>11. QED
    BY <1>2, <2>3, <2>4, <2>5, <2>6, <2>7, <2>8, <2>9, <2>10 DEF HandlerStep
<1>3. ASSUME NEW c \in Conn, RecvFrame(c) \/ BrowserLeaves(c) PROVE OtherTypes'
  BY <1>0, <1>3 DEF RecvFrame, BrowserLeaves, OtherTypes, ptyVars, auditVars
<1>4. ASSUME NEW c \in Conn, NEW s \in Session, NEW t,
             Start(c, s) \/ ReattachOk(c, s, t) \/ ReattachRefused(c, s, t)
      PROVE  OtherTypes'
  BY <1>0, <1>4 DEF Start, Spawned, ReattachOk, ReattachRefused, OtherTypes, ptyVars, auditVars
<1>5. ASSUME NEW s \in Session,
             ReaderOutput(s) \/ ReaderStep(s) \/ ShellExits(s) \/ Clock(s)
      PROVE  OtherTypes'
  BY <1>0, <1>5 DEF ReaderOutput, ReaderStep, ReaderEof, ReaderError, ReaderExit,
                    ShellExits, Clock, OtherTypes, ptyVars, auditVars
<1>6. ASSUME NEW s \in Session, HttpTerminate(s) \/ HttpRecord(s) \/ WorkerNotify(s)
      PROVE  OtherTypes'
  BY <1>0, <1>6, CloseType, RecordType
     DEF HttpTerminate, HttpRecord, WorkerNotify, OtherTypes, ptyVars
<1>7. CASE WorkerDrain
  BY <1>0, <1>7, CloseType DEF WorkerDrain, OtherTypes
<1>8. QED
  BY <1>1, <1>2, <1>3, <1>4, <1>5, <1>6, <1>7 DEF LocalNext

LEMMA LocalInvInit == LocalInit => LocalInv
<1> SUFFICES ASSUME LocalInit PROVE LocalInv
  OBVIOUS
<1>1. TypeOK
  BY TypeInit DEF LocalInit
<1>2. \A c \in Conn : h[c] = Fresh("idle")
  BY DEF LocalInit
<1>3. HandlersOK
  <2>1. h \in [Conn -> Handler]
    BY FreshOK DEF LocalInit
  <2>2. QED
    BY <1>2, <2>1, FreshOK, ChannelAssumption DEF HandlersOK
<1>4. QED
  BY <1>1, <1>3 DEF LocalInv, LocalTypeOK, LocalInit, HandlersOK

LEMMA LocalInvNext == LocalInv /\ [LocalNext]_vars => LocalInv'
<1> SUFFICES ASSUME LocalInv, [LocalNext]_vars PROVE LocalInv'
  OBVIOUS
<1>1. HandlersOK' /\ RegStep
  BY LocalStep
<1>2. TypeOK'
  BY <1>1, TypeNext DEF RegStep, LocalInv, LocalTypeOK
<1>3. OtherTypes'
  BY OtherTypesNext
<1>4. QED
  BY <1>1, <1>2, <1>3 DEF LocalInv, LocalTypeOK, HandlersOK, OtherTypes

(* Type correctness of the handlers, readers, route and worker together: no     *)
(* inbox outgrows the channel, no handler loses its session.                    *)
THEOREM LocalTypeCorrect == LocalSpec => []LocalTypeOK
<1>1. LocalInv => LocalTypeOK
  BY DEF LocalInv
<1>2. QED
  BY <1>1, LocalInvInit, LocalInvNext, PTL DEF LocalSpec

(* However handlers, readers, the terminate route and the worker interleave,    *)
(* what the registry sees is a sequence of its own calls: LocalTerminal         *)
(* implements SessionRegistry.                                                  *)
THEOREM LocalUsesRegistry == LocalSpec => Spec
<1>1. LocalInit => RegInit
  BY DEF LocalInit
<1>2. LocalInv /\ [LocalNext]_vars => [Next]_regVars
  BY LocalStep DEF RegStep
<1>3. QED
  BY <1>1, <1>2, LocalInvInit, LocalInvNext, PTL DEF LocalSpec, Spec

(* So the limits hold in the running system, with every handler at any point.   *)
THEOREM LocalLimits == LocalSpec => []LimitsHold
  BY LocalUsesRegistry, RegistryLimits, PTL

(* And a session that ended is not brought back by a handler, a reader or the   *)
(* worker that still works for it: the whole implements TerminalAccess.         *)
THEOREM LocalImplementsAccess == LocalSpec => ImplementsAccess
  BY LocalUsesRegistry, RegistryImplementsAccess, PTL

-----------------------------------------------------------------------------
(* No orphan: what a step must not lose. *)
EntriesKept == \A s \in Session : Present(s) => Present(s)'
SpawnedKept == \A c \in Conn : At(c, "spawned") => At(c, "spawned")' /\ Sid(c)' = Sid(c)
NoNewShell  == \A s \in Session : child'[s] = "running" => child[s] = "running"

LEMMA OrphanKept ==
    ASSUME NoOrphanShell, NoNewShell, SpawnedKept,
           \A s \in Session : child'[s] = "running" /\ Present(s) => Present(s)'
    PROVE  NoOrphanShell'
  BY DEF NoOrphanShell, NoNewShell, SpawnedKept, At, Sid

(* close leaves no shell running: with the child lock free, either the handle  *)
(* is there to kill or the shell has been reaped.                              *)
LEMMA CloseStops ==
    ASSUME LocalInv, NEW S, Close(S)
    PROVE  NoNewShell /\ \A s \in S \cap Session : child'[s] # "running"
  BY DEF Close, CanClose, NoNewShell, LocalInv, LocalTypeOK

LEMMA SetStateKeepsEntries ==
    ASSUME LocalInv, NEW s \in Session, NEW st \in Requested, SetState(s, st)
    PROVE  EntriesKept
<1>1. CASE Present(s) /\ CanTransition(StateOf(s), st)
  <2>1. [sessions[s] EXCEPT !.state = st] \in Tracked
    BY <1>1 DEF LocalInv, LocalTypeOK, TypeOK, Present, Tracked, Requested, TerminalSessionState
  <2>2. sessions' = [sessions EXCEPT ![s] = [sessions[s] EXCEPT !.state = st]]
    BY <1>1 DEF SetState, AfterSetState
  <2>3. QED
    BY <2>1, <2>2, AbsentAssumption DEF EntriesKept, Present, LocalInv, LocalTypeOK, TypeOK
<1>2. CASE ~(Present(s) /\ CanTransition(StateOf(s), st))
  BY <1>2 DEF SetState, AfterSetState, EntriesKept, Present
<1>3. QED
  BY <1>1, <1>2

LEMMA FlagKeepsEntries ==
    ASSUME LocalInv, NEW s \in Session, Touch(s) \/ Idle(s) \/ Age(s)
    PROVE  EntriesKept
<1>1. Present(s) /\ sessions[s] \in Tracked
  BY DEF LocalInv, LocalTypeOK, TypeOK, Touch, Idle, Age, Present
<1>2. PICK e \in {[sessions[s] EXCEPT !.idle = FALSE], [sessions[s] EXCEPT !.idle = TRUE],
                  [sessions[s] EXCEPT !.old = TRUE]} :
        sessions' = [sessions EXCEPT ![s] = e]
  BY DEF Touch, Idle, Age
<1>3. e \in Tracked
  BY <1>1, <1>2 DEF Tracked
<1>4. QED
  BY <1>1, <1>2, <1>3, AbsentAssumption
     DEF EntriesKept, Present, LocalInv, LocalTypeOK, TypeOK

LEMMA ReattachKeepsEntries ==
    ASSUME LocalInv, NEW s \in Session, NEW t \in Token, Reattach(s, t, Actor)
    PROVE  EntriesKept
<1>1. s \in Live'
  BY ReattachKeepsLive, ActorAssumption DEF LocalInv, LocalTypeOK
<1>2. \A r \in Session \ {s} : sessions'[r] = sessions[r]
  BY DEF Reattach, LocalInv, LocalTypeOK, TypeOK
<1>3. QED
  BY <1>1, <1>2 DEF EntriesKept, Live, Present

(* Moves of a handler that is not waiting to insert its session leave the      *)
(* waiting ones alone.                                                         *)
LEMMA OtherMoves ==
    ASSUME LocalInv, NEW c \in Conn, ~At(c, "spawned"), NEW r, h' = [h EXCEPT ![c] = r]
    PROVE  SpawnedKept
  BY DEF SpawnedKept, At, Sid, LocalInv, HandlersOK

LEMMA BroadcastMoves ==
    ASSUME LocalInv, NEW s, NEW m, Broadcast(s, m)
    PROVE  SpawnedKept
<1>1. ASSUME NEW c \in Conn, At(c, "spawned") PROVE h'[c] = h[c]
  BY <1>1 DEF Broadcast, At, Listening, InLoop
<1>2. QED
  BY <1>1 DEF SpawnedKept, At, Sid

LEMMA HandlerKeeps ==
    ASSUME LocalInv, NoOrphanShell, NEW c \in Conn,
           \/ SendStarted(c) \/ Activate(c) \/ Subscribe(c) \/ FinishReattach(c)
           \/ RecvOutput(c) \/ RecvClosed(c) \/ RecvGone(c) \/ Tick(c) \/ Expire(c)
           \/ RelayExit(c) \/ RelaySent(c) \/ RelayFails(c) \/ RecvFrame(c)
           \/ OtherFrame(c) \/ TerminateFrame(c) \/ DetachFrame(c)
           \/ ReattachFrame(c) \/ Resume(c)
           \/ Leave(c) \/ MarkTerminating(c) \/ RecordClosed(c)
    PROVE  NoOrphanShell'
<1>1. ~At(c, "spawned") /\ ~At(c, "idle") /\ ~At(c, "done")
  BY DEF SendStarted, Activate, Subscribe, FinishReattach, RecvOutput, RecvClosed, RecvGone,
         Tick, Expire, RelayExit, RelaySent, RelayFails, RecvFrame, OtherFrame, TerminateFrame,
         DetachFrame, ReattachFrame, Resume, Leave, MarkTerminating, RecordClosed,
         Goto, Part, Return, At
<1>2. \E r : h' = [h EXCEPT ![c] = r]
  BY DEF SendStarted, Activate, Subscribe, FinishReattach, RecvOutput, RecvClosed, RecvGone,
         Tick, Expire, RelayExit, RelaySent, RelayFails, RecvFrame, OtherFrame, TerminateFrame,
         DetachFrame, ReattachFrame, Resume, Leave, MarkTerminating, RecordClosed,
         Goto, Part, Return
<1>3. SpawnedKept
  BY <1>1, <1>2, OtherMoves
<1>4. Sid(c) \in Session
  BY <1>1, Working DEF LocalInv, At
<1>5. child' = child
  BY DEF SendStarted, Activate, Subscribe, FinishReattach, RecvOutput, RecvClosed, RecvGone,
         Tick, Expire, RelayExit, RelaySent, RelayFails, RecvFrame, OtherFrame, TerminateFrame,
         DetachFrame, ReattachFrame, Resume, Leave, MarkTerminating, RecordClosed, ptyVars
<1>6. EntriesKept
  <2>1. CASE UNCHANGED regVars
    BY <2>1 DEF EntriesKept, Present, regVars
  <2>2. CASE Touch(Sid(c))
    BY <1>4, <2>2, FlagKeepsEntries
  <2>3. CASE \E st \in Requested : SetState(Sid(c), st)
    BY <1>4, <2>3, SetStateKeepsEntries
  <2>4. QED
    BY <2>1, <2>2, <2>3
       DEF SendStarted, Activate, Subscribe, FinishReattach, RecvOutput, RecvClosed, RecvGone,
           Tick, Expire, RelayExit, RelaySent, RelayFails, RecvFrame, OtherFrame,
           TerminateFrame, DetachFrame, ReattachFrame, Resume, Leave, MarkTerminating,
           RecordClosed, TouchIfPresent, Requested
<1>7. QED
  BY <1>3, <1>5, <1>6, OrphanKept DEF NoNewShell, EntriesKept

LEMMA InsertKeepsEntries ==
    ASSUME LocalInv, NEW s \in Session, Insert(s, Actor)
    PROVE  EntriesKept /\ Present(s)'
<1>1. PICK t \in Token : sessions' = [sessions EXCEPT ![s] =
              [state |-> "Starting", owner |-> Actor, node |-> NoNode, backend |-> "Local",
               token |-> t, idle |-> FALSE, old |-> FALSE]]
  BY DEF Insert, InsertBackend
<1> DEFINE e == [state |-> "Starting", owner |-> Actor, node |-> NoNode, backend |-> "Local",
                 token |-> t, idle |-> FALSE, old |-> FALSE]
<1>2. e \in Tracked
  BY ActorAssumption DEF Tracked, TerminalSessionState
<1>3. sessions' = [sessions EXCEPT ![s] = e]
  BY <1>1
<1>4. e # Absent
  BY <1>2, AbsentAssumption
<1> HIDE DEF e
<1>5. QED
  BY <1>3, <1>4 DEF EntriesKept, Present, LocalInv, LocalTypeOK, TypeOK

LEMMA RemoveTrackedKeeps ==
    ASSUME LocalInv, NEW S, RemoveTracked(S)
    PROVE  \A r \in Session \ S : Present(r) => Present(r)'
  BY DEF RemoveTracked, Present

(* The steps of a handler that start, admit or close a shell.                  *)
LEMMA HandlerCloses ==
    ASSUME LocalInv, NoOrphanShell, NEW c \in Conn,
           \/ InsertOk(c) \/ InsertRefused(c) \/ StartedFails(c)
           \/ ClosePty(c) \/ RemoveSession(c)
    PROVE  NoOrphanShell'
<1>0. PICK own : own = Sid(c)
  OBVIOUS
<1>1. /\ own \in Session
      /\ \A d \in Conn \ {c} : h'[d] = h[d]
  <2>1. h[c].pc \notin {"idle", "done"}
    BY DEF InsertOk, InsertRefused, StartedFails, ClosePty, RemoveSession, Goto, Return, At
  <2>2. QED
    BY <1>0, <2>1, Working DEF LocalInv, HandlersOK, InsertOk, InsertRefused, StartedFails,
       ClosePty, RemoveSession, Goto, Return
<1>2. \A d \in Conn \ {c} : h[d].pc = "spawned" => h'[d].pc = "spawned" /\ h'[d].sid = h[d].sid
  BY <1>1
<1>3. CASE InsertOk(c)
  <2>1. EntriesKept /\ Present(own)'
    BY <1>0, <1>1, <1>3, InsertKeepsEntries DEF InsertOk
  <2>2. child' = child
    BY <1>3 DEF InsertOk, ptyVars
  <2>3. ASSUME NEW s \in Session, child'[s] = "running"
        PROVE  Present(s)' \/ \E d \in Conn : Sid(d)' = s /\ h'[d].pc = "spawned"
    <3>1. CASE Present(s)
      BY <2>1, <3>1 DEF EntriesKept
    <3>2. CASE s = own
      BY <2>1, <3>2
    <3>3. CASE ~Present(s) /\ s # own
      <4>1. PICK d \in Conn : Sid(d) = s /\ h[d].pc = "spawned"
        BY <2>2, <2>3, <3>3 DEF NoOrphanShell
      <4>2. d # c
        BY <1>0, <3>3, <4>1
      <4>3. QED
        BY <1>2, <4>1, <4>2 DEF Sid
    <3>4. QED
      BY <3>1, <3>2, <3>3
  <2>4. QED
    BY <2>3 DEF NoOrphanShell
<1>4. CASE \/ InsertRefused(c) \/ StartedFails(c) \/ ClosePty(c) \/ RemoveSession(c)
  <2>1. /\ NoNewShell
        /\ \A r \in Session : child'[r] = "running" /\ Present(r) => Present(r)'
    <3>1. CASE InsertRefused(c) \/ StartedFails(c) \/ ClosePty(c)
      BY <1>0, <1>1, <1>4, <3>1, CloseStops
         DEF InsertRefused, StartedFails, ClosePty, regVars, Present
    <3>2. CASE RemoveSession(c) /\ Present(Sid(c))
      BY <1>0, <1>1, <3>2, CloseStops, RemoveTrackedKeeps DEF RemoveSession, RemoveIfPresent, Remove
    <3>3. CASE RemoveSession(c) /\ ~Present(Sid(c))
      BY <3>3 DEF RemoveSession, RemoveIfPresent, regVars, Present, NoNewShell
    <3>4. QED
      BY <1>4, <3>1, <3>2, <3>3
  <2>2. h[c].pc = "spawned" => child'[own] # "running"
    BY <1>0, <1>1, <1>4, CloseStops DEF InsertRefused, StartedFails, ClosePty, RemoveSession,
                                 Return, Goto, At
  <2>3. ASSUME NEW s \in Session, child'[s] = "running"
        PROVE  Present(s)' \/ \E d \in Conn : Sid(d)' = s /\ h'[d].pc = "spawned"
    <3>1. CASE Present(s)
      BY <2>1, <2>3, <3>1
    <3>2. CASE ~Present(s)
      <4>1. PICK d \in Conn : Sid(d) = s /\ h[d].pc = "spawned"
        BY <2>1, <2>3, <3>2 DEF NoOrphanShell, NoNewShell
      <4>2. d # c
        BY <1>0, <2>2, <2>3, <4>1 DEF Sid
      <4>3. QED
        BY <1>2, <4>1, <4>2 DEF Sid
    <3>3. QED
      BY <3>1, <3>2
  <2>4. QED
    BY <2>3 DEF NoOrphanShell
<1>5. QED
  BY <1>3, <1>4

(* The first message of a WebSocket: a new shell has its handler, a reattach   *)
(* changes an entry in place.                                                  *)
LEMMA FirstMessage ==
    ASSUME LocalInv, NoOrphanShell, NEW c \in Conn, NEW s \in Session, NEW t,
           \/ Start(c, s)
           \/ t \in Token /\ (ReattachOk(c, s, t) \/ ReattachRefused(c, s, t))
    PROVE  NoOrphanShell'
<1>1. At(c, "idle")
  BY DEF Start, Spawned, Return, ReattachOk, ReattachRefused
<1>2. \E r : h' = [h EXCEPT ![c] = r]
  BY DEF Start, Spawned, Return, ReattachOk, ReattachRefused
<1>3. SpawnedKept
  BY <1>1, <1>2, OtherMoves DEF At
<1>4. CASE Start(c, s) /\ child' = [child EXCEPT ![s] = "running"]
              /\ h' = [h EXCEPT ![c].pc = "spawned", ![c].sid = s]
  <2>1. h'[c].pc = "spawned" /\ h'[c].sid = s
    BY <1>4 DEF LocalInv, HandlersOK, Handler
  <2>2. ASSUME NEW r \in Session, child'[r] = "running"
        PROVE  Present(r)' \/ \E d \in Conn : Sid(d)' = r /\ h'[d].pc = "spawned"
    <3>1. CASE r = s
      BY <2>1, <3>1 DEF Sid
    <3>2. CASE r # s
      <4>1. child[r] = "running"
        BY <1>4, <2>2, <3>2 DEF LocalInv, LocalTypeOK
      <4>2. Present(r)' = Present(r)
        BY <1>4 DEF Start, Spawned, regVars, Present
      <4>3. QED
        BY <1>3, <4>1, <4>2 DEF NoOrphanShell, SpawnedKept, At, Sid
    <3>3. QED
      BY <3>1, <3>2
  <2>3. QED
    BY <2>2 DEF NoOrphanShell
<1>5. CASE child' = child
  <2>1. EntriesKept
    BY ReattachKeepsEntries
       DEF Start, Spawned, ReattachOk, ReattachRefused, EntriesKept, Present, regVars
  <2>2. QED
    BY <1>3, <1>5, <2>1, OrphanKept DEF NoNewShell, EntriesKept
<1>6. QED
  BY <1>4, <1>5 DEF Start, Spawned, ReattachOk, ReattachRefused, ptyVars

(* The reader, the terminate route, the worker and the environment.            *)
LEMMA SessionKeeps ==
    ASSUME LocalInv, NoOrphanShell, NEW s \in Session,
           \/ ReaderOutput(s) \/ ReaderStep(s) \/ ShellExits(s) \/ Clock(s)
           \/ HttpTerminate(s) \/ HttpRecord(s) \/ WorkerNotify(s)
    PROVE  NoOrphanShell'
<1>1. SpawnedKept
  <2>1. CASE \E m : Broadcast(s, m)
    BY <2>1, BroadcastMoves
  <2>2. CASE h' = h
    BY <2>2 DEF SpawnedKept, At, Sid
  <2>3. QED
    BY <2>1, <2>2 DEF ReaderOutput, ReaderStep, ReaderEof, ReaderError, ReaderExit, ShellExits,
                      Clock, HttpTerminate, HttpRecord, WorkerNotify
<1>2. CASE HttpTerminate(s)
  <2>1. NoNewShell /\ child'[s] # "running"
    BY <1>2, CloseStops DEF HttpTerminate
  <2>2. \A r \in Session \ {s} : Present(r) => Present(r)'
    BY <1>2, RemoveTrackedKeeps DEF HttpTerminate, Terminate
  <2>3. QED
    BY <1>1, <2>1, <2>2, OrphanKept
<1>3. CASE ~HttpTerminate(s)
  <2>1. NoNewShell
    BY <1>3 DEF ReaderOutput, ReaderStep, ReaderEof, ReaderError, ReaderExit, ShellExits,
                Clock, HttpRecord, WorkerNotify, NoNewShell, ptyVars, LocalInv, LocalTypeOK
  <2>2. EntriesKept
    <3>1. CASE Clock(s)
      BY <3>1, FlagKeepsEntries DEF Clock
    <3>2. CASE UNCHANGED regVars
      BY <3>2 DEF EntriesKept, Present, regVars
    <3>3. QED
      BY <1>3, <3>1, <3>2 DEF ReaderOutput, ReaderStep, ReaderEof, ReaderError, ReaderExit,
                              ShellExits, HttpRecord, WorkerNotify
  <2>3. QED
    BY <1>1, <2>1, <2>2, OrphanKept DEF EntriesKept
<1>4. QED
  BY <1>2, <1>3

LEMMA WorkerKeeps ==
    ASSUME LocalInv, NoOrphanShell, WorkerDrain
    PROVE  NoOrphanShell'
<1>1. SpawnedKept
  BY DEF WorkerDrain, SpawnedKept, At, Sid
<1>2. NoNewShell /\ \A s \in Expired : child'[s] # "running"
  BY CloseStops DEF WorkerDrain, Expired
<1>3. \A s \in Session \ Expired : Present(s) => Present(s)'
  BY RemoveTrackedKeeps DEF WorkerDrain, DrainExpired
<1>4. QED
  BY <1>1, <1>2, <1>3, OrphanKept

LEMMA LeavesKeeps ==
    ASSUME LocalInv, NoOrphanShell, NEW c \in Conn, BrowserLeaves(c)
    PROVE  NoOrphanShell'
<1>1. h' = [h EXCEPT ![c] = [h[c] EXCEPT !.gone = TRUE]] /\ h[c] \in Handler
  BY DEF BrowserLeaves, LocalInv, HandlersOK
<1>2. [h[c] EXCEPT !.gone = TRUE].pc = h[c].pc /\ [h[c] EXCEPT !.gone = TRUE].sid = h[c].sid
  BY <1>1 DEF Handler
<1>3. SpawnedKept
  BY <1>1, <1>2 DEF SpawnedKept, At, Sid, LocalInv, HandlersOK
<1>4. EntriesKept /\ NoNewShell
  BY DEF BrowserLeaves, EntriesKept, NoNewShell, Present, regVars, ptyVars
<1>5. QED
  BY <1>3, <1>4, OrphanKept DEF EntriesKept

LEMMA OrphanNext == LocalInv /\ NoOrphanShell /\ [LocalNext]_vars => NoOrphanShell'
<1> SUFFICES ASSUME LocalInv, NoOrphanShell, [LocalNext]_vars PROVE NoOrphanShell'
  OBVIOUS
<1>1. CASE UNCHANGED vars
  BY <1>1 DEF vars, NoOrphanShell, ptyVars, regVars, Present, Sid
<1>2. ASSUME NEW c \in Conn, HandlerStep(c) \/ RecvFrame(c) \/ BrowserLeaves(c)
      PROVE  NoOrphanShell'
  BY <1>2, HandlerKeeps, HandlerCloses, LeavesKeeps DEF HandlerStep
<1>3. ASSUME NEW c \in Conn, NEW s \in Session, Start(c, s) PROVE NoOrphanShell'
  BY <1>3, FirstMessage
<1>4. ASSUME NEW c \in Conn, NEW s \in Session, NEW t \in Token,
             ReattachOk(c, s, t) \/ ReattachRefused(c, s, t)
      PROVE  NoOrphanShell'
  BY <1>4, FirstMessage
<1>5. ASSUME NEW s \in Session,
             \/ ReaderOutput(s) \/ ReaderStep(s) \/ ShellExits(s) \/ Clock(s)
             \/ HttpTerminate(s) \/ HttpRecord(s) \/ WorkerNotify(s)
      PROVE  NoOrphanShell'
  BY <1>5, SessionKeeps
<1>6. QED
  BY <1>1, <1>2, <1>3, <1>4, <1>5, WorkerKeeps DEF LocalNext

(* No interleaving of handlers, reader tasks, the terminate route, the worker   *)
(* and exiting shells leaves a running process that neither the registry nor a  *)
(* handler still answers for.                                                   *)
THEOREM NoOrphan == LocalSpec => []NoOrphanShell
<1>1. LocalInit => LocalInv /\ NoOrphanShell
  BY LocalInvInit DEF LocalInit, NoOrphanShell
<1>2. (LocalInv /\ NoOrphanShell) /\ [LocalNext]_vars => (LocalInv /\ NoOrphanShell)'
  BY LocalInvNext, OrphanNext
<1>3. QED
  BY <1>1, <1>2, PTL DEF LocalSpec

(* A reconnect token admits one browser only, in the running system too: two    *)
(* browsers that hold the same token never both get the session.                *)
THEOREM LocalTokens == LocalSpec => []TokensSound
  BY LocalUsesRegistry, RegistryTokens, PTL

-----------------------------------------------------------------------------
(* The life of a session: who still answers for it, and how its end is told.   *)
Opening  == {"spawned", "inserted", "started"}
Busy(c)  == h[c].pc \notin {"idle", "done"}
Works(c) == Busy(c) /\ h[c].pc # "spawned"

(* An id is used once: its PTY, its first handler and its entry are never made  *)
(* again.                                                                       *)
IdsOK ==
    /\ \A s \in Session : Present(s) => s \in issued
    /\ \A s \in issued : child[s] # "none"
    /\ \A c \in Conn : Busy(c) => child[Sid(c)] # "none"
    /\ \A c \in Conn : Works(c) => Sid(c) \in issued
    /\ \A c \in Conn : At(c, "spawned") => Sid(c) \notin issued

(* Until it is active a session is its first handler's alone.                   *)
OpeningOK ==
    /\ \A c \in Conn : h[c].pc \in {"inserted", "started"} /\ Present(Sid(c)) =>
                         StateOf(Sid(c)) = "Starting"
    /\ \A c, d \in Conn : c # d /\ h[c].pc \in Opening /\ Busy(d) => Sid(c) # Sid(d)

AttachedOK ==
    \A s \in Session : InState(s, {"Active", "Reattaching"}) => \E c \in Conn : Works(c) /\ Sid(c) = s

(* Whoever removes an entry owes the record of its end, or has written it.      *)
EndedOK ==
    /\ \A s \in Session : "opened" \in audit[s] => s \in issued
    /\ \A c \in Conn : h[c].failed => Busy(c) /\ "ended" \in audit[Sid(c)]
    /\ \A c \in Conn : At(c, "recording") => ~Present(Sid(c))
    /\ \A s \in issued : \/ Present(s) \/ "ended" \in audit[s] \/ owed[s] # "none"
                          \/ \E c \in Conn : At(c, "recording") /\ Sid(c) = s

LifeInv == IdsOK /\ OpeningOK /\ AttachedOK /\ EndedOK

ChildKept == \A s \in Session : child[s] # "none" => child'[s] # "none"
AuditKept == \A s \in Session : /\ "ended" \in audit[s] => "ended" \in audit'[s]
                                /\ "opened" \in audit'[s] => "opened" \in audit[s] \/ s \in issued
EntriesLive == issued' = issued /\ \A s \in Session : Present(s)' = Present(s)
StateKept(s) == Present(s) => StateOf(s)' = StateOf(s)

\* A handler that works for a session goes on working for it.
LEMMA HandlerMoves ==
    ASSUME LocalInv, LifeInv, NEW c \in Conn, NEW r, h' = [h EXCEPT ![c] = r],
           r.sid = Sid(c), Works(c), r.pc \notin {"idle", "done", "spawned", "inserted", "recording"},
           r.pc = "started" => At(c, "inserted") /\ UNCHANGED sessions,
           EntriesLive, \A s \in Session \ {Sid(c)} : StateKept(s),
           ChildKept, AuditKept, owed' = owed, ~At(c, "recording"),
           r.failed => "ended" \in audit'[Sid(c)]
    PROVE  LifeInv'
<1>1. /\ Sid(c) \in Session /\ issued \subseteq Session
      /\ \A d \in Conn : h'[d] = IF d = c THEN r ELSE h[d]
      /\ \A d \in Conn : Busy(d) => Sid(d) \in Session
  BY DEF LocalInv, LocalTypeOK, TypeOK, HandlersOK, Works, Busy, Sid
<1>2. \A d \in Conn : /\ Sid(d)' = Sid(d) /\ (Works(d)' <=> Works(d)) /\ (Busy(d)' <=> Busy(d))
                      /\ (At(d, "spawned")' <=> At(d, "spawned"))
                      /\ (At(d, "recording")' <=> At(d, "recording"))
                      /\ h'[d].pc \in Opening => h[d].pc \in Opening
  BY <1>1 DEF Sid, Works, Busy, At, Opening
<1>3. IdsOK'
  BY <1>1, <1>2 DEF LifeInv, IdsOK, EntriesLive, ChildKept
<1>4. OpeningOK'
  <2>1. ASSUME NEW d \in Conn, h'[d].pc \in {"inserted", "started"}, Present(Sid(d))'
        PROVE  StateOf(Sid(d))' = "Starting"
    <3>1. CASE d = c
      BY <1>1, <1>2, <2>1, <3>1 DEF LifeInv, OpeningOK, EntriesLive, Present, StateOf, At
    <3>2. CASE d # c
      <4>1. h[d].pc \in {"inserted", "started"} /\ Sid(d) # Sid(c) /\ Sid(d) \in Session
        BY <1>1, <2>1, <3>2 DEF LifeInv, OpeningOK, Opening, Works, Busy
      <4>2. Present(Sid(d)) /\ StateKept(Sid(d))
        BY <1>1, <1>2, <2>1, <4>1 DEF EntriesLive
      <4>3. QED
        BY <1>2, <4>1, <4>2 DEF LifeInv, OpeningOK, StateKept
    <3>3. QED
      BY <3>1, <3>2
  <2>2. QED
    BY <1>2, <2>1 DEF LifeInv, OpeningOK
<1>5. AttachedOK'
  <2> SUFFICES ASSUME NEW s \in Session, InState(s, {"Active", "Reattaching"})'
               PROVE  \E d \in Conn : Works(d)' /\ Sid(d)' = s
    BY DEF AttachedOK
  <2>1. CASE s = Sid(c)
    BY <1>2, <2>1
  <2>2. CASE s # Sid(c)
    <3>1. InState(s, {"Active", "Reattaching"})
      BY <2>2 DEF InState, EntriesLive, StateKept
    <3>2. QED
      BY <1>2, <3>1 DEF LifeInv, AttachedOK
  <2>3. QED
    BY <2>1, <2>2
<1>6. EndedOK'
  <2>1. \A s \in Session : "opened" \in audit'[s] => s \in issued'
    BY DEF AuditKept, EntriesLive, LifeInv, EndedOK
  <2>2. ASSUME NEW d \in Conn, h'[d].failed PROVE Busy(d)' /\ "ended" \in audit'[Sid(d)']
    <3>1. CASE d = c
      BY <1>1, <1>2, <2>2, <3>1 DEF Works
    <3>2. CASE d # c
      BY <1>1, <1>2, <2>2, <3>2 DEF LifeInv, EndedOK, AuditKept
    <3>3. QED
      BY <3>1, <3>2
  <2>3. \A d \in Conn : At(d, "recording")' => ~Present(Sid(d))'
    <3> TAKE d \in Conn
    <3> HAVE At(d, "recording")'
    <3>1. At(d, "recording") /\ Busy(d) /\ Sid(d)' = Sid(d)
      BY <1>2 DEF At, Busy
    <3>2. ~Present(Sid(d)) /\ Sid(d) \in Session
      BY <1>1, <3>1 DEF LifeInv, EndedOK
    <3>3. QED
      BY <3>1, <3>2 DEF EntriesLive, Present
  <2>4. \A s \in issued' : \/ Present(s)' \/ "ended" \in audit'[s] \/ owed'[s] # "none"
                          \/ \E d \in Conn : At(d, "recording")' /\ Sid(d)' = s
    BY <1>1, <1>2 DEF LifeInv, EndedOK, EntriesLive, AuditKept
  <2>5. QED
    BY <2>1, <2>2, <2>3, <2>4 DEF EndedOK
<1>7. QED
  BY <1>3, <1>4, <1>5, <1>6 DEF LifeInv

\* A handler returns: nothing depends on it.
LEMMA HandlerReturns ==
    ASSUME LocalInv, LifeInv, NEW c \in Conn, h' = [h EXCEPT ![c] = Fresh("done")],
           UNCHANGED <<sessions, issued, owed>>, ChildKept, AuditKept,
           Works(c) => ~InState(Sid(c), {"Active", "Reattaching"}),
           At(c, "recording") => "ended" \in audit'[Sid(c)]
    PROVE  LifeInv'
<1>1. /\ \A d \in Conn \ {c} : h'[d] = h[d]
      /\ h'[c].pc = "done" /\ ~h'[c].failed
      /\ issued \subseteq Session
      /\ \A d \in Conn : Busy(d) => Sid(d) \in Session
  BY DEF Fresh, LocalInv, LocalTypeOK, TypeOK, HandlersOK, Busy, Sid
<1>2. /\ \A d \in Conn \ {c} : /\ Sid(d)' = Sid(d) /\ (Works(d)' <=> Works(d)) /\ (Busy(d)' <=> Busy(d))
                               /\ \A at : At(d, at)' <=> At(d, at)
      /\ ~Works(c)' /\ ~Busy(c)' /\ ~At(c, "spawned")' /\ ~At(c, "recording")'
      /\ h'[c].pc \notin Opening
  BY <1>1 DEF Sid, Works, Busy, At, Opening
<1>3. \A s : (Present(s)' <=> Present(s)) /\ StateOf(s)' = StateOf(s)
             /\ (InState(s, {"Active", "Reattaching"})' <=> InState(s, {"Active", "Reattaching"}))
  BY DEF Present, StateOf, InState
<1>4. IdsOK'
  BY <1>1, <1>2, <1>3 DEF LifeInv, IdsOK, ChildKept
<1>5. OpeningOK'
  BY <1>1, <1>2, <1>3 DEF LifeInv, OpeningOK, Opening
<1>6. AttachedOK'
  BY <1>2, <1>3 DEF LifeInv, AttachedOK
<1>7. EndedOK'
  <2>1. \A s \in Session : "opened" \in audit'[s] => s \in issued'
    BY DEF AuditKept, LifeInv, EndedOK
  <2>2. \A d \in Conn : h'[d].failed => Busy(d)' /\ "ended" \in audit'[Sid(d)']
    BY <1>1, <1>2 DEF LifeInv, EndedOK, AuditKept
  <2>3. \A d \in Conn : At(d, "recording")' => ~Present(Sid(d))'
    BY <1>2, <1>3 DEF LifeInv, EndedOK
  <2>4. ASSUME NEW s \in issued
        PROVE  \/ Present(s)' \/ "ended" \in audit'[s] \/ owed'[s] # "none"
               \/ \E d \in Conn : At(d, "recording")' /\ Sid(d)' = s
    <3>1. CASE At(c, "recording") /\ Sid(c) = s
      BY <3>1
    <3>2. CASE \E d \in Conn \ {c} : At(d, "recording") /\ Sid(d) = s
      BY <1>2, <3>2
    <3>3. CASE Present(s) \/ "ended" \in audit[s] \/ owed[s] # "none"
      BY <1>1, <1>3, <3>3 DEF AuditKept
    <3>4. QED
      BY <3>1, <3>2, <3>3 DEF LifeInv, EndedOK
  <2>5. QED
    BY <2>1, <2>2, <2>3, <2>4 DEF EndedOK
<1>8. QED
  BY <1>4, <1>5, <1>6, <1>7 DEF LifeInv

\* Whatever leaves every handler where it is, and every entry in its state or removed.
LEMMA HandlersStay ==
    ASSUME LocalInv, LifeInv,
           \A c \in Conn : h'[c].pc = h[c].pc /\ h'[c].sid = h[c].sid /\ (h'[c].failed <=> h[c].failed),
           issued' = issued, ChildKept, AuditKept,
           \A s \in Session : Present(s)' => Present(s) /\ StateOf(s)' = StateOf(s),
           \A s \in Session : Present(s) /\ ~Present(s)' => owed'[s] # "none",
           \A s \in Session : owed[s] # "none" => owed'[s] # "none" \/ "ended" \in audit'[s]
    PROVE  LifeInv'
<1>1. /\ issued \subseteq Session
      /\ \A d \in Conn : Busy(d) => Sid(d) \in Session
  BY DEF LocalInv, LocalTypeOK, TypeOK, HandlersOK, Busy, Sid
<1>2. \A d \in Conn : /\ Sid(d)' = Sid(d) /\ (Works(d)' <=> Works(d)) /\ (Busy(d)' <=> Busy(d))
                      /\ \A at : At(d, at)' <=> At(d, at)
  BY DEF Sid, Works, Busy, At
<1>3. \A s \in Session : InState(s, {"Active", "Reattaching"})' => InState(s, {"Active", "Reattaching"})
  BY DEF InState
<1>4. IdsOK'
  BY <1>1, <1>2 DEF LifeInv, IdsOK, ChildKept
<1>5. OpeningOK'
  <2>1. ASSUME NEW d \in Conn, h'[d].pc \in {"inserted", "started"}, Present(Sid(d))'
        PROVE  StateOf(Sid(d))' = "Starting"
    <3>1. h[d].pc \in {"inserted", "started"} /\ Sid(d)' = Sid(d) /\ Sid(d) \in Session
      BY <1>1, <1>2, <2>1 DEF Busy
    <3>2. Present(Sid(d))' = (Present(Sid(d)))' /\ sessions'[Sid(d)] # Absent
      BY <2>1, <3>1 DEF Present
    <3>3. QED
      BY <2>1, <3>1, <3>2 DEF LifeInv, OpeningOK, Present, StateOf
  <2>2. QED
    BY <1>2, <2>1 DEF LifeInv, OpeningOK
<1>6. AttachedOK'
  BY <1>2, <1>3 DEF LifeInv, AttachedOK
<1>7. EndedOK'
  <2>1. \A s \in Session : "opened" \in audit'[s] => s \in issued'
    BY DEF AuditKept, LifeInv, EndedOK
  <2>2. \A d \in Conn : h'[d].failed => Busy(d)' /\ "ended" \in audit'[Sid(d)']
    BY <1>1, <1>2 DEF LifeInv, EndedOK, AuditKept
  <2>3. \A d \in Conn : At(d, "recording")' => ~Present(Sid(d))'
    <3> TAKE d \in Conn
    <3> HAVE At(d, "recording")'
    <3>1. At(d, "recording") /\ Busy(d) /\ Sid(d)' = Sid(d)
      BY <1>2 DEF At, Busy
    <3>2. ~Present(Sid(d)) /\ Sid(d) \in Session
      BY <1>1, <3>1 DEF LifeInv, EndedOK
    <3>3. QED
      BY <3>1, <3>2 DEF Present
  <2>4. ASSUME NEW s \in issued
        PROVE  \/ Present(s)' \/ "ended" \in audit'[s] \/ owed'[s] # "none"
               \/ \E d \in Conn : At(d, "recording")' /\ Sid(d)' = s
    BY <1>1, <1>2 DEF LifeInv, EndedOK, AuditKept
  <2>5. QED
    BY <2>1, <2>2, <2>3, <2>4 DEF EndedOK
<1>8. QED
  BY <1>4, <1>5, <1>6, <1>7 DEF LifeInv

(* What the registry's calls leave of the entries.                              *)
LEMMA SetStateEffect ==
    ASSUME LocalInv, NEW s \in Session, NEW st \in Requested, SetState(s, st)
    PROVE  EntriesLive /\ \A r \in Session \ {s} : StateKept(r)
<1>1. CASE Present(s) /\ CanTransition(StateOf(s), st)
  <2>1. [sessions[s] EXCEPT !.state = st] \in Tracked
    BY <1>1 DEF LocalInv, LocalTypeOK, TypeOK, Present, Tracked, Requested, TerminalSessionState
  <2>2. sessions' = [sessions EXCEPT ![s] = [sessions[s] EXCEPT !.state = st]]
    BY <1>1 DEF SetState, AfterSetState
  <2>3. [sessions[s] EXCEPT !.state = st] # Absent
    BY <2>1, AbsentAssumption
  <2>4. \A r \in Session : /\ Present(r)' = Present(r)
                           /\ r # s => sessions'[r] = sessions[r]
    BY <1>1, <2>2, <2>3 DEF Present, LocalInv, LocalTypeOK, TypeOK
  <2>5. QED
    BY <2>4 DEF EntriesLive, StateKept, StateOf, SetState
<1>2. CASE ~(Present(s) /\ CanTransition(StateOf(s), st))
  BY <1>2 DEF SetState, AfterSetState, EntriesLive, StateKept, StateOf, Present
<1>3. QED
  BY <1>1, <1>2

LEMMA FlagEffect ==
    ASSUME LocalInv, NEW s \in Session, Touch(s) \/ Idle(s) \/ Age(s)
    PROVE  EntriesLive /\ \A r \in Session : StateKept(r)
<1>1. Present(s) /\ sessions[s] \in Tracked
  BY DEF LocalInv, LocalTypeOK, TypeOK, Touch, Idle, Age, Present
<1>2. PICK e \in {[sessions[s] EXCEPT !.idle = FALSE], [sessions[s] EXCEPT !.idle = TRUE],
                  [sessions[s] EXCEPT !.old = TRUE]} :
        sessions' = [sessions EXCEPT ![s] = e]
  BY DEF Touch, Idle, Age
<1>3. e \in Tracked /\ e.state = StateOf(s)
  BY <1>1, <1>2 DEF Tracked, StateOf
<1>4. \A r \in Session : Present(r)' = Present(r) /\ StateOf(r)' = StateOf(r)
  BY <1>1, <1>2, <1>3, AbsentAssumption DEF Present, StateOf, LocalInv, LocalTypeOK, TypeOK
<1>5. QED
  BY <1>4 DEF EntriesLive, StateKept, Touch, Idle, Age

LEMMA ReattachEffect ==
    ASSUME LocalInv, NEW s \in Session, NEW t \in Token, Reattach(s, t, Actor)
    PROVE  /\ EntriesLive /\ \A r \in Session \ {s} : StateKept(r)
           /\ InState(s, Reattachable)
<1>1. s \in Live'
  BY ReattachKeepsLive, ActorAssumption DEF LocalInv, LocalTypeOK
<1>2. \A r \in Session \ {s} : sessions'[r] = sessions[r]
  BY DEF Reattach, LocalInv, LocalTypeOK, TypeOK
<1>3. Present(s) /\ InState(s, Reattachable) /\ issued' = issued
  BY DEF Reattach, MayReattach, InState
<1>4. \A r \in Session : Present(r)' = Present(r)
  BY <1>1, <1>2, <1>3 DEF Live, Present
<1>5. QED
  BY <1>2, <1>3, <1>4 DEF EntriesLive, StateKept, StateOf

LEMMA RegistryEffect ==
    ASSUME LocalInv, NEW s \in Session,
           UNCHANGED regVars \/ TouchIfPresent(s) \/ \E st \in Requested : SetState(s, st)
    PROVE  EntriesLive /\ \A r \in Session \ {s} : StateKept(r)
<1>1. CASE UNCHANGED regVars
  BY <1>1 DEF regVars, EntriesLive, StateKept, StateOf, Present
<1>2. QED
  BY <1>1, SetStateEffect, FlagEffect DEF TouchIfPresent

LEMMA CloseEffect ==
    ASSUME LocalInv, NEW S, Close(S)
    PROVE  ChildKept
  BY DEF Close, ChildKept

\* An action of a handler in its loop, by where it leads.
LEMMA MoveEffect ==
    ASSUME LocalInv, LifeInv, NEW c \in Conn, NEW r, h' = [h EXCEPT ![c] = r],
           r.sid = Sid(c), r.failed => h[c].failed \/ "ended" \in audit'[Sid(c)], Works(c),
           r.pc \notin {"idle", "done", "spawned", "inserted", "recording"},
           r.pc = "started" => At(c, "inserted") /\ UNCHANGED sessions, ~At(c, "recording"),
           UNCHANGED regVars \/ TouchIfPresent(Sid(c)) \/ \E st \in Requested : SetState(Sid(c), st),
           ChildKept, owed' = owed,
           \/ audit' = audit
           \/ \E kind \in {"opened", "ended"} : Record(Sid(c), kind)
    PROVE  LifeInv'
<1>1. Sid(c) \in Session /\ Sid(c) \in issued /\ audit \in [Session -> SUBSET {"opened", "ended"}]
  BY DEF LocalInv, LocalTypeOK, HandlersOK, Works, Busy, Sid, LifeInv, IdsOK
<1>2. EntriesLive /\ \A s \in Session \ {Sid(c)} : StateKept(s)
  BY <1>1, RegistryEffect
<1>3. AuditKept
  BY <1>1 DEF AuditKept, Record
<1>4. r.failed => "ended" \in audit'[Sid(c)]
  BY <1>1, <1>3 DEF LifeInv, EndedOK, AuditKept
<1>5. QED
  BY <1>2, <1>3, <1>4, HandlerMoves

LEMMA GotoEffect ==
    ASSUME LocalInv, LifeInv, NEW c \in Conn, NEW from, NEW to, Goto(c, from, to),
           from \notin {"idle", "done", "spawned", "recording"},
           to \notin {"idle", "done", "spawned", "inserted", "recording"},
           to = "started" => from = "inserted" /\ UNCHANGED regVars,
           UNCHANGED regVars \/ TouchIfPresent(Sid(c)) \/ \E st \in Requested : SetState(Sid(c), st),
           ChildKept, owed' = owed,
           \/ audit' = audit
           \/ \E kind \in {"opened", "ended"} : Record(Sid(c), kind)
    PROVE  LifeInv'
<1> DEFINE r == [h[c] EXCEPT !.pc = to]
<1>1. h[c] \in Handler /\ h[c].pc = from /\ h' = [h EXCEPT ![c] = r]
  BY DEF LocalInv, HandlersOK, Goto, At
<1>2. r.pc = to /\ r.sid = Sid(c) /\ (r.failed <=> h[c].failed)
  BY <1>1 DEF Handler, Sid
<1>3. Works(c) /\ ~At(c, "recording")
  BY <1>1 DEF Works, Busy, At
<1>4. r.pc = "started" => At(c, "inserted") /\ UNCHANGED sessions
  BY <1>1, <1>2 DEF At, regVars
<1> HIDE DEF r
<1>5. QED
  BY <1>1, <1>2, <1>3, <1>4, MoveEffect

LEMMA PartEffect ==
    ASSUME LocalInv, LifeInv, NEW c \in Conn, NEW from, Part(c, from),
           from \notin {"idle", "done", "spawned", "recording"},
           SetState(Sid(c), "Detached"), UNCHANGED <<child, owed, audit>>
    PROVE  LifeInv'
<1> DEFINE r == [h[c] EXCEPT !.pc = "leaving", !.cur = NoMessage, !.parted = TRUE]
<1>1. h[c] \in Handler /\ h[c].pc = from /\ h' = [h EXCEPT ![c] = r]
  BY DEF LocalInv, HandlersOK, Part, At
<1>2. r.pc = "leaving" /\ r.sid = Sid(c) /\ (r.failed <=> h[c].failed)
  BY <1>1 DEF Handler, Sid
<1>3. Works(c) /\ ~At(c, "recording") /\ ChildKept /\ "Detached" \in Requested
  BY <1>1 DEF Works, Busy, At, ChildKept, Requested
<1> HIDE DEF r
<1>4. QED
  BY <1>1, <1>2, <1>3, MoveEffect

LEMMA LifeMoves ==
    ASSUME LocalInv, LifeInv, NEW c \in Conn,
           \/ SendStarted(c) \/ Activate(c) \/ Subscribe(c) \/ FinishReattach(c)
           \/ RecvOutput(c) \/ RecvClosed(c) \/ RecvGone(c) \/ Tick(c) \/ Expire(c)
           \/ RelayExit(c) \/ RelaySent(c) \/ RelayFails(c) \/ RecvFrame(c)
           \/ OtherFrame(c) \/ TerminateFrame(c) \/ ClosePty(c) \/ DetachFrame(c)
           \/ ReattachFrame(c) \/ Resume(c) \/ MarkTerminating(c)
    PROVE  LifeInv'
<1>1. h[c] \in Handler
  BY DEF LocalInv, HandlersOK
<1>2. /\ child' = child => ChildKept
      /\ {"Active", "Detached", "Reattaching", "Terminating", "Terminated"} \subseteq Requested
  BY DEF ChildKept, Requested
<1>3. CASE SendStarted(c) \/ Activate(c) \/ Subscribe(c)
  BY <1>2, <1>3, GotoEffect DEF SendStarted, Activate, Subscribe, ptyVars, auditVars
<1>4. CASE RecvClosed(c) \/ Tick(c) \/ Expire(c) \/ RelayExit(c) \/ RecvFrame(c)
  BY <1>2, <1>4, GotoEffect DEF RecvClosed, Tick, Expire, RelayExit, RecvFrame, ptyVars, auditVars
<1>5. CASE OtherFrame(c) \/ TerminateFrame(c) \/ ReattachFrame(c) \/ Resume(c) \/ MarkTerminating(c)
  BY <1>2, <1>5, GotoEffect
     DEF OtherFrame, TerminateFrame, ReattachFrame, Resume, MarkTerminating, ptyVars, auditVars
<1>6. CASE ClosePty(c)
  BY <1>6, CloseEffect, GotoEffect DEF ClosePty, auditVars
<1>7. CASE RecvGone(c) \/ RelayFails(c) \/ DetachFrame(c)
  BY <1>7, PartEffect DEF RecvGone, RelayFails, DetachFrame, ptyVars, auditVars
<1>8. CASE FinishReattach(c)
  <2> DEFINE r == [h[c] EXCEPT !.pc = "looping", !.grant = Absent]
  <2>1. /\ h[c].pc = "replaying" /\ h' = [h EXCEPT ![c] = r] /\ SetState(Sid(c), "Active")
        /\ UNCHANGED <<child, owed, audit>>
    BY <1>8 DEF FinishReattach, At, ptyVars, auditVars
  <2>2. r.pc = "looping" /\ r.sid = Sid(c) /\ (r.failed <=> h[c].failed)
    BY <1>1 DEF Handler, Sid
  <2>3. Works(c) /\ ~At(c, "recording")
    BY <2>1 DEF Works, Busy, At
  <2> HIDE DEF r
  <2>4. QED
    BY <1>2, <2>1, <2>2, <2>3, MoveEffect
<1>9. CASE RecvOutput(c)
  <2>0. PICK x : x = (h[c].failed \/ Head(h[c].inbox) = "error")
    OBVIOUS
  <2> DEFINE r == [h[c] EXCEPT !.pc = "relaying", !.cur = Head(h[c].inbox), !.inbox = Tail(h[c].inbox),
                               !.failed = x]
  <2>1. /\ h[c].pc = "looping" /\ h' = [h EXCEPT ![c] = r] /\ TouchIfPresent(Sid(c))
        /\ UNCHANGED <<child, owed>>
        /\ audit' = IF Head(h[c].inbox) = "error"
                    THEN [audit EXCEPT ![Sid(c)] = @ \cup {"ended"}] ELSE audit
    BY <1>9, <2>0 DEF RecvOutput, At, ptyVars
  <2>2. r.pc = "relaying" /\ r.sid = Sid(c) /\ (r.failed => h[c].failed \/ Head(h[c].inbox) = "error")
    <3>1. r.pc = "relaying" /\ r.sid = Sid(c) /\ r.failed = x
      BY <1>1 DEF Handler, Sid
    <3> HIDE DEF r
    <3>2. QED
      BY <2>0, <3>1
  <2>3. Works(c) /\ ~At(c, "recording") /\ Sid(c) \in Session
    BY <2>1 DEF Works, Busy, At, LocalInv, HandlersOK, Sid
  <2>4. /\ audit' = audit \/ \E kind \in {"opened", "ended"} : Record(Sid(c), kind)
        /\ Head(h[c].inbox) = "error" => "ended" \in audit'[Sid(c)]
    BY <2>1, <2>3 DEF Record, LocalInv, LocalTypeOK
  <2> HIDE DEF r
  <2>5. QED
    BY <1>2, <2>1, <2>2, <2>3, <2>4, MoveEffect
<1>10. CASE RelaySent(c)
  <2>1. PICK to \in {"looping", "leaving"} : h' = [h EXCEPT ![c].pc = to, ![c].cur = NoMessage]
    BY <1>10 DEF RelaySent
  <2> DEFINE r == [h[c] EXCEPT !.pc = to, !.cur = NoMessage]
  <2>2. r.pc = to /\ r.sid = Sid(c) /\ (r.failed <=> h[c].failed) /\ h' = [h EXCEPT ![c] = r]
    BY <1>1, <2>1 DEF Handler, Sid
  <2>3. Works(c) /\ ~At(c, "recording") /\ UNCHANGED <<child, owed, audit>> /\ UNCHANGED regVars
    BY <1>10 DEF RelaySent, Works, Busy, At, ptyVars, auditVars
  <2> HIDE DEF r
  <2>4. QED
    BY <1>2, <2>2, <2>3, MoveEffect
<1>11. QED
  BY <1>3, <1>4, <1>5, <1>6, <1>7, <1>8, <1>9, <1>10

LEMMA LifeReturns ==
    ASSUME LocalInv, LifeInv, NEW c \in Conn, NEW from, Return(c, from),
           \/ InsertRefused(c) \/ StartedFails(c) \/ Leave(c) \/ RecordClosed(c)
           \/ (from = "idle" /\ UNCHANGED <<regVars, child, auditVars>>)
    PROVE  LifeInv'
<1>1. h[c].pc = from /\ h' = [h EXCEPT ![c] = Fresh("done")]
  BY DEF Return, At
<1>2. /\ UNCHANGED <<sessions, issued, owed>> /\ ChildKept
      /\ \/ audit' = audit \/ Record(Sid(c), "ended")
         \/ At(c, "recording") /\ ~h[c].failed /\ Record(Sid(c), "ended")
  BY CloseEffect DEF InsertRefused, StartedFails, Leave, RecordClosed, regVars, auditVars, ptyVars,
                     ChildKept, Return, At, Record
<1>3. AuditKept
  BY <1>2 DEF AuditKept, Record, LocalInv, LocalTypeOK
<1>4. Works(c) => ~InState(Sid(c), {"Active", "Reattaching"})
  <2>1. CASE from \in {"idle", "spawned"}
    BY <1>1, <2>1 DEF Works, Busy
  <2>2. CASE from = "inserted"
    BY <1>1, <2>2 DEF LifeInv, OpeningOK, InState, StateOf
  <2>3. CASE from = "recording"
    BY <1>1, <2>3 DEF LifeInv, EndedOK, At, InState
  <2>4. CASE from = "leaving"
    <3>1. Leave(c)
      BY <1>1, <2>4 DEF InsertRefused, StartedFails, RecordClosed, Return, At
    <3>2. CASE InState(Sid(c), {"Detached"})
      BY <3>2 DEF InState
    <3>3. CASE ~InState(Sid(c), {"Detached"})
      <4>1. h' = [h EXCEPT ![c].pc = "closing", ![c].inbox = <<>>]
        BY <3>1, <3>3 DEF Leave
      <4>2. h'[c].pc = "closing" /\ h'[c].pc = "done"
        BY <1>1, <4>1 DEF Fresh, LocalInv, HandlersOK, Handler
      <4>3. QED
        BY <4>2
    <3>4. QED
      BY <3>2, <3>3
  <2>5. QED
    BY <1>1, <2>1, <2>2, <2>3, <2>4 DEF InsertRefused, StartedFails, Leave, RecordClosed, Return, At
<1>5. At(c, "recording") => "ended" \in audit'[Sid(c)]
  <2> HAVE At(c, "recording")
  <2>1. RecordClosed(c) /\ Sid(c) \in Session
    BY <1>1 DEF InsertRefused, StartedFails, Leave, Return, At, LocalInv, HandlersOK, Sid
  <2>2. CASE h[c].failed
    BY <2>1, <2>2 DEF RecordClosed, LifeInv, EndedOK
  <2>3. CASE ~h[c].failed
    BY <2>1, <2>3 DEF RecordClosed, LocalInv, LocalTypeOK
  <2>4. QED
    BY <2>2, <2>3
<1>6. QED
  BY <1>1, <1>2, <1>3, <1>4, <1>5, HandlerReturns

\* A handler that may not survive its session goes on to close it.
LEMMA LifeLeave ==
    ASSUME LocalInv, LifeInv, NEW c \in Conn, Leave(c)
    PROVE  LifeInv'
<1>1. CASE Return(c, "leaving")
  BY <1>1, LifeReturns
<1>2. CASE h' = [h EXCEPT ![c].pc = "closing", ![c].inbox = <<>>]
  <2> DEFINE r == [h[c] EXCEPT !.pc = "closing", !.inbox = <<>>]
  <2>1. h[c] \in Handler
    BY DEF LocalInv, HandlersOK
  <2>2. r.pc = "closing" /\ r.sid = Sid(c) /\ (r.failed <=> h[c].failed) /\ h' = [h EXCEPT ![c] = r]
    BY <1>2, <2>1 DEF Handler, Sid
  <2>3. /\ Works(c) /\ ~At(c, "recording") /\ UNCHANGED <<child, owed, audit>> /\ UNCHANGED regVars
        /\ ChildKept
    BY DEF Leave, Works, Busy, At, ptyVars, auditVars, ChildKept
  <2> HIDE DEF r
  <2>4. QED
    BY <2>2, <2>3, MoveEffect
<1>3. QED
  BY <1>1, <1>2 DEF Leave

\* A handler takes its session's entry out, or finds it gone.
LEMMA LifeRemoves ==
    ASSUME LocalInv, LifeInv, NEW c \in Conn, RemoveSession(c)
    PROVE  LifeInv'
<1> DEFINE r == [h[c] EXCEPT !.pc = "recording"]
           s == Sid(c)
<1>1. /\ h[c] \in Handler /\ h[c].pc = "removing" /\ h' = [h EXCEPT ![c] = r] /\ s \in Session
      /\ owed' = owed /\ audit' = audit /\ issued \subseteq Session
      /\ \A d \in Conn : Busy(d) => Sid(d) \in Session
  BY DEF LocalInv, LocalTypeOK, TypeOK, HandlersOK, RemoveSession, Goto, At, Sid, auditVars, Busy
<1>2. r.pc = "recording" /\ r.sid = s /\ (r.failed <=> h[c].failed)
  BY <1>1 DEF Handler, Sid
<1> HIDE DEF r
<1>3. ChildKept /\ issued' = issued
  BY CloseEffect DEF RemoveSession, RemoveIfPresent, Remove, RemoveTracked, ChildKept, regVars
<1>4. sessions' = [q \in Session |-> IF q = s THEN Absent ELSE sessions[q]]
  <2>1. CASE Present(s)
    BY <2>1 DEF RemoveSession, RemoveIfPresent, Remove, RemoveTracked
  <2>2. CASE ~Present(s)
    <3>1. sessions' = sessions /\ sessions[s] = Absent /\ sessions \in [Session -> Tracked \cup {Absent}]
      BY <2>2 DEF RemoveSession, RemoveIfPresent, regVars, Present, LocalInv, LocalTypeOK, TypeOK
    <3>2. QED
      BY <3>1
  <2>3. QED
    BY <2>1, <2>2
<1>5. \A q \in Session : IF q = s THEN ~Present(q)' ELSE Present(q)' = Present(q) /\ StateOf(q)' = StateOf(q)
  BY <1>4 DEF Present, StateOf
<1>6. /\ \A d \in Conn : /\ Sid(d)' = Sid(d) /\ (Works(d)' <=> Works(d)) /\ (Busy(d)' <=> Busy(d))
                         /\ (h'[d].failed <=> h[d].failed)
                         /\ (At(d, "recording")' <=> At(d, "recording") \/ d = c)
                         /\ d # c => h'[d] = h[d]
                         /\ h'[d].pc \in Opening => h[d].pc = h'[d].pc
      /\ Works(c) /\ Busy(c)
  BY <1>1, <1>2 DEF Sid, Works, Busy, At, Opening, LocalInv, HandlersOK
<1>7. IdsOK'
  <2>1. \A d \in Conn : At(d, "spawned")' => Sid(d)' \notin issued'
    BY <1>3, <1>6 DEF LifeInv, IdsOK, At, Opening
  <2>2. \A d \in Conn : Busy(d)' => child'[Sid(d)'] # "none"
    BY <1>1, <1>3, <1>6 DEF LifeInv, IdsOK, ChildKept
  <2>3. \A d \in Conn : Works(d)' => Sid(d)' \in issued'
    BY <1>3, <1>6 DEF LifeInv, IdsOK
  <2>4. QED
    BY <1>1, <1>3, <1>5, <2>1, <2>2, <2>3 DEF LifeInv, IdsOK, ChildKept
<1>8. OpeningOK'
  <2>1. ASSUME NEW d \in Conn, h'[d].pc \in {"inserted", "started"}, Present(Sid(d))'
        PROVE  StateOf(Sid(d))' = "Starting"
    <3>1. h[d].pc \in {"inserted", "started"} /\ Sid(d)' = Sid(d) /\ Sid(d) \in Session
      BY <1>1, <1>6, <2>1 DEF Opening, Busy
    <3>2. Sid(d) # s
      BY <1>5, <2>1, <3>1 DEF Present
    <3>3. Present(Sid(d)) /\ StateOf(Sid(d))' = StateOf(Sid(d))
      BY <1>5, <2>1, <3>1, <3>2 DEF Present, StateOf
    <3>4. QED
      BY <3>1, <3>3 DEF LifeInv, OpeningOK
  <2>2. QED
    BY <1>6, <2>1 DEF LifeInv, OpeningOK
<1>9. AttachedOK'
  <2> SUFFICES ASSUME NEW q \in Session, InState(q, {"Active", "Reattaching"})'
               PROVE  \E d \in Conn : Works(d)' /\ Sid(d)' = q
    BY DEF AttachedOK
  <2>1. InState(q, {"Active", "Reattaching"})
    BY <1>5 DEF InState
  <2>2. QED
    BY <1>6, <2>1 DEF LifeInv, AttachedOK
<1>10. EndedOK'
  <2>1. \A d \in Conn : At(d, "recording")' => ~Present(Sid(d))'
    <3> TAKE d \in Conn
    <3> HAVE At(d, "recording")'
    <3>1. CASE Sid(d) = s
      BY <1>1, <1>5, <1>6, <3>1 DEF Present
    <3>2. CASE Sid(d) # s
      <4>1. At(d, "recording") /\ Busy(d)
        BY <1>6, <3>2 DEF At, Busy
      <4>2. ~Present(Sid(d)) /\ Sid(d) \in Session
        BY <1>1, <4>1 DEF LifeInv, EndedOK
      <4>3. QED
        BY <1>5, <1>6, <3>2, <4>2 DEF Present
    <3>3. QED
      BY <3>1, <3>2
  <2>2. ASSUME NEW q \in issued'
        PROVE  \/ Present(q)' \/ "ended" \in audit'[q] \/ owed'[q] # "none"
               \/ \E d \in Conn : At(d, "recording")' /\ Sid(d)' = q
    <3>1. CASE q = s
      BY <1>6, <3>1
    <3>2. CASE q # s
      BY <1>1, <1>3, <1>5, <1>6, <2>2, <3>2 DEF LifeInv, EndedOK
    <3>3. QED
      BY <3>1, <3>2
  <2>3. /\ \A q \in Session : "opened" \in audit'[q] => q \in issued'
        /\ \A d \in Conn : h'[d].failed => Busy(d)' /\ "ended" \in audit'[Sid(d)']
    BY <1>1, <1>3, <1>6 DEF LifeInv, EndedOK
  <2>4. QED
    BY <2>1, <2>2, <2>3 DEF EndedOK
<1>11. QED
  BY <1>7, <1>8, <1>9, <1>10 DEF LifeInv

\* The entry of a new session, under an id that no entry ever had.
LEMMA LifeInserts ==
    ASSUME LocalInv, LifeInv, NEW c \in Conn, InsertOk(c)
    PROVE  LifeInv'
<1> DEFINE r == [h[c] EXCEPT !.pc = "inserted"]
           s == Sid(c)
<1>1. /\ h[c] \in Handler /\ h[c].pc = "spawned" /\ h' = [h EXCEPT ![c] = r] /\ s \in Session
      /\ owed' = owed /\ audit' = audit /\ child' = child /\ issued \subseteq Session
      /\ s \notin issued /\ issued' = issued \cup {s}
      /\ \A d \in Conn : Busy(d) => Sid(d) \in Session
  BY DEF LocalInv, LocalTypeOK, TypeOK, HandlersOK, InsertOk, Insert, InsertBackend, Goto, At, Sid,
         ptyVars, auditVars, Busy
<1>2. r.pc = "inserted" /\ r.sid = s /\ (r.failed <=> h[c].failed)
  BY <1>1 DEF Handler, Sid
<1> HIDE DEF r
<1>3. \A q \in Session : IF q = s THEN Present(q)' /\ StateOf(q)' = "Starting"
                         ELSE Present(q)' = Present(q) /\ StateOf(q)' = StateOf(q)
  <2>1. PICK t \in Token : sessions' = [sessions EXCEPT ![s] =
                [state |-> "Starting", owner |-> Actor, node |-> NoNode, backend |-> "Local",
                 token |-> t, idle |-> FALSE, old |-> FALSE]]
    BY DEF InsertOk, Insert, InsertBackend
  <2> DEFINE e == [state |-> "Starting", owner |-> Actor, node |-> NoNode, backend |-> "Local",
                   token |-> t, idle |-> FALSE, old |-> FALSE]
  <2>2. e \in Tracked /\ e.state = "Starting" /\ sessions' = [sessions EXCEPT ![s] = e]
    BY <2>1, ActorAssumption DEF Tracked, TerminalSessionState
  <2>3. e # Absent
    BY <2>2, AbsentAssumption
  <2> HIDE DEF e
  <2>4. \A q \in Session : sessions'[q] = IF q = s THEN e ELSE sessions[q]
    BY <2>2 DEF LocalInv, LocalTypeOK, TypeOK
  <2>5. QED
    BY <2>2, <2>3, <2>4 DEF Present, StateOf
<1>4. /\ \A d \in Conn \ {c} : /\ Sid(d)' = Sid(d) /\ (Works(d)' <=> Works(d)) /\ h'[d] = h[d]
                               /\ (Busy(d)' <=> Busy(d)) /\ (At(d, "recording")' <=> At(d, "recording"))
                               /\ (At(d, "spawned")' <=> At(d, "spawned"))
      /\ Sid(c)' = s /\ h'[c].pc = "inserted" /\ (h'[c].failed <=> h[c].failed)
      /\ Works(c)' /\ Busy(c)' /\ Busy(c) /\ ~At(c, "recording")' /\ ~At(c, "recording")
      /\ ~At(c, "spawned")' /\ h[c].pc \in Opening
  BY <1>1, <1>2 DEF Sid, Works, Busy, At, Opening, LocalInv, HandlersOK
<1>5. \A d \in Conn \ {c} : Busy(d) => Sid(d) # s
  BY <1>4 DEF LifeInv, OpeningOK
<1>6. IdsOK'
  <2>1. \A q \in Session : Present(q)' => q \in issued'
    BY <1>1, <1>3 DEF LifeInv, IdsOK
  <2>2. \A q \in issued' : child'[q] # "none"
    BY <1>1, <1>4 DEF LifeInv, IdsOK
  <2>3. \A d \in Conn : Busy(d)' => child'[Sid(d)'] # "none"
    BY <1>1, <1>4 DEF LifeInv, IdsOK
  <2>4. \A d \in Conn : Works(d)' => Sid(d)' \in issued'
    BY <1>1, <1>4 DEF LifeInv, IdsOK
  <2>5. \A d \in Conn : At(d, "spawned")' => Sid(d)' \notin issued'
    <3> TAKE d \in Conn
    <3> HAVE At(d, "spawned")'
    <3>1. d # c /\ At(d, "spawned") /\ Sid(d)' = Sid(d) /\ Busy(d)
      BY <1>4 DEF At, Busy
    <3>2. QED
      BY <1>1, <1>5, <3>1 DEF LifeInv, IdsOK
  <2>6. QED
    BY <2>1, <2>2, <2>3, <2>4, <2>5 DEF IdsOK
<1>7. OpeningOK'
  <2>1. ASSUME NEW d \in Conn, h'[d].pc \in {"inserted", "started"}, Present(Sid(d))'
        PROVE  StateOf(Sid(d))' = "Starting"
    <3>1. CASE d = c
      BY <1>1, <1>3, <1>4, <3>1
    <3>2. CASE d # c
      <4>1. h[d].pc \in {"inserted", "started"} /\ Sid(d)' = Sid(d) /\ Busy(d)
        BY <1>4, <2>1, <3>2 DEF Busy
      <4>2. Sid(d) # s /\ Sid(d) \in Session
        BY <1>1, <1>5, <3>2, <4>1
      <4>3. Present(Sid(d)) /\ StateOf(Sid(d))' = StateOf(Sid(d))
        BY <1>3, <2>1, <4>1, <4>2 DEF Present, StateOf
      <4>4. QED
        BY <4>1, <4>3 DEF LifeInv, OpeningOK
    <3>3. QED
      BY <3>1, <3>2
  <2>2. ASSUME NEW b \in Conn, NEW d \in Conn, b # d, h'[b].pc \in Opening, Busy(d)'
        PROVE  Sid(b)' # Sid(d)'
    <3>1. Busy(d) /\ h[b].pc \in Opening /\ Sid(b)' = Sid(b) /\ Sid(d)' = Sid(d)
      BY <1>4, <2>2
    <3>2. QED
      BY <2>2, <3>1 DEF LifeInv, OpeningOK
  <2>3. QED
    BY <2>1, <2>2 DEF OpeningOK
<1>8. AttachedOK'
  <2> SUFFICES ASSUME NEW q \in Session, InState(q, {"Active", "Reattaching"})'
               PROVE  \E d \in Conn : Works(d)' /\ Sid(d)' = q
    BY DEF AttachedOK
  <2>1. q # s
    <3>1. ASSUME q = s PROVE FALSE
      <4>1. StateOf(q)' \in {"Active", "Reattaching"}
        BY DEF InState
      <4>2. StateOf(q)' = "Starting"
        BY <1>3, <3>1 DEF StateOf
      <4>3. QED
        BY <4>1, <4>2
    <3>2. QED
      BY <3>1
  <2>2. InState(q, {"Active", "Reattaching"})
    BY <1>3, <2>1 DEF InState
  <2>3. PICK d \in Conn : Works(d) /\ Sid(d) = q
    BY <2>2 DEF LifeInv, AttachedOK
  <2>4. d # c
    BY <1>1, <2>3 DEF Works
  <2>5. QED
    BY <1>4, <2>3, <2>4
<1>9. EndedOK'
  <2>1. \A d \in Conn : At(d, "recording")' => ~Present(Sid(d))'
    <3> TAKE d \in Conn
    <3> HAVE At(d, "recording")'
    <3>1. d # c /\ At(d, "recording") /\ Sid(d)' = Sid(d) /\ Busy(d)
      BY <1>4 DEF At, Busy
    <3>2. ~Present(Sid(d)) /\ Sid(d) \in Session \ {s}
      BY <1>1, <1>5, <3>1 DEF LifeInv, EndedOK
    <3>3. QED
      BY <1>3, <3>1, <3>2 DEF Present
  <2>2. ASSUME NEW q \in issued'
        PROVE  \/ Present(q)' \/ "ended" \in audit'[q] \/ owed'[q] # "none"
               \/ \E d \in Conn : At(d, "recording")' /\ Sid(d)' = q
    <3>1. CASE q = s
      BY <1>1, <1>3, <3>1
    <3>2. CASE q # s
      BY <1>1, <1>3, <1>4, <2>2, <3>2 DEF LifeInv, EndedOK
    <3>3. QED
      BY <3>1, <3>2
  <2>3. /\ \A q \in Session : "opened" \in audit'[q] => q \in issued'
        /\ \A d \in Conn : h'[d].failed => Busy(d)' /\ "ended" \in audit'[Sid(d)']
    BY <1>1, <1>4 DEF LifeInv, EndedOK
  <2>4. QED
    BY <2>1, <2>2, <2>3 DEF EndedOK
<1>10. QED
  BY <1>6, <1>7, <1>8, <1>9 DEF LifeInv

\* An idle handler takes a session: a new one, or one that may be reattached.
LEMMA LifeTakes ==
    ASSUME LocalInv, LifeInv, NEW c \in Conn, NEW s \in Session, NEW r, At(c, "idle"),
           h' = [h EXCEPT ![c] = r], r.sid = s, ~r.failed, UNCHANGED <<owed, audit>>,
           EntriesLive, \A q \in Session \ {s} : StateKept(q), ChildKept,
           \/ /\ r.pc = "spawned" /\ child[s] = "none" /\ child'[s] # "none" /\ StateKept(s)
           \/ /\ r.pc = "replaying" /\ InState(s, Reattachable)
    PROVE  LifeInv'
<1>1. /\ issued \subseteq Session /\ issued' = issued /\ \A q \in Session : Present(q)' = Present(q)
      /\ \A d \in Conn : Busy(d) => Sid(d) \in Session
      /\ Present(s) => s \in issued
      /\ \A q \in issued : child[q] # "none"
      /\ \A d \in Conn : Busy(d) => child[Sid(d)] # "none"
  BY DEF LocalInv, LocalTypeOK, TypeOK, HandlersOK, EntriesLive, Sid, Busy, LifeInv, IdsOK
<1>2. /\ \A d \in Conn \ {c} : /\ Sid(d)' = Sid(d) /\ (Works(d)' <=> Works(d)) /\ h'[d] = h[d]
                               /\ (Busy(d)' <=> Busy(d)) /\ (At(d, "recording")' <=> At(d, "recording"))
                               /\ (At(d, "spawned")' <=> At(d, "spawned"))
      /\ Sid(c)' = s /\ h'[c].pc = r.pc /\ ~h'[c].failed
      /\ Busy(c)' /\ ~Busy(c) /\ ~At(c, "recording")' /\ ~At(c, "recording")
  BY DEF Sid, Works, Busy, At, LocalInv, HandlersOK
<1>3. EndedOK'
  <2>1. \A q \in Session : "opened" \in audit'[q] => q \in issued'
    BY <1>1 DEF LifeInv, EndedOK
  <2>2. \A d \in Conn : h'[d].failed => Busy(d)' /\ "ended" \in audit'[Sid(d)']
    BY <1>1, <1>2 DEF LifeInv, EndedOK
  <2>3. \A d \in Conn : At(d, "recording")' => ~Present(Sid(d))'
    <3> TAKE d \in Conn
    <3> HAVE At(d, "recording")'
    <3>1. d # c /\ At(d, "recording") /\ Sid(d)' = Sid(d) /\ Busy(d)
      BY <1>2 DEF At, Busy
    <3>2. ~Present(Sid(d)) /\ Sid(d) \in Session
      BY <1>1, <3>1 DEF LifeInv, EndedOK
    <3>3. QED
      BY <1>1, <3>1, <3>2 DEF Present
  <2>4. \A q \in issued' : \/ Present(q)' \/ "ended" \in audit'[q] \/ owed'[q] # "none"
                          \/ \E d \in Conn : At(d, "recording")' /\ Sid(d)' = q
    BY <1>1, <1>2 DEF LifeInv, EndedOK
  <2>5. QED
    BY <2>1, <2>2, <2>3, <2>4 DEF EndedOK
<1>4. CASE r.pc = "spawned" /\ child[s] = "none" /\ child'[s] # "none" /\ StateKept(s)
  <2>1. s \notin issued /\ ~Present(s) /\ \A d \in Conn : Busy(d) => Sid(d) # s
    BY <1>1, <1>4
  <2>2. IdsOK'
    BY <1>1, <1>2, <1>4, <2>1 DEF LifeInv, IdsOK, ChildKept, Works
  <2>3. OpeningOK'
    <3>1. ASSUME NEW d \in Conn, h'[d].pc \in {"inserted", "started"}, Present(Sid(d))'
          PROVE  StateOf(Sid(d))' = "Starting"
      <4>1. d # c /\ h[d].pc \in {"inserted", "started"} /\ Sid(d)' = Sid(d) /\ Sid(d) \in Session
        BY <1>1, <1>2, <1>4, <3>1 DEF Busy
      <4>2. Present(Sid(d)) /\ StateOf(Sid(d))' = StateOf(Sid(d))
        BY <1>1, <1>4, <3>1, <4>1 DEF Present, StateKept, StateOf
      <4>3. QED
        BY <4>1, <4>2 DEF LifeInv, OpeningOK
    <3>2. ASSUME NEW b \in Conn, NEW d \in Conn, b # d, h'[b].pc \in Opening, Busy(d)'
          PROVE  Sid(b)' # Sid(d)'
      <4>1. CASE b = c
        BY <1>2, <2>1, <3>2, <4>1
      <4>2. CASE d = c
        <5>1. Busy(b)
          BY <1>2, <3>2, <4>2 DEF Opening, Busy
        <5>2. QED
          BY <1>2, <2>1, <3>2, <4>2, <5>1
      <4>3. CASE b # c /\ d # c
        BY <1>2, <3>2, <4>3 DEF LifeInv, OpeningOK
      <4>4. QED
        BY <4>1, <4>2, <4>3
    <3>3. QED
      BY <3>1, <3>2 DEF OpeningOK
  <2>4. AttachedOK'
    <3> SUFFICES ASSUME NEW q \in Session, InState(q, {"Active", "Reattaching"})'
                 PROVE  \E d \in Conn : Works(d)' /\ Sid(d)' = q
      BY DEF AttachedOK
    <3>1. InState(q, {"Active", "Reattaching"})
      BY <1>1, <1>4 DEF InState, StateKept
    <3>2. PICK d \in Conn : Works(d) /\ Sid(d) = q
      BY <3>1 DEF LifeInv, AttachedOK
    <3>3. QED
      BY <1>2, <3>2 DEF Works
  <2>5. QED
    BY <1>3, <2>2, <2>3, <2>4 DEF LifeInv
<1>5. CASE r.pc = "replaying" /\ InState(s, Reattachable)
  <2>1. Present(s) /\ StateOf(s) # "Starting" /\ s \in issued /\ Works(c)' /\ ~At(c, "spawned")'
    BY <1>1, <1>2, <1>5 DEF InState, Reattachable, Works, At
  <2>2. IdsOK'
    <3>1. \A d \in Conn : Busy(d)' => child'[Sid(d)'] # "none"
      BY <1>1, <1>2, <2>1 DEF ChildKept
    <3>2. \A d \in Conn : Works(d)' => Sid(d)' \in issued'
      BY <1>1, <1>2, <2>1 DEF LifeInv, IdsOK
    <3>3. \A d \in Conn : At(d, "spawned")' => Sid(d)' \notin issued'
      BY <1>1, <1>2, <2>1 DEF LifeInv, IdsOK
    <3>4. QED
      BY <1>1, <3>1, <3>2, <3>3 DEF LifeInv, IdsOK, ChildKept
  <2>3. ASSUME NEW d \in Conn, d # c, h[d].pc \in Opening PROVE Sid(d) # s
    <3>1. CASE h[d].pc = "spawned"
      BY <2>1, <3>1 DEF LifeInv, IdsOK, At
    <3>2. CASE h[d].pc \in {"inserted", "started"}
      BY <2>1, <3>2 DEF LifeInv, OpeningOK
    <3>3. QED
      BY <2>3, <3>1, <3>2 DEF Opening
  <2>4. OpeningOK'
    <3>1. ASSUME NEW d \in Conn, h'[d].pc \in {"inserted", "started"}, Present(Sid(d))'
          PROVE  StateOf(Sid(d))' = "Starting"
      <4>1. d # c /\ h[d].pc \in {"inserted", "started"} /\ Sid(d)' = Sid(d) /\ Sid(d) \in Session \ {s}
        BY <1>1, <1>2, <1>5, <2>3, <3>1 DEF Busy, Opening
      <4>2. Present(Sid(d)) /\ StateOf(Sid(d))' = StateOf(Sid(d))
        BY <1>1, <3>1, <4>1 DEF Present, StateKept, StateOf
      <4>3. QED
        BY <4>1, <4>2 DEF LifeInv, OpeningOK
    <3>2. ASSUME NEW b \in Conn, NEW d \in Conn, b # d, h'[b].pc \in Opening, Busy(d)'
          PROVE  Sid(b)' # Sid(d)'
      <4>1. b # c /\ h[b].pc \in Opening
        BY <1>2, <1>5, <3>2 DEF Opening
      <4>2. CASE d = c
        BY <1>2, <2>3, <4>1, <4>2
      <4>3. CASE d # c
        BY <1>2, <3>2, <4>1, <4>3 DEF LifeInv, OpeningOK
      <4>4. QED
        BY <4>2, <4>3
    <3>3. QED
      BY <3>1, <3>2 DEF OpeningOK
  <2>5. AttachedOK'
    <3> SUFFICES ASSUME NEW q \in Session, InState(q, {"Active", "Reattaching"})'
                 PROVE  \E d \in Conn : Works(d)' /\ Sid(d)' = q
      BY DEF AttachedOK
    <3>1. CASE q = s
      BY <1>2, <2>1, <3>1
    <3>2. CASE q # s
      <4>1. InState(q, {"Active", "Reattaching"})
        BY <1>1, <3>2 DEF InState, StateKept
      <4>2. PICK d \in Conn : Works(d) /\ Sid(d) = q
        BY <4>1 DEF LifeInv, AttachedOK
      <4>3. QED
        BY <1>2, <4>2 DEF Works
    <3>3. QED
      BY <3>1, <3>2
  <2>6. QED
    BY <1>3, <2>2, <2>4, <2>5 DEF LifeInv
<1>6. QED
  BY <1>4, <1>5

LEMMA LifeFirst ==
    ASSUME LocalInv, LifeInv, NEW c \in Conn, NEW s \in Session, NEW t,
           \/ Start(c, s)
           \/ t \in Token /\ (ReattachOk(c, s, t) \/ ReattachRefused(c, s, t))
    PROVE  LifeInv'
<1>1. /\ h[c] \in Handler /\ At(c, "idle") /\ ~h[c].failed /\ h \in [Conn -> Handler]
  <2>1. h[c] \in Handler /\ At(c, "idle") /\ h \in [Conn -> Handler]
    BY DEF LocalInv, HandlersOK, Start, Return, ReattachOk, ReattachRefused
  <2>2. QED
    BY <2>1 DEF LifeInv, EndedOK, Busy, At
<1>2. CASE Return(c, "idle") /\ UNCHANGED <<regVars, child, auditVars>>
  BY <1>2, LifeReturns
<1>3. CASE Start(c, s) /\ h' = [h EXCEPT ![c].pc = "spawned", ![c].sid = s] /\ Spawned(s)
  <2> DEFINE r == [h[c] EXCEPT !.pc = "spawned", !.sid = s]
  <2>1. r.pc = "spawned" /\ r.sid = s /\ ~r.failed /\ h' = [h EXCEPT ![c] = r]
    BY <1>1, <1>3 DEF Handler
  <2>2. /\ child[s] = "none" /\ child'[s] # "none" /\ ChildKept /\ UNCHANGED regVars
        /\ UNCHANGED <<owed, audit>>
    BY <1>3 DEF Start, Spawned, ChildKept, LocalInv, LocalTypeOK, auditVars
  <2>3. EntriesLive /\ \A q \in Session : StateKept(q)
    BY <2>2 DEF EntriesLive, StateKept, StateOf, Present, regVars
  <2> HIDE DEF r
  <2>4. QED
    BY <1>1, <2>1, <2>2, <2>3, LifeTakes
<1>4. CASE t \in Token /\ ReattachOk(c, s, t)
  <2> DEFINE r == [h[c] EXCEPT !.pc = "replaying", !.sid = s, !.grant = sessions'[s].token]
  <2>1. r.pc = "replaying" /\ r.sid = s /\ ~r.failed /\ h' = [h EXCEPT ![c] = r]
    BY <1>1, <1>4 DEF Handler, ReattachOk
  <2>2. ChildKept /\ UNCHANGED <<owed, audit>> /\ Reattach(s, t, Actor)
    BY <1>4 DEF ReattachOk, ChildKept, ptyVars, auditVars
  <2>3. /\ EntriesLive /\ \A q \in Session \ {s} : StateKept(q)
        /\ InState(s, Reattachable)
    BY <1>4, <2>2, ReattachEffect
  <2> HIDE DEF r
  <2>4. QED
    BY <1>1, <2>1, <2>2, <2>3, LifeTakes
<1>5. QED
  BY <1>2, <1>3, <1>4 DEF Start, ReattachRefused, ptyVars

(* The reader, the terminate route, the worker and the environment leave every  *)
(* handler at its place.                                                        *)
LEMMA BroadcastStays ==
    ASSUME LocalInv, NEW s, NEW m, Broadcast(s, m)
    PROVE  \A c \in Conn : h'[c].pc = h[c].pc /\ h'[c].sid = h[c].sid /\ (h'[c].failed <=> h[c].failed)
<1> TAKE c \in Conn
<1>1. h[c] \in Handler /\ (h'[c] = h[c] \/ h'[c] = [h[c] EXCEPT !.inbox = Queued(h[c].inbox, m)])
  BY DEF Broadcast, LocalInv, HandlersOK
<1>2. QED
  BY <1>1 DEF Handler

LEMMA LifeBesides ==
    ASSUME LocalInv, LifeInv, NEW s \in Session,
           \/ ReaderOutput(s) \/ ReaderStep(s) \/ ShellExits(s) \/ Clock(s)
           \/ HttpTerminate(s) \/ HttpRecord(s) \/ WorkerNotify(s)
    PROVE  LifeInv'
<1>1. \A c \in Conn : h'[c].pc = h[c].pc /\ h'[c].sid = h[c].sid /\ (h'[c].failed <=> h[c].failed)
  <2>1. CASE \E m : Broadcast(s, m)
    BY <2>1, BroadcastStays
  <2>2. CASE h' = h
    BY <2>2
  <2>3. QED
    BY <2>1, <2>2 DEF ReaderOutput, ReaderStep, ReaderEof, ReaderError, ReaderExit, ShellExits,
                      Clock, HttpTerminate, HttpRecord, WorkerNotify
<1>2. ChildKept
  <2>1. CASE \E S : Close(S)
    BY <2>1, CloseEffect
  <2>2. CASE child' = child
    BY <2>2 DEF ChildKept
  <2>3. CASE ReaderError(s) \/ ReaderExit(s) \/ ShellExits(s)
    BY <2>3 DEF ReaderError, ReaderExit, ShellExits, ChildKept, LocalInv, LocalTypeOK
  <2>4. QED
    BY <2>1, <2>2, <2>3 DEF ReaderOutput, ReaderStep, ReaderEof, Clock, HttpTerminate, HttpRecord,
                            WorkerNotify, ptyVars
<1>3. AuditKept
  BY DEF ReaderOutput, ReaderStep, ReaderEof, ReaderError, ReaderExit, ShellExits, Clock, HttpTerminate,
         HttpRecord, WorkerNotify, auditVars, AuditKept, Record, LocalInv, LocalTypeOK
<1>4. CASE HttpTerminate(s)
  <2>1. RemoveTracked({s}) /\ owed' = [owed EXCEPT ![s] = "http"]
    BY <1>4 DEF HttpTerminate, Terminate
  <2>2. \A q \in Session : IF q = s THEN ~Present(q)' /\ owed'[q] # "none"
                           ELSE sessions'[q] = sessions[q] /\ owed'[q] = owed[q]
    BY <2>1 DEF RemoveTracked, Present, LocalInv, LocalTypeOK
  <2>3. issued' = issued
    BY <2>1 DEF RemoveTracked
  <2>4. \A q \in Session : /\ Present(q)' => Present(q) /\ StateOf(q)' = StateOf(q)
                           /\ Present(q) /\ ~Present(q)' => owed'[q] # "none"
                           /\ owed[q] # "none" => owed'[q] # "none"
    <3> TAKE q \in Session
    <3>1. CASE q = s
      BY <2>2, <3>1
    <3>2. CASE q # s
      BY <2>2, <3>2 DEF Present, StateOf
    <3>3. QED
      BY <3>1, <3>2
  <2>5. QED
    BY <1>1, <1>2, <1>3, <2>3, <2>4, HandlersStay
<1>5. CASE ~HttpTerminate(s)
  <2>1. EntriesLive /\ \A q \in Session : StateKept(q)
    <3>1. CASE Clock(s)
      BY <3>1, FlagEffect DEF Clock
    <3>2. CASE UNCHANGED regVars
      BY <3>2 DEF EntriesLive, StateKept, StateOf, Present, regVars
    <3>3. QED
      BY <1>5, <3>1, <3>2 DEF ReaderOutput, ReaderStep, ReaderEof, ReaderError, ReaderExit,
                              ShellExits, HttpRecord, WorkerNotify
  <2>2. \A q \in Session : owed[q] # "none" => owed'[q] # "none" \/ "ended" \in audit'[q]
    BY <1>5 DEF ReaderOutput, ReaderStep, ReaderEof, ReaderError, ReaderExit, ShellExits, Clock,
                HttpRecord, WorkerNotify, auditVars, Record, LocalInv, LocalTypeOK
  <2>3. \A q \in Session : Present(q)' => Present(q) /\ StateOf(q)' = StateOf(q)
    BY <2>1 DEF EntriesLive, StateKept
  <2>4. issued' = issued /\ \A q \in Session : Present(q) /\ ~Present(q)' => owed'[q] # "none"
    BY <2>1 DEF EntriesLive
  <2>5. QED
    BY <1>1, <1>2, <1>3, <2>2, <2>3, <2>4, HandlersStay
<1>6. QED
  BY <1>4, <1>5

LEMMA LifeWorker ==
    ASSUME LocalInv, LifeInv, WorkerDrain
    PROVE  LifeInv'
<1>1. /\ RemoveTracked(Expired) /\ Close(Expired) /\ h' = h /\ audit' = audit
      /\ owed' = [s \in Session |-> IF s \in Expired THEN "worker" ELSE owed[s]]
  BY DEF WorkerDrain, DrainExpired
<1>2. ChildKept /\ AuditKept /\ issued' = issued
  BY <1>1, CloseEffect DEF AuditKept, RemoveTracked
<1>3. \A q \in Session : IF q \in Expired THEN ~Present(q)' /\ owed'[q] # "none"
                         ELSE sessions'[q] = sessions[q] /\ owed'[q] = owed[q]
  BY <1>1 DEF RemoveTracked, Present
<1>4. \A q \in Session : /\ Present(q)' => Present(q) /\ StateOf(q)' = StateOf(q)
                         /\ Present(q) /\ ~Present(q)' => owed'[q] # "none"
                         /\ owed[q] # "none" => owed'[q] # "none"
  <2> TAKE q \in Session
  <2>1. CASE q \in Expired
    BY <1>3, <2>1
  <2>2. CASE q \notin Expired
    BY <1>3, <2>2 DEF Present, StateOf
  <2>3. QED
    BY <2>1, <2>2
<1>5. QED
  BY <1>1, <1>2, <1>4, HandlersStay

LEMMA LifeStays ==
    ASSUME LocalInv, LifeInv, UNCHANGED vars \/ \E c \in Conn : BrowserLeaves(c)
    PROVE  LifeInv'
<1>1. UNCHANGED <<regVars, child, owed, audit>>
  BY DEF vars, BrowserLeaves, ptyVars, auditVars
<1>2. \A c \in Conn : h'[c].pc = h[c].pc /\ h'[c].sid = h[c].sid /\ (h'[c].failed <=> h[c].failed)
  <2>1. CASE UNCHANGED vars
    BY <2>1 DEF vars
  <2>2. ASSUME NEW c \in Conn, BrowserLeaves(c)
        PROVE  \A d \in Conn : h'[d].pc = h[d].pc /\ h'[d].sid = h[d].sid /\ (h'[d].failed <=> h[d].failed)
    <3> DEFINE r == [h[c] EXCEPT !.gone = TRUE]
    <3>1. h' = [h EXCEPT ![c] = r] /\ h[c] \in Handler /\ h \in [Conn -> Handler]
      BY <2>2 DEF BrowserLeaves, LocalInv, HandlersOK
    <3>2. r.pc = h[c].pc /\ r.sid = h[c].sid /\ (r.failed <=> h[c].failed)
      BY <3>1 DEF Handler
    <3> HIDE DEF r
    <3>3. QED
      BY <3>1, <3>2
  <2>3. QED
    BY <2>1, <2>2
<1>3. ChildKept /\ AuditKept /\ issued' = issued
  BY <1>1 DEF ChildKept, AuditKept, regVars
<1>4. \A q \in Session : Present(q)' = Present(q) /\ StateOf(q)' = StateOf(q) /\ owed'[q] = owed[q]
  BY <1>1 DEF Present, StateOf, regVars
<1>5. QED
  BY <1>2, <1>3, <1>4, HandlersStay

LEMMA LifeInit == LocalInit => LifeInv
<1> SUFFICES ASSUME LocalInit PROVE LifeInv
  OBVIOUS
<1>1. \A c \in Conn : h[c].pc = "idle" /\ ~h[c].failed
  BY DEF LocalInit, Fresh
<1>2. issued = {} /\ \A s \in Session : ~Present(s) /\ audit[s] = {}
  BY DEF LocalInit, RegInit, Present
<1>3. QED
  BY <1>1, <1>2 DEF LifeInv, IdsOK, OpeningOK, AttachedOK, EndedOK, InState, Busy, Works, At, Opening

LEMMA LifeNext == LocalInv /\ LifeInv /\ [LocalNext]_vars => LifeInv'
<1> SUFFICES ASSUME LocalInv, LifeInv, [LocalNext]_vars PROVE LifeInv'
  OBVIOUS
<1>1. ASSUME NEW c \in Conn, HandlerStep(c) \/ RecvFrame(c) \/ BrowserLeaves(c)
      PROVE  LifeInv'
  <2>1. CASE InsertRefused(c) \/ StartedFails(c) \/ RecordClosed(c)
    BY <2>1, LifeReturns DEF InsertRefused, StartedFails, RecordClosed
  <2>2. QED
    BY <1>1, <2>1, LifeMoves, LifeLeave, LifeRemoves, LifeInserts, LifeStays DEF HandlerStep
<1>2. ASSUME NEW c \in Conn, NEW s \in Session, Start(c, s) PROVE LifeInv'
  BY <1>2, LifeFirst
<1>3. ASSUME NEW c \in Conn, NEW s \in Session, NEW t \in Token,
             ReattachOk(c, s, t) \/ ReattachRefused(c, s, t)
      PROVE  LifeInv'
  BY <1>3, LifeFirst
<1>4. ASSUME NEW s \in Session,
             \/ ReaderOutput(s) \/ ReaderStep(s) \/ ShellExits(s) \/ Clock(s)
             \/ HttpTerminate(s) \/ HttpRecord(s) \/ WorkerNotify(s)
      PROVE  LifeInv'
  BY <1>4, LifeBesides
<1>5. QED
  BY <1>1, <1>2, <1>3, <1>4, LifeWorker, LifeStays DEF LocalNext

LEMMA LifeInvariant == LocalSpec => [](LocalInv /\ LifeInv)
<1>1. (LocalInv /\ LifeInv) /\ [LocalNext]_vars => (LocalInv /\ LifeInv)'
  BY LocalInvNext, LifeNext
<1>2. QED
  BY <1>1, LocalInvInit, LifeInit, PTL DEF LocalSpec

(* No interleaving of detaches, reattaches and returning handlers leaves a      *)
(* session that counts as attached without a handler that works for it.         *)
THEOREM AttachedStaysHandled == LocalSpec => []AttachedHasHandler
<1>1. LifeInv => AttachedHasHandler
  BY DEF LifeInv, AttachedOK, AttachedHasHandler, Attached, Works, At
<1>2. QED
  BY <1>1, LifeInvariant, PTL

(* Whoever takes a session's entry out - its handler, the terminate route or    *)
(* the cleanup worker - the audit log tells of its end.                         *)
THEOREM EveryEndAudited == LocalSpec => []EndAudited
<1>1. LifeInv => EndAudited
  <2> SUFFICES ASSUME LifeInv, NEW s \in Session, "opened" \in audit[s], ~Present(s), owed[s] = "none",
                      \A c \in Conn : ~(Sid(c) = s /\ h[c].pc = "recording")
               PROVE  "ended" \in audit[s]
    BY DEF EndAudited
  <2>1. s \in issued
    BY DEF LifeInv, EndedOK
  <2>2. QED
    BY <2>1 DEF LifeInv, EndedOK, At
<1>2. QED
  BY <1>1, LifeInvariant, PTL
=============================================================================
