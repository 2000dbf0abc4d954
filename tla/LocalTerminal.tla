----------------------------- MODULE LocalTerminal -----------------------------
(***************************************************************************)
(* A local terminal of the control plane, end to end: the WebSocket        *)
(* handlers handle_terminal_socket and handle_terminal_reattach            *)
(* (crates/sunbolt-control/src/terminal/mod.rs), the blocking task         *)
(* read_pty_output, the PTY and its shell, the HTTP terminate route and    *)
(* the cleanup worker, all around one SessionRegistry.                     *)
(*                                                                         *)
(* One step is one critical section of the registry mutex or one await: a  *)
(* handler that detaches and then looks the state up takes two steps, and  *)
(* other tasks may run in between. The broadcast channel is a sequence per *)
(* subscribed handler that keeps the ChannelCap newest messages. An await  *)
(* of a send to the browser fails only when the browser is gone.           *)
(***************************************************************************)
EXTENDS SessionRegistry, Sequences

CONSTANTS
    Conn,         \* browser WebSockets, one handler each
    Actor,        \* the user all of them are signed in as
    ChannelCap,   \* capacity of the output channel
    Inputs        \* what browsers, shells and the clock may do in an instance

Frames == {"other", "terminate", "detach", "reattach"}

ASSUME ActorAssumption == Actor \in User
ASSUME ChannelAssumption == ChannelCap \in Nat \ {0}
ASSUME InputAssumption ==
    Inputs \subseteq Frames \cup {"http", "output", "error", "idle", "old"}

VARIABLES
    h,         \* the handler of each WebSocket
    known,     \* reconnect tokens some browser was sent
    child,     \* the shell of a session's PTY
    reader,    \* the read_pty_output task of a session
    owed,      \* a removal whose audit record is still to be written, and by whom
    audit      \* per session: opened and ended records of the audit log

ptyVars   == <<child, reader>>
auditVars == <<owed, audit>>
vars      == <<regVars, h, known, ptyVars, auditVars>>

Message == {"output", "error", "exited"}
NoMessage == "none"

InLoop    == {"looping", "relaying", "frame", "expiring", "resuming", "resumed"}
Listening == InLoop \cup {"replaying"}
PC == Listening \cup {"idle", "spawned", "inserted", "started", "active", "exiting",
                      "killing", "leaving", "closing", "removing", "recording", "done"}

\* inbox: output_rx; cur: the message being relayed; failed: terminal_failed; gone: the
\* browser closed the socket; parted: the loop ended by a detach or a lost browser
\* (history); grant: the token a reattach handed to the handler.
Handler ==
    [pc : PC, sid : Session \cup {Absent}, inbox : Seq(Message),
     cur : Message \cup {NoMessage}, failed : BOOLEAN, gone : BOOLEAN,
     parted : BOOLEAN, grant : Token \cup {Absent}]

\* child: "reaped" once its handle was taken out of the PTY, by close or by a wait.
\* reader: "waiting" inside wait_exit, which holds the child lock.
LocalTypeOK ==
    /\ TypeOK
    /\ h \in [Conn -> Handler] /\ \A c \in Conn : Len(h[c].inbox) <= ChannelCap
    /\ known \in SUBSET Token
    /\ child \in [Session -> {"none", "running", "exited", "reaped"}]
    /\ reader \in [Session -> {"none", "reading", "waiting", "done"}]
    /\ owed \in [Session -> {"none", "http", "worker"}]
    /\ audit \in [Session -> SUBSET {"opened", "ended"}]

At(c, at)         == h[c].pc = at
Sid(c)            == h[c].sid
Goto(c, from, to) == At(c, from) /\ h' = [h EXCEPT ![c].pc = to]

\* A handler before its first message, and after it has returned.
Fresh(at) == [pc |-> at, sid |-> Absent, inbox |-> <<>>, cur |-> NoMessage,
              failed |-> FALSE, gone |-> FALSE, parted |-> FALSE, grant |-> Absent]
Return(c, from) == At(c, from) /\ h' = [h EXCEPT ![c] = Fresh("done")]
\* The loop breaks because of a detach or because the browser is lost.
Part(c, from) ==
    /\ At(c, from)
    /\ h' = [h EXCEPT ![c].pc = "leaving", ![c].cur = NoMessage, ![c].parted = TRUE]

LocalInit ==
    /\ RegInit
    /\ h = [c \in Conn |-> Fresh("idle")]
    /\ known = {}
    /\ child = [s \in Session |-> "none"]
    /\ reader = [s \in Session |-> "none"]
    /\ owed = [s \in Session |-> "none"]
    /\ audit = [s \in Session |-> {}]

-----------------------------------------------------------------------------
\* Registry calls whose entry may be gone: touch and remove then do nothing.
TouchIfPresent(s)  == IF Present(s) THEN Touch(s) ELSE UNCHANGED regVars
\* A variant with a fault: remove waits for an entry that another caller has taken.
RemoveAlways(s) == Remove(s)

RemoveIfPresent(s) == IF Present(s) THEN Remove(s) ELSE UNCHANGED regVars

\* LocalPtySession::close: takes the child handle, unless the wait took it, and kills.
\* It needs the child lock, which wait_exit holds until the shell has exited.
CanClose(S) == \A s \in S : ~(reader[s] = "waiting" /\ child[s] = "running")
\* A variant with a fault: the handle is dropped without a kill, the shell runs on.
CloseWithoutKill(S) == CanClose(S) /\ UNCHANGED child

Close(S) ==
    /\ CanClose(S)
    /\ child' = [s \in Session |->
          IF s \in S /\ reader[s] # "waiting" /\ child[s] # "none" THEN "reaped" ELSE child[s]]

\* broadcast::Sender::send never waits: a full receiver loses its oldest message.
\* A variant with a fault: a full receiver keeps everything.
QueuedUnbounded(q, m) == Append(q, m)

Queued(q, m) == IF Len(q) < ChannelCap THEN Append(q, m) ELSE Append(Tail(q), m)
Broadcast(s, m) ==
    h' = [c \in Conn |->
             IF Sid(c) = s /\ h[c].pc \in Listening
             THEN [h[c] EXCEPT !.inbox = Queued(@, m)] ELSE h[c]]

\* Every sender of the channel is gone: the entry's, the reader's and the worker's.
ChannelClosed(s) == ~Present(s) /\ reader[s] = "done" /\ owed[s] # "worker"

Record(s, kind) == audit' = [audit EXCEPT ![s] = @ \cup {kind}]

-----------------------------------------------------------------------------
(* handle_terminal_socket until its loop *)

\* LocalPtySession::spawn_default_shell
Spawned(s) == child' = [child EXCEPT ![s] = "running"]

\* A fresh session id; the shell is spawned, or is not and the handler returns.
Start(c, s) ==
    /\ child[s] = "none"
    /\ At(c, "idle")
    /\ \/ /\ h' = [h EXCEPT ![c].pc = "spawned", ![c].sid = s]
          /\ Spawned(s)
       \/ Return(c, "idle") /\ UNCHANGED child
    /\ UNCHANGED <<regVars, known, reader, auditVars>>

InsertOk(c) ==
    /\ Goto(c, "spawned", "inserted")
    /\ Insert(Sid(c), Actor)
    /\ UNCHANGED <<known, ptyVars, auditVars>>

\* A variant with a fault: the PTY spawned for a refused session is not closed.
InsertRefusedLeaks(c) ==
    /\ ~Admissible(Actor, NoNode)
    /\ Return(c, "spawned")
    /\ UNCHANGED <<regVars, known, ptyVars, auditVars>>

InsertRefused(c) ==
    /\ ~Admissible(Actor, NoNode)
    /\ Return(c, "spawned")
    /\ Close({Sid(c)})
    /\ UNCHANGED <<regVars, known, reader, auditVars>>

\* The Started message carries the reconnect token of the entry.
SendStarted(c) ==
    /\ Goto(c, "inserted", "started")
    /\ known' = IF Present(Sid(c)) THEN known \cup {sessions[Sid(c)].token} ELSE known
    /\ UNCHANGED <<regVars, ptyVars, auditVars>>

\* The PTY is closed but the entry stays behind in "Starting".
StartedFails(c) ==
    /\ h[c].gone
    /\ Return(c, "inserted")
    /\ Close({Sid(c)})
    /\ Record(Sid(c), "ended")
    /\ UNCHANGED <<regVars, known, reader, owed>>

Activate(c) ==
    /\ Goto(c, "started", "active")
    /\ Record(Sid(c), "opened")
    /\ SetState(Sid(c), "Active")
    /\ UNCHANGED <<known, ptyVars, owed>>

\* output_tx.subscribe() and spawn_blocking(read_pty_output).
Subscribe(c) ==
    /\ Goto(c, "active", "looping")
    /\ reader' = [reader EXCEPT ![Sid(c)] = "reading"]
    /\ UNCHANGED <<regVars, known, child, auditVars>>

-----------------------------------------------------------------------------
(* handle_terminal_reattach until its loop *)

ReattachOk(c, s, t) ==
    /\ t \in known
    /\ At(c, "idle")
    /\ Reattach(s, t, Actor)
    /\ h' = [h EXCEPT ![c].pc = "replaying", ![c].sid = s,
                      ![c].grant = sessions'[s].token]
    /\ UNCHANGED <<known, ptyVars, auditVars>>

ReattachRefused(c, s, t) ==
    /\ t \in known
    /\ ~MayReattach(s, t, Actor)
    /\ Return(c, "idle")
    /\ UNCHANGED <<regVars, known, ptyVars, auditVars>>

\* Reattached and the replay are sent (errors ignored), then the state becomes Active.
FinishReattach(c) ==
    /\ At(c, "replaying")
    /\ h' = [h EXCEPT ![c].pc = "looping", ![c].grant = Absent]
    /\ SetState(Sid(c), "Active")
    /\ known' = IF h[c].gone THEN known ELSE known \cup {h[c].grant}
    /\ UNCHANGED <<ptyVars, auditVars>>

-----------------------------------------------------------------------------
(* The select! loop, the same in both handlers *)

\* output_rx.recv() yields a message; the registry is touched before it is looked at.
RecvOutput(c) ==
    /\ h[c].inbox # <<>>
    /\ At(c, "looping")
    /\ h' = [h EXCEPT ![c].pc = "relaying", ![c].cur = Head(h[c].inbox),
                      ![c].inbox = Tail(@),
                      ![c].failed = @ \/ Head(h[c].inbox) = "error"]
    /\ TouchIfPresent(Sid(c))
    /\ audit' = IF Head(h[c].inbox) = "error"
                THEN [audit EXCEPT ![Sid(c)] = @ \cup {"ended"}] ELSE audit
    /\ UNCHANGED <<known, ptyVars, owed>>

\* Closed breaks the loop.
RecvClosed(c) ==
    /\ Goto(c, "looping", "leaving")
    /\ h[c].inbox = <<>> /\ ChannelClosed(Sid(c))
    /\ UNCHANGED <<regVars, known, ptyVars, auditVars>>

\* An Exited message asks for Terminated before it is sent; the table grants that
\* to a session in Terminating only.
RelayExit(c) ==
    /\ h[c].cur = "exited"
    /\ Goto(c, "relaying", "exiting")
    /\ SetState(Sid(c), "Terminated")
    /\ UNCHANGED <<known, ptyVars, auditVars>>

RelaySent(c) ==
    /\ \/ /\ At(c, "relaying") /\ h[c].cur # "exited"
          /\ h' = [h EXCEPT ![c].pc = "looping", ![c].cur = NoMessage]
       \/ /\ At(c, "exiting")
          /\ h' = [h EXCEPT ![c].pc = "leaving", ![c].cur = NoMessage]
    /\ UNCHANGED <<regVars, known, ptyVars, auditVars>>

\* The send fails: the session is detached, whatever the message was.
RelayFails(c) ==
    /\ h[c].gone
    /\ \/ h[c].cur # "exited" /\ Part(c, "relaying")
       \/ Part(c, "exiting")
    /\ SetState(Sid(c), "Detached")
    /\ UNCHANGED <<known, ptyVars, auditVars>>

RecvFrame(c) ==
    /\ Frames \cap Inputs # {} /\ ~h[c].gone
    /\ Goto(c, "looping", "frame")
    /\ TouchIfPresent(Sid(c))
    /\ UNCHANGED <<known, ptyVars, auditVars>>

\* The WebSocket ended.
RecvGone(c) ==
    /\ h[c].gone
    /\ Part(c, "looping")
    /\ SetState(Sid(c), "Detached")
    /\ UNCHANGED <<known, ptyVars, auditVars>>

\* idle_check.tick(): is_idle and is_exceeded_max_duration are true of a missing entry.
Tick(c) ==
    /\ Goto(c, "looping", "expiring")
    /\ Present(Sid(c)) => sessions[Sid(c)].idle \/ sessions[Sid(c)].old
    /\ UNCHANGED <<regVars, known, ptyVars, auditVars>>

Expire(c) ==
    /\ Goto(c, "expiring", "leaving")
    /\ SetState(Sid(c), "Terminating")
    /\ UNCHANGED <<known, ptyVars, auditVars>>

-----------------------------------------------------------------------------
(* handle_client_frame *)

\* Input, Resize, Ping, a second Start, a frame for another id, an invalid frame.
OtherFrame(c) ==
    /\ "other" \in Inputs
    /\ Goto(c, "frame", "looping")
    /\ UNCHANGED <<regVars, known, ptyVars, auditVars>>

\* Close and Terminate: state, audit record, then session.close().
TerminateFrame(c) ==
    /\ "terminate" \in Inputs
    /\ Goto(c, "frame", "killing")
    /\ SetState(Sid(c), "Terminating")
    /\ Record(Sid(c), "ended")
    /\ UNCHANGED <<known, ptyVars, owed>>

ClosePty(c) ==
    /\ Goto(c, "killing", "leaving")
    /\ Close({Sid(c)})
    /\ UNCHANGED <<regVars, known, reader, auditVars>>

\* detach_local_terminal
DetachFrame(c) ==
    /\ "detach" \in Inputs
    /\ Part(c, "frame")
    /\ SetState(Sid(c), "Detached")
    /\ UNCHANGED <<known, ptyVars, auditVars>>

\* reattach_local_terminal: Reattaching, Active, the send, Active again.
ReattachFrame(c) ==
    /\ "reattach" \in Inputs
    /\ Goto(c, "frame", "resuming")
    /\ SetState(Sid(c), "Reattaching")
    /\ UNCHANGED <<known, ptyVars, auditVars>>

Resume(c) ==
    /\ \/ Goto(c, "resuming", "resumed")
       \/ Goto(c, "resumed", "looping")
    /\ SetState(Sid(c), "Active")
    /\ known' = IF h[c].pc = "resumed" /\ ~h[c].gone /\ Present(Sid(c))
                THEN known \cup {sessions[Sid(c)].token} ELSE known
    /\ UNCHANGED <<ptyVars, auditVars>>

-----------------------------------------------------------------------------
(* After the loop *)

\* A variant with a fault: any session that could be reattached survives its handler.
LeaveAnyAttachable(c) ==
    /\ At(c, "leaving")
    /\ IF InState(Sid(c), Reattachable)
       THEN Return(c, "leaving")
       ELSE h' = [h EXCEPT ![c].pc = "closing", ![c].inbox = <<>>]
    /\ UNCHANGED <<regVars, known, ptyVars, auditVars>>

\* Only a session that is Detached at this moment survives its handler.
Leave(c) ==
    /\ At(c, "leaving")
    /\ IF InState(Sid(c), {"Detached"})
       THEN Return(c, "leaving")
       ELSE h' = [h EXCEPT ![c].pc = "closing", ![c].inbox = <<>>]
    /\ UNCHANGED <<regVars, known, ptyVars, auditVars>>

MarkTerminating(c) ==
    /\ Goto(c, "closing", "removing")
    /\ SetState(Sid(c), "Terminating")
    /\ UNCHANGED <<known, ptyVars, auditVars>>

\* A variant with a fault: the entry is removed and its PTY left open.
RemoveEntryOnly(c) ==
    /\ Goto(c, "removing", "recording")
    /\ RemoveIfPresent(Sid(c))
    /\ UNCHANGED <<known, ptyVars, auditVars>>

\* remove is a registry call that closes the PTY under the registry mutex.
RemoveSession(c) ==
    /\ Goto(c, "removing", "recording")
    /\ RemoveIfPresent(Sid(c))
    /\ IF Present(Sid(c)) THEN Close({Sid(c)}) ELSE UNCHANGED child
    /\ UNCHANGED <<known, reader, auditVars>>

\* A variant with a fault: the record is written only after a failure.
RecordFailedOnly(c) ==
    /\ Return(c, "recording")
    /\ audit' = IF h[c].failed THEN [audit EXCEPT ![Sid(c)] = @ \cup {"ended"}] ELSE audit
    /\ UNCHANGED <<regVars, known, ptyVars, owed>>

RecordClosed(c) ==
    /\ Return(c, "recording")
    /\ audit' = IF h[c].failed THEN audit ELSE [audit EXCEPT ![Sid(c)] = @ \cup {"ended"}]
    /\ UNCHANGED <<regVars, known, ptyVars, owed>>

-----------------------------------------------------------------------------
(* read_pty_output *)

ReaderOutput(s) ==
    /\ "output" \in Inputs
    /\ reader[s] = "reading" /\ Present(s)
    /\ Broadcast(s, "output")
    /\ UNCHANGED <<regVars, known, ptyVars, auditVars>>

\* Ok(0) or Closed: wait_exit finds the handle, or finds it taken and returns.
ReaderEof(s) ==
    /\ reader[s] = "reading"
    /\ reader' = [reader EXCEPT ![s] = IF child[s] = "reaped" THEN "done" ELSE "waiting"]
    /\ UNCHANGED <<regVars, h, known, child, auditVars>>

\* A read error: try_wait_exit collects a shell that has exited, else Error is sent.
ReaderError(s) ==
    /\ "error" \in Inputs
    /\ reader[s] = "reading"
    /\ Broadcast(s, IF child[s] = "exited" THEN "exited" ELSE "error")
    /\ child' = [child EXCEPT ![s] = IF @ = "exited" THEN "reaped" ELSE @]
    /\ reader' = [reader EXCEPT ![s] = IF child[s] = "running" THEN "waiting" ELSE "done"]
    /\ UNCHANGED <<regVars, known, auditVars>>

\* wait_exit returns and Exited is sent.
ReaderExit(s) ==
    /\ reader[s] = "waiting" /\ child[s] = "exited"
    /\ Broadcast(s, "exited")
    /\ child' = [child EXCEPT ![s] = "reaped"]
    /\ reader' = [reader EXCEPT ![s] = "done"]
    /\ UNCHANGED <<regVars, known, auditVars>>

-----------------------------------------------------------------------------
(* The HTTP terminate route and the cleanup worker *)

HttpTerminate(s) ==
    /\ "http" \in Inputs
    /\ Terminate(s)
    /\ Close({s})
    /\ owed' = [owed EXCEPT ![s] = "http"]
    /\ UNCHANGED <<h, known, reader, audit>>

HttpRecord(s) ==
    /\ owed[s] = "http"
    /\ Record(s, "ended")
    /\ owed' = [owed EXCEPT ![s] = "none"]
    /\ UNCHANGED <<regVars, h, known, ptyVars>>

\* One pass of the worker: drain_expired, then each drained session in turn.
WorkerDrain ==
    /\ \A s \in Session : owed[s] # "worker"
    /\ DrainExpired
    /\ Close(Expired)
    /\ owed' = [s \in Session |-> IF s \in Expired THEN "worker" ELSE owed[s]]
    /\ UNCHANGED <<h, known, reader, audit>>

WorkerNotify(s) ==
    /\ owed[s] = "worker"
    /\ Broadcast(s, "error")
    /\ Record(s, "ended")
    /\ owed' = [owed EXCEPT ![s] = "none"]
    /\ UNCHANGED <<regVars, known, ptyVars>>

-----------------------------------------------------------------------------
(* The environment *)

ShellExits(s) ==
    /\ child[s] = "running"
    /\ child' = [child EXCEPT ![s] = "exited"]
    /\ UNCHANGED <<regVars, h, known, reader, auditVars>>

BrowserLeaves(c) ==
    /\ h[c].pc \notin {"idle", "done"} /\ ~h[c].gone
    /\ h' = [h EXCEPT ![c].gone = TRUE]
    /\ UNCHANGED <<regVars, known, ptyVars, auditVars>>

Clock(s) ==
    /\ \/ "idle" \in Inputs /\ Idle(s)
       \/ "old" \in Inputs /\ Age(s)
    /\ UNCHANGED <<h, known, ptyVars, auditVars>>

-----------------------------------------------------------------------------
\* What a handler does without a new frame from its browser.
HandlerStep(c) ==
    \/ InsertOk(c) \/ InsertRefused(c) \/ SendStarted(c) \/ StartedFails(c)
    \/ Activate(c) \/ Subscribe(c) \/ FinishReattach(c)
    \/ RecvOutput(c) \/ RecvClosed(c) \/ RecvGone(c) \/ Tick(c) \/ Expire(c)
    \/ RelayExit(c) \/ RelaySent(c) \/ RelayFails(c)
    \/ OtherFrame(c) \/ TerminateFrame(c) \/ ClosePty(c) \/ DetachFrame(c)
    \/ ReattachFrame(c) \/ Resume(c)
    \/ Leave(c) \/ MarkTerminating(c) \/ RemoveSession(c) \/ RecordClosed(c)

ReaderStep(s) == ReaderEof(s) \/ ReaderError(s) \/ ReaderExit(s)

LocalNext ==
    \/ \E c \in Conn : HandlerStep(c) \/ RecvFrame(c) \/ BrowserLeaves(c)
    \/ \E c \in Conn, s \in Session : Start(c, s)
    \/ \E c \in Conn, s \in Session, t \in Token : ReattachOk(c, s, t) \/ ReattachRefused(c, s, t)
    \/ \E s \in Session : ReaderOutput(s) \/ ReaderStep(s) \/ ShellExits(s) \/ Clock(s)
    \/ \E s \in Session : HttpTerminate(s) \/ HttpRecord(s) \/ WorkerNotify(s)
    \/ WorkerDrain

LocalSpec == LocalInit /\ [][LocalNext]_vars

\* Handlers, reader tasks, the worker and time run. Nothing is assumed of the order in
\* which select! polls its branches, nor that a browser ever sends a frame or leaves. A
\* reader is only sure to stop once the shell is gone, and a shell whose terminal has
\* reached end of file is assumed to exit: wait_exit holds the child lock until it does.
ReaderEnds(s) == child[s] # "running" /\ ReaderStep(s)
ShellLeftBehindExits(s) == reader[s] = "waiting" /\ ShellExits(s)
TimePasses(s) == Age(s) /\ UNCHANGED <<h, known, ptyVars, auditVars>>

Fairness ==
    /\ \A c \in Conn : WF_vars(HandlerStep(c))
    /\ \A s \in Session : /\ WF_vars(ReaderEnds(s) \/ ShellLeftBehindExits(s))
                          /\ WF_vars(TimePasses(s))
                          /\ WF_vars(HttpRecord(s) \/ WorkerNotify(s))
    /\ WF_vars(WorkerDrain)

FairLocalSpec == LocalSpec /\ Fairness

-----------------------------------------------------------------------------
Attached(c, s) == Sid(c) = s /\ ~At(c, "spawned")

(* close and remove cover every path: a shell runs only while the registry     *)
(* holds its session, or while its first handler has yet to insert it. No      *)
(* interleaving of two handlers, the terminate route and the worker leaves a   *)
(* process nobody can reach.                                                   *)
NoOrphanShell ==
    \A s \in Session :
        child[s] = "running" =>
            Present(s) \/ \E c \in Conn : Sid(c) = s /\ h[c].pc = "spawned"

(* A session counted as attached has a handler that can still detach or end    *)
(* it: without one, neither a lost browser nor the idle check would ever       *)
(* release it (drain_expired reaps Detached sessions only, until max_duration).*)
AttachedHasHandler ==
    \A s \in Session :
        InState(s, {"Active", "Reattaching"}) => \E c \in Conn : Attached(c, s)

(* The audit log tells how every opened session ended: once the entry is gone   *)
(* and nobody is still about to write, TerminalOpened has a TerminalClosed,     *)
(* TerminalTerminated or TerminalFailed, whoever removed the entry.             *)
EndAudited ==
    \A s \in Session :
        /\ "opened" \in audit[s]
        /\ ~Present(s) /\ owed[s] = "none"
        /\ \A c \in Conn : ~(Sid(c) = s /\ h[c].pc = "recording")
        => "ended" \in audit[s]

(* docs/security-model.md: a short disconnect or a detach must not kill the     *)
(* PTY. A handler that left its loop for no other reason must not mark a        *)
(* session whose shell runs and that is Active or Reattaching as Terminating.   *)
DetachKeepsShell ==
    [][\A c \in Conn :
          h[c].parted /\ h[c].pc = "closing" /\ h'[c].pc = "removing" =>
              ~(InState(Sid(c), {"Active", "Reattaching"}) /\ child[Sid(c)] = "running")]_vars

(* max_duration is enforced whatever state the session is in and whoever is     *)
(* attached: every entry is removed at last.                                    *)
SessionEnds == \A s \in Session : Present(s) ~> ~Present(s)

(* A handler whose browser has gone returns; it does not wait for a message     *)
(* that no one will send.                                                       *)
HandlerEnds == \A c \in Conn : h[c].gone ~> h[c].pc = "done"

(* The reader task of every session ends and releases its blocking thread.      *)
ReaderReturns == \A s \in Session : reader[s] # "none" ~> reader[s] = "done"
=============================================================================
