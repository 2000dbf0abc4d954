------------------------------ MODULE OutputReplay ------------------------------
(***************************************************************************)
(* How the output of a local terminal reaches its browsers: the reader     *)
(* task read_pty_output, the replay buffer of the session's registry entry *)
(* and the broadcast channel every handler reads from                      *)
(* (crates/sunbolt-control/src/terminal/mod.rs and session_registry.rs).   *)
(*                                                                         *)
(* record_output numbers a message and keeps it under the registry's lock; *)
(* the broadcast follows without the lock. reattach copies the buffer and  *)
(* subscribes under the lock. A message is its sequence number; the states *)
(* of the session are SessionRegistry's subject, here an entry is there or *)
(* is not. A remote session gives nobody a reconnect token, so its channel *)
(* never has a receiver.                                                   *)
(***************************************************************************)
EXTENDS Integers, Sequences

CONSTANTS
    Viewer,      \* browser connections
    ReplayCap,   \* OUTPUT_REPLAY_CAPACITY
    ChannelCap,  \* OUTPUT_CHANNEL_CAPACITY
    MaxOutputs   \* a bound: chunks the shell prints in an instance

ASSUME ReplayAssumption == {ReplayCap, ChannelCap} \subseteq Nat \ {0} /\ MaxOutputs \in Nat

VARIABLES
    present,  \* whether the registry has the entry, in a state that can be reattached
    next,     \* next_output_sequence
    replay,
    reader,   \* read_pty_output: where it is
    held,     \* the message it has recorded and not yet broadcast
    sent,     \* everything that was broadcast; the channel keeps the last ChannelCap of it
    view      \* per connection: its handler, the replay it has yet to send, the position of its
              \* receiver, what it sent to the browser, and (history) how much of that was replay
              \* and whether the receiver ever lagged

outputVars == <<present, next, replay, reader, held, sent, view>>

None  == -1
Exit  == -2
Error == -3
Away  == [pc |-> "away", queue |-> <<>>, pos |-> 0, got |-> <<>>, replayed |-> 0, lagged |-> FALSE]

OutputTypeOK ==
    /\ present \in BOOLEAN
    /\ next \in 0..MaxOutputs
    /\ replay \in Seq(Nat) /\ Len(replay) <= ReplayCap
    /\ reader \in {"none", "reading", "waiting", "done"}
    /\ held \in Nat \cup {None}
    /\ sent \in Seq(Nat \cup {Exit, Error})
    /\ view \in [Viewer ->
          [pc : {"away", "replaying", "live", "gone"}, queue : Seq(Nat), pos : 0..Len(sent),
           got : Seq(Nat \cup {Exit, Error}), replayed : Nat, lagged : BOOLEAN]]

OutputInit ==
    /\ present = FALSE
    /\ next = 0
    /\ replay = <<>>
    /\ reader = "none"
    /\ held = None
    /\ sent = <<>>
    /\ view = [v \in Viewer |-> Away]

\* insert makes the channel; the first handler subscribes before it spawns the reader.
OpenOutput(v) ==
    /\ reader = "none"
    /\ present' = TRUE
    /\ reader' = "reading"
    /\ view' = [view EXCEPT ![v].pc = "live"]
    /\ UNCHANGED <<next, replay, held, sent>>

-----------------------------------------------------------------------------
\* push_replay
Pushed(n) == Append(IF Len(replay) = ReplayCap THEN Tail(replay) ELSE replay, n)

\* read_pty_output reads a chunk and record_output keeps it; without an entry it is dropped.
RecordOutput ==
    /\ reader = "reading" /\ held = None /\ present
    /\ next < MaxOutputs
    /\ next' = next + 1
    /\ replay' = Pushed(next)
    /\ held' = next
    /\ UNCHANGED <<present, reader, sent, view>>

BroadcastOutput ==
    /\ held # None
    /\ sent' = Append(sent, held)
    /\ held' = None
    /\ UNCHANGED <<present, next, replay, reader, view>>

\* A read fails: the exit status if there is one by now, an error if not.
ReadFails ==
    /\ reader = "reading" /\ held = None
    /\ reader' = "waiting"
    /\ \E m \in {Exit, Error} : sent' = Append(sent, m)
    /\ UNCHANGED <<present, next, replay, held, view>>

\* The end of the output, or of the loop: wait_exit, and the reader's sender is dropped.
ReaderEnds ==
    /\ reader \in {"reading", "waiting"} /\ held = None
    /\ reader' = "done"
    /\ sent' \in {sent, Append(sent, Exit)}
    /\ UNCHANGED <<present, next, replay, held, view>>

\* Any removal of the entry: terminate, the worker, a handler that ends.
EntryGoes ==
    /\ present
    /\ present' = FALSE
    /\ UNCHANGED <<next, replay, reader, held, sent, view>>

-----------------------------------------------------------------------------
\* reattach, for a connection that presents the token.
ReattachOutput(v) ==
    /\ present /\ view[v].pc = "away"
    /\ view' = [view EXCEPT ![v] = [Away EXCEPT !.pc = "replaying", !.queue = replay, !.pos = Len(sent)]]
    /\ UNCHANGED <<present, next, replay, reader, held, sent>>

SendReplay(v) ==
    /\ view[v].pc = "replaying" /\ view[v].queue # <<>>
    /\ view' = [view EXCEPT ![v].queue = Tail(@), ![v].got = Append(@, Head(view[v].queue)),
                            ![v].replayed = @ + 1]
    /\ UNCHANGED <<present, next, replay, reader, held, sent>>

\* A variant with a fault: the receiver is made when the replay has been sent.
GoLiveSubscribing(v) ==
    /\ view[v].pc = "replaying" /\ view[v].queue = <<>>
    /\ view' = [view EXCEPT ![v].pc = "live", ![v].pos = Len(sent)]
    /\ UNCHANGED <<present, next, replay, reader, held, sent>>

GoLive(v) ==
    /\ view[v].pc = "replaying" /\ view[v].queue = <<>>
    /\ view' = [view EXCEPT ![v].pc = "live"]
    /\ UNCHANGED <<present, next, replay, reader, held, sent>>

\* recv: a receiver that lost messages is told so once (Lagged) and goes on with the oldest left.
Receive(v) ==
    LET s == view[v]  oldest == Len(sent) - ChannelCap IN
    /\ s.pc = "live" /\ s.pos < Len(sent)
    /\ IF s.pos < oldest
       THEN /\ view' = [view EXCEPT ![v].pos = oldest, ![v].lagged = TRUE]
            /\ UNCHANGED present
       ELSE LET m == sent[s.pos + 1] IN
            /\ view' = [view EXCEPT ![v].pos = @ + 1, ![v].got = Append(@, m),
                                    ![v].pc = IF m = Exit THEN "gone" ELSE @]
            /\ present' = (present /\ m # Exit)
    /\ UNCHANGED <<next, replay, reader, held, sent>>

\* The channel is closed, or the browser leaves.
HandlerLeaves(v) ==
    /\ view[v].pc \in {"replaying", "live"}
    /\ view' = [view EXCEPT ![v].pc = "gone"]
    /\ UNCHANGED <<present, next, replay, reader, held, sent>>

OutputNext ==
    \/ RecordOutput \/ BroadcastOutput \/ ReadFails \/ ReaderEnds \/ EntryGoes
    \/ \E v \in Viewer :
        OpenOutput(v) \/ ReattachOutput(v) \/ SendReplay(v) \/ GoLive(v) \/ Receive(v) \/ HandlerLeaves(v)

OutputSpec == OutputInit /\ [][OutputNext]_outputVars

-----------------------------------------------------------------------------
(* What a browser is shown is one stretch of the terminal's output: the    *)
(* numbers follow one another. The replay joins the live output with at    *)
(* most one message twice, the one that was recorded and not yet broadcast *)
(* at the reattach, and nothing is missing unless the receiver lagged.     *)
ReplayJoinsLive ==
    \A v \in Viewer :
        LET got == view[v].got IN
        \A i \in 1..Len(got) - 1 :
            got[i] >= 0 /\ got[i + 1] >= 0 =>
                \/ got[i + 1] = got[i] + 1
                \/ got[i + 1] = got[i] /\ i = view[v].replayed
                \/ got[i + 1] > got[i] /\ view[v].lagged
=============================================================================
