---------------------------- MODULE SessionRegistry ----------------------------
(***************************************************************************)
(* TerminalSessionRegistry of the control plane                            *)
(* (crates/sunbolt-control/src/terminal/session_registry.rs): the map from *)
(* session ids to tracked sessions behind one mutex. Every method takes    *)
(* the mutex once, so every method is one action here, and Next lets any   *)
(* caller invoke any of them in any order with any arguments: what holds   *)
(* of this specification holds whatever the WebSocket handlers, the HTTP   *)
(* routes and the cleanup worker do.                                       *)
(*                                                                         *)
(* Time is two flags per session: `idle` (last_activity is at least the    *)
(* idle timeout ago) and `old` (created_at is at least the maximum         *)
(* duration ago). Output and replay are the subject of another module.     *)
(***************************************************************************)
EXTENDS TerminalLifecycle, Nodes, FiniteSets, Integers

CONSTANTS
    Session,      \* the ids next_session_id hands out, each once
    User,         \* actor e-mail addresses
    Token,        \* the values random_token can draw
    Absent,       \* no entry under this id
    MaxSessions, MaxPerUser, MaxPerNode    \* TerminalSessionConfig

ASSUME LimitsAssumption ==
    /\ MaxSessions \in Nat
    /\ MaxPerUser \in Nat
    /\ MaxPerNode \in Nat

\* TrackedTerminalSession
Tracked ==
    [state : TerminalSessionState, owner : User, node : Node \cup {NoNode},
     backend : {"Local", "Remote"}, token : Token, idle : BOOLEAN, old : BOOLEAN]

ASSUME AbsentAssumption == Absent \notin Tracked

VARIABLES
    sessions,  \* the map: an entry or Absent for every id
    issued,    \* ids that were inserted at some time
    drawn,     \* tokens random_token has returned
    spent,     \* tokens with which a reattach succeeded
    closed     \* local PTYs close_backend was called on

regVars == <<sessions, issued, drawn, spent, closed>>

TypeOK ==
    /\ sessions \in [Session -> Tracked \cup {Absent}]
    /\ issued \in SUBSET Session
    /\ drawn \in SUBSET Token
    /\ spent \in SUBSET Token
    /\ closed \in SUBSET Session

RegInit ==
    /\ sessions = [s \in Session |-> Absent]
    /\ issued = {}
    /\ drawn = {}
    /\ spent = {}
    /\ closed = {}

-----------------------------------------------------------------------------
Present(s)   == sessions[s] # Absent
Live         == {s \in Session : Present(s)}
\* The entries insert_backend counts against a limit.
Counted(s)   == Present(s) /\ sessions[s].state \notin Terminal
OfUser(u)    == {s \in Session : Counted(s) /\ sessions[s].owner = u}
OfNode(n)    == {s \in Session : Counted(s) /\ sessions[s].node = n}
StateOf(s)   == sessions[s].state
InState(s, S) == Present(s) /\ StateOf(s) \in S

\* A variant with a fault: the limits are compared with <= before the insertion.
AdmissibleOneTooMany(u, n) ==
    /\ Cardinality(Live) <= MaxSessions
    /\ Cardinality(OfUser(u)) <= MaxPerUser
    /\ Cardinality(OfNode(n)) <= MaxPerNode

\* insert_backend's three checks. None (NoNode) is counted like a node.
Admissible(u, n) ==
    /\ Cardinality(Live) < MaxSessions
    /\ Cardinality(OfUser(u)) < MaxPerUser
    /\ Cardinality(OfNode(n)) < MaxPerNode

\* A variant with a fault: owner and node of the new entry are swapped.
InsertSwapped(s, u, n, backend) ==
    /\ s \notin issued
    /\ Admissible(u, n)
    /\ \E t \in Token \ drawn :
        /\ sessions' = [sessions EXCEPT ![s] =
              [state |-> "Starting", owner |-> n, node |-> u, backend |-> backend,
               token |-> t, idle |-> FALSE, old |-> FALSE]]
        /\ drawn' = drawn \cup {t}
    /\ issued' = issued \cup {s}
    /\ UNCHANGED <<spent, closed>>

InsertBackend(s, u, n, backend) ==
    /\ s \notin issued
    /\ Admissible(u, n)
    /\ \E t \in Token \ drawn :
        /\ sessions' = [sessions EXCEPT ![s] =
              [state |-> "Starting", owner |-> u, node |-> n, backend |-> backend,
               token |-> t, idle |-> FALSE, old |-> FALSE]]
        /\ drawn' = drawn \cup {t}
    /\ issued' = issued \cup {s}
    /\ UNCHANGED <<spent, closed>>

\* insert: handle_terminal_socket passes node_id None for a local PTY.
Insert(s, u) == InsertBackend(s, u, NoNode, "Local")

\* insert_remote
InsertRemote(s, u, n) == InsertBackend(s, u, n, "Remote")

\* A variant with a fault: the transition table is not consulted.
AfterAnySetState(s, st) ==
    IF Present(s) THEN [sessions EXCEPT ![s].state = st] ELSE sessions

\* What set_state leaves behind: a request the table does not allow is dropped silently.
AfterSetState(s, st) ==
    IF Present(s) /\ CanTransition(StateOf(s), st)
    THEN [sessions EXCEPT ![s].state = st]
    ELSE sessions

SetState(s, st) ==
    /\ sessions' = AfterSetState(s, st)
    /\ UNCHANGED <<issued, drawn, spent, closed>>

\* reattach's conditions, in its order: owner, state, token.
MayReattach(s, t, u) ==
    /\ Present(s)
    /\ sessions[s].owner = u
    /\ StateOf(s) \in Reattachable
    /\ sessions[s].token = t

\* A variant with a fault: the reconnect token survives the reattach.
ReattachKeepingToken(s, t, u) ==
    /\ MayReattach(s, t, u)
    /\ sessions' = [sessions EXCEPT ![s].state = "Reattaching", ![s].idle = FALSE]
    /\ spent' = spent \cup {t}
    /\ UNCHANGED <<issued, drawn, closed>>

\* reattach assigns Reattaching without consulting can_transition_to.
Reattach(s, t, u) ==
    /\ MayReattach(s, t, u)
    /\ \E new \in Token \ drawn :
        /\ sessions' = [sessions EXCEPT ![s].token = new,
                                        ![s].state = "Reattaching",
                                        ![s].idle = FALSE]
        /\ drawn' = drawn \cup {new}
    /\ spent' = spent \cup {t}
    /\ UNCHANGED <<issued, closed>>

Touch(s) ==
    /\ Present(s)
    /\ sessions' = [sessions EXCEPT ![s].idle = FALSE]
    /\ UNCHANGED <<issued, drawn, spent, closed>>

\* remove_tracked for a set of ids. close_backend closes a local PTY and does
\* nothing for a remote one.
RemoveTracked(S) ==
    /\ sessions' = [s \in Session |-> IF s \in S THEN Absent ELSE sessions[s]]
    /\ closed' = closed \cup {s \in S : Present(s) /\ sessions[s].backend = "Local"}
    /\ UNCHANGED <<issued, drawn, spent>>

Remove(s)    == Present(s) /\ RemoveTracked({s})

\* terminate assigns Terminating and removes the entry under the same lock.
Terminate(s) == Present(s) /\ RemoveTracked({s})

\* A variant with a fault: max_duration is applied to Detached sessions only.
ExpiredDetachedOnly ==
    {s \in Session : InState(s, {"Detached"}) /\ (sessions[s].old \/ sessions[s].idle)}

\* drain_expired
Expired ==
    {s \in Session :
        /\ Counted(s)
        /\ \/ sessions[s].old
           \/ StateOf(s) = "Detached" /\ sessions[s].idle}

DrainExpired == Expired # {} /\ RemoveTracked(Expired)

CloseSessionsForNode(n) == OfNode(n) # {} /\ RemoveTracked(OfNode(n))

\* The clock: last_activity and created_at recede past their limits.
Idle(s) ==
    /\ Present(s)
    /\ sessions' = [sessions EXCEPT ![s].idle = TRUE]
    /\ UNCHANGED <<issued, drawn, spent, closed>>

Age(s) ==
    /\ Present(s)
    /\ sessions' = [sessions EXCEPT ![s].old = TRUE]
    /\ UNCHANGED <<issued, drawn, spent, closed>>

-----------------------------------------------------------------------------
\* The states callers pass to set_state (detach passes Detached).
Requested == {"Active", "Detached", "Reattaching", "Terminating", "Terminated"}

Next ==
    \/ \E s \in Session, u \in User : Insert(s, u)
    \/ \E s \in Session, u \in User, n \in Node : InsertRemote(s, u, n)
    \/ \E s \in Session, st \in Requested : SetState(s, st)
    \/ \E s \in Session, t \in Token, u \in User : Reattach(s, t, u)
    \/ \E s \in Session : Touch(s)
    \/ \E s \in Session : Remove(s)
    \/ \E s \in Session : Terminate(s)
    \/ DrainExpired
    \/ \E n \in Node : CloseSessionsForNode(n)
    \/ \E s \in Session : Idle(s)
    \/ \E s \in Session : Age(s)

Spec == RegInit /\ [][Next]_regVars
-----------------------------------------------------------------------------
(* The session limits of insert_backend hold at every moment, not only when an *)
(* entry is admitted: no later set_state, reattach or expiry can turn an entry *)
(* that is not counted (is_terminal) back into one that is.                    *)
LimitsHold ==
    /\ Cardinality(Live) <= MaxSessions
    /\ \A u \in User : Cardinality(OfUser(u)) <= MaxPerUser
    /\ \A n \in Node \cup {NoNode} : Cardinality(OfNode(n)) <= MaxPerNode

(* reattach rotates the reconnect token: a token that let one browser in is   *)
(* never the current token of any session again, and no two sessions share one. *)
TokensSound ==
    /\ \A s \in Live : sessions[s].token \in drawn \ spent
    /\ \A s, r \in Live : sessions[s].token = sessions[r].token => s = r

(* The life of an id as TerminalAccess sees it. *)
Phase(s) ==
    CASE ~Present(s) /\ s \notin issued -> "new"
      [] ~Present(s) /\ s \in issued    -> "gone"
      [] InState(s, {"Created", "Starting"}) -> "opening"
      [] InState(s, Reattachable)       -> "open"
      [] OTHER                          -> "ending"

Access == INSTANCE TerminalAccess
              WITH phase <- [s \in Session |-> Phase(s)], Capacity <- MaxSessions

(* Every sequence of registry calls is a life TerminalAccess allows: an id is  *)
(* admitted below max_sessions, opens once, and after set_state(Terminating),  *)
(* terminate, remove, drain_expired or close_sessions_for_node no reattach or  *)
(* late set_state(Active) brings it back.                                      *)
ImplementsAccess == Access!Spec
=============================================================================
