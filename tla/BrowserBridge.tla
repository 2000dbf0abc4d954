----------------------------- MODULE BrowserBridge -----------------------------
(***************************************************************************)
(* The page's terminal bridge (crates/sunbolt-ui/src/browser_bridge.rs),   *)
(* its sockets and what the control plane does at their other ends.        *)
(*                                                                         *)
(* A function that awaits a request is suspended there and clicks and      *)
(* events run in between: such a call is an entry of `calls`. A browser    *)
(* delivers no message to a socket that close() was called on, but its     *)
(* close event still comes. Labels, sizes, texts and the look of the page  *)
(* are left out; "connected" stands for the degraded status too.           *)
(***************************************************************************)
EXTENDS Integers, Sequences, FiniteSets

CONSTANTS
    Session,     \* ids of terminal sessions
    NoSession,   \* null
    MaxSockets,  \* a bound: sockets opened
    MaxCalls,    \* a bound: calls that wait at a time
    MaxQueued,   \* a bound: messages under way to the control plane
    MaxClicks    \* a bound: what the user does

ASSUME BridgeAssumption ==
    /\ MaxSockets \in Nat /\ MaxCalls \in Nat \ {0} /\ MaxClicks \in Nat
    /\ NoSession \notin Session /\ Session \cap {"waiting", "refused", "over"} = {}

VARIABLES
    sid, tok,    \* sessionId and reconnectToken
    tabs,        \* activeSessions: the token it keeps per session, NoTab if it has no entry
    rows,        \* the detached sessions that are shown
    authed, panel, status,
    calls,
    lists,       \* whether refreshSessionLists waits for its answer
    sockets,     \* every socket that was opened; the last is `socket`
    storage,     \* sessionStorage: <<active_session_id, sessions>>
    clicks,      \* how much the user has done
    tokens,      \* the registry: the token number of a session, 0 before it and Ended after it
    onNode       \* the sessions whose terminal is an agent's

bridgeVars == <<sid, tok, tabs, rows, authed, panel, status, calls, lists, sockets, storage,
                clicks, tokens, onNode>>
pageOnly   == <<sid, tok, tabs, rows, authed, panel, status, calls, lists, storage>>
farOnly    == <<clicks, tokens, onNode>>
sessions   == <<tokens, onNode>>

NoToken == <<NoSession, 0>>
NoTab   == <<NoSession, -1>>
Ended   == -1
PageToken == (Session \X Nat) \cup {NoToken}

Calls == [kind : {"connect", "login", "mfa"}, at : {"login", "me", "mfa", "access"}, re : BOOLEAN]
ToServer == [type : {"start", "reattach", "input", "detach", "terminate"},
             session : Session \cup {NoSession}, token : PageToken]
ToPage   == [type : {"started", "reattached", "detached", "exited", "error"},
             session : Session \cup {NoSession}, token : PageToken]

\* currentStatusState: the degraded one counts as connected.
Status == {"idle", "connecting", "connected", "error", "disconnected", "closed"}

BridgeTypeOK ==
    /\ sid \in Session \cup {NoSession} /\ tok \in PageToken
    /\ tabs \in [Session -> PageToken \cup {NoTab}]
    /\ rows \subseteq Session
    /\ {authed, panel, lists} \subseteq BOOLEAN
    /\ status \in Status
    /\ calls \in Seq(Calls) /\ Len(calls) <= MaxCalls
    /\ sockets \in Seq([ready : {"connecting", "open", "closing", "closed"}, re : BOOLEAN,
                        up : Seq(ToServer), down : Seq(ToPage),
                        far : Session \cup {"waiting", "refused", "over"}])
    /\ Len(sockets) <= MaxSockets
    /\ storage \in (Session \cup {NoSession}) \X [Session -> PageToken \cup {NoTab}]
    /\ clicks \in 0..MaxClicks
    /\ tokens \in [Session -> Nat \cup {Ended}]
    /\ onNode \subseteq Session

\* What the script begins with, but for the status, which connect() sets at once.
PageBegins ==
    /\ sid = NoSession /\ tok = NoToken /\ tabs = [s \in Session |-> NoTab] /\ rows = {}
    /\ authed = FALSE /\ panel = FALSE

\* The page is loaded for the first time: connect() awaits /auth/me.
BridgeInit ==
    /\ PageBegins /\ status = "connecting"
    /\ calls = <<[kind |-> "connect", at |-> "me", re |-> FALSE]>> /\ lists = FALSE
    /\ sockets = <<>> 
    /\ storage = <<NoSession, tabs>>
    /\ clicks = 0
    /\ tokens = [s \in Session |-> 0]
    /\ onNode = {}

-----------------------------------------------------------------------------
(* The socket. *)

Current == Len(sockets)
IsOpen(c) == c > 0 /\ sockets[c].ready = "open"

\* send: nothing is sent unless the current socket is open.
Sending(socks, msgs) ==
    LET c == Len(socks) IN
    IF c > 0 /\ socks[c].ready = "open" /\ socks[c].far \in Session \cup {"waiting"}
    THEN [socks EXCEPT ![c].up = @ \o msgs] ELSE socks

\* socket.close()
Closing(socks) ==
    LET c == Len(socks) IN
    IF c > 0 /\ socks[c].ready \in {"connecting", "open"} 
    THEN [socks EXCEPT ![c].ready = "closing", ![c].re = FALSE, ![c].down = <<>>] ELSE socks

Msg(type, s, t) == [type |-> type, session |-> s, token |-> t]

HasRoom(n) == Current > 0 => Len(sockets[Current].up) + n <= MaxQueued

\* resize tells the server, for the session shown, whatever this socket is for.
Resized == IF sid = NoSession THEN <<>> ELSE <<Msg("input", sid, NoToken)>>

Opening(c) ==
    IF sockets[c].re /\ sid # NoSession /\ tok # NoToken
    THEN Msg("reattach", sid, tok) ELSE Msg("start", NoSession, NoToken)

OpenEvent(c) ==
    /\ sockets[c].ready = "connecting" /\ HasRoom(2)
    /\ status' = "connected"
    /\ sockets' = [sockets EXCEPT ![c].ready = "open", ![c].re = FALSE, ![c].up = Resized \o <<Opening(c)>>]
    /\ UNCHANGED <<sid, tok, tabs, rows, authed, panel, calls, lists, storage, farOnly>>

\* The socket could not connect, its end has closed, or the network lost it with what was under
\* way, from some message on: the status is that, of any socket.
CloseEvent(c) ==
    /\ sockets[c].ready # "closed"
    /\ \E n \in 0..Len(sockets[c].up) :
        sockets' = [sockets EXCEPT ![c].ready = "closed", ![c].re = FALSE,
                                   ![c].up = SubSeq(@, 1, n), ![c].down = <<>>]
    /\ status' = "disconnected"
    /\ UNCHANGED <<sid, tok, tabs, rows, authed, panel, calls, lists, storage, farOnly>>

-----------------------------------------------------------------------------
(* What the page remembers. *)

Persisted == storage' = <<sid', tabs'>>

\* removeSession
Forget(s) ==
    /\ tabs' = [tabs EXCEPT ![s] = NoTab]
    /\ sid' = IF sid = s THEN NoSession ELSE sid
    /\ tok' = IF sid = s THEN NoToken ELSE tok
    /\ Persisted

Learn(m) ==
    /\ sid' = m.session
    /\ tok' = m.token
    /\ tabs' = [tabs EXCEPT ![m.session] = m.token]
    /\ Persisted
    /\ status' = "connected"
    /\ UNCHANGED lists

\* refreshSessionLists, which is not awaited; two at a time have one answer.
AskLists == lists' = TRUE

MessageEvent(c) ==
    LET m == Head(sockets[c].down) IN
    /\ sockets[c].ready = "open" /\ sockets[c].down # <<>>
    /\ sockets' = [sockets EXCEPT ![c].down = Tail(@)]
    /\ \/ m.type \in {"started", "reattached"} /\ Learn(m)
       \/ /\ m.type = "detached"
          /\ tabs' = [tabs EXCEPT ![m.session] = tok]
          /\ status' = "disconnected"
          /\ AskLists /\ UNCHANGED <<sid, tok>> /\ Persisted
       \/ m.type = "error" /\ status' = "error" /\ UNCHANGED <<sid, tok, tabs, storage, lists>>
       \/ m.type = "exited" /\ Forget(m.session) /\ status' = "closed" /\ UNCHANGED lists
    /\ UNCHANGED <<rows, authed, panel, calls, farOnly>>

-----------------------------------------------------------------------------
(* Calls that wait for an answer. *)

Waiting(kind, at, re) == Append(calls, [kind |-> kind, at |-> at, re |-> re])

\* connect(re), as it starts, when the status was set to st before it.
Connect(re, st) ==
    /\ Len(calls) < MaxCalls
    /\ calls' = Waiting("connect", IF authed THEN "access" ELSE "me", re)
    /\ status' = IF authed THEN st ELSE "connecting"

Without(i) == [j \in 1..Len(calls) - 1 |-> IF j < i THEN calls[j] ELSE calls[j + 1]]

\* ensureAuthenticatedSession has its answer; login and step-up go on from it.
MeAnswers(i) ==
    /\ calls[i].at = "me"
    /\ \/ /\ authed' = TRUE /\ panel' = FALSE
          /\ AskLists
          /\ IF calls[i].kind = "mfa"
             THEN calls' = [calls EXCEPT ![i].at = "mfa"] /\ status' = "connecting"
             ELSE calls' = [calls EXCEPT ![i].at = "access", ![i].kind = "connect"] /\ status' = "idle"
       \/ /\ authed' = FALSE /\ panel' = TRUE
          /\ status' \in {"idle", "error"}
          /\ calls' = Without(i)
          /\ UNCHANGED lists
    /\ UNCHANGED <<sid, tok, tabs, rows, sockets, storage, farOnly>>

LoginAnswers(i) ==
    /\ calls[i].at = "login"
    /\ authed' = FALSE
    /\ \/ /\ calls' = [calls EXCEPT ![i].at = "me"] /\ status' = "connecting"
          /\ UNCHANGED panel
       \/ calls' = Without(i) /\ status' = "error" /\ panel' = TRUE
    /\ UNCHANGED <<sid, tok, tabs, rows, lists, sockets, storage, farOnly>>

MfaAnswers(i) ==
    /\ calls[i].at = "mfa"
    /\ \/ /\ calls' = [calls EXCEPT ![i] = [kind |-> "connect",
                          at |-> IF authed THEN "access" ELSE "me", re |-> FALSE]]
          /\ status' = IF authed THEN status ELSE "connecting"
          /\ UNCHANGED <<authed, panel>>
       \/ /\ calls' = Without(i) /\ status' = "error"
          /\ \/ UNCHANGED <<authed, panel>>
             \/ authed' = FALSE /\ panel' = TRUE
    /\ UNCHANGED <<sid, tok, tabs, rows, lists, sockets, storage, farOnly>>

NewSocket(re) == [ready |-> "connecting", re |-> re, up |-> <<>>, down |-> <<>>, far |-> "waiting"]

\* A variant with a fault: a socket that is still connecting is not closed.
ReplacedWhenOpen(re) ==
    Append(IF IsOpen(Current) THEN Closing(sockets) ELSE sockets, NewSocket(re))

Replaced(re) == Append(Closing(sockets), NewSocket(re))

\* ensureTerminalAccess has its answer; connect goes on to a new socket.
AccessAnswers(i) ==
    /\ calls[i].at = "access"
    /\ calls' = Without(i)
    /\ \/ /\ Len(sockets) < MaxSockets
          /\ sockets' = Replaced(calls[i].re)
          /\ status' = "connecting"
          /\ UNCHANGED <<authed, panel>>
       \/ authed' = FALSE /\ panel' = TRUE /\ status' = "idle" /\ UNCHANGED sockets
       \/ authed' = TRUE /\ status' = "error" /\ UNCHANGED <<panel, sockets>>
       \/ UNCHANGED <<authed, panel, status, sockets>>
    /\ UNCHANGED <<sid, tok, tabs, rows, lists, storage, farOnly>>

Attached(s) == \E c \in 1..Len(sockets) : sockets[c].far = s

\* A variant with a fault: a record that is listed replaces the one the page has.
ListsReplace ==
    /\ lists /\ lists' = FALSE
    /\ \/ /\ tabs' = [s \in Session |-> IF tokens[s] > 0 /\ Attached(s) THEN NoToken ELSE tabs[s]]
          /\ rows' = {s \in Session : tokens[s] > 0 /\ ~Attached(s)}
       \/ UNCHANGED <<tabs, rows>>
    /\ UNCHANGED <<sid, tok, authed, panel, status, calls, sockets, farOnly>>
    /\ Persisted

\* The answer of refreshSessionLists is read.
ListsArrive ==
    /\ lists /\ lists' = FALSE
    /\ \/ /\ tabs' = [s \in Session |->
                      IF tokens[s] > 0 /\ Attached(s) /\ tabs[s] = NoTab THEN NoToken ELSE tabs[s]]
          /\ rows' = {s \in Session : tokens[s] > 0 /\ ~Attached(s)}
       \/ UNCHANGED <<tabs, rows>>
    /\ UNCHANGED <<sid, tok, authed, panel, status, calls, sockets, farOnly>>
    /\ Persisted

-----------------------------------------------------------------------------
(* What the user does; a button that is disabled does nothing. *)

Click == clicks < MaxClicks /\ clicks' = clicks + 1

Busy == \E i \in 1..Len(calls) : calls[i].kind = "login"

\* syncControls: the buttons that are enabled.
Offers ==
    [mfa       |-> authed /\ ~Busy /\ status # "connecting",
     new       |-> authed /\ ~Busy /\ status # "connecting",
     terminate |-> authed /\ status \notin {"idle", "closed", "disconnected"},
     detach    |-> authed /\ sid # NoSession /\ status # "idle",
     reconnect |-> status = "disconnected" /\ sid # NoSession /\ tok # NoToken,
     retry     |-> ~Busy /\ status \notin {"connecting", "connected"}]

ClickLogin ==
    /\ Click
    /\ panel /\ ~Busy /\ Len(calls) < MaxCalls
    /\ calls' = Waiting("login", "login", FALSE)
    /\ status' = "connecting"
    /\ UNCHANGED <<sid, tok, tabs, rows, authed, panel, lists, sockets, storage, sessions>>

ClickMfa ==
    /\ Click
    /\ Offers.mfa /\ Len(calls) < MaxCalls
    /\ calls' = Waiting("mfa", "mfa", FALSE)
    /\ status' = "connecting"
    /\ UNCHANGED <<sid, tok, tabs, rows, authed, panel, lists, sockets, storage, sessions>>

ClickTab(s) ==
    /\ Click
    /\ tabs[s] # NoTab
    /\ sid' = s /\ tok' = tabs[s]
    /\ Connect(TRUE, "connecting")
    /\ UNCHANGED <<tabs, rows, authed, panel, lists, sockets, storage, sessions>>

\* Without a token of its own, a detached session is tried with the token at hand.
ClickRow(s) ==
    /\ Click
    /\ s \in rows
    /\ sid' = s
    /\ tok' = IF tabs[s] \notin {NoTab, NoToken} THEN tabs[s] ELSE tok
    /\ IF tok' # NoToken THEN Connect(TRUE, status) ELSE UNCHANGED <<calls, status>>
    /\ UNCHANGED <<tabs, rows, authed, panel, lists, sockets, storage, sessions>>

ClickReconnect ==
    /\ Click
    /\ Offers.reconnect
    /\ Connect(TRUE, "connecting")
    /\ UNCHANGED <<sid, tok, tabs, rows, authed, panel, lists, sockets, storage, sessions>>

ClickRetry ==
    /\ Click
    /\ Offers.retry
    /\ Connect(FALSE, status)
    /\ UNCHANGED <<sid, tok, tabs, rows, authed, panel, lists, sockets, storage, sessions>>

ClickNew ==
    /\ Click
    /\ Offers.new
    /\ sockets' = Closing(sockets)
    /\ sid' = NoSession /\ tok' = NoToken
    /\ Connect(FALSE, status)
    /\ UNCHANGED <<tabs, rows, authed, panel, lists, storage, sessions>>

\* sendInput, and resize when the page changes its shape.
Type ==
    /\ Click
    /\ sid # NoSession /\ HasRoom(1)
    /\ IsOpen(Current)
    /\ sockets' = Sending(sockets, <<Msg("input", sid, NoToken)>>)
    /\ UNCHANGED <<pageOnly, sessions>>

ClickTerminate ==
    /\ Click
    /\ Offers.terminate /\ HasRoom(1)
    /\ status' = "closed"
    /\ IF sid = NoSession
       THEN sockets' = Closing(sockets) /\ tok' = NoToken /\ UNCHANGED <<sid, tabs, storage>>
       ELSE /\ sockets' = Closing(Sending(sockets, <<Msg("terminate", sid, NoToken)>>))
            /\ Forget(sid)
    /\ UNCHANGED <<rows, authed, panel, calls, lists, sessions>>

\* detachTerminal, and closeUiTab, which forgets the session as well.
ClickDetach(forgets) ==
    /\ Click
    /\ Offers.detach /\ HasRoom(1)
    /\ sockets' = Closing(Sending(sockets, <<Msg("detach", sid, NoToken)>>))
    /\ status' = "disconnected"
    /\ IF forgets THEN Forget(sid)
       ELSE tabs' = [tabs EXCEPT ![sid] = tok] /\ UNCHANGED <<sid, tok>> /\ Persisted
    /\ UNCHANGED <<rows, authed, panel, calls, lists, sessions>>

\* loadWorkspace, and the record of the session that was shown.
Loaded == IF storage[1] = NoSession THEN NoTab ELSE storage[2][storage[1]]

\* cleanupTerminal, and the page is loaded again and starts from what was stored.
Reload ==
    LET t == Loaded
        left == Closing(IF sid = NoSession THEN sockets
                        ELSE Sending(sockets, <<Msg("detach", sid, NoToken)>>)) IN
    /\ Click /\ HasRoom(1)
    /\ sockets' = [c \in 1..Len(left) |-> [left[c] EXCEPT !.ready = "closed", !.re = FALSE, !.down = <<>>]]
    /\ tabs' = storage[2]
    /\ sid' = IF t = NoTab THEN NoSession ELSE storage[1]
    /\ tok' = IF t = NoTab THEN NoToken ELSE t
    /\ calls' = <<[kind |-> "connect", at |-> "me", re |-> t \notin {NoTab, NoToken}]>>
    /\ authed' = FALSE /\ panel' = FALSE /\ status' = "connecting"
    /\ rows' = {} /\ lists' = FALSE
    /\ UNCHANGED <<storage, sessions>>

-----------------------------------------------------------------------------
(* The control plane, at the other end of a socket. *)

\* The state of socket k when its handler, having sent m, goes on as `far`.
After(k, m, far) ==
    [k EXCEPT !.down = IF k.ready = "open" THEN Append(@, m) ELSE @, !.far = far,
              !.up = IF far \in Session THEN @ ELSE <<>>]

\* Every connection to session s is told m, and its handler ends.
Told(socks, s, m) ==
    [c \in 1..Len(socks) |->
        IF socks[c].far = s THEN After(socks[c], m, "over") ELSE socks[c]]

\* The first message, which must be start or reattach; the answer of an agent's terminal to a
\* start carries no token.
ServerBegins(c) ==
    LET k == sockets[c]  m == Head(k.up)
        Answer(far, reply) ==
            sockets' = [sockets EXCEPT ![c] = After([k EXCEPT !.up = Tail(@)], reply, far)] IN
    /\ k.far = "waiting" /\ k.up # <<>>
    /\ \/ /\ m.type = "start"
          /\ \/ \E s \in {s \in Session : tokens[s] = 0} :
                  /\ tokens' = [tokens EXCEPT ![s] = 1]
                  /\ \/ UNCHANGED onNode /\ Answer(s, Msg("started", s, <<s, 1>>))
                     \/ onNode' = onNode \cup {s} /\ Answer(s, Msg("started", s, NoToken))
             \/ UNCHANGED sessions /\ Answer("over", Msg("error", NoSession, NoToken))
       \/ /\ m.type = "reattach" /\ UNCHANGED onNode
          /\ IF m.token = <<m.session, tokens[m.session]>>
             THEN LET n == tokens[m.session] + 1 IN
                  /\ tokens' = [tokens EXCEPT ![m.session] = n]
                  /\ Answer(m.session, Msg("reattached", m.session, <<m.session, n>>))
             ELSE UNCHANGED tokens /\ Answer("over", Msg("error", m.session, NoToken))
       \/ /\ m.type \notin {"start", "reattach"}
          /\ Answer("refused", Msg("error", NoSession, NoToken))
          /\ UNCHANGED sessions
    /\ UNCHANGED <<pageOnly, clicks>>

\* session_id_matches
Matches(m, s) == m.session = s

ServerReads(c) ==
    LET k == sockets[c]  m == Head(k.up)  s == k.far
        read == [k EXCEPT !.up = Tail(@)]
        Answer(reply, far) == [sockets EXCEPT ![c] = After(read, reply, far)] IN
    /\ s \in Session /\ k.up # <<>>
    /\ IF ~Matches(m, s)
       THEN sockets' = Answer(Msg("error", s, NoToken), s) /\ UNCHANGED tokens
       ELSE \/ m.type = "input" /\ sockets' = [sockets EXCEPT ![c] = read] /\ UNCHANGED tokens
            \/ /\ m.type = "detach" /\ sockets' = Answer(Msg("detached", s, NoToken), "over")
               /\ UNCHANGED tokens
            \/ /\ m.type = "terminate" /\ tokens' = [tokens EXCEPT ![s] = Ended]
               /\ sockets' = Told(sockets, s, Msg("exited", s, NoToken))
    /\ UNCHANGED <<pageOnly, clicks, onNode>>

\* The handler sees its browser gone, when it has read all it sent.
ServerLeaves(c) ==
    /\ sockets[c].ready \in {"closing", "closed"} /\ sockets[c].up = <<>>
    /\ sockets[c].far \in Session \cup {"waiting"}
    /\ sockets' = [sockets EXCEPT ![c].far = "over"]
    /\ UNCHANGED <<pageOnly, farOnly>>

\* The shell exits, or the terminate route is asked for this session.
ServerEnds(s) ==
    /\ tokens[s] > 0
    /\ tokens' = [tokens EXCEPT ![s] = Ended]
    /\ sockets' = Told(sockets, s, Msg("exited", s, NoToken))
    /\ UNCHANGED <<pageOnly, clicks, onNode>>

BridgeNext ==
    \/ \E c \in 1..Len(sockets) :
        \/ OpenEvent(c) \/ CloseEvent(c) \/ MessageEvent(c)
        \/ ServerBegins(c) \/ ServerReads(c) \/ ServerLeaves(c)
    \/ \E i \in 1..Len(calls) : MeAnswers(i) \/ LoginAnswers(i) \/ MfaAnswers(i) \/ AccessAnswers(i)
    \/ \E s \in Session : ClickTab(s) \/ ClickRow(s) \/ ServerEnds(s)
    \/ ListsArrive
    \/ ClickLogin \/ ClickMfa \/ ClickReconnect \/ ClickRetry \/ ClickNew
    \/ Type \/ ClickTerminate \/ ClickDetach(TRUE) \/ ClickDetach(FALSE) \/ Reload

BridgeSpec == BridgeInit /\ [][BridgeNext]_bridgeVars

-----------------------------------------------------------------------------
(* Of all sockets the page ever opened only the current one can be open or *)
(* opening, however many calls of connect overlap: what the page shows and *)
(* what the user types belong to one connection.                           *)
OneOpenSocket ==
    \A c \in 1..Len(sockets) : sockets[c].ready \in {"connecting", "open"} => c = Current

(* While the page is attached to a session of this host and has read what  *)
(* it was sent, it can come back after a click, a lost connection or a     *)
(* reload: the token of its entry, in memory and in sessionStorage, is the *)
(* registry's, although late answers of refreshSessionLists write entries  *)
(* without a token and the session that is shown changes under the socket. *)
AttachedCanReturn ==
    LET s == sockets[Current].far IN
    IsOpen(Current) /\ s \in Session /\ sockets[Current].down = <<>> =>
        /\ storage[2][s] = tabs[s]
        /\ s \notin onNode => tabs[s] = <<s, tokens[s]>>

(* The page's connections are understood: each begins with start or        *)
(* reattach, which receive_start_message demands, so that a page that lost *)
(* its socket can come back to its session.                                *)
ConnectionsBegin == \A c \in 1..Len(sockets) : sockets[c].far # "refused"
=============================================================================
