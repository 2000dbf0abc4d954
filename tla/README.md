# Sunbolt: a TLA+ model of the control plane, its agents and its browsers

Sunbolt gives browsers terminals: a local PTY on the control plane host, or a PTY on an
agent node that keeps an outbound connection to the control plane. This directory holds
TLA+ modules translated from the Rust sources, TLC instances that check them, and TLAPS
proofs about them. `PROJECT.json` lists components, runs, mutants, the map from definitions
to source lines, findings, hazards and theorems.

## Inventory

| component | state it keeps | operations | what makes it hard | what makes it correct |
|---|---|---|---|---|
| lifecycle table (`sunbolt-terminal`) | nine states | `can_transition_to`, `is_reattachable`, `is_terminal` | callers ignore refusals | an ended session never returns |
| session registry (`terminal/session_registry.rs`) | id → entry (state, owner, node, backend, token, activity, creation, replay) behind one mutex | insert, set_state, detach, reattach, touch, remove, terminate, drain_expired, close_sessions_for_node | many callers in any order | limits, one use per token, one life per id |
| local handlers (`terminal/mod.rs`) and PTY (`sunbolt-terminal`) | one task per WebSocket, one blocking reader per PTY, broadcast channel | start, reattach, frames, output, idle checks, end | detach and lookup are two steps; several handlers of one session; locks held while waiting | no orphaned shell, attached means a handler, every end audited, everything ends |
| remote handler (`terminal/mod.rs`) | one task per WebSocket, shared event receiver of the link | open, relay, frames, end | start before admission; event receiver locked for a handler's life; events of all sessions in one channel; full channels | no forgotten terminal, lost link ends handlers, revocation is final |
| output (`terminal/mod.rs`, `session_registry.rs`) | sequence number and replay buffer of an entry; broadcast channel | record, broadcast, copy and subscribe | recorded and broadcast are two steps; a receiver lags | the replay joins the live output |
| agent links (`agent/mod.rs`) | node → connection; one task per WebSocket; two bounded channels | negotiate, register, replace, disconnect, heartbeat | replacement, equal transport ids, dead sockets | a handler unregisters its own link only |
| long poll (`agent/mod.rs`) | one link shared by all requests: command receiver and message ids behind mutexes | poll: events in, up to a batch of commands out | requests overlap and are dropped at any await; nothing ends a silent link | no command twice, ids in their order |
| agent (`sunbolt-agent`) | terminals by session id; identity file | start, input, resize, close, poll exit; enroll, heartbeat | crash between enrollment and saving | commands act on the right terminal |
| node enrollment (`node.rs`) | tokens, nodes, credentials, heartbeats, in memory only | create token, enroll, heartbeat, authenticate, rotate, revoke | restarts forget everything and reuse ids; an answer is lost; the identity file is written in two steps | a token makes one node; a node stays its host's |
| routing (`routing.rs`) | failures per endpoint | select, record success or failure | links and healths are read apart; an outcome comes long after the choice | an endpoint put out of use stays so (there is no way back) |
| rate limiter (`rate_limit.rs`) | attempts per key | check_and_record | window edges | never more than the limit per window |
| authentication (`sunbolt-auth`, `routes/auth.rs`) | users, sessions | login, step up, log out, purge, check before a terminal | a request takes several locks, one after the other | a session that ended stays ended; a grant is fresh |
| MFA factors (`sunbolt-auth`) | factors, code batches, challenges, passkeys | enroll, generate, regenerate, verify | looked up under one lock, used under another | one use, by the owner; replaced batches are dead |
| RBAC (`sunbolt-auth`) | workspaces, roles, grants, members, node mappings | create, grant, add, map, check | the node's workspace and the permission are read under two locks | nobody passes without the permission in a workspace the node was in |
| audit (`sunbolt-audit`) | event list, last hash | record, export, verify | time read before the lock; copies are damaged | linear chain; a verified copy is what the log said |
| browser bridge (`sunbolt-ui/browser_bridge.rs`) | variables of one page, its storage, its sockets | every button, every message, every answer | answers and messages of an earlier click or socket | one open socket; an attached page can come back to its session |
| schema (`migrations`) | tables and their foreign keys | up, down, rows that come and go | order of tables that reference one another | no migration breaks a reference; a deleted owner leaves records only |
| protocol (`sunbolt-protocol`) | none | validation, ids, backoff | saturation | monotone ids |
| storage traits, HA, assembly, pages | none in memory on the modelled paths | | | not modelled |

The parts meet in shared state: handlers, routes, worker and revocation all call the one
registry; the remote handler also calls the agent connection registry and talks through a
link's command channel (bounded, awaiting) and event channel (bounded, dropping); output
reaches handlers by a broadcast channel that drops the oldest message. A terminal request is
first let through by authentication, the limiter, the permissions and (for a node) the
router; these are separate stores, and each answers before the next is asked.

## Modules

* `TerminalLifecycle` - the table. No state.
* `Nodes` - the set of nodes, and `NoNode` for the control plane host.
* `SessionRegistry` - the registry. Each method takes the mutex once, so each is an action.
  `Next` lets any caller call anything with any arguments. `idle` and `old` stand for the
  comparisons of `last_activity` and `created_at` with their limits. `close_backend` puts
  local PTYs into `closed`. A fresh token is one never drawn before: the code draws 32 random
  bytes, and two equal draws are left out. `Created` is in the table but no entry starts there.
* `TerminalAccess` - the abstract promise: new, opening, open, ending, gone, and a capacity.
* `LocalTerminal` - everything about a terminal of the control plane host. A handler record
  `h[c]` has a program counter whose values are the places between two critical sections or
  awaits of `handle_terminal_socket` and `handle_terminal_reattach`; `reader[s]` is
  `read_pty_output`; `child[s]` the shell; `owed[s]` a removal whose audit record is still to
  come; `audit[s]` which kinds of record exist. The three places that write to a browser
  succeed or, when the browser is gone, fail.
* `AgentConnections` - links of agents: negotiate, register (replacing), the loop's exits,
  disconnect, with the trust and liveness of nodes. Actions only; `RemoteTerminal` runs them.
* `RemoteTerminal` - the remote handler `r[s]`, `cmds[l]` (the command channel and the wire
  behind it), `events[l]` (the event channel), the agent's terminals `term[s]`, a
  `CloseTerminal` still owed for a removed entry `due[s]`, and `revoker[n]`, a revoke_node
  request. A handler is named by its session because a remote session cannot be reattached:
  `agent_event_to_browser_message` sends `reconnect_token: None` and the session list omits
  it, so `handle_remote_attached_socket` cannot be entered by a browser of this system. The
  router may refuse any request; a relay is never executed by the code.
* `OutputReplay` - how output reaches browsers. A message is its sequence number; recording
  it (under the registry's lock) and broadcasting it (without) are two actions, and a reattach
  copies the buffer and subscribes in between or not.
* `LongPoll` - the long-poll route. Every request is a handler that can be dropped at an await;
  `links[n]` is the shared command queue, its lock and the message ids; `task[s]` a browser's
  socket that waits for room in the queue, and the cleanup worker, which waits there too.
* `Accounts` (with `RateLimiter`, `Requests`, `Clock`) - users and sessions under the requests
  of `routes/auth.rs`. `req[c]` says between which two locks the request of caller `c` is and
  what it has read. `check_and_record` reads the clock under its lock: one step.
* `Factors` - recovery codes, TOTP, passkeys. `call[c]` says between which two locks an
  operation is. Random values are drawn once; a TOTP code is its factor and its counter. The
  module reads the clock only to number TOTP periods, so it has a `period` of its own.
* `Permissions` - RBAC. `was[c]` remembers the workspaces a node was in during a check.
* `NodeEnrollment` - the node registry with agents that crash, restart and lose answers, the
  identity file in its two writes, and restarts of the control plane. A rotated secret is the
  answer to the administrator (`handed`); nothing in the code carries it to the agent, so an
  external action (`InstallRotated`) puts it into the file of the node's host, whose agent then
  starts with it and is admitted like with any valid credential of the node. `fitted`
  remembers which rotated secrets were installed.
* `AuditChain` - the log. A hash is what was hashed; the colon that joins the hashed address
  and message is kept, because it is what two different events can share.
* `RouteHealth` - the router: links read, relays read, direct tried, relays tried, and the
  outcome recorded when it is known.
* `BrowserBridge` - the page. `calls` are the functions that wait for an answer; `sockets` all
  it ever opened, with messages in both directions and the state of the handler at the far end.
  A socket can be lost by the network with what was under way from some message on. `onNode`
  are the sessions of agents, whose `started` carries no token.
* `Schema` - the tables, their references, what each migration makes and drops, and rows.
* `MCSessionRegistry`, `MCLocalTerminal`, `MCRemoteTerminal`, `MCBrowserBridge`, `MCLongPoll` -
  TLC instances. `MCControlStores` is the instance of the ten components above that share no
  lock with the terminals: its specification is their disjoint union. `part` is chosen at the
  start, the chosen component runs, the others stay as they began. Nothing is lost by that:
  none of them calls another while it holds its lock, and what one answers to another is an
  input of the other (any permission answer, any limiter state, any route).
* Proofs: `SessionRegistryProofs` (with the refinement of `TerminalAccess`), which
  `LocalTerminalProofs` and `RemoteTerminalProofs` extend; `AccessProofs` (`Permissions`,
  `Accounts`, limiters, `Factors`); `NodeProofs` (`RouteHealth`, `NodeEnrollment`);
  `AuditChainProofs`; `StreamProofs` (`OutputReplay`, `BrowserBridge`, `LongPoll`);
  `ControlStoresProofs` (`Schema`, and the composition `MCControlStores` of all of these).

Definitions commented "A variant with a fault" are the alternatives the mutants in
`PROJECT.json` put in place of the definition that follows: each shows that its property can
fail.

## Runs

| run | instance | what it shows |
|---|---|---|
| `registry` | 3 ids, 2 places, 2 users, 1 node + host, 4 tokens | types, limits, single-use tokens, and that the registry implements `TerminalAccess` |
| `local_terminal` | 2 sessions for 1 place, 2 browsers, 2 tokens, channel of 1 | `NoOrphanShell`, `AttachedHasHandler`, `EndAudited`; also for the shell of a session that is refused |
| `local_liveness` | 1 session, 2 browsers, output, frames, timeouts | `SessionEnds`, `HandlerEnds`, `ReaderReturns` |
| `remote` | 2 sessions for 1 place, 1 link, channels of 1 | `NoForgottenTerminal` with revocation, lost links, failing starts |
| `remote_liveness` | 2 sessions, 1 link, channels of 1 | `LostLinkEndsHandlers`, `RemoteSessionEnds`, `TerminalCloses` |
| `control_stores` | ten components, one at a time (below) | the properties of the stores and protocols beside the terminals |
| `detach_kills`, `duplicate_link`, `revoked_node`, `exit_mixup`, `resize_first`, `silent_poll` | as small as shows it | the six findings below |

`control_stores` shows, in each component's part:

| component | instance | properties |
|---|---|---|
| `Accounts` | 2 requests, 1 user, 2 session tokens, window of 2 with 1 attempt, clock to 2 | `AttemptsSpread`, `EndedStaysEnded`, `GrantsAreFresh` |
| `Factors` | 2 callers, 2 users, 2 codes, 2 challenges, 1 factor each, skew of 1, periods 0 to 3, the code of period 1 | `RedeemedOnce`, `ReplacedCodesDead`, `OneCredentialPerChallenge`, `TotpCodesExpire` |
| `NodeEnrollment` | 2 hosts, 2 tokens, 2 secrets, 2 requests in flight, 1 restart | `OneNodePerToken`, `NodesKeepTheirHost`, `OnlineEndsWithCredential`, `IdentityKept` |
| `Permissions` | 1 request, 1 user, 1 node, 2 workspaces, 2 roles, 2 permissions, 3 grants | `AllowedInItsWorkspace`, `DeniedForAReason` |
| `AuditChain` | 2 recorders, 2 events, addresses and messages with the colon in either | `LogIsChained`, `VerifiedCopyIsPrefix` |
| `OutputReplay` | 2 viewers, buffer of 2, channel of 1, 3 outputs | `ReplayJoinsLive` |
| `BrowserBridge` | 2 sessions, 2 sockets, 2 waiting calls, 2 clicks | `OneOpenSocket`, `AttachedCanReturn` |
| `LongPoll` | 2 requests, 1 terminal, queue of 1, batch of 2 | `IdsOrderCommands` |
| `RouteHealth` | 2 requests, 2 nodes, threshold of 2 | `UnhealthyIsFinal` |
| `Schema` | every table and migration, up to 6 rows | `MigrationsApply`, `OnlyRecordsOutlive` |

Bounds. Two browsers are the least with which one can reattach while the other leaves, and a
third would meet the same steps. Two sessions are the least that compete for a place or for
the event receiver. Channels of capacity 1 make "full" happen at once; the code's are 128
(commands, events) and larger (broadcast). Two tokens allow one rotation; the registry run
has four, and the theorems any number. `Inputs` chooses what browsers, agents, operators and
the clock may do: every kind of input is in some passing run, and the runs differ so that
each stays within minutes. In `control_stores` two of a thing are the least that overlap, get
mixed up or replace one another (two callers between the same two locks, a code and its
successor, a host and the one that gets its node's id after a restart, a workspace and the
next); a batch of 2 with a queue of 1 lets a poll take a command that was sent while it
polled, and a threshold of 2 lets one request fail while another is under way. The skew is
the code's, so the code of period 1 is accepted in the periods 0, 1 and 2, and period 3 is the
first in which it must not be. Two clicks leave a session and enter it or another again, and
six rows reach every chain of references.
The components share model values to keep the symmetry group small: no component compares
its values with another's. Symmetry is used in safety runs only. `CHECK_DEADLOCK FALSE`
everywhere: ids, links and tokens are used once, so an instance comes to an end.

Fairness. Tasks that can run do run (tokio's scheduler), a link's handler sees commands and
the death of its socket (its liveness timeout), time passes, the worker ticks. Nothing is
assumed of the order of `select!` branches, of browsers, agents or operators, or that anyone
sends a frame. `ReaderReturns` needs one assumption about the world: a shell whose terminal
has reached end of file exits, because `wait_exit` holds the child lock until it does and
`close` waits for that lock inside the registry mutex. A write to a socket is taken to end.
`silent_poll` assumes that the tasks of the control plane run (requests, browser tasks, the
worker, the coming of age of sessions) and nothing of the agent: that it stops asking is the
case in question, and no other fairness would bring it back.

## Findings

* `detach_kills`: after its loop a handler looks the state up again and kills the session
  unless it is `Detached` at that moment; a quick reattach in between is killed with it.
* `duplicate_link`: an agent gives all its links one transport id, so the end of a replaced
  link unregisters its successor.
* `revoked_node`: `node_is_online` is checked several awaits before `insert_remote`; a request
  caught in between opens a session on a revoked node, and the session's own sender keeps
  the link alive.
* `exit_mixup`: a remote handler ends its own session for the exit of another one.
* `resize_first`: a page that shows a session sends `resize` when its socket opens, before
  `reattach`; the handler demands `start` or `reattach` first and refuses. No reattach the
  page asks for is read.
* `silent_poll`: a long-poll link has no liveness timeout, and the handlers waiting for room in
  its channel keep it open. The cleanup worker waits there too, and then expires no session of
  any node.

Seen while modelling, and not runs of their own, since no document promises otherwise or the
disagreement is about a test's wording:

* `created_at` is read before the log's lock, so it may run backwards along the chain; a test
  (`log.rs:162`) says it does not decrease, of events recorded one after the other.
* `verify_chain` accepts a copy that is cut at its end. `VerifiedCopyIsPrefix` says what
  remains: an initial part. Address and message are joined by a colon before they are hashed,
  so a colon can move from one to the other unseen.
* A long-poll response that is lost takes its commands with it, and a request that is repeated
  brings its events twice: the envelopes' `sequence` is not looked at. `IdsOrderCommands`
  speaks of responses, not of their arrival.
* A long-poll link has the transport id of the node's WebSocket link; the end of the old
  WebSocket handler removes it (the same cause as `duplicate_link`).
* A direct route that failed three times is not selected again, and only a selected route can
  record a success. `UnhealthyIsFinal` states this as it is.
* Node ids start at 1 again after a restart of the control plane; an identity of before is
  refused because its secret is unknown, which `NodesKeepTheirHost` depends on.
* A viewer that lags misses output and goes on (`terminal/mod.rs:374`), where the comment at
  1688-1691 says that a blocking send slows the reader down; the broadcast never blocks.
* A remote terminal's `started` carries no reconnect token (`terminal/mod.rs:1452-1457`): the
  page cannot reattach to an agent's terminal, and a click on its tab opens a new terminal.
  `AttachedCanReturn` therefore speaks of sessions of the control plane host.
* A click on a detached session of which the page has no token sends the token of the session
  shown before (`browser_bridge.rs:375-384`); the registry refuses it.
* A rotated node secret is returned to the administrator only. The agent goes offline with its
  own credential unless somebody installs the new one (`OnlineEndsWithCredential`).
* Some `create_table` calls carry a non-unique `.index(...)` (`m20260502_000002:49-53`,
  `000003:62`, `000004:47,52`, `000006:52`, `000007:47-51`, `000009:60`). sea-query 0.32.7
  renders an inline index for PostgreSQL as `CONSTRAINT "idx-..." (column)`, which is no
  constraint PostgreSQL knows, so `CREATE TABLE` would be refused there. The library is not part
  of this repository and indexes are not modelled: `MigrationsApply` is about foreign keys and
  does not show it.
* `audit_logs` has no column for the hashes of the chain, its `SET NULL` would change a field
  that is hashed, and `workspace_nodes.node_id` references nothing.

## Proofs

For all values of the constants that satisfy the assumptions named in the modules: limits,
lifetimes, clocks and bounds are naturals, channel capacities and the thresholds of limiter
and router are positive, and a page can wait for one call at least; `NoNode`,
`Nobody`, `NoPeer` and `NoSession` are not members of the sets they mark the absence from, and
no session is named like a state of a handler (`waiting`, `refused`, `over`); `Absent` is no user (factors), no workspace (permissions) and no number
(enrollment, where node ids are numbers); the permissions of an instance are among `NodePermission`. Each theorem
follows from an inductive invariant; what an invariant adds to the types, and why, is said here.

Terminals and the registry:

* `RegistryTypeCorrect`, `RegistryLimits`, `RegistryTokens`: `TypeOK` is inductive. The limits
  need the invariant that the counted sets are finite, and the lemma that no call but an
  insertion enlarges one: the table has no row out of a terminal state that leads to a
  counted one. Tokens need that every entry's token was drawn and not spent.
* `RegistryImplementsAccess`: each call maps to a step of `TerminalAccess` or a stutter; the
  invariant is that an entry's id was issued.
* `LocalTypeCorrect` and `LocalUsesRegistry`, hence `LocalLimits`, `LocalTokens` and
  `LocalImplementsAccess`: every step of the local terminal is a registry step. `LocalInv` adds
  to the types that a handler past its first message has a session and that a granted token
  is a token.
* `NoOrphan`: one lemma per group of actions says which of "the entry is kept", "a spawned
  shell stays with its handler", "no new shell" it keeps.
* `AttachedStaysHandled`, `EveryEndAudited`: neither property is inductive: both depend on
  who else may hold the session, so `LifeInv` says that for each point of its life: its id is issued once
  and its PTY made once (`IdsOK`); until it is active it is its first handler's alone
  (`OpeningOK`); while it counts as attached some handler works for it (`AttachedOK`); whoever
  removes the entry owes the record or has written it (`EndedOK`). TLC has checked `LifeInv` on
  the instance of `local_terminal`.
* `RemoteTypeCorrect`, `RemoteUsesRegistry`, `RemoteLimits`, `RemoteTokens`,
  `RemoteImplementsAccess`: the same for the remote terminal.
* `NothingForgotten`: `NoForgottenTerminal` for any number of sessions, links and nodes. The
  strengthening says that a command travels on its session's own link, that nothing was
  closed or admitted for a handler that has not sent its start, that a close never overtakes
  a start, and that chosen links are registered ones.

Who may do what (`AccessProofs`):

* `LimitersSpreadAttempts`: a bucket is the end of the list of all attempts that were let pass,
  and what it forgot is stale (`Remembers`). Popping from the front and counting what is left
  then bounds every window, not only the current one.
* `EndedSessionsStayEnded`, `TerminalsGrantedFresh`: `SessionsOK` ties each stored session to
  the history of its token (when it was drawn, when it was itself stepped up, that it has not
  ended), and `RequestsOK` says that a request past its first lock carries a token. So the
  check that grants, whatever locks were taken before it, speaks of that history.
* `AllowedOnlyInWorkspace`, `DenialsHaveReasons`: `Fits` says how a check fits the workspaces
  its node was in; granting and moving only ever add to what it needs.
* `CodesRedeemedOnce`, `ReplacedNeverRedeemed`, `ChallengesUsedOnce`: the strengthening says
  that an unused code belongs to one factor, of its owner, and was neither redeemed nor
  replaced; that a pending challenge is its owner's and has made no passkey; and that an
  operation between two locks carries a factor of its own user. One lemma per operation.
* `TotpCodesRunOut`: every accepted code lies within the skew of the period it was accepted in
  (`PassedOK`), so two acceptances of one code are at most twice the skew apart.

Nodes (`NodeProofs`) and the log (`AuditChainProofs`):

* `TokensUsedOnce`, `HostsKept`: a token that made a node is used or forgotten (`TokensOK`); the
  nodes are those made since the last restart, in their order (`NodesOK`). Ids are given out
  again after a restart, so `Held` says what an identity in a file, in an agent or in a request
  under way is worth: a credential it matches is its own host's node's, and one that is in use:
  made by the enrollment, or rotated and installed.
* `OnlineOnlyWithCredential`: by `Held`, a heartbeat that was accepted was accepted before the
  end of a credential in use, and nothing that arrives later is dated later. `SavedIdentityKept`:
  an agent that enrolls had no file, one that writes has a truncated one, and one that waits
  waits for a single answer (`FilesOK`), so no write meets a file that was saved whole.
* `RetiredForGood`: the types need that a request under way has a node; a request that records
  an outcome chose another endpoint, and none chooses a retired one.
* `LogAlwaysChained`: the last event's hash is the one the next event will carry, so the
  appended event passes and the others are as they were.
* `VerifiedCopiesTrue`: a hash is as long as its event's place in the log, so a displaced event
  cannot follow the one it now follows (`DisplacedFails`); an event whose text was changed
  keeps its hash, and a hash has one text.

What runs between browser, control plane and agent (`StreamProofs`):

* `ReplayAlwaysJoins`: `OutputInv` says for each view what it holds and where it reads: the
  buffer ends with the last recorded number, the channel has had every message but the one
  that is still to be broadcast, and a replay under way is one stretch whose receiver stands
  before or behind its last number.
* `OneSocketIsOpen`: at most the last socket is live (`SocketsOK`) - inductive because every
  call that appends a socket closes the last one in the same step, not when it was begun.
* `AttachedAlwaysReturns`: `AttachedCanReturn` is not inductive, since the registry's token is
  replaced when a `reattach` is read and the page learns it later, if at all. `ReturnInv` says
  that every token under way, shown or stored was given out and is not newer than the
  registry's (`Sane`, `KnownTo`); that of an open socket attached to a session of the host
  either the page's entry has the registry's token already or the message with it is still to
  come, with nothing but errors beside it (`MayReturn`); and that no other socket asks for that
  session with that token (`Old`), so nobody replaces it unseen. Most steps only shorten what
  is under way (`Quieter`) and one lemma covers them all (`QuietStep`); the others are those in
  which a socket opens, a message is read, or a handler attaches (`AttachStep`).
* `IdsAlwaysOrderCommands`: `PollInv` says of each link that ids in answers and in the hands of
  overlapping requests are below the counter and ordered as their commands, that each command
  drawn from the queue is in one of them and the rest still queued in order, and that only a
  request that drains the queue has commands in hand.
* `BridgeTypeCorrect`: types only. They need that a `reattach` under way names a session
  (`FromPage`), because the control plane counts that session's token up.

The schema and the composition (`ControlStoresProofs`):

* `MigrationsAlwaysApply`: the tables are those of the migrations that are applied
  (`TablesAt`): each table is made by one migration (`Born`), and it references tables that an
  earlier one made, or that `create_rbac_tables` itself makes before it. So no reference is
  missing on the way up, none is left on the way down, and taking a migration back restores
  what there was, in every one of the 13 migration states. Only references are meant.
* `OnlyRecordsLeft`: a row's references hold a row or NULL (`SchemaTypeOK`), and a column is only
  NULL when its reference says `SET NULL` (`ClearedOK`). The rows that fall with one are the
  least set closed under `CASCADE` (`FallsWith`); recovery codes fall with their factor.
* `StoresImplementComponents`: a step of one component leaves the variables of the others, but
  for the clock that three of them read; a tick is a step of each (`TimePasses`). So a behaviour
  of the composition is a behaviour of all ten components. `StoresTypeCorrect` and `StoresCorrect`
  draw the conclusion: every invariant and every action property of `control_stores` is a
  theorem of the very specification TLC runs.

Type correctness is proved for every component: `RegistryTypeCorrect`, `LocalTypeCorrect`,
`RemoteTypeCorrect`, `AccountsTypeCorrect`, `FactorsTypeCorrect`, `PermissionsTypeCorrect`,
`EnrollmentTypeCorrect`, `RoutingTypeCorrect`, `ChainTypeCorrect`, `OutputTypeCorrect`,
`BridgeTypeCorrect`, `PollTypeCorrect`, `SchemaTypeCorrect`.

Only model-checked, and why: the six liveness properties of `local_liveness` and
`remote_liveness`, because liveness under fairness is outside this prover's reach. Every other
property of the passing runs is a theorem. The six findings are counterexamples, which TLC gives.

## Not modelled, and the plan

Not modelled, with the reason (see also `PROJECT.json`, "components"):

* storage repositories: traits and records that nothing implements; the running program keeps
  its state in memory. The schema they describe is `Schema`.
* UI pages: markup without state of its own. HA readiness, configuration, assembly: values
  that are read once at the start.
* QUIC and mesh plans, resume cursors, transport metrics: no caller keeps state with them.
* Redaction, JSON, hashing, HMAC, base32: text and arithmetic; what they tell apart is kept.

Left out of modelled components: terminal sizes; the limiter of failed agent authentications,
which only changes the status of a refusal; the audit records of the long-poll route; that
`authorize_session_reattach` lets a request through whose session has just vanished (the
registry then refuses it); that the bridge's two lists answer at one moment; that `close`
keeps the registry's mutex while it waits for the child lock (it blocks no other call in the
model); that `drain_expired` takes all due entries at once, where `LongPoll` takes them one by
one; the fallback of the limiter for a process younger than its window; clipboard,
keyboard, scrolling and the page cache of the browser; indexes and columns that are no key.
The router's choice and the permission answers are free inputs of `RemoteTerminal` and
`LocalTerminal`, so nothing is concluded there from their particular rules.

Done: the terminals, links and registry; the stores, protocols, page and schema of
`control_stores`; proofs of every safety property of the passing runs. Next, in order of
importance:

1. A composition of `Accounts` and `Permissions` with `LocalTerminal`: a login that ends
   while its terminal is open.
2. `LongPoll` with two transports of one node at a time, in one module with `AgentConnections`.
