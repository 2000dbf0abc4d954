------------------------------ MODULE RouteHealth ------------------------------
(***************************************************************************)
(* Which way a terminal request takes to its node: InMemoryNodeRouter      *)
(* (crates/sunbolt-control/src/routing.rs) and the part of                 *)
(* handle_remote_terminal_socket (terminal/mod.rs) that asks it for a      *)
(* route and tells it how the route fared.                                 *)
(*                                                                         *)
(* Requests overlap: the links are read before the healths, and an outcome *)
(* is recorded long after the route was chosen. The failure count of an    *)
(* endpoint is kept up to UNHEALTHY_AFTER: more make no difference. What   *)
(* else a terminal request does is RemoteTerminal's.                       *)
(***************************************************************************)
EXTENDS Naturals

CONSTANTS
    Opener,         \* requests for a terminal
    Peer, Target,   \* nodes, and those that terminals are asked of
    UnhealthyAfter, \* RouteHealthRecord::UNHEALTHY_AFTER
    NoPeer

ASSUME RoutingAssumption ==
    UnhealthyAfter \in Nat \ {0} /\ Target \subseteq Peer /\ NoPeer \notin Peer

VARIABLES
    failures,   \* consecutive_failures of each endpoint, 0 also without a record
    connected,  \* the nodes with a link in AgentConnectionRegistry
    opening     \* what each request has read and chosen

routeVars == <<failures, connected, opening>>

Endpoint == {"direct", "relay"} \X Peer
NotOpening == [pc |-> "idle", target |-> NoPeer, direct |-> {}, relays |-> {}, by |-> <<>>]

RoutingTypeOK ==
    /\ failures \in [Endpoint -> 0 .. UnhealthyAfter]
    /\ connected \subseteq Peer
    /\ opening \in [Opener ->
          [pc : {"idle", "relays", "select", "relay", "selected", "sending", "inserting"},
           target : Target \cup {NoPeer}, direct : SUBSET Peer, relays : SUBSET Peer,
           by : Endpoint \cup {<<>>}]]

RoutingInit ==
    /\ failures = [e \in Endpoint |-> 0]
    /\ connected = Peer
    /\ opening = [o \in Opener |-> NotOpening]

-----------------------------------------------------------------------------
OpeningAt(o, at) == opening[o].pc = at
Moves(o, at)     == opening' = [opening EXCEPT ![o].pc = at]
GivesUp(o)       == opening' = [opening EXCEPT ![o] = NotOpening]

\* RouteHealthRecord::health
Unhealthy(e) == failures[e] >= UnhealthyAfter

\* record_success and record_failure; the former also starts the record of an endpoint.
Fared(e, well) ==
    failures' = [failures EXCEPT ![e] = IF well THEN 0
                                        ELSE IF Unhealthy(e) THEN @ ELSE @ + 1]

\* direct_agent_connected, then relay_candidates: two looks at the connection registry.
ReadDirect(o, t) ==
    /\ OpeningAt(o, "idle")
    /\ opening' = [opening EXCEPT ![o] = [NotOpening EXCEPT !.pc = "relays", !.target = t,
                                                           !.direct = connected \cap {t}]]
    /\ UNCHANGED <<failures, connected>>

ReadRelays(o) ==
    /\ OpeningAt(o, "relays")
    /\ opening' = [opening EXCEPT ![o].pc = "select",
                                  ![o].relays = connected \ {opening[o].target}]
    /\ UNCHANGED <<failures, connected>>

\* A variant with a fault: a link is chosen whatever its health.
DirectChosenIfConnected(o) == opening[o].direct # {}

\* A healthy link of the node's own comes first.
DirectChosen(o) == opening[o].direct # {} /\ ~Unhealthy(<<"direct", opening[o].target>>)

Selected(o, e) == opening' = [opening EXCEPT ![o].pc = "selected", ![o].by = e]

SelectDirect(o) ==
    /\ OpeningAt(o, "select")
    /\ IF DirectChosen(o) THEN Selected(o, <<"direct", opening[o].target>>) ELSE Moves(o, "relay")
    /\ UNCHANGED <<failures, connected>>

\* Then the first relay that is not unhealthy, in the order of a hash map.
SelectRelay(o) ==
    /\ OpeningAt(o, "relay")
    /\ \/ \E r \in opening[o].relays :
             IF Unhealthy(<<"relay", r>>) THEN opening' = [opening EXCEPT ![o].relays = @ \ {r}]
                                          ELSE Selected(o, <<"relay", r>>)
       \/ opening[o].relays = {} /\ GivesUp(o)
    /\ UNCHANGED <<failures, connected>>

\* A relay is not executable and counts as failed; so does a link that is gone by now.
TakeRoute(o) ==
    /\ OpeningAt(o, "selected")
    /\ IF opening[o].by[1] = "direct" /\ opening[o].target \in connected
       THEN Moves(o, "sending") /\ UNCHANGED failures
       ELSE Fared(opening[o].by, FALSE) /\ GivesUp(o)
    /\ UNCHANGED connected

\* The link takes StartTerminal, or its handler has returned and the node is disconnected.
SendOnRoute(o) ==
    /\ OpeningAt(o, "sending")
    /\ \/ Moves(o, "inserting") /\ UNCHANGED <<failures, connected>>
       \/ /\ connected' = connected \ {opening[o].target}
          /\ Fared(opening[o].by, FALSE) /\ GivesUp(o)

\* insert_remote; a refused session says nothing of the route.
InsertOnRoute(o) ==
    /\ OpeningAt(o, "inserting")
    /\ Fared(opening[o].by, TRUE) \/ UNCHANGED failures
    /\ GivesUp(o) /\ UNCHANGED connected

LinkChanges ==
    /\ \E n \in Peer : \/ n \in connected /\ connected' = connected \ {n}
                       \/ n \notin connected /\ connected' = connected \cup {n}
    /\ UNCHANGED <<failures, opening>>

RoutingNext ==
    \/ \E o \in Opener : \/ \E t \in Target : ReadDirect(o, t)
                         \/ ReadRelays(o) \/ SelectDirect(o) \/ SelectRelay(o)
                         \/ TakeRoute(o) \/ SendOnRoute(o) \/ InsertOnRoute(o)
    \/ LinkChanges

RoutingSpec == RoutingInit /\ [][RoutingNext]_routeVars

-----------------------------------------------------------------------------
\* An endpoint out of use, when the requests that chose it before it was are over.
Retired(e) == Unhealthy(e) /\ \A o \in Opener : opening[o].by # e

(* Three requests that fail on a node's link put it out of use, and nothing but  *)
(* a success can restore it, which no request has any more a chance of: the link *)
(* stays out of use for good, however often the agent reconnects.                *)
UnhealthyIsFinal == [][\A e \in Endpoint : Retired(e) => Retired(e)']_routeVars
=============================================================================
