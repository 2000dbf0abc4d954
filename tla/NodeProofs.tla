---------------------------- MODULE NodeProofs ----------------------------
(***************************************************************************)
(* Proofs about nodes: RouteHealth, for every number of requests and nodes *)
(* and any threshold, its types and that an endpoint whose requests are    *)
(* over stays out of use; and NodeEnrollment, for any number of hosts,     *)
(* tokens and secrets and any number of restarts and requests: a token     *)
(* makes one node, a node is reported on by its own host only and shown    *)
(* online no longer than its own credential allows, and an identity file   *)
(* that was saved is kept.                                                 *)
(***************************************************************************)
EXTENDS RouteHealth, NodeEnrollment, SequenceTheorems, TLAPS

-----------------------------------------------------------------------------
(* Routes *)

USE RoutingAssumption DEF RoutingAssumption

(* A step of one request; the other steps are LinkChanges.                  *)
RequestStep(o) ==
    \/ \E t \in Target : ReadDirect(o, t)
    \/ ReadRelays(o) \/ SelectDirect(o) \/ SelectRelay(o)
    \/ TakeRoute(o) \/ SendOnRoute(o) \/ InsertOnRoute(o)

(* Recording an outcome keeps every count within the threshold.             *)
LEMMA FaredInRange ==
    ASSUME RoutingTypeOK, NEW e, NEW well \in BOOLEAN, Fared(e, well)
    PROVE  failures' \in [Endpoint -> 0 .. UnhealthyAfter]
<1>1. UnhealthyAfter \in Nat
  OBVIOUS
<1>2. CASE e \in Endpoint
  <2>1. failures[e] \in 0 .. UnhealthyAfter
    BY <1>2 DEF RoutingTypeOK
  <2>2. ~Unhealthy(e) => failures[e] + 1 \in 0 .. UnhealthyAfter
    BY <1>1, <2>1 DEF Unhealthy
  <2>3. PICK n \in 0 .. UnhealthyAfter : failures' = [failures EXCEPT ![e] = n]
    <3>1. CASE well
      <4>1. (IF well THEN 0 ELSE IF Unhealthy(e) THEN failures[e] ELSE failures[e] + 1) = 0
        BY <3>1, Zenon
      <4>2. failures' = [failures EXCEPT ![e] = 0]
        BY <4>1 DEF Fared
      <4>3. QED
        BY <4>2, 0 \in 0 .. UnhealthyAfter
    <3>2. CASE ~well /\ Unhealthy(e)
      BY <2>1, <3>2 DEF Fared
    <3>3. CASE ~well /\ ~Unhealthy(e)
      BY <2>2, <3>3 DEF Fared
    <3>4. QED
      BY <3>1, <3>2, <3>3
  <2>4. QED
    BY <2>3 DEF RoutingTypeOK
<1>3. CASE e \notin Endpoint
  BY <1>3 DEF RoutingTypeOK, Fared
<1>4. QED
  BY <1>2, <1>3

(* What a request holds, and what the type alone does not say: a request    *)
(* under way has a node.                                                    *)
BeingOpened ==
    [pc : {"idle", "relays", "select", "relay", "selected", "sending", "inserting"},
     target : Target \cup {NoPeer}, direct : SUBSET Peer, relays : SUBSET Peer,
     by : Endpoint \cup {<<>>}]
RoutingInv ==
    RoutingTypeOK /\ \A o \in Opener : opening[o].pc # "idle" => opening[o].target \in Target

LEMMA NotOpeningIsIdle == NotOpening \in BeingOpened /\ NotOpening.pc = "idle"
  BY DEF NotOpening, BeingOpened

(* One request changes to x, the counts and the links stay within their types. *)
LEMMA RequestChanges ==
    ASSUME RoutingInv, NEW o \in Opener, NEW x \in BeingOpened,
           x.pc # "idle" => x.target \in Target,
           opening' = [opening EXCEPT ![o] = x],
           failures' \in [Endpoint -> 0 .. UnhealthyAfter], connected' \subseteq Peer
    PROVE  RoutingInv'
  BY DEF RoutingInv, RoutingTypeOK, BeingOpened

LEMMA RequestTypes ==
    ASSUME RoutingInv, NEW o \in Opener, RequestStep(o)
    PROVE  RoutingInv'
<1> DEFINE was == opening[o]
           At(pc) == [was EXCEPT !.pc = pc]
<1>1. opening \in [Opener -> BeingOpened] /\ was \in BeingOpened
  BY DEF RoutingInv, RoutingTypeOK, BeingOpened
<1>2. connected \subseteq Peer /\ failures \in [Endpoint -> 0 .. UnhealthyAfter]
  BY DEF RoutingInv, RoutingTypeOK
<1>3. was.pc # "idle" => was.target \in Target
  BY DEF RoutingInv
<1>4. \A pc \in {"relay", "sending", "inserting"} :
        At(pc) \in BeingOpened /\ At(pc).target = was.target
  BY <1>1 DEF BeingOpened
<1>5. ASSUME GivesUp(o), failures' \in [Endpoint -> 0 .. UnhealthyAfter], connected' \subseteq Peer
      PROVE  RoutingInv'
  BY <1>5, NotOpeningIsIdle, RequestChanges DEF GivesUp
<1>6. ASSUME NEW pc \in {"relay", "sending", "inserting"}, Moves(o, pc), was.pc # "idle",
             UNCHANGED <<failures, connected>>
      PROVE  RoutingInv'
  <2>1. opening' = [opening EXCEPT ![o] = At(pc)]
    BY <1>1, <1>6 DEF Moves
  <2>2. At(pc) \in BeingOpened /\ (At(pc).pc # "idle" => At(pc).target \in Target)
    BY <1>3, <1>4, <1>6
  <2>3. QED
    BY <1>2, <1>6, <2>1, <2>2, RequestChanges
<1>7. ASSUME NEW e \in Endpoint, Selected(o, e), was.pc # "idle", UNCHANGED <<failures, connected>>
      PROVE  RoutingInv'
  <2> DEFINE x == [was EXCEPT !.pc = "selected", !.by = e]
  <2>1. opening' = [opening EXCEPT ![o] = x]
    BY <1>1, <1>7 DEF Selected
  <2>2. x \in BeingOpened /\ x.target \in Target
    BY <1>1, <1>3, <1>7 DEF BeingOpened
  <2>3. QED
    BY <1>2, <1>7, <2>1, <2>2, RequestChanges
<1>8. ASSUME NEW t \in Target, ReadDirect(o, t) PROVE RoutingInv'
  <2> DEFINE x == [NotOpening EXCEPT !.pc = "relays", !.target = t, !.direct = connected \cap {t}]
  <2>1. x \in BeingOpened /\ x.target \in Target
    BY <1>2 DEF NotOpening, BeingOpened
  <2>2. opening' = [opening EXCEPT ![o] = x] /\ UNCHANGED <<failures, connected>>
    BY <1>8 DEF ReadDirect
  <2>3. QED
    BY <1>2, <2>1, <2>2, RequestChanges
<1>9. CASE ReadRelays(o)
  <2> DEFINE x == [was EXCEPT !.pc = "select", !.relays = connected \ {was.target}]
  <2>1. x \in BeingOpened /\ x.target \in Target
    BY <1>1, <1>2, <1>3, <1>9 DEF BeingOpened, ReadRelays, OpeningAt
  <2>2. opening' = [opening EXCEPT ![o] = x] /\ UNCHANGED <<failures, connected>>
    BY <1>1, <1>9 DEF ReadRelays
  <2>3. QED
    BY <1>2, <2>1, <2>2, RequestChanges
<1>10. CASE SelectDirect(o)
  <2>1. was.target \in Target /\ <<"direct", was.target>> \in Endpoint
    BY <1>3, <1>10 DEF SelectDirect, OpeningAt, Endpoint
  <2>2. QED
    BY <1>6, <1>7, <1>10, <2>1 DEF SelectDirect, OpeningAt
<1>11. ASSUME NEW r \in was.relays,
              IF Unhealthy(<<"relay", r>>) THEN opening' = [opening EXCEPT ![o].relays = @ \ {r}]
                                           ELSE Selected(o, <<"relay", r>>),
              was.pc # "idle", UNCHANGED <<failures, connected>>
       PROVE  RoutingInv'
  <2>1. <<"relay", r>> \in Endpoint
    BY <1>1 DEF BeingOpened, Endpoint
  <2>2. CASE opening' = [opening EXCEPT ![o].relays = @ \ {r}]
    <3> DEFINE x == [was EXCEPT !.relays = @ \ {r}]
    <3>1. x \in BeingOpened /\ x.target = was.target /\ x.pc = was.pc
      BY <1>1 DEF BeingOpened
    <3>2. opening' = [opening EXCEPT ![o] = x]
      BY <1>1, <2>2
    <3>3. QED
      BY <1>2, <1>3, <1>11, <3>1, <3>2, RequestChanges
  <2>3. QED
    BY <1>7, <1>11, <2>1, <2>2
<1>12. CASE TakeRoute(o)
  BY <1>2, <1>5, <1>6, <1>12, FaredInRange DEF TakeRoute, OpeningAt, RoutingInv
<1>13. CASE SendOnRoute(o)
  BY <1>2, <1>5, <1>6, <1>13, FaredInRange DEF SendOnRoute, OpeningAt, RoutingInv
<1>14. CASE InsertOnRoute(o)
  BY <1>2, <1>5, <1>14, FaredInRange DEF InsertOnRoute, RoutingInv
<1>15. CASE SelectRelay(o)
  BY <1>2, <1>5, <1>11, <1>15 DEF SelectRelay, OpeningAt
<1>16. QED
  BY <1>8, <1>9, <1>10, <1>12, <1>13, <1>14, <1>15 DEF RequestStep

LEMMA RoutingInvariant == RoutingSpec => []RoutingInv
<1>1. RoutingInit => RoutingInv
  BY NotOpeningIsIdle DEF RoutingInit, RoutingInv, RoutingTypeOK, BeingOpened
<1>2. RoutingInv /\ [RoutingNext]_routeVars => RoutingInv'
  <2> SUFFICES ASSUME RoutingInv, [RoutingNext]_routeVars PROVE RoutingInv'
    OBVIOUS
  <2>1. CASE \E o \in Opener : RequestStep(o)
    BY <2>1, RequestTypes
  <2>2. CASE LinkChanges
    BY <2>2 DEF LinkChanges, RoutingInv, RoutingTypeOK
  <2>3. CASE UNCHANGED routeVars
    BY <2>3 DEF routeVars, RoutingInv, RoutingTypeOK
  <2>4. QED
    BY <2>1, <2>2, <2>3 DEF RoutingNext, RequestStep
<1>3. QED
  BY <1>1, <1>2, PTL DEF RoutingSpec

(* Requests, links and failure counts keep their shape, whatever a request  *)
(* read and however the links changed since.                                *)
THEOREM RoutingTypeCorrect == RoutingSpec => []RoutingTypeOK
<1>1. RoutingInv => RoutingTypeOK
  BY DEF RoutingInv
<1>2. QED
  BY <1>1, RoutingInvariant, PTL

-----------------------------------------------------------------------------
(* An outcome recorded of another endpoint says nothing of this one.        *)
LEMMA FaredElsewhere ==
    ASSUME RoutingTypeOK, NEW e \in Endpoint, NEW d, d # e, NEW well \in BOOLEAN, Fared(d, well)
    PROVE  Unhealthy(e)' <=> Unhealthy(e)
  BY DEF RoutingTypeOK, Fared, Unhealthy

LEMMA EndpointIsNotEmpty == ASSUME NEW e \in Endpoint PROVE e # <<>>
<1>1. PICK kind \in {"direct", "relay"}, n \in Peer : e = <<kind, n>>
  BY DEF Endpoint
<1>2. Len(e) = 2 /\ Len(<<>>) = 0
  BY <1>1
<1>3. SUFFICES ASSUME e = <<>> PROVE FALSE
  OBVIOUS
<1>4. Len(<<>>) = 2
  BY <1>2, <1>3, Zenon
<1>5. QED
  BY <1>2, <1>4

(* No request chooses an endpoint that is out of use, and those that record *)
(* an outcome chose another.                                                *)
LEMMA RequestRetires ==
    ASSUME RoutingTypeOK, NEW o \in Opener, RequestStep(o), NEW e \in Endpoint, Retired(e)
    PROVE  Retired(e)'
<1> USE DEF OpeningAt, Moves, GivesUp, Selected
<1>1. opening \in [Opener -> BeingOpened] /\ opening[o] \in BeingOpened
  BY DEF RoutingTypeOK, BeingOpened
<1>2. Unhealthy(e) /\ opening[o].by # e /\ e # <<>>
  BY EndpointIsNotEmpty DEF Retired
<1>3. ASSUME NEW x, opening' = [opening EXCEPT ![o] = x], x.by # e, Unhealthy(e)'
      PROVE  Retired(e)'
  BY <1>1, <1>3 DEF Retired
<1>4. NotOpening.by = <<>>
  BY DEF NotOpening
<1>5. UNCHANGED failures => Unhealthy(e)'
  BY <1>2 DEF Unhealthy
<1>6. ASSUME GivesUp(o), Unhealthy(e)' PROVE Retired(e)'
  BY <1>2, <1>3, <1>4, <1>6
<1>7. ASSUME NEW pc, Moves(o, pc), Unhealthy(e)' PROVE Retired(e)'
  <2>1. [opening[o] EXCEPT !.pc = pc].by = opening[o].by
    BY <1>1 DEF BeingOpened
  <2>2. opening' = [opening EXCEPT ![o] = [opening[o] EXCEPT !.pc = pc]]
    BY <1>1, <1>7
  <2>3. QED
    BY <1>2, <1>3, <1>7, <2>1, <2>2
<1>8. ASSUME NEW d, Selected(o, d), d # e, Unhealthy(e)' PROVE Retired(e)'
  <2> DEFINE x == [opening[o] EXCEPT !.pc = "selected", !.by = d]
  <2>1. x.by = d
    BY <1>1 DEF BeingOpened
  <2>2. opening' = [opening EXCEPT ![o] = x]
    BY <1>1, <1>8
  <2>3. QED
    BY <1>3, <1>8, <2>1, <2>2
<1>9. ASSUME NEW t \in Target, ReadDirect(o, t) PROVE Retired(e)'
  <2> DEFINE x == [NotOpening EXCEPT !.pc = "relays", !.target = t, !.direct = connected \cap {t}]
  <2>1. x.by = <<>>
    BY DEF NotOpening
  <2>2. opening' = [opening EXCEPT ![o] = x] /\ UNCHANGED failures
    BY <1>9 DEF ReadDirect
  <2>3. QED
    BY <1>2, <1>3, <1>5, <2>1, <2>2
<1>10. CASE ReadRelays(o)
  <2> DEFINE x == [opening[o] EXCEPT !.pc = "select", !.relays = connected \ {opening[o].target}]
  <2>1. x.by = opening[o].by
    BY <1>1 DEF BeingOpened
  <2>2. opening' = [opening EXCEPT ![o] = x] /\ UNCHANGED failures
    BY <1>1, <1>10 DEF ReadRelays
  <2>3. QED
    BY <1>2, <1>3, <1>5, <2>1, <2>2
<1>11. CASE SelectDirect(o)
  <2>1. DirectChosen(o) => <<"direct", opening[o].target>> # e
    BY <1>2 DEF DirectChosen
  <2>2. UNCHANGED failures
    BY <1>11 DEF SelectDirect
  <2>3. QED
    BY <1>5, <1>7, <1>8, <1>11, <2>1, <2>2 DEF SelectDirect
<1>12. CASE SelectRelay(o)
  <2>1. UNCHANGED failures
    BY <1>12 DEF SelectRelay
  <2>2. ASSUME NEW n, opening' = [opening EXCEPT ![o].relays = @ \ {n}] PROVE Retired(e)'
    <3> DEFINE x == [opening[o] EXCEPT !.relays = @ \ {n}]
    <3>1. x.by = opening[o].by
      BY <1>1 DEF BeingOpened
    <3>2. opening' = [opening EXCEPT ![o] = x]
      BY <1>1, <2>2
    <3>3. QED
      BY <1>2, <1>3, <1>5, <2>1, <3>1, <3>2
  <2>3. ASSUME NEW n, ~Unhealthy(<<"relay", n>>), Selected(o, <<"relay", n>>) PROVE Retired(e)'
    BY <1>2, <1>5, <1>8, <2>1, <2>3
  <2>4. QED
    BY <1>5, <1>6, <1>12, <2>1, <2>2, <2>3 DEF SelectRelay
<1>13. ASSUME NEW well \in BOOLEAN, Fared(opening[o].by, well) PROVE Unhealthy(e)'
  BY <1>2, <1>13, FaredElsewhere
<1>14. CASE TakeRoute(o)
  BY <1>5, <1>6, <1>7, <1>13, <1>14 DEF TakeRoute
<1>15. CASE SendOnRoute(o)
  BY <1>5, <1>6, <1>7, <1>13, <1>15 DEF SendOnRoute
<1>16. CASE InsertOnRoute(o)
  BY <1>5, <1>6, <1>13, <1>16 DEF InsertOnRoute
<1>17. QED
  BY <1>9, <1>10, <1>11, <1>12, <1>14, <1>15, <1>16 DEF RequestStep

(* routing.rs: a link that three requests failed on is never selected       *)
(* again, so nothing restores it, for any number of nodes and requests.     *)
THEOREM RetiredForGood == RoutingSpec => UnhealthyIsFinal
<1>1. RoutingTypeOK /\ [RoutingNext]_routeVars =>
        [\A e \in Endpoint : Retired(e) => Retired(e)']_routeVars
  <2> SUFFICES ASSUME RoutingTypeOK, RoutingNext, NEW e \in Endpoint, Retired(e)
               PROVE  Retired(e)'
    OBVIOUS
  <2>1. CASE \E o \in Opener : RequestStep(o)
    BY <2>1, RequestRetires
  <2>2. CASE LinkChanges
    BY <2>2 DEF LinkChanges, Retired, Unhealthy
  <2>3. QED
    BY <2>1, <2>2 DEF RoutingNext, RequestStep
<1>2. QED
  BY <1>1, RoutingTypeCorrect, PTL DEF RoutingSpec, UnhealthyIsFinal

-----------------------------------------------------------------------------
(* Enrollment *)

USE EnrollmentAssumption, ClockAssumption DEF EnrollmentAssumption, ClockAssumption

-----------------------------------------------------------------------------
(* The inductive invariant                                                  *)

Origin == [token : EnrollToken, host : Host]

\* A token that made a node was drawn, and is used or forgotten.
TokensOK ==
    /\ OneNodePerToken
    /\ \A e \in EnrollToken : vouchers[e] # Absent => e \in drawn
    /\ \A i \in DOMAIN made :
        /\ made[i].token \in drawn
        /\ vouchers[made[i].token] = Absent \/ vouchers[made[i].token].node # Absent

\* The nodes are those made since the last restart, in their order.
NodesOK ==
    /\ Len(made) = base + Len(nodes)
    /\ NodesKeepTheirHost

\* A credential is of a node that is there.
KeysOK ==
    \A k \in DOMAIN keys : keys[k].node \in DOMAIN nodes /\ keys[k].secret \in drawn

\* An identity that host h can have: a credential it matches is of h's node, and the one the node
\* was made with or one whose secret is in fit.
Held(id, h, ks, ns, values, fit) ==
    /\ id.secret \in values
    /\ \A k \in DOMAIN ks :
        ks[k].node = id.node /\ ks[k].secret = id.secret =>
            ns[id.node].host = h /\ (~ks[k].rotated \/ id.secret \in fit)

HasIdentity(h) == agent[h].pc \in {"opening", "writing", "running", "beating"}

IdentitiesOK ==
    /\ \A h \in Host :
        /\ HasIdentity(h) => agent[h].id \in Identity /\ Held(agent[h].id, h, keys, nodes, drawn, fitted)
        /\ disk[h] \notin {Absent, Truncated} => Held(disk[h], h, keys, nodes, drawn, fitted)
    /\ \A m \in wire : m.id # Absent => Held(m.id, m.host, keys, nodes, drawn, fitted)
    /\ \A x \in handed : x[2].secret \in Secret /\ Held(x[2], x[1], keys, nodes, drawn, Secret)

\* A node that is online was last heard of while a credential its agent was given was good.
OnlineOK ==
    \A i \in DOMAIN nodes : nodes[i].status = "Online" =>
        \E k \in DOMAIN keys :
            keys[k].node = i /\ InUse(k) /\ nodes[i].beat < keys[k].expires

\* An agent that enrolls or saves its identity had no file; one that waits for an answer waits
\* for one.
FilesOK ==
    /\ \A h \in Host :
        /\ agent[h].pc \in {"enrolling", "opening"} => disk[h] = Absent
        /\ agent[h].pc = "writing" => disk[h] = Truncated
    /\ \A m \in wire : m.heard =>
        /\ agent[m.host].pc \in {"enrolling", "beating"}
        /\ m.token # Absent => agent[m.host].pc = "enrolling"
        /\ m.id # Absent => agent[m.host].pc = "beating"
    /\ \A m, n \in wire : m.heard /\ n.heard /\ m.host = n.host => m = n

EnrollmentInv ==
    /\ EnrollmentTypeOK /\ TokensOK /\ NodesOK /\ KeysOK /\ IdentitiesOK /\ OnlineOK /\ FilesOK

-----------------------------------------------------------------------------
(* What an identity is worth                                                *)

\* New credentials have new secrets, so what a host holds is worth no more than before.
LEMMA HeldKept ==
    ASSUME NEW id, NEW h, NEW ks, NEW ns, NEW values, NEW kt, NEW nt, NEW more, NEW fit,
           Held(id, h, ks, ns, values, fit), values \subseteq more,
           \A k \in DOMAIN ks : ks[k].node \in DOMAIN ns,
           \A k \in DOMAIN kt : (k \in DOMAIN ks /\ kt[k] = ks[k]) \/ kt[k].secret \notin values,
           \A i \in DOMAIN ns : nt[i].host = ns[i].host
    PROVE  Held(id, h, kt, nt, more, fit)
BY DEF Held

\* heartbeat and authenticate_transport let a host in only for its own node, and only while a
\* credential the host was given is good.
LEMMA AdmittedIsOwn ==
    ASSUME EnrollmentInv, NEW id \in Identity, NEW h \in Host,
           Held(id, h, keys, nodes, drawn, fitted), Admitted(id)
    PROVE  /\ id.node \in DOMAIN nodes
           /\ nodes[id.node].host = h
           /\ \E k \in DOMAIN keys :
                keys[k].node = id.node /\ InUse(k) /\ now < keys[k].expires
<1>1. PICK k \in DOMAIN keys :
        keys[k].node = id.node /\ keys[k].secret = id.secret /\ keys[k].expires > now
  BY DEF Admitted, Authenticated
<1>2. nodes[id.node].host = h /\ InUse(k)
  BY <1>1 DEF Held, InUse
<1>3. id.node \in DOMAIN nodes
  BY DEF Admitted
<1>4. now < keys[k].expires
  <2>1. now \in Nat /\ keys[k] \in Credential
    BY DEF EnrollmentInv, EnrollmentTypeOK, Time
  <2>2. QED
    BY <1>1, <2>1 DEF Credential
<1>5. QED
  BY <1>1, <1>2, <1>3, <1>4

LEMMA MadeByTokens ==
    ASSUME EnrollmentInv
    PROVE  made \in Seq(Origin)
BY DEF EnrollmentInv, EnrollmentTypeOK, Origin

-----------------------------------------------------------------------------
(* The control plane                                                        *)

LEMMA CreateTokenStep ==
    ASSUME EnrollmentInv, NEW e \in EnrollToken, CreateToken(e)
    PROVE  EnrollmentInv'
<1>1. /\ e \notin drawn /\ drawn' = drawn \cup {e}
      /\ vouchers' = [vouchers EXCEPT ![e] = NewVoucher]
      /\ UNCHANGED <<now, nodes, keys, restarts, disk, agent, wire, made, base, handed, fitted>>
  BY DEF CreateToken
<1>2. NewVoucher \in Voucher
  BY DEF NewVoucher, Voucher, EnrollmentInv, EnrollmentTypeOK, Time
<1>3. EnrollmentTypeOK'
  BY <1>1, <1>2 DEF EnrollmentInv, EnrollmentTypeOK
<1>4. TokensOK'
  <2>1. \A i \in DOMAIN made : made[i].token # e /\ made[i].token \in EnrollToken
    <3>1. \A i \in DOMAIN made : made[i] \in Origin
      BY MadeByTokens, ElementOfSeq, LenProperties
    <3>2. QED
      BY <1>1, <3>1 DEF EnrollmentInv, TokensOK, Origin
  <2>2. QED
    BY <1>1, <2>1 DEF EnrollmentInv, TokensOK, OneNodePerToken, EnrollmentTypeOK
<1>5. IdentitiesOK'
  BY <1>1, HeldKept DEF EnrollmentInv, IdentitiesOK, KeysOK, HasIdentity
<1>6. QED
  BY <1>1, <1>3, <1>4, <1>5 DEF EnrollmentInv, NodesOK, NodesKeepTheirHost, KeysOK, OnlineOK, InUse, FilesOK

\* A reply: the message is gone, and an agent that still waits gets a new state.
LEMMA RepliesKeepFiles ==
    ASSUME EnrollmentInv, NEW m \in wire, NEW a, Replies(m, a), UNCHANGED disk,
           a \in [pc : {"down", "opening", "running"}, id : Identity \cup {Absent}],
           m.heard /\ a.pc = "opening" => agent[m.host].pc = "enrolling"
    PROVE  /\ agent' \in [Host -> [pc : {"down", "enrolling", "opening", "writing", "running", "beating"},
                                   id : Identity \cup {Absent}]]
           /\ wire' \in SUBSET Post /\ wire' \subseteq wire
           /\ \A h \in Host : agent'[h] = IF m.heard /\ h = m.host THEN a ELSE agent[h]
           /\ FilesOK'
<1>1. /\ wire' = wire \ {m}
      /\ agent' = IF m.heard THEN [agent EXCEPT ![m.host] = a] ELSE agent
  BY DEF Replies
<1>2. /\ agent \in [Host -> [pc : {"down", "enrolling", "opening", "writing", "running", "beating"},
                             id : Identity \cup {Absent}]]
      /\ wire \in SUBSET Post /\ m.host \in Host
  BY DEF EnrollmentInv, EnrollmentTypeOK, Post
<1>3. \A h \in Host : agent'[h] = IF m.heard /\ h = m.host THEN a ELSE agent[h]
  BY <1>1, <1>2
<1>4. agent' \in [Host -> [pc : {"down", "enrolling", "opening", "writing", "running", "beating"},
                           id : Identity \cup {Absent}]]
  BY <1>1, <1>2
<1>5. \A n \in wire' : n \in wire /\ n.host \in Host /\ (n.heard => ~(m.heard /\ n.host = m.host))
  BY <1>1, <1>2 DEF EnrollmentInv, FilesOK, Post
<1>6. FilesOK'
  <2>1. \A h \in Host :
          /\ agent'[h].pc \in {"enrolling", "opening"} => disk[h] = Absent
          /\ agent'[h].pc = "writing" => disk[h] = Truncated
    BY <1>3 DEF EnrollmentInv, FilesOK
  <2>2. \A n \in wire' : n.heard => agent'[n.host] = agent[n.host]
    BY <1>3, <1>5
  <2>3. QED
    BY <1>5, <2>1, <2>2 DEF EnrollmentInv, FilesOK
<1>7. QED
  BY <1>1, <1>2, <1>3, <1>4, <1>6

(* agent_enroll: a usable token has made no node, and the new secret is     *)
(* nobody's; a refusal ends the agent.                                      *)
LEMMA AnswerEnrollStep ==
    ASSUME EnrollmentInv, NEW m \in wire, AnswerEnroll(m)
    PROVE  EnrollmentInv'
<1> DEFINE i == Len(nodes) + 1
           e == m.token
<1>1. /\ m \in Post /\ e # Absent /\ e \in EnrollToken /\ m.host \in Host
      /\ now \in Time /\ now \in Nat
      /\ nodes \in Seq(Node) /\ keys \in Seq(Credential) /\ i \in Nat
      /\ made \in Seq(Origin)
      /\ m.heard => agent[m.host].pc = "enrolling"
  BY MadeByTokens, SMTT(30) DEF EnrollmentInv, EnrollmentTypeOK, FilesOK, AnswerEnroll, Post, Time
<1>2. UNCHANGED <<now, restarts, disk, base, handed, fitted>>
  BY DEF AnswerEnroll
<1>3. ASSUME NEW s \in NewSecrets, Usable(e),
             drawn' = drawn \cup {s},
             vouchers' = [vouchers EXCEPT ![e].node = i],
             nodes' = Append(nodes, [host |-> m.host, status |-> "Enrolled", beat |-> now]),
             keys' = Append(keys, NewCredential(i, s, FALSE)),
             made' = Append(made, [token |-> e, host |-> m.host]),
             Replies(m, [pc |-> "opening", id |-> [node |-> i, secret |-> s]])
      PROVE  EnrollmentInv'
  <2> DEFINE n == [host |-> m.host, status |-> "Enrolled", beat |-> now]
             c == NewCredential(i, s, FALSE)
             r == [token |-> e, host |-> m.host]
             id == [node |-> i, secret |-> s]
             a == [pc |-> "opening", id |-> id]
  <2>1. s \in Secret /\ s \notin drawn
    BY DEF NewSecrets
  <2>2. n \in Node /\ n.host = m.host /\ n.status = "Enrolled" /\ n.beat = now
    BY <1>1 DEF Node, NodeStatus
  <2>3. c \in Credential /\ c.node = i /\ c.secret = s /\ c.rotated = FALSE
    BY <1>1, <2>1 DEF NewCredential, Credential
  <2>4. r \in Origin /\ r.token = e /\ r.host = m.host
    BY <1>1 DEF Origin
  <2>5. id \in Identity /\ id.node = i /\ id.secret = s
    BY <1>1, <2>1 DEF Identity
  <2>6. a \in [pc : {"down", "opening", "running"}, id : Identity \cup {Absent}]
        /\ a.pc = "opening" /\ a.id = id
    BY <2>5
  <2> HIDE DEF n, c, r, id, a
  <2>7. /\ nodes' \in Seq(Node) /\ Len(nodes') = i /\ nodes'[i] = n
        /\ \A j \in 1 .. Len(nodes) : nodes'[j] = nodes[j]
        /\ DOMAIN nodes = 1 .. Len(nodes) /\ DOMAIN nodes' = 1 .. i
    <3>1. nodes' = Append(nodes, n)
      BY <1>3 DEF n
    <3>2. QED
      BY <1>1, <2>2, <3>1, AppendProperties
  <2>8. /\ keys' \in Seq(Credential) /\ Len(keys') = Len(keys) + 1 /\ keys'[Len(keys) + 1] = c
        /\ \A k \in 1 .. Len(keys) : keys'[k] = keys[k]
        /\ DOMAIN keys = 1 .. Len(keys) /\ DOMAIN keys' = 1 .. Len(keys) + 1 /\ Len(keys) \in Nat
    <3>1. keys' = Append(keys, c)
      BY <1>3 DEF c
    <3>2. QED
      BY <1>1, <2>3, <3>1, AppendProperties
  <2>9. /\ made' \in Seq(Origin)
        /\ Len(made') = Len(made) + 1 /\ made'[Len(made) + 1] = r
        /\ \A j \in 1 .. Len(made) : made'[j] = made[j]
        /\ DOMAIN made = 1 .. Len(made) /\ DOMAIN made' = 1 .. Len(made) + 1 /\ Len(made) \in Nat
    <3>1. made' = Append(made, r)
      BY <1>3 DEF r
    <3>2. QED
      BY <1>1, <2>4, <3>1, AppendProperties
  <2>10. \A k \in DOMAIN keys' : (k \in DOMAIN keys /\ keys'[k] = keys[k]) \/ k = Len(keys) + 1
    BY <2>8
  <2>11. /\ agent' \in [Host -> [pc : {"down", "enrolling", "opening", "writing", "running", "beating"},
                                 id : Identity \cup {Absent}]]
         /\ wire' \in SUBSET Post /\ wire' \subseteq wire
         /\ \A h \in Host : agent'[h] = IF m.heard /\ h = m.host THEN a ELSE agent[h]
         /\ FilesOK'
    <3>1. Replies(m, a)
      BY <1>3 DEF a, id
    <3>2. QED
      BY <1>1, <1>2, <2>6, <3>1, RepliesKeepFiles
  <2>12. /\ vouchers \in [EnrollToken -> Voucher \cup {Absent}]
         /\ vouchers[e] \in Voucher /\ vouchers[e].node = Absent
    BY <1>1, <1>3 DEF Usable, EnrollmentInv, EnrollmentTypeOK
  <2>13. /\ vouchers' \in [EnrollToken -> Voucher \cup {Absent}]
         /\ vouchers'[e].node = i
         /\ \A f \in EnrollToken : f # e => vouchers'[f] = vouchers[f]
    BY <1>1, <1>3, <2>12 DEF Voucher
  <2>14. EnrollmentTypeOK'
    <3>1. drawn' \in SUBSET (EnrollToken \cup Secret)
      BY <1>3, <2>1 DEF EnrollmentInv, EnrollmentTypeOK
    <3>2. made' \in Seq([token : EnrollToken, host : Host])
      BY <2>9 DEF Origin
    <3>3. QED
      BY <1>2, <2>7, <2>8, <2>11, <2>13, <3>1, <3>2 DEF EnrollmentInv, EnrollmentTypeOK
  <2>15. TokensOK'
    <3>1. e \in drawn
      BY <1>1, <1>3 DEF EnrollmentInv, TokensOK, Usable
    <3>2. \A j \in 1 .. Len(made) : made[j].token # e
      BY <1>3, <2>9 DEF EnrollmentInv, TokensOK, Usable
    <3>3. \A j \in 1 .. Len(made) + 1 : j \in 1 .. Len(made) \/ j = Len(made) + 1
      BY <2>9
    <3>4. OneNodePerToken'
      BY <2>4, <2>9, <3>2, <3>3 DEF EnrollmentInv, TokensOK, OneNodePerToken
    <3>5. ASSUME NEW j \in DOMAIN made'
          PROVE  /\ made'[j].token \in drawn'
                 /\ vouchers'[made'[j].token] = Absent \/ vouchers'[made'[j].token].node # Absent
      <4>1. CASE j \in 1 .. Len(made)
        BY <1>3, <2>9, <2>13, <3>2, <4>1 DEF EnrollmentInv, TokensOK
      <4>2. CASE j = Len(made) + 1
        BY <1>1, <1>3, <2>4, <2>9, <2>13, <3>1, <4>2
      <4>3. QED
        BY <2>9, <3>3, <4>1, <4>2
    <3>6. \A f \in EnrollToken : vouchers'[f] # Absent => f \in drawn'
      BY <1>3, <2>13, <3>1 DEF EnrollmentInv, TokensOK
    <3>7. QED
      BY <3>4, <3>5, <3>6 DEF TokensOK
  <2>16. NodesOK'
    <3>1. base \in Nat /\ Len(made) = base + Len(nodes) /\ Len(nodes) \in Nat
      BY <1>1 DEF EnrollmentInv, EnrollmentTypeOK, NodesOK
    <3>2. ASSUME NEW j \in 1 .. i PROVE nodes'[j].host = made'[base + j].host
      <4>1. CASE j = i
        BY <2>2, <2>4, <2>7, <2>9, <3>1, <4>1
      <4>2. CASE j \in 1 .. Len(nodes)
        <5>1. base + j \in 1 .. Len(made)
          BY <3>1, <4>2
        <5>2. QED
          BY <2>7, <2>9, <4>2, <5>1 DEF EnrollmentInv, NodesOK, NodesKeepTheirHost
      <4>3. QED
        BY <3>1, <4>1, <4>2
    <3>3. Len(made') = base' + Len(nodes')
      BY <1>2, <2>7, <2>9, <3>1
    <3>4. QED
      BY <1>2, <2>7, <3>2, <3>3 DEF NodesOK, NodesKeepTheirHost
  <2>17. KeysOK'
    <3> SUFFICES ASSUME NEW k \in DOMAIN keys'
                 PROVE  keys'[k].node \in DOMAIN nodes' /\ keys'[k].secret \in drawn'
      BY DEF KeysOK
    <3>1. DOMAIN nodes \subseteq DOMAIN nodes' /\ i \in DOMAIN nodes' /\ drawn \subseteq drawn'
          /\ s \in drawn'
      BY <1>1, <1>3, <2>7, SMTT(30)
    <3>2. CASE k \in DOMAIN keys /\ keys'[k] = keys[k]
      BY <3>1, <3>2 DEF EnrollmentInv, KeysOK
    <3>3. CASE k = Len(keys) + 1
      BY <2>3, <2>8, <3>1, <3>3
    <3>4. QED
      BY <2>10, <3>2, <3>3
  <2>18. IdentitiesOK'
    <3>1. ASSUME NEW x, NEW h, NEW f, Held(x, h, keys, nodes, drawn, f)
          PROVE  Held(x, h, keys', nodes', drawn', f)
      <4>1. \A k \in DOMAIN keys' :
              (k \in DOMAIN keys /\ keys'[k] = keys[k]) \/ keys'[k].secret \notin drawn
        BY <2>1, <2>3, <2>8, <2>10
      <4>2. \A j \in DOMAIN nodes : nodes'[j].host = nodes[j].host
        BY <2>7
      <4>3. QED
        BY <1>3, <3>1, <4>1, <4>2, HeldKept DEF EnrollmentInv, KeysOK
    <3>2. Held(id, m.host, keys', nodes', drawn', fitted')
      <4>1. \A k \in DOMAIN keys : keys[k].secret # s
        BY <2>1 DEF EnrollmentInv, KeysOK
      <4>2. nodes'[id.node].host = m.host /\ id.secret \in drawn'
        BY <1>3, <2>2, <2>5, <2>7
      <4>3. ASSUME NEW k \in DOMAIN keys', keys'[k].secret = id.secret
            PROVE  ~keys'[k].rotated
        BY <2>3, <2>5, <2>8, <2>10, <4>1, <4>3
      <4>4. QED
        BY <4>2, <4>3 DEF Held
    <3>3. QED
      BY <1>2, <2>5, <2>6, <2>11, <3>1, <3>2 DEF EnrollmentInv, IdentitiesOK, HasIdentity
  <2>19. OnlineOK'
    <3> SUFFICES ASSUME NEW j \in DOMAIN nodes', nodes'[j].status = "Online"
                 PROVE  \E k \in DOMAIN keys' :
                          keys'[k].node = j /\ InUse(k)' /\ nodes'[j].beat < keys'[k].expires
      BY DEF OnlineOK, InUse
    <3>1. j \in DOMAIN nodes /\ nodes'[j] = nodes[j]
      BY <1>1, <2>2, <2>7
    <3>2. PICK k \in DOMAIN keys :
            keys[k].node = j /\ InUse(k) /\ nodes[j].beat < keys[k].expires
      BY <3>1 DEF EnrollmentInv, OnlineOK
    <3>3. k \in DOMAIN keys' /\ keys'[k] = keys[k]
      BY <2>8
    <3>4. QED
      BY <1>2, <3>1, <3>2, <3>3 DEF InUse
  <2>20. QED
    BY <2>11, <2>14, <2>15, <2>16, <2>17, <2>18, <2>19 DEF EnrollmentInv
<1>4. ASSUME Replies(m, Stopped), UNCHANGED <<drawn, vouchers, nodes, keys, made>>
      PROVE  EnrollmentInv'
  <2>1. Stopped \in [pc : {"down", "opening", "running"}, id : Identity \cup {Absent}]
        /\ Stopped.pc = "down"
    BY DEF Stopped
  <2>2. /\ agent' \in [Host -> [pc : {"down", "enrolling", "opening", "writing", "running", "beating"},
                                id : Identity \cup {Absent}]]
        /\ wire' \in SUBSET Post /\ wire' \subseteq wire
        /\ \A h \in Host : agent'[h] = IF m.heard /\ h = m.host THEN Stopped ELSE agent[h]
        /\ FilesOK'
    BY <1>2, <1>4, <2>1, RepliesKeepFiles
  <2>3. IdentitiesOK'
    BY <1>2, <1>4, <2>1, <2>2 DEF EnrollmentInv, IdentitiesOK, HasIdentity
  <2>4. QED
    BY <1>2, <1>4, <2>2, <2>3 DEF EnrollmentInv, EnrollmentTypeOK, TokensOK, OneNodePerToken, NodesOK,
       NodesKeepTheirHost, KeysOK, OnlineOK, InUse
<1>5. QED
  BY <1>3, <1>4 DEF AnswerEnroll

\* A node that was heard of: it is its host's still, and its own credential is good.
LEMMA BeatKeeps ==
    ASSUME EnrollmentInv, NEW id \in Identity, NEW h \in Host,
           Held(id, h, keys, nodes, drawn, fitted), Admitted(id),
           nodes' = [nodes EXCEPT ![id.node] = [host |-> h, status |-> "Online", beat |-> now]],
           UNCHANGED <<now, vouchers, keys, made, base, drawn, handed, fitted>>
    PROVE  /\ nodes' \in Seq(Node) /\ TokensOK' /\ NodesOK' /\ KeysOK' /\ OnlineOK'
           /\ \A x, g, f : Held(x, g, keys, nodes, drawn, f) => Held(x, g, keys', nodes', drawn', f)
<1> DEFINE n == [host |-> h, status |-> "Online", beat |-> now]
           i == id.node
<1>1. /\ i \in DOMAIN nodes /\ nodes[i].host = h
      /\ \E k \in DOMAIN keys : keys[k].node = i /\ InUse(k) /\ now < keys[k].expires
  BY AdmittedIsOwn
<1>2. nodes \in Seq(Node) /\ now \in Time
  BY DEF EnrollmentInv, EnrollmentTypeOK
<1>3. n \in Node /\ n.host = h /\ n.status = "Online" /\ n.beat = now
  BY <1>2 DEF Node, NodeStatus
<1> HIDE DEF n, i
<1>4. nodes' = [nodes EXCEPT ![i] = n]
  BY DEF n, i
<1>5. /\ nodes' \in Seq(Node) /\ DOMAIN nodes' = DOMAIN nodes /\ Len(nodes') = Len(nodes)
      /\ \A j \in DOMAIN nodes : nodes'[j] = IF j = i THEN n ELSE nodes[j]
  <2>1. i \in 1 .. Len(nodes) /\ DOMAIN nodes = 1 .. Len(nodes)
    BY <1>1, <1>2
  <2>2. /\ [nodes EXCEPT ![i] = n] \in Seq(Node) /\ Len([nodes EXCEPT ![i] = n]) = Len(nodes)
        /\ \A j \in 1 .. Len(nodes) : [nodes EXCEPT ![i] = n][j] = IF j = i THEN n ELSE nodes[j]
    BY <1>2, <1>3, <2>1, ExceptSeq, Zenon
  <2>3. DOMAIN nodes' = 1 .. Len(nodes')
    BY <1>4, <2>2
  <2>4. QED
    BY <1>4, <2>1, <2>2, <2>3
<1>6. \A j \in DOMAIN nodes : nodes'[j].host = nodes[j].host
  BY <1>1, <1>3, <1>5
<1>7. TokensOK' /\ KeysOK'
  BY <1>5 DEF EnrollmentInv, TokensOK, OneNodePerToken, KeysOK
<1>8. NodesOK'
  BY <1>5, <1>6 DEF EnrollmentInv, NodesOK, NodesKeepTheirHost
<1>9. OnlineOK'
  <2> SUFFICES ASSUME NEW j \in DOMAIN nodes', nodes'[j].status = "Online"
               PROVE  \E k \in DOMAIN keys :
                        keys[k].node = j /\ InUse(k) /\ nodes'[j].beat < keys[k].expires
    BY DEF OnlineOK, InUse
  <2>1. CASE j = i
    BY <1>1, <1>3, <1>5, <2>1
  <2>2. CASE j # i
    BY <1>5, <2>2 DEF EnrollmentInv, OnlineOK
  <2>3. QED
    BY <2>1, <2>2
<1>10. \A x, g, f : Held(x, g, keys, nodes, drawn, f) => Held(x, g, keys', nodes', drawn', f)
  BY <1>6, HeldKept DEF EnrollmentInv, KeysOK
<1>11. QED
  BY <1>5, <1>7, <1>8, <1>9, <1>10

(* agent_heartbeat                                                          *)
LEMMA AnswerHeartbeatStep ==
    ASSUME EnrollmentInv, NEW m \in wire, AnswerHeartbeat(m)
    PROVE  EnrollmentInv'
<1>1. /\ m \in Post /\ m.id # Absent /\ m.id \in Identity /\ m.host \in Host
      /\ Held(m.id, m.host, keys, nodes, drawn, fitted)
  BY DEF EnrollmentInv, EnrollmentTypeOK, IdentitiesOK, AnswerHeartbeat, Post
<1>2. UNCHANGED <<now, vouchers, keys, restarts, disk, made, base, drawn, handed, fitted>>
  BY DEF AnswerHeartbeat
<1>3. PICK a \in [pc : {"down", "running"}, id : Identity \cup {Absent}] :
        /\ Replies(m, a)
        /\ a.pc = "running" => a.id = m.id
  <2>1. CASE Admitted(m.id)
    <3> DEFINE b == [pc |-> "running", id |-> m.id]
    <3>1. b \in [pc : {"down", "running"}, id : Identity \cup {Absent}] /\ b.id = m.id
      BY <1>1
    <3>2. Replies(m, b)
      BY <2>1 DEF AnswerHeartbeat
    <3>3. QED
      BY <3>1, <3>2
  <2>2. CASE ~Admitted(m.id)
    <3>1. Stopped \in [pc : {"down", "running"}, id : Identity \cup {Absent}] /\ Stopped.pc = "down"
      BY DEF Stopped
    <3>2. Replies(m, Stopped)
      BY <2>2 DEF AnswerHeartbeat
    <3>3. QED
      BY <3>1, <3>2
  <2>3. QED
    BY <2>1, <2>2
<1>4. /\ agent' \in [Host -> [pc : {"down", "enrolling", "opening", "writing", "running", "beating"},
                              id : Identity \cup {Absent}]]
      /\ wire' \in SUBSET Post /\ wire' \subseteq wire
      /\ \A h \in Host : agent'[h] = IF m.heard /\ h = m.host THEN a ELSE agent[h]
      /\ FilesOK'
  BY <1>2, <1>3, RepliesKeepFiles
<1>5. /\ nodes' \in Seq(Node) /\ TokensOK' /\ NodesOK' /\ KeysOK' /\ OnlineOK'
      /\ \A x, g, f : Held(x, g, keys, nodes, drawn, f) => Held(x, g, keys', nodes', drawn', f)
  <2>1. CASE Admitted(m.id)
    <3>1. nodes' = [nodes EXCEPT ![m.id.node] = [host |-> m.host, status |-> "Online", beat |-> now]]
      BY <2>1 DEF AnswerHeartbeat, Beat
    <3>2. QED
      BY <1>1, <1>2, <2>1, <3>1, BeatKeeps
  <2>2. CASE ~Admitted(m.id)
    <3>1. UNCHANGED nodes
      BY <2>2 DEF AnswerHeartbeat
    <3>2. QED
      BY <1>2, <3>1 DEF EnrollmentInv, EnrollmentTypeOK, TokensOK, OneNodePerToken, NodesOK,
         NodesKeepTheirHost, KeysOK, OnlineOK, InUse
  <2>3. QED
    BY <2>1, <2>2
<1>6. IdentitiesOK'
  BY <1>1, <1>2, <1>3, <1>4, <1>5 DEF EnrollmentInv, IdentitiesOK, HasIdentity
<1>7. EnrollmentTypeOK'
  BY <1>2, <1>4, <1>5 DEF EnrollmentInv, EnrollmentTypeOK
<1>8. QED
  BY <1>4, <1>5, <1>6, <1>7 DEF EnrollmentInv

(* authenticate_transport: the record keeps its host.                       *)
LEMMA AuthenticateTransportStep ==
    ASSUME EnrollmentInv, NEW h \in Host, AuthenticateTransport(h)
    PROVE  EnrollmentInv'
<1> DEFINE id == agent[h].id
           i == id.node
<1>1. id \in Identity /\ Held(id, h, keys, nodes, drawn, fitted) /\ Admitted(id)
  BY DEF AuthenticateTransport, EnrollmentInv, IdentitiesOK, HasIdentity
<1>2. UNCHANGED <<now, vouchers, keys, restarts, disk, agent, wire, made, base, drawn, handed, fitted>>
  BY DEF AuthenticateTransport
<1>3. i \in DOMAIN nodes /\ nodes[i].host = h /\ nodes \in Seq(Node)
  BY <1>1, AdmittedIsOwn DEF EnrollmentInv, EnrollmentTypeOK
<1>4. nodes' = [nodes EXCEPT ![i] = [host |-> h, status |-> "Online", beat |-> now]]
  <2>1. nodes' = [nodes EXCEPT ![i].status = "Online", ![i].beat = now]
    BY DEF AuthenticateTransport
  <2> HIDE DEF i
  <2>2. nodes[i] \in Node
    BY <1>3
  <2>3. [[nodes[i] EXCEPT !.status = "Online"] EXCEPT !.beat = now]
          = [host |-> h, status |-> "Online", beat |-> now]
    <3>1. PICK st, b : nodes[i] = [host |-> h, status |-> st, beat |-> b]
      BY <1>3, <2>2 DEF Node
    <3> DEFINE heardOf == [nodes[i] EXCEPT !.status = "Online"]
    <3>2. heardOf = [host |-> h, status |-> "Online", beat |-> b]
      BY <3>1
    <3> HIDE DEF heardOf
    <3>3. [heardOf EXCEPT !.beat = now] = [host |-> h, status |-> "Online", beat |-> now]
      BY <3>2
    <3>4. QED
      BY <3>3 DEF heardOf
  <2>4. QED
    BY <1>3, <2>1, <2>3
<1> HIDE DEF id, i
<1>5. /\ nodes' \in Seq(Node) /\ TokensOK' /\ NodesOK' /\ KeysOK' /\ OnlineOK'
      /\ \A x, g, f : Held(x, g, keys, nodes, drawn, f) => Held(x, g, keys', nodes', drawn', f)
  BY <1>1, <1>2, <1>4, BeatKeeps DEF i
<1>6. IdentitiesOK'
  BY <1>2, <1>5 DEF EnrollmentInv, IdentitiesOK, HasIdentity
<1>7. QED
  BY <1>2, <1>5, <1>6 DEF EnrollmentInv, EnrollmentTypeOK, FilesOK

(* revoke_node                                                              *)
LEMMA RevokeNodeStep ==
    ASSUME EnrollmentInv, NEW i \in DOMAIN nodes, RevokeNode(i)
    PROVE  EnrollmentInv'
<1>1. /\ nodes' = [nodes EXCEPT ![i].status = "Revoked"]
      /\ UNCHANGED <<now, vouchers, keys, restarts, disk, agent, wire, made, base, drawn, handed, fitted>>
  BY DEF RevokeNode
<1>2. nodes \in Seq(Node)
  BY DEF EnrollmentInv, EnrollmentTypeOK
<1> DEFINE n == [nodes[i] EXCEPT !.status = "Revoked"]
<1>3. n \in Node /\ n.host = nodes[i].host /\ n.status = "Revoked"
  <2>1. nodes[i] \in Node
    BY <1>2
  <2>2. QED
    BY <2>1 DEF Node, NodeStatus
<1>4. nodes' = [nodes EXCEPT ![i] = n]
  BY <1>1, <1>2
<1> HIDE DEF n
<1>5. /\ nodes' \in Seq(Node) /\ DOMAIN nodes' = DOMAIN nodes /\ Len(nodes') = Len(nodes)
      /\ \A j \in DOMAIN nodes : nodes'[j] = IF j = i THEN n ELSE nodes[j]
  BY <1>2, <1>3, <1>4, ExceptSeq
<1>6. \A j \in DOMAIN nodes : nodes'[j].host = nodes[j].host
  BY <1>3, <1>5
<1>7. NodesOK'
  BY <1>1, <1>5, <1>6 DEF EnrollmentInv, NodesOK, NodesKeepTheirHost
<1>8. OnlineOK'
  BY <1>1, <1>3, <1>5 DEF EnrollmentInv, OnlineOK, InUse
<1>9. \A x, g, f : Held(x, g, keys, nodes, drawn, f) => Held(x, g, keys', nodes', drawn', f)
  BY <1>1, <1>6, HeldKept DEF EnrollmentInv, KeysOK
<1>10. IdentitiesOK'
  BY <1>1, <1>9 DEF EnrollmentInv, IdentitiesOK, HasIdentity
<1>11. QED
  BY <1>1, <1>5, <1>7, <1>8, <1>10 DEF EnrollmentInv, EnrollmentTypeOK, TokensOK, OneNodePerToken,
     KeysOK, FilesOK

(* rotate_credential: no host has the new secret yet, and it is for one.    *)
LEMMA RotateCredentialStep ==
    ASSUME EnrollmentInv, NEW i \in DOMAIN nodes, RotateCredential(i)
    PROVE  EnrollmentInv'
<1>1. PICK s \in NewSecrets :
        /\ drawn' = drawn \cup {s} /\ keys' = Append(keys, NewCredential(i, s, TRUE))
        /\ handed' = handed \cup {<<nodes[i].host, [node |-> i, secret |-> s]>>}
  BY DEF RotateCredential
<1>2. UNCHANGED <<now, vouchers, nodes, restarts, disk, agent, wire, made, base, fitted>>
  BY DEF RotateCredential
<1> DEFINE c == NewCredential(i, s, TRUE)
<1>3. s \in Secret /\ s \notin drawn
  BY DEF NewSecrets
<1>4. c \in Credential /\ c.node = i /\ c.secret = s
  <2>1. i \in Nat /\ now \in Nat
    BY DEF EnrollmentInv, EnrollmentTypeOK, Time
  <2>2. QED
    BY <1>3, <2>1 DEF NewCredential, Credential
<1>5. keys' = Append(keys, c) /\ keys \in Seq(Credential)
  BY <1>1 DEF EnrollmentInv, EnrollmentTypeOK
<1> HIDE DEF c
<1>6. /\ keys' \in Seq(Credential) /\ Len(keys') = Len(keys) + 1 /\ keys'[Len(keys) + 1] = c
      /\ \A k \in 1 .. Len(keys) : keys'[k] = keys[k]
      /\ DOMAIN keys = 1 .. Len(keys) /\ DOMAIN keys' = 1 .. Len(keys) + 1 /\ Len(keys) \in Nat
  BY <1>4, <1>5, AppendProperties
<1>7. \A k \in DOMAIN keys' : (k \in DOMAIN keys /\ keys'[k] = keys[k]) \/ keys'[k] = c
  BY <1>6
<1>8. KeysOK'
  BY <1>1, <1>2, <1>4, <1>7 DEF EnrollmentInv, KeysOK
<1>9. \A x, g, f : Held(x, g, keys, nodes, drawn, f) => Held(x, g, keys', nodes', drawn', f)
  BY <1>1, <1>2, <1>3, <1>4, <1>7, HeldKept DEF EnrollmentInv, KeysOK
<1> DEFINE id == [node |-> i, secret |-> s]
           h == nodes[i].host
<1>10. IdentitiesOK' /\ handed' \in SUBSET (Host \X Identity)
  <2>1. id.node = i /\ id.secret = s /\ id \in Identity
    BY <1>3, <1>4 DEF Identity, Credential, EnrollmentInv, EnrollmentTypeOK
  <2>2. nodes[i] \in Node /\ handed \in SUBSET (Host \X Identity)
    BY DEF EnrollmentInv, EnrollmentTypeOK
  <2>3. h \in Host
    BY <2>2 DEF Node
  <2>4. Held(id, h, keys', nodes', drawn', Secret)
    BY <1>1, <1>2, <1>3, <2>1 DEF Held
  <2> HIDE DEF id, h
  <2>5. handed' = handed \cup {<<h, id>>}
    BY <1>1 DEF id, h
  <2>6. \A x \in handed' : x[2].secret \in Secret /\ Held(x[2], x[1], keys', nodes', drawn', Secret)
    BY <1>3, <1>9, <2>1, <2>4, <2>5 DEF EnrollmentInv, IdentitiesOK
  <2>7. handed' \in SUBSET (Host \X Identity)
    BY <2>1, <2>2, <2>3, <2>5
  <2>8. QED
    BY <1>2, <1>9, <2>6, <2>7 DEF EnrollmentInv, IdentitiesOK, HasIdentity
<1>11. OnlineOK'
  <2> SUFFICES ASSUME NEW j \in DOMAIN nodes, nodes[j].status = "Online"
               PROVE  \E k \in DOMAIN keys' :
                        keys'[k].node = j /\ InUse(k)' /\ nodes[j].beat < keys'[k].expires
    BY <1>2 DEF OnlineOK
  <2>1. PICK k \in DOMAIN keys :
          keys[k].node = j /\ InUse(k) /\ nodes[j].beat < keys[k].expires
    BY DEF EnrollmentInv, OnlineOK
  <2>2. k \in DOMAIN keys' /\ keys'[k] = keys[k]
    BY <1>6
  <2>3. QED
    BY <1>1, <1>2, <2>1, <2>2 DEF InUse
<1>12. drawn' \in SUBSET (EnrollToken \cup Secret) /\ drawn \subseteq drawn'
  BY <1>1, <1>3 DEF EnrollmentInv, EnrollmentTypeOK
<1>13. TokensOK' /\ NodesOK' /\ FilesOK'
  BY <1>2, <1>12 DEF EnrollmentInv, TokensOK, OneNodePerToken, NodesOK, NodesKeepTheirHost, FilesOK
<1>14. EnrollmentTypeOK'
  BY <1>2, <1>6, <1>10, <1>12 DEF EnrollmentInv, EnrollmentTypeOK
<1>15. QED
  BY <1>8, <1>10, <1>11, <1>13, <1>14 DEF EnrollmentInv

(* A restart of the control plane forgets everything but what was drawn.    *)
LEMMA RestartControlStep ==
    ASSUME EnrollmentInv, RestartControl
    PROVE  EnrollmentInv'
<1>1. /\ restarts < MaxRestarts /\ restarts' = restarts + 1
      /\ vouchers' = [e \in EnrollToken |-> Absent]
      /\ nodes' = <<>> /\ keys' = <<>> /\ wire' = {}
      /\ agent' = [h \in Host |-> IF agent[h].pc \in {"enrolling", "beating"} THEN Stopped ELSE agent[h]]
      /\ base' = Len(made)
      /\ UNCHANGED <<now, disk, made, drawn, handed, fitted>>
  BY DEF RestartControl
<1>2. Len(made) \in Nat /\ made \in Seq(Origin)
  BY MadeByTokens
<1>3. /\ \A h \in Host : agent'[h] = Stopped \/ (agent'[h] = agent[h] /\ agent[h].pc \notin {"enrolling", "beating"})
      /\ Stopped.pc = "down"
  BY <1>1 DEF Stopped
<1>4. restarts' \in 0 .. MaxRestarts
  BY <1>1 DEF EnrollmentInv, EnrollmentTypeOK
<1>5. agent' \in [Host -> [pc : {"down", "enrolling", "opening", "writing", "running", "beating"},
                           id : Identity \cup {Absent}]]
  BY <1>1 DEF EnrollmentInv, EnrollmentTypeOK, Stopped
<1>6. EnrollmentTypeOK'
  BY <1>1, <1>2, <1>4, <1>5, EmptySeq DEF EnrollmentInv, EnrollmentTypeOK
<1>7. TokensOK'
  <2>1. \A i \in DOMAIN made : made[i].token \in EnrollToken
    <3>1. \A i \in DOMAIN made : made[i] \in Origin
      BY <1>2, ElementOfSeq, LenProperties
    <3>2. QED
      BY <3>1 DEF Origin
  <2>2. QED
    BY <1>1, <2>1 DEF EnrollmentInv, TokensOK, OneNodePerToken
<1>8. NodesOK' /\ KeysOK' /\ OnlineOK'
  BY <1>1, <1>2 DEF NodesOK, NodesKeepTheirHost, KeysOK, OnlineOK
<1>9. \A x, g, f : Held(x, g, keys, nodes, drawn, f) => Held(x, g, keys', nodes', drawn', f)
  BY <1>1 DEF Held
<1>10. IdentitiesOK'
  BY <1>1, <1>3, <1>9 DEF EnrollmentInv, IdentitiesOK, HasIdentity
<1>11. FilesOK'
  BY <1>1, <1>3 DEF EnrollmentInv, FilesOK
<1>12. QED
  BY <1>6, <1>7, <1>8, <1>10, <1>11 DEF EnrollmentInv

-----------------------------------------------------------------------------
(* The agents                                                               *)

AgentState == [pc : {"down", "enrolling", "opening", "writing", "running", "beating"},
               id : Identity \cup {Absent}]

\* What an agent does by itself changes nothing at the control plane.
AgentOnly == UNCHANGED <<now, vouchers, nodes, keys, restarts, made, base, drawn, handed, fitted>>

LEMMA AgentOnlyKeeps ==
    ASSUME EnrollmentInv, AgentOnly,
           agent' \in [Host -> AgentState],
           disk' \in [Host -> Identity \cup {Absent}],
           wire' \in SUBSET Post,
           IdentitiesOK', FilesOK'
    PROVE  EnrollmentInv'
BY DEF EnrollmentInv, AgentOnly, AgentState, EnrollmentTypeOK, TokensOK, OneNodePerToken, NodesOK,
       NodesKeepTheirHost, KeysOK, OnlineOK, InUse

\* A request is sent by an agent nothing is under way for.
LEMMA SendsKeeps ==
    ASSUME EnrollmentInv, NEW h \in Host, AgentOnly, UNCHANGED disk,
           NEW token \in EnrollToken \cup {Absent}, NEW id \in Identity \cup {Absent},
           Sends(h, token, id),
           NEW a \in AgentState, agent' = [agent EXCEPT ![h] = a],
           agent[h].pc \notin {"enrolling", "beating"},
           \/ token # Absent /\ id = Absent /\ a.pc = "enrolling" /\ disk[h] = Absent
           \/ token = Absent /\ a.pc = "beating" /\ a.id = id /\ agent[h].pc = "running" /\ agent[h].id = id
    PROVE  EnrollmentInv'
<1> DEFINE m == [host |-> h, heard |-> TRUE, token |-> token, id |-> id]
<1>1. wire' = wire \cup {m}
  BY DEF Sends
<1>2. m \in Post /\ m.host = h /\ m.heard = TRUE /\ m.token = token /\ m.id = id
  BY DEF Post
<1> HIDE DEF m
<1>3. /\ agent \in [Host -> AgentState] /\ wire \in SUBSET Post
      /\ disk \in [Host -> Identity \cup {Absent}]
  BY DEF EnrollmentInv, EnrollmentTypeOK, AgentState
<1>4. \A g \in Host : agent'[g] = IF g = h THEN a ELSE agent[g]
  BY <1>3
<1>5. agent' \in [Host -> AgentState]
  BY <1>3
<1>6. \A n \in wire : n.host \in Host /\ (n.heard => n.host # h)
  BY <1>3 DEF EnrollmentInv, FilesOK, Post
<1>7. FilesOK'
  <2>1. \A g \in Host :
          /\ agent'[g].pc \in {"enrolling", "opening"} => disk[g] = Absent
          /\ agent'[g].pc = "writing" => disk[g] = Truncated
    BY <1>4 DEF EnrollmentInv, FilesOK
  <2>2. \A n \in wire' : n.heard =>
          /\ agent'[n.host].pc \in {"enrolling", "beating"}
          /\ n.token # Absent => agent'[n.host].pc = "enrolling"
          /\ n.id # Absent => agent'[n.host].pc = "beating"
    BY <1>1, <1>2, <1>4, <1>6 DEF EnrollmentInv, FilesOK
  <2>3. \A n, k \in wire' : n.heard /\ k.heard /\ n.host = k.host => n = k
    BY <1>1, <1>2, <1>6 DEF EnrollmentInv, FilesOK
  <2>4. QED
    BY <2>1, <2>2, <2>3 DEF FilesOK
<1>8. IdentitiesOK'
  <2>1. id # Absent => id \in Identity /\ Held(id, h, keys, nodes, drawn, fitted)
    BY DEF EnrollmentInv, IdentitiesOK, HasIdentity
  <2>2. a.pc = "beating" => a.id \in Identity /\ Held(a.id, h, keys, nodes, drawn, fitted)
    BY DEF EnrollmentInv, IdentitiesOK, HasIdentity
  <2>3. a.pc \in {"enrolling", "beating"}
    OBVIOUS
  <2>4. QED
    BY <1>1, <1>2, <1>4, <2>1, <2>2, <2>3 DEF EnrollmentInv, IdentitiesOK, HasIdentity, AgentOnly
<1>9. wire' \in SUBSET Post
  BY <1>1, <1>2, <1>3
<1>10. QED
  BY <1>3, <1>5, <1>7, <1>8, <1>9, AgentOnlyKeeps

\* An agent that no message is under way for goes on alone.
LEMMA AloneKeeps ==
    ASSUME EnrollmentInv, NEW h \in Host, AgentOnly, UNCHANGED wire,
           NEW a \in AgentState, agent' = [agent EXCEPT ![h] = a],
           NEW d \in Identity \cup {Absent}, disk' = [disk EXCEPT ![h] = d],
           agent[h].pc \notin {"enrolling", "beating"},
           \/ a.pc = "writing" /\ d = Truncated /\ agent[h].pc = "opening" /\ a.id = agent[h].id
           \/ a.pc = "running" /\ a.id = d /\ d # Truncated /\ d # Absent /\ agent[h].pc = "down" /\ d = disk[h]
           \/ a.pc = "running" /\ a.id = d /\ agent[h].pc = "writing" /\ a.id = agent[h].id
    PROVE  EnrollmentInv'
<1>1. /\ agent \in [Host -> AgentState] /\ wire \in SUBSET Post
      /\ disk \in [Host -> Identity \cup {Absent}]
  BY DEF EnrollmentInv, EnrollmentTypeOK, AgentState
<1>2. \A g \in Host : /\ agent'[g] = IF g = h THEN a ELSE agent[g]
                      /\ disk'[g] = IF g = h THEN d ELSE disk[g]
  BY <1>1
<1>3. agent' \in [Host -> AgentState] /\ disk' \in [Host -> Identity \cup {Absent}]
  BY <1>1
<1>4. \A n \in wire : n.host \in Host /\ (n.heard => n.host # h)
  BY <1>1 DEF EnrollmentInv, FilesOK, Post
<1>5. FilesOK'
  <2>1. \A g \in Host :
          /\ agent'[g].pc \in {"enrolling", "opening"} => disk'[g] = Absent
          /\ agent'[g].pc = "writing" => disk'[g] = Truncated
    BY <1>2 DEF EnrollmentInv, FilesOK
  <2>2. \A n \in wire' : n.heard =>
          /\ agent'[n.host].pc \in {"enrolling", "beating"}
          /\ n.token # Absent => agent'[n.host].pc = "enrolling"
          /\ n.id # Absent => agent'[n.host].pc = "beating"
    BY <1>2, <1>4 DEF EnrollmentInv, FilesOK
  <2>3. QED
    BY <2>1, <2>2 DEF EnrollmentInv, FilesOK
<1>6. IdentitiesOK'
  <2>1. a.id \in Identity /\ Held(a.id, h, keys, nodes, drawn, fitted)
    BY <1>1 DEF EnrollmentInv, IdentitiesOK, HasIdentity
  <2>2. d \notin {Absent, Truncated} => Held(d, h, keys, nodes, drawn, fitted)
    BY <2>1
  <2>3. QED
    BY <1>2, <2>1, <2>2 DEF EnrollmentInv, IdentitiesOK, HasIdentity, AgentOnly
<1>7. QED
  BY <1>1, <1>3, <1>5, <1>6, AgentOnlyKeeps

(* load_or_enroll_identity                                                  *)
LEMMA StartStep ==
    ASSUME EnrollmentInv, NEW h \in Host, NEW e \in EnrollToken \cup {Absent}, Start(h, e)
    PROVE  EnrollmentInv'
<1>1. /\ agent[h].pc = "down" /\ disk[h] # Truncated
      /\ agent \in [Host -> AgentState] /\ disk \in [Host -> Identity \cup {Absent}]
  BY DEF Start, EnrollmentInv, EnrollmentTypeOK, AgentState
<1>2. UNCHANGED disk /\ AgentOnly
  BY DEF Start, AgentOnly
<1>3. CASE disk[h] # Absent /\ agent' = [agent EXCEPT ![h] = [pc |-> "running", id |-> disk[h]]] /\ UNCHANGED wire
  <2> DEFINE a == [pc |-> "running", id |-> disk[h]]
  <2>1. a \in AgentState /\ a.pc = "running" /\ a.id = disk[h] /\ agent' = [agent EXCEPT ![h] = a]
    BY <1>1, <1>3 DEF AgentState
  <2>2. disk' = [disk EXCEPT ![h] = disk[h]]
    BY <1>1, <1>2
  <2> HIDE DEF a
  <2>3. disk[h] \in Identity \cup {Absent}
    BY <1>1
  <2> DEFINE d == disk[h]
  <2>4. d \in Identity \cup {Absent} /\ disk' = [disk EXCEPT ![h] = d] /\ d # Truncated /\ d # Absent
        /\ a.id = d /\ d = disk[h]
    BY <1>1, <1>3, <2>1, <2>2, <2>3
  <2> HIDE DEF d
  <2>5. AgentOnly /\ UNCHANGED wire
    BY <1>2, <1>3
  <2>6. QED
    BY <1>1, <2>1, <2>4, <2>5, AloneKeeps
<1>4. CASE disk[h] = Absent /\ e # Absent /\ agent' = [agent EXCEPT ![h].pc = "enrolling"] /\ Sends(h, e, Absent)
  <2> DEFINE a == [agent[h] EXCEPT !.pc = "enrolling"]
  <2>1. a \in AgentState /\ a.pc = "enrolling" /\ agent' = [agent EXCEPT ![h] = a]
    BY <1>1, <1>4 DEF AgentState
  <2> HIDE DEF a
  <2>2. QED
    BY <1>1, <1>2, <1>4, <2>1, SendsKeeps, ZenonT(40)
<1>5. QED
  BY <1>3, <1>4 DEF Start

(* save_to_path                                                             *)
LEMMA SaveSteps ==
    ASSUME EnrollmentInv, NEW h \in Host, OpenIdentity(h) \/ WriteIdentity(h)
    PROVE  EnrollmentInv'
<1>1. /\ agent \in [Host -> AgentState] /\ disk \in [Host -> Identity \cup {Absent}]
      /\ Truncated \in Identity
  BY DEF EnrollmentInv, EnrollmentTypeOK, AgentState, Truncated, Identity
<1>2. UNCHANGED wire /\ AgentOnly
  BY DEF OpenIdentity, WriteIdentity, AgentOnly
<1>3. CASE OpenIdentity(h)
  <2> DEFINE a == [agent[h] EXCEPT !.pc = "writing"]
  <2>1. /\ a \in AgentState /\ a.pc = "writing" /\ a.id = agent[h].id
        /\ agent' = [agent EXCEPT ![h] = a]
    BY <1>1, <1>3 DEF AgentState, OpenIdentity
  <2> HIDE DEF a
  <2>2. agent[h].pc = "opening" /\ disk' = [disk EXCEPT ![h] = Truncated]
    BY <1>3 DEF OpenIdentity
  <2>3. QED
    BY <1>1, <1>2, <2>1, <2>2, AloneKeeps
<1>4. CASE WriteIdentity(h)
  <2> DEFINE a == [agent[h] EXCEPT !.pc = "running"]
  <2>1. /\ a \in AgentState /\ a.pc = "running" /\ a.id = agent[h].id
        /\ agent' = [agent EXCEPT ![h] = a]
    BY <1>1, <1>4 DEF AgentState, WriteIdentity
  <2> HIDE DEF a
  <2>2. agent[h].pc = "writing" /\ disk' = [disk EXCEPT ![h] = agent[h].id]
        /\ agent[h].id \in Identity \cup {Absent}
    BY <1>1, <1>4 DEF WriteIdentity, AgentState
  <2>3. QED
    BY <1>1, <1>2, <2>1, <2>2, AloneKeeps
<1>5. QED
  BY <1>3, <1>4

(* send_heartbeat                                                           *)
LEMMA SendHeartbeatStep ==
    ASSUME EnrollmentInv, NEW h \in Host, SendHeartbeat(h)
    PROVE  EnrollmentInv'
<1> DEFINE a == [agent[h] EXCEPT !.pc = "beating"]
<1>1. agent \in [Host -> AgentState]
  BY DEF EnrollmentInv, EnrollmentTypeOK, AgentState
<1>2. /\ a \in AgentState /\ a.pc = "beating" /\ a.id = agent[h].id /\ agent[h].id \in Identity \cup {Absent}
      /\ agent' = [agent EXCEPT ![h] = a]
  BY <1>1 DEF SendHeartbeat, AgentState
<1> HIDE DEF a
<1>3. agent[h].pc = "running" /\ Sends(h, Absent, agent[h].id) /\ UNCHANGED disk /\ AgentOnly
  BY DEF SendHeartbeat, AgentOnly
<1>4. QED
  BY <1>2, <1>3, SendsKeeps

(* A rotated secret is put on the host of its node: from then on it is one  *)
(* the agent was given.                                                     *)
LEMMA InstallRotatedStep ==
    ASSUME EnrollmentInv, NEW h \in Host, NEW id, InstallRotated(h, id)
    PROVE  EnrollmentInv'
<1>1. /\ agent[h].pc = "down" /\ <<h, id>> \in handed
      /\ disk' = [disk EXCEPT ![h] = id] /\ fitted' = fitted \cup {id.secret}
      /\ UNCHANGED <<now, vouchers, nodes, keys, restarts, agent, wire, handed, made, base, drawn>>
  BY DEF InstallRotated
<1>2. /\ handed \in SUBSET (Host \X Identity) /\ disk \in [Host -> Identity \cup {Absent}]
      /\ fitted \in SUBSET Secret /\ drawn \in SUBSET (EnrollToken \cup Secret)
      /\ keys \in Seq(Credential)
  BY DEF EnrollmentInv, EnrollmentTypeOK
<1>3. id \in Identity /\ id.secret \in Secret /\ Held(id, h, keys, nodes, drawn, Secret)
  BY <1>1, <1>2 DEF EnrollmentInv, IdentitiesOK
<1>4. /\ disk' \in [Host -> Identity \cup {Absent}]
      /\ \A g \in Host : disk'[g] = IF g = h THEN id ELSE disk[g]
  BY <1>1, <1>2, <1>3
<1>5. \A x, g : Held(x, g, keys, nodes, drawn, fitted) => Held(x, g, keys, nodes, drawn, fitted')
  BY <1>1 DEF Held
<1>6. Held(id, h, keys, nodes, drawn, fitted')
  BY <1>1, <1>3 DEF Held
<1>7. IdentitiesOK'
  BY <1>1, <1>4, <1>5, <1>6 DEF EnrollmentInv, IdentitiesOK, HasIdentity
<1>8. OnlineOK'
  BY <1>1 DEF EnrollmentInv, OnlineOK, InUse
<1>9. FilesOK'
  BY <1>1, <1>4 DEF EnrollmentInv, FilesOK
<1>10. QED
  BY <1>1, <1>2, <1>3, <1>4, <1>7, <1>8, <1>9 DEF EnrollmentInv, EnrollmentTypeOK, TokensOK, OneNodePerToken,
     NodesOK, NodesKeepTheirHost, KeysOK

(* The process ends: what it sent may arrive, and nobody hears the answer.  *)
LEMMA AgentEndsStep ==
    ASSUME EnrollmentInv, NEW h \in Host, AgentEnds(h)
    PROVE  EnrollmentInv'
<1>1. /\ agent' = [agent EXCEPT ![h] = Stopped]
      /\ wire' = {[m EXCEPT !.heard = @ /\ m.host # h] : m \in wire}
      /\ UNCHANGED disk /\ AgentOnly
  BY DEF AgentEnds, AgentOnly
<1>2. /\ agent \in [Host -> AgentState] /\ wire \in SUBSET Post
      /\ disk \in [Host -> Identity \cup {Absent}]
  BY DEF EnrollmentInv, EnrollmentTypeOK, AgentState
<1>3. Stopped \in AgentState /\ Stopped.pc = "down"
  BY DEF Stopped, AgentState
<1>4. \A g \in Host : agent'[g] = IF g = h THEN Stopped ELSE agent[g]
  BY <1>1, <1>2
<1>5. agent' \in [Host -> AgentState]
  BY <1>1, <1>2, <1>3
<1>6. \A n \in wire' : \E m \in wire :
        /\ n \in Post /\ n.host = m.host /\ n.token = m.token /\ n.id = m.id
        /\ n.heard => m.heard /\ m.host # h /\ n = m
  <2> SUFFICES ASSUME NEW m \in wire, NEW n, n = [m EXCEPT !.heard = @ /\ m.host # h]
               PROVE  /\ n \in Post /\ n.host = m.host /\ n.token = m.token /\ n.id = m.id
                      /\ n.heard => m.heard /\ m.host # h /\ n = m
    BY <1>1
  <2>1. m \in Post
    BY <1>2
  <2>2. PICK host \in Host, heard \in BOOLEAN, token \in EnrollToken \cup {Absent},
             id \in Identity \cup {Absent} :
          m = [host |-> host, heard |-> heard, token |-> token, id |-> id]
    BY <2>1 DEF Post
  <2>3. n = [host |-> host, heard |-> (heard /\ host # h), token |-> token, id |-> id]
    BY <2>2
  <2>4. CASE heard /\ host # h
    BY <2>1, <2>2, <2>3, <2>4
  <2>5. CASE ~(heard /\ host # h)
    <3>1. n = [host |-> host, heard |-> FALSE, token |-> token, id |-> id]
      BY <2>3, <2>5
    <3>2. n \in Post
      BY <2>2, <3>1 DEF Post
    <3>3. n.heard = FALSE /\ n.host = m.host /\ n.token = m.token /\ n.id = m.id
      BY <2>2, <3>1
    <3>4. QED
      BY <3>2, <3>3
  <2>6. QED
    BY <2>4, <2>5
<1>7. wire' \in SUBSET Post
  BY <1>6
<1>8. FilesOK'
  <2>1. \A g \in Host :
          /\ agent'[g].pc \in {"enrolling", "opening"} => disk[g] = Absent
          /\ agent'[g].pc = "writing" => disk[g] = Truncated
    BY <1>3, <1>4 DEF EnrollmentInv, FilesOK
  <2>2. \A n \in wire' : n.heard => n \in wire /\ n.host \in Host /\ n.host # h
    BY <1>2, <1>6 DEF Post
  <2>3. QED
    BY <1>1, <1>4, <2>1, <2>2 DEF EnrollmentInv, FilesOK
<1>9. IdentitiesOK'
  BY <1>1, <1>3, <1>4, <1>6 DEF EnrollmentInv, IdentitiesOK, HasIdentity, AgentOnly
<1>10. QED
  BY <1>1, <1>2, <1>5, <1>7, <1>8, <1>9, AgentOnlyKeeps

-----------------------------------------------------------------------------
LEMMA EnrollmentInvariant == EnrollmentSpec => []EnrollmentInv
<1>1. EnrollmentInit => EnrollmentInv
  <2> SUFFICES ASSUME EnrollmentInit PROVE EnrollmentInv
    OBVIOUS
  <2>1. EnrollmentTypeOK
    BY EmptySeq DEF EnrollmentInit, EnrollmentTypeOK, Time, Stopped
  <2>2. TokensOK /\ NodesOK /\ KeysOK /\ OnlineOK
    BY DEF EnrollmentInit, TokensOK, OneNodePerToken, NodesOK, NodesKeepTheirHost, KeysOK, OnlineOK
  <2>3. IdentitiesOK /\ FilesOK
    BY DEF EnrollmentInit, IdentitiesOK, FilesOK, HasIdentity, Stopped
  <2>4. QED
    BY <2>1, <2>2, <2>3 DEF EnrollmentInv
<1>2. EnrollmentInv /\ [EnrollmentNext]_enrollVars => EnrollmentInv'
  <2> SUFFICES ASSUME EnrollmentInv, [EnrollmentNext]_enrollVars PROVE EnrollmentInv'
    OBVIOUS
  <2>1. CASE UNCHANGED enrollVars
    BY <2>1 DEF enrollVars, EnrollmentInv, EnrollmentTypeOK, TokensOK, OneNodePerToken, NodesOK,
       NodesKeepTheirHost, KeysOK, OnlineOK, InUse, IdentitiesOK, HasIdentity, FilesOK
  <2>2. CASE ClockMoves
    <3>1. now' \in Time
      BY <2>2 DEF ClockMoves, ClockTicks, EnrollmentInv, EnrollmentTypeOK, Time
    <3>2. UNCHANGED <<vouchers, nodes, keys, restarts, disk, agent, wire, made, base, drawn, handed, fitted>>
      BY <2>2 DEF ClockMoves
    <3>3. QED
      BY <3>1, <3>2 DEF EnrollmentInv, EnrollmentTypeOK, TokensOK, OneNodePerToken, NodesOK,
         NodesKeepTheirHost, KeysOK, OnlineOK, InUse, IdentitiesOK, HasIdentity, FilesOK
  <2>3. QED
    BY <2>1, <2>2, CreateTokenStep, AnswerEnrollStep, AnswerHeartbeatStep, AuthenticateTransportStep,
       RevokeNodeStep, RotateCredentialStep, RestartControlStep, StartStep, SaveSteps,
       SendHeartbeatStep, InstallRotatedStep, AgentEndsStep DEF EnrollmentNext
<1>3. QED
  BY <1>1, <1>2, PTL DEF EnrollmentSpec

(* NodeEnrollmentRegistry's maps and the identity files keep their shape.   *)
THEOREM EnrollmentTypeCorrect == EnrollmentSpec => []EnrollmentTypeOK
<1>1. EnrollmentInv => EnrollmentTypeOK
  BY DEF EnrollmentInv
<1>2. QED
  BY <1>1, EnrollmentInvariant, PTL

(* agent_enroll: an enrollment token makes at most one node.                *)
THEOREM TokensUsedOnce == EnrollmentSpec => []OneNodePerToken
<1>1. EnrollmentInv => OneNodePerToken
  BY DEF EnrollmentInv, TokensOK
<1>2. QED
  BY <1>1, EnrollmentInvariant, PTL

(* heartbeat stores the host it is told, and it is always the one the node  *)
(* was made for, also when ids are used again after a restart.              *)
THEOREM HostsKept == EnrollmentSpec => []NodesKeepTheirHost
<1>1. EnrollmentInv => NodesKeepTheirHost
  BY DEF EnrollmentInv, NodesOK
<1>2. QED
  BY <1>1, EnrollmentInvariant, PTL

(* node_view: a node is not shown online for longer than NODE_OFFLINE_AFTER *)
(* once every credential its agent was given has run out: those it was made *)
(* with, and the rotated ones that were put on its host.                    *)
THEOREM OnlineOnlyWithCredential == EnrollmentSpec => []OnlineEndsWithCredential
<1>1. EnrollmentInv => OnlineEndsWithCredential
  <2> SUFFICES ASSUME EnrollmentInv, NEW i \in DOMAIN nodes, Shown(i) = "Online"
               PROVE  \E k \in DOMAIN keys :
                        keys[k].node = i /\ InUse(k) /\ now < keys[k].expires + OfflineAfter
    BY DEF OnlineEndsWithCredential
  <2>1. nodes[i].status = "Online" /\ ~(now - nodes[i].beat >= OfflineAfter)
    BY DEF Shown
  <2>2. PICK k \in DOMAIN keys :
          keys[k].node = i /\ InUse(k) /\ nodes[i].beat < keys[k].expires
    BY <2>1 DEF EnrollmentInv, OnlineOK
  <2>3. now \in Nat /\ nodes[i].beat \in Nat /\ keys[k].expires \in Nat /\ OfflineAfter \in Nat
    <3>1. nodes[i] \in Node /\ keys[k] \in Credential
      BY DEF EnrollmentInv, EnrollmentTypeOK
    <3>2. QED
      BY <3>1 DEF Node, Credential, EnrollmentInv, EnrollmentTypeOK, Time
  <2>4. QED
    BY <2>1, <2>2, <2>3
<1>2. QED
  BY <1>1, EnrollmentInvariant, PTL

(* save_to_path and load_or_enroll_identity: an identity that was saved is  *)
(* neither damaged nor replaced, but for a rotated one made for the host.   *)
THEOREM SavedIdentityKept == EnrollmentSpec => IdentityKept
<1> DEFINE Kept ==
      \A h \in Host : disk[h] \notin {Absent, Truncated} =>
          disk'[h] = disk[h] \/ <<h, disk'[h]>> \in handed
<1>1. EnrollmentInv /\ [EnrollmentNext]_enrollVars => [Kept]_enrollVars
  <2> SUFFICES ASSUME EnrollmentInv, EnrollmentNext, NEW h \in Host, disk[h] \notin {Absent, Truncated}
               PROVE  disk'[h] = disk[h] \/ <<h, disk'[h]>> \in handed
    OBVIOUS
  <2>1. CASE UNCHANGED disk
    BY <2>1
  <2>2. ASSUME NEW g \in Host, OpenIdentity(g) \/ WriteIdentity(g) PROVE disk'[h] = disk[h]
    <3>1. g # h
      BY <2>2 DEF OpenIdentity, WriteIdentity, EnrollmentInv, FilesOK
    <3>2. \E d : disk' = [disk EXCEPT ![g] = d]
      BY <2>2 DEF OpenIdentity, WriteIdentity
    <3>3. QED
      BY <3>1, <3>2 DEF EnrollmentInv, EnrollmentTypeOK
  <2>3. ASSUME NEW g \in Host, NEW id, InstallRotated(g, id)
        PROVE  disk'[h] = disk[h] \/ <<h, disk'[h]>> \in handed
    BY <2>3 DEF InstallRotated, EnrollmentInv, EnrollmentTypeOK
  <2>4. \/ UNCHANGED disk
        \/ \E g \in Host : OpenIdentity(g) \/ WriteIdentity(g) \/ \E id : InstallRotated(g, id)
    BY DEF EnrollmentNext, ClockMoves, RestartControl, CreateToken, AnswerEnroll, AnswerHeartbeat,
           RevokeNode, RotateCredential, Start, SendHeartbeat, AuthenticateTransport, AgentEnds
  <2>5. QED
    BY <2>1, <2>2, <2>3, <2>4
<1>2. QED
  BY <1>1, EnrollmentInvariant, PTL DEF EnrollmentSpec, IdentityKept
==============================================================================
