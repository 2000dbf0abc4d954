---------------------------- MODULE MCControlStores ----------------------------
(***************************************************************************)
(* TLC instances of the stores of the control plane. Each store has a lock *)
(* of its own and none calls another, so an instance of one says all there *)
(* is to say of it: a behaviour is one of the component `part`, and the    *)
(* others stay as they began.                                              *)
(***************************************************************************)
EXTENDS Accounts, Factors, NodeEnrollment, Permissions, AuditChain,
    OutputReplay, BrowserBridge, LongPoll, RouteHealth, Schema, TLC

VARIABLE part

\* With the colon that joins them, two of these addresses and messages say the same.
SomeActors   == {Absent, <<Colon>>}
SomeMessages == {<<>>, <<Colon>>}
SomeCarried  == {<<>>, <<"ping">>, <<"output", "stray">>}

vars == <<part, accountVars, factorVars, enrollVars, permissionVars, auditVars, outputVars,
          bridgeVars, pollVars, routeVars, schemaVars>>

\* The variables of a component without the clock, which three of them read.
accountOwn == <<users, logins, bucket, req, admitted, seen>>
enrollOwn  == <<vouchers, nodes, keys, restarts, disk, agent, wire, handed, made, base, drawn, fitted>>
auditOwn   == <<events, lastHash, nextId, recording, copy, damage, source>>
storeVars  == <<accountOwn, factorVars, enrollOwn, permissionVars, auditOwn>>
outerVars  == <<bridgeVars, pollVars, routeVars, schemaVars>>

Init ==
    /\ part \in {"accounts", "factors", "enrollment", "permissions", "audit", "output",
                "bridge", "poll", "routing", "schema"}
    /\ AccountsInit /\ FactorsInit /\ EnrollmentInit /\ PermissionsInit /\ ChainInit /\ OutputInit
    /\ BridgeInit /\ PollInit /\ RoutingInit /\ SchemaInit
    /\ part # "permissions" => rank = [u \in Member |-> "Viewer"]

Next ==
    /\ part' = part
    /\ \/ /\ part = "accounts" /\ AccountsNext
          /\ UNCHANGED <<factorVars, enrollOwn, permissionVars, auditOwn, outputVars, outerVars>>
       \/ /\ part = "factors" /\ FactorsNext
          /\ UNCHANGED <<now, accountOwn, enrollOwn, permissionVars, auditOwn, outputVars, outerVars>>
       \/ /\ part = "enrollment" /\ EnrollmentNext
          /\ UNCHANGED <<accountOwn, factorVars, permissionVars, auditOwn, outputVars, outerVars>>
       \/ /\ part = "permissions" /\ PermissionsNext
          /\ UNCHANGED <<now, accountOwn, factorVars, enrollOwn, auditOwn, outputVars, outerVars>>
       \/ /\ part = "audit" /\ ChainNext
          /\ UNCHANGED <<accountOwn, factorVars, enrollOwn, permissionVars, outputVars, outerVars>>
       \/ /\ part = "output" /\ OutputNext
          /\ UNCHANGED <<now, storeVars, outerVars>>
       \/ /\ part = "bridge" /\ BridgeNext
          /\ UNCHANGED <<now, storeVars, outputVars, pollVars, routeVars, schemaVars>>
       \/ /\ part = "poll" /\ PollNext
          /\ UNCHANGED <<now, storeVars, outputVars, bridgeVars, routeVars, schemaVars>>
       \/ /\ part = "routing" /\ RoutingNext
          /\ UNCHANGED <<now, storeVars, outputVars, bridgeVars, pollVars, schemaVars>>
       \/ /\ part = "schema" /\ SchemaNext
          /\ UNCHANGED <<now, storeVars, outputVars, bridgeVars, pollVars, routeVars>>

Spec == Init /\ [][Next]_vars

\* Every component keeps the types of its fields (the others are as they began).
StoresTypeOK ==
    CASE part = "accounts"    -> AccountsTypeOK
      [] part = "factors"     -> FactorsTypeOK
      [] part = "enrollment"  -> EnrollmentTypeOK
      [] part = "permissions" -> PermissionsTypeOK
      [] part = "audit"       -> ChainTypeOK
      [] part = "output"      -> OutputTypeOK
      [] part = "bridge"      -> BridgeTypeOK
      [] part = "poll"        -> PollTypeOK
      [] part = "routing"     -> RoutingTypeOK
      [] part = "schema"      -> SchemaTypeOK

\* These are only compared for equality (safety runs only). Constants of different components may
\* have the same values, which makes the group small enough.
Symmetric ==
    Permutations(Token) \cup Permutations(Challenge) \cup Permutations(Host)
=============================================================================
