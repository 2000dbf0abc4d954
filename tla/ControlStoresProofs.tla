-------------------------- MODULE ControlStoresProofs --------------------------
(***************************************************************************)
(* Proofs about the stores of the control plane taken together: every      *)
(* behaviour of MCControlStores is one of each component, so that what is  *)
(* proved of a component holds of the composition; and, of Schema, that    *)
(* the migrations respect the references between tables and that a deleted *)
(* user or node leaves nothing but records.                                *)
(***************************************************************************)
EXTENDS MCControlStores, AccessProofs, NodeProofs, AuditChainProofs, StreamProofs

-----------------------------------------------------------------------------
(* Schema *)

(* Which migration makes a table, and the table of a name.                  *)
Born(n) ==
    CASE n = "users" -> 1 [] n = "sessions" -> 2 [] n = "terminal_sessions" -> 3
      [] n = "audit_logs" -> 4 [] n = "nodes" -> 5 [] n = "node_credentials" -> 6
      [] n = "node_heartbeats" -> 7 [] n = "enrollment_tokens" -> 8 [] n = "auth_factors" -> 9
      [] n = "recovery_codes" -> 10 [] n = "passkey_credentials" -> 11 [] OTHER -> 12

TableOf(n) ==
    CASE n = "users" -> Users [] n = "sessions" -> Sessions
      [] n = "terminal_sessions" -> TerminalSessions [] n = "audit_logs" -> AuditLogs
      [] n = "nodes" -> NodesTable [] n = "node_credentials" -> NodeCredentials
      [] n = "node_heartbeats" -> NodeHeartbeats [] n = "enrollment_tokens" -> EnrollmentTokens
      [] n = "auth_factors" -> AuthFactors [] n = "recovery_codes" -> RecoveryCodes
      [] n = "passkey_credentials" -> PasskeyCredentials [] n = "workspaces" -> Workspaces
      [] n = "roles" -> Roles [] n = "permissions" -> PermissionsTable
      [] n = "role_permissions" -> RolePermissions
      [] n = "workspace_members" -> WorkspaceMembers
      [] n = "workspace_nodes" -> WorkspaceNodes

TableName ==
    {"users", "sessions", "terminal_sessions", "audit_logs", "nodes", "node_credentials",
     "node_heartbeats", "enrollment_tokens", "auth_factors", "recovery_codes",
     "passkey_credentials", "workspaces", "roles", "permissions", "role_permissions",
     "workspace_members", "workspace_nodes"}

AllTables == {TableOf(n) : n \in TableName}

(* The tables there are when k migrations are applied.                      *)
TablesAt(k) == {t \in AllTables : Born(t.name) <= k}

LEMMA TableNamed == \A n \in TableName : TableOf(n).name = n /\ Born(n) \in 1 .. 12
BY DEF TableName, TableOf, Table, Born, Users, Sessions, TerminalSessions, AuditLogs, NodesTable,
       NodeCredentials, NodeHeartbeats, EnrollmentTokens, AuthFactors, RecoveryCodes,
       PasskeyCredentials, Workspaces, Roles, PermissionsTable, RolePermissions,
       WorkspaceMembers, WorkspaceNodes

LEMMA OneOfAName ==
    /\ \A t \in AllTables : t.name \in TableName /\ t = TableOf(t.name)
    /\ \A n \in TableName : TableOf(n) \in AllTables
BY TableNamed DEF AllTables

\* A table references tables that are older, or of the last migration.
LEMMA ReferencesOf ==
    ASSUME NEW n \in TableName, NEW r \in TableOf(n).references
    PROVE  /\ r.action \in {"Cascade", "SetNull"} /\ r.to \in TableName
           /\ Born(r.to) < Born(n) \/ (Born(n) = 12 /\ Born(r.to) <= 12)
BY DEF TableName, TableOf, Table, Born, Users, Sessions, TerminalSessions, AuditLogs, NodesTable,
       NodeCredentials, NodeHeartbeats, EnrollmentTokens, AuthFactors, RecoveryCodes,
       PasskeyCredentials, Workspaces, Roles, PermissionsTable, RolePermissions,
       WorkspaceMembers, WorkspaceNodes, Cascade, SetNull

\* Each migration but the last makes one table, and unmakes it.
LEMMA OneTableEach ==
    /\ Len(Migrations) = 12 /\ Migrations[12] = Rbac
    /\ \A k \in 1 .. 11 : \E n \in TableName :
          /\ Migrations[k] = OneTable(TableOf(n)) /\ Born(n) = k
          /\ \A m \in TableName : Born(m) = k => m = n
<1>1. Len(Migrations) = 12 /\ Migrations[12] = Rbac
  BY DEF Migrations
<1>2. \A n \in TableName \ {"workspaces", "roles", "permissions", "role_permissions",
                            "workspace_members", "workspace_nodes"} :
          Migrations[Born(n)] = OneTable(TableOf(n))
  BY ZenonT(40) DEF TableName, Migrations, Born, TableOf
<1>3. ASSUME NEW k \in 1 .. 11
      PROVE  \E n \in TableName : Born(n) = k /\ \A m \in TableName : Born(m) = k => m = n
  BY DEF TableName, Born
<1>4. \A n \in TableName : Born(n) <= 11 =>
          n \notin {"workspaces", "roles", "permissions", "role_permissions",
                    "workspace_members", "workspace_nodes"}
  BY DEF TableName, Born
<1>5. QED
  BY <1>1, <1>2, <1>3, <1>4

LEMMA NamesAt ==
    ASSUME NEW k \in 0 .. 12
    PROVE  /\ Names(TablesAt(k)) = {n \in TableName : Born(n) <= k}
           /\ \A t \in TablesAt(k) : \A r \in t.references : r.to \in Names(TablesAt(k))
           /\ \A t \in TablesAt(k) : t.name \in TableName /\ t = TableOf(t.name)
<1>1. Names(TablesAt(k)) = {n \in TableName : Born(n) <= k}
  BY OneOfAName, TableNamed DEF Names, TablesAt
<1>2. ASSUME NEW t \in TablesAt(k), NEW r \in t.references PROVE r.to \in Names(TablesAt(k))
  <2>1. t.name \in TableName /\ t = TableOf(t.name) /\ Born(t.name) <= k
    BY OneOfAName DEF TablesAt
  <2>2. r.to \in TableName /\ (Born(r.to) < Born(t.name) \/ (Born(t.name) = 12 /\ Born(r.to) <= 12))
    BY <2>1, ReferencesOf
  <2>3. Born(r.to) <= k
    BY <2>1, <2>2, TableNamed
  <2>4. QED
    BY <1>1, <2>2, <2>3
<1>3. QED
  BY <1>1, <1>2, OneOfAName DEF TablesAt

\* A migration of one table, up and down again.
LEMMA OneTableApplies ==
    ASSUME NEW k \in 0 .. 10
    PROVE  LET m == Migrations[k + 1] IN
           /\ CanCreate(TablesAt(k), m.up) /\ Created(TablesAt(k), m.up) = TablesAt(k + 1)
           /\ CanDrop(TablesAt(k + 1), m.down) /\ Dropped(TablesAt(k + 1), m.down) = TablesAt(k)
<1>1. PICK n \in TableName :
        /\ Migrations[k + 1] = OneTable(TableOf(n)) /\ Born(n) = k + 1
        /\ \A m \in TableName : Born(m) = k + 1 => m = n
  BY OneTableEach
<1> DEFINE t == TableOf(n)
<1>2. /\ t.name = n /\ t \in AllTables
      /\ Migrations[k + 1].up = <<t>> /\ Migrations[k + 1].down = <<n>>
  BY <1>1, TableNamed, OneOfAName DEF OneTable, Migration
<1>3. \A r \in t.references : r.to \in Names(TablesAt(k))
  BY <1>1, ReferencesOf, NamesAt, TableNamed
<1> HIDE DEF t
<1>4. /\ Firsts(<<t>>, 0) = {} /\ Firsts(<<t>>, 1) = {t}
      /\ Firsts(<<n>>, 0) = {} /\ Firsts(<<n>>, 1) = {n}
  BY DEF Firsts
<1>5. CanCreate(TablesAt(k), <<t>>)
  <2>1. DOMAIN <<t>> = {1} /\ <<t>>[1] = t
    OBVIOUS
  <2>2. Referenced({t}) \subseteq Names(TablesAt(k) \cup {})
    BY <1>3 DEF Referenced
  <2>3. QED
    BY <1>4, <2>1, <2>2 DEF CanCreate
<1>6. TablesAt(k + 1) = TablesAt(k) \cup {t} /\ \A u \in TablesAt(k) : u.name # n
  <2>1. \A u \in AllTables : Born(u.name) \in 1 .. 12 /\ (Born(u.name) = k + 1 => u = t)
    BY <1>1, OneOfAName, TableNamed DEF t
  <2>2. QED
    BY <1>1, <1>2, <2>1 DEF TablesAt
<1>7. Left(TablesAt(k + 1), {n}) = TablesAt(k) /\ Left(TablesAt(k + 1), {}) = TablesAt(k + 1)
  BY <1>2, <1>6 DEF Left
<1>8. n \in Names(TablesAt(k + 1)) /\ n \notin Referenced(TablesAt(k + 1))
  <2>1. n \in Names(TablesAt(k + 1))
    BY <1>2, <1>6 DEF Names
  <2>2. n \notin Names(TablesAt(k))
    BY <1>6 DEF Names
  <2>3. \A u \in TablesAt(k + 1) : \A r \in u.references : r.to \in Names(TablesAt(k))
    BY <1>3, <1>6, NamesAt
  <2>4. QED
    BY <2>1, <2>2, <2>3 DEF Referenced
<1>9. CanDrop(TablesAt(k + 1), <<n>>)
  BY <1>4, <1>7, <1>8 DEF CanDrop
<1>10. QED
  BY <1>2, <1>4, <1>5, <1>6, <1>7, <1>9 DEF Created, Dropped

RbacName == {"workspaces", "roles", "permissions", "role_permissions", "workspace_members",
             "workspace_nodes"}

\* What the tables of the last migration reference.
LEMMA RbacReferences ==
    /\ Referenced({Workspaces}) = {} /\ Referenced({Roles}) = {} /\ Referenced({PermissionsTable}) = {}
    /\ Referenced({RolePermissions}) = {"roles"} /\ Referenced({WorkspaceNodes}) = {"workspaces"}
    /\ Referenced({WorkspaceMembers}) = {"workspaces", "users", "roles"}
<1>1. /\ Workspaces.references = {} /\ Roles.references = {} /\ PermissionsTable.references = {}
      /\ RolePermissions.references = {Cascade("role_id", "roles")}
      /\ WorkspaceNodes.references = {Cascade("workspace_id", "workspaces")}
      /\ WorkspaceMembers.references = {Cascade("workspace_id", "workspaces"),
                                        Cascade("user_id", "users"), Cascade("role_id", "roles")}
  BY DEF Table, Workspaces, Roles, PermissionsTable, RolePermissions, WorkspaceMembers,
         WorkspaceNodes
<1>2. \A t : Referenced({t}) = {r.to : r \in t.references}
  BY DEF Referenced
<1>3. \A c, n : Cascade(c, n).to = n
  BY DEF Cascade
<1>4. ASSUME NEW t, NEW c, NEW n, t.references = {Cascade(c, n)} PROVE Referenced({t}) = {n}
  <2>1. {r.to : r \in {Cascade(c, n)}} = {n}
    BY <1>3
  <2>2. QED
    BY <1>2, <1>4, <2>1
<1>5. {r.to : r \in {Cascade("workspace_id", "workspaces"), Cascade("user_id", "users"),
                     Cascade("role_id", "roles")}} = {"workspaces", "users", "roles"}
  BY <1>3
<1>6. Referenced({WorkspaceMembers}) = {"workspaces", "users", "roles"}
  BY <1>1, <1>2, <1>5
<1>7. ASSUME NEW t, t.references = {} PROVE Referenced({t}) = {}
  BY <1>2, <1>7
<1>8. /\ Referenced({Workspaces}) = {} /\ Referenced({Roles}) = {}
      /\ Referenced({PermissionsTable}) = {}
  BY <1>1, <1>7
<1>9. Referenced({RolePermissions}) = {"roles"}
  BY <1>1, <1>4
<1>10. Referenced({WorkspaceNodes}) = {"workspaces"}
  BY <1>1, <1>4
<1>11. QED
  BY <1>6, <1>8, <1>9, <1>10

LEMMA RbacTables ==
    /\ TablesAt(12) = TablesAt(11) \cup {Workspaces, Roles, PermissionsTable, RolePermissions,
                                         WorkspaceMembers, WorkspaceNodes}
    /\ \A t \in TablesAt(11) : t.name \notin RbacName
    /\ Referenced(TablesAt(11)) \cap RbacName = {}
    /\ "users" \in Names(TablesAt(11))
<1>1. /\ \A n \in TableName : Born(n) <= 12 /\ (Born(n) <= 11 <=> n \notin RbacName)
      /\ RbacName \subseteq TableName /\ "users" \in TableName
  BY DEF TableName, RbacName, Born
<1>2. {TableOf(n) : n \in RbacName} =
        {Workspaces, Roles, PermissionsTable, RolePermissions, WorkspaceMembers, WorkspaceNodes}
  BY DEF RbacName, TableOf
<1>3. TablesAt(12) = TablesAt(11) \cup {TableOf(n) : n \in RbacName}
  BY <1>1, OneOfAName, TableNamed DEF TablesAt
<1>4. \A t \in TablesAt(11) : t.name \notin RbacName
  BY <1>1, OneOfAName DEF TablesAt
<1>5. Referenced(TablesAt(11)) \cap RbacName = {}
  BY <1>1, NamesAt DEF Referenced
<1>6. "users" \in Names(TablesAt(11))
  <2>1. Names(TablesAt(11)) = {n \in TableName : Born(n) <= 11}
    BY NamesAt
  <2>2. "users" \notin RbacName
    BY DEF RbacName
  <2>3. QED
    BY <1>1, <2>1, <2>2
<1>7. QED
  BY <1>2, <1>3, <1>4, <1>5, <1>6

LEMMA NamesOfRbac ==
    /\ Workspaces.name = "workspaces" /\ Roles.name = "roles"
    /\ PermissionsTable.name = "permissions" /\ RolePermissions.name = "role_permissions"
    /\ WorkspaceMembers.name = "workspace_members" /\ WorkspaceNodes.name = "workspace_nodes"
BY DEF Table, Workspaces, Roles, PermissionsTable, RolePermissions, WorkspaceMembers,
       WorkspaceNodes

LEMMA ReferencedIsUnion ==
    ASSUME NEW S, NEW T
    PROVE  Referenced(S \cup T) = Referenced(S) \cup Referenced(T)
BY DEF Referenced

LEMMA RbacApplies ==
    /\ CanCreate(TablesAt(11), Rbac.up) /\ Created(TablesAt(11), Rbac.up) = TablesAt(12)
    /\ CanDrop(TablesAt(12), Rbac.down) /\ Dropped(TablesAt(12), Rbac.down) = TablesAt(11)
<1> DEFINE up == <<Workspaces, Roles, PermissionsTable, RolePermissions, WorkspaceMembers,
                   WorkspaceNodes>>
           down == <<"workspace_nodes", "workspace_members", "role_permissions", "permissions",
                     "roles", "workspaces">>
           old == TablesAt(11)
<1>1. Rbac.up = up /\ Rbac.down = down
  BY DEF Rbac, Migration
<1>2. CanCreate(old, up)
  <2>1. ASSUME NEW i \in 1 .. 6 PROVE Referenced({up[i]}) \subseteq Names(old \cup Firsts(up, i - 1))
    <3>1. "users" \in Names(old \cup Firsts(up, i - 1))
      BY RbacTables DEF Names
    <3>2. i >= 2 => up[1] \in Firsts(up, i - 1)
      BY DEF Firsts
    <3>3. i >= 3 => up[2] \in Firsts(up, i - 1)
      BY DEF Firsts
    <3>4. /\ i >= 2 => "workspaces" \in Names(old \cup Firsts(up, i - 1))
          /\ i >= 3 => "roles" \in Names(old \cup Firsts(up, i - 1))
      BY <3>2, <3>3, NamesOfRbac DEF Names
    <3>5. QED
      BY <3>1, <3>4, RbacReferences
  <2>2. DOMAIN up = 1 .. 6
    OBVIOUS
  <2> HIDE DEF up, old
  <2>3. QED
    BY <2>1, <2>2 DEF CanCreate
<1>3. Created(old, up) = TablesAt(12)
  <2>1. Len(up) = 6
    OBVIOUS
  <2>2. Firsts(up, 6) = {Workspaces, Roles, PermissionsTable, RolePermissions, WorkspaceMembers,
                         WorkspaceNodes}
    BY DEF Firsts
  <2>3. QED
    BY <2>1, <2>2, RbacTables DEF Created
<1>4. /\ Firsts(down, 0) = {} /\ Firsts(down, 1) = {"workspace_nodes"}
      /\ Firsts(down, 2) = {"workspace_nodes", "workspace_members"}
      /\ Firsts(down, 3) = {"workspace_nodes", "workspace_members", "role_permissions"}
      /\ Firsts(down, 4) = {"workspace_nodes", "workspace_members", "role_permissions", "permissions"}
      /\ Firsts(down, 5) = {"workspace_nodes", "workspace_members", "role_permissions", "permissions",
                            "roles"}
      /\ Firsts(down, 6) = RbacName
  BY DEF Firsts, RbacName
<1> DEFINE left(i) == Left(TablesAt(12), Firsts(down, i))
<1>5. /\ left(0) = left(1) \cup {WorkspaceNodes} /\ left(1) = left(2) \cup {WorkspaceMembers}
      /\ left(2) = left(3) \cup {RolePermissions} /\ left(3) = left(4) \cup {PermissionsTable}
      /\ left(4) = left(5) \cup {Roles} /\ left(5) = left(6) \cup {Workspaces} /\ left(6) = old
  BY <1>4, RbacTables, NamesOfRbac DEF Left, RbacName
<1> HIDE DEF left, old
<1>6. ASSUME NEW i \in 1 .. 6 PROVE down[i] \in Names(left(i - 1)) /\ down[i] \notin Referenced(left(i - 1))
  <2>1. Referenced(old) \cap RbacName = {}
    BY RbacTables DEF old
  <2>2. /\ Referenced(left(5)) = Referenced(old) /\ Referenced(left(4)) = Referenced(old)
        /\ Referenced(left(3)) = Referenced(old)
        /\ Referenced(left(2)) = Referenced(old) \cup {"roles"}
        /\ Referenced(left(1)) = Referenced(old) \cup {"roles"} \cup {"workspaces", "users", "roles"}
        /\ Referenced(left(0)) = Referenced(left(1)) \cup {"workspaces"}
    BY <1>5, RbacReferences, ReferencedIsUnion
  <2>3. /\ "workspaces" \in Names(left(5)) /\ "roles" \in Names(left(4))
        /\ "permissions" \in Names(left(3)) /\ "role_permissions" \in Names(left(2))
        /\ "workspace_members" \in Names(left(1)) /\ "workspace_nodes" \in Names(left(0))
    BY <1>5, NamesOfRbac DEF Names
  <2>4. CASE i = 1
    BY <2>1, <2>2, <2>3, <2>4 DEF RbacName
  <2>5. CASE i = 2
    BY <2>1, <2>2, <2>3, <2>5 DEF RbacName
  <2>6. CASE i = 3
    BY <2>1, <2>2, <2>3, <2>6 DEF RbacName
  <2>7. CASE i \in {4, 5, 6}
    BY <2>1, <2>2, <2>3, <2>7 DEF RbacName
  <2>8. QED
    BY <2>4, <2>5, <2>6, <2>7
<1>7. CanDrop(TablesAt(12), down)
  BY <1>6 DEF CanDrop, left
<1>8. Dropped(TablesAt(12), down) = old
  BY <1>5 DEF Dropped, left
<1>9. QED
  BY <1>1, <1>2, <1>3, <1>7, <1>8 DEF old
(* Every migration applies where it is due, and is undone by its down.      *)
LEMMA MigrationApplies ==
    ASSUME NEW k \in 0 .. 11
    PROVE  LET m == Migrations[k + 1] IN
           /\ CanCreate(TablesAt(k), m.up) /\ Created(TablesAt(k), m.up) = TablesAt(k + 1)
           /\ CanDrop(TablesAt(k + 1), m.down) /\ Dropped(TablesAt(k + 1), m.down) = TablesAt(k)
<1>1. CASE k = 11
  BY <1>1, RbacApplies, OneTableEach
<1>2. CASE k \in 0 .. 10
  BY <1>2, OneTableApplies
<1>3. QED
  BY <1>1, <1>2

\* The columns of a table that can be NULL.
Nullable(n) == {<<n, r.column>> : r \in {r \in TableOf(n).references : r.action = "SetNull"}}
ClearedOK == cleared \subseteq UNION {Nullable(n) : n \in TableName}

(* The tables are those of the migrations that are applied, each stored row *)
(* refers to a row, by each column that is not cleared, and only a column   *)
(* that can be is cleared.                                                  *)
SchemaInv == applied \in 0 .. 12 /\ tables = TablesAt(applied) /\ SchemaTypeOK /\ ClearedOK

LEMMA TablesNow ==
    ASSUME SchemaInv
    PROVE  /\ \A t \in tables : t.name \in TableName /\ t = TableOf(t.name)
           /\ \A t \in tables : \A r \in t.references : r.action \in {"Cascade", "SetNull"}
BY NamesAt, ReferencesOf DEF SchemaInv

(* What falls with a row: the row, and the dependents of what falls; but    *)
(* nothing that some set of rows with both has not.                         *)
LEMMA FallenRows ==
    ASSUME NEW name \in stored
    PROVE  /\ name \in FallsWith(name) /\ FallsWith(name) \subseteq stored
           /\ Names(Dependents(FallsWith(name))) \subseteq FallsWith(name)
           /\ \A names \in SUBSET stored :
                  name \in names /\ Names(Dependents(names)) \subseteq names =>
                      FallsWith(name) \subseteq names
<1>1. \A names \in SUBSET stored :
          name \in names /\ Names(Dependents(names)) \subseteq names => FallsWith(name) \subseteq names
  BY DEF FallsWith
<1>2. ASSUME NEW t \in Dependents(FallsWith(name)) PROVE t.name \in FallsWith(name)
  <2>1. t.name \in stored
    BY DEF Dependents
  <2>2. ASSUME NEW names \in SUBSET stored, name \in names, Names(Dependents(names)) \subseteq names
        PROVE  t.name \in names
    <3>1. t \in Dependents(names)
      BY <1>1, <2>2 DEF Dependents
    <3>2. QED
      BY <2>2, <3>1 DEF Names
  <2>3. QED
    BY <2>1, <2>2 DEF FallsWith
<1>3. QED
  BY <1>1, <1>2 DEF FallsWith, Names

LEMMA SchemaMigrates ==
    ASSUME SchemaInv, MigrateUp \/ MigrateDown
    PROVE  SchemaInv'
<1>1. /\ applied \in 0 .. 12 /\ tables = TablesAt(applied) /\ Len(Migrations) = 12
      /\ stored \subseteq Names(tables)
      /\ \A t \in tables : t.name \in stored =>
            \A r \in t.references : r.to \in stored \/ <<t.name, r.column>> \in cleared
  BY OneTableEach DEF SchemaInv, SchemaTypeOK
<1> ClearedOK'
  BY DEF SchemaInv, ClearedOK, MigrateUp, MigrateDown, Kept
<1>2. CASE MigrateUp
  <2>1. applied \in 0 .. 11 /\ applied' = applied + 1 /\ UNCHANGED <<stored, cleared>>
    BY <1>1, <1>2 DEF MigrateUp
  <2>2. tables' = TablesAt(applied')
    BY <1>1, <1>2, <2>1, MigrationApplies DEF MigrateUp
  <2>3. tables \subseteq tables'
    BY <1>2 DEF MigrateUp, Created
  <2>4. \A t \in tables' : t.name \in stored => t \in tables
    <3>1. \A t \in tables' : t = TableOf(t.name)
      BY <2>1, <2>2, NamesAt
    <3>2. \A t \in tables : t = TableOf(t.name)
      BY <1>1, NamesAt
    <3>3. QED
      BY <1>1, <3>1, <3>2 DEF Names
  <2>5. SchemaTypeOK'
    BY <1>1, <2>1, <2>3, <2>4 DEF SchemaTypeOK, Names
  <2>6. QED
    BY <2>1, <2>2, <2>5 DEF SchemaInv
<1>3. CASE MigrateDown
  <2>1. /\ applied \in 1 .. 12 /\ applied' = applied - 1
        /\ stored' = stored \cap Names(tables') /\ cleared' = Kept(cleared, stored')
    BY <1>1, <1>3 DEF MigrateDown
  <2>2. applied - 1 \in 0 .. 11 /\ (applied - 1) + 1 = applied
    BY <2>1
  <2>3. tables' = TablesAt(applied')
    BY <1>1, <1>3, <2>1, <2>2, MigrationApplies DEF MigrateDown
  <2>4. tables' \subseteq tables
    BY <1>3 DEF MigrateDown, Dropped, Left
  <2>5. \A t \in tables' : \A r \in t.references : r.to \in Names(tables')
    BY <2>1, <2>2, <2>3, NamesAt
  <2>6. \A t \in tables' : t.name \in stored' =>
            \A r \in t.references : r.to \in stored' \/ <<t.name, r.column>> \in cleared'
    <3> SUFFICES ASSUME NEW t \in tables', t.name \in stored', NEW r \in t.references
                 PROVE  r.to \in stored' \/ <<t.name, r.column>> \in cleared'
      OBVIOUS
    <3>1. CASE r.to \in stored
      BY <2>1, <2>5, <3>1
    <3>2. CASE <<t.name, r.column>> \in cleared
      BY <2>1, <3>2 DEF Kept
    <3>3. QED
      BY <1>1, <2>1, <2>4, <3>1, <3>2
  <2>7. SchemaTypeOK'
    <3>1. applied' \in 0 .. Len(Migrations)
      BY <1>1, <2>1
    <3>2. stored' \subseteq Names(tables')
      BY <2>1
    <3>3. QED
      BY <2>6, <3>1, <3>2 DEF SchemaTypeOK
  <2>8. QED
    BY <2>1, <2>2, <2>3, <2>7 DEF SchemaInv
<1>4. QED
  BY <1>2, <1>3

LEMMA SchemaRows ==
    ASSUME SchemaInv, NEW t \in tables, InsertRow(t) \/ DeleteRow(t)
    PROVE  SchemaInv'
<1>1. /\ UNCHANGED <<tables, applied>> /\ stored \subseteq Names(tables)
      /\ \A u \in tables : u.name \in stored =>
            \A r \in u.references : r.to \in stored \/ <<u.name, r.column>> \in cleared
  BY DEF SchemaInv, SchemaTypeOK, InsertRow, DeleteRow
<1>2. \A u \in tables : u.name = t.name => u = t
  BY TablesNow
<1>3. ASSUME stored' \subseteq Names(tables),
             \A u \in tables : u.name \in stored' =>
                \A r \in u.references : r.to \in stored' \/ <<u.name, r.column>> \in cleared'
      PROVE  SchemaInv'
  <2>1. \A u \in tables : \A r \in u.references :
            r.action = "SetNull" => <<u.name, r.column>> \in UNION {Nullable(n) : n \in TableName}
    BY TablesNow DEF Nullable
  <2>2. cleared \subseteq UNION {Nullable(n) : n \in TableName}
    BY DEF SchemaInv, ClearedOK
  <2>3. ClearedOK'
    <3>1. CASE InsertRow(t)
      BY <2>1, <2>2, <3>1 DEF InsertRow, ClearedOK
    <3>2. CASE DeleteRow(t)
      BY <2>1, <2>2, <3>2 DEF DeleteRow, ClearedOK, Kept, ClearedWith
    <3>3. QED
      BY <3>1, <3>2
  <2>4. QED
    BY <1>1, <1>3, <2>3 DEF SchemaInv, SchemaTypeOK
<1>4. CASE InsertRow(t)
  <2>1. PICK null \in SUBSET {r \in t.references : r.action = "SetNull"} :
          /\ \A r \in t.references \ null : r.to \in stored
          /\ cleared' = cleared \cup {<<t.name, r.column>> : r \in null}
    BY <1>4 DEF InsertRow
  <2>2. stored' = stored \cup {t.name}
    BY <1>4 DEF InsertRow
  <2>3. \A r \in t.references : r.to \in stored' \/ <<t.name, r.column>> \in cleared'
    BY <2>1, <2>2
  <2>4. \A u \in tables : u.name \in stored' =>
            \A r \in u.references : r.to \in stored' \/ <<u.name, r.column>> \in cleared'
    BY <1>1, <1>2, <2>1, <2>2, <2>3
  <2>5. QED
    BY <1>1, <1>3, <2>2, <2>4 DEF Names
<1>5. CASE DeleteRow(t)
  <2> DEFINE all == FallsWith(t.name)
  <2>1. /\ stored' = stored \ all
        /\ cleared' = Kept(cleared \cup ClearedWith(all), stored')
    BY <1>5 DEF DeleteRow
  <2>2. Names(Dependents(all)) \subseteq all
    BY <1>5, FallenRows DEF DeleteRow
  <2> HIDE DEF all
  <2>3. ASSUME NEW u \in tables, u.name \in stored', NEW r \in u.references
        PROVE  r.to \in stored' \/ <<u.name, r.column>> \in cleared'
    <3>1. u.name \in stored /\ u.name \notin all
      BY <2>1, <2>3
    <3>2. CASE <<u.name, r.column>> \in cleared
      BY <2>1, <2>3, <3>2 DEF Kept
    <3>3. CASE r.to \in stored /\ r.to \in all /\ r.action = "SetNull"
      <4>1. <<u.name, r.column>> \in ClearedWith(all)
        BY <3>3 DEF ClearedWith
      <4>2. QED
        BY <2>1, <2>3, <4>1 DEF Kept
    <3>4. CASE r.to \in all /\ r.action = "Cascade"
      <4>1. u \in Dependents(all)
        BY <3>1, <3>4 DEF Dependents
      <4>2. QED
        BY <2>2, <3>1, <4>1 DEF Names
    <3>5. r.action \in {"Cascade", "SetNull"}
      BY TablesNow
    <3>6. QED
      BY <1>1, <2>1, <3>1, <3>2, <3>3, <3>4, <3>5
  <2>4. QED
    BY <1>1, <1>3, <2>1, <2>3
<1>6. QED
  BY <1>4, <1>5

LEMMA SchemaInvariant == SchemaSpec => []SchemaInv
<1>1. SchemaInit => SchemaInv
  <2>1. TablesAt(0) = {}
    BY OneOfAName, TableNamed DEF TablesAt
  <2>2. QED
    BY <2>1, OneTableEach DEF SchemaInit, SchemaInv, SchemaTypeOK, ClearedOK
<1>2. SchemaInv /\ [SchemaNext]_schemaVars => SchemaInv'
  <2> SUFFICES ASSUME SchemaInv, [SchemaNext]_schemaVars PROVE SchemaInv'
    OBVIOUS
  <2>1. CASE UNCHANGED schemaVars
    BY <2>1 DEF schemaVars, SchemaInv, SchemaTypeOK, ClearedOK
  <2>2. QED
    BY <2>1, SchemaMigrates, SchemaRows DEF SchemaNext
<1>3. QED
  BY <1>1, <1>2, PTL DEF SchemaSpec

(* No row refers to a row that is gone, whatever the migrations and the     *)
(* deletions do.                                                            *)
THEOREM SchemaTypeCorrect == SchemaSpec => []SchemaTypeOK
<1>1. SchemaInv => SchemaTypeOK
  BY DEF SchemaInv
<1>2. QED
  BY <1>1, SchemaInvariant, PTL

(* Migrator: no up and no down is refused for a foreign key in its order,   *)
(* and every down takes back what its up made, at every point.              *)
THEOREM MigrationsAlwaysApply == SchemaSpec => []MigrationsApply
<1>1. SchemaInv => MigrationsApply
  <2> SUFFICES ASSUME SchemaInv PROVE MigrationsApply
    OBVIOUS
  <2>1. applied \in 0 .. 12 /\ tables = TablesAt(applied) /\ Len(Migrations) = 12
    BY OneTableEach DEF SchemaInv
  <2>2. ASSUME applied > 0 PROVE CanDrop(tables, Migrations[applied].down)
    <3>1. applied - 1 \in 0 .. 11 /\ (applied - 1) + 1 = applied
      BY <2>1, <2>2
    <3>2. QED
      BY <2>1, <3>1, MigrationApplies
  <2>3. ASSUME applied < 12
        PROVE  LET m == Migrations[applied + 1] IN
               /\ CanCreate(tables, m.up) /\ CanDrop(Created(tables, m.up), m.down)
               /\ Dropped(Created(tables, m.up), m.down) = tables
    <3>1. applied \in 0 .. 11
      BY <2>1, <2>3
    <3>2. QED
      BY <2>1, <3>1, MigrationApplies
  <2>4. QED
    BY <2>1, <2>2, <2>3 DEF MigrationsApply
<1>2. QED
  BY <1>1, SchemaInvariant, PTL

(* What a deletion of an owner takes with it, and what it leaves.           *)
LEMMA OwnerFalls ==
    ASSUME SchemaInv, NEW t \in tables, DeleteRow(t), NEW whom \in {"users", "nodes"},
           whom \in stored \ stored'
    PROVE  /\ stored \cap {"audit_logs", "enrollment_tokens"} \subseteq stored'
           /\ whom = "users" =>
                 stored' \cap {"sessions", "terminal_sessions", "auth_factors",
                     "recovery_codes", "passkey_credentials", "workspace_members"} = {}
           /\ whom = "nodes" => stored' \cap {"node_credentials", "node_heartbeats"} = {}
<1> DEFINE all == FallsWith(t.name)
<1>1. /\ stored' = stored \ all /\ t.name \in stored
      /\ whom \in all /\ all \subseteq stored
  BY FallenRows DEF DeleteRow
<1>2. \A n \in stored : n \in TableName /\ TableOf(n) \in tables /\ TableOf(n).name = n
  BY TablesNow DEF SchemaInv, SchemaTypeOK, Names
<1>3. ASSUME NEW n \in stored, NEW r \in TableOf(n).references, r.action = "Cascade", r.to \in all
      PROVE  n \in all
  <2>1. TableOf(n) \in Dependents(all)
    BY <1>2, <1>3 DEF Dependents
  <2>2. Names(Dependents(all)) \subseteq all
    BY <1>1, FallenRows
  <2>3. QED
    BY <1>2, <2>1, <2>2 DEF Names
\* A row whose references do not cascade falls only when it is the one that is deleted.
<1>4. ASSUME NEW n \in stored, \A r \in TableOf(n).references : r.action # "Cascade", n # t.name
      PROVE  n \notin all
  <2> DEFINE others == stored \ {n}
  <2>1. ASSUME NEW u \in Dependents(others) PROVE u.name \in others
    <3>1. u \in tables /\ u.name \in stored /\ \E r \in u.references : r.action = "Cascade"
      BY DEF Dependents
    <3>2. u = TableOf(u.name)
      BY <3>1, TablesNow
    <3>3. QED
      BY <1>4, <3>1, <3>2
  <2>2. Names(Dependents(others)) \subseteq others
    BY <2>1 DEF Names
  <2>3. t.name \in others /\ others \in SUBSET stored
    BY <1>1, <1>4
  <2>4. QED
    BY <1>1, <2>2, <2>3, FallenRows
<1> HIDE DEF all
<1>5. t.name = whom
  <2>1. TableOf(whom).references = {}
    BY DEF TableOf, Users, NodesTable, Table
  <2>2. QED
    BY <1>1, <1>4, <2>1
<1>6. ASSUME NEW n \in stored \cap {"audit_logs", "enrollment_tokens"} PROVE n \in stored'
  <2>1. \A r \in TableOf(n).references : r.action # "Cascade"
    BY DEF TableOf, AuditLogs, EnrollmentTokens, Table, SetNull
  <2>2. n # t.name
    BY <1>5
  <2>3. QED
    BY <1>1, <1>4, <2>1, <2>2
<1>7. ASSUME NEW n, NEW c, NEW to \in all, Cascade(c, to) \in TableOf(n).references
      PROVE  n \notin stored'
  <2>1. Cascade(c, to).action = "Cascade" /\ Cascade(c, to).to = to
    BY DEF Cascade
  <2>2. QED
    BY <1>1, <1>3, <1>7, <2>1
<1>8. CASE whom = "users"
  <2>1. /\ Cascade("user_id", "users") \in TableOf("sessions").references
        /\ Cascade("user_id", "users") \in TableOf("terminal_sessions").references
        /\ Cascade("user_id", "users") \in TableOf("auth_factors").references
        /\ Cascade("user_id", "users") \in TableOf("passkey_credentials").references
        /\ Cascade("user_id", "users") \in TableOf("workspace_members").references
        /\ Cascade("factor_id", "auth_factors") \in TableOf("recovery_codes").references
    BY DEF TableOf, Table, Sessions, TerminalSessions, AuthFactors, PasskeyCredentials,
           WorkspaceMembers, RecoveryCodes
  <2>2. /\ "sessions" \notin stored' /\ "terminal_sessions" \notin stored'
        /\ "auth_factors" \notin stored' /\ "passkey_credentials" \notin stored'
        /\ "workspace_members" \notin stored'
    BY <1>1, <1>7, <1>8, <2>1
  \* The codes of a factor are two tables away; where they are, their factor is.
  <2>3. "recovery_codes" \notin stored'
    <3>1. CASE "auth_factors" \in stored
      <4>1. "auth_factors" \in all
        BY <1>1, <2>2, <3>1
      <4>2. QED
        BY <1>7, <2>1, <4>1
    <3>2. CASE "auth_factors" \notin stored
      <4>1. SUFFICES ASSUME "recovery_codes" \in stored PROVE FALSE
        BY <1>1
      <4> DEFINE u == TableOf("recovery_codes")
                 r == Cascade("factor_id", "auth_factors")
      <4>2. u \in tables /\ u.name = "recovery_codes" /\ u.references = {r}
        BY <1>2, <4>1 DEF TableOf, RecoveryCodes, Table
      <4>3. <<u.name, r.column>> \in cleared
        BY <3>2, <4>1, <4>2 DEF SchemaInv, SchemaTypeOK, Cascade
      <4>4. PICK n \in TableName : <<u.name, r.column>> \in Nullable(n)
        BY <4>3 DEF SchemaInv, ClearedOK
      <4>5. n = "recovery_codes" /\ r.action # "SetNull"
        BY <4>2, <4>4 DEF Nullable, Cascade
      <4>6. QED
        BY <4>2, <4>4, <4>5 DEF Nullable
    <3>3. QED
      BY <3>1, <3>2
  <2>4. QED
    BY <1>6, <1>8, <2>2, <2>3
<1>9. CASE whom = "nodes"
  <2>1. /\ Cascade("node_id", "nodes") \in TableOf("node_credentials").references
        /\ Cascade("node_id", "nodes") \in TableOf("node_heartbeats").references
    BY DEF TableOf, Table, NodeCredentials, NodeHeartbeats
  <2>2. "node_credentials" \notin stored' /\ "node_heartbeats" \notin stored'
    BY <1>1, <1>7, <1>9, <2>1
  <2>3. QED
    BY <1>6, <1>9, <2>2
<1>10. QED
  BY <1>8, <1>9

(* Foreign keys: with a user or a node goes everything that could act for   *)
(* it, and no record of what it did, for any rows in any migration state.   *)
THEOREM OnlyRecordsLeft == SchemaSpec => OnlyRecordsOutlive
<1> DEFINE Outlives == \A whom \in {"users", "nodes"} :
          applied' = applied /\ whom \in stored \ stored' =>
              /\ stored \cap {"audit_logs", "enrollment_tokens"} \subseteq stored'
              /\ whom = "users" =>
                    stored' \cap {"sessions", "terminal_sessions", "auth_factors",
                        "recovery_codes", "passkey_credentials", "workspace_members"} = {}
              /\ whom = "nodes" => stored' \cap {"node_credentials", "node_heartbeats"} = {}
<1>1. SchemaInv /\ [SchemaNext]_schemaVars => [Outlives]_schemaVars
  <2> SUFFICES ASSUME SchemaInv, SchemaNext PROVE Outlives
    OBVIOUS
  <2>1. CASE MigrateUp \/ MigrateDown
    BY <2>1 DEF MigrateUp, MigrateDown, SchemaInv
  <2>2. ASSUME NEW t \in tables, InsertRow(t) PROVE Outlives
    BY <2>2 DEF InsertRow
  <2>3. ASSUME NEW t \in tables, DeleteRow(t) PROVE Outlives
    BY <2>3, OwnerFalls
  <2>4. QED
    BY <2>1, <2>2, <2>3 DEF SchemaNext
<1>2. SchemaSpec => [][Outlives]_schemaVars
  BY <1>1, SchemaInvariant, PTL DEF SchemaSpec
<1>3. QED
  BY <1>2, PTL DEF OnlyRecordsOutlive

-----------------------------------------------------------------------------
(* The composition. A step of one component leaves the others as they are,  *)
(* but that the clock may tick, which is a step of each that reads it: so a *)
(* behaviour of the composition is one of every component.                  *)

LEMMA TimePasses ==
    ASSUME AccountsNext \/ EnrollmentNext \/ ChainNext
    PROVE  UNCHANGED now \/ ClockTicks
<1>1. CASE AccountsNext
  BY <1>1 DEF AccountsNext, Tick, UpsertUser, LoginAttempt, Login, Enter, Logout, MfaAttempt,
     StepUp, Authorize, CreationAttempt
<1>2. CASE EnrollmentNext
  BY <1>2 DEF EnrollmentNext, ClockMoves, RestartControl, CreateToken, AnswerEnroll,
     AnswerHeartbeat, RevokeNode, RotateCredential, Start, OpenIdentity, WriteIdentity,
     SendHeartbeat, AuthenticateTransport, InstallRotated, AgentEnds
<1>3. CASE ChainNext
  BY <1>3 DEF ChainNext, SecondPasses, Export, DamageCopy, BeginRecord, RecordEvent, Record
<1>4. QED
  BY <1>1, <1>2, <1>3

LEMMA AccountsPart == Spec => AccountsSpec
<1>1. [Next]_vars => [AccountsNext]_accountVars
  <2> SUFFICES ASSUME Next PROVE [AccountsNext]_accountVars
    BY DEF vars, accountVars
  <2>1. CASE part = "accounts"
    BY <2>1 DEF Next
  <2>2. CASE part # "accounts"
    <3>1. UNCHANGED accountOwn /\ (UNCHANGED now \/ ClockTicks)
      BY <2>2, TimePasses DEF Next, storeVars
    <3>2. QED
      BY <3>1 DEF AccountsNext, Tick, accountVars, accountOwn
  <2>3. QED
    BY <2>1, <2>2
<1>2. Init => AccountsInit
  BY DEF Init
<1>3. QED
  BY <1>1, <1>2, PTL DEF Spec, AccountsSpec

LEMMA FactorsPart == Spec => FactorsSpec
<1>1. [Next]_vars => [FactorsNext]_factorVars
  BY DEF Next, vars, storeVars
<1>2. Init => FactorsInit
  BY DEF Init
<1>3. QED
  BY <1>1, <1>2, PTL DEF Spec, FactorsSpec

LEMMA EnrollmentPart == Spec => EnrollmentSpec
<1>1. [Next]_vars => [EnrollmentNext]_enrollVars
  <2> SUFFICES ASSUME Next PROVE [EnrollmentNext]_enrollVars
    BY DEF vars, enrollVars
  <2>1. CASE part = "enrollment"
    BY <2>1 DEF Next
  <2>2. CASE part # "enrollment"
    <3>1. UNCHANGED enrollOwn /\ (UNCHANGED now \/ ClockTicks)
      BY <2>2, TimePasses DEF Next, storeVars
    <3>2. QED
      BY <3>1 DEF EnrollmentNext, ClockMoves, enrollVars, enrollOwn
  <2>3. QED
    BY <2>1, <2>2
<1>2. Init => EnrollmentInit
  BY DEF Init
<1>3. QED
  BY <1>1, <1>2, PTL DEF Spec, EnrollmentSpec

LEMMA ChainPart == Spec => ChainSpec
<1>1. [Next]_vars => [ChainNext]_auditVars
  <2> SUFFICES ASSUME Next PROVE [ChainNext]_auditVars
    BY DEF vars, auditVars
  <2>1. CASE part = "audit"
    BY <2>1 DEF Next
  <2>2. CASE part # "audit"
    <3>1. UNCHANGED auditOwn /\ (UNCHANGED now \/ ClockTicks)
      BY <2>2, TimePasses DEF Next, storeVars
    <3>2. QED
      BY <3>1 DEF ChainNext, SecondPasses, auditVars, auditOwn
  <2>3. QED
    BY <2>1, <2>2
<1>2. Init => ChainInit
  BY DEF Init
<1>3. QED
  BY <1>1, <1>2, PTL DEF Spec, ChainSpec

LEMMA PermissionsPart == Spec => PermissionsSpec
<1>1. [Next]_vars => [PermissionsNext]_permissionVars
  BY DEF Next, vars, storeVars, outerVars
<1>2. Init => PermissionsInit
  BY DEF Init
<1>3. QED
  BY <1>1, <1>2, PTL DEF Spec, PermissionsSpec

LEMMA OutputPart == Spec => OutputSpec
<1>1. [Next]_vars => [OutputNext]_outputVars
  BY DEF Next, vars, storeVars, outerVars
<1>2. Init => OutputInit
  BY DEF Init
<1>3. QED
  BY <1>1, <1>2, PTL DEF Spec, OutputSpec

LEMMA BridgePart == Spec => BridgeSpec
<1>1. [Next]_vars => [BridgeNext]_bridgeVars
  BY DEF Next, vars, storeVars, outerVars
<1>2. Init => BridgeInit
  BY DEF Init
<1>3. QED
  BY <1>1, <1>2, PTL DEF Spec, BridgeSpec

LEMMA PollPart == Spec => PollSpec
<1>1. [Next]_vars => [PollNext]_pollVars
  BY DEF Next, vars, storeVars, outerVars
<1>2. Init => PollInit
  BY DEF Init
<1>3. QED
  BY <1>1, <1>2, PTL DEF Spec, PollSpec

LEMMA RoutingPart == Spec => RoutingSpec
<1>1. [Next]_vars => [RoutingNext]_routeVars
  BY DEF Next, vars, storeVars, outerVars
<1>2. Init => RoutingInit
  BY DEF Init
<1>3. QED
  BY <1>1, <1>2, PTL DEF Spec, RoutingSpec

LEMMA SchemaPart == Spec => SchemaSpec
<1>1. [Next]_vars => [SchemaNext]_schemaVars
  BY DEF Next, vars, storeVars, outerVars
<1>2. Init => SchemaInit
  BY DEF Init
<1>3. QED
  BY <1>1, <1>2, PTL DEF Spec, SchemaSpec

(* The stores of the control plane together implement each of them: every   *)
(* behaviour of the composition that is checked, whichever store it takes   *)
(* part in, is one of all ten components.                                   *)
THEOREM StoresImplementComponents ==
    Spec => /\ AccountsSpec /\ FactorsSpec /\ EnrollmentSpec /\ PermissionsSpec /\ ChainSpec
            /\ OutputSpec /\ BridgeSpec /\ PollSpec /\ RoutingSpec /\ SchemaSpec
BY AccountsPart, FactorsPart, EnrollmentPart, PermissionsPart, ChainPart, OutputPart, BridgePart,
   PollPart, RoutingPart, SchemaPart

(* Every store keeps the types of its fields, whichever of them a behaviour *)
(* of the control plane's stores takes part in.                             *)
THEOREM StoresTypeCorrect == Spec => []StoresTypeOK
<1> DEFINE Parts == {"accounts", "factors", "enrollment", "permissions", "audit", "output",
                     "bridge", "poll", "routing", "schema"}
<1>1. Spec => [](part \in Parts)
  <2>1. Init => part \in Parts
    BY DEF Init
  <2>2. part \in Parts /\ [Next]_vars => (part \in Parts)'
    BY DEF Next, vars
  <2>3. QED
    BY <2>1, <2>2, PTL DEF Spec
<1>2. /\ part \in Parts
      /\ AccountsTypeOK /\ FactorsTypeOK /\ EnrollmentTypeOK /\ PermissionsTypeOK /\ ChainTypeOK
      /\ OutputTypeOK /\ BridgeTypeOK /\ PollTypeOK /\ RoutingTypeOK /\ SchemaTypeOK
      => StoresTypeOK
  BY DEF StoresTypeOK
<1>3. QED
  BY <1>1, <1>2, StoresImplementComponents, AccountsTypeCorrect, FactorsTypeCorrect,
     EnrollmentTypeCorrect, PermissionsTypeCorrect, ChainTypeCorrect, OutputTypeCorrect,
     BridgeTypeCorrect, PollTypeCorrect, RoutingTypeCorrect, SchemaTypeCorrect, PTL

(* What holds of a component holds of the composition, on every instance:   *)
(* all that its run checks, state by state and step by step.                *)
THEOREM StoresCorrect ==
    Spec => /\ [](AttemptsSpread /\ EndedStaysEnded) /\ GrantsAreFresh
            /\ [](RedeemedOnce /\ OneCredentialPerChallenge /\ TotpCodesExpire) /\ ReplacedCodesDead
            /\ [](OneNodePerToken /\ NodesKeepTheirHost /\ OnlineEndsWithCredential) /\ IdentityKept
            /\ []AllowedInItsWorkspace /\ DeniedForAReason
            /\ [](LogIsChained /\ VerifiedCopyIsPrefix)
            /\ []ReplayJoinsLive /\ [](OneOpenSocket /\ AttachedCanReturn)
            /\ []IdsOrderCommands /\ UnhealthyIsFinal
            /\ []MigrationsApply /\ OnlyRecordsOutlive
BY StoresImplementComponents, LimitersSpreadAttempts, EndedSessionsStayEnded, TerminalsGrantedFresh,
   CodesRedeemedOnce, ChallengesUsedOnce, TotpCodesRunOut, ReplacedNeverRedeemed, TokensUsedOnce,
   HostsKept, OnlineOnlyWithCredential, SavedIdentityKept, AllowedOnlyInWorkspace, DenialsHaveReasons,
   LogAlwaysChained, VerifiedCopiesTrue, ReplayAlwaysJoins, OneSocketIsOpen, AttachedAlwaysReturns,
   IdsAlwaysOrderCommands, RetiredForGood, MigrationsAlwaysApply, OnlyRecordsLeft, PTL
=============================================================================
