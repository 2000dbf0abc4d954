-------------------------------- MODULE Schema --------------------------------
(***************************************************************************)
(* The database schema (migrations/src): its tables, what each references, *)
(* and the migrations that make and unmake them, in the order of Migrator. *)
(*                                                                         *)
(* Of a column only a foreign key counts, and the indexes are left out:    *)
(* whether a migration is refused for anything but a reference is not      *)
(* asked here. A table has one row or none, named by the table. The        *)
(* database is PostgreSQL, as docs/deployment.md asks: a migration happens *)
(* as a whole or is refused, a table others reference cannot be dropped,   *)
(* and a deleted row takes with it the rows that reference it, or clears   *)
(* their column.                                                           *)
(***************************************************************************)
EXTENDS Naturals, Sequences, FiniteSets

CONSTANT MaxStored  \* rows at a time

ASSUME SchemaAssumption == MaxStored \in Nat

VARIABLES
    tables,   \* the tables that exist
    applied,  \* how many of the migrations are applied
    stored,   \* the names of the tables with a row
    cleared   \* the columns of stored rows that are NULL

schemaVars == <<tables, applied, stored, cleared>>

-----------------------------------------------------------------------------
Table(name, references) == [name |-> name, references |-> references]
Cascade(column, to)     == [column |-> column, to |-> to, action |-> "Cascade"]
SetNull(column, to)     == [column |-> column, to |-> to, action |-> "SetNull"]

Users           == Table("users", {})
Sessions        == Table("sessions", {Cascade("user_id", "users")})
TerminalSessions == Table("terminal_sessions", {Cascade("user_id", "users")})
\* A variant with a fault: the records of a user go with him.
AuditLogsOwned  == Table("audit_logs", {Cascade("user_id", "users")})
AuditLogs       == Table("audit_logs", {SetNull("user_id", "users")})
NodesTable      == Table("nodes", {})
NodeCredentials == Table("node_credentials", {Cascade("node_id", "nodes")})
NodeHeartbeats  == Table("node_heartbeats", {Cascade("node_id", "nodes")})
EnrollmentTokens ==
    Table("enrollment_tokens",
          {SetNull("created_by_user_id", "users"), SetNull("used_by_node_id", "nodes")})
AuthFactors     == Table("auth_factors", {Cascade("user_id", "users")})
RecoveryCodes   == Table("recovery_codes", {Cascade("factor_id", "auth_factors")})
PasskeyCredentials == Table("passkey_credentials", {Cascade("user_id", "users")})
Workspaces      == Table("workspaces", {})
Roles           == Table("roles", {})
PermissionsTable == Table("permissions", {})
RolePermissions == Table("role_permissions", {Cascade("role_id", "roles")})
WorkspaceMembers ==
    Table("workspace_members", {Cascade("workspace_id", "workspaces"),
                                Cascade("user_id", "users"), Cascade("role_id", "roles")})
\* Its node_id is the name of a node and references no row.
WorkspaceNodes  == Table("workspace_nodes", {Cascade("workspace_id", "workspaces")})

-----------------------------------------------------------------------------
\* What up creates and what down drops, in their orders.
Migration(up, down) == [up |-> up, down |-> down]
OneTable(t) == Migration(<<t>>, <<t.name>>)

\* A variant with a fault: roles are dropped before what references them.
RbacUnordered ==
    Migration(<<Workspaces, Roles, PermissionsTable, RolePermissions, WorkspaceMembers,
                WorkspaceNodes>>,
              <<"workspace_nodes", "workspace_members", "roles", "role_permissions",
                "permissions", "workspaces">>)

Rbac ==
    Migration(<<Workspaces, Roles, PermissionsTable, RolePermissions, WorkspaceMembers,
                WorkspaceNodes>>,
              <<"workspace_nodes", "workspace_members", "role_permissions", "permissions",
                "roles", "workspaces">>)

Migrations ==
    << OneTable(Users), OneTable(Sessions), OneTable(TerminalSessions), OneTable(AuditLogs),
       OneTable(NodesTable), OneTable(NodeCredentials), OneTable(NodeHeartbeats),
       OneTable(EnrollmentTokens), OneTable(AuthFactors), OneTable(RecoveryCodes),
       OneTable(PasskeyCredentials), Rbac >>

Names(ts)      == {t.name : t \in ts}
Referenced(ts) == {r.to : r \in UNION {t.references : t \in ts}}
Firsts(list, n) == {list[i] : i \in 1 .. n}

\* CREATE TABLE is refused when a referenced table is not there yet.
CanCreate(ts, new) ==
    \A i \in DOMAIN new : Referenced({new[i]}) \subseteq Names(ts \cup Firsts(new, i - 1))

Created(ts, new) == ts \cup Firsts(new, Len(new))

\* DROP TABLE is refused for a table that is not there or that another one references.
Left(ts, names) == {t \in ts : t.name \notin names}

CanDrop(ts, old) ==
    \A i \in DOMAIN old :
        LET left == Left(ts, Firsts(old, i - 1)) IN
        old[i] \in Names(left) /\ old[i] \notin Referenced(left)

Dropped(ts, old) == Left(ts, Firsts(old, Len(old)))

-----------------------------------------------------------------------------
SchemaTypeOK ==
    /\ applied \in 0 .. Len(Migrations)
    /\ stored \subseteq Names(tables)
    /\ \A t \in tables : t.name \in stored =>
          \A r \in t.references : r.to \in stored \/ <<t.name, r.column>> \in cleared

SchemaInit == tables = {} /\ applied = 0 /\ stored = {} /\ cleared = {}

\* The columns of rows that are there.
Kept(columns, names) == {c \in columns : c[1] \in names}

MigrateUp ==
    /\ applied < Len(Migrations)
    /\ CanCreate(tables, Migrations[applied + 1].up)
    /\ tables' = Created(tables, Migrations[applied + 1].up)
    /\ applied' = applied + 1
    /\ UNCHANGED <<stored, cleared>>

MigrateDown ==
    /\ applied > 0
    /\ CanDrop(tables, Migrations[applied].down)
    /\ tables' = Dropped(tables, Migrations[applied].down)
    /\ applied' = applied - 1
    /\ stored' = stored \cap Names(tables')
    /\ cleared' = Kept(cleared, stored')

\* A column that can be NULL may be left so; any other needs its row.
InsertRow(t) ==
    /\ t.name \notin stored /\ Cardinality(stored) < MaxStored
    /\ \E null \in SUBSET {r \in t.references : r.action = "SetNull"} :
          /\ \A r \in t.references \ null : r.to \in stored
          /\ cleared' = cleared \cup {<<t.name, r.column>> : r \in null}
    /\ stored' = stored \cup {t.name}
    /\ UNCHANGED <<tables, applied>>

\* The tables whose row goes with one of these, and the columns that are cleared with them.
Dependents(names) ==
    {t \in tables : t.name \in stored /\
        \E r \in t.references : r.action = "Cascade" /\ r.to \in names}

ClearedWith(names) ==
    UNION {{<<t.name, r.column>> : r \in {r \in t.references : r.action = "SetNull"
                                                             /\ r.to \in names}} : t \in tables}

\* The rows that go with one: the least set that has it and its dependents.
FallsWith(name) ==
    {n \in stored : \A names \in SUBSET stored :
        name \in names /\ Names(Dependents(names)) \subseteq names => n \in names}

DeleteRow(t) ==
    /\ t.name \in stored
    /\ stored' = stored \ FallsWith(t.name)
    /\ cleared' = Kept(cleared \cup ClearedWith(FallsWith(t.name)), stored')
    /\ UNCHANGED <<tables, applied>>

SchemaNext ==
    \/ MigrateUp \/ MigrateDown
    \/ \E t \in tables : InsertRow(t) \/ DeleteRow(t)

SchemaSpec == SchemaInit /\ [][SchemaNext]_schemaVars

-----------------------------------------------------------------------------
(* No migration, forward or back, is refused for a foreign key, and one that is   *)
(* taken back leaves the tables there were before it: the order of Migrator and   *)
(* of each down respects every reference. (The tests compare names only.)         *)
MigrationsApply ==
    /\ applied < Len(Migrations) =>
          LET coming == Migrations[applied + 1]
              made == Created(tables, coming.up)
          IN  /\ CanCreate(tables, coming.up)
              /\ CanDrop(made, coming.down) /\ Dropped(made, coming.down) = tables
    /\ applied > 0 => CanDrop(tables, Migrations[applied].down)

(* Of a user or a node that is deleted nothing is left that could act for it, not *)
(* even two tables away, and nothing is lost that tells what it did: its audit    *)
(* records and the tokens that enrolled it.                                       *)
OnlyRecordsOutlive ==
    [][\A whom \in {"users", "nodes"} :
          applied' = applied /\ whom \in stored \ stored' =>
              /\ stored \cap {"audit_logs", "enrollment_tokens"} \subseteq stored'
              /\ whom = "users" =>
                    stored' \cap {"sessions", "terminal_sessions", "auth_factors",
                        "recovery_codes", "passkey_credentials", "workspace_members"} = {}
              /\ whom = "nodes" => stored' \cap {"node_credentials", "node_heartbeats"} = {}
      ]_schemaVars
=============================================================================
