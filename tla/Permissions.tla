------------------------------ MODULE Permissions ------------------------------
(***************************************************************************)
(* Who may do what on a node: the workspaces, roles and members of         *)
(* AuthService (crates/sunbolt-auth/src/lib.rs and rbac.rs), the checks    *)
(* user_has_node_permission and user_has_control_plane_permission, and     *)
(* the routes and terminal handlers that ask them.                         *)
(*                                                                         *)
(* user_has_node_permission takes the store's mutex twice: for the         *)
(* workspace of the node, and for the permission in that workspace. In     *)
(* between the node may be mapped elsewhere and permissions be granted.    *)
(* Workspaces, roles and ids stand for themselves; grants and memberships  *)
(* are never taken back, so the lists of the code are sets here.           *)
(***************************************************************************)
EXTENDS Requests, Naturals, FiniteSets

CONSTANTS
    Asker,               \* requests and terminal sockets
    Member,              \* users
    Workspace, WorkspaceRole,
    Machine,             \* node ids, enrolled or not
    Permission,          \* a subset of NodePermission, those an instance grants
    MaxGiven             \* a bound: grants and memberships together

NodePermission ==
    {"NODE_VIEW", "NODE_CREDENTIAL_ROTATE", "NODE_REVOKE",
     "TERMINAL_OPEN", "TERMINAL_REATTACH", "TERMINAL_TERMINATE"}

ControlPlanePermission == {"NODE_REGISTER", "AUDIT_VIEW"}

ASSUME PermissionsAssumption ==
    Absent \notin Workspace /\ Permission \subseteq NodePermission /\ MaxGiven \in Nat

VARIABLES
    rank,      \* the role of each user record
    spaces,    \* workspaces_by_id
    offices,   \* roles_by_id
    grants,    \* role_permissions_by_role_id
    members,   \* workspace_members_by_workspace_id
    place,     \* workspace_nodes_by_node_id
    outcasts,  \* the nodes whose status is Revoked
    check,     \* the checks under way, and the action each allows
    was        \* history: the workspaces the node has been in since the check began

permissionVars == <<rank, spaces, offices, grants, members, place, outcasts, check, was>>

Rank    == {"Admin", "Operator", "Viewer"}
NoCheck == [pc |-> "idle", user |-> Absent, rank |-> Absent, node |-> Absent, asked |-> Absent,
            space |-> Absent]

\* The records of rbac.rs
RolePermission  == WorkspaceRole \X Permission
WorkspaceMember == Workspace \X Member \X WorkspaceRole

PermissionsTypeOK ==
    /\ rank \in [Member -> Rank]
    /\ spaces \subseteq Workspace /\ offices \subseteq WorkspaceRole
    /\ grants \subseteq RolePermission /\ \A g \in grants : g[1] \in offices
    /\ members \subseteq WorkspaceMember /\ \A m \in members : m[1] \in spaces /\ m[3] \in offices
    /\ place \in [Machine -> spaces \cup {Absent}]
    /\ outcasts \subseteq Machine
    /\ check \in [Asker ->
          [pc : {"idle", "status", "node", "workspace", "allowed"}, user : Member \cup {Absent},
           rank : Rank \cup {Absent}, node : Machine \cup {Absent},
           asked : Permission \cup ControlPlanePermission \cup {Absent},
           space : Workspace \cup {Absent}]]
    /\ was \in [Asker -> SUBSET (Workspace \cup {Absent})]

PermissionsInit ==
    /\ rank \in [Member -> Rank]
    /\ spaces = {} /\ offices = {} /\ grants = {} /\ members = {}
    /\ place = [n \in Machine |-> Absent]
    /\ outcasts = {}
    /\ check = [c \in Asker |-> NoCheck]
    /\ was = [c \in Asker |-> {}]

-----------------------------------------------------------------------------
\* create_workspace and create_role
CreateWorkspace(w) ==
    /\ spaces' = spaces \cup {w}
    /\ UNCHANGED <<rank, offices, grants, members, place, outcasts, check, was>>

CreateRole(r) ==
    /\ offices' = offices \cup {r}
    /\ UNCHANGED <<rank, spaces, grants, members, place, outcasts, check, was>>

GrantRolePermission(r, p) ==
    /\ r \in offices
    /\ grants' = grants \cup {<<r, p>>}
    /\ Cardinality(grants') + Cardinality(members) <= MaxGiven
    /\ UNCHANGED <<rank, spaces, offices, members, place, outcasts, check, was>>

AddWorkspaceMember(w, u, r) ==
    /\ w \in spaces /\ r \in offices
    /\ members' = members \cup {<<w, u, r>>}
    /\ Cardinality(grants) + Cardinality(members') <= MaxGiven
    /\ UNCHANGED <<rank, spaces, offices, grants, place, outcasts, check, was>>

\* map_node_to_workspace: a node is in one workspace, and a newer mapping replaces the older.
MapNodeToWorkspace(w, n) ==
    /\ w \in spaces
    /\ place' = [place EXCEPT ![n] = w]
    /\ was' = [c \in Asker |-> IF check[c].node = n THEN was[c] \cup {w} ELSE was[c]]
    /\ UNCHANGED <<rank, spaces, offices, grants, members, outcasts, check>>

-----------------------------------------------------------------------------
\* user_has_workspace_permission, for who is not an administrator.
Holds(u, w, p) == \E r \in offices : <<w, u, r>> \in members /\ <<r, p>> \in grants

Step(c, k) == check' = [check EXCEPT ![c] = k]
Verdict(c, k, yes) ==
    /\ Step(c, IF yes THEN [k EXCEPT !.pc = "allowed"] ELSE NoCheck)
    /\ was' = IF yes THEN was ELSE [was EXCEPT ![c] = {}]

Static == UNCHANGED <<rank, spaces, offices, grants, members, place, outcasts>>

\* authorize_session_reattach first looks at the status of the node, the others do not.
FirstStep(p) == IF p = "TERMINAL_REATTACH" THEN "status" ELSE "node"

\* A handler asks with the user record it got when the request or the socket began.
Ask(c, u, n, p) ==
    LET k == [pc |-> FirstStep(p), user |-> u, rank |-> rank[u], node |-> n, asked |-> p,
              space |-> Absent] IN
    /\ check[c].pc = "idle"
    /\ Step(c, k)
    /\ was' = [was EXCEPT ![c] = {place[n]}]
    /\ Static

ReadStatus(c) ==
    /\ check[c].pc = "status"
    /\ IF check[c].node \in outcasts
       THEN Verdict(c, check[c], FALSE)
       ELSE Step(c, [check[c] EXCEPT !.pc = "node"]) /\ UNCHANGED was
    /\ Static

\* A variant with a fault: a node that is in no workspace belongs to everybody.
FindWorkspaceOpen(c) ==
    LET k == check[c] IN
    /\ k.pc = "node"
    /\ IF k.rank = "Admin" \/ place[k.node] = Absent
       THEN Verdict(c, k, TRUE)
       ELSE Step(c, [k EXCEPT !.pc = "workspace", !.space = place[k.node]]) /\ UNCHANGED was
    /\ Static

\* user_has_node_permission up to the end of its first lock.
FindWorkspace(c) ==
    LET k == check[c] IN
    /\ k.pc = "node"
    /\ IF k.rank = "Admin" \/ place[k.node] = Absent
       THEN Verdict(c, k, k.rank = "Admin")
       ELSE Step(c, [k EXCEPT !.pc = "workspace", !.space = place[k.node]]) /\ UNCHANGED was
    /\ Static

\* A variant with a fault: one role that does not grant it is enough to refuse.
AskWorkspaceAllRoles(c) ==
    LET k == check[c] IN
    /\ k.pc = "workspace"
    /\ Verdict(c, k, \A r \in offices : <<k.space, k.user, r>> \in members /\ <<r, k.asked>> \in grants)
    /\ Static

\* user_has_workspace_permission, the end of user_has_node_permission.
AskWorkspace(c) ==
    LET k == check[c] IN
    /\ k.pc = "workspace"
    /\ Verdict(c, k, Holds(k.user, k.space, k.asked))
    /\ Static

\* user_has_control_plane_permission, as create_enrollment_token and the audit routes ask it.
AskControlPlane(c, u, p) ==
    /\ check[c].pc = "idle"
    /\ rank[u] = "Admin"
    /\ Step(c, [NoCheck EXCEPT !.pc = "allowed", !.user = u, !.rank = rank[u], !.asked = p])
    /\ UNCHANGED was
    /\ Static

\* What the handler was allowed to do: revoke_node marks the node, the others leave this alone.
Act(c) ==
    /\ check[c].pc = "allowed"
    /\ outcasts' = IF check[c].asked = "NODE_REVOKE" THEN outcasts \cup {check[c].node} ELSE outcasts
    /\ Step(c, NoCheck)
    /\ was' = [was EXCEPT ![c] = {}]
    /\ UNCHANGED <<rank, spaces, offices, grants, members, place>>

\* upsert_user gives a user another role.
SetRank(u, r) ==
    /\ rank' = [rank EXCEPT ![u] = r]
    /\ UNCHANGED <<spaces, offices, grants, members, place, outcasts, check, was>>

PermissionsNext ==
    \/ \E w \in Workspace : CreateWorkspace(w)
    \/ \E r \in WorkspaceRole : CreateRole(r)
    \/ \E r \in WorkspaceRole, p \in Permission : GrantRolePermission(r, p)
    \/ \E w \in Workspace, u \in Member, r \in WorkspaceRole : AddWorkspaceMember(w, u, r)
    \/ \E w \in Workspace, n \in Machine : MapNodeToWorkspace(w, n)
    \/ \E u \in Member, r \in Rank : SetRank(u, r)
    \/ \E c \in Asker :
        \/ \E u \in Member, n \in Machine, p \in Permission : Ask(c, u, n, p)
        \/ \E u \in Member, p \in ControlPlanePermission : AskControlPlane(c, u, p)
        \/ ReadStatus(c)
        \/ FindWorkspace(c)
        \/ AskWorkspace(c)
        \/ Act(c)

PermissionsSpec == PermissionsInit /\ [][PermissionsNext]_permissionVars

-----------------------------------------------------------------------------
(* Whoever was allowed something on a node was an administrator when the   *)
(* request began or holds the permission in a workspace the node was in    *)
(* while the request was checked, however the node was mapped meanwhile.   *)
AllowedInItsWorkspace ==
    \A c \in Asker : check[c].pc = "allowed" =>
        \/ check[c].rank = "Admin"
        \/ \E w \in was[c] \ {Absent} : Holds(check[c].user, w, check[c].asked)

(* Whoever is refused was, for some moment of the check, without the       *)
(* permission: the node was then in no workspace or in one where no role   *)
(* of the user grants it, or the node had been revoked.                    *)
DeniedForAReason ==
    [][\A c \in Asker :
        LET k == check[c] IN
        k.pc \in {"status", "node", "workspace"} /\ check'[c].pc = "idle" =>
            \/ k.asked = "TERMINAL_REATTACH" /\ k.node \in outcasts
            \/ \E w \in was[c] : w = Absent \/ ~Holds(k.user, w, k.asked)]_permissionVars
=============================================================================
