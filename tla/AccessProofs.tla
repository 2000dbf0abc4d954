---------------------------- MODULE AccessProofs ----------------------------
(***************************************************************************)
(* Proofs about who may do what. Permissions, for any number of requests,  *)
(* users, workspaces, roles, nodes and grants: what a check allows and     *)
(* refuses. Accounts, for any number of callers, users and tokens, any     *)
(* lifetimes and any limits: an ended session stays ended, a terminal is   *)
(* granted only to a live session that was itself stepped up in time, and  *)
(* no limiter lets more than its share through in any window. Factors, for *)
(* any number of callers, users, factors, codes and challenges: a recovery *)
(* code and a registration challenge are used once, by their owner,        *)
(* although every use takes the store's mutex twice; and a TOTP code is    *)
(* accepted only around its own period.                                    *)
(***************************************************************************)
EXTENDS Permissions, Accounts, Factors, SequenceTheorems, TLAPS

-----------------------------------------------------------------------------
(* Permissions *)

USE PermissionsAssumption DEF PermissionsAssumption

Check ==
    [pc : {"idle", "status", "node", "workspace", "allowed"}, user : Member \cup {Absent},
     rank : Rank \cup {Absent}, node : Machine \cup {Absent},
     asked : Permission \cup ControlPlanePermission \cup {Absent}, space : Workspace \cup {Absent}]

(* The steps of a check, which leave the other checks alone.                *)
CheckStep(c) ==
    \/ \E u \in Member, n \in Machine, p \in Permission : Ask(c, u, n, p)
    \/ \E u \in Member, p \in ControlPlanePermission : AskControlPlane(c, u, p)
    \/ ReadStatus(c) \/ FindWorkspace(c) \/ AskWorkspace(c) \/ Act(c)

(* How a check k fits the workspaces s its node has been in: who asks to    *)
(* revoke a node named it; its place is one of them until the check has     *)
(* read it, what it read is one, and who is allowed holds the permission in *)
(* one.                                                                     *)
Fits(k, s) ==
    /\ k.pc # "idle" /\ k.asked = "NODE_REVOKE" => k.node \in Machine
    /\ k.pc = "status" => k.asked = "TERMINAL_REATTACH"
    /\ k.pc \in {"status", "node"} => k.node \in Machine /\ place[k.node] \in s
    /\ k.pc = "workspace" => k.space \in s \ {Absent}
    /\ k.pc = "allowed" =>
          \/ k.rank = "Admin"
          \/ \E w \in s \ {Absent} : Holds(k.user, w, k.asked)

CheckInv == PermissionsTypeOK /\ \A c \in Asker : Fits(check[c], was[c])

LEMMA CheckTypes ==
    ASSUME CheckInv
    PROVE  /\ check \in [Asker -> Check]
           /\ was \in [Asker -> SUBSET (Workspace \cup {Absent})]
           /\ place \in [Machine -> Workspace \cup {Absent}] /\ spaces \subseteq Workspace
           /\ rank \in [Member -> Rank] /\ outcasts \subseteq Machine
  BY DEF CheckInv, PermissionsTypeOK, Check

(* A check becomes k, its node having been in s.                            *)
LEMMA CheckChanges ==
    ASSUME CheckInv, NEW c \in Asker, NEW k \in Check, NEW s \in SUBSET (Workspace \cup {Absent}),
           check' = [check EXCEPT ![c] = k], was' = [was EXCEPT ![c] = s],
           UNCHANGED <<rank, spaces, offices, grants, members, place>>, outcasts' \subseteq Machine,
           Fits(k, s)
    PROVE  CheckInv'
<1>1. PermissionsTypeOK'
  BY DEF CheckInv, PermissionsTypeOK, Check
<1>2. ASSUME NEW d \in Asker PROVE Fits(check[d], was[d])'
  <2>1. Fits(check[d], was[d]) /\ check \in [Asker -> Check] /\ DOMAIN was = Asker
    BY CheckTypes DEF CheckInv
  <2>2. IF d = c THEN check'[d] = k /\ was'[d] = s ELSE check'[d] = check[d] /\ was'[d] = was[d]
    BY CheckTypes
  <2>3. QED
    BY <2>1, <2>2 DEF Fits, Holds
<1>3. QED
  BY <1>1, <1>2 DEF CheckInv

LEMMA CheckSteps ==
    ASSUME CheckInv, NEW c \in Asker, CheckStep(c)
    PROVE  CheckInv'
<1> DEFINE k == check[c]
<1>1. /\ k \in Check /\ was[c] \in SUBSET (Workspace \cup {Absent}) /\ Fits(k, was[c])
      /\ was = [was EXCEPT ![c] = was[c]]
  BY CheckTypes DEF CheckInv
<1>2. NoCheck \in Check /\ NoCheck.pc = "idle"
  BY DEF NoCheck, Check
<1>3. ASSUME NEW r \in Check, Step(c, r), UNCHANGED was, Static, Fits(r, was[c])
      PROVE  CheckInv'
  BY <1>1, <1>3, CheckTypes, CheckChanges DEF Step, Static
<1>4. ASSUME Step(c, NoCheck), was' = [was EXCEPT ![c] = {}], outcasts' \subseteq Machine,
             UNCHANGED <<rank, spaces, offices, grants, members, place>>
      PROVE  CheckInv'
  BY <1>2, <1>4, CheckChanges DEF Step, Fits
<1>5. ASSUME NEW yes \in BOOLEAN, Verdict(c, k, yes), Static, k.pc # "idle",
             yes => \/ k.rank = "Admin"
                    \/ \E w \in was[c] \ {Absent} : Holds(k.user, w, k.asked)
      PROVE  CheckInv'
  <2>1. CASE yes
    <3> DEFINE r == [k EXCEPT !.pc = "allowed"]
    <3>1. r \in Check /\ r.pc = "allowed"
          /\ r.rank = k.rank /\ r.user = k.user /\ r.asked = k.asked /\ r.node = k.node
      BY <1>1 DEF Check
    <3>2. Fits(r, was[c])
      BY <1>1, <1>5, <2>1, <3>1 DEF Fits
    <3>3. Step(c, r) /\ UNCHANGED was
      BY <1>5, <2>1 DEF Verdict
    <3>4. QED
      BY <1>3, <1>5, <3>1, <3>2, <3>3
  <2>2. CASE ~yes
    BY <1>4, <1>5, <2>2, CheckTypes DEF Verdict, Static
  <2>3. QED
    BY <2>1, <2>2
<1>6. ASSUME NEW u \in Member, NEW n \in Machine, NEW p \in Permission, Ask(c, u, n, p)
      PROVE  CheckInv'
  <2> DEFINE r == [pc |-> FirstStep(p), user |-> u, rank |-> rank[u], node |-> n, asked |-> p,
                   space |-> Absent]
  <2>1. r \in Check /\ r.node = n /\ r.asked = p /\ r.pc \in {"status", "node"}
    BY CheckTypes DEF Check, FirstStep
  <2>2. r.pc = "status" => p = "TERMINAL_REATTACH"
    BY DEF FirstStep
  <2>3. Fits(r, {place[n]}) /\ {place[n]} \in SUBSET (Workspace \cup {Absent})
    BY <2>1, <2>2, CheckTypes DEF Fits
  <2>4. QED
    BY <1>6, <2>1, <2>3, CheckTypes, CheckChanges DEF Ask, Step, Static
<1>7. ASSUME NEW u \in Member, NEW p \in ControlPlanePermission, AskControlPlane(c, u, p)
      PROVE  CheckInv'
  <2> DEFINE r == [NoCheck EXCEPT !.pc = "allowed", !.user = u, !.rank = rank[u], !.asked = p]
  <2>1. r \in Check /\ r.pc = "allowed" /\ r.rank = "Admin" /\ r.asked # "NODE_REVOKE"
    BY <1>7, CheckTypes DEF Check, NoCheck, AskControlPlane, ControlPlanePermission
  <2>2. QED
    BY <1>3, <1>7, <2>1 DEF AskControlPlane, Fits
<1>8. CASE ReadStatus(c)
  <2> DEFINE r == [k EXCEPT !.pc = "node"]
  <2>1. r \in Check /\ r.pc = "node" /\ r.node = k.node /\ r.asked = k.asked
    BY <1>1 DEF Check
  <2>2. Fits(r, was[c])
    BY <1>1, <1>8, <2>1 DEF ReadStatus, Fits
  <2>3. CASE k.node \in outcasts
    BY <1>5, <1>8, <2>3 DEF ReadStatus
  <2>4. CASE k.node \notin outcasts
    BY <1>3, <1>8, <2>1, <2>2, <2>4 DEF ReadStatus
  <2>5. QED
    BY <2>3, <2>4
<1>9. CASE FindWorkspace(c)
  <2> DEFINE r == [k EXCEPT !.pc = "workspace", !.space = place[k.node]]
  <2>1. k.node \in Machine /\ place[k.node] \in was[c]
    BY <1>1, <1>9 DEF FindWorkspace, Fits
  <2>2. CASE k.rank = "Admin" \/ place[k.node] = Absent
    BY <1>5, <1>9, <2>2 DEF FindWorkspace
  <2>3. CASE ~(k.rank = "Admin" \/ place[k.node] = Absent)
    <3>1. r \in Check /\ r.pc = "workspace" /\ r.space = place[k.node] /\ r.node = k.node
      BY <1>1, <2>1, CheckTypes DEF Check
    <3>2. Fits(r, was[c])
      BY <2>1, <2>3, <3>1 DEF Fits
    <3>3. QED
      BY <1>3, <1>9, <2>3, <3>1, <3>2 DEF FindWorkspace
  <2>4. QED
    BY <2>2, <2>3
<1>10. CASE AskWorkspace(c)
  <2> DEFINE yes == Holds(k.user, k.space, k.asked)
  <2>1. k.space \in was[c] \ {Absent}
    BY <1>1, <1>10 DEF AskWorkspace, Fits
  <2>2. CASE yes
    BY <1>5, <1>10, <2>1, <2>2 DEF AskWorkspace, Verdict
  <2>3. CASE ~yes
    BY <1>5, <1>10, <2>3 DEF AskWorkspace, Verdict
  <2>4. QED
    BY <2>2, <2>3
<1>11. CASE Act(c)
  <2>1. outcasts' \subseteq Machine
    BY <1>1, <1>11, CheckTypes DEF Act, Fits
  <2>2. QED
    BY <1>4, <1>11, <2>1 DEF Act
<1>12. QED
  BY <1>6, <1>7, <1>8, <1>9, <1>10, <1>11 DEF CheckStep

(* What administrators change grants and moves, and takes nothing back.     *)
LEMMA StoreSteps ==
    ASSUME CheckInv,
           \/ \E w \in Workspace : CreateWorkspace(w)
           \/ \E r \in WorkspaceRole : CreateRole(r)
           \/ \E r \in WorkspaceRole, p \in Permission : GrantRolePermission(r, p)
           \/ \E w \in Workspace, u \in Member, r \in WorkspaceRole : AddWorkspaceMember(w, u, r)
           \/ \E w \in Workspace, n \in Machine : MapNodeToWorkspace(w, n)
           \/ \E u \in Member, r \in Rank : SetRank(u, r)
    PROVE  CheckInv'
<1>1. PermissionsTypeOK
  BY DEF CheckInv
<1>2. /\ PermissionsTypeOK' /\ UNCHANGED check
      /\ offices \subseteq offices' /\ members \subseteq members' /\ grants \subseteq grants'
  <2>1. CASE \E w \in Workspace : CreateWorkspace(w)
    BY <1>1, <2>1 DEF PermissionsTypeOK, CreateWorkspace
  <2>2. CASE \E r \in WorkspaceRole : CreateRole(r)
    BY <1>1, <2>2 DEF PermissionsTypeOK, CreateRole
  <2>3. CASE \E r \in WorkspaceRole, p \in Permission : GrantRolePermission(r, p)
    BY <1>1, <2>3 DEF PermissionsTypeOK, GrantRolePermission, RolePermission
  <2>4. CASE \E w \in Workspace, u \in Member, r \in WorkspaceRole : AddWorkspaceMember(w, u, r)
    BY <1>1, <2>4 DEF PermissionsTypeOK, AddWorkspaceMember, WorkspaceMember
  <2>5. CASE \E w \in Workspace, n \in Machine : MapNodeToWorkspace(w, n)
    BY <1>1, <2>5 DEF PermissionsTypeOK, MapNodeToWorkspace
  <2>6. CASE \E u \in Member, r \in Rank : SetRank(u, r)
    BY <1>1, <2>6 DEF PermissionsTypeOK, SetRank
  <2>7. QED
    BY <2>1, <2>2, <2>3, <2>4, <2>5, <2>6
<1>3. ASSUME NEW c \in Asker
      PROVE  /\ was[c] \subseteq was'[c]
             /\ \A n \in Machine : n = check[c].node /\ place[n] \in was[c] => place'[n] \in was'[c]
  BY CheckTypes DEF CreateWorkspace, CreateRole, GrantRolePermission, AddWorkspaceMember,
                    MapNodeToWorkspace, SetRank
<1>4. ASSUME NEW u, NEW w, NEW p, Holds(u, w, p) PROVE Holds(u, w, p)'
  BY <1>2, <1>4 DEF Holds
<1>5. ASSUME NEW c \in Asker PROVE Fits(check[c], was[c])'
  <2>1. Fits(check[c], was[c])
    BY DEF CheckInv
  <2>2. check'[c] = check[c]
    BY <1>2
  <2>3. QED
    BY <1>3, <1>4, <2>1, <2>2 DEF Fits
<1>6. QED
  BY <1>2, <1>5 DEF CheckInv

LEMMA ChecksInvariant == PermissionsSpec => []CheckInv
<1>1. PermissionsInit => CheckInv
  BY DEF PermissionsInit, CheckInv, PermissionsTypeOK, Fits, NoCheck
<1>2. CheckInv /\ [PermissionsNext]_permissionVars => CheckInv'
  <2> SUFFICES ASSUME CheckInv, [PermissionsNext]_permissionVars PROVE CheckInv'
    OBVIOUS
  <2>1. CASE \E c \in Asker : CheckStep(c)
    BY <2>1, CheckSteps
  <2>2. CASE UNCHANGED permissionVars
    BY <2>2 DEF permissionVars, CheckInv, PermissionsTypeOK, Fits, Holds
  <2>3. QED
    BY <2>1, <2>2, StoreSteps DEF PermissionsNext, CheckStep
<1>3. QED
  BY <1>1, <1>2, PTL DEF PermissionsSpec

(* The lists of rbac.rs refer to workspaces and roles that exist, and a     *)
(* check to users, nodes and permissions.                                   *)
THEOREM PermissionsTypeCorrect == PermissionsSpec => []PermissionsTypeOK
<1>1. CheckInv => PermissionsTypeOK
  BY DEF CheckInv
<1>2. QED
  BY <1>1, ChecksInvariant, PTL

(* user_has_node_permission lets nobody through who lacked the permission   *)
(* in every workspace the node was in during the check.                     *)
THEOREM AllowedOnlyInWorkspace == PermissionsSpec => []AllowedInItsWorkspace
<1>1. CheckInv => AllowedInItsWorkspace
  BY DEF CheckInv, AllowedInItsWorkspace, Fits
<1>2. QED
  BY <1>1, ChecksInvariant, PTL

(* A refusal has a reason that was true at some moment of the check.        *)
THEOREM DenialsHaveReasons == PermissionsSpec => DeniedForAReason
<1> DEFINE Reason(c) ==
        LET k == check[c] IN
        k.pc \in {"status", "node", "workspace"} /\ check'[c].pc = "idle" =>
            \/ k.asked = "TERMINAL_REATTACH" /\ k.node \in outcasts
            \/ \E w \in was[c] : w = Absent \/ ~Holds(k.user, w, k.asked)
<1>1. CheckInv /\ [PermissionsNext]_permissionVars => [\A c \in Asker : Reason(c)]_permissionVars
  <2> SUFFICES ASSUME CheckInv, PermissionsNext, NEW c \in Asker PROVE Reason(c)
    OBVIOUS
  <2>1. Fits(check[c], was[c]) /\ check[c] \in Check /\ DOMAIN check = Asker
    BY CheckTypes DEF CheckInv
  <2>2. CASE check'[c] = check[c]
    BY <2>2
  <2>3. ASSUME NEW d \in Asker, CheckStep(d), d # c PROVE check'[c] = check[c]
    BY <2>1, <2>3 DEF CheckStep, Ask, AskControlPlane, ReadStatus, FindWorkspace, AskWorkspace, Act,
                      Step, Verdict
  <2>4. CASE ReadStatus(c)
    <3>1. check[c].pc = "status" => check[c].asked = "TERMINAL_REATTACH"
      BY <2>1 DEF Fits
    <3>2. check[c].node \notin outcasts => check'[c].pc = "node"
      BY <2>1, <2>4 DEF ReadStatus, Step, Check
    <3>3. QED
      BY <2>4, <3>1, <3>2 DEF ReadStatus
  <2>5. CASE FindWorkspace(c)
    <3>1. place[check[c].node] \in was[c]
      BY <2>1, <2>5 DEF FindWorkspace, Fits
    <3>2. CASE check[c].rank = "Admin"
      <4>1. check'[c] = [check[c] EXCEPT !.pc = "allowed"]
        BY <2>1, <2>5, <3>2 DEF FindWorkspace, Verdict, Step
      <4>2. QED
        BY <2>1, <4>1 DEF Check
    <3>3. CASE check[c].rank # "Admin" /\ place[check[c].node] # Absent
      <4>1. check'[c] = [check[c] EXCEPT !.pc = "workspace", !.space = place[check[c].node]]
        BY <2>1, <2>5, <3>3 DEF FindWorkspace, Step
      <4>2. QED
        BY <2>1, <4>1 DEF Check
    <3>4. QED
      BY <3>1, <3>2, <3>3
  <2>6. CASE AskWorkspace(c)
    <3>1. check[c].space \in was[c]
      BY <2>1, <2>6 DEF AskWorkspace, Fits
    <3>2. CASE Holds(check[c].user, check[c].space, check[c].asked)
      <4>1. check'[c] = [check[c] EXCEPT !.pc = "allowed"]
        BY <2>1, <2>6, <3>2 DEF AskWorkspace, Verdict, Step
      <4>2. QED
        BY <2>1, <4>1 DEF Check
    <3>3. QED
      BY <3>1, <3>2
  <2>7. CASE \/ \E u \in Member, n \in Machine, p \in Permission : Ask(c, u, n, p)
             \/ \E u \in Member, p \in ControlPlanePermission : AskControlPlane(c, u, p)
             \/ Act(c)
    BY <2>7 DEF Ask, AskControlPlane, Act
  <2>8. CASE UNCHANGED check
    BY <2>2, <2>8
  <2>9. (\E d \in Asker : CheckStep(d)) \/ UNCHANGED check
    BY DEF PermissionsNext, CheckStep, CreateWorkspace, CreateRole, GrantRolePermission,
           AddWorkspaceMember, MapNodeToWorkspace, SetRank
  <2>10. QED
    BY <2>2, <2>3, <2>4, <2>5, <2>6, <2>7, <2>8, <2>9 DEF CheckStep
<1>2. QED
  BY <1>1, ChecksInvariant, PTL DEF PermissionsSpec, DeniedForAReason

-----------------------------------------------------------------------------
(* Accounts and its rate limiters *)

-----------------------------------------------------------------------------
(* The rate limiter                                                         *)

\* What a bucket b of the attempts `times` that were let pass remembers at `at`: the last of
\* them, and every one that it forgot is stale.
Remembers(times, b, at) ==
    /\ Len(b) <= Len(times)
    /\ \A i \in 1 .. Len(b) : b[i] = times[Len(times) - Len(b) + i]
    /\ \A i \in 1 .. Len(times) - Len(b) : times[i] <= at - Window
    /\ Spread(times)

LEMMA RememberedLater ==
    ASSUME NEW times \in Seq(Nat), NEW b \in Seq(Nat), NEW at \in Nat, NEW later \in Nat,
           at <= later, Remembers(times, b, at)
    PROVE  Remembers(times, b, later)
<1>1. ASSUME NEW i \in 1 .. Len(times) - Len(b) PROVE times[i] <= later - Window
  <2>1. Len(b) \in Nat /\ Len(times) \in Nat
    OBVIOUS
  <2>2. i \in 1 .. Len(times) /\ times[i] \in Nat
    BY <2>1
  <2>3. times[i] <= at - Window
    BY DEF Remembers
  <2>4. QED
    BY <2>2, <2>3, LimiterAssumption DEF LimiterAssumption
<1>2. QED
  BY <1>1 DEF Remembers

\* The while loop pops the stale attempts at the front and forgets nothing else.
LEMMA PoppedRemembers ==
    ASSUME NEW times \in Seq(Nat), NEW b \in Seq(Nat), NEW at \in Nat,
           Remembers(times, b, at),
           NEW k \in 0 .. Len(b), Popped(b, k, at)
    PROVE  /\ SubSeq(b, k + 1, Len(b)) \in Seq(Nat)
           /\ Len(SubSeq(b, k + 1, Len(b))) = Len(b) - k
           /\ Remembers(times, SubSeq(b, k + 1, Len(b)), at)
<1> DEFINE kept == SubSeq(b, k + 1, Len(b))
           n == Len(times)
           m == Len(b)
<1>1. n \in Nat /\ m \in Nat /\ k \in 0 .. m /\ m <= n
  BY DEF Remembers
<1>2. \A i \in k + 1 .. m : b[i] \in Nat
  BY <1>1
<1>3. /\ kept \in Seq(Nat)
      /\ Len(kept) = IF k + 1 <= m THEN m - (k + 1) + 1 ELSE 0
      /\ \A i \in 1 .. m - (k + 1) + 1 : kept[i] = b[k + 1 + i - 1]
  BY <1>1, <1>2, SubSeqProperties
<1>4. Len(kept) = m - k
  BY <1>1, <1>3
<1>5. ASSUME NEW i \in 1 .. m - k PROVE kept[i] = times[n - (m - k) + i]
  <2>1. i \in 1 .. m - (k + 1) + 1 /\ k + i \in 1 .. m /\ k + 1 + i - 1 = k + i
    BY <1>1
  <2>2. kept[i] = b[k + i]
    BY <1>3, <2>1
  <2>3. b[k + i] = times[n - m + (k + i)]
    BY <2>1 DEF Remembers
  <2>4. n - m + (k + i) = n - (m - k) + i
    BY <1>1, <2>1
  <2>5. QED
    BY <2>2, <2>3, <2>4
<1>6. ASSUME NEW i \in 1 .. n - (m - k) PROVE times[i] <= at - Window
  <2>1. CASE i \in 1 .. n - m
    BY <2>1 DEF Remembers
  <2>2. CASE i \notin 1 .. n - m
    <3> DEFINE j == i - (n - m)
    <3>1. j \in 1 .. k /\ j \in 1 .. m /\ n - m + j = i
      BY <1>1, <2>2
    <3>2. b[j] <= at - Window
      BY <3>1 DEF Popped
    <3>3. b[j] = times[n - m + j]
      BY <3>1 DEF Remembers
    <3>4. QED
      BY <3>1, <3>2, <3>3
  <2>3. QED
    BY <2>1, <2>2
<1>7. Remembers(times, kept, at)
  <2> HIDE DEF kept
  <2>1. Spread(times) /\ m - k <= n
    BY <1>1 DEF Remembers
  <2>2. QED
    BY <1>4, <1>5, <1>6, <2>1 DEF Remembers
<1>8. QED
  BY <1>3, <1>4, <1>7

\* An attempt that is let pass when the bucket holds fewer than MaxAttempts keeps the spread: the
\* one MaxAttempts before it was forgotten, so it is stale.
LEMMA PassedRemembers ==
    ASSUME NEW times \in Seq(Nat), NEW b \in Seq(Nat), NEW at \in Nat,
           Remembers(times, b, at), Len(b) < MaxAttempts
    PROVE  /\ Append(b, at) \in Seq(Nat) /\ Append(times, at) \in Seq(Nat)
           /\ Remembers(Append(times, at), Append(b, at), at)
<1> DEFINE n == Len(times)
           m == Len(b)
           ts == Append(times, at)
           bs == Append(b, at)
<1>1. n \in Nat /\ m \in Nat /\ m <= n /\ MaxAttempts \in Nat \ {0} /\ Window \in Nat
  BY LimiterAssumption DEF Remembers, LimiterAssumption
<1>2. /\ ts \in Seq(Nat) /\ Len(ts) = n + 1 /\ ts[n + 1] = at
      /\ \A i \in 1 .. n : ts[i] = times[i]
  BY AppendProperties
<1>3. /\ bs \in Seq(Nat) /\ Len(bs) = m + 1 /\ bs[m + 1] = at
      /\ \A i \in 1 .. m : bs[i] = b[i]
  BY AppendProperties
<1> HIDE DEF ts, bs
<1>4. ASSUME NEW i \in 1 .. m + 1 PROVE bs[i] = ts[n + 1 - (m + 1) + i]
  <2>1. CASE i = m + 1
    <3>1. n + 1 - (m + 1) + i = n + 1
      BY <1>1, <2>1
    <3>2. QED
      BY <1>2, <1>3, <2>1, <3>1
  <2>2. CASE i \in 1 .. m
    <3>1. n + 1 - (m + 1) + i = n - m + i /\ n - m + i \in 1 .. n
      BY <1>1, <2>2
    <3>2. b[i] = times[n - m + i]
      BY <2>2 DEF Remembers
    <3>3. QED
      BY <1>2, <1>3, <2>2, <3>1, <3>2
  <2>3. QED
    BY <1>1, <2>1, <2>2
<1>5. ASSUME NEW i \in 1 .. n + 1 - (m + 1) PROVE ts[i] <= at - Window
  <2>1. i \in 1 .. n - m /\ i \in 1 .. n
    BY <1>1
  <2>2. QED
    BY <1>2, <2>1 DEF Remembers
<1>6. Spread(ts)
  <2>1. DOMAIN ts = 1 .. n + 1 /\ DOMAIN times = 1 .. n
    BY <1>2
  <2>2. SUFFICES ASSUME NEW i \in 1 .. n + 1, i + MaxAttempts \in 1 .. n + 1
                 PROVE  ts[i + MaxAttempts] - ts[i] >= Window
    BY <2>1 DEF Spread
  <2>3. CASE i + MaxAttempts \in 1 .. n
    <3>1. i \in 1 .. n
      BY <1>1, <2>3
    <3>2. times[i + MaxAttempts] - times[i] >= Window
      BY <2>1, <2>3, <3>1 DEF Remembers, Spread
    <3>3. QED
      BY <1>2, <2>3, <3>1, <3>2
  <2>4. CASE i + MaxAttempts = n + 1
    <3>1. i \in 1 .. n + 1 - (m + 1) /\ i \in 1 .. n
      BY <1>1, <2>4
    <3>2. ts[i] <= at - Window /\ ts[i] \in Nat
      BY <1>2, <1>5, <3>1
    <3>3. ts[i + MaxAttempts] = at
      BY <1>2, <2>4
    <3>4. QED
      BY <1>1, <3>2, <3>3
  <2>5. i + MaxAttempts \in 1 .. n \/ i + MaxAttempts = n + 1
    BY <1>1, <2>2, SMTT(30)
  <2>6. QED
    BY <2>3, <2>4, <2>5
<1>7. Len(bs) <= Len(ts) /\ Len(ts) - Len(bs) = n + 1 - (m + 1)
  BY <1>1, <1>2, <1>3
<1>8. Remembers(ts, bs, at)
  BY <1>2, <1>3, <1>4, <1>5, <1>6, <1>7 DEF Remembers
<1>9. QED
  BY <1>2, <1>3, <1>8 DEF ts, bs

\* What check_and_record answers is what is kept, with or without the new attempt.
LEMMA OutcomeShape ==
    ASSUME NEW b, NEW at, NEW o \in Outcomes(b, at)
    PROVE  \E k \in 0 .. Len(b) :
             /\ Popped(b, k, at)
             /\ \/ /\ Len(SubSeq(b, k + 1, Len(b))) >= MaxAttempts
                   /\ o.allowed = FALSE /\ o.bucket = SubSeq(b, k + 1, Len(b))
                \/ /\ ~(Len(SubSeq(b, k + 1, Len(b))) >= MaxAttempts)
                   /\ o.allowed = TRUE /\ o.bucket = Append(SubSeq(b, k + 1, Len(b)), at)
<1>1. PICK k \in 0 .. Len(b) :
        /\ Popped(b, k, at)
        /\ o = LET kept == SubSeq(b, k + 1, Len(b)) IN
               IF Len(kept) >= MaxAttempts THEN [allowed |-> FALSE, bucket |-> kept]
                                           ELSE [allowed |-> TRUE, bucket |-> Append(kept, at)]
  BY DEF Outcomes
<1>2. QED
  BY <1>1

(* check_and_record, whatever its answer.                                   *)
LEMMA CheckRemembers ==
    ASSUME NEW times \in Seq(Nat), NEW b \in Seq(Nat), NEW at \in Nat,
           Remembers(times, b, at), NEW o \in Outcomes(b, at)
    PROVE  /\ o.bucket \in Seq(Nat)
           /\ o.allowed => /\ Append(times, at) \in Seq(Nat)
                           /\ Remembers(Append(times, at), o.bucket, at)
           /\ ~o.allowed => Remembers(times, o.bucket, at)
<1>1. PICK k \in 0 .. Len(b) :
             /\ Popped(b, k, at)
             /\ \/ /\ Len(SubSeq(b, k + 1, Len(b))) >= MaxAttempts
                   /\ o.allowed = FALSE /\ o.bucket = SubSeq(b, k + 1, Len(b))
                \/ /\ ~(Len(SubSeq(b, k + 1, Len(b))) >= MaxAttempts)
                   /\ o.allowed = TRUE /\ o.bucket = Append(SubSeq(b, k + 1, Len(b)), at)
  BY OutcomeShape
<1> DEFINE kept == SubSeq(b, k + 1, Len(b))
<1>2. kept \in Seq(Nat) /\ Remembers(times, kept, at)
  BY <1>1, PoppedRemembers
<1>3. \/ Len(kept) >= MaxAttempts /\ o.allowed = FALSE /\ o.bucket = kept
      \/ ~(Len(kept) >= MaxAttempts) /\ o.allowed = TRUE /\ o.bucket = Append(kept, at)
  BY <1>1
<1> HIDE DEF kept
<1>4. CASE Len(kept) >= MaxAttempts
  <2>1. o.bucket = kept /\ o.allowed = FALSE
    BY <1>3, <1>4
  <2>2. QED
    BY <1>2, <2>1
<1>5. CASE ~(Len(kept) >= MaxAttempts)
  <2>1. o.bucket = Append(kept, at) /\ o.allowed = TRUE
    BY <1>3, <1>5
  <2>2. Len(kept) < MaxAttempts
    BY <1>2, <1>5, LimiterAssumption DEF LimiterAssumption
  <2>3. QED
    BY <1>2, <2>1, <2>2, PassedRemembers
<1>6. QED
  BY <1>4, <1>5

-----------------------------------------------------------------------------
(* The inductive invariant                                                  *)

\* What a request has read by the time it is there.
RequestsOK ==
    \A c \in Caller :
        /\ req[c].pc # "idle" => req[c].email \in Email
        /\ req[c].pc = "login" => req[c].word \in Password
        /\ req[c].pc \notin {"idle", "login"} => req[c].token \in Token

\* A session is as old as its token and as recent as its own last step-up, and has not ended.
SessionsOK ==
    \A t \in Token :
        logins[t] # Absent =>
            /\ ~seen[t].ended
            /\ seen[t].drawn \in Time
            /\ logins[t].expires = seen[t].drawn + SessionTtl
            /\ logins[t].mfa = seen[t].stepped

\* Every bucket remembers what it let pass.
LimitersOK ==
    \A l \in Limiter, e \in Email : Remembers(admitted[l][e], bucket[l][e], now)

AccountsInv == AccountsTypeOK /\ RequestsOK /\ SessionsOK /\ LimitersOK

USE AccountsAssumption, ClockAssumption DEF AccountsAssumption, ClockAssumption

LEMMA TimesAreNat == Time \subseteq Nat /\ \A s \in Seq(Time) : s \in Seq(Nat)
BY DEF Time

LEMMA IdleRequest == Idle \in Request /\ Idle.pc = "idle"
BY DEF Idle, Request

\* A request that is answered, and one that goes on with what it has read.
LEMMA AnswerKeeps ==
    ASSUME AccountsInv, NEW c \in Caller, Answer(c)
    PROVE  req' \in [Caller -> Request] /\ RequestsOK'
BY IdleRequest DEF Answer, AccountsInv, AccountsTypeOK, RequestsOK

LEMMA GotoKeeps ==
    ASSUME AccountsInv, NEW c \in Caller, NEW pc \in {"step_up", "creating"},
           req[c].pc \notin {"idle", "login"}, Goto(c, pc)
    PROVE  req' \in [Caller -> Request] /\ RequestsOK'
<1>1. req \in [Caller -> Request]
  BY DEF AccountsInv, AccountsTypeOK
<1>2. \A d \in Caller : req'[d] = IF d = c THEN [req[c] EXCEPT !.pc = pc] ELSE req[d]
  BY <1>1 DEF Goto
<1>3. [req[c] EXCEPT !.pc = pc] \in Request
  BY <1>1 DEF Request
<1>4. req' \in [Caller -> Request]
  BY <1>1, <1>3 DEF Goto
<1>5. req[c].email \in Email /\ req[c].token \in Token
  BY DEF AccountsInv, RequestsOK
<1>6. /\ [req[c] EXCEPT !.pc = pc].pc = pc
      /\ [req[c] EXCEPT !.pc = pc].email = req[c].email
      /\ [req[c] EXCEPT !.pc = pc].token = req[c].token
  BY <1>1 DEF Request
<1>7. RequestsOK'
  BY <1>2, <1>5, <1>6 DEF AccountsInv, RequestsOK
<1>8. QED
  BY <1>4, <1>7

\* One attempt at a limiter, whatever the request does then.
LEMMA LimitedKeeps ==
    ASSUME AccountsInv, NEW l \in Limiter, NEW e \in Email, NEW o \in Outcomes(bucket[l][e], now),
           now' = now,
           bucket' = [bucket EXCEPT ![l][e] = o.bucket],
           admitted' = IF o.allowed THEN [admitted EXCEPT ![l][e] = Append(@, now)] ELSE admitted
    PROVE  /\ bucket' \in [Limiter -> [Email -> Seq(Time)]]
           /\ admitted' \in [Limiter -> [Email -> Seq(Time)]]
           /\ LimitersOK'
<1> DEFINE times == admitted[l][e]
           b == bucket[l][e]
<1>1. /\ bucket \in [Limiter -> [Email -> Seq(Time)]]
      /\ admitted \in [Limiter -> [Email -> Seq(Time)]]
      /\ now \in Time /\ LimitersOK
  BY DEF AccountsInv, AccountsTypeOK
<1>2. times \in Seq(Time) /\ b \in Seq(Time) /\ Remembers(times, b, now)
  BY <1>1 DEF LimitersOK
<1>3. times \in Seq(Nat) /\ b \in Seq(Nat) /\ now \in Nat
  BY <1>1, <1>2, TimesAreNat
<1>4. /\ o.allowed => Remembers(Append(times, now), o.bucket, now)
      /\ ~o.allowed => Remembers(times, o.bucket, now)
  BY <1>2, <1>3, CheckRemembers
<1>5. o.bucket \in Seq(Time)
  <2>1. PICK k \in 0 .. Len(b) :
             /\ Popped(b, k, now)
             /\ \/ /\ Len(SubSeq(b, k + 1, Len(b))) >= MaxAttempts
                   /\ o.allowed = FALSE /\ o.bucket = SubSeq(b, k + 1, Len(b))
                \/ /\ ~(Len(SubSeq(b, k + 1, Len(b))) >= MaxAttempts)
                   /\ o.allowed = TRUE /\ o.bucket = Append(SubSeq(b, k + 1, Len(b)), now)
    BY OutcomeShape
  <2> DEFINE kept == SubSeq(b, k + 1, Len(b))
  <2>2. kept \in Seq(Time)
    <3>1. k + 1 \in Int /\ Len(b) \in Int /\ \A i \in k + 1 .. Len(b) : b[i] \in Time
      BY <1>2
    <3>2. QED
      BY <3>1, SubSeqProperties
  <2>3. o.bucket = kept \/ o.bucket = Append(kept, now)
    BY <2>1
  <2> HIDE DEF kept
  <2>4. Append(kept, now) \in Seq(Time)
    BY <1>1, <2>2, AppendProperties
  <2>5. QED
    BY <2>2, <2>3, <2>4
<1>6. Append(times, now) \in Seq(Time)
  BY <1>1, <1>2, AppendProperties
<1>7. ASSUME NEW m \in Limiter, NEW f \in Email
      PROVE  /\ bucket'[m][f] = IF m = l /\ f = e THEN o.bucket ELSE bucket[m][f]
             /\ admitted'[m][f] = IF m = l /\ f = e /\ o.allowed THEN Append(times, now)
                                                               ELSE admitted[m][f]
  BY <1>1
<1>8. bucket' \in [Limiter -> [Email -> Seq(Time)]]
  BY <1>1, <1>5
<1>9. admitted' \in [Limiter -> [Email -> Seq(Time)]]
  BY <1>1, <1>6
<1>10. LimitersOK'
  <2> SUFFICES ASSUME NEW m \in Limiter, NEW f \in Email
               PROVE  Remembers(admitted'[m][f], bucket'[m][f], now)
    BY DEF LimitersOK
  <2>1. CASE m = l /\ f = e
    BY <1>4, <1>7, <2>1
  <2>2. CASE ~(m = l /\ f = e)
    BY <1>1, <1>7, <2>2 DEF LimitersOK
  <2>3. QED
    BY <2>1, <2>2
<1>11. QED
  BY <1>8, <1>9, <1>10

\* Dropping sessions, and marking the tokens that lost theirs, keeps the others as they were.
LEMMA SetLoginsKeeps ==
    ASSUME AccountsInv, NEW new, SetLogins(new), now' = now,
           new \in [Token -> SessionRecord \cup {Absent}],
           \A t \in Token : new[t] # Absent => new[t] = logins[t]
    PROVE  /\ logins' \in [Token -> SessionRecord \cup {Absent}]
           /\ seen' \in [Token -> [drawn : Time \cup {Absent}, stepped : Time \cup {Absent}, ended : BOOLEAN]]
           /\ SessionsOK'
<1>1. /\ seen \in [Token -> [drawn : Time \cup {Absent}, stepped : Time \cup {Absent}, ended : BOOLEAN]]
      /\ SessionsOK
  BY DEF AccountsInv, AccountsTypeOK
<1>2. /\ logins' = new
      /\ seen' = [t \in Token |-> [seen[t] EXCEPT !.ended = @ \/ (logins[t] # Absent /\ new[t] = Absent)]]
  BY DEF SetLogins
<1>3. \A t \in Token :
        /\ seen'[t] \in [drawn : Time \cup {Absent}, stepped : Time \cup {Absent}, ended : BOOLEAN]
        /\ seen'[t].drawn = seen[t].drawn /\ seen'[t].stepped = seen[t].stepped
        /\ seen'[t].ended = (seen[t].ended \/ (logins[t] # Absent /\ new[t] = Absent))
  BY <1>1, <1>2
<1>4. seen' \in [Token -> [drawn : Time \cup {Absent}, stepped : Time \cup {Absent}, ended : BOOLEAN]]
  BY <1>2, <1>3
<1>5. SessionsOK'
  <2> SUFFICES ASSUME NEW t \in Token, logins'[t] # Absent
               PROVE  /\ ~seen'[t].ended
                      /\ seen'[t].drawn \in Time
                      /\ logins'[t].expires = seen'[t].drawn + SessionTtl
                      /\ logins'[t].mfa = seen'[t].stepped
    BY DEF SessionsOK, Time
  <2>1. new[t] = logins[t] /\ logins[t] # Absent
    BY <1>2
  <2>2. seen'[t].ended = seen[t].ended
    BY <1>1, <1>3, <2>1
  <2>3. QED
    BY <1>1, <1>2, <1>3, <2>1, <2>2 DEF SessionsOK
<1>6. QED
  BY <1>2, <1>4, <1>5

LEMMA PurgedIsPart ==
    ASSUME AccountsInv
    PROVE  /\ Purged \in [Token -> SessionRecord \cup {Absent}]
           /\ \A t \in Token : Purged[t] # Absent => Purged[t] = logins[t] /\ logins[t].expires > now
BY DEF Purged, AccountsInv, AccountsTypeOK

-----------------------------------------------------------------------------
(* The steps                                                                *)

LEMMA LoginAttemptStep ==
    ASSUME AccountsInv, NEW c \in Caller, NEW e \in Email, NEW p \in Password, LoginAttempt(c, e, p)
    PROVE  AccountsInv'
<1> DEFINE next == [Idle EXCEPT !.pc = "login", !.email = e, !.word = p]
<1>1. PICK o \in Outcomes(bucket["login"][e], now) :
        /\ bucket' = [bucket EXCEPT !["login"][e] = o.bucket]
        /\ admitted' = IF o.allowed THEN [admitted EXCEPT !["login"][e] = Append(@, now)] ELSE admitted
        /\ req' = IF o.allowed THEN [req EXCEPT ![c] = next] ELSE req
  BY DEF LoginAttempt, Limited
<1>2. UNCHANGED <<now, users, logins, seen>>
  BY DEF LoginAttempt
<1>3. /\ bucket' \in [Limiter -> [Email -> Seq(Time)]]
      /\ admitted' \in [Limiter -> [Email -> Seq(Time)]]
      /\ LimitersOK'
  BY <1>1, <1>2, LimitedKeeps DEF Limiter
<1>4. /\ next \in Request
      /\ next.pc = "login" /\ next.email = e /\ next.word = p
  BY DEF Idle, Request
<1> HIDE DEF next
<1>5. req' \in [Caller -> Request] /\ RequestsOK'
  BY <1>1, <1>4 DEF AccountsInv, AccountsTypeOK, RequestsOK
<1>6. QED
  BY <1>2, <1>3, <1>5 DEF AccountsInv, AccountsTypeOK, SessionsOK

LEMMA MfaAttemptStep ==
    ASSUME AccountsInv, NEW c \in Caller, MfaAttempt(c) \/ CreationAttempt(c)
    PROVE  AccountsInv'
<1> DEFINE e == req[c].email
<1>1. req[c].pc \notin {"idle", "login"} /\ e \in Email
  BY DEF MfaAttempt, CreationAttempt, At, AccountsInv, RequestsOK
<1>2. PICK l \in {"mfa", "terminal"} : \E o \in Outcomes(bucket[l][e], now) :
        /\ bucket' = [bucket EXCEPT ![l][e] = o.bucket]
        /\ admitted' = IF o.allowed THEN [admitted EXCEPT ![l][e] = Append(@, now)] ELSE admitted
        /\ Answer(c) \/ Goto(c, "step_up")
  <2>1. CASE MfaAttempt(c)
    BY <2>1 DEF MfaAttempt, Limited
  <2>2. CASE CreationAttempt(c)
    BY <2>2 DEF CreationAttempt, Limited
  <2>3. QED
    BY <2>1, <2>2
<1>3. UNCHANGED <<now, users, logins, seen>>
  BY DEF MfaAttempt, CreationAttempt
<1>4. /\ bucket' \in [Limiter -> [Email -> Seq(Time)]]
      /\ admitted' \in [Limiter -> [Email -> Seq(Time)]]
      /\ LimitersOK'
  BY <1>1, <1>2, <1>3, LimitedKeeps DEF Limiter
<1>5. req' \in [Caller -> Request] /\ RequestsOK'
  BY <1>1, <1>2, AnswerKeeps, GotoKeeps
<1>6. QED
  BY <1>3, <1>4, <1>5 DEF AccountsInv, AccountsTypeOK, SessionsOK

(* A login draws a token nobody has seen; its session is as new as that.    *)
LEMMA LoginStep ==
    ASSUME AccountsInv, NEW c \in Caller, Login(c)
    PROVE  AccountsInv'
<1> DEFINE e == req[c].email
<1>1. e \in Email
  BY DEF Login, At, AccountsInv, RequestsOK
<1>2. UNCHANGED <<now, users, bucket, admitted>> /\ Answer(c)
  BY DEF Login
<1>3. req' \in [Caller -> Request] /\ RequestsOK' /\ LimitersOK'
  BY <1>2, AnswerKeeps DEF AccountsInv, LimitersOK
<1>4. ASSUME NEW t \in Token, seen[t] = Unseen,
             logins' = [logins EXCEPT ![t] = [email |-> e, expires |-> now + SessionTtl, mfa |-> Absent]],
             seen' = [seen EXCEPT ![t].drawn = now]
      PROVE  AccountsInv'
  <2> DEFINE new == [email |-> e, expires |-> now + SessionTtl, mfa |-> Absent]
  <2>1. now \in Time /\ now \in Nat
    BY DEF AccountsInv, AccountsTypeOK, Time
  <2>2. /\ new \in SessionRecord
        /\ new.expires = now + SessionTtl /\ new.mfa = Absent
    BY <1>1, <2>1 DEF SessionRecord
  <2>3. /\ logins' \in [Token -> SessionRecord \cup {Absent}]
        /\ \A u \in Token : logins'[u] = IF u = t THEN new ELSE logins[u]
    BY <1>4, <2>2 DEF AccountsInv, AccountsTypeOK
  <2>4. seen \in [Token -> [drawn : Time \cup {Absent}, stepped : Time \cup {Absent}, ended : BOOLEAN]]
    BY DEF AccountsInv, AccountsTypeOK
  <2>5. /\ seen' \in [Token -> [drawn : Time \cup {Absent}, stepped : Time \cup {Absent}, ended : BOOLEAN]]
        /\ seen'[t].drawn = now /\ seen'[t].stepped = Absent /\ seen'[t].ended = FALSE
        /\ \A u \in Token \ {t} : seen'[u] = seen[u]
    <3>1. \A u \in Token : seen'[u] = IF u = t THEN [seen[t] EXCEPT !.drawn = now] ELSE seen[u]
      BY <1>4, <2>4
    <3>2. seen[t].stepped = Absent /\ seen[t].ended = FALSE
      BY <1>4 DEF Unseen
    <3>3. /\ [seen[t] EXCEPT !.drawn = now] \in [drawn : Time \cup {Absent}, stepped : Time \cup {Absent}, ended : BOOLEAN]
          /\ [seen[t] EXCEPT !.drawn = now].drawn = now
          /\ [seen[t] EXCEPT !.drawn = now].stepped = seen[t].stepped
          /\ [seen[t] EXCEPT !.drawn = now].ended = seen[t].ended
      BY <2>1, <2>4
    <3>4. seen' \in [Token -> [drawn : Time \cup {Absent}, stepped : Time \cup {Absent}, ended : BOOLEAN]]
      BY <1>4, <2>4, <3>3
    <3>5. QED
      BY <3>1, <3>2, <3>3, <3>4
  <2> HIDE DEF new
  <2>6. SessionsOK'
    BY <1>2, <2>1, <2>2, <2>3, <2>5 DEF SessionsOK, AccountsInv
  <2>7. QED
    BY <1>2, <1>3, <2>3, <2>5, <2>6 DEF AccountsInv, AccountsTypeOK
<1>5. CASE UNCHANGED <<logins, seen>>
  BY <1>2, <1>3, <1>5 DEF AccountsInv, AccountsTypeOK, SessionsOK
<1>6. QED
  BY <1>4, <1>5 DEF Login

(* A request is let in, logs out, or asks for a terminal: sessions only go. *)
LEMMA SessionsGoSteps ==
    ASSUME AccountsInv, NEW c \in Caller,
           \/ \E t \in Token, pc \in {"logout", "mfa", "terminal"} : Enter(c, t, pc)
           \/ Logout(c)
           \/ Authorize(c)
    PROVE  AccountsInv'
<1>1. UNCHANGED <<now, users, bucket, admitted>>
  BY DEF Enter, Logout, Authorize
<1>2. PICK new : /\ SetLogins(new)
                 /\ new \in [Token -> SessionRecord \cup {Absent}]
                 /\ \A t \in Token : new[t] # Absent => new[t] = logins[t]
  <2>1. CASE SetLogins(Purged)
    BY <2>1, PurgedIsPart
  <2>2. CASE SetLogins(logins)
    BY <2>2 DEF AccountsInv, AccountsTypeOK
  <2>3. CASE Logout(c)
    <3>1. SetLogins(LoggedOut(req[c].token))
      BY <2>3 DEF Logout
    <3>2. logins \in [Token -> SessionRecord \cup {Absent}]
      BY DEF AccountsInv, AccountsTypeOK
    <3>3. /\ LoggedOut(req[c].token) \in [Token -> SessionRecord \cup {Absent}]
          /\ \A t \in Token : LoggedOut(req[c].token)[t] \in {Absent, logins[t]}
      BY <3>2 DEF LoggedOut
    <3>4. QED
      BY <3>1, <3>3
  <2>4. QED
    BY <2>1, <2>2, <2>3 DEF Enter, Authorize
<1>3. req' \in [Caller -> Request] /\ RequestsOK'
  <2>1. ASSUME NEW t \in Token, NEW pc \in {"logout", "mfa", "terminal"}, Enter(c, t, pc),
               req' # req
        PROVE  req' \in [Caller -> Request] /\ RequestsOK'
    <3> DEFINE next == [Idle EXCEPT !.pc = pc, !.email = Purged[t].email, !.token = t]
    <3>1. Purged[t] # Absent /\ req' = [req EXCEPT ![c] = next]
      BY <2>1 DEF Enter, CurrentSession
    <3>2. Purged[t].email \in Email
      BY <3>1, PurgedIsPart DEF SessionRecord
    <3>3. next \in Request /\ next.pc = pc /\ next.email = Purged[t].email /\ next.token = t
      BY <3>2 DEF Idle, Request
    <3> HIDE DEF next
    <3>4. QED
      BY <3>1, <3>2, <3>3 DEF AccountsInv, AccountsTypeOK, RequestsOK
  <2>2. CASE UNCHANGED req
    BY <2>2 DEF AccountsInv, AccountsTypeOK, RequestsOK
  <2>3. CASE Logout(c)
    BY <2>3, AnswerKeeps DEF Logout
  <2>4. CASE Authorize(c)
    BY <2>4, AnswerKeeps, GotoKeeps DEF Authorize, At
  <2>5. QED
    BY <2>1, <2>2, <2>3, <2>4
<1>4. LimitersOK'
  BY <1>1 DEF AccountsInv, LimitersOK
<1>5. QED
  BY <1>1, <1>2, <1>3, <1>4, SetLoginsKeeps DEF AccountsInv, AccountsTypeOK

(* record_mfa_success: a session that is gone is not brought back.          *)
LEMMA StepUpStep ==
    ASSUME AccountsInv, NEW c \in Caller, StepUp(c)
    PROVE  AccountsInv'
<1> DEFINE t == req[c].token
<1>1. t \in Token
  BY DEF StepUp, At, AccountsInv, RequestsOK
<1>2. UNCHANGED <<now, users, bucket, admitted>> /\ Answer(c)
  BY DEF StepUp
<1>3. req' \in [Caller -> Request] /\ RequestsOK' /\ LimitersOK'
  BY <1>2, AnswerKeeps DEF AccountsInv, LimitersOK
<1>4. /\ logins' = [Purged EXCEPT ![t] = IF @ = Absent THEN @ ELSE [@ EXCEPT !.mfa = now]]
      /\ seen' = [u \in Token |->
                 [seen[u] EXCEPT !.ended = @ \/ (logins[u] # Absent /\ Purged[u] = Absent),
                                 !.stepped = IF u = t /\ Purged[t] # Absent THEN now ELSE @]]
  BY DEF StepUp
<1> HIDE DEF t
<1>5. /\ now \in Time /\ SessionsOK
      /\ seen \in [Token -> [drawn : Time \cup {Absent}, stepped : Time \cup {Absent}, ended : BOOLEAN]]
  BY DEF AccountsInv, AccountsTypeOK
<1>6. /\ Purged \in [Token -> SessionRecord \cup {Absent}]
      /\ \A u \in Token : Purged[u] # Absent => Purged[u] = logins[u]
  BY PurgedIsPart
<1> DEFINE stepped == [Purged[t] EXCEPT !.mfa = now]
<1>7. ASSUME Purged[t] # Absent
      PROVE  /\ stepped \in SessionRecord
             /\ stepped.expires = Purged[t].expires /\ stepped.mfa = now
  BY <1>1, <1>5, <1>6, <1>7 DEF SessionRecord
<1>8. \A u \in Token :
        logins'[u] = IF u = t /\ Purged[u] # Absent THEN stepped ELSE Purged[u]
  BY <1>1, <1>4, <1>6
<1>9. logins' \in [Token -> SessionRecord \cup {Absent}]
  <2>1. (IF Purged[t] = Absent THEN Purged[t] ELSE stepped) \in SessionRecord \cup {Absent}
    BY <1>7
  <2>2. QED
    BY <1>1, <1>4, <1>6, <2>1
<1>10. \A u \in Token :
        /\ seen'[u] \in [drawn : Time \cup {Absent}, stepped : Time \cup {Absent}, ended : BOOLEAN]
        /\ seen'[u].drawn = seen[u].drawn
        /\ seen'[u].stepped = IF u = t /\ Purged[t] # Absent THEN now ELSE seen[u].stepped
        /\ seen'[u].ended = (seen[u].ended \/ (logins[u] # Absent /\ Purged[u] = Absent))
  BY <1>4, <1>5
<1>11. seen' \in [Token -> [drawn : Time \cup {Absent}, stepped : Time \cup {Absent}, ended : BOOLEAN]]
  BY <1>4, <1>10
<1> HIDE DEF stepped
<1>12. SessionsOK'
  <2> SUFFICES ASSUME NEW u \in Token, logins'[u] # Absent
               PROVE  /\ ~seen'[u].ended
                      /\ seen'[u].drawn \in Time
                      /\ logins'[u].expires = seen'[u].drawn + SessionTtl
                      /\ logins'[u].mfa = seen'[u].stepped
    BY DEF SessionsOK, Time
  <2>1. Purged[u] # Absent /\ Purged[u] = logins[u]
    BY <1>6, <1>8
  <2>2. seen'[u].ended = seen[u].ended /\ seen'[u].drawn = seen[u].drawn
    BY <1>5, <1>10, <2>1
  <2>3. /\ ~seen[u].ended /\ seen[u].drawn \in Time
        /\ logins[u].expires = seen[u].drawn + SessionTtl /\ logins[u].mfa = seen[u].stepped
    BY <1>5, <2>1 DEF SessionsOK
  <2>4. logins'[u].expires = logins[u].expires /\ logins'[u].mfa = seen'[u].stepped
    BY <1>7, <1>8, <1>10, <2>1, <2>3
  <2>5. QED
    BY <2>2, <2>3, <2>4
<1>13. QED
  BY <1>2, <1>3, <1>9, <1>11, <1>12 DEF AccountsInv, AccountsTypeOK

LEMMA TickStep ==
    ASSUME AccountsInv, Tick
    PROVE  AccountsInv'
<1>1. now \in Time /\ now' \in Time /\ now <= now' /\ now \in Nat /\ now' \in Nat
  BY DEF Tick, ClockTicks, AccountsInv, AccountsTypeOK, Time
<1>2. UNCHANGED <<users, logins, bucket, req, admitted, seen>>
  BY DEF Tick
<1>3. LimitersOK'
  <2> SUFFICES ASSUME NEW l \in Limiter, NEW e \in Email
               PROVE  Remembers(admitted[l][e], bucket[l][e], now')
    BY <1>2 DEF LimitersOK
  <2>1. admitted[l][e] \in Seq(Nat) /\ bucket[l][e] \in Seq(Nat)
    BY TimesAreNat DEF AccountsInv, AccountsTypeOK
  <2>2. QED
    BY <1>1, <2>1, RememberedLater DEF AccountsInv, LimitersOK
<1>4. QED
  BY <1>1, <1>2, <1>3 DEF AccountsInv, AccountsTypeOK, RequestsOK, SessionsOK

LEMMA UpsertUserStep ==
    ASSUME AccountsInv, NEW e \in Email, NEW p \in Password, NEW r \in UserRole, UpsertUser(e, p, r)
    PROVE  AccountsInv'
<1>1. users' \in [Email -> Account \cup {Absent}]
  BY DEF UpsertUser, AccountsInv, AccountsTypeOK, Account
<1>2. QED
  BY <1>1 DEF UpsertUser, AccountsInv, AccountsTypeOK, RequestsOK, SessionsOK, LimitersOK

-----------------------------------------------------------------------------
LEMMA AccountsInvariant == AccountsSpec => []AccountsInv
<1>1. AccountsInit => AccountsInv
  <2> SUFFICES ASSUME AccountsInit PROVE AccountsInv
    OBVIOUS
  <2>1. AccountsTypeOK
    BY IdleRequest, EmptySeq DEF AccountsInit, AccountsTypeOK, EmptyStore, NewBuckets, Time, Unseen
  <2>2. RequestsOK /\ SessionsOK
    BY IdleRequest DEF AccountsInit, EmptyStore, RequestsOK, SessionsOK
  <2>3. LimitersOK
    <3> SUFFICES ASSUME NEW l \in Limiter, NEW e \in Email
                 PROVE  Remembers(admitted[l][e], bucket[l][e], now)
      BY DEF LimitersOK
    <3>1. admitted[l][e] = <<>> /\ bucket[l][e] = <<>>
      BY DEF AccountsInit, NewBuckets
    <3>2. QED
      BY <3>1 DEF Remembers, Spread
  <2>4. QED
    BY <2>1, <2>2, <2>3 DEF AccountsInv
<1>2. AccountsInv /\ [AccountsNext]_accountVars => AccountsInv'
  <2> SUFFICES ASSUME AccountsInv, [AccountsNext]_accountVars PROVE AccountsInv'
    OBVIOUS
  <2>1. CASE UNCHANGED accountVars
    BY <2>1 DEF accountVars, AccountsInv, AccountsTypeOK, RequestsOK, SessionsOK, LimitersOK
  <2>2. QED
    BY <2>1, TickStep, UpsertUserStep, LoginAttemptStep, LoginStep, SessionsGoSteps, MfaAttemptStep,
       StepUpStep DEF AccountsNext
<1>3. QED
  BY <1>1, <1>2, PTL DEF AccountsSpec

(* AuthService's maps and the limiters' buckets keep their shape.           *)
THEOREM AccountsTypeCorrect == AccountsSpec => []AccountsTypeOK
<1>1. AccountsInv => AccountsTypeOK
  BY DEF AccountsInv
<1>2. QED
  BY <1>1, AccountsInvariant, PTL

(* check_and_record: whatever was refused, popped or counted in between, in *)
(* no window more than MaxAttempts attempts of one address are let pass.    *)
THEOREM LimitersSpreadAttempts == AccountsSpec => []AttemptsSpread
<1>1. AccountsInv => AttemptsSpread
  BY DEF AccountsInv, LimitersOK, Remembers, AttemptsSpread
<1>2. QED
  BY <1>1, AccountsInvariant, PTL

(* logout, the purge and record_mfa_success: an ended session stays ended.  *)
THEOREM EndedSessionsStayEnded == AccountsSpec => []EndedStaysEnded
<1>1. AccountsInv => EndedStaysEnded
  BY DEF AccountsInv, SessionsOK, EndedStaysEnded
<1>2. QED
  BY <1>1, AccountsInvariant, PTL

(* authorize_terminal_request: what it grants a terminal to is at that      *)
(* moment a live session, itself stepped up within RecentMfaTtl.            *)
THEOREM TerminalsGrantedFresh == AccountsSpec => GrantsAreFresh
<1> DEFINE Fresh ==
      \A c \in Caller :
        RequireStepUp /\ At(c, "terminal") /\ req'[c].pc = "creating" =>
            LET h == seen[req[c].token] IN
            /\ ~h.ended
            /\ now < h.drawn + SessionTtl
            /\ h.stepped # Absent
            /\ now <= h.stepped + RecentMfaTtl
<1>1. AccountsInv /\ [AccountsNext]_accountVars => [Fresh]_accountVars
  <2> SUFFICES ASSUME AccountsInv, AccountsNext,
                      NEW c \in Caller, RequireStepUp, At(c, "terminal"), req'[c].pc = "creating"
               PROVE  LET h == seen[req[c].token] IN
                      /\ ~h.ended
                      /\ now < h.drawn + SessionTtl
                      /\ h.stepped # Absent
                      /\ now <= h.stepped + RecentMfaTtl
    OBVIOUS
  <2> DEFINE t == req[c].token
  <2>1. t \in Token /\ SessionsOK /\ now \in Nat
    BY DEF At, AccountsInv, AccountsTypeOK, RequestsOK, Time
  <2>2. HasRecentMfa(t)
    <3>1. req \in [Caller -> Request]
      BY DEF AccountsInv, AccountsTypeOK
    <3>2. Authorize(c) => HasRecentMfa(t)
      BY <3>1 DEF Authorize, Answer, Idle
    <3>3. Authorize(c)
      BY <3>1, ZenonT(40) DEF AccountsNext, Tick, UpsertUser, LoginAttempt, Limited, Login, Enter, Logout,
                  MfaAttempt, StepUp, Authorize, CreationAttempt, Answer, Goto, At, Idle
    <3>4. QED
      BY <3>2, <3>3
  <2>3. Purged[t] # Absent /\ Purged[t] = logins[t] /\ logins[t].expires > now
        /\ logins[t].mfa # Absent /\ now - logins[t].mfa <= RecentMfaTtl
    BY <2>1, <2>2, PurgedIsPart DEF HasRecentMfa
  <2>4. logins[t].mfa \in Nat
    BY <2>1, <2>3, PurgedIsPart DEF SessionRecord, Time
  <2>5. QED
    BY <2>1, <2>3, <2>4 DEF SessionsOK, Time
<1>2. QED
  BY <1>1, AccountsInvariant, PTL DEF AccountsSpec, GrantsAreFresh

-----------------------------------------------------------------------------
(* Factors *)

USE FactorsAssumption, ClockAssumption DEF FactorsAssumption, ClockAssumption

-----------------------------------------------------------------------------
(* What an operation k carries from one lock to the next: its factor is one *)
(* of its user, its challenge a challenge.                                  *)
Carries(k) ==
    /\ k.pc # "idle" => k.person \in Person
    /\ k.pc \in {"store", "redeem", "secret", "totp"} =>
          k.factor \in FactorId /\ k.factor[1] = k.person
    /\ k.pc \in {"passkey_factor", "credential"} => k.item \in Challenge
    /\ k.pc = "ask" => k.item \in SUBSET Challenge

CallsOK == call \in [Caller -> Operation] /\ \A c \in Caller : Carries(call[c])

StoresOK ==
    /\ period \in Elapsed
    /\ factors \in [Person -> Seq(FactorType)]
    /\ \A u \in Person : Len(factors[u]) <= MaxFactors
    /\ secrets \in SUBSET FactorId
    /\ codes \in [FactorId -> SUBSET Code]
    /\ pending \in [Challenge -> Person \cup {Absent}]
    /\ asked \in [Challenge -> SUBSET Challenge]
    /\ credentials \in Seq(Person \X Challenge)
    /\ owner \in [Code \cup Challenge -> Person \cup {Absent}]
    /\ replaced \in SUBSET Code
    /\ redeemed \in Seq(Person \X Code)
    /\ passed \in SUBSET (TotpCode \X Elapsed)

(* An unused code is its owner's, in one factor, and neither redeemed nor   *)
(* replaced; what was redeemed or replaced had been handed out.             *)
CodesOK ==
    /\ \A f \in FactorId : \A k \in codes[f] :
          /\ owner[k] = f[1] /\ k \notin replaced
          /\ \A g \in FactorId : k \in codes[g] => g = f
          /\ \A i \in DOMAIN redeemed : redeemed[i][2] # k
    /\ \A k \in replaced : owner[k] # Absent
    /\ RedeemedOnce

(* A pending challenge is its owner's and has made no passkey.              *)
ChallengesOK ==
    /\ \A x \in Challenge : pending[x] # Absent =>
          owner[x] = pending[x] /\ \A i \in DOMAIN credentials : credentials[i][2] # x
    /\ OneCredentialPerChallenge

FactorsInv == CallsOK /\ StoresOK /\ CodesOK /\ ChallengesOK

LEMMA FactorsHaveOwners == \A f \in FactorId : f[1] \in Person
  BY DEF FactorId

LEMMA TypesFollow == FactorsInv => FactorsTypeOK
  BY DEF FactorsInv, CallsOK, StoresOK, FactorsTypeOK

-----------------------------------------------------------------------------
(* Calls                                                                    *)
(* What an operation may hold between its locks.                            *)
LEMMA Items ==
    /\ Absent \in Item
    /\ \A x \in Code \cup Challenge : x \in Item
    /\ \A x \in SUBSET Challenge : x \in Item
<1>1. Absent \in {Absent}
  BY Zenon
<1>2. QED
  BY <1>1, Zenon DEF Item

LEMMA Proceeds ==
    ASSUME CallsOK, NEW c \in Caller, NEW k \in Operation, Carries(k),
           call' = [call EXCEPT ![c] = k]
    PROVE  CallsOK'
<1>1. call' \in [Caller -> Operation]
  BY DEF CallsOK
<1>2. ASSUME NEW d \in Caller PROVE Carries(call'[d])
  BY DEF CallsOK
<1>3. QED
  BY <1>1, <1>2 DEF CallsOK, Carries

LEMMA Returns ==
    ASSUME CallsOK, NEW c \in Caller, Return(c)
    PROVE  CallsOK'
<1>1. Nothing \in Operation
  BY Items DEF Nothing, Operation
<1>2. Carries(Nothing)
  BY DEF Nothing, Carries
<1>3. QED
  BY <1>1, <1>2, Proceeds DEF Return

(* The factor of a user's list that find returns is one of the user's.      *)
LEMMA FoundFactors ==
    ASSUME StoresOK, NEW u \in Person
    PROVE  /\ \A type : \A f \in First(u, type) : f \in FactorId /\ f[1] = u
           /\ \A f \in FirstWithSecret(u) : f \in FactorId /\ f[1] = u
<1>1. \A j \in DOMAIN factors[u] : <<u, j>> \in FactorId
  <2>1. factors[u] \in Seq(FactorType) /\ Len(factors[u]) <= MaxFactors
    BY DEF StoresOK
  <2>2. DOMAIN factors[u] = 1 .. Len(factors[u]) /\ Len(factors[u]) \in Nat
    BY <2>1
  <2>3. QED
    BY <2>1, <2>2 DEF FactorId
<1>2. ASSUME NEW type, NEW f \in First(u, type) PROVE f \in FactorId /\ f[1] = u
  <2>1. PICK j \in DOMAIN factors[u] : f = <<u, j>>
    BY DEF First, FactorsOf
  <2>2. QED
    BY <1>1, <2>1
<1>3. ASSUME NEW f \in FirstWithSecret(u) PROVE f \in FactorId /\ f[1] = u
  <2>1. PICK j \in DOMAIN factors[u] : f = <<u, j>>
    BY DEF FirstWithSecret
  <2>2. QED
    BY <1>1, <2>1
<1>4. QED
  BY <1>2, <1>3

(* Only the operation under way changes, to one that carries what it must.  *)
LEMMA OnlyCallSteps ==
    ASSUME FactorsInv, NEW c \in Caller, NEW u \in Person,
           \/ Regenerate(c, u) \/ VerifyTotp(c, u) \/ BeginAuthentication(c, u)
           \/ \E k \in Code : VerifyRecoveryCode(c, u, k)
           \/ \E x \in Challenge : RegisterPasskey(c, u, x)
    PROVE  FactorsInv'
<1>1. ASSUME NEW pc \in {"generate", "store", "redeem", "totp", "passkey_factor", "credential", "ask"},
             NEW f \in FactorId \cup {Absent},
             NEW x \in Item,
             pc \in {"store", "redeem", "totp"} => f \in FactorId /\ f[1] = u,
             pc \in {"passkey_factor", "credential"} => x \in Challenge,
             pc = "ask" => x \in SUBSET Challenge,
             Proceed(c, pc, u, f, x)
      PROVE  CallsOK'
  <2> DEFINE k == [pc |-> pc, person |-> u, factor |-> f, item |-> x]
  <2>1. k \in Operation
    BY DEF Operation
  <2>2. Carries(k)
    BY <1>1 DEF Carries
  <2>3. QED
    BY <1>1, <2>1, <2>2, Proceeds DEF Proceed, FactorsInv
<1>2. StoresOK
  BY DEF FactorsInv
<1>3. ASSUME Regenerate(c, u) PROVE CallsOK'
  <2>1. CASE First(u, "RecoveryCode") = {}
    BY <1>1, <1>3, <2>1, Items DEF Regenerate
  <2>2. ASSUME NEW f \in First(u, "RecoveryCode"), Proceed(c, "store", u, f, Absent)
        PROVE  CallsOK'
    <3>1. f \in FactorId /\ f[1] = u
      BY <1>2, FoundFactors
    <3>2. QED
      BY <1>1, <2>2, <3>1, Items
  <2>3. QED
    BY <1>3, <2>1, <2>2 DEF Regenerate
<1>4. ASSUME VerifyTotp(c, u) PROVE CallsOK'
  <2>1. PICK f \in FirstWithSecret(u) : Proceed(c, "totp", u, f, Absent)
    BY <1>4 DEF VerifyTotp
  <2>2. f \in FactorId /\ f[1] = u
    BY <1>2, FoundFactors
  <2>3. QED
    BY <1>1, <2>1, <2>2, Items
<1>5. ASSUME BeginAuthentication(c, u) PROVE CallsOK'
  <2> DEFINE own == {x \in Challenge : \E i \in DOMAIN credentials : credentials[i] = <<u, x>>}
  <2>1. own \in SUBSET Challenge /\ own \in Item
    BY Items
  <2>2. Proceed(c, "ask", u, Absent, own)
    BY <1>5 DEF BeginAuthentication
  <2> HIDE DEF own
  <2>3. QED
    BY <1>1, <2>1, <2>2
<1>6. ASSUME NEW k \in Code, VerifyRecoveryCode(c, u, k) PROVE CallsOK'
  BY <1>1, <1>2, <1>6, FoundFactors, Items DEF VerifyRecoveryCode
<1>7. ASSUME NEW x \in Challenge, RegisterPasskey(c, u, x) PROVE CallsOK'
  BY <1>1, <1>7, Items DEF RegisterPasskey
<1>8. UNCHANGED <<period, factors, secrets, codes, pending, asked, credentials, owner, replaced,
                  redeemed, passed>>
  BY DEF Regenerate, VerifyTotp, BeginAuthentication, VerifyRecoveryCode, RegisterPasskey, OnlyCall
<1>9. (StoresOK /\ CodesOK /\ ChallengesOK)'
  BY <1>8 DEF FactorsInv, StoresOK, CodesOK, ChallengesOK, RedeemedOnce, OneCredentialPerChallenge
<1>10. QED
  BY <1>3, <1>4, <1>5, <1>6, <1>7, <1>9 DEF FactorsInv

(* enroll_factor lengthens the list of its user; the call goes on with the  *)
(* new factor.                                                              *)
LEMMA EnrollSteps ==
    ASSUME FactorsInv, NEW c \in Caller, NEW u \in Person, NEW type \in FactorType,
           NEW pc \in {"store", "secret", "credential"}, NEW x \in Item,
           pc = "credential" => x \in Challenge, Enroll(c, u, type, pc, x)
    PROVE  FactorsInv'
<1> DEFINE f == <<u, Len(factors[u]) + 1>>
           k == [pc |-> pc, person |-> u, factor |-> f, item |-> x]
<1>1. StoresOK /\ factors[u] \in Seq(FactorType) /\ Len(factors[u]) \in Nat
  BY DEF FactorsInv, StoresOK
<1>2. f \in FactorId /\ f[1] = u
  BY <1>1 DEF FactorId, Enroll
<1>3. CallsOK'
  <2>1. k \in Operation
    BY <1>2 DEF Operation
  <2>2. Carries(k)
    BY <1>2 DEF Carries
  <2>3. QED
    BY <2>1, <2>2, Proceeds DEF Enroll, Proceed, FactorsInv
<1>4. StoresOK'
  <2> DEFINE list == Append(factors[u], type)
  <2>1. list \in Seq(FactorType) /\ Len(list) = Len(factors[u]) + 1
    BY <1>1
  <2>2. Len(list) <= MaxFactors
    BY <1>1, <2>1 DEF Enroll
  <2>3. factors' = [factors EXCEPT ![u] = list]
    BY DEF Enroll
  <2> HIDE DEF list
  <2>4. factors' \in [Person -> Seq(FactorType)] /\ \A v \in Person : Len(factors'[v]) <= MaxFactors
    BY <1>1, <2>1, <2>2, <2>3 DEF StoresOK
  <2>5. QED
    BY <1>1, <2>4 DEF Enroll, StoresOK
<1>5. (CodesOK /\ ChallengesOK)'
  BY DEF Enroll, FactorsInv, CodesOK, ChallengesOK, RedeemedOnce, OneCredentialPerChallenge
<1>6. QED
  BY <1>3, <1>4, <1>5 DEF FactorsInv

-----------------------------------------------------------------------------
(* What is handed out keeps its owner, so what does not touch the codes, or *)
(* the challenges, keeps what is known of them.                             *)
LEMMA CodesKept ==
    ASSUME StoresOK, CodesOK, UNCHANGED <<codes, replaced, redeemed>>,
           \A x \in Code \cup Challenge : owner[x] # Absent => owner'[x] = owner[x]
    PROVE  CodesOK'
<1>1. \A f \in FactorId : \A k \in codes[f] : owner'[k] = f[1]
  BY FactorsHaveOwners DEF StoresOK, CodesOK
<1>2. \A k \in replaced : owner'[k] # Absent
  BY DEF StoresOK, CodesOK
<1>3. RedeemedOnce'
  <2>1. redeemed \in Seq(Person \X Code)
    BY DEF StoresOK
  <2>2. \A i \in DOMAIN redeemed : redeemed[i] \in Person \X Code
    BY <2>1
  <2>3. \A i \in DOMAIN redeemed : owner'[redeemed[i][2]] = redeemed[i][1]
    BY <2>2 DEF CodesOK, RedeemedOnce
  <2>4. QED
    BY <2>3 DEF CodesOK, RedeemedOnce
<1>4. QED
  BY <1>1, <1>2, <1>3 DEF CodesOK

LEMMA ChallengesKept ==
    ASSUME StoresOK, ChallengesOK, UNCHANGED <<pending, credentials>>,
           \A x \in Code \cup Challenge : owner[x] # Absent => owner'[x] = owner[x]
    PROVE  ChallengesOK'
<1>1. credentials \in Seq(Person \X Challenge)
  BY DEF StoresOK
<1>2. \A i \in DOMAIN credentials : credentials[i] \in Person \X Challenge
  BY <1>1
<1>3. \A i \in DOMAIN credentials : owner'[credentials[i][2]] = credentials[i][1]
  BY <1>2 DEF ChallengesOK, OneCredentialPerChallenge
<1>4. \A x \in Challenge : pending[x] # Absent => owner'[x] = pending[x]
  BY DEF ChallengesOK
<1>5. QED
  BY <1>3, <1>4 DEF ChallengesOK, OneCredentialPerChallenge

-----------------------------------------------------------------------------
(* Recovery codes                                                           *)
LEMMA StoreCodesStep ==
    ASSUME FactorsInv, NEW c \in Caller, StoreCodes(c)
    PROVE  FactorsInv'
<1> DEFINE f == call[c].factor
           u == call[c].person
<1>1. f \in FactorId /\ f[1] = u /\ u \in Person
  BY DEF FactorsInv, CallsOK, Carries, StoreCodes, Calling
<1>2. StoresOK /\ CodesOK /\ ChallengesOK
  BY DEF FactorsInv
<1>3. PICK batch \in Batches :
        /\ codes' = [codes EXCEPT ![f] = batch]
        /\ owner' = [x \in DOMAIN owner |-> IF x \in batch THEN u ELSE owner[x]]
        /\ replaced' = replaced \cup codes[f]
  BY DEF StoreCodes
<1>4. batch \subseteq Code /\ \A k \in batch : owner[k] = Absent
  BY DEF Batches, NewCodes
<1>5. UNCHANGED <<period, factors, secrets, pending, asked, credentials, redeemed, passed>>
  BY DEF StoreCodes
<1> HIDE DEF f, u
<1>6. StoresOK'
  BY <1>1, <1>2, <1>3, <1>4, <1>5 DEF StoresOK
<1>7. \A x \in Code \cup Challenge : owner[x] # Absent => owner'[x] = owner[x]
  BY <1>2, <1>3, <1>4 DEF StoresOK
<1>8. \A k \in batch : owner'[k] = u /\ owner'[k] # Absent
  BY <1>1, <1>2, <1>3, <1>4 DEF StoresOK
<1>9. \A i \in DOMAIN redeemed :
        redeemed[i][2] \in Code /\ redeemed[i][1] \in Person
        /\ owner[redeemed[i][2]] = redeemed[i][1] /\ redeemed[i][2] \notin batch
  <2>1. redeemed \in Seq(Person \X Code)
    BY <1>2 DEF StoresOK
  <2>2. \A i \in DOMAIN redeemed : redeemed[i] \in Person \X Code
    BY <2>1
  <2>3. QED
    BY <1>2, <1>4, <2>2 DEF CodesOK, RedeemedOnce
<1>10. \A g \in FactorId : g # f => codes'[g] = codes[g]
  BY <1>2, <1>3 DEF StoresOK
<1>11. codes'[f] = batch
  BY <1>1, <1>2, <1>3 DEF StoresOK
<1>12. \A g \in FactorId : \A k \in codes[g] : k \in Code /\ owner[k] # Absent /\ k \notin batch
  <2>1. ASSUME NEW g \in FactorId, NEW k \in codes[g] PROVE k \in Code /\ owner[k] # Absent
    <3>1. k \in Code
      BY <1>2 DEF StoresOK
    <3>2. owner[k] = g[1] /\ g[1] # Absent
      BY <1>2, FactorsHaveOwners DEF CodesOK
    <3>3. QED
      BY <3>1, <3>2
  <2>2. QED
    BY <1>4, <2>1
<1>13. CodesOK'
  <2>1. ASSUME NEW g \in FactorId, NEW k \in codes'[g]
        PROVE  /\ owner'[k] = g[1] /\ k \notin replaced'
               /\ \A h \in FactorId : k \in codes'[h] => h = g
               /\ \A i \in DOMAIN redeemed' : redeemed'[i][2] # k
    <3>1. CASE g = f
      <4>1. k \in batch /\ owner[k] = Absent
        BY <1>4, <1>11, <2>1, <3>1
      <4>2. k \notin replaced'
        BY <1>1, <1>2, <1>3, <1>12, <4>1 DEF CodesOK
      <4>3. QED
        BY <1>1, <1>5, <1>8, <1>9, <1>10, <1>12, <3>1, <4>1, <4>2
    <3>2. CASE g # f
      <4>1. k \in codes[g] /\ k \notin codes[f] /\ k \notin batch
        BY <1>1, <1>2, <1>10, <1>12, <2>1, <3>2 DEF CodesOK
      <4>2. QED
        BY <1>2, <1>3, <1>5, <1>7, <1>10, <1>11, <1>12, <4>1 DEF CodesOK
    <3>3. QED
      BY <3>1, <3>2
  <2>2. \A k \in replaced' : owner'[k] # Absent
    BY <1>1, <1>2, <1>3, <1>7, <1>12 DEF CodesOK, StoresOK
  <2>3. RedeemedOnce'
    BY <1>2, <1>5, <1>7, <1>9 DEF CodesOK, RedeemedOnce
  <2>4. QED
    BY <2>1, <2>2, <2>3 DEF CodesOK
<1>14. ChallengesOK'
  BY <1>2, <1>5, <1>7, ChallengesKept
<1>15. CallsOK'
  BY Returns DEF FactorsInv, StoreCodes
<1>16. QED
  BY <1>6, <1>13, <1>14, <1>15 DEF FactorsInv

LEMMA RedeemStep ==
    ASSUME FactorsInv, NEW c \in Caller, Redeem(c)
    PROVE  FactorsInv'
<1> DEFINE f == call[c].factor
           k == call[c].item
           u == call[c].person
<1>1. f \in FactorId /\ f[1] = u /\ u \in Person
  BY DEF FactorsInv, CallsOK, Carries, Redeem, Calling
<1>2. StoresOK /\ CodesOK /\ ChallengesOK /\ redeemed \in Seq(Person \X Code)
  BY DEF FactorsInv, StoresOK
<1>3. /\ codes' = [codes EXCEPT ![f] = @ \ {k}]
      /\ redeemed' = IF k \in codes[f] THEN Append(redeemed, <<u, k>>) ELSE redeemed
      /\ UNCHANGED <<period, factors, secrets, pending, asked, credentials, owner, replaced, passed>>
  BY DEF Redeem
<1> HIDE DEF f, k, u
<1>4. \A g \in FactorId : codes'[g] = IF g = f THEN codes[g] \ {k} ELSE codes[g]
  BY <1>2, <1>3 DEF StoresOK
<1>5. codes' \in [FactorId -> SUBSET Code]
  BY <1>2, <1>3 DEF StoresOK
<1>6. ASSUME k \in codes[f] PROVE redeemed' \in Seq(Person \X Code) /\ CodesOK'
  <2> DEFINE n == Len(redeemed)
  <2>1. k \in Code /\ <<u, k>> \in Person \X Code /\ n \in Nat
    BY <1>1, <1>2, <1>6 DEF StoresOK
  <2>2. /\ redeemed' \in Seq(Person \X Code) /\ Len(redeemed') = n + 1
        /\ \A i \in 1 .. n : redeemed'[i] = redeemed[i]
        /\ redeemed'[n + 1] = <<u, k>>
    BY <1>2, <1>3, <1>6, <2>1, AppendProperties
  <2>3. DOMAIN redeemed = 1 .. n /\ DOMAIN redeemed' = 1 .. n + 1
    BY <1>2, <2>2
  <2>4. owner[k] = u /\ \A i \in 1 .. n : redeemed[i][2] # k
    BY <1>1, <1>2, <1>6, <2>3 DEF CodesOK
  <2>5. RedeemedOnce'
    <3>1. \A i \in 1 .. n + 1 : i \in 1 .. n \/ i = n + 1
      BY <2>1
    <3>2. \A i \in 1 .. n : owner[redeemed[i][2]] = redeemed[i][1]
      BY <1>2, <2>3 DEF CodesOK, RedeemedOnce
    <3>3. \A i, j \in 1 .. n : redeemed[i][2] = redeemed[j][2] => i = j
      BY <1>2, <2>3 DEF CodesOK, RedeemedOnce
    <3>4. redeemed'[n + 1][1] = u /\ redeemed'[n + 1][2] = k
      BY <2>2
    <3>5. \A i \in 1 .. n + 1 : owner'[redeemed'[i][2]] = redeemed'[i][1]
      BY <1>3, <2>2, <2>4, <3>1, <3>2, <3>4
    <3>6. \A i, j \in 1 .. n + 1 : redeemed'[i][2] = redeemed'[j][2] => i = j
      BY <2>2, <2>4, <3>1, <3>3, <3>4
    <3>7. QED
      BY <2>3, <3>5, <3>6 DEF RedeemedOnce
  <2>6. ASSUME NEW g \in FactorId, NEW x \in codes'[g], NEW i \in DOMAIN redeemed'
        PROVE  redeemed'[i][2] # x
    <3>1. x \in codes[g] /\ x # k
      <4>1. codes'[g] = IF g = f THEN codes[g] \ {k} ELSE codes[g]
        BY <1>4
      <4>2. k \in codes[g] => g = f
        BY <1>1, <1>2, <1>6 DEF CodesOK
      <4>3. QED
        BY <2>6, <4>1, <4>2
    <3>2. \A j \in 1 .. n : redeemed[j][2] # x
      BY <1>2, <2>3, <3>1 DEF CodesOK
    <3>3. redeemed'[n + 1][2] = k
      BY <2>2
    <3>4. i \in 1 .. n \/ i = n + 1
      BY <2>1, <2>3, <2>6
    <3>5. QED
      BY <2>2, <3>1, <3>2, <3>3, <3>4
  <2>7. \A g \in FactorId : \A x \in codes'[g] : x \in codes[g]
    BY <1>4
  <2>8. CodesOK'
    BY <1>2, <1>3, <2>5, <2>6, <2>7 DEF CodesOK
  <2>9. QED
    BY <2>2, <2>8
<1>7. ASSUME k \notin codes[f] PROVE redeemed' \in Seq(Person \X Code) /\ CodesOK'
  <2>1. codes' = codes /\ redeemed' = redeemed
    BY <1>2, <1>3, <1>7 DEF StoresOK
  <2>2. QED
    BY <1>2, <1>3, <2>1, CodesKept
<1>8. (StoresOK /\ CodesOK)'
  BY <1>2, <1>3, <1>5, <1>6, <1>7 DEF StoresOK
<1>9. ChallengesOK'
  BY <1>2, <1>3, ChallengesKept
<1>10. CallsOK'
  BY Returns DEF FactorsInv, Redeem
<1>11. QED
  BY <1>8, <1>9, <1>10 DEF FactorsInv

-----------------------------------------------------------------------------
(* Challenges                                                               *)
LEMMA ChallengeSteps ==
    ASSUME FactorsInv,
           \/ \E u \in Person, x \in Challenge : BeginRegistration(u, x)
           \/ \E c \in Caller : StoreAuthentication(c)
    PROVE  FactorsInv'
<1>1. CallsOK /\ StoresOK /\ CodesOK /\ ChallengesOK
  BY DEF FactorsInv
<1>2. ASSUME NEW u \in Person, NEW x \in Challenge, BeginRegistration(u, x)
      PROVE  FactorsInv'
  <2>1. owner[x] = Absent /\ owner' = [owner EXCEPT ![x] = u] /\ pending' = [pending EXCEPT ![x] = u]
    BY <1>2 DEF BeginRegistration, NewChallenges
  <2>2. UNCHANGED <<period, factors, secrets, codes, asked, credentials, call, replaced, redeemed, passed>>
    BY <1>2 DEF BeginRegistration
  <2>3. StoresOK'
    BY <1>1, <2>1, <2>2 DEF StoresOK
  <2>4. \A y \in Code \cup Challenge : owner[y] # Absent => owner'[y] = owner[y]
    BY <1>1, <2>1 DEF StoresOK
  <2>5. CodesOK'
    BY <1>1, <2>2, <2>4, CodesKept
  <2>6. \A i \in DOMAIN credentials :
          credentials[i][2] # x /\ owner'[credentials[i][2]] = credentials[i][1]
    <3>1. credentials \in Seq(Person \X Challenge)
      BY <1>1 DEF StoresOK
    <3>2. \A i \in DOMAIN credentials : credentials[i] \in Person \X Challenge
      BY <3>1
    <3>3. QED
      BY <1>1, <2>1, <2>4, <3>2 DEF ChallengesOK, OneCredentialPerChallenge
  <2>7. \A y \in Challenge : pending'[y] # Absent =>
          owner'[y] = pending'[y] /\ \A i \in DOMAIN credentials : credentials[i][2] # y
    BY <1>1, <2>1, <2>4, <2>6 DEF ChallengesOK, StoresOK
  <2>8. ChallengesOK'
    BY <1>1, <2>2, <2>6, <2>7 DEF ChallengesOK, OneCredentialPerChallenge
  <2>9. CallsOK'
    BY <1>1, <2>2 DEF CallsOK, Carries
  <2>10. QED
    BY <2>3, <2>5, <2>8, <2>9 DEF FactorsInv
<1>3. ASSUME NEW c \in Caller, StoreAuthentication(c) PROVE FactorsInv'
  <2> DEFINE u == call[c].person
             own == call[c].item
  <2>1. u \in Person /\ own \in SUBSET Challenge
    BY <1>1, <1>3 DEF CallsOK, Carries, StoreAuthentication, Calling
  <2>2. PICK x \in NewChallenges :
          owner' = [owner EXCEPT ![x] = u] /\ asked' = [asked EXCEPT ![x] = own]
    BY <1>3 DEF StoreAuthentication
  <2>3. x \in Challenge /\ owner[x] = Absent
    BY DEF NewChallenges
  <2>4. UNCHANGED <<period, factors, secrets, codes, pending, credentials, replaced, redeemed, passed>>
    BY <1>3 DEF StoreAuthentication
  <2> HIDE DEF u, own
  <2>5. StoresOK'
    BY <1>1, <2>1, <2>2, <2>3, <2>4 DEF StoresOK
  <2>6. \A y \in Code \cup Challenge : owner[y] # Absent => owner'[y] = owner[y]
    BY <1>1, <2>2, <2>3 DEF StoresOK
  <2>7. CodesOK' /\ ChallengesOK'
    BY <1>1, <2>4, <2>6, CodesKept, ChallengesKept
  <2>8. CallsOK'
    BY <1>1, <1>3, Returns DEF StoreAuthentication
  <2>9. QED
    BY <2>5, <2>7, <2>8 DEF FactorsInv
<1>4. QED
  BY <1>2, <1>3

(* The challenge is consumed whoever presents it, and makes a passkey only  *)
(* of the user it was issued to.                                            *)
LEMMA StoreCredentialStep ==
    ASSUME FactorsInv, NEW c \in Caller, StoreCredential(c)
    PROVE  FactorsInv'
<1> DEFINE u == call[c].person
           x == call[c].item
           n == Len(credentials)
<1>1. CallsOK /\ StoresOK /\ CodesOK /\ ChallengesOK /\ credentials \in Seq(Person \X Challenge)
  BY DEF FactorsInv, StoresOK
<1>2. u \in Person /\ x \in Challenge
  BY <1>1 DEF CallsOK, Carries, StoreCredential, Calling
<1>3. /\ pending' = [pending EXCEPT ![x] = Absent]
      /\ credentials' = IF pending[x] = u THEN Append(credentials, <<u, x>>) ELSE credentials
      /\ UNCHANGED <<period, factors, secrets, codes, asked, owner, replaced, redeemed, passed>>
  BY DEF StoreCredential
<1> HIDE DEF u, x
<1>4. /\ pending' \in [Challenge -> Person \cup {Absent}]
      /\ \A y \in Challenge : pending'[y] = IF y = x THEN Absent ELSE pending[y]
  BY <1>1, <1>2, <1>3 DEF StoresOK
<1>5. ASSUME pending[x] = u
      PROVE  credentials' \in Seq(Person \X Challenge) /\ ChallengesOK'
  <2>1. <<u, x>> \in Person \X Challenge /\ n \in Nat
    BY <1>1, <1>2
  <2>2. /\ credentials' \in Seq(Person \X Challenge) /\ Len(credentials') = n + 1
        /\ \A i \in 1 .. n : credentials'[i] = credentials[i]
        /\ credentials'[n + 1] = <<u, x>>
    BY <1>1, <1>3, <1>5, <2>1, AppendProperties
  <2>3. DOMAIN credentials = 1 .. n /\ DOMAIN credentials' = 1 .. n + 1
    BY <1>1, <2>2
  <2>4. credentials'[n + 1][1] = u /\ credentials'[n + 1][2] = x
    BY <2>2
  <2>5. owner[x] = u /\ \A i \in 1 .. n : credentials[i][2] # x
    BY <1>1, <1>2, <1>5, <2>3 DEF ChallengesOK
  <2>6. \A i \in 1 .. n + 1 : i \in 1 .. n \/ i = n + 1
    BY <2>1
  <2>7. \A i \in 1 .. n : owner[credentials[i][2]] = credentials[i][1]
    BY <1>1, <2>3 DEF ChallengesOK, OneCredentialPerChallenge
  <2>8. \A i, j \in 1 .. n : credentials[i][2] = credentials[j][2] => i = j
    BY <1>1, <2>3 DEF ChallengesOK, OneCredentialPerChallenge
  <2>9. \A i \in 1 .. n + 1 : owner'[credentials'[i][2]] = credentials'[i][1]
    BY <1>3, <2>2, <2>4, <2>5, <2>6, <2>7
  <2>10. \A i, j \in 1 .. n + 1 : credentials'[i][2] = credentials'[j][2] => i = j
    BY <2>2, <2>4, <2>5, <2>6, <2>8
  <2>11. ASSUME NEW y \in Challenge, pending'[y] # Absent
         PROVE  owner'[y] = pending'[y] /\ \A i \in 1 .. n + 1 : credentials'[i][2] # y
    <3>1. y # x /\ pending[y] # Absent /\ pending'[y] = pending[y]
      BY <1>4, <2>11
    <3>2. owner[y] = pending[y] /\ \A i \in 1 .. n : credentials[i][2] # y
      BY <1>1, <2>3, <3>1 DEF ChallengesOK
    <3>3. QED
      BY <1>3, <2>2, <2>4, <2>6, <3>1, <3>2
  <2>12. QED
    BY <2>2, <2>3, <2>9, <2>10, <2>11 DEF ChallengesOK, OneCredentialPerChallenge
<1>6. ASSUME pending[x] # u
      PROVE  credentials' \in Seq(Person \X Challenge) /\ ChallengesOK'
  <2>1. credentials' = credentials /\ owner' = owner
    BY <1>3, <1>6
  <2>2. QED
    BY <1>1, <1>4, <2>1 DEF ChallengesOK, OneCredentialPerChallenge
<1>7. (StoresOK /\ ChallengesOK)'
  BY <1>1, <1>3, <1>4, <1>5, <1>6 DEF StoresOK
<1>8. CodesOK'
  BY <1>1, <1>3, CodesKept
<1>9. CallsOK'
  BY <1>1, Returns DEF StoreCredential
<1>10. QED
  BY <1>7, <1>8, <1>9 DEF FactorsInv

(* What touches neither codes nor challenges.                               *)
LEMMA OtherSteps ==
    ASSUME FactorsInv, NEW c \in Caller, InsertSecret(c) \/ CheckTotp(c)
    PROVE  FactorsInv'
<1>1. CallsOK /\ StoresOK /\ CodesOK /\ ChallengesOK
  BY DEF FactorsInv
<1>2. UNCHANGED <<period, factors, codes, pending, asked, credentials, owner, replaced, redeemed>>
  BY DEF InsertSecret, CheckTotp
<1>3. CodesOK' /\ ChallengesOK' /\ CallsOK'
  BY <1>1, <1>2, CodesKept, ChallengesKept, Returns DEF InsertSecret, CheckTotp
<1>4. secrets' \in SUBSET FactorId
  <2>1. InsertSecret(c) => call[c].factor \in FactorId
    BY <1>1 DEF InsertSecret, Calling, CallsOK, Carries
  <2>2. CheckTotp(c) => UNCHANGED secrets
    BY DEF CheckTotp
  <2>3. InsertSecret(c) => secrets' = secrets \cup {call[c].factor}
    BY DEF InsertSecret
  <2>4. QED
    BY <1>1, <2>1, <2>2, <2>3 DEF StoresOK
<1>5. passed' \in SUBSET (TotpCode \X Elapsed)
  <2>1. CASE InsertSecret(c)
    BY <1>1, <2>1 DEF InsertSecret, StoresOK
  <2>2. CASE CheckTotp(c)
    <3>1. call[c].factor \in FactorId
      BY <1>1, <2>2 DEF CheckTotp, Calling, CallsOK, Carries
    <3>2. PICK n \in Counter :
            passed' = passed \/ passed' = passed \cup {<<<<call[c].factor, n>>, period>>}
      BY <2>2 DEF CheckTotp
    <3>3. <<<<call[c].factor, n>>, period>> \in TotpCode \X Elapsed
      BY <1>1, <3>1 DEF StoresOK, TotpCode
    <3>4. QED
      BY <1>1, <3>2, <3>3 DEF StoresOK
  <2>3. QED
    BY <2>1, <2>2
<1>6. StoresOK'
  BY <1>1, <1>2, <1>4, <1>5 DEF StoresOK
<1>7. QED
  BY <1>3, <1>6 DEF FactorsInv

-----------------------------------------------------------------------------
LEMMA FactorsInvariant == FactorsSpec => []FactorsInv
<1>1. FactorsInit => FactorsInv
  <2> SUFFICES ASSUME FactorsInit PROVE FactorsInv
    OBVIOUS
  <2>1. Nothing \in Operation /\ Carries(Nothing)
    BY Items DEF Nothing, Operation, Carries
  <2>2. CallsOK
    BY <2>1 DEF FactorsInit, CallsOK
  <2>3. StoresOK
    BY FactorsAssumption DEF FactorsInit, StoresOK, Elapsed
  <2>4. CodesOK /\ ChallengesOK
    BY DEF FactorsInit, CodesOK, ChallengesOK, RedeemedOnce, OneCredentialPerChallenge
  <2>5. QED
    BY <2>2, <2>3, <2>4 DEF FactorsInv
<1>2. FactorsInv /\ [FactorsNext]_factorVars => FactorsInv'
  <2> SUFFICES ASSUME FactorsInv, [FactorsNext]_factorVars PROVE FactorsInv'
    OBVIOUS
  <2>1. CASE UNCHANGED factorVars
    BY <2>1 DEF factorVars, FactorsInv, CallsOK, Carries, StoresOK, CodesOK, ChallengesOK,
                RedeemedOnce, OneCredentialPerChallenge
  <2>2. CASE PeriodEnds
    <3>1. period' \in Elapsed
      BY <2>2, FactorsAssumption DEF PeriodEnds, FactorsInv, StoresOK, Elapsed
    <3>2. UNCHANGED <<factors, secrets, codes, pending, asked, credentials, call, owner, replaced,
                      redeemed, passed>>
      BY <2>2 DEF PeriodEnds
    <3>3. (CallsOK /\ StoresOK)'
      BY <3>1, <3>2 DEF FactorsInv, CallsOK, Carries, StoresOK
    <3>4. CodesOK' /\ ChallengesOK'
      BY <3>2, CodesKept, ChallengesKept DEF FactorsInv
    <3>5. QED
      BY <3>3, <3>4 DEF FactorsInv
  <2>3. ASSUME NEW c \in Caller, NEW u \in Person, Generate(c, u) \/ EnrollTotp(c, u)
        PROVE  FactorsInv'
    BY <2>3, EnrollSteps, Items DEF Generate, EnrollTotp, FactorType
  <2>4. ASSUME NEW c \in Caller, EnrollPasskeyFactor(c) PROVE FactorsInv'
    <3>1. call[c].person \in Person /\ call[c].item \in Challenge
      BY <2>4 DEF FactorsInv, CallsOK, Carries, EnrollPasskeyFactor, Calling
    <3>2. QED
      BY <2>4, <3>1, EnrollSteps, Items DEF EnrollPasskeyFactor, FactorType
  <2>5. QED
    BY <2>1, <2>2, <2>3, <2>4, OnlyCallSteps, StoreCodesStep, RedeemStep, ChallengeSteps,
       StoreCredentialStep, OtherSteps DEF FactorsNext
<1>3. QED
  BY <1>1, <1>2, PTL DEF FactorsSpec

(* AuthService's maps keep their shape, whatever overlaps.                  *)
THEOREM FactorsTypeCorrect == FactorsSpec => []FactorsTypeOK
BY FactorsInvariant, TypesFollow, PTL

(* verify_recovery_code: a code is redeemed once, by its owner.             *)
THEOREM CodesRedeemedOnce == FactorsSpec => []RedeemedOnce
<1>1. FactorsInv => RedeemedOnce
  BY DEF FactorsInv, CodesOK
<1>2. QED
  BY <1>1, FactorsInvariant, PTL

(* register_passkey_credential: a challenge makes one passkey, its user's.  *)
THEOREM ChallengesUsedOnce == FactorsSpec => []OneCredentialPerChallenge
<1>1. FactorsInv => OneCredentialPerChallenge
  BY DEF FactorsInv, ChallengesOK
<1>2. QED
  BY <1>1, FactorsInvariant, PTL

(* store_recovery_code_records: once a newer batch has replaced it, no code *)
(* of a batch is accepted, also by a verification that had begun.           *)
THEOREM ReplacedNeverRedeemed == FactorsSpec => ReplacedCodesDead
<1> DEFINE Dead == \A i \in DOMAIN redeemed' :
                      i \notin DOMAIN redeemed => redeemed'[i][2] \notin replaced
<1>1. FactorsInv /\ [FactorsNext]_factorVars => [Dead]_factorVars
  <2> SUFFICES ASSUME FactorsInv, FactorsNext PROVE Dead
    OBVIOUS
  <2>1. CASE UNCHANGED redeemed
    BY <2>1
  <2>2. ASSUME NEW c \in Caller, Redeem(c), redeemed' # redeemed PROVE Dead
    <3> DEFINE f == call[c].factor
               k == call[c].item
               n == Len(redeemed)
    <3>1. f \in FactorId /\ call[c].person \in Person
      BY <2>2 DEF FactorsInv, CallsOK, Carries, Redeem, Calling
    <3>2. k \in codes[f] /\ redeemed' = Append(redeemed, <<call[c].person, k>>)
      BY <2>2 DEF Redeem
    <3>3. k \in Code /\ k \notin replaced /\ redeemed \in Seq(Person \X Code)
      BY <3>1, <3>2 DEF FactorsInv, StoresOK, CodesOK
    <3> HIDE DEF f, k
    <3>4. Len(redeemed') = n + 1 /\ redeemed' \in Seq(Person \X Code)
          /\ redeemed'[n + 1] = <<call[c].person, k>>
      BY <3>1, <3>2, <3>3, AppendProperties
    <3>5. n \in Nat /\ DOMAIN redeemed = 1 .. n /\ DOMAIN redeemed' = 1 .. n + 1
      BY <3>3, <3>4
    <3>6. redeemed'[n + 1][2] = k
      BY <3>4
    <3>7. \A i \in 1 .. n + 1 : i \notin 1 .. n => i = n + 1
      BY <3>5
    <3>8. QED
      BY <3>3, <3>5, <3>6, <3>7
  <2>3. UNCHANGED redeemed \/ \E c \in Caller : Redeem(c)
    BY ZenonT(40) DEF FactorsNext, PeriodEnds, BeginRegistration, Generate, Regenerate, EnrollTotp, VerifyTotp,
           BeginAuthentication, VerifyRecoveryCode, RegisterPasskey, StoreCodes, InsertSecret,
           CheckTotp, EnrollPasskeyFactor, StoreCredential, StoreAuthentication, Enroll, OnlyCall
  <2>4. QED
    BY <2>1, <2>2, <2>3
<1>2. QED
  BY <1>1, FactorsInvariant, PTL DEF FactorsSpec, ReplacedCodesDead

(* Each accepted code is within the skew of the period it was accepted in.  *)
PassedOK ==
    \A p \in passed :
        /\ p[1][2] \in Nat /\ p[2] \in Nat
        /\ p[2] <= p[1][2] + SkewSteps /\ p[1][2] <= p[2] + SkewSteps

(* verify_code_at: a TOTP code is not accepted any more once twice the skew *)
(* has passed since it first was, however verifications overlap.            *)
THEOREM TotpCodesRunOut == FactorsSpec => []TotpCodesExpire
<1>1. FactorsInit => PassedOK
  BY DEF FactorsInit, PassedOK
<1>2. FactorsInv /\ PassedOK /\ [FactorsNext]_factorVars => PassedOK'
  <2> SUFFICES ASSUME FactorsInv, PassedOK, [FactorsNext]_factorVars PROVE PassedOK'
    OBVIOUS
  <2>1. CASE UNCHANGED passed
    BY <2>1 DEF PassedOK
  <2>2. ASSUME NEW c \in Caller, CheckTotp(c) PROVE PassedOK'
    <3>1. PICK n : passed' = IF Enrolled(call[c].person, "Totp") /\ n \in Periods
                             THEN passed \cup {<<<<call[c].factor, n>>, period>>} ELSE passed
      BY <2>2 DEF CheckTotp
    <3>2. period \in Nat
      BY DEF FactorsInv, StoresOK, Elapsed
    <3>3. CASE n \in Periods
      <4> DEFINE p == <<<<call[c].factor, n>>, period>>
      <4>1. n \in Nat /\ period <= n + SkewSteps /\ n <= period + SkewSteps
        BY <3>3 DEF Periods
      <4>2. p[1][2] = n /\ p[2] = period
        OBVIOUS
      <4> HIDE DEF p
      <4>3. passed' \subseteq passed \cup {p}
        BY <3>1 DEF p
      <4>4. QED
        BY <3>2, <4>1, <4>2, <4>3 DEF PassedOK
    <3>4. QED
      BY <2>1, <3>1, <3>3
  <2>3. UNCHANGED passed \/ \E c \in Caller : CheckTotp(c)
    BY ZenonT(40) DEF FactorsNext, factorVars, PeriodEnds, BeginRegistration, Generate, Regenerate, EnrollTotp,
           VerifyTotp, BeginAuthentication, VerifyRecoveryCode, RegisterPasskey, StoreCodes,
           InsertSecret, Redeem, EnrollPasskeyFactor, StoreCredential, StoreAuthentication, Enroll,
           OnlyCall
  <2>4. QED
    BY <2>1, <2>2, <2>3
<1>3. PassedOK => TotpCodesExpire
  <2> SUFFICES ASSUME PassedOK, NEW p \in passed, NEW q \in passed, p[1] = q[1]
               PROVE  q[2] - p[2] <= 2 * SkewSteps
    BY DEF TotpCodesExpire
  <2>1. SkewSteps \in Nat
    BY FactorsAssumption DEF FactorsAssumption
  <2> DEFINE n == p[1][2]  s == p[2]  t == q[2]
  <2>2. n \in Nat /\ s \in Nat /\ t \in Nat /\ n <= s + SkewSteps /\ t <= n + SkewSteps
    BY DEF PassedOK
  <2> HIDE DEF n, s, t
  <2>3. t - s <= 2 * SkewSteps
    BY <2>1, <2>2
  <2>4. QED
    BY <2>3 DEF s, t
<1>4. QED
  BY <1>1, <1>2, <1>3, FactorsInvariant, PTL DEF FactorsSpec
=============================================================================
