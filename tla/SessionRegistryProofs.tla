---------------------------- MODULE SessionRegistryProofs ----------------------------
(***************************************************************************)
(* Proofs about SessionRegistry for every number of ids, actors, nodes and *)
(* tokens and every setting of the limits: types, limits and reconnect     *)
(* tokens, and that it implements TerminalAccess.                          *)
(*                                                                         *)
(* LimitsHold is not inductive by itself: cardinalities only behave when   *)
(* the set of entries is finite, so the inductive invariant adds           *)
(* IsFiniteSet(Live). TokensSound adds that spent tokens were drawn. The   *)
(* mapping to TerminalAccess needs that an entry exists only for an id     *)
(* that was issued, so that an id whose entry is gone is told from a new   *)
(* one.                                                                    *)
(***************************************************************************)
EXTENDS SessionRegistry, FiniteSetTheorems, TLAPS

(* Every method keeps the shape of the map, the id and token histories. *)
LEMMA TypeInit == RegInit => TypeOK
  BY DEF RegInit, TypeOK

LEMMA TypeInsertBackend ==
    ASSUME TypeOK, NEW s \in Session, NEW u \in User, NEW n \in Node \cup {NoNode},
           NEW backend \in {"Local", "Remote"}, InsertBackend(s, u, n, backend)
    PROVE  TypeOK'
<1>1. PICK t \in Token \ drawn :
        /\ sessions' = [sessions EXCEPT ![s] =
              [state |-> "Starting", owner |-> u, node |-> n, backend |-> backend,
               token |-> t, idle |-> FALSE, old |-> FALSE]]
        /\ drawn' = drawn \cup {t}
  BY DEF InsertBackend
<1>2. [state |-> "Starting", owner |-> u, node |-> n, backend |-> backend,
       token |-> t, idle |-> FALSE, old |-> FALSE] \in Tracked
  BY DEF Tracked, TerminalSessionState
<1>3. QED
  BY <1>1, <1>2 DEF TypeOK, InsertBackend

LEMMA TypeAfterSetState ==
    ASSUME TypeOK, NEW s \in Session, NEW st \in TerminalSessionState
    PROVE  AfterSetState(s, st) \in [Session -> Tracked \cup {Absent}]
<1>1. CASE Present(s)
  <2>1. sessions[s] \in Tracked
    BY <1>1 DEF TypeOK, Present
  <2>2. [sessions[s] EXCEPT !.state = st] \in Tracked
    BY <2>1 DEF Tracked
  <2>3. QED
    BY <2>2 DEF AfterSetState, TypeOK
<1>2. CASE ~Present(s)
  BY <1>2 DEF AfterSetState, TypeOK
<1>3. QED
  BY <1>1, <1>2

LEMMA TypeReattach ==
    ASSUME TypeOK, NEW s \in Session, NEW t \in Token, NEW u \in User, Reattach(s, t, u)
    PROVE  TypeOK'
<1>1. PICK new \in Token \ drawn :
        /\ sessions' = [sessions EXCEPT ![s].token = new,
                                        ![s].state = "Reattaching",
                                        ![s].idle = FALSE]
        /\ drawn' = drawn \cup {new}
  BY DEF Reattach
<1>2. sessions[s] \in Tracked
  BY DEF TypeOK, Reattach, MayReattach, Present
<1>3. [[[sessions[s] EXCEPT !.token = new] EXCEPT !.state = "Reattaching"]
          EXCEPT !.idle = FALSE] \in Tracked
  BY <1>2 DEF Tracked, TerminalSessionState
<1>4. sessions' \in [Session -> Tracked \cup {Absent}]
  BY <1>1, <1>3 DEF TypeOK
<1>5. QED
  BY <1>1, <1>4 DEF TypeOK, Reattach

LEMMA TypeFlag ==
    ASSUME TypeOK, NEW s \in Session, Touch(s) \/ Idle(s) \/ Age(s)
    PROVE  TypeOK'
<1>1. sessions[s] \in Tracked
  BY DEF TypeOK, Touch, Idle, Age, Present
<1>2. \A b \in BOOLEAN : /\ [sessions[s] EXCEPT !.idle = b] \in Tracked
                         /\ [sessions[s] EXCEPT !.old = b] \in Tracked
  BY <1>1 DEF Tracked
<1>3. QED
  BY <1>2 DEF TypeOK, Touch, Idle, Age

LEMMA TypeRemoveTracked ==
    ASSUME TypeOK, NEW S \in SUBSET Session, RemoveTracked(S)
    PROVE  TypeOK'
  BY DEF TypeOK, RemoveTracked

LEMMA TypeNext == TypeOK /\ [Next]_regVars => TypeOK'
<1> SUFFICES ASSUME TypeOK, [Next]_regVars PROVE TypeOK'
  OBVIOUS
<1>1. ASSUME NEW s \in Session, NEW u \in User, Insert(s, u) PROVE TypeOK'
  BY <1>1, TypeInsertBackend DEF Insert
<1>2. ASSUME NEW s \in Session, NEW u \in User, NEW n \in Node, InsertRemote(s, u, n)
      PROVE TypeOK'
  BY <1>2, TypeInsertBackend DEF InsertRemote
<1>3. ASSUME NEW s \in Session, NEW st \in Requested, SetState(s, st) PROVE TypeOK'
  <2>1. st \in TerminalSessionState
    BY DEF Requested, TerminalSessionState
  <2>2. QED
    BY <1>3, <2>1, TypeAfterSetState DEF SetState, TypeOK
<1>4. ASSUME NEW s \in Session, NEW t \in Token, NEW u \in User, Reattach(s, t, u)
      PROVE TypeOK'
  BY <1>4, TypeReattach
<1>5. ASSUME NEW s \in Session, Touch(s) \/ Idle(s) \/ Age(s) PROVE TypeOK'
  BY <1>5, TypeFlag
<1>6. ASSUME NEW S \in SUBSET Session, RemoveTracked(S) PROVE TypeOK'
  BY <1>6, TypeRemoveTracked
<1>7. CASE UNCHANGED regVars
  BY <1>7 DEF regVars, TypeOK
<1>8. Expired \in SUBSET Session /\ \A n : OfNode(n) \in SUBSET Session
  BY DEF Expired, OfNode
<1>9. QED
  BY <1>1, <1>2, <1>3, <1>4, <1>5, <1>6, <1>7, <1>8
     DEF Next, Remove, Terminate, DrainExpired, CloseSessionsForNode

(* Type correctness of the registry: no sequence of method calls leaves a      *)
(* tracked session with a field outside its type.                              *)
THEOREM RegistryTypeCorrect == Spec => []TypeOK
  BY TypeInit, TypeNext, PTL DEF Spec
-----------------------------------------------------------------------------
(* The entries that count against a limit only grow by the id that            *)
(* insert_backend admits.                                                      *)
CountsKept ==
    /\ Live' \subseteq Live
    /\ \A s \in Session :
          Counted(s)' => /\ Counted(s)
                         /\ sessions'[s].owner = sessions[s].owner
                         /\ sessions'[s].node = sessions[s].node

FiniteLimits == IsFiniteSet(Live) /\ LimitsHold

(* A set_state that takes effect leaves a state with a successor, so the entry *)
(* was counted unless it was already on its way to Terminated.                 *)
LEMMA SuccessorsOfTerminal ==
    ASSUME NEW from \in Terminal, NEW to
    PROVE  CanTransition(from, to) => to \in Terminal
  BY DEF Terminal, CanTransition, Successors

LEMMA SetStateKeepsCounts ==
    ASSUME TypeOK, NEW s \in Session, NEW st \in TerminalSessionState, SetState(s, st)
    PROVE  CountsKept
<1>1. CASE Present(s) /\ CanTransition(StateOf(s), st)
  <2>1. sessions[s] \in Tracked
    BY <1>1 DEF TypeOK, Present
  <2>2. sessions' = [sessions EXCEPT ![s] = [sessions[s] EXCEPT !.state = st]]
    BY <1>1 DEF SetState, AfterSetState
  <2>3. Live' = Live
    BY <1>1, <2>1, <2>2, AbsentAssumption DEF Live, Present, TypeOK, Tracked
  <2>4. Counted(s)' => Counted(s)
    BY <1>1, <2>1, <2>2, SuccessorsOfTerminal
       DEF Counted, Present, StateOf, TypeOK, Tracked
  <2>5. QED
    BY <2>1, <2>2, <2>3, <2>4 DEF CountsKept, Counted, Present, TypeOK, Tracked
<1>2. CASE ~(Present(s) /\ CanTransition(StateOf(s), st))
  BY <1>2 DEF SetState, AfterSetState, CountsKept, Live, Counted, Present
<1>3. QED
  BY <1>1, <1>2

LEMMA ReattachKeepsCounts ==
    ASSUME TypeOK, NEW s \in Session, NEW t \in Token, NEW u \in User, Reattach(s, t, u)
    PROVE  CountsKept
<1>1. PICK new \in Token \ drawn :
        sessions' = [sessions EXCEPT ![s].token = new,
                                     ![s].state = "Reattaching",
                                     ![s].idle = FALSE]
  BY DEF Reattach
<1>2. sessions[s] \in Tracked
  BY DEF TypeOK, Reattach, MayReattach, Present
<1>3. StateOf(s) \notin Terminal /\ Present(s)
  BY DEF Reattach, MayReattach, Reattachable, Terminal
<1>4. /\ sessions'[s].owner = sessions[s].owner
      /\ sessions'[s].node = sessions[s].node
      /\ \A r \in Session \ {s} : sessions'[r] = sessions[r]
  BY <1>1, <1>2 DEF TypeOK, Tracked
<1>5. QED
  BY <1>3, <1>4 DEF CountsKept, Counted, Live, Present, StateOf

LEMMA FlagKeepsCounts ==
    ASSUME TypeOK, NEW s \in Session, Touch(s) \/ Idle(s) \/ Age(s)
    PROVE  CountsKept
<1>1. sessions[s] \in Tracked /\ Present(s)
  BY DEF TypeOK, Touch, Idle, Age, Present
<1>2. /\ sessions'[s].owner = sessions[s].owner
      /\ sessions'[s].node = sessions[s].node
      /\ sessions'[s].state = sessions[s].state
      /\ \A r \in Session \ {s} : sessions'[r] = sessions[r]
  BY <1>1 DEF TypeOK, Tracked, Touch, Idle, Age
<1>3. QED
  BY <1>1, <1>2 DEF CountsKept, Counted, Live, Present

LEMMA RemoveKeepsCounts ==
    ASSUME TypeOK, NEW S \in SUBSET Session, RemoveTracked(S)
    PROVE  CountsKept
  BY DEF TypeOK, RemoveTracked, CountsKept, Live, Counted, Present

(* A step that keeps the counts cannot break a limit. *)
LEMMA KeptLimits ==
    ASSUME TypeOK, FiniteLimits, CountsKept
    PROVE  FiniteLimits'
<1>1. IsFiniteSet(Live') /\ Cardinality(Live') <= Cardinality(Live)
  BY FS_Subset DEF CountsKept, FiniteLimits
<1>2. ASSUME NEW S, NEW T, S \subseteq T, T \subseteq Live, NEW k \in Nat,
             Cardinality(T) <= k
      PROVE  Cardinality(S) <= k
  <2>1. IsFiniteSet(T) /\ IsFiniteSet(S) /\ Cardinality(S) <= Cardinality(T)
    BY <1>2, FS_Subset DEF FiniteLimits
  <2>2. Cardinality(S) \in Nat /\ Cardinality(T) \in Nat
    BY <2>1, FS_CardinalityType
  <2>3. QED
    BY <1>2, <2>1, <2>2
<1>3. ASSUME NEW u \in User PROVE Cardinality(OfUser(u)') <= MaxPerUser
  <2>1. OfUser(u)' \subseteq OfUser(u) /\ OfUser(u) \subseteq Live
    BY DEF CountsKept, OfUser, Live, Counted
  <2>2. Cardinality(OfUser(u)) <= MaxPerUser
    BY DEF FiniteLimits, LimitsHold
  <2>3. QED
    BY <1>2, <2>1, <2>2, LimitsAssumption
<1>4. ASSUME NEW n \in Node \cup {NoNode} PROVE Cardinality(OfNode(n)') <= MaxPerNode
  <2>1. OfNode(n)' \subseteq OfNode(n) /\ OfNode(n) \subseteq Live
    BY DEF CountsKept, OfNode, Live, Counted
  <2>2. Cardinality(OfNode(n)) <= MaxPerNode
    BY DEF FiniteLimits, LimitsHold
  <2>3. QED
    BY <1>2, <2>1, <2>2, LimitsAssumption
<1>5. Cardinality(Live') <= MaxSessions
  <2>1. Live' \subseteq Live /\ Cardinality(Live) <= MaxSessions
    BY DEF CountsKept, FiniteLimits, LimitsHold
  <2>2. QED
    BY <1>2, <2>1, LimitsAssumption
<1>6. QED
  BY <1>1, <1>3, <1>4, <1>5 DEF FiniteLimits, LimitsHold

(* insert_backend admits an entry only while every count is below its limit.  *)
LEMMA InsertKeepsLimits ==
    ASSUME TypeOK, FiniteLimits, NEW s \in Session, NEW u \in User,
           NEW n \in Node \cup {NoNode}, NEW backend \in {"Local", "Remote"},
           InsertBackend(s, u, n, backend)
    PROVE  FiniteLimits'
<1>1. PICK t \in Token \ drawn :
        sessions' = [sessions EXCEPT ![s] =
              [state |-> "Starting", owner |-> u, node |-> n, backend |-> backend,
               token |-> t, idle |-> FALSE, old |-> FALSE]]
  BY DEF InsertBackend
<1>2. /\ Live' \subseteq Live \cup {s}
      /\ \A v \in User : OfUser(v)' \subseteq IF v = u THEN OfUser(v) \cup {s} ELSE OfUser(v)
      /\ \A m : OfNode(m)' \subseteq IF m = n THEN OfNode(m) \cup {s} ELSE OfNode(m)
  <2>1. \A r \in Session \ {s} : sessions'[r] = sessions[r]
    BY <1>1 DEF TypeOK
  <2>2. sessions'[s].owner = u /\ sessions'[s].node = n
    BY <1>1 DEF TypeOK
  <2>3. \A r \in Session \ {s} : Present(r)' = Present(r) /\ Counted(r)' = Counted(r)
    BY <2>1 DEF Counted, Present
  <2>4. Live' \subseteq Live \cup {s}
    BY <2>3 DEF Live
  <2>5. \A v \in User : OfUser(v)' \subseteq IF v = u THEN OfUser(v) \cup {s} ELSE OfUser(v)
    BY <2>1, <2>2, <2>3 DEF OfUser
  <2>6. \A m : OfNode(m)' \subseteq IF m = n THEN OfNode(m) \cup {s} ELSE OfNode(m)
    BY <2>1, <2>2, <2>3 DEF OfNode
  <2>7. QED
    BY <2>4, <2>5, <2>6
<1>3. ASSUME NEW S, NEW T, T \subseteq Live, S \subseteq T \cup {s}, NEW k \in Nat,
             Cardinality(T) < k
      PROVE  IsFiniteSet(S) /\ Cardinality(S) <= k
  <2>1. IsFiniteSet(T) /\ Cardinality(T) \in Nat
    BY <1>3, FS_Subset, FS_CardinalityType DEF FiniteLimits
  <2>2. IsFiniteSet(T \cup {s}) /\ Cardinality(T \cup {s}) <= k
    <3>1. /\ IsFiniteSet(T \cup {s})
          /\ Cardinality(T \cup {s}) = IF s \in T THEN Cardinality(T) ELSE Cardinality(T) + 1
      BY <2>1, FS_AddElement, Zenon
    <3>2. QED
      BY <1>3, <2>1, <3>1
  <2>3. IsFiniteSet(S) /\ Cardinality(S) <= Cardinality(T \cup {s})
    BY <1>3, <2>2, FS_Subset
  <2>4. Cardinality(S) \in Nat /\ Cardinality(T \cup {s}) \in Nat
    BY <2>2, <2>3, FS_CardinalityType
  <2>5. QED
    BY <2>2, <2>3, <2>4
<1>4. ASSUME NEW S, NEW T, T \subseteq Live, S \subseteq T, NEW k \in Nat,
             Cardinality(T) <= k
      PROVE  Cardinality(S) <= k
  <2>1. IsFiniteSet(T) /\ IsFiniteSet(S) /\ Cardinality(S) <= Cardinality(T)
    BY <1>4, FS_Subset DEF FiniteLimits
  <2>2. Cardinality(S) \in Nat /\ Cardinality(T) \in Nat
    BY <2>1, FS_CardinalityType
  <2>3. QED
    BY <1>4, <2>1, <2>2
<1>5. /\ Cardinality(Live) < MaxSessions
      /\ Cardinality(OfUser(u)) < MaxPerUser
      /\ Cardinality(OfNode(n)) < MaxPerNode
  BY DEF InsertBackend, Admissible
<1>6. IsFiniteSet(Live') /\ Cardinality(Live') <= MaxSessions
  BY <1>2, <1>3, <1>5, LimitsAssumption
<1>7. \A m : OfUser(m) \subseteq Live /\ OfNode(m) \subseteq Live
  BY DEF OfUser, OfNode, Live, Counted
<1>8. ASSUME NEW v \in User PROVE Cardinality(OfUser(v)') <= MaxPerUser
  <2>1. CASE v = u
    BY <1>2, <1>3, <1>5, <1>7, <2>1, LimitsAssumption
  <2>2. CASE v # u
    <3>1. OfUser(v)' \subseteq OfUser(v) /\ Cardinality(OfUser(v)) <= MaxPerUser
      BY <1>2, <2>2 DEF FiniteLimits, LimitsHold
    <3>2. QED
      BY <1>4, <1>7, <3>1, LimitsAssumption
  <2>3. QED
    BY <2>1, <2>2
<1>9. ASSUME NEW m \in Node \cup {NoNode} PROVE Cardinality(OfNode(m)') <= MaxPerNode
  <2>1. CASE m = n
    BY <1>2, <1>3, <1>5, <1>7, <2>1, LimitsAssumption
  <2>2. CASE m # n
    <3>1. OfNode(m)' \subseteq OfNode(m) /\ Cardinality(OfNode(m)) <= MaxPerNode
      BY <1>2, <2>2 DEF FiniteLimits, LimitsHold
    <3>2. QED
      BY <1>4, <1>7, <3>1, LimitsAssumption
  <2>3. QED
    BY <2>1, <2>2
<1>10. QED
  BY <1>6, <1>8, <1>9 DEF FiniteLimits, LimitsHold

LEMMA LimitsInit == RegInit => FiniteLimits
<1> SUFFICES ASSUME RegInit PROVE FiniteLimits
  OBVIOUS
<1>1. /\ Live = {}
      /\ \A u \in User : OfUser(u) = {}
      /\ \A n \in Node \cup {NoNode} : OfNode(n) = {}
  BY DEF RegInit, Live, OfUser, OfNode, Counted, Present
<1>2. QED
  BY <1>1, FS_EmptySet, LimitsAssumption DEF FiniteLimits, LimitsHold

LEMMA LimitsNext == TypeOK /\ FiniteLimits /\ [Next]_regVars => FiniteLimits'
<1> SUFFICES ASSUME TypeOK, FiniteLimits, [Next]_regVars PROVE FiniteLimits'
  OBVIOUS
<1>1. ASSUME NEW s \in Session, NEW u \in User, Insert(s, u) PROVE FiniteLimits'
  BY <1>1, InsertKeepsLimits DEF Insert
<1>2. ASSUME NEW s \in Session, NEW u \in User, NEW n \in Node, InsertRemote(s, u, n)
      PROVE  FiniteLimits'
  BY <1>2, InsertKeepsLimits DEF InsertRemote
<1>3. ASSUME NEW s \in Session, NEW st \in Requested, SetState(s, st)
      PROVE  FiniteLimits'
  <2>1. st \in TerminalSessionState
    BY DEF Requested, TerminalSessionState
  <2>2. QED
    BY <1>3, <2>1, SetStateKeepsCounts, KeptLimits
<1>4. ASSUME NEW s \in Session, NEW t \in Token, NEW u \in User, Reattach(s, t, u)
      PROVE  FiniteLimits'
  BY <1>4, ReattachKeepsCounts, KeptLimits
<1>5. ASSUME NEW s \in Session, Touch(s) \/ Idle(s) \/ Age(s) PROVE FiniteLimits'
  BY <1>5, FlagKeepsCounts, KeptLimits
<1>6. ASSUME NEW S \in SUBSET Session, RemoveTracked(S) PROVE FiniteLimits'
  BY <1>6, RemoveKeepsCounts, KeptLimits
<1>7. CASE UNCHANGED regVars
  <2>1. CountsKept
    BY <1>7 DEF regVars, CountsKept, Live, Counted, Present
  <2>2. QED
    BY <2>1, KeptLimits
<1>8. Expired \in SUBSET Session /\ \A n : OfNode(n) \in SUBSET Session
  BY DEF Expired, OfNode
<1>9. QED
  BY <1>1, <1>2, <1>3, <1>4, <1>5, <1>6, <1>7, <1>8
     DEF Next, Remove, Terminate, DrainExpired, CloseSessionsForNode

(* max_sessions, max_sessions_per_user and max_sessions_per_node hold after     *)
(* every sequence of registry calls, for every value of the limits.             *)
THEOREM RegistryLimits == Spec => []LimitsHold
<1>1. RegInit => TypeOK /\ FiniteLimits
  BY TypeInit, LimitsInit
<1>2. (TypeOK /\ FiniteLimits) /\ [Next]_regVars => (TypeOK /\ FiniteLimits)'
  BY TypeNext, LimitsNext
<1>3. TypeOK /\ FiniteLimits => LimitsHold
  BY DEF FiniteLimits
<1>4. QED
  BY <1>1, <1>2, <1>3, PTL DEF Spec

-----------------------------------------------------------------------------
(* TokensSound is not inductive: a fresh token is unspent only because every   *)
(* spent token was drawn before.                                               *)
TokensInv == TokensSound /\ spent \subseteq drawn

(* Steps that draw no token: entries keep theirs or disappear. *)
TokensKept ==
    /\ drawn' = drawn
    /\ spent' = spent
    /\ \A s \in Session :
          Present(s)' => Present(s) /\ sessions'[s].token = sessions[s].token

LEMMA KeptTokens == TokensInv /\ TokensKept => TokensInv'
  BY DEF TokensInv, TokensSound, TokensKept, Live

(* Steps that put a token drawn for the first time into the entry of s. *)
LEMMA FreshToken ==
    ASSUME TokensInv, NEW s \in Session, NEW new \in Token \ drawn,
           Present(s)', sessions'[s].token = new,
           \A r \in Session \ {s} : sessions'[r] = sessions[r],
           drawn' = drawn \cup {new},
           spent' = spent \/ (Present(s) /\ spent' = spent \cup {sessions[s].token})
    PROVE  TokensInv'
<1>1. \A r \in Live : sessions[r].token \in drawn \ spent
  BY DEF TokensInv, TokensSound
<1>2. spent' \subseteq drawn
  BY <1>1 DEF TokensInv, Live
<1>3. \A r \in Live' \ {s} : r \in Live /\ sessions'[r].token = sessions[r].token
  BY DEF Live, Present
<1>4. \A r \in Live \ {s} : sessions[r].token \notin spent'
  <2>1. CASE spent' = spent
    BY <1>1, <2>1
  <2>2. CASE Present(s) /\ spent' = spent \cup {sessions[s].token}
    <3>1. s \in Live
      BY <2>2 DEF Live
    <3>2. \A r \in Live \ {s} : sessions[r].token # sessions[s].token
      BY <3>1 DEF TokensInv, TokensSound
    <3>3. QED
      BY <1>1, <2>2, <3>2
  <2>3. QED
    BY <2>1, <2>2
<1>5. \A r \in Live' : sessions'[r].token \in drawn' \ spent'
  BY <1>1, <1>2, <1>3, <1>4
<1>6. \A r, q \in Live' : sessions'[r].token = sessions'[q].token => r = q
  <2>1. \A r, q \in Live : sessions[r].token = sessions[q].token => r = q
    BY DEF TokensInv, TokensSound
  <2>2. \A r \in Live' \ {s} : sessions'[r].token # new
    BY <1>1, <1>3
  <2>3. QED
    BY <1>3, <2>1, <2>2
<1>7. QED
  BY <1>2, <1>5, <1>6 DEF TokensInv, TokensSound

LEMMA TokensNext == TypeOK /\ TokensInv /\ [Next]_regVars => TokensInv'
<1> SUFFICES ASSUME TypeOK, TokensInv, [Next]_regVars PROVE TokensInv'
  OBVIOUS
<1>1. ASSUME NEW s \in Session, NEW u \in User, NEW n \in Node \cup {NoNode},
             NEW backend \in {"Local", "Remote"}, InsertBackend(s, u, n, backend)
      PROVE  TokensInv'
  <2>1. PICK t \in Token \ drawn :
          /\ sessions' = [sessions EXCEPT ![s] =
                [state |-> "Starting", owner |-> u, node |-> n, backend |-> backend,
                 token |-> t, idle |-> FALSE, old |-> FALSE]]
          /\ drawn' = drawn \cup {t}
    BY <1>1 DEF InsertBackend
  <2>2. sessions'[s].token = t /\ \A r \in Session \ {s} : sessions'[r] = sessions[r]
    BY <2>1 DEF TypeOK
  <2>3. Present(s)'
    <3>1. [state |-> "Starting", owner |-> u, node |-> n, backend |-> backend,
           token |-> t, idle |-> FALSE, old |-> FALSE] \in Tracked
      BY DEF Tracked, TerminalSessionState
    <3>2. QED
      BY <2>1, <3>1, AbsentAssumption DEF Present, TypeOK
  <2>4. QED
    BY <1>1, <2>1, <2>2, <2>3, FreshToken DEF InsertBackend
<1>2. ASSUME NEW s \in Session, NEW t \in Token, NEW u \in User, Reattach(s, t, u)
      PROVE  TokensInv'
  <2>1. PICK new \in Token \ drawn :
          /\ sessions' = [sessions EXCEPT ![s].token = new,
                                          ![s].state = "Reattaching",
                                          ![s].idle = FALSE]
          /\ drawn' = drawn \cup {new}
    BY <1>2 DEF Reattach
  <2>2. Present(s) /\ sessions[s] \in Tracked /\ spent' = spent \cup {sessions[s].token}
    BY <1>2 DEF Reattach, MayReattach, Present, TypeOK
  <2>3. /\ sessions'[s] = [[[sessions[s] EXCEPT !.token = new]
                                EXCEPT !.state = "Reattaching"] EXCEPT !.idle = FALSE]
        /\ \A r \in Session \ {s} : sessions'[r] = sessions[r]
    BY <2>1 DEF TypeOK
  <2>4. sessions'[s] \in Tracked /\ sessions'[s].token = new
    BY <2>2, <2>3 DEF Tracked, TerminalSessionState
  <2>5. Present(s)'
    BY <2>4, AbsentAssumption DEF Present
  <2>6. QED
    BY <2>1, <2>2, <2>3, <2>4, <2>5, FreshToken
<1>3. ASSUME NEW s \in Session, NEW st \in TerminalSessionState, SetState(s, st)
      PROVE  TokensKept
  <2>1. CASE Present(s) /\ CanTransition(StateOf(s), st)
    <3>1. sessions[s] \in Tracked
      BY <2>1 DEF TypeOK, Present
    <3>2. sessions' = [sessions EXCEPT ![s] = [sessions[s] EXCEPT !.state = st]]
      BY <1>3, <2>1 DEF SetState, AfterSetState
    <3>3. QED
      BY <1>3, <2>1, <3>1, <3>2 DEF SetState, TokensKept, Present, TypeOK, Tracked
  <2>2. CASE ~(Present(s) /\ CanTransition(StateOf(s), st))
    BY <1>3, <2>2 DEF SetState, AfterSetState, TokensKept, Present
  <2>3. QED
    BY <2>1, <2>2
<1>4. ASSUME NEW s \in Session, Touch(s) \/ Idle(s) \/ Age(s) PROVE TokensKept
  <2>1. Present(s) /\ sessions[s] \in Tracked
    BY <1>4 DEF TypeOK, Touch, Idle, Age, Present
  <2>2. PICK e \in {[sessions[s] EXCEPT !.idle = FALSE], [sessions[s] EXCEPT !.idle = TRUE],
                    [sessions[s] EXCEPT !.old = TRUE]} :
          sessions' = [sessions EXCEPT ![s] = e]
    BY <1>4 DEF Touch, Idle, Age
  <2>3. e.token = sessions[s].token
    BY <2>1, <2>2 DEF Tracked
  <2>4. QED
    BY <1>4, <2>1, <2>2, <2>3 DEF TokensKept, Touch, Idle, Age, Present, TypeOK
<1>5. ASSUME NEW S \in SUBSET Session, RemoveTracked(S) PROVE TokensKept
  BY <1>5 DEF RemoveTracked, TokensKept, Present
<1>6. CASE UNCHANGED regVars
  BY <1>6 DEF regVars, TokensKept, TokensInv, TokensSound, Live, Present
<1>7. Requested \subseteq TerminalSessionState
  BY DEF Requested, TerminalSessionState
<1>8. /\ Expired \in SUBSET Session
      /\ \A n : OfNode(n) \in SUBSET Session
      /\ \A s \in Session : {s} \in SUBSET Session
  BY DEF Expired, OfNode
<1>9. QED
  BY <1>1, <1>2, <1>3, <1>4, <1>5, <1>6, <1>7, <1>8, KeptTokens
     DEF Next, Insert, InsertRemote, Remove, Terminate, DrainExpired, CloseSessionsForNode

(* reattach rotates the reconnect token soundly: for any number of sessions and *)
(* tokens, a token that was used once opens nothing afterwards, and no token    *)
(* opens two sessions.                                                          *)
THEOREM RegistryTokens == Spec => []TokensSound
<1>1. RegInit => TypeOK /\ TokensInv
  <2>1. RegInit => TokensInv
    BY DEF RegInit, TokensInv, TokensSound, Live, Present
  <2>2. QED
    BY <2>1, TypeInit
<1>2. (TypeOK /\ TokensInv) /\ [Next]_regVars => (TypeOK /\ TokensInv)'
  BY TypeNext, TokensNext
<1>3. TokensInv => TokensSound
  BY DEF TokensInv
<1>4. QED
  BY <1>1, <1>2, <1>3, PTL DEF Spec

-----------------------------------------------------------------------------
(* The refinement of TerminalAccess: initial states map to initial states and
   every method maps to an abstract step or to a stutter. *)

AccessInv == TypeOK /\ Live \subseteq issued

(* The phase of an entry depends on its state alone. *)
PhaseOf(st) ==
    CASE st \in {"Created", "Starting"} -> "opening"
      [] st \in Reattachable            -> "open"
      [] OTHER                          -> "ending"

LEMMA PhaseCases ==
    ASSUME NEW s \in Session
    PROVE  Phase(s) = IF Present(s) THEN PhaseOf(StateOf(s))
                      ELSE IF s \in issued THEN "gone" ELSE "new"
  BY DEF Phase, PhaseOf, InState, StateOf, Present, Reattachable

LEMMA PhaseCasesNext ==
    ASSUME NEW s \in Session
    PROVE  Phase(s)' = IF Present(s)' THEN PhaseOf(StateOf(s)')
                       ELSE IF s \in issued' THEN "gone" ELSE "new"
  BY DEF Phase, PhaseOf, InState, StateOf, Present, Reattachable

LEMMA HeldIsLive == Access!Held = Live
<1>1. \A st : PhaseOf(st) \in {"opening", "open", "ending"}
  BY DEF PhaseOf
<1>2. QED
  BY <1>1, PhaseCases DEF Access!Held, Live

(* What every step shows to TerminalAccess: the ids of S move to phase p and   *)
(* the others stay where they are.                                             *)
LEMMA MoveOne ==
    ASSUME NEW S \in SUBSET Session, NEW p, NEW from,
           \A r \in S : Phase(r) \in from /\ Phase(r)' = p,
           \A r \in Session \ S : Phase(r)' = Phase(r)
    PROVE  Access!Shift(S, from, p)
  BY DEF Access!Shift

LEMMA StayAll ==
    ASSUME \A r \in Session : Phase(r)' = Phase(r)
    PROVE  UNCHANGED [s \in Session |-> Phase(s)]
  OBVIOUS

-----------------------------------------------------------------------------
AbstractStep == [Access!Next]_[s \in Session |-> Phase(s)]

LEMMA MapInsert ==
    ASSUME AccessInv, NEW s \in Session, NEW u \in User, NEW n \in Node \cup {NoNode},
           NEW backend \in {"Local", "Remote"}, InsertBackend(s, u, n, backend)
    PROVE  AbstractStep
<1>1. PICK t \in Token \ drawn :
        sessions' = [sessions EXCEPT ![s] =
            [state |-> "Starting", owner |-> u, node |-> n, backend |-> backend,
             token |-> t, idle |-> FALSE, old |-> FALSE]]
  BY DEF InsertBackend
<1>2. [state |-> "Starting", owner |-> u, node |-> n, backend |-> backend,
       token |-> t, idle |-> FALSE, old |-> FALSE] \in Tracked
  BY DEF Tracked, TerminalSessionState
<1>3. /\ Present(s)'
      /\ StateOf(s)' = "Starting"
      /\ s \in issued'
      /\ \A r \in Session \ {s} : sessions'[r] = sessions[r] /\ (r \in issued' <=> r \in issued)
  BY <1>1, <1>2, AbsentAssumption DEF InsertBackend, Present, StateOf, AccessInv, TypeOK
<1>4. Phase(s) = "new"
  BY PhaseCases DEF InsertBackend, AccessInv, Live
<1>5. Phase(s)' = "opening"
  <2>1. Phase(s)' = PhaseOf(StateOf(s)')
    BY <1>3, PhaseCasesNext
  <2>2. PhaseOf("Starting") = "opening"
    BY DEF PhaseOf, Reattachable
  <2>3. QED
    BY <1>3, <2>1, <2>2
<1>6. \A r \in Session \ {s} : Phase(r)' = Phase(r)
  BY <1>3, PhaseCases, PhaseCasesNext DEF Present, StateOf
<1>7. Access!Shift({s}, {"new"}, "opening")
  BY <1>4, <1>5, <1>6, MoveOne
<1>8. Access!Admit(s)
  <2>1. Access!Cardinality(Live) = Cardinality(Live)
    BY DEF Access!Cardinality, Cardinality
  <2>2. QED
    BY <1>7, <2>1, HeldIsLive DEF InsertBackend, Admissible, Access!Admit
<1>9. QED
  BY <1>8 DEF AbstractStep, Access!Next

(* A step that rewrites the entry of s and leaves every other entry alone.     *)
LEMMA MapEntry ==
    ASSUME NEW s \in Session, Present(s), Present(s)', issued' = issued,
           \A r \in Session \ {s} : sessions'[r] = sessions[r],
           \/ PhaseOf(StateOf(s)') = PhaseOf(StateOf(s))
           \/ PhaseOf(StateOf(s)) = "opening" /\ PhaseOf(StateOf(s)') = "open"
           \/ PhaseOf(StateOf(s)) = "open" /\ PhaseOf(StateOf(s)') = "ending"
    PROVE  AbstractStep
<1>1. /\ Phase(s) = PhaseOf(StateOf(s))
      /\ Phase(s)' = PhaseOf(StateOf(s)')
  BY PhaseCases, PhaseCasesNext
<1>2. \A r \in Session \ {s} : Phase(r)' = Phase(r)
  BY PhaseCases, PhaseCasesNext DEF Present, StateOf
<1>3. CASE Phase(s)' = Phase(s)
  BY <1>2, <1>3, StayAll DEF AbstractStep
<1>4. CASE Phase(s) = "opening" /\ Phase(s)' = "open"
  <2>1. Access!Shift({s}, {"opening"}, "open")
    BY <1>2, <1>4, MoveOne
  <2>2. QED
    BY <2>1 DEF AbstractStep, Access!Next, Access!Open
<1>5. CASE Phase(s) = "open" /\ Phase(s)' = "ending"
  <2>1. Access!Shift({s}, {"open"}, "ending")
    BY <1>2, <1>5, MoveOne
  <2>2. QED
    BY <2>1 DEF AbstractStep, Access!Next, Access!End
<1>6. QED
  BY <1>1, <1>3, <1>4, <1>5

LEMMA MapStutter ==
    ASSUME sessions' = sessions, issued' = issued
    PROVE  AbstractStep
<1>1. \A r \in Session : Phase(r)' = Phase(r)
  BY PhaseCases, PhaseCasesNext DEF Present, StateOf
<1>2. QED
  BY <1>1, StayAll DEF AbstractStep

(* What the transition table of can_transition_to says about phases.           *)
LEMMA TablePhases ==
    ASSUME NEW from, NEW to \in Requested, CanTransition(from, to)
    PROVE  \/ PhaseOf(to) = PhaseOf(from)
           \/ PhaseOf(from) = "opening" /\ PhaseOf(to) = "open"
           \/ PhaseOf(from) = "open" /\ PhaseOf(to) = "ending"
  BY DEF Requested, CanTransition, Successors, PhaseOf, Reattachable

LEMMA MapSetState ==
    ASSUME AccessInv, NEW s \in Session, NEW st \in Requested, SetState(s, st)
    PROVE  AbstractStep
<1>1. CASE Present(s) /\ CanTransition(StateOf(s), st)
  <2>1. sessions[s] \in Tracked /\ st \in TerminalSessionState
    BY <1>1 DEF AccessInv, TypeOK, Present, Requested, TerminalSessionState
  <2>2. sessions' = [sessions EXCEPT ![s] = [sessions[s] EXCEPT !.state = st]]
    BY <1>1 DEF SetState, AfterSetState
  <2>3. [sessions[s] EXCEPT !.state = st] \in Tracked
    BY <2>1 DEF Tracked
  <2>4. sessions'[s] = [sessions[s] EXCEPT !.state = st]
    BY <2>2 DEF AccessInv, TypeOK
  <2>5. Present(s)' /\ StateOf(s)' = st
    BY <2>1, <2>3, <2>4, AbsentAssumption DEF Present, StateOf, Tracked
  <2>6. \A r \in Session \ {s} : sessions'[r] = sessions[r]
    BY <2>2 DEF AccessInv, TypeOK
  <2>7. issued' = issued
    BY DEF SetState
  <2>8. QED
    BY <1>1, <2>5, <2>6, <2>7, TablePhases, MapEntry
<1>2. CASE ~(Present(s) /\ CanTransition(StateOf(s), st))
  BY <1>2, MapStutter DEF SetState, AfterSetState
<1>3. QED
  BY <1>1, <1>2

(* reattach ignores the table but only leaves states that are open already.    *)
LEMMA MapReattach ==
    ASSUME AccessInv, NEW s \in Session, NEW t \in Token, NEW u \in User, Reattach(s, t, u)
    PROVE  AbstractStep
<1>1. PICK new \in Token \ drawn :
        sessions' = [sessions EXCEPT ![s].token = new, ![s].state = "Reattaching",
                                     ![s].idle = FALSE]
  BY DEF Reattach
<1>2. Present(s) /\ sessions[s] \in Tracked /\ StateOf(s) \in Reattachable
  BY DEF Reattach, MayReattach, AccessInv, TypeOK, Present
<1>3. /\ sessions'[s] = [[[sessions[s] EXCEPT !.token = new]
                              EXCEPT !.state = "Reattaching"] EXCEPT !.idle = FALSE]
      /\ \A r \in Session \ {s} : sessions'[r] = sessions[r]
  BY <1>1 DEF AccessInv, TypeOK
<1>4. sessions'[s] \in Tracked /\ StateOf(s)' = "Reattaching"
  BY <1>2, <1>3 DEF Tracked, TerminalSessionState, StateOf
<1>5. Present(s)' /\ issued' = issued
  BY <1>4, AbsentAssumption DEF Present, Reattach
<1>6. PhaseOf(StateOf(s)) = PhaseOf("Reattaching")
  BY <1>2 DEF PhaseOf, Reattachable
<1>7. QED
  BY <1>2, <1>3, <1>4, <1>5, <1>6, MapEntry

LEMMA MapFlag ==
    ASSUME AccessInv, NEW s \in Session, Touch(s) \/ Idle(s) \/ Age(s)
    PROVE  AbstractStep
<1>1. Present(s) /\ sessions[s] \in Tracked
  BY DEF AccessInv, TypeOK, Touch, Idle, Age, Present
<1>2. PICK e \in {[sessions[s] EXCEPT !.idle = FALSE], [sessions[s] EXCEPT !.idle = TRUE],
                  [sessions[s] EXCEPT !.old = TRUE]} :
        sessions' = [sessions EXCEPT ![s] = e]
  BY DEF Touch, Idle, Age
<1>3. e \in Tracked /\ e.state = sessions[s].state
  BY <1>1, <1>2 DEF Tracked
<1>4. sessions'[s] = e /\ \A r \in Session \ {s} : sessions'[r] = sessions[r]
  BY <1>2 DEF AccessInv, TypeOK
<1>5. Present(s)' /\ StateOf(s)' = StateOf(s)
  BY <1>3, <1>4, AbsentAssumption DEF Present, StateOf
<1>6. issued' = issued
  BY DEF Touch, Idle, Age
<1>7. QED
  BY <1>1, <1>4, <1>5, <1>6, MapEntry

(* Removing any set of entries, by remove, terminate, drain_expired or         *)
(* close_sessions_for_node, drops those of them that were there.               *)
LEMMA MapRemove ==
    ASSUME AccessInv, NEW S \in SUBSET Session, RemoveTracked(S)
    PROVE  AbstractStep
<1>1. \A r \in S \cap Live : Phase(r) \in {"opening", "open", "ending"} /\ Phase(r)' = "gone"
  <2>1. \A st : PhaseOf(st) \in {"opening", "open", "ending"}
    BY DEF PhaseOf
  <2>2. ASSUME NEW r \in S \cap Live PROVE ~Present(r)' /\ r \in issued'
    BY <2>2 DEF RemoveTracked, Present, AccessInv, Live
  <2>3. QED
    BY <2>1, <2>2, PhaseCases, PhaseCasesNext DEF Live
<1>2. \A r \in Session \ (S \cap Live) : Phase(r)' = Phase(r)
  <2>1. ASSUME NEW r \in Session \ (S \cap Live)
        PROVE  sessions'[r] = sessions[r] /\ (r \in issued' <=> r \in issued)
    BY DEF RemoveTracked, Live, Present
  <2>2. QED
    BY <2>1, PhaseCases, PhaseCasesNext DEF Present, StateOf
<1>3. Access!Shift(S \cap Live, {"opening", "open", "ending"}, "gone")
  BY <1>1, <1>2, MoveOne
<1>4. S \cap Live \in SUBSET Session
  OBVIOUS
<1>5. QED
  BY <1>3, <1>4 DEF AbstractStep, Access!Next, Access!Drop

LEMMA MapNext == AccessInv /\ [Next]_regVars => AbstractStep
<1> SUFFICES ASSUME AccessInv, [Next]_regVars PROVE AbstractStep
  OBVIOUS
<1>1. CASE UNCHANGED regVars
  BY <1>1, MapStutter DEF regVars
<1>2. \A S \in SUBSET Session : RemoveTracked(S) => AbstractStep
  BY MapRemove
<1>3. /\ Expired \in SUBSET Session
      /\ \A n : OfNode(n) \in SUBSET Session
      /\ \A s \in Session : {s} \in SUBSET Session
  BY DEF Expired, OfNode
<1>4. ASSUME NEW s \in Session, NEW u \in User, Insert(s, u) PROVE AbstractStep
  BY <1>4, MapInsert DEF Insert
<1>5. ASSUME NEW s \in Session, NEW u \in User, NEW n \in Node, InsertRemote(s, u, n)
      PROVE  AbstractStep
  BY <1>5, MapInsert DEF InsertRemote
<1>6. QED
  BY <1>1, <1>2, <1>3, <1>4, <1>5, MapSetState, MapReattach, MapFlag
     DEF Next, Remove, Terminate, DrainExpired, CloseSessionsForNode

LEMMA IssuedNext == AccessInv /\ [Next]_regVars /\ TypeOK' => AccessInv'
<1> SUFFICES ASSUME AccessInv, [Next]_regVars PROVE (Live \subseteq issued)'
  BY DEF AccessInv
<1>1. ASSUME NEW s \in Session, NEW u, NEW n, NEW backend, InsertBackend(s, u, n, backend)
      PROVE  (Live \subseteq issued)'
  BY <1>1 DEF InsertBackend, AccessInv, TypeOK, Live, Present
<1>2. ASSUME issued' = issued, \A r \in Session : Present(r)' => Present(r)
      PROVE  (Live \subseteq issued)'
  BY <1>2 DEF AccessInv, Live
<1>3. ASSUME NEW s \in Session, NEW st, SetState(s, st) PROVE (Live \subseteq issued)'
  BY <1>3, <1>2 DEF SetState, AfterSetState, Present, AccessInv, TypeOK
<1>4. ASSUME NEW s \in Session, NEW t, NEW u, Reattach(s, t, u)
      PROVE  (Live \subseteq issued)'
  BY <1>4, <1>2 DEF Reattach, MayReattach, Present, AccessInv, TypeOK
<1>5. ASSUME NEW s \in Session, Touch(s) \/ Idle(s) \/ Age(s)
      PROVE  (Live \subseteq issued)'
  BY <1>5, <1>2 DEF Touch, Idle, Age, Present, AccessInv, TypeOK
<1>6. ASSUME NEW S \in SUBSET Session, RemoveTracked(S) PROVE (Live \subseteq issued)'
  BY <1>6, <1>2 DEF RemoveTracked, Present
<1>7. CASE UNCHANGED regVars
  BY <1>7, <1>2 DEF regVars, Present
<1>8. /\ Expired \in SUBSET Session
      /\ \A n : OfNode(n) \in SUBSET Session
      /\ \A s \in Session : {s} \in SUBSET Session
  BY DEF Expired, OfNode
<1>9. QED
  BY <1>1, <1>3, <1>4, <1>5, <1>6, <1>7, <1>8
     DEF Next, Insert, InsertRemote, Remove, Terminate, DrainExpired, CloseSessionsForNode

(* The registry implements TerminalAccess for every value of its constants: an *)
(* id is admitted once and below max_sessions, opens once, and no late         *)
(* set_state or reattach brings an ending or removed session back.             *)
THEOREM RegistryImplementsAccess == Spec => ImplementsAccess
<1>1. RegInit => AccessInv
  BY TypeInit DEF RegInit, AccessInv, Live, Present
<1>2. AccessInv /\ [Next]_regVars => AccessInv'
  BY TypeNext, IssuedNext DEF AccessInv
<1>3. RegInit => Access!Init
  BY PhaseCases DEF RegInit, Present, Access!Init
<1>4. AccessInv /\ [Next]_regVars => [Access!Next]_[s \in Session |-> Phase(s)]
  BY MapNext DEF AbstractStep
<1>5. QED
  BY <1>1, <1>2, <1>3, <1>4, PTL DEF Spec, ImplementsAccess, Access!Spec
==============================================================================
