---------------------------- MODULE MCLocalTerminal ----------------------------
(***************************************************************************)
(* TLC instances of LocalTerminal.                                         *)
(***************************************************************************)
EXTENDS LocalTerminal, TLC

\* Handlers, ids and tokens are only compared for equality (safety runs only).
Symmetric == Permutations(Conn) \cup Permutations(Session) \cup Permutations(Token)
=============================================================================
