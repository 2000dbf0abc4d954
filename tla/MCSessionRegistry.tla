--------------------------- MODULE MCSessionRegistry ---------------------------
(***************************************************************************)
(* TLC instance of SessionRegistry: three ids compete for two places, two  *)
(* actors, one node and the control plane host, four tokens.               *)
(***************************************************************************)
EXTENDS SessionRegistry, TLC

\* Ids, actors and tokens are only compared for equality.
Symmetric == Permutations(Session) \cup Permutations(User) \cup Permutations(Token)
=============================================================================
