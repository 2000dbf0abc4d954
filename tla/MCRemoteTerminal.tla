---------------------------- MODULE MCRemoteTerminal ----------------------------
(***************************************************************************)
(* TLC instances of RemoteTerminal.                                        *)
(***************************************************************************)
EXTENDS RemoteTerminal, TLC

\* Sessions, links and tokens are only compared for equality (safety runs only).
Symmetric == Permutations(Session) \cup Permutations(Link) \cup Permutations(Token)
=============================================================================
