------------------------------ MODULE MCLongPoll ------------------------------
(***************************************************************************)
(* TLC instances of LongPoll.                                              *)
(***************************************************************************)
EXTENDS LongPoll

OnlyPolls == {<<>>}
=============================================================================
