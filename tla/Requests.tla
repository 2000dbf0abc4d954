------------------------------- MODULE Requests -------------------------------
(***************************************************************************)
(* What the specifications of the control plane's stores share: callers    *)
(* whose requests run at the same time, and None.                          *)
(***************************************************************************)
CONSTANTS Caller, Absent
=============================================================================
