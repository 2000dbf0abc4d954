--------------------------- MODULE TerminalLifecycle ---------------------------
(***************************************************************************)
(* The lifecycle of a terminal session as crates/sunbolt-terminal defines  *)
(* it: the states of TerminalSessionState, the transition table of         *)
(* can_transition_to and the two classifications the control plane uses.   *)
(* The module has no state of its own; the registry and the handlers of    *)
(* the control plane are built on it.                                      *)
(***************************************************************************)

\* enum TerminalSessionState
TerminalSessionState ==
    {"Created", "Starting", "Active", "Detached", "Reattaching",
     "Terminating", "Terminated", "Failed", "Expired"}

\* The rows of the table in can_transition_to: the states that may follow `from`.
Successors(from) ==
    CASE from = "Created"     -> {"Starting"}
      [] from = "Starting"    -> {"Active", "Failed"}
      [] from = "Active"      -> {"Detached", "Terminating", "Failed", "Expired"}
      [] from = "Detached"    -> {"Reattaching", "Terminating", "Failed", "Expired"}
      [] from = "Reattaching" -> {"Active", "Terminating", "Failed"}
      [] from \in {"Terminating", "Failed", "Expired"} -> {"Terminated"}
      [] OTHER                -> {}

CanTransition(from, to) == to \in Successors(from)

\* is_reattachable and is_terminal. Note that "Terminating" is in neither set.
Reattachable == {"Active", "Detached", "Reattaching"}
Terminal     == {"Terminated", "Failed", "Expired"}
=============================================================================
