----------------------------- MODULE TerminalAccess -----------------------------
(***************************************************************************)
(* What the control plane promises about terminal session ids, without     *)
(* owners, tokens, nodes or timers: an id is admitted at most once and     *)
(* only below the capacity, it becomes open at most once, attachment and   *)
(* detachment happen inside "open" and are invisible here, an ending       *)
(* session is never open again, and a dropped id never returns.            *)
(* docs/terminal-lifecycle.md describes this life; SessionRegistry         *)
(* implements it.                                                          *)
(***************************************************************************)
EXTENDS FiniteSets, Integers

CONSTANTS Session, Capacity

VARIABLE phase

Phase == {"new", "opening", "open", "ending", "gone"}

Held == {s \in Session : phase[s] \in {"opening", "open", "ending"}}

Init == phase = [s \in Session |-> "new"]

\* Move every id of S from a phase in `from` to the phase `to`.
Shift(S, from, to) ==
    /\ \A s \in S : phase[s] \in from
    /\ phase' = [s \in Session |-> IF s \in S THEN to ELSE phase[s]]

Admit(s) == Cardinality(Held) < Capacity /\ Shift({s}, {"new"}, "opening")
Open(s)  == Shift({s}, {"opening"}, "open")
End(s)   == Shift({s}, {"open"}, "ending")
Drop(S)  == Shift(S, {"opening", "open", "ending"}, "gone")

Next ==
    \/ \E s \in Session : Admit(s) \/ Open(s) \/ End(s)
    \/ \E S \in SUBSET Session : Drop(S)

Spec == Init /\ [][Next]_phase
=============================================================================
