----------------------------- MODULE MCBrowserBridge -----------------------------
(* A TLC instance of BrowserBridge. *)
EXTENDS BrowserBridge, TLC

Symmetric == Permutations(Session)
=============================================================================
