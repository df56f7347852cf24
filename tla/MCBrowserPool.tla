---------------------------- MODULE MCBrowserPool ----------------------------
(* Small instances of BrowserPool for TLC. *)
EXTENDS BrowserPool, TLC

CONSTANTS q1, q2, q3

Symmetry == Permutations(Request)
=============================================================================
