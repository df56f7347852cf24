-------------------------- MODULE MCWorkClaimStore --------------------------
(* A small instance of WorkClaimStore for TLC. *)
EXTENDS WorkClaimStore

CONSTANTS a, b, c, x, y, k1, k2
=============================================================================
