-------------------------- MODULE MCDurableWorkflow --------------------------
(* Small instances of DurableWorkflow for TLC. *)
EXTENDS DurableWorkflow, TLC

CONSTANTS c1, c2, x, y, r1, r2

\* Every call runs on a runner instance of its own.
OwnInstance == [c \in Call |-> c]

Symmetry == Permutations(Output)
=============================================================================
