-------------------------- MODULE MCAccessExecution --------------------------
(* A small instance of AccessExecution for TLC. *)
EXTENDS AccessExecution, TLC

CONSTANTS a1, a2, shop, http, browser

OneDomain == [a \in Access |-> shop]

ByHttp == [a \in Access |-> http]

ToBrowser == [a \in Access |-> browser]

\* The domain is quarantined by its second failure in a row, a path by its first.
SmallPolicy ==
  [s \in Subject |->
     [failureThreshold |-> IF s = shop THEN 2 ELSE 1, recoveryThreshold |-> 1,
      quarantineTime |-> IF s = shop THEN 2 ELSE 1]]

AccessSymmetry == Permutations(Access)
=============================================================================
