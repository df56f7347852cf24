--------------------------- MODULE MCAccessBudget ---------------------------
(* A small instance of AccessBudget: two domains of two accesses each, one of *)
(* which asks for another budget than the rest.                            *)
EXTENDS AccessBudget

FourAccesses == {"a1", "a2", "a3", "a4"}
TwoDomains == {"d1", "d2"}
TwoEach == [a \in FourAccesses |-> IF a \in {"a1", "a2"} THEN "d1" ELSE "d2"]
OneAsksForMore ==
  [a \in FourAccesses |-> IF a = "a1" THEN [global |-> 3, perDomain |-> 2]
                                      ELSE [global |-> 2, perDomain |-> 1]]
=============================================================================
