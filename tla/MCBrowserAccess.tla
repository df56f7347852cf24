--------------------------- MODULE MCBrowserAccess ---------------------------
(***************************************************************************)
(* Browser captures with small limits of the leak detector.                *)
(***************************************************************************)
EXTENDS BrowserAccess

CONSTANTS c1, c2, c3

MCLimits == [browsers |-> 3, contexts |-> 3, pages |-> 3]
=============================================================================
