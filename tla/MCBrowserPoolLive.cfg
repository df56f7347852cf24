\* Three requests for two slots and a queue of one place; fibers switch where they
\* suspend and are scheduled fairly.  No symmetry: liveness checking does not allow it.
CONSTANTS
  q1 = q1
  q2 = q2
  q3 = q3
  NoBrowser = 0
  Request = {q1, q2, q3}
  Browser = {1, 2, 3, 4}
  MaxSlots = 2
  MaxQueue = 1
  Yields = FALSE
  MayClose = TRUE
  MaxCrashes = 0
SPECIFICATION FairSpec
INVARIANTS
  NoForgottenBrowser
PROPERTIES
  UsedBrowsersStayOpen
  EveryRequestEnds
