\* Three requests for two slots and a queue of two places; fibers may switch between
\* any two synchronous effects, a browser may crash, allocations fail and the pool
\* may be closed at any time.  At most four browsers run or wait to be closed.
CONSTANTS
  q1 = q1
  q2 = q2
  q3 = q3
  NoBrowser = 0
  Request = {q1, q2, q3}
  Browser = {1, 2, 3, 4}
  MaxSlots = 2
  MaxQueue = 2
  Yields = TRUE
  MayClose = TRUE
  MaxCrashes = 1
SPECIFICATION Spec
SYMMETRY Symmetry
INVARIANTS
  SlotsAreCounted
PROPERTIES
  FirstQueuedFirstGranted
