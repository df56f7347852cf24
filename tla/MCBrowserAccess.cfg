\* Three captures of one scope, one of which an interruption may cut short.
CONSTANTS
  c1 = c1
  c2 = c2
  c3 = c3
  Captures = {c1, c2, c3}
  CutShort = {c3}
  Limits <- MCLimits
  Threshold = 1
SPECIFICATION Spec
INVARIANTS
  EachBrowserHasItsCloser
  ClosedScopeIsClean
PROPERTIES
  CapturesEnd
