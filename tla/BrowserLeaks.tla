---------------------------- MODULE BrowserLeaks ----------------------------
(***************************************************************************)
(* The in-memory leak detector of libs/foundation/core: it counts the      *)
(* browsers, contexts and pages it is told of, and raises an alarm after a *)
(* number of consecutive samples over a limit.                             *)
(***************************************************************************)
EXTENDS Integers

CONSTANTS Limits,       \* [browsers, contexts, pages]: how many may be open
          Threshold     \* consecutive violations before an alarm

Resources == {"browsers", "contexts", "pages"}

ASSUME LimitsAssumption ==
    /\ Limits \in [Resources -> Nat \ {0}]
    /\ Threshold \in Nat \ {0}

\* The streak is compared with the threshold only, and is counted up to it.
Detectors == [open: [Resources -> Nat], streak: 0 .. Threshold, alarmed: BOOLEAN]

Unused == [open |-> [r \in Resources |-> 0], streak |-> 0, alarmed |-> FALSE]

\* A count never goes below zero; the attempt counts as a violation instead.
BelowZero(d, resource, delta) == d.open[resource] + delta < 0

AdjustCount(d, resource, delta) ==
    IF BelowZero(d, resource, delta) THEN d.open
    ELSE [d.open EXCEPT ![resource] = @ + delta]

OverLimit(open) == \E r \in Resources : open[r] > Limits[r]

\* One sample: the count changes, and the streak of violations is continued
\* or broken; an alarm is never taken back.
Sampled(d, resource, delta) ==
    LET open == AdjustCount(d, resource, delta)
        violated == BelowZero(d, resource, delta) \/ OverLimit(open)
        streak == IF ~violated THEN 0
                  ELSE IF d.streak < Threshold THEN d.streak + 1
                  ELSE Threshold
    IN  [open |-> open, streak |-> streak,
         alarmed |-> d.alarmed \/ (violated /\ streak = Threshold)]

Opened(d, resource) == Sampled(d, resource, 1)

\* A bug for the checks to find: the close of a resource is not sampled.
ClosedUnseen(d, resource) == d

Closed(d, resource) == Sampled(d, resource, -1)
=============================================================================
