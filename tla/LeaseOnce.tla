------------------------------ MODULE LeaseOnce ------------------------------
(***************************************************************************)
(* What a workflow work-claim store promises, without records, sequences   *)
(* or clocks: at any time a piece of work is held by at most one claim, a  *)
(* holder may lose it when its lease lapses, and the work is finished at   *)
(* most once, with an output that never changes afterwards.                *)
(***************************************************************************)
CONSTANTS Work,      \* the pieces of work
          Worker,    \* whoever may hold one
          Output,    \* what finishing may produce
          Free,      \* nobody holds the work
          Unfinished \* the work has no output yet

VARIABLES holder,    \* [Work -> Worker or Free]
          result     \* [Work -> Output or Unfinished]

vars == <<holder, result>>

Init ==
  /\ holder = [w \in Work |-> Free]
  /\ result = [w \in Work |-> Unfinished]

\* Work that is free and unfinished is taken.
Acquire(w, p) ==
  /\ holder[w] = Free
  /\ result[w] = Unfinished
  /\ holder' = [holder EXCEPT ![w] = p]
  /\ UNCHANGED result

\* Some work is given back, or the leases on it lapse together.
Lapse(lapsed) ==
  /\ holder' = [w \in Work |-> IF w \in lapsed THEN Free ELSE holder[w]]
  /\ UNCHANGED result

\* Work is finished by its holder, or by a past holder that nobody replaced.
Finish(w, p, o) ==
  /\ holder[w] \in {p, Free}
  /\ result[w] = Unfinished
  /\ holder' = [holder EXCEPT ![w] = Free]
  /\ result' = [result EXCEPT ![w] = o]

Next ==
  \/ \E w \in Work, p \in Worker : Acquire(w, p)
  \/ \E lapsed \in SUBSET Work : Lapse(lapsed)
  \/ \E w \in Work, p \in Worker, o \in Output : Finish(w, p, o)

Spec == Init /\ [][Next]_vars
=============================================================================
