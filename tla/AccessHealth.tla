----------------------------- MODULE AccessHealth -----------------------------
(***************************************************************************)
(* The health of one access-health subject (a domain, a provider, an       *)
(* egress or identity profile), as access-health-runtime.ts keeps it.      *)
(* quarantinedUntil is the time that is left; the score is a function of   *)
(* the two counts.                                                         *)
(***************************************************************************)
EXTENDS Naturals

CONSTANTS NoQuarantine  \* quarantinedUntil is null

Health(quarantineTime) ==
  [successes     : Nat,
   failures      : Nat,
   successStreak : Nat,
   failureStreak : Nat,
   quarantine    : 0..quarantineTime \cup {NoQuarantine}]

Unseen ==
  [successes |-> 0, failures |-> 0, successStreak |-> 0, failureStreak |-> 0,
   quarantine |-> NoQuarantine]

\* quarantinedUntil > now; one that ended is remembered until it is cleared.
IsQuarantined(health) ==
  health.quarantine # NoQuarantine /\ health.quarantine > 0

QuarantineEnded(health) == health.quarantine = 0

\* One instant passes.
Older(health) ==
  [health EXCEPT !.quarantine = IF IsQuarantined(health) THEN @ - 1 ELSE @]

\* recordFailure.
FailureRecorded(health, policy) ==
  [health EXCEPT
     !.failures      = @ + 1,
     !.failureStreak = @ + 1,
     !.successStreak = 0,
     !.quarantine    = IF /\ ~IsQuarantined(health)
                          /\ health.failureStreak + 1 >= policy.failureThreshold
                       THEN policy.quarantineTime ELSE @]

\* A bug for the checks to find: a success lifts a quarantine that has time left.
SuccessRecordedEarly(health, policy) ==
  [health EXCEPT
     !.successes     = @ + 1,
     !.successStreak = @ + 1,
     !.failureStreak = 0,
     !.quarantine    = IF health.successStreak + 1 >= policy.recoveryThreshold
                       THEN NoQuarantine ELSE @]

\* recordSuccess.
SuccessRecorded(health, policy) ==
  [health EXCEPT
     !.successes     = @ + 1,
     !.successStreak = @ + 1,
     !.failureStreak = 0,
     !.quarantine    = IF /\ QuarantineEnded(health)
                          /\ health.successStreak + 1 >= policy.recoveryThreshold
                       THEN NoQuarantine ELSE @]
=============================================================================
