--------------------------- MODULE ChallengeSolver ---------------------------
(***************************************************************************)
(* How the SDK waits for a challenge page to clear                         *)
(* (src/sdk/browser-challenge-runtime.ts, resolveBrowserChallenges): a     *)
(* bounded number of attempts under one deadline.  The page changes by     *)
(* itself, so every read of it may show anything; what the solver reports  *)
(* rests on what it read last.                                             *)
(*                                                                         *)
(* The polling loops end with their last read or with their deadline;      *)
(* which of the two came first is left open.  "interactive" challenges are *)
(* handled as "managed" ones.                                              *)
(***************************************************************************)
EXTENDS Naturals

CONSTANTS Looks,        \* what a read of the page may show
          MaxAttempts   \* maxAttempts of the mediation policy

ChallengeTypes == {"none", "nonInteractive", "managed", "embedded"}

ASSUME SolverAssumption ==
    /\ Looks \subseteq [type : ChallengeTypes, waiting : BOOLEAN, verifying : BOOLEAN]
    /\ MaxAttempts \in Nat \ {0}

ClearLook == [type |-> "none", waiting |-> FALSE, verifying |-> FALSE]

IsCleared(look) == ~look.waiting /\ look.type = "none"

VARIABLES
    solverAt,       \* the place in the solver's loop
    attemptIndex,
    challengeType,  \* currentType
    look,           \* the last state that was read
    baseline,       \* the state the attempt began with
    changed,        \* observedStateChange
    expired,        \* the deadline of the whole resolution has passed
    resolution      \* what was reported, or Unresolved

solverVars == <<solverAt, attemptIndex, challengeType, look, baseline, changed, expired, resolution>>

Unresolved == [detected |-> FALSE, followUp |-> FALSE, refresh |-> FALSE, type |-> "none"]

SolverInit ==
    /\ solverAt = "off" /\ attemptIndex = 0 /\ challengeType = "none"
    /\ look = ClearLook /\ baseline = ClearLook
    /\ changed = FALSE /\ expired = FALSE
    /\ resolution = Unresolved

\* The caller keeps nothing of the solver but its resolution.
SolverForgotten ==
    /\ solverAt' = "off" /\ attemptIndex' = 0 /\ challengeType' = "none"
    /\ look' = ClearLook /\ baseline' = ClearLook
    /\ changed' = FALSE /\ expired' = FALSE
    /\ resolution' = Unresolved

-----------------------------------------------------------------------------
SolverGoes(place) == solverAt' = place

\* currentType = state.type ?? currentType
Adopt(seen) == challengeType' = IF seen.type = "none" THEN challengeType ELSE seen.type

Report(detected, followUp, refresh, type) ==
    /\ SolverGoes("reported")
    /\ resolution' = [detected |-> detected, followUp |-> followUp, refresh |-> refresh,
                      type |-> type]

\* Another attempt if there is one and time for it, otherwise the end.
RetryOrReport(refresh, type) ==
    IF attemptIndex + 1 < MaxAttempts /\ ~expired
    THEN attemptIndex' = attemptIndex + 1 /\ SolverGoes("attempt") /\ UNCHANGED resolution
    ELSE Report(TRUE, FALSE, refresh, type) /\ UNCHANGED attemptIndex

\* resolveInitialChallengeState, from the page content the caller has read.
Inspect(seen) ==
    /\ solverAt = "off"
    /\ look' = seen
    /\ challengeType' = seen.type
    /\ IF seen.type # "none" THEN SolverGoes("attempt") /\ UNCHANGED resolution
       ELSE IF seen.waiting THEN SolverGoes("emerging") /\ UNCHANGED resolution
       ELSE Report(FALSE, FALSE, FALSE, "none")
    /\ UNCHANGED <<attemptIndex, baseline, changed, expired>>

Emerge(seen) ==
    /\ solverAt = "emerging"
    /\ look' = seen
    /\ challengeType' = seen.type
    /\ CASE seen.type # "none" -> SolverGoes("attempt") /\ UNCHANGED resolution
         [] IsCleared(seen) -> Report(FALSE, FALSE, TRUE, "none")
         [] OTHER -> IF expired THEN Report(FALSE, FALSE, FALSE, "none")
                     ELSE UNCHANGED <<solverAt, resolution>>
    /\ UNCHANGED <<attemptIndex, baseline, changed, expired>>

\* The first attempt goes by the state that was read before it.
BeginAttempt(seen) ==
    /\ solverAt = "attempt" /\ ~expired
    /\ attemptIndex = 0 => seen = look
    /\ look' = seen
    /\ IF IsCleared(seen) THEN SolverGoes("confirm") /\ UNCHANGED <<challengeType, baseline>>
       ELSE /\ Adopt(seen)
            /\ baseline' = seen
            /\ SolverGoes(IF challengeType' = "nonInteractive" THEN "wait" ELSE "spinner")
    /\ UNCHANGED <<attemptIndex, changed, expired, resolution>>

\* The loop ends because the time is over.
RunOutOfTime ==
    /\ solverAt = "attempt" /\ expired
    /\ Report(TRUE, FALSE, changed, challengeType)
    /\ UNCHANGED <<attemptIndex, challengeType, look, baseline, changed, expired>>

\* waitForChallengeToClear and the read after it.
Wait(seen) ==
    /\ solverAt = "wait"
    /\ look' = seen
    /\ IF IsCleared(seen)
       THEN /\ Report(TRUE, TRUE, TRUE, challengeType)
            /\ UNCHANGED <<attemptIndex, challengeType, changed>>
       ELSE /\ Adopt(seen)
            /\ changed' = (changed \/ seen # baseline)
            /\ RetryOrReport(seen # baseline, challengeType')
    /\ UNCHANGED <<baseline, expired>>

\* The spinner settled, or did not in time.
SettleChallenge(seen) ==
    /\ solverAt = "spinner"
    /\ look' = seen
    /\ IF IsCleared(seen) THEN SolverGoes("confirm") /\ UNCHANGED <<challengeType, baseline>>
       ELSE Adopt(seen) /\ baseline' = seen /\ SolverGoes("target")
    /\ UNCHANGED <<attemptIndex, changed, expired, resolution>>

TargetFound ==
    /\ solverAt = "target"
    /\ SolverGoes("click")
    /\ UNCHANGED <<attemptIndex, challengeType, look, baseline, changed, expired, resolution>>

TargetMissed(seen) ==
    /\ solverAt = "target"
    /\ look' = seen
    /\ IF IsCleared(seen) THEN SolverGoes("confirm") /\ UNCHANGED <<attemptIndex, resolution>>
       ELSE RetryOrReport(FALSE, challengeType)
    /\ UNCHANGED <<challengeType, baseline, changed, expired>>

Click ==
    /\ solverAt = "click"
    /\ SolverGoes("iterate")
    /\ UNCHANGED <<attemptIndex, challengeType, look, baseline, changed, expired, resolution>>

\* The click fails, or the page has no mouse and the solver gives up.
ClickFails(supported) ==
    /\ solverAt = "click"
    /\ IF supported THEN RetryOrReport(FALSE, challengeType)
       ELSE Report(TRUE, FALSE, FALSE, challengeType) /\ UNCHANGED attemptIndex
    /\ UNCHANGED <<challengeType, look, baseline, changed, expired>>

\* The loop that watches the page after a click reads a cleared state.
ClickClears(seen) ==
    /\ solverAt = "iterate" /\ IsCleared(seen)
    /\ look' = seen
    /\ SolverGoes("confirm")
    /\ UNCHANGED <<attemptIndex, challengeType, baseline, changed, expired, resolution>>

\* It ends without one.  A managed challenge then counts as changed, whatever was
\* read: its loop does not say whether it was exhausted.
ClickChanges(seen, moved) ==
    /\ solverAt = "iterate"
    /\ challengeType # "embedded" => moved
    /\ look' = seen
    /\ Adopt(seen)
    /\ changed' = (changed \/ moved)
    /\ IF attemptIndex + 1 < MaxAttempts
       THEN attemptIndex' = attemptIndex + 1 /\ SolverGoes("attempt") /\ UNCHANGED resolution
       ELSE Report(TRUE, FALSE, changed', challengeType') /\ UNCHANGED attemptIndex
    /\ UNCHANGED <<baseline, expired>>

\* confirmChallengeClearance: a clearance counts when a later read shows it, too.
Confirm(seen) ==
    /\ solverAt = "confirm"
    /\ look' = seen
    /\ IF IsCleared(seen)
       THEN Report(TRUE, TRUE, TRUE, challengeType) /\ UNCHANGED <<attemptIndex, challengeType>>
       ELSE Adopt(seen) /\ RetryOrReport(FALSE, challengeType')
    /\ UNCHANGED <<baseline, changed, expired>>

Expire ==
    /\ solverAt \notin {"off", "reported"} /\ ~expired
    /\ expired' = TRUE
    /\ UNCHANGED <<solverAt, attemptIndex, challengeType, look, baseline, changed, resolution>>

Solve ==
    \/ \E seen \in Looks :
          \/ Inspect(seen) \/ Emerge(seen) \/ BeginAttempt(seen) \/ Wait(seen)
          \/ SettleChallenge(seen) \/ TargetMissed(seen) \/ ClickClears(seen) \/ Confirm(seen)
          \/ \E moved \in BOOLEAN : ClickChanges(seen, moved)
    \/ TargetFound \/ Click
    \/ \E supported \in BOOLEAN : ClickFails(supported)
    \/ RunOutOfTime \/ Expire

-----------------------------------------------------------------------------
\* A challenge is reported as cleared only when the last read of the page, after
\* every wait for it, showed it cleared: not on the strength of an earlier look
\* that the page has since taken back.
ClearanceWasSeenLast ==
    solverAt = "reported" /\ resolution.followUp => IsCleared(look)
=============================================================================
