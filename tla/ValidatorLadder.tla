-------------------------- MODULE ValidatorLadder --------------------------
(***************************************************************************)
(* The validator ladder of site packs (libs/foundation/core:               *)
(* validator-ladder-runtime.ts): what was observed of a pack becomes the   *)
(* set of gates it failed and the action the pack deserves; and what the   *)
(* reflection engine (reflection-engine-runtime.ts) demands of the two.    *)
(***************************************************************************)
\* What the ladder looks at, and the gate each of them belongs to.
GateOf ==
    [recall |-> "requiredFieldCoverage", falsePositives |-> "falsePositiveRate",
     drift |-> "incumbentComparison", latency |-> "incumbentComparison",
     memory |-> "incumbentComparison", canary |-> "incumbentComparison",
     replay |-> "replayDeterminism", resume |-> "workflowResume",
     soak |-> "soakStability", chaos |-> "soakStability",
     redaction |-> "securityRedaction"]

Probes == DOMAIN GateOf
Gates == {GateOf[p] : p \in Probes}
CriticalGates == {"workflowResume", "securityRedaction", "soakStability"}

PackStates == {"draft", "shadow", "active", "guarded", "quarantined", "retired"}
PackActions == {"promote-shadow", "active", "guarded", "quarantined", "retired"}

FailedGates(failedProbes) == {GateOf[p] : p \in failedProbes}

ResolveAction(state, failed) ==
    IF failed = {} THEN (IF state = "draft" THEN "promote-shadow" ELSE "active")
    ELSE IF failed \cap CriticalGates # {}
         THEN (IF state = "draft" THEN "retired" ELSE "quarantined")
    ELSE "guarded"

TargetState(action) == IF action = "promote-shadow" THEN "shadow" ELSE action

ConsistentVerdict(v) ==
    CASE v.action \in {"promote-shadow", "active"} -> v.failed = {}
      [] v.action = "guarded" -> v.failed # {} /\ v.failed \cap CriticalGates = {}
      [] v.action = "quarantined" -> v.failed \cap CriticalGates # {}
      [] v.action = "retired" -> v.failed # {}
=============================================================================
