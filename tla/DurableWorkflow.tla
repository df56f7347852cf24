--------------------------- MODULE DurableWorkflow ---------------------------
(***************************************************************************)
(* The durable workflow runner: runner instances in one or several         *)
(* processes advance runs of one plan, step by step, over a shared         *)
(* work-claim store and a shared checkpoint store.                         *)
(*                                                                         *)
(* A call of the runner (start, resumeRun, retryRun, replayRun, cancelRun, *)
(* deferRun) reads the latest checkpoint once and then works from its own  *)
(* copy; everything between two accesses of a store interleaves with the   *)
(* other calls.  For each step it claims the step, executes it, completes  *)
(* the claim, and after checkpointInterval steps it puts a checkpoint at   *)
(* the sequence after the one it started from.                             *)
(*                                                                         *)
(* A resume token is an abstract Output; executing a step produces any of  *)
(* them.  A checkpoint is what its readers tell apart: how many steps are  *)
(* done, the outcome, the token, the code of the failure, the control.  *)
(***************************************************************************)
EXTENDS Naturals, FiniteSets, FiniteSetsExt

CONSTANTS Call,           \* concurrent calls of the workflow runners
          Instance,       \* runner instances, each with a random id
          InstanceOf,     \* [Call -> Instance]
          Run,            \* run ids; the plan's own and those of replays
          PlanRun,        \* createRunId(plan)
          Output,         \* the artifacts and resume token of a step
          NoOutput,       \* nothing executed yet
          NoClaim,        \* the claim id of an absent record
          NoCheckpoint,   \* no record at this sequence
          Steps,          \* plan.steps.length
          Interval,       \* plan.checkpointInterval
          TTL,            \* plan.timeoutMs, the duration of a lease
          Operation,      \* the operations callers use
          Failure,        \* the tags of the errors a step may fail with
          SharedDatabase, \* several processes open the SQLite database
          StepOutlivesLease, \* a step may take longer than timeoutMs
          MaxSequence,    \* a bound on the checkpoints of a run
          MaxFaults,      \* a bound on failing steps and store calls
          MaxCrashes      \* a bound on crashing instances

ASSUME PlanAssumption ==
  /\ Steps \in Nat \ {0} /\ Interval \in Nat \ {0} /\ TTL \in Nat \ {0}
  /\ PlanRun \in Run /\ NoOutput \notin Output
  /\ MaxSequence \in Nat \ {0} /\ MaxFaults \in Nat /\ MaxCrashes \in Nat
ASSUME InstanceAssumption == InstanceOf \in [Call -> Instance]

INSTANCE WorkClaims WITH ClaimId <- Instance \X Nat

Sequence == 1..MaxSequence

\* The code that is persisted for an error, by its tag; the errors of the stores
\* and every unknown one count as an unavailable provider.
FailureCodeOf(tag) ==
  CASE tag = "TimeoutError"      -> "timeout"
    [] tag = "RenderCrashError"  -> "render_crash"
    [] tag = "PolicyViolation"   -> "policy_violation"
    [] tag = "ExtractionMismatch" -> "extraction_mismatch"
    [] tag = "ParserFailure"     -> "parser_failure"
    [] tag = "DriftDetected"     -> "drift_detected"
    [] OTHER                     -> "provider_unavailable"

\* Whether a failure with a code may be retried.
Retryable(code) == code \in {"timeout", "render_crash", "provider_unavailable"}

FailureCodes ==
  {"none", "provider_unavailable"} \cup {FailureCodeOf(tag) : tag \in Failure}

Checkpoint ==
  [done      : 0..Steps,
   outcome   : {"running", "succeeded", "failed", "cancelled"},
   token     : Output \cup {NoOutput},
   failure   : FailureCodes,
   control   : {"none", "cancel", "defer", "retry"}]

ASSUME NoRecordAssumption == NoCheckpoint \notin Checkpoint

CallState ==
  [pc        : {"idle", "claiming", "executing", "looking", "writing",
                "reloading", "gone"},
   operation : {"none", "start", "resume", "retry", "replay", "cancel",
                "defer"},
   run       : Run,
   base      : 0..MaxSequence,
   done      : 0..Steps,
   executed  : 0..Interval,
   token     : Output \cup {NoOutput},
   outcome   : {"running", "succeeded", "failed", "cancelled"},
   failure   : FailureCodes,
   answer    : {"none", "stored", "failed", "refused", "duplicate",
                "corrupted", "unavailable"}]

VARIABLES checkpoints,  \* [Run -> [Sequence -> Checkpoint or NoCheckpoint]]
          claims,       \* [Run -> [1..Steps -> WorkClaimRecord]]
          calls,        \* [Call -> CallState]
          acknowledged, \* history: the checkpoints callers were told of
          faults,       \* failures so far
          crashes       \* crashes so far

vars == <<checkpoints, claims, calls, acknowledged, faults, crashes>>

Idle ==
  [pc |-> "idle", operation |-> "none", run |-> PlanRun, base |-> 0,
   done |-> 0, executed |-> 0, token |-> NoOutput, outcome |-> "running",
   failure |-> "none", answer |-> "none"]

TypeOK ==
  /\ checkpoints \in [Run -> [Sequence -> Checkpoint \cup {NoCheckpoint}]]
  /\ claims \in [Run -> [1..Steps -> WorkClaimRecord]]
  /\ calls \in [Call -> CallState]
  /\ acknowledged \subseteq Run \X Sequence \X Checkpoint
  /\ faults \in 0..MaxFaults
  /\ crashes \in 0..MaxCrashes

Init ==
  /\ checkpoints = [r \in Run |-> [s \in Sequence |-> NoCheckpoint]]
  /\ claims = [r \in Run |-> [n \in 1..Steps |-> AbsentRecord]]
  /\ calls = [c \in Call |-> Idle]
  /\ acknowledged = {}
  /\ faults = 0
  /\ crashes = 0

-----------------------------------------------------------------------------
\* The sequences of the stored checkpoints of a run.
Stored(r) == {s \in Sequence : checkpoints[r][s] # NoCheckpoint}

LatestSequence(r) == Max(Stored(r) \cup {0})

\* The step a call works on, its claim id and its claim's sequence.
CurrentStep(call) == call.done + 1

ClaimSequence(call) == call.base + call.executed + 1

ClaimIdOf(c) == <<InstanceOf[c], ClaimSequence(calls[c])>>

ClaimOf(c) == claims[calls[c].run][CurrentStep(calls[c])]

SetClaim(c, record) ==
  claims' = [claims EXCEPT ![calls[c].run][CurrentStep(calls[c])] = record]

\* A call returns: only the operation and its answer are remembered.
Ended(call, answer) ==
  [Idle EXCEPT !.operation = call.operation, !.answer = answer]

End(c, answer) == calls' = [calls EXCEPT ![c] = Ended(@, answer)]

\* runUntilCheckpoint starts from a restored or initial state.
Batch(operation, r, base, done, token) ==
  [Idle EXCEPT !.pc = "claiming", !.operation = operation, !.run = r,
               !.base = base, !.done = done, !.token = token]

\* persistCheckpoint is called from the state of a call.
Persisting(call, outcome, failure) ==
  [call EXCEPT !.pc = "looking", !.outcome = outcome, !.failure = failure]

\* advanceState after a step, and the loop condition of runUntilCheckpoint.
Advanced(call, token) ==
  LET next == [call EXCEPT !.pc = "claiming", !.done = @ + 1,
                           !.executed = @ + 1, !.token = token]
  IN  IF next.done = Steps THEN Persisting(next, "succeeded", "none")
      ELSE IF next.executed = Interval THEN Persisting(next, "running", "none")
      ELSE next

\* The checkpoint record that persistCheckpoint builds.
CheckpointOf(call) ==
  [done      |-> call.done,
   outcome   |-> call.outcome,
   token     |-> call.token,
   failure   |-> call.failure,
   control   |-> IF call.operation \in {"cancel", "defer", "retry"}
                 THEN call.operation ELSE "none"]

\* validateCheckpointAgainstPlan: a checkpoint without pending steps has succeeded.
MatchesPlan(checkpoint) ==
  checkpoint.done = Steps => checkpoint.outcome = "succeeded"

\* What the schemas ask of a checkpoint's control and failure, in an inspection, too.
ControlFits(checkpoint) ==
  /\ checkpoint.control = "cancel" => checkpoint.outcome = "cancelled"
  /\ checkpoint.control = "defer" => checkpoint.outcome = "running"
  /\ checkpoint.control = "retry" => checkpoint.outcome # "cancelled"
  /\ checkpoint.outcome = "failed" <=> checkpoint.failure # "none"

\* buildInspectionSnapshot, without the timings of the run.
Inspection(checkpoint) ==
  [status    |-> checkpoint.outcome,
   planned   |-> Steps,
   completed |-> checkpoint.done,
   pending   |-> Steps - checkpoint.done,
   untilNext |-> IF checkpoint.done = Steps THEN 0
                 ELSE Min({Interval, Steps - checkpoint.done})]

\* The stats, the progress and the budget of an inspection.
ProgressAccepted(inspection) ==
  /\ inspection.completed + inspection.pending = inspection.planned
  /\ inspection.status = "succeeded" => inspection.pending = 0
  /\ inspection.untilNext <= Interval

\* inspect answers with a snapshot of a checkpoint, and does not fail.
Inspectable(checkpoint) ==
  /\ MatchesPlan(checkpoint)
  /\ ProgressAccepted(Inspection(checkpoint))
  /\ ControlFits(checkpoint)

\* The result schema of a control operation: who answers with an earlier checkpoint
\* answers with one that the same operation wrote, or none did.
ResultAccepted(operation, checkpoint) ==
  /\ \/ checkpoint.control = operation
     \/ operation \in {"resume", "replay"} /\ checkpoint.control = "none"
  /\ operation = "cancel" => checkpoint.outcome = "cancelled"
  /\ operation = "defer" => checkpoint.outcome = "running"

Fault == faults < MaxFaults /\ faults' = faults + 1

-----------------------------------------------------------------------------
(* The calls: each reads the latest checkpoint of a run and decides.        *)

\* restoreExecutionState: a checkpoint that does not match the plan ends the call.
Restored(latest, call) == IF MatchesPlan(latest) THEN call ELSE Ended(call, "corrupted")

Continue(c, operation, r, latest) ==
  /\ LatestSequence(r) < MaxSequence
  /\ calls' = [calls EXCEPT ![c] =
                 Restored(latest, Batch(operation, r, LatestSequence(r), latest.done,
                                        latest.token))]

\* cancelRun and deferRun persist the state they restored as it is.
Control(c, operation, r, latest, outcome) ==
  /\ LatestSequence(r) < MaxSequence
  /\ calls' = [calls EXCEPT ![c] =
                 Restored(latest, Persisting(Batch(operation, r, LatestSequence(r),
                                                   latest.done, latest.token),
                                             outcome, "none"))]

Answer(c, operation, answer) ==
  calls' = [calls EXCEPT ![c] = Ended(Batch(operation, PlanRun, 0, 0, NoOutput),
                                      answer)]

\* start: it never looks for an earlier checkpoint of the run.
Start(c) ==
  /\ calls[c].pc = "idle"
  /\ "start" \in Operation
  /\ calls' = [calls EXCEPT ![c] = Batch("start", PlanRun, 0, 0, NoOutput)]
  /\ UNCHANGED <<checkpoints, claims, acknowledged, faults, crashes>>

\* A bug for the checks to find: resumeRun continues failed runs, too.
ResumesFailedRuns(c, r, latest) ==
  \/ latest.outcome = "cancelled" /\ Answer(c, "resume", "refused")
  \/ latest.outcome = "succeeded" /\ Answer(c, "resume", "stored")
  \/ latest.outcome \in {"running", "failed"} /\ Continue(c, "resume", r, latest)

\* resumeRun, through resume and resumeFromCheckpoint.  A finished run is
\* returned as it is, which the result schema refuses after a retry.
Resume(c, r, latest) ==
  \/ /\ latest.outcome \in {"cancelled", "failed"}
     /\ Answer(c, "resume", "refused")
  \/ /\ latest.outcome = "succeeded"
     /\ Answer(c, "resume", IF ResultAccepted("resume", latest) THEN "stored"
                            ELSE "corrupted")
  \/ /\ latest.outcome = "running"
     /\ Continue(c, "resume", r, latest)

\* retryRun, through resumeFromCheckpoint.
Retry(c, r, latest) ==
  \/ /\ ~(latest.outcome = "failed" /\ Retryable(latest.failure))
     /\ Answer(c, "retry", "refused")
  \/ /\ latest.outcome = "failed" /\ Retryable(latest.failure)
     /\ Continue(c, "retry", r, latest)

\* A bug for the checks to find: cancelRun persists the outcome it found.
CancelsInName(c, r, latest) ==
  \/ /\ latest.outcome = "cancelled"
     /\ Answer(c, "cancel", "stored")
  \/ /\ latest.outcome = "succeeded"
     /\ Answer(c, "cancel", "refused")
  \/ /\ latest.outcome \in {"running", "failed"}
     /\ Control(c, "cancel", r, latest, latest.outcome)

\* cancelRun; a cancelled run answers with its checkpoint again.
Cancel(c, r, latest) ==
  \/ /\ latest.outcome = "cancelled"
     /\ Answer(c, "cancel", "stored")
  \/ /\ latest.outcome = "succeeded"
     /\ Answer(c, "cancel", "refused")
  \/ /\ latest.outcome \in {"running", "failed"}
     /\ Control(c, "cancel", r, latest, "cancelled")

\* deferRun; a deferred run answers with its checkpoint again.
Defer(c, r, latest) ==
  \/ /\ latest.outcome = "running" /\ latest.control = "defer"
     /\ Answer(c, "defer", "stored")
  \/ /\ latest.outcome # "running"
     /\ Answer(c, "defer", "refused")
  \/ /\ latest.outcome = "running" /\ latest.control # "defer"
     /\ Control(c, "defer", r, latest, "running")

\* replayRun: another run of the plan from its first step.  Its run id is
\* made of the source checkpoint and the time, so two replays may share it.
Replay(c, r) ==
  \E replay \in Run \ {PlanRun, r} :
    calls' = [calls EXCEPT ![c] = Batch("replay", replay, 0, 0, NoOutput)]

\* Any operation on a run that has a checkpoint.
Operate(c, operation, r) ==
  /\ calls[c].pc = "idle"
  /\ operation \in Operation
  /\ Stored(r) # {}
  /\ LET latest == checkpoints[r][LatestSequence(r)] IN
     \/ operation = "resume" /\ Resume(c, r, latest)
     \/ operation = "retry"  /\ Retry(c, r, latest)
     \/ operation = "cancel" /\ Cancel(c, r, latest)
     \/ operation = "defer"  /\ Defer(c, r, latest)
     \/ operation = "replay" /\ Replay(c, r)
  /\ UNCHANGED <<checkpoints, claims, acknowledged, faults, crashes>>

-----------------------------------------------------------------------------
(* runUntilCheckpoint: claim a step, execute it, complete the claim.        *)

Decision(c) == ClaimDecision(ClaimOf(c), ClaimIdOf(c), ClaimSequence(calls[c]))

\* The claim is acquired and the step begins to execute.
Acquire(c) ==
  /\ calls[c].pc = "claiming"
  /\ Decision(c) = "acquired"
  /\ SetClaim(c, GrantedRecord(ClaimOf(c), ClaimIdOf(c),
                               ClaimSequence(calls[c]), TTL))
  /\ calls' = [calls EXCEPT ![c].pc = "executing"]
  /\ UNCHANGED <<checkpoints, acknowledged, faults, crashes>>

\* restoreClaimedStepState: the step's stored token stands for executing it.
Restore(c) ==
  /\ calls[c].pc = "claiming"
  /\ Decision(c) \in {"alreadyCompleted", "superseded"}
  /\ IF ClaimOf(c).output = NoOutput
     THEN End(c, "corrupted")
     ELSE calls' = [calls EXCEPT ![c] = Advanced(@, ClaimOf(c).output)]
  /\ UNCHANGED <<checkpoints, claims, acknowledged, faults, crashes>>

\* Another claim is live; no checkpoint is written.
Duplicate(c) ==
  /\ calls[c].pc = "claiming"
  /\ Decision(c) = "alreadyClaimed"
  /\ End(c, "duplicate")
  /\ UNCHANGED <<checkpoints, claims, acknowledged, faults, crashes>>

\* The claim store fails, before or after its transaction committed.
ClaimUnavailable(c, committed) ==
  /\ calls[c].pc = "claiming"
  /\ Fault
  /\ IF committed /\ Decision(c) = "acquired"
     THEN SetClaim(c, GrantedRecord(ClaimOf(c), ClaimIdOf(c),
                                    ClaimSequence(calls[c]), TTL))
     ELSE UNCHANGED claims
  /\ calls' = [calls EXCEPT ![c] = Persisting(@, "failed", "provider_unavailable")]
  /\ UNCHANGED <<checkpoints, acknowledged, crashes>>

\* A bug for the checks to find: the answer of complete is ignored.
FinishWithoutClaim(c, output) ==
  /\ calls[c].pc = "executing"
  /\ SetClaim(c, IF CanComplete(ClaimOf(c), ClaimIdOf(c))
                 THEN CompletedRecord(ClaimOf(c), output) ELSE ClaimOf(c))
  /\ calls' = [calls EXCEPT ![c] = Advanced(@, output)]
  /\ UNCHANGED <<checkpoints, acknowledged, faults, crashes>>

\* The step succeeded and its claim is completed; a lost claim ends the call.
FinishStep(c, output) ==
  /\ calls[c].pc = "executing"
  /\ IF CanComplete(ClaimOf(c), ClaimIdOf(c))
     THEN /\ SetClaim(c, CompletedRecord(ClaimOf(c), output))
          /\ calls' = [calls EXCEPT ![c] = Advanced(@, output)]
     ELSE /\ End(c, "duplicate")
          /\ UNCHANGED claims
  /\ UNCHANGED <<checkpoints, acknowledged, faults, crashes>>

\* The step succeeded but completing its claim fails, committed or not.
CompletionUnavailable(c, output, committed) ==
  /\ calls[c].pc = "executing"
  /\ Fault
  /\ IF committed /\ CanComplete(ClaimOf(c), ClaimIdOf(c))
     THEN SetClaim(c, CompletedRecord(ClaimOf(c), output))
     ELSE UNCHANGED claims
  /\ calls' = [calls EXCEPT ![c] = Persisting(@, "failed", "provider_unavailable")]
  /\ UNCHANGED <<checkpoints, acknowledged, crashes>>

\* The step failed: its claim is released, whatever release answers and even
\* when it fails; corruption ends the call, other failures are persisted.
FailStep(c, failure, released) ==
  /\ calls[c].pc = "executing"
  /\ Fault
  /\ IF released /\ CanRelease(ClaimOf(c), ClaimIdOf(c))
     THEN SetClaim(c, ReleasedRecord(ClaimOf(c)))
     ELSE UNCHANGED claims
  /\ IF failure = "CheckpointCorruption"
     THEN End(c, "corrupted")
     ELSE calls' = [calls EXCEPT ![c] =
                      Persisting(@, "failed", FailureCodeOf(failure))]
  /\ UNCHANGED <<checkpoints, acknowledged, crashes>>

-----------------------------------------------------------------------------
(* persistCheckpoint and the checkpoint store's put: look the id up, write  *)
(* the row, reload it.  Within one process nothing runs in between.         *)

Target(call) == call.base + 1

\* No other put is under way, or the database is shared with a process that does
\* not wait for it (or the scheduler makes a fiber yield inside its put).
MayEnterPut(c) ==
  SharedDatabase \/ \A d \in Call \ {c} : calls[d].pc \notin {"writing", "reloading"}

\* The checkpoint is returned to the caller, or the step's error is.
Acknowledge(c) ==
  /\ acknowledged' = acknowledged \cup
       {<<calls[c].run, Target(calls[c]), CheckpointOf(calls[c])>>}
  /\ End(c, IF calls[c].outcome = "failed" THEN "failed" ELSE "stored")

\* A bug for the checks to find: put writes without looking the id up.
LookUpNothing(c, sameInstant) ==
  /\ calls[c].pc = "looking"
  /\ MayEnterPut(c)
  /\ calls' = [calls EXCEPT ![c].pc = "writing"]
  /\ UNCHANGED <<checkpoints, claims, acknowledged, faults, crashes>>

\* put finds no such id, or the same checkpoint stored at the same instant,
\* or a different one, which it refuses to overwrite.
LookUpCheckpoint(c, sameInstant) ==
  /\ calls[c].pc = "looking"
  /\ MayEnterPut(c)
  /\ LET existing == checkpoints[calls[c].run][Target(calls[c])] IN
     \/ /\ existing = NoCheckpoint
        /\ calls' = [calls EXCEPT ![c].pc = "writing"]
        /\ UNCHANGED acknowledged
     \/ /\ existing = CheckpointOf(calls[c])
        /\ sameInstant
        /\ Acknowledge(c)
     \/ /\ existing # NoCheckpoint
        /\ existing # CheckpointOf(calls[c]) \/ ~sameInstant
        /\ End(c, "corrupted")
        /\ UNCHANGED acknowledged
  /\ UNCHANGED <<checkpoints, claims, faults, crashes>>

\* insert ... on conflict(id) do update.
WriteCheckpoint(c) ==
  /\ calls[c].pc = "writing"
  /\ checkpoints' = [checkpoints EXCEPT ![calls[c].run][Target(calls[c])] =
                       CheckpointOf(calls[c])]
  /\ calls' = [calls EXCEPT ![c].pc = "reloading"]
  /\ UNCHANGED <<claims, acknowledged, faults, crashes>>

\* put reads the row back and compares its checksum with what it wrote.
ReloadCheckpoint(c) ==
  /\ calls[c].pc = "reloading"
  /\ IF checkpoints[calls[c].run][Target(calls[c])] = CheckpointOf(calls[c])
     THEN Acknowledge(c)
     ELSE End(c, "corrupted") /\ UNCHANGED acknowledged
  /\ UNCHANGED <<checkpoints, claims, faults, crashes>>

\* The database fails at any of the three: the call fails.
PutUnavailable(c) ==
  /\ calls[c].pc \in {"looking", "writing", "reloading"}
  /\ Fault
  /\ End(c, "unavailable")
  /\ UNCHANGED <<checkpoints, claims, acknowledged, crashes>>

-----------------------------------------------------------------------------
\* A process dies with the instance in it and all of its calls.
Crash(i) ==
  /\ crashes < MaxCrashes
  /\ \E c \in Call : InstanceOf[c] = i /\ calls[c].pc \notin {"idle", "gone"}
  /\ crashes' = crashes + 1
  /\ calls' = [c \in Call |-> IF InstanceOf[c] = i
                              THEN [Idle EXCEPT !.pc = "gone"] ELSE calls[c]]
  /\ UNCHANGED <<checkpoints, claims, acknowledged, faults>>

\* A live call executes under a claim that the next instant would end.
WouldOutlive(c) ==
  /\ calls[c].pc = "executing"
  /\ ClaimOf(c).claimId = ClaimIdOf(c)
  /\ ClaimOf(c).lease = 1

\* An instant passes.
Tick ==
  /\ \E r \in Run, n \in 1..Steps : ~IsExpired(claims[r][n])
  /\ StepOutlivesLease \/ ~\E c \in Call : WouldOutlive(c)
  /\ claims' = [r \in Run |-> [n \in 1..Steps |-> Aged(claims[r][n])]]
  /\ UNCHANGED <<checkpoints, calls, acknowledged, faults, crashes>>

Next ==
  \/ \E c \in Call :
       \/ Start(c)
       \/ \E operation \in Operation, r \in Run : Operate(c, operation, r)
       \/ Acquire(c)
       \/ Restore(c)
       \/ Duplicate(c)
       \/ \E committed \in BOOLEAN : ClaimUnavailable(c, committed)
       \/ \E output \in Output : FinishStep(c, output)
       \/ \E output \in Output, committed \in BOOLEAN :
            CompletionUnavailable(c, output, committed)
       \/ \E failure \in Failure, released \in BOOLEAN :
            FailStep(c, failure, released)
       \/ \E sameInstant \in BOOLEAN : LookUpCheckpoint(c, sameInstant)
       \/ WriteCheckpoint(c)
       \/ ReloadCheckpoint(c)
       \/ PutUnavailable(c)
  \/ \E i \in Instance : Crash(i)
  \/ Tick

Spec == Init /\ [][Next]_vars

\* What one pending call does next, but for failing.
Proceed(c) ==
  \/ Acquire(c) \/ Restore(c) \/ Duplicate(c)
  \/ \E output \in Output : FinishStep(c, output)
  \/ LookUpCheckpoint(c, FALSE) \/ WriteCheckpoint(c) \/ ReloadCheckpoint(c)

\* Whoever supervises the plan's run starts it, retries it after a failure and
\* resumes it otherwise.
Supervise(c) ==
  \/ Stored(PlanRun) = {} /\ Start(c)
  \/ /\ Stored(PlanRun) # {}
     /\ \E operation \in {"resume", "retry"} :
          /\ operation = "retry" <=>
               checkpoints[PlanRun][LatestSequence(PlanRun)].outcome = "failed"
          /\ Operate(c, operation, PlanRun)

\* Pending calls proceed, time passes, and the run is supervised.
FairSpec ==
  /\ Spec
  /\ \A c \in Call : WF_vars(Proceed(c)) /\ SF_vars(Supervise(c))
  /\ WF_vars(Tick)

-----------------------------------------------------------------------------
\* A checkpoint that was returned to a caller stays stored: a run resumed by
\* anyone starts from what its callers have seen.
AcknowledgedIsKept ==
  \A entry \in acknowledged : checkpoints[entry[1]][entry[2]] = entry[3]

\* A checkpoint never runs ahead of, or disagrees with, the work claims: every
\* step it counts as done has a completed claim, and its token is the one that
\* the completion of its last step stored.
CheckpointMatchesClaims ==
  \A r \in Run : \A s \in Stored(r) :
    LET checkpoint == checkpoints[r][s] IN
      /\ \A n \in 1..checkpoint.done : claims[r][n].status = "completed"
      /\ checkpoint.token = IF checkpoint.done = 0 THEN NoOutput
                            ELSE claims[r][checkpoint.done].output

\* What may be stored right after a checkpoint: nothing after a finished or
\* cancelled run, only a retry or a cancellation after a failure and no retry
\* after a permanent one, and never a checkpoint with fewer steps done.
MayFollow(earlier, later) ==
  /\ earlier.outcome \notin {"succeeded", "cancelled"}
  /\ earlier.outcome = "failed" => later.control \in {"retry", "cancel"}
  /\ later.control = "retry" => earlier.outcome = "failed" /\ Retryable(earlier.failure)
  /\ earlier.done <= later.done

\* The stored checkpoints of a run form one history, although every call
\* writes from a checkpoint that may no longer be the latest.
OneHistory ==
  \A r \in Run : \A s \in Stored(r) \ {1} :
    /\ s - 1 \in Stored(r)
    /\ MayFollow(checkpoints[r][s - 1], checkpoints[r][s])

\* Whatever calls, failures and crashes wrote a checkpoint, inspect can show it to an
\* operator: it agrees with its plan, its stats, its control and its failure.
EveryCheckpointInspects ==
  \A r \in Run : \A s \in Stored(r) : Inspectable(checkpoints[r][s])

\* c executes a step of run r under a claim that is still its own and live.
HoldsStep(c, r, n) ==
  /\ calls[c].pc = "executing"
  /\ calls[c].run = r
  /\ CurrentStep(calls[c]) = n
  /\ claims[r][n].claimId = ClaimIdOf(c)
  /\ claims[r][n].status = "claimed"
  /\ ~IsExpired(claims[r][n])

\* A call never begins to execute a step that another call is executing under
\* a live claim, and never one whose claim was completed.
NoConcurrentDuplicate ==
  [][\A c \in Call, r \in Run, n \in 1..Steps :
       HoldsStep(c, r, n)' /\ calls[c].pc = "claiming" =>
         /\ claims[r][n].status # "completed"
         /\ \A d \in Call \ {c} : ~HoldsStep(d, r, n)]_vars

\* A retry of a failed checkpoint with a retryable failure never finds the
\* durable state corrupted: it continues the run or fails retryably again.
RetryNeverCorrupted ==
  \A c \in Call :
    calls[c].operation = "retry" => calls[c].answer # "corrupted"

\* A runner that lost its work claim while executing a step does not persist a
\* failed checkpoint for that step.  The code does not keep this: executeStepWithClaim
\* ignores what release answers.
LostClaimWritesNoFailure ==
  [][\A c \in Call :
       calls[c].pc = "executing" /\ calls'[c].pc = "looking"
         /\ calls'[c].outcome = "failed"
         => ClaimOf(c).claimId = ClaimIdOf(c)]_vars

\* A run whose calls crash, collide and fail retryably still ends: its latest
\* checkpoint becomes succeeded, provided that steps end within their lease.
RunSettles ==
  <>[](Stored(PlanRun) # {} /\ checkpoints[PlanRun][LatestSequence(PlanRun)].outcome = "succeeded")
=============================================================================
