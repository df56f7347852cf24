------------------------ MODULE DurableWorkflowProofs ------------------------
(***************************************************************************)
(* Proofs about the durable workflow runner for any calls, runner          *)
(* instances, runs, plans, operations, failures and crashes.               *)
(*                                                                         *)
(* Every checkpoint can be inspected, without another assumption.  In one  *)
(* process (~SharedDatabase) the checkpoints of a run form one history,    *)
(* and what a caller was told of stays stored.  When every call runs on a  *)
(* runner instance of its own (OwnInstances) the checkpoints agree with    *)
(* the work claims, and no step is executed by two calls at a time.        *)
(*                                                                         *)
(* A step of a call is first reduced to what it makes of the call (it      *)
(* ends, begins, stays or advances) and of the stores; three invariants    *)
(* are then proved of those: CallsIInv, HistoryIInv and ClaimsIInv.        *)
(***************************************************************************)
EXTENDS DurableWorkflow, FiniteSetTheorems, WellFoundedInduction, TLAPS

Working == {"claiming", "executing"}
Persists == {"looking", "writing", "reloading"}
Active(call) == call.pc \in Working \cup Persists

Tokens == Output \cup {NoOutput}
Outcomes == {"running", "succeeded", "failed", "cancelled"}
Operations == {"start", "resume", "retry", "replay", "cancel", "defer"}
Answers == {"stored", "failed", "refused", "duplicate", "corrupted", "unavailable"}

\* A call with steps to do runs, and what a call is about to persist can be inspected.
CallFits(call) ==
  /\ Active(call) => call.base < MaxSequence /\ call.operation \in Operations
  /\ call.pc \in Working =>
       /\ call.done < Steps /\ call.executed < Interval
       /\ call.outcome = "running" /\ call.failure = "none"
       /\ call.operation \notin {"cancel", "defer"}
  /\ call.pc \in Persists => Inspectable(CheckpointOf(call))

-----------------------------------------------------------------------------
(* What the operators build.                                                *)

\* A checkpoint that agrees with its plan and its control has a correct progress.
LEMMA Inspects ==
  ASSUME NEW checkpoint \in Checkpoint, checkpoint.outcome = "succeeded" <=> checkpoint.done = Steps,
         ControlFits(checkpoint)
  PROVE  Inspectable(checkpoint)
<1> DEFINE left == Steps - checkpoint.done
<1>1. /\ checkpoint.done \in Nat /\ checkpoint.done <= Steps /\ Steps \in Nat
      /\ Interval \in Nat /\ left \in Nat
  BY PlanAssumption DEF Checkpoint
<1>2. Min({Interval, left}) <= Interval
  <2>1. \E x \in {Interval, left} : \A y \in {Interval, left} : x =< y
    BY <1>1
  <2>2. /\ Min({Interval, left}) \in {Interval, left}
        /\ \A y \in {Interval, left} : Min({Interval, left}) =< y
    <3> HIDE DEF left
    <3> QED BY <2>1 DEF Min
  <2> QED BY <2>2
<1>3. ProgressAccepted(Inspection(checkpoint))
  BY <1>1, <1>2 DEF ProgressAccepted, Inspection
<1> QED BY <1>3 DEF Inspectable, MatchesPlan

\* The checkpoint of a call is a checkpoint.
LEMMA CheckpointTyped ==
  ASSUME NEW call \in CallState
  PROVE  /\ CheckpointOf(call) \in Checkpoint
         /\ CheckpointOf(call).done = call.done /\ CheckpointOf(call).outcome = call.outcome
         /\ CheckpointOf(call).failure = call.failure /\ CheckpointOf(call).token = call.token
         /\ CheckpointOf(call).control = IF call.operation \in {"cancel", "defer", "retry"}
                                         THEN call.operation ELSE "none"
BY DEF CheckpointOf, Checkpoint, CallState

LEMMA IdleFits == Idle \in CallState /\ CallFits(Idle) /\ [Idle EXCEPT !.pc = "gone"] \in CallState
                  /\ CallFits([Idle EXCEPT !.pc = "gone"])
<1>1. /\ 0 \in 0..MaxSequence /\ 0 \in 0..Steps /\ 0 \in 0..Interval /\ PlanRun \in Run
      /\ "none" \in FailureCodes
  BY PlanAssumption DEF FailureCodes
<1>2. Idle \in CallState /\ [Idle EXCEPT !.pc = "gone"] \in CallState
  BY <1>1 DEF Idle, CallState
<1>3. Idle.pc = "idle" /\ [Idle EXCEPT !.pc = "gone"].pc = "gone"
  BY DEF Idle
<1> QED BY <1>2, <1>3 DEF CallFits, Active, Working, Persists

\* A call that ended.
LEMMA EndedFits ==
  ASSUME NEW call, call.operation \in Operations, NEW answer \in Answers
  PROVE  /\ Ended(call, answer) \in CallState /\ CallFits(Ended(call, answer))
         /\ Ended(call, answer).pc = "idle"
<1> DEFINE next == Ended(call, answer)
<1>1. /\ 0 \in 0..MaxSequence /\ 0 \in 0..Steps /\ 0 \in 0..Interval /\ PlanRun \in Run
      /\ "none" \in FailureCodes
  BY PlanAssumption DEF FailureCodes
<1>2. next \in CallState /\ next.pc = "idle"
  BY <1>1 DEF Ended, Idle, CallState, Operations, Answers
<1> HIDE DEF next
<1>3. CallFits(next)
  BY <1>2 DEF CallFits, Active, Working, Persists
<1> QED BY <1>2, <1>3 DEF next

\* A call that begins.
LEMMA BatchTyped ==
  ASSUME NEW operation \in Operations, NEW r \in Run, NEW base \in 0..MaxSequence,
         NEW done \in 0..Steps, NEW token \in Tokens
  PROVE  LET call == Batch(operation, r, base, done, token) IN
           /\ call \in CallState /\ call.pc = "claiming" /\ call.operation = operation
           /\ call.run = r /\ call.base = base /\ call.done = done /\ call.token = token
           /\ call.executed = 0 /\ call.outcome = "running" /\ call.failure = "none"
<1>1. 0 \in 0..Interval /\ "none" \in FailureCodes
  BY PlanAssumption DEF FailureCodes
<1> QED BY <1>1 DEF Batch, Idle, CallState, Operations, Tokens

LEMMA BatchFits ==
  ASSUME NEW operation \in Operations \ {"cancel", "defer"}, NEW r \in Run,
         NEW base \in 0..MaxSequence, base < MaxSequence,
         NEW done \in 0..Steps, done # Steps, NEW token \in Tokens
  PROVE  CallFits(Batch(operation, r, base, done, token))
<1> DEFINE call == Batch(operation, r, base, done, token)
<1>1. /\ call.pc = "claiming" /\ call.operation = operation /\ call.base = base
      /\ call.done = done /\ call.executed = 0 /\ call.outcome = "running"
      /\ call.failure = "none"
  BY BatchTyped
<1>2. done < Steps /\ 0 < Interval
  BY PlanAssumption
<1> HIDE DEF call
<1>3. CallFits(call)
  BY <1>1, <1>2 DEF CallFits, Active, Working, Persists
<1> QED BY <1>3 DEF call

\* The parts of a call that goes to persist a checkpoint.
LEMMA PersistingTyped ==
  ASSUME NEW call \in CallState, NEW outcome \in Outcomes, NEW failure \in FailureCodes
  PROVE  LET next == Persisting(call, outcome, failure) IN
           /\ next \in CallState /\ next.pc = "looking" /\ next.outcome = outcome
           /\ next.failure = failure /\ next.operation = call.operation /\ next.run = call.run
           /\ next.base = call.base /\ next.done = call.done /\ next.token = call.token
           /\ next.executed = call.executed
BY DEF Persisting, CallState, Outcomes

\* It fits if its outcome agrees with its progress, its failure and its operation.
LEMMA PersistingFits ==
  ASSUME NEW call \in CallState, NEW outcome \in Outcomes, NEW failure \in FailureCodes,
         call.base < MaxSequence, call.operation \in Operations,
         outcome = "succeeded" <=> call.done = Steps,
         outcome = "failed" <=> failure # "none",
         call.operation = "cancel" => outcome = "cancelled",
         call.operation = "defer" => outcome = "running",
         call.operation = "retry" => outcome # "cancelled"
  PROVE  CallFits(Persisting(call, outcome, failure))
<1> DEFINE next == Persisting(call, outcome, failure)
<1>1. /\ next \in CallState /\ next.pc = "looking" /\ next.outcome = outcome
      /\ next.failure = failure /\ next.operation = call.operation
      /\ next.base = call.base /\ next.done = call.done
  BY PersistingTyped
<1> HIDE DEF next
<1>2. /\ CheckpointOf(next) \in Checkpoint /\ CheckpointOf(next).done = call.done
      /\ CheckpointOf(next).outcome = outcome /\ CheckpointOf(next).failure = failure
      /\ CheckpointOf(next).control = IF call.operation \in {"cancel", "defer", "retry"}
                                      THEN call.operation ELSE "none"
  BY <1>1, CheckpointTyped
<1>3. ControlFits(CheckpointOf(next))
  BY <1>2 DEF ControlFits
<1>4. Inspectable(CheckpointOf(next))
  BY <1>2, <1>3, Inspects
<1>5. CallFits(next)
  BY <1>1, <1>4 DEF CallFits, Active, Working, Persists
<1> QED BY <1>5 DEF next

\* A step was done: the call goes on, or persists.
LEMMA AdvancedFits ==
  ASSUME NEW call \in CallState, CallFits(call), call.pc \in Working, NEW token \in Output
  PROVE  LET next == Advanced(call, token) IN
           /\ next \in CallState /\ CallFits(next) /\ next.pc \in {"claiming", "looking"}
           /\ next.operation = call.operation /\ next.run = call.run /\ next.base = call.base
           /\ next.done = call.done + 1 /\ next.token = token
<1> DEFINE step == [call EXCEPT !.pc = "claiming", !.done = @ + 1, !.executed = @ + 1,
                                !.token = token]
           next == Advanced(call, token)
<1>1. /\ call.done \in Nat /\ call.executed \in Nat /\ Steps \in Nat /\ Interval \in Nat
      /\ call.done < Steps /\ call.executed < Interval /\ call.outcome = "running"
      /\ call.failure = "none" /\ call.operation \in Operations \ {"cancel", "defer"}
      /\ call.base < MaxSequence
  BY PlanAssumption DEF CallState, CallFits, Active
<1>2. call.done + 1 \in 0..Steps /\ call.executed + 1 \in 0..Interval
  BY <1>1
<1>3. /\ step \in CallState /\ step.pc = "claiming" /\ step.operation = call.operation
      /\ step.run = call.run /\ step.base = call.base /\ step.done = call.done + 1
      /\ step.token = token /\ step.executed = call.executed + 1
      /\ step.outcome = "running" /\ step.failure = "none"
  BY <1>1, <1>2 DEF CallState
<1>4. next = IF step.done = Steps THEN Persisting(step, "succeeded", "none")
             ELSE IF step.executed = Interval THEN Persisting(step, "running", "none") ELSE step
  BY DEF Advanced
<1>5. "none" \in FailureCodes
  BY DEF FailureCodes
<1> HIDE DEF step, next
<1>6. CASE step.done = Steps
  <2>1. next = Persisting(step, "succeeded", "none") /\ "succeeded" \in Outcomes
    BY <1>4, <1>6 DEF Outcomes
  <2>2. CallFits(next)
    BY <1>1, <1>3, <1>5, <1>6, <2>1, PersistingFits
  <2>3. /\ next \in CallState /\ next.pc = "looking" /\ next.operation = call.operation
        /\ next.run = call.run /\ next.base = call.base /\ next.done = call.done + 1
        /\ next.token = token
    BY <1>3, <1>5, <2>1, PersistingTyped
  <2> QED BY <2>2, <2>3 DEF next
<1>7. CASE step.done # Steps /\ step.executed = Interval
  <2>1. next = Persisting(step, "running", "none") /\ "running" \in Outcomes
    BY <1>4, <1>7 DEF Outcomes
  <2>2. CallFits(next)
    BY <1>1, <1>3, <1>5, <1>7, <2>1, PersistingFits
  <2>3. /\ next \in CallState /\ next.pc = "looking" /\ next.operation = call.operation
        /\ next.run = call.run /\ next.base = call.base /\ next.done = call.done + 1
        /\ next.token = token
    BY <1>3, <1>5, <2>1, PersistingTyped
  <2> QED BY <2>2, <2>3 DEF next
<1>8. CASE step.done # Steps /\ step.executed # Interval
  <2>1. next = step
    BY <1>4, <1>8
  <2>2. step.done < Steps /\ step.executed < Interval
    BY <1>1, <1>2, <1>3, <1>8
  <2>3. CallFits(step)
    BY <1>1, <1>3, <2>2 DEF CallFits, Active, Working, Persists
  <2> QED BY <1>3, <2>1, <2>3 DEF next
<1> QED BY <1>6, <1>7, <1>8

\* A bounded set of numbers has a greatest one.
LEMMA GreatestExists ==
  ASSUME NEW n \in Nat, NEW S, S \subseteq 0..n, S # {}
  PROVE  Max(S) \in S /\ \A y \in S : y <= Max(S)
<1> DEFINE T == {n - s : s \in S}
<1>1. T \subseteq Nat /\ T # {}
  <2>1. \A s \in S : n - s \in Nat
    <3>1. \A s \in S : s \in Nat /\ s <= n
      OBVIOUS
    <3> QED BY <3>1
  <2>2. PICK s \in S : TRUE
    OBVIOUS
  <2>3. n - s \in T
    BY <2>2
  <2> QED BY <2>1, <2>3
<1>2. PICK x \in T : \A y \in T : ~(<<y, x>> \in OpToRel(<, Nat))
  <2> HIDE DEF T
  <2> QED BY <1>1, NatLessThanWellFounded, WFMin
<1>3. \A y \in T : ~(y < x)
  <2>1. \A y \in T : y \in Nat /\ x \in Nat
    BY <1>1
  <2> QED BY <1>2, <2>1 DEF OpToRel
<1>4. PICK s \in S : x = n - s
  OBVIOUS
<1>5. \A y \in S : s >= y
  <2> SUFFICES ASSUME NEW y \in S PROVE s >= y
    OBVIOUS
  <2>1. ~(n - y < n - s)
    BY <1>3, <1>4
  <2>2. s \in 0..n /\ y \in 0..n
    OBVIOUS
  <2> QED BY <2>1, <2>2
<1>6. Max(S) \in S /\ \A y \in S : Max(S) >= y
  BY <1>5 DEF Max
<1> QED BY <1>6

\* The latest checkpoint of a run that has one.
LEMMA LatestIsStored ==
  ASSUME TypeOK, NEW r \in Run, Stored(r) # {}
  PROVE  /\ LatestSequence(r) \in Stored(r) /\ LatestSequence(r) \in Sequence
         /\ checkpoints[r][LatestSequence(r)] \in Checkpoint
<1>1. /\ Stored(r) \cup {0} \subseteq 0..MaxSequence /\ MaxSequence \in Nat
      /\ Stored(r) \subseteq Sequence /\ \A s \in Sequence : s > 0
  BY PlanAssumption DEF Stored, Sequence
<1>2. /\ LatestSequence(r) \in Stored(r) \cup {0}
      /\ \A s \in Stored(r) : s <= LatestSequence(r)
  BY <1>1, GreatestExists DEF LatestSequence
<1>3. LatestSequence(r) # 0
  <2>1. PICK s \in Stored(r) : TRUE
    OBVIOUS
  <2> QED BY <1>1, <1>2, <2>1
<1>4. LatestSequence(r) \in Stored(r) /\ LatestSequence(r) \in Sequence
  BY <1>1, <1>2, <1>3
<1> QED BY <1>4 DEF TypeOK, Stored

\* Calls that begin start a run, or continue it from its latest checkpoint.
Continues(next) ==
  /\ Stored(next.run) # {} /\ next.base = LatestSequence(next.run)
  /\ LET latest == checkpoints[next.run][LatestSequence(next.run)] IN
       /\ next.done = latest.done /\ next.token = latest.token
       /\ MayFollow(latest, CheckpointOf(next))

Begins(next) ==
  /\ next.pc \in {"claiming", "looking"}
  /\ \/ next.base = 0 /\ next.done = 0 /\ next.token = NoOutput
     \/ Continues(next)

CallsIInv ==
  TypeOK /\ EveryCheckpointInspects /\ \A c \in Call : CallFits(calls[c])

\* A call becomes another one.
Becomes(c, next) == next \in CallState /\ CallFits(next) /\ calls' = [calls EXCEPT ![c] = next]

LEMMA AnswerEnds ==
  ASSUME NEW c \in Call, NEW operation \in Operations, NEW answer \in Answers,
         Answer(c, operation, answer)
  PROVE  \E next : Becomes(c, next) /\ ~Active(next)
<1> DEFINE call == Batch(operation, PlanRun, 0, 0, NoOutput)
           next == Ended(call, answer)
<1>1. call.operation = operation
  <2>1. 0 \in 0..MaxSequence /\ 0 \in 0..Steps /\ NoOutput \in Tokens /\ PlanRun \in Run
    BY PlanAssumption DEF Tokens
  <2> QED BY <2>1, BatchTyped
<1>2. calls' = [calls EXCEPT ![c] = next]
  BY DEF Answer
<1> HIDE DEF call
<1>3. next \in CallState /\ CallFits(next) /\ next.pc = "idle"
  BY <1>1, EndedFits
<1> HIDE DEF next
<1>4. Becomes(c, next) /\ ~Active(next)
  BY <1>2, <1>3 DEF Becomes, Active, Working, Persists
<1> QED BY <1>4

\* resumeRun and retryRun.
LEMMA ContinueFits ==
  ASSUME CallsIInv, NEW c \in Call, NEW r \in Run, Stored(r) # {},
         NEW operation \in {"resume", "retry"}, NEW latest,
         latest = checkpoints[r][LatestSequence(r)],
         \/ operation = "resume" /\ latest.outcome = "running"
         \/ operation = "retry" /\ latest.outcome = "failed" /\ Retryable(latest.failure),
         Continue(c, operation, r, latest)
  PROVE  \E next : Becomes(c, next) /\ (~Active(next) \/ Begins(next))
<1> DEFINE call == Batch(operation, r, LatestSequence(r), latest.done, latest.token)
           next == Restored(latest, call)
<1>1. /\ latest \in Checkpoint /\ LatestSequence(r) \in Sequence /\ LatestSequence(r) < MaxSequence
      /\ calls' = [calls EXCEPT ![c] = next]
  BY LatestIsStored DEF Continue, CallsIInv
<1>2. /\ latest.done \in 0..Steps /\ latest.token \in Tokens
      /\ LatestSequence(r) \in 0..MaxSequence /\ operation \in Operations \ {"cancel", "defer"}
  BY <1>1, PlanAssumption DEF Checkpoint, Tokens, Sequence, Operations
<1>3. /\ call \in CallState /\ call.pc = "claiming" /\ call.operation = operation
      /\ call.run = r /\ call.base = LatestSequence(r) /\ call.done = latest.done
      /\ call.token = latest.token
  BY <1>2, BatchTyped
<1>4. next = IF MatchesPlan(latest) THEN call ELSE Ended(call, "corrupted")
  BY DEF Restored
<1>5. MatchesPlan(latest) => CallFits(call)
  BY <1>1, <1>2, BatchFits DEF MatchesPlan
<1> HIDE DEF call, next
<1>6. CASE MatchesPlan(latest)
  <2>1. next = call
    BY <1>4, <1>6
  <2>2. CheckpointOf(call).done = latest.done
        /\ CheckpointOf(call).control = IF operation = "retry" THEN "retry" ELSE "none"
    BY <1>3, CheckpointTyped
  <2>3. MayFollow(latest, CheckpointOf(call))
    BY <1>2, <2>2 DEF MayFollow
  <2>4. Begins(call)
    BY <1>3, <2>3 DEF Begins, Continues
  <2> QED BY <1>1, <1>3, <1>5, <1>6, <2>1, <2>4 DEF Becomes
<1>7. CASE ~MatchesPlan(latest)
  <2>1. next = Ended(call, "corrupted") /\ "corrupted" \in Answers
    BY <1>4, <1>7 DEF Answers
  <2>2. next \in CallState /\ CallFits(next) /\ next.pc = "idle"
    BY <1>2, <1>3, <2>1, EndedFits
  <2> QED BY <1>1, <2>2 DEF Becomes, Active, Working, Persists
<1> QED BY <1>6, <1>7

\* cancelRun and deferRun.
LEMMA ControlledFits ==
  ASSUME CallsIInv, NEW c \in Call, NEW r \in Run, Stored(r) # {},
         NEW operation \in {"cancel", "defer"}, NEW outcome, NEW latest,
         latest = checkpoints[r][LatestSequence(r)],
         outcome = IF operation = "cancel" THEN "cancelled" ELSE "running",
         latest.outcome \in {"running", "failed"},
         operation = "defer" => latest.outcome = "running",
         Control(c, operation, r, latest, outcome)
  PROVE  \E next : Becomes(c, next) /\ (~Active(next) \/ Begins(next))
<1> DEFINE call == Batch(operation, r, LatestSequence(r), latest.done, latest.token)
           held == Persisting(call, outcome, "none")
           next == Restored(latest, held)
<1>1. /\ latest \in Checkpoint /\ LatestSequence(r) \in Sequence /\ LatestSequence(r) < MaxSequence
      /\ calls' = [calls EXCEPT ![c] = next]
  BY LatestIsStored DEF Control, CallsIInv
<1>2. /\ latest.done \in 0..Steps /\ latest.token \in Tokens
      /\ LatestSequence(r) \in 0..MaxSequence /\ operation \in Operations
      /\ outcome \in Outcomes /\ "none" \in FailureCodes
  BY <1>1, PlanAssumption DEF Checkpoint, Tokens, Sequence, Operations, Outcomes, FailureCodes
<1>3. /\ call \in CallState /\ call.operation = operation
      /\ call.run = r /\ call.base = LatestSequence(r) /\ call.done = latest.done
      /\ call.token = latest.token
  BY <1>2, BatchTyped
<1> HIDE DEF call
<1>4. /\ held \in CallState /\ held.pc = "looking" /\ held.operation = operation
      /\ held.run = r /\ held.base = LatestSequence(r) /\ held.done = latest.done
      /\ held.token = latest.token
  BY <1>2, <1>3, PersistingTyped
<1>5. next = IF MatchesPlan(latest) THEN held ELSE Ended(held, "corrupted")
  BY DEF Restored
<1>6. MatchesPlan(latest) => CallFits(held)
  <2>1. SUFFICES ASSUME MatchesPlan(latest) PROVE CallFits(held)
    OBVIOUS
  <2>2. call.done # Steps /\ outcome # "succeeded" /\ outcome # "failed"
    BY <1>3, <2>1 DEF MatchesPlan
  <2> QED BY <1>1, <1>2, <1>3, <2>2, PersistingFits
<1> HIDE DEF held, next
<1>7. CASE MatchesPlan(latest)
  <2>1. next = held
    BY <1>5, <1>7
  <2>2. CheckpointOf(held).done = latest.done /\ CheckpointOf(held).control = operation
    BY <1>4, CheckpointTyped
  <2>3. MayFollow(latest, CheckpointOf(held))
    BY <1>2, <2>2 DEF MayFollow
  <2>4. Begins(held)
    BY <1>4, <2>3 DEF Begins, Continues
  <2> QED BY <1>1, <1>4, <1>6, <1>7, <2>1, <2>4 DEF Becomes
<1>8. CASE ~MatchesPlan(latest)
  <2>1. next = Ended(held, "corrupted") /\ "corrupted" \in Answers
    BY <1>5, <1>8 DEF Answers
  <2>2. next \in CallState /\ CallFits(next) /\ next.pc = "idle"
    BY <1>2, <1>4, <2>1, EndedFits
  <2> QED BY <1>1, <2>2 DEF Becomes, Active, Working, Persists
<1> QED BY <1>7, <1>8

LEMMA StartFits ==
  ASSUME NEW c \in Call, NEW operation \in {"start", "replay"}, NEW r \in Run,
         calls' = [calls EXCEPT ![c] = Batch(operation, r, 0, 0, NoOutput)]
  PROVE  \E next : Becomes(c, next) /\ Begins(next)
<1> DEFINE call == Batch(operation, r, 0, 0, NoOutput)
<1>1. /\ 0 \in 0..MaxSequence /\ 0 < MaxSequence /\ 0 \in 0..Steps /\ 0 # Steps
      /\ NoOutput \in Tokens /\ operation \in Operations \ {"cancel", "defer"}
  BY PlanAssumption DEF Tokens, Operations
<1>2. /\ call \in CallState /\ call.base = 0 /\ call.done = 0 /\ call.token = NoOutput
      /\ call.pc = "claiming"
  BY <1>1, BatchTyped
<1>3. CallFits(call)
  BY <1>1, BatchFits
<1> HIDE DEF call
<1>4. Becomes(c, call) /\ Begins(call)
  BY <1>2, <1>3 DEF Becomes, Begins, call
<1> QED BY <1>4

\* Calls that callers make.
LEMMA OperateFits ==
  ASSUME CallsIInv, NEW c \in Call, NEW operation \in Operation, NEW r \in Run,
         Operate(c, operation, r)
  PROVE  \E next : Becomes(c, next) /\ (~Active(next) \/ Begins(next))
<1> DEFINE latest == checkpoints[r][LatestSequence(r)]
<1>1. /\ Stored(r) # {}
      /\ \/ operation = "resume" /\ Resume(c, r, latest)
         \/ operation = "retry"  /\ Retry(c, r, latest)
         \/ operation = "cancel" /\ Cancel(c, r, latest)
         \/ operation = "defer"  /\ Defer(c, r, latest)
         \/ operation = "replay" /\ Replay(c, r)
  BY DEF Operate
<1>2. latest \in Checkpoint
  BY <1>1, LatestIsStored DEF CallsIInv
<1>3. latest = checkpoints[r][LatestSequence(r)]
  OBVIOUS
<1> HIDE DEF latest
<1>4. {"resume", "retry", "cancel", "defer"} \subseteq Operations
      /\ {"refused", "stored", "corrupted"} \subseteq Answers
  BY DEF Operations, Answers
<1>5. CASE operation = "resume" /\ Resume(c, r, latest)
  <2>1. CASE latest.outcome = "running" /\ Continue(c, "resume", r, latest)
    BY <1>1, <1>3, <2>1, ContinueFits
  <2>2. CASE \E answer \in Answers : Answer(c, "resume", answer)
    BY <1>4, <2>2, AnswerEnds
  <2> QED BY <1>4, <1>5, <2>1, <2>2 DEF Resume
<1>6. CASE operation = "retry" /\ Retry(c, r, latest)
  <2>1. CASE /\ latest.outcome = "failed" /\ Retryable(latest.failure)
             /\ Continue(c, "retry", r, latest)
    BY <1>1, <1>3, <2>1, ContinueFits
  <2>2. CASE Answer(c, "retry", "refused")
    BY <1>4, <2>2, AnswerEnds
  <2> QED BY <1>6, <2>1, <2>2 DEF Retry
<1>7. CASE operation = "cancel" /\ Cancel(c, r, latest)
  <2>1. CASE latest.outcome \in {"running", "failed"} /\ Control(c, "cancel", r, latest, "cancelled")
    BY <1>1, <1>3, <2>1, ControlledFits
  <2>2. CASE \E answer \in Answers : Answer(c, "cancel", answer)
    BY <1>4, <2>2, AnswerEnds
  <2> QED BY <1>4, <1>7, <2>1, <2>2 DEF Cancel
<1>8. CASE operation = "defer" /\ Defer(c, r, latest)
  <2>1. CASE latest.outcome = "running" /\ Control(c, "defer", r, latest, "running")
    BY <1>1, <1>3, <2>1, ControlledFits
  <2>2. CASE \E answer \in Answers : Answer(c, "defer", answer)
    BY <1>4, <2>2, AnswerEnds
  <2> QED BY <1>4, <1>8, <2>1, <2>2 DEF Defer
<1>9. CASE operation = "replay" /\ Replay(c, r)
  <2>1. PICK replay \in Run : calls' = [calls EXCEPT ![c] = Batch("replay", replay, 0, 0, NoOutput)]
    BY <1>9 DEF Replay
  <2> QED BY <2>1, StartFits
<1> QED BY <1>1, <1>5, <1>6, <1>7, <1>8, <1>9

\* The work of a call goes on, with as many steps done.
Stays(call, next) ==
  /\ next.run = call.run /\ next.base = call.base /\ next.operation = call.operation
  /\ next.done = call.done /\ next.token = call.token /\ next.executed = call.executed

\* One more step of it is done.
Advances(call, next, token) ==
  /\ next.run = call.run /\ next.base = call.base /\ next.operation = call.operation
  /\ next.done = call.done + 1 /\ next.token = token /\ next.pc \in {"claiming", "looking"}

LEMMA EndFits ==
  ASSUME NEW c \in Call, calls[c].operation \in Operations, NEW answer \in Answers, End(c, answer)
  PROVE  \E next : Becomes(c, next) /\ next.pc = "idle"
BY EndedFits DEF End, Becomes

LEMMA GoesTo ==
  ASSUME CallsIInv, NEW c \in Call, NEW place \in Working \cup Persists,
         \/ calls[c].pc \in Working /\ place \in Working
         \/ calls[c].pc \in Persists /\ place \in Persists,
         calls' = [calls EXCEPT ![c].pc = place]
  PROVE  \E next : Becomes(c, next) /\ Stays(calls[c], next) /\ next.pc = place
<1> DEFINE call == calls[c]
           next == [call EXCEPT !.pc = place]
<1>1. call \in CallState /\ CallFits(call)
  BY DEF CallsIInv, TypeOK
<1>2. /\ next \in CallState /\ next.pc = place /\ Stays(call, next)
      /\ next.outcome = call.outcome /\ next.failure = call.failure
  BY <1>1 DEF CallState, Working, Persists, Stays
<1>3. CheckpointOf(next) = CheckpointOf(call)
  BY <1>2 DEF CheckpointOf, Stays
<1>4. calls' = [calls EXCEPT ![c] = next]
  <2>1. calls \in [Call -> CallState]
    BY DEF CallsIInv, TypeOK
  <2> QED BY <2>1
<1> HIDE DEF next, call
<1>5. CallFits(next)
  BY <1>1, <1>2, <1>3 DEF CallFits, Active, Working, Persists, Stays, call
<1> QED BY <1>2, <1>4, <1>5 DEF Becomes, call

\* A call of the stores that fails, or a step, is persisted as a failure.
LEMMA FailsFits ==
  ASSUME CallsIInv, NEW c \in Call, calls[c].pc \in Working,
         NEW failure \in FailureCodes \ {"none"},
         calls' = [calls EXCEPT ![c] = Persisting(@, "failed", failure)]
  PROVE  \E next : Becomes(c, next) /\ Stays(calls[c], next) /\ next.pc = "looking"
<1> DEFINE call == calls[c]
           next == Persisting(call, "failed", failure)
<1>1. call \in CallState /\ CallFits(call) /\ calls \in [Call -> CallState]
  BY DEF CallsIInv, TypeOK
<1>2. /\ call.base < MaxSequence /\ call.operation \in Operations \ {"cancel", "defer"}
      /\ call.done < Steps /\ call.done \in Nat
  BY <1>1, PlanAssumption DEF CallFits, CallState, Active, Working
<1>3. /\ next \in CallState /\ next.pc = "looking" /\ Stays(call, next)
  <2> HIDE DEF call
  <2>1. "failed" \in Outcomes /\ failure \in FailureCodes
    BY DEF Outcomes
  <2>2. /\ next \in CallState /\ next.pc = "looking" /\ next.operation = call.operation
        /\ next.run = call.run /\ next.base = call.base /\ next.done = call.done
        /\ next.token = call.token /\ next.executed = call.executed
    BY <1>1, <2>1, PersistingTyped
  <2> QED BY <2>2 DEF Stays
<1>4. CallFits(next)
  <2>1. call.done # Steps /\ "failed" \in Outcomes
    BY <1>2 DEF Outcomes
  <2> QED BY <1>1, <1>2, <2>1, PersistingFits
<1>5. calls' = [calls EXCEPT ![c] = next]
  BY <1>1
<1> QED BY <1>3, <1>4, <1>5 DEF Becomes
-----------------------------------------------------------------------------
(* What a step of a call does to it and to the stores.                      *)

\* The three ways a call changes the claim of its step.
Grants(c) ==
  /\ calls[c].pc = "claiming"
  /\ Decision(c) = "acquired"
  /\ SetClaim(c, GrantedRecord(ClaimOf(c), ClaimIdOf(c), ClaimSequence(calls[c]), TTL))

Completes(c, output) ==
  /\ calls[c].pc = "executing"
  /\ CanComplete(ClaimOf(c), ClaimIdOf(c))
  /\ SetClaim(c, CompletedRecord(ClaimOf(c), output))

Releases(c) ==
  /\ calls[c].pc = "executing"
  /\ CanRelease(ClaimOf(c), ClaimIdOf(c))
  /\ SetClaim(c, ReleasedRecord(ClaimOf(c)))

\* The steps of runUntilCheckpoint.
Works(c) ==
  \/ Acquire(c) \/ Restore(c) \/ Duplicate(c)
  \/ \E committed \in BOOLEAN : ClaimUnavailable(c, committed)
  \/ \E output \in Output : FinishStep(c, output)
  \/ \E output \in Output, committed \in BOOLEAN : CompletionUnavailable(c, output, committed)
  \/ \E failure \in Failure, released \in BOOLEAN : FailStep(c, failure, released)

Worked(c, next) ==
  \/ Grants(c) /\ Stays(calls[c], next) /\ next.pc = "executing"
  \/ /\ \E token \in Output :
          /\ Advances(calls[c], next, token)
          /\ \/ ClaimOf(c).output = token /\ UNCHANGED claims
             \/ Completes(c, token)
  \/ /\ ~Active(next) \/ (next.pc = "looking" /\ Stays(calls[c], next))
     /\ \/ UNCHANGED claims \/ Grants(c) \/ Releases(c)
        \/ \E output \in Output : Completes(c, output)

LEMMA WorkFits ==
  ASSUME CallsIInv, NEW c \in Call, Works(c)
  PROVE  /\ calls[c].pc \in Working
         /\ UNCHANGED <<checkpoints, acknowledged, crashes>>
         /\ faults' = faults \/ (faults < MaxFaults /\ faults' = faults + 1)
         /\ \E next : Becomes(c, next) /\ Worked(c, next)
<1> DEFINE call == calls[c]
<1>1. call \in CallState /\ CallFits(call)
  BY DEF CallsIInv, TypeOK
<1>2. {"corrupted", "duplicate"} \subseteq Answers
  BY DEF Answers
<1>3. call.pc \in Working => call.operation \in Operations
  BY <1>1 DEF CallFits, Active
<1>4. "provider_unavailable" \in FailureCodes \ {"none"}
  BY DEF FailureCodes
<1>5. CASE Acquire(c)
  <2>1. /\ call.pc \in Working /\ UNCHANGED <<checkpoints, acknowledged, faults, crashes>>
        /\ Grants(c) /\ calls' = [calls EXCEPT ![c].pc = "executing"]
    BY <1>5 DEF Acquire, Working, Grants
  <2>2. \E next : Becomes(c, next) /\ Stays(calls[c], next) /\ next.pc = "executing"
    <3> DEFINE place == "executing"
    <3>1. place \in Working /\ place \in Working \cup Persists
      BY DEF Working
    <3>2. calls[c].pc \in Working /\ calls' = [calls EXCEPT ![c].pc = place]
      BY <2>1
    <3> HIDE DEF place
    <3>3. \E next : Becomes(c, next) /\ Stays(calls[c], next) /\ next.pc = place
      BY <3>1, <3>2, GoesTo
    <3> QED BY <3>3 DEF place
  <2> QED BY <2>1, <2>2 DEF Worked
<1>6. CASE Restore(c)
  <2>1. /\ call.pc \in Working /\ UNCHANGED <<checkpoints, claims, acknowledged, faults, crashes>>
    BY <1>6 DEF Restore, Working
  <2>2. CASE ClaimOf(c).output = NoOutput
    <3>1. End(c, "corrupted")
      BY <1>6, <2>2 DEF Restore
    <3>2. PICK next : Becomes(c, next) /\ next.pc = "idle"
      BY <1>2, <1>3, <2>1, <3>1, EndFits
    <3>3. ~Active(next)
      BY <3>2 DEF Active, Working, Persists
    <3> QED BY <2>1, <3>2, <3>3 DEF Worked
  <2>3. CASE ClaimOf(c).output # NoOutput
    <3> DEFINE token == ClaimOf(c).output
               next == Advanced(call, token)
    <3>1. token \in Output
      <4>1. call.run \in Run /\ call.done + 1 \in 1..Steps
        BY <1>1, <2>1, PlanAssumption DEF CallState, CallFits
      <4>2. ClaimOf(c) \in WorkClaimRecord
        BY <4>1 DEF CallsIInv, TypeOK, ClaimOf, CurrentStep
      <4> QED BY <2>3, <4>2 DEF WorkClaimRecord
    <3>2. calls' = [calls EXCEPT ![c] = next]
      BY <1>6, <2>3 DEF Restore
    <3>3. token = ClaimOf(c).output
      OBVIOUS
    <3> HIDE DEF token
    <3>4. /\ next \in CallState /\ CallFits(next) /\ next.pc \in {"claiming", "looking"}
          /\ next.operation = call.operation /\ next.run = call.run /\ next.base = call.base
          /\ next.done = call.done + 1 /\ next.token = token
      BY <1>1, <2>1, <3>1, AdvancedFits
    <3>5. Becomes(c, next)
      BY <3>2, <3>4 DEF Becomes
    <3> HIDE DEF next
    <3>6. Advances(calls[c], next, token)
      BY <3>4 DEF Advances
    <3>7. Worked(c, next)
      BY <2>1, <3>1, <3>3, <3>6 DEF Worked
    <3> QED BY <2>1, <3>5, <3>7
  <2> QED BY <2>2, <2>3
<1>7. CASE Duplicate(c)
  <2>1. /\ call.pc \in Working /\ UNCHANGED <<checkpoints, claims, acknowledged, faults, crashes>>
        /\ End(c, "duplicate")
    BY <1>7 DEF Duplicate, Working
  <2>2. PICK next : Becomes(c, next) /\ next.pc = "idle"
    BY <1>2, <1>3, <2>1, EndFits
  <2>3. ~Active(next)
    BY <2>2 DEF Active, Working, Persists
  <2> QED BY <2>1, <2>2, <2>3 DEF Worked
<1>8. CASE \E committed \in BOOLEAN : ClaimUnavailable(c, committed)
  <2>1. /\ call.pc \in Working /\ UNCHANGED <<checkpoints, acknowledged, crashes>>
        /\ faults < MaxFaults /\ faults' = faults + 1
        /\ UNCHANGED claims \/ Grants(c)
        /\ calls' = [calls EXCEPT ![c] = Persisting(@, "failed", "provider_unavailable")]
    BY <1>8 DEF ClaimUnavailable, Working, Fault, Grants
  <2>2. PICK next : Becomes(c, next) /\ Stays(calls[c], next) /\ next.pc = "looking"
    BY <1>4, <2>1, FailsFits
  <2> QED BY <2>1, <2>2 DEF Worked
<1>9. CASE \E output \in Output : FinishStep(c, output)
  <2>1. PICK output \in Output : FinishStep(c, output)
    BY <1>9
  <2>2. call.pc \in Working /\ UNCHANGED <<checkpoints, acknowledged, faults, crashes>>
    BY <2>1 DEF FinishStep, Working
  <2>3. CASE CanComplete(ClaimOf(c), ClaimIdOf(c))
    <3> DEFINE next == Advanced(call, output)
    <3>1. Completes(c, output) /\ calls' = [calls EXCEPT ![c] = next]
      BY <2>1, <2>3 DEF FinishStep, Completes
    <3>2. /\ next \in CallState /\ CallFits(next) /\ next.pc \in {"claiming", "looking"}
          /\ next.operation = call.operation /\ next.run = call.run /\ next.base = call.base
          /\ next.done = call.done + 1 /\ next.token = output
      BY <1>1, <2>2, AdvancedFits
    <3>3. Becomes(c, next)
      BY <3>1, <3>2 DEF Becomes
    <3> HIDE DEF next
    <3>4. Advances(calls[c], next, output)
      BY <3>2 DEF Advances
    <3>5. Worked(c, next)
      BY <3>1, <3>4 DEF Worked
    <3> QED BY <2>2, <3>3, <3>5
  <2>4. CASE ~CanComplete(ClaimOf(c), ClaimIdOf(c))
    <3>1. End(c, "duplicate") /\ UNCHANGED claims
      BY <2>1, <2>4 DEF FinishStep
    <3>2. PICK next : Becomes(c, next) /\ next.pc = "idle"
      BY <1>2, <1>3, <2>2, <3>1, EndFits
    <3>3. ~Active(next)
      BY <3>2 DEF Active, Working, Persists
    <3> QED BY <2>2, <3>1, <3>2, <3>3 DEF Worked
  <2> QED BY <2>3, <2>4
<1>10. CASE \E output \in Output, committed \in BOOLEAN :
              CompletionUnavailable(c, output, committed)
  <2>1. /\ call.pc \in Working /\ UNCHANGED <<checkpoints, acknowledged, crashes>>
        /\ faults < MaxFaults /\ faults' = faults + 1
        /\ UNCHANGED claims \/ \E output \in Output : Completes(c, output)
        /\ calls' = [calls EXCEPT ![c] = Persisting(@, "failed", "provider_unavailable")]
    BY <1>10 DEF CompletionUnavailable, Working, Fault, Completes
  <2>2. PICK next : Becomes(c, next) /\ Stays(calls[c], next) /\ next.pc = "looking"
    BY <1>4, <2>1, FailsFits
  <2> QED BY <2>1, <2>2 DEF Worked
<1>11. CASE \E failure \in Failure, released \in BOOLEAN : FailStep(c, failure, released)
  <2>1. PICK failure \in Failure : \E released \in BOOLEAN : FailStep(c, failure, released)
    BY <1>11
  <2>2. /\ call.pc \in Working /\ UNCHANGED <<checkpoints, acknowledged, crashes>>
        /\ faults < MaxFaults /\ faults' = faults + 1
        /\ UNCHANGED claims \/ Releases(c)
    BY <2>1 DEF FailStep, Working, Fault, Releases
  <2>3. CASE End(c, "corrupted")
    <3>1. PICK next : Becomes(c, next) /\ next.pc = "idle"
      BY <1>2, <1>3, <2>2, <2>3, EndFits
    <3>2. ~Active(next)
      BY <3>1 DEF Active, Working, Persists
    <3> QED BY <2>2, <3>1, <3>2 DEF Worked
  <2>4. CASE calls' = [calls EXCEPT ![c] = Persisting(@, "failed", FailureCodeOf(failure))]
    <3>1. FailureCodeOf(failure) \in FailureCodes \ {"none"}
      <4>1. FailureCodeOf(failure) # "none"
        BY DEF FailureCodeOf
      <4> QED BY <4>1 DEF FailureCodes
    <3>2. PICK next : Becomes(c, next) /\ Stays(calls[c], next) /\ next.pc = "looking"
      BY <2>2, <2>4, <3>1, FailsFits
    <3> QED BY <2>2, <3>2 DEF Worked
  <2> QED BY <2>1, <2>3, <2>4 DEF FailStep
<1> QED BY <1>5, <1>6, <1>7, <1>8, <1>9, <1>10, <1>11 DEF Works

\* The steps of persistCheckpoint.
Puts(c) ==
  \/ \E sameInstant \in BOOLEAN : LookUpCheckpoint(c, sameInstant)
  \/ WriteCheckpoint(c) \/ ReloadCheckpoint(c) \/ PutUnavailable(c)

Slot(call) == checkpoints[call.run][Target(call)]

Written(c) ==
  checkpoints' = [checkpoints EXCEPT ![calls[c].run][Target(calls[c])] = CheckpointOf(calls[c])]

Told(c) ==
  /\ Slot(calls[c]) = CheckpointOf(calls[c])
  /\ acknowledged' = acknowledged \cup
       {<<calls[c].run, Target(calls[c]), CheckpointOf(calls[c])>>}

HasPut(c, next) ==
  \/ /\ next.pc = "writing" /\ Stays(calls[c], next) /\ MayEnterPut(c)
     /\ Slot(calls[c]) = NoCheckpoint
     /\ UNCHANGED <<checkpoints, acknowledged>>
  \/ /\ calls[c].pc = "writing" /\ next.pc = "reloading" /\ Stays(calls[c], next)
     /\ Written(c) /\ UNCHANGED acknowledged
  \/ ~Active(next) /\ UNCHANGED checkpoints /\ (UNCHANGED acknowledged \/ Told(c))

LEMMA PutFits ==
  ASSUME CallsIInv, NEW c \in Call, Puts(c)
  PROVE  /\ calls[c].pc \in Persists
         /\ UNCHANGED <<claims, crashes>>
         /\ faults' = faults \/ (faults < MaxFaults /\ faults' = faults + 1)
         /\ \E next : Becomes(c, next) /\ HasPut(c, next)
<1> DEFINE call == calls[c]
<1>1. call \in CallState /\ CallFits(call)
  BY DEF CallsIInv, TypeOK
<1>2. {"corrupted", "unavailable", "failed", "stored"} \subseteq Answers
  BY DEF Answers
<1>3. call.pc \in Persists
  BY DEF Puts, LookUpCheckpoint, WriteCheckpoint, ReloadCheckpoint, PutUnavailable, Persists
<1>4. call.operation \in Operations
  BY <1>1, <1>3 DEF CallFits, Active
<1>5. ASSUME NEW answer \in Answers, End(c, answer),
             UNCHANGED <<checkpoints, claims, crashes>>,
             UNCHANGED acknowledged \/ Told(c)
      PROVE  \E next : Becomes(c, next) /\ HasPut(c, next)
  <2>1. PICK next : Becomes(c, next) /\ next.pc = "idle"
    BY <1>4, <1>5, EndFits
  <2>2. ~Active(next)
    BY <2>1 DEF Active, Working, Persists
  <2> QED BY <1>5, <2>1, <2>2 DEF HasPut
<1>6. ASSUME NEW place \in Persists, calls' = [calls EXCEPT ![c].pc = place]
      PROVE  \E next : Becomes(c, next) /\ Stays(calls[c], next) /\ next.pc = place
  BY <1>3, <1>6, GoesTo
<1>7. "writing" \in Persists /\ "reloading" \in Persists
  BY DEF Persists
<1>8. ASSUME Slot(call) = CheckpointOf(call), Acknowledge(c),
             UNCHANGED <<checkpoints, claims, crashes>>
      PROVE  \E next : Becomes(c, next) /\ HasPut(c, next)
  <2> DEFINE answer == IF calls[c].outcome = "failed" THEN "failed" ELSE "stored"
  <2>1. answer \in Answers /\ End(c, answer) /\ Told(c)
    BY <1>2, <1>8 DEF Acknowledge, Told
  <2> HIDE DEF answer
  <2> QED BY <1>5, <1>8, <2>1
<1>9. CASE \E sameInstant \in BOOLEAN : LookUpCheckpoint(c, sameInstant)
  <2>1. /\ UNCHANGED <<checkpoints, claims, faults, crashes>> /\ MayEnterPut(c)
        /\ \/ /\ Slot(call) = NoCheckpoint /\ UNCHANGED acknowledged
              /\ calls' = [calls EXCEPT ![c].pc = "writing"]
           \/ Slot(call) = CheckpointOf(call) /\ Acknowledge(c)
           \/ End(c, "corrupted") /\ UNCHANGED acknowledged
    BY <1>9 DEF LookUpCheckpoint, Slot
  <2>2. CASE /\ Slot(call) = NoCheckpoint /\ UNCHANGED acknowledged
             /\ calls' = [calls EXCEPT ![c].pc = "writing"]
    <3>1. PICK next : Becomes(c, next) /\ Stays(calls[c], next) /\ next.pc = "writing"
      BY <1>6, <1>7, <2>2
    <3> QED BY <1>3, <2>1, <2>2, <3>1 DEF HasPut
  <2>3. CASE Slot(call) = CheckpointOf(call) /\ Acknowledge(c)
    BY <1>3, <1>8, <2>1, <2>3
  <2>4. CASE End(c, "corrupted") /\ UNCHANGED acknowledged
    BY <1>2, <1>3, <1>5, <2>1, <2>4
  <2> QED BY <2>1, <2>2, <2>3, <2>4
<1>10. CASE WriteCheckpoint(c)
  <2>1. /\ UNCHANGED <<claims, acknowledged, faults, crashes>> /\ Written(c)
        /\ calls[c].pc = "writing"
        /\ calls' = [calls EXCEPT ![c].pc = "reloading"]
    BY <1>10 DEF WriteCheckpoint, Written
  <2>2. PICK next : Becomes(c, next) /\ Stays(calls[c], next) /\ next.pc = "reloading"
    BY <1>6, <1>7, <2>1
  <2> QED BY <1>3, <2>1, <2>2 DEF HasPut
<1>11. CASE ReloadCheckpoint(c)
  <2>1. /\ UNCHANGED <<checkpoints, claims, faults, crashes>>
        /\ \/ Slot(call) = CheckpointOf(call) /\ Acknowledge(c)
           \/ End(c, "corrupted") /\ UNCHANGED acknowledged
    BY <1>11 DEF ReloadCheckpoint, Slot
  <2> QED BY <1>2, <1>3, <1>5, <1>8, <2>1
<1>12. CASE PutUnavailable(c)
  <2>1. /\ UNCHANGED <<checkpoints, claims, acknowledged, crashes>> /\ End(c, "unavailable")
        /\ faults < MaxFaults /\ faults' = faults + 1
    BY <1>12 DEF PutUnavailable, Fault
  <2> QED BY <1>2, <1>3, <1>5, <2>1
<1> QED BY <1>9, <1>10, <1>11, <1>12 DEF Puts

\* The calls that callers make.
Calls(c) ==
  Start(c) \/ \E operation \in Operation, r \in Run : Operate(c, operation, r)

LEMMA CallerFits ==
  ASSUME CallsIInv, NEW c \in Call, Calls(c)
  PROVE  /\ UNCHANGED <<checkpoints, claims, acknowledged, faults, crashes>>
         /\ \E next : Becomes(c, next) /\ (~Active(next) \/ Begins(next))
<1>1. CASE Start(c)
  <2>1. calls' = [calls EXCEPT ![c] = Batch("start", PlanRun, 0, 0, NoOutput)]
    BY <1>1 DEF Start
  <2>2. \E next : Becomes(c, next) /\ Begins(next)
    BY <2>1, StartFits, PlanAssumption
  <2> QED BY <1>1, <2>2 DEF Start
<1>2. CASE \E operation \in Operation, r \in Run : Operate(c, operation, r)
  <2>1. PICK operation \in Operation, r \in Run : Operate(c, operation, r)
    BY <1>2
  <2> QED BY <2>1, OperateFits DEF Operate
<1> QED BY <1>1, <1>2 DEF Calls
-----------------------------------------------------------------------------
(* Typing, and what inspect can show.                                       *)

LEMMA NextCases ==
  ASSUME Next
  PROVE  \/ \E c \in Call : Calls(c) \/ Works(c) \/ Puts(c)
         \/ \E i \in Instance : Crash(i)
         \/ Tick
BY DEF Next, Calls, Works, Puts

\* Time only shortens a lease.
LEMMA AgedTyped ==
  ASSUME NEW rec \in WorkClaimRecord
  PROVE  /\ Aged(rec) \in WorkClaimRecord /\ Aged(rec).status = rec.status
         /\ Aged(rec).claimId = rec.claimId /\ Aged(rec).output = rec.output
<1> DEFINE lease == IF rec.lease = 0 THEN 0 ELSE rec.lease - 1
<1>1. lease \in Nat
  <2>1. rec.lease \in Nat
    BY DEF WorkClaimRecord
  <2> QED BY <2>1
<1>2. Aged(rec) = [rec EXCEPT !.lease = lease]
  BY DEF Aged
<1> HIDE DEF lease
<1> QED BY <1>1, <1>2 DEF WorkClaimRecord

\* The claim that a working call looks at.
LEMMA ClaimTyped ==
  ASSUME CallsIInv, NEW c \in Call, calls[c].pc \in Working
  PROVE  /\ calls[c].run \in Run /\ CurrentStep(calls[c]) \in 1..Steps
         /\ ClaimOf(c) = claims[calls[c].run][CurrentStep(calls[c])]
         /\ ClaimOf(c) \in WorkClaimRecord /\ ClaimIdOf(c) \in Instance \X Nat
         /\ ClaimSequence(calls[c]) \in Nat
<1>1. calls[c] \in CallState /\ CallFits(calls[c])
  BY DEF CallsIInv, TypeOK
<1>2. calls[c].run \in Run /\ CurrentStep(calls[c]) \in 1..Steps
  BY <1>1, PlanAssumption DEF CallState, CallFits, CurrentStep
<1>3. ClaimSequence(calls[c]) \in Nat
  BY <1>1, PlanAssumption DEF CallState, ClaimSequence
<1>4. InstanceOf[c] \in Instance
  BY InstanceAssumption
<1> QED BY <1>2, <1>3, <1>4 DEF CallsIInv, TypeOK, ClaimOf, ClaimIdOf

\* One claim changes.
LEMMA SetClaimTyped ==
  ASSUME CallsIInv, NEW c \in Call, calls[c].pc \in Working,
         NEW record \in WorkClaimRecord, SetClaim(c, record)
  PROVE  /\ claims' \in [Run -> [1..Steps -> WorkClaimRecord]]
         /\ claims'[calls[c].run][CurrentStep(calls[c])] = record
         /\ \A r \in Run, n \in 1..Steps :
              <<r, n>> # <<calls[c].run, CurrentStep(calls[c])>> => claims'[r][n] = claims[r][n]
<1>1. calls[c].run \in Run /\ CurrentStep(calls[c]) \in 1..Steps
  BY ClaimTyped
<1>2. claims \in [Run -> [1..Steps -> WorkClaimRecord]]
  BY DEF CallsIInv, TypeOK
<1> QED BY <1>1, <1>2 DEF SetClaim

LEMMA WorkKeepsTyping ==
  ASSUME CallsIInv, NEW c \in Call, Works(c)
  PROVE  claims' \in [Run -> [1..Steps -> WorkClaimRecord]]
<1>1. calls[c].pc \in Working /\ \E next : Worked(c, next)
  BY WorkFits
<1>2. /\ ClaimOf(c) \in WorkClaimRecord /\ ClaimIdOf(c) \in Instance \X Nat
      /\ ClaimSequence(calls[c]) \in Nat
  BY <1>1, ClaimTyped
<1>3. TTL \in Nat
  BY PlanAssumption
<1>4. CASE UNCHANGED claims
  BY <1>4 DEF CallsIInv, TypeOK
<1>5. CASE Grants(c)
  <2>1. PICK record : record = GrantedRecord(ClaimOf(c), ClaimIdOf(c), ClaimSequence(calls[c]), TTL)
    OBVIOUS
  <2>2. record \in WorkClaimRecord
    BY <1>2, <1>3, <2>1 DEF WorkClaimRecord, Status, GrantedRecord, RefreshedRecord, ClaimedRecord
  <2> QED BY <1>1, <1>5, <2>1, <2>2, SetClaimTyped DEF Grants
<1>6. CASE Releases(c)
  <2>1. PICK record : record = ReleasedRecord(ClaimOf(c))
    OBVIOUS
  <2>2. record \in WorkClaimRecord
    BY <1>2, <2>1 DEF WorkClaimRecord, Status, ReleasedRecord
  <2> QED BY <1>1, <1>6, <2>1, <2>2, SetClaimTyped DEF Releases
<1>7. CASE \E output \in Output : Completes(c, output)
  <2>1. PICK output \in Output : Completes(c, output)
    BY <1>7
  <2>2. PICK record : record = CompletedRecord(ClaimOf(c), output)
    OBVIOUS
  <2>3. record \in WorkClaimRecord
    BY <1>2, <2>2 DEF WorkClaimRecord, Status, CompletedRecord
  <2> QED BY <1>1, <2>1, <2>2, <2>3, SetClaimTyped DEF Completes
<1> QED BY <1>1, <1>4, <1>5, <1>6, <1>7 DEF Worked

LEMMA BecomesFits ==
  ASSUME CallsIInv, NEW c \in Call, NEW next, Becomes(c, next)
  PROVE  /\ calls' \in [Call -> CallState] /\ \A d \in Call : CallFits(calls'[d])
         /\ calls'[c] = next /\ \A d \in Call \ {c} : calls'[d] = calls[d]
<1>1. calls \in [Call -> CallState] /\ \A d \in Call : CallFits(calls[d])
  BY DEF CallsIInv, TypeOK
<1>2. next \in CallState /\ CallFits(next) /\ calls' = [calls EXCEPT ![c] = next]
  BY DEF Becomes
<1>3. calls' \in [Call -> CallState] /\ calls'[c] = next
      /\ \A d \in Call \ {c} : calls'[d] = calls[d]
  BY <1>1, <1>2
<1>4. ASSUME NEW d \in Call PROVE CallFits(calls'[d])
  <2>1. CASE d = c
    BY <1>2, <1>3, <2>1
  <2>2. CASE d # c
    <3>1. calls'[d] = calls[d]
      BY <1>3, <2>2
    <3> QED BY <1>1, <3>1
  <2> QED BY <2>1, <2>2
<1> QED BY <1>3, <1>4

\* A call that persists writes into a slot of the run, and only there.
LEMMA WrittenTyped ==
  ASSUME CallsIInv, NEW c \in Call, calls[c].pc \in Persists, Written(c)
  PROVE  /\ checkpoints' \in [Run -> [Sequence -> Checkpoint \cup {NoCheckpoint}]]
         /\ checkpoints'[calls[c].run][Target(calls[c])] = CheckpointOf(calls[c])
         /\ \A r \in Run, s \in Sequence :
              <<r, s>> # <<calls[c].run, Target(calls[c])>> =>
                 checkpoints'[r][s] = checkpoints[r][s]
<1>1. calls[c] \in CallState /\ CallFits(calls[c])
  BY DEF CallsIInv, TypeOK
<1>2. calls[c].run \in Run /\ Target(calls[c]) \in Sequence
  BY <1>1, PlanAssumption DEF CallState, CallFits, Active, Target, Sequence
<1>3. CheckpointOf(calls[c]) \in Checkpoint
  BY <1>1, CheckpointTyped
<1>4. checkpoints \in [Run -> [Sequence -> Checkpoint \cup {NoCheckpoint}]]
  BY DEF CallsIInv, TypeOK
<1> QED BY <1>2, <1>3, <1>4 DEF Written

LEMMA TargetTyped ==
  ASSUME CallsIInv, NEW c \in Call, calls[c].pc \in Persists
  PROVE  /\ calls[c].run \in Run /\ Target(calls[c]) \in Sequence
         /\ CheckpointOf(calls[c]) \in Checkpoint /\ Inspectable(CheckpointOf(calls[c]))
         /\ CheckpointOf(calls[c]) # NoCheckpoint
<1>1. calls[c] \in CallState /\ CallFits(calls[c])
  BY DEF CallsIInv, TypeOK
<1>2. calls[c].run \in Run /\ Target(calls[c]) \in Sequence
  BY <1>1, PlanAssumption DEF CallState, CallFits, Active, Target, Sequence
<1>3. CheckpointOf(calls[c]) \in Checkpoint
  BY <1>1, CheckpointTyped
<1> QED BY <1>1, <1>2, <1>3, NoRecordAssumption DEF CallFits

LEMMA InitCalls == Init => CallsIInv
<1> SUFFICES ASSUME Init PROVE CallsIInv
  OBVIOUS
<1>1. AbsentRecord \in WorkClaimRecord
  BY DEF AbsentRecord, WorkClaimRecord, Status
<1>2. 0 \in 0..MaxFaults /\ 0 \in 0..MaxCrashes
  BY PlanAssumption
<1>3. TypeOK
  BY <1>1, <1>2, IdleFits DEF Init, TypeOK
<1>4. \A r \in Run : Stored(r) = {}
  BY DEF Init, Stored
<1>5. \A c \in Call : CallFits(calls[c])
  BY IdleFits DEF Init
<1> QED BY <1>3, <1>4, <1>5 DEF CallsIInv, EveryCheckpointInspects

LEMMA NextCalls == CallsIInv /\ [Next]_vars => CallsIInv'
<1> SUFFICES ASSUME CallsIInv, [Next]_vars PROVE CallsIInv'
  OBVIOUS
<1>1. /\ checkpoints \in [Run -> [Sequence -> Checkpoint \cup {NoCheckpoint}]]
      /\ claims \in [Run -> [1..Steps -> WorkClaimRecord]]
      /\ calls \in [Call -> CallState]
      /\ acknowledged \subseteq Run \X Sequence \X Checkpoint
      /\ faults \in 0..MaxFaults /\ crashes \in 0..MaxCrashes
      /\ EveryCheckpointInspects /\ \A c \in Call : CallFits(calls[c])
  BY DEF CallsIInv, TypeOK
<1>2. UNCHANGED checkpoints => EveryCheckpointInspects'
  BY <1>1 DEF EveryCheckpointInspects, Stored
<1>3. faults < MaxFaults /\ faults' = faults + 1 => faults' \in 0..MaxFaults
  BY <1>1, PlanAssumption
<1>4. ASSUME NEW c \in Call, Calls(c) PROVE CallsIInv'
  <2>1. PICK next : Becomes(c, next)
    BY <1>4, CallerFits
  <2>2. calls' \in [Call -> CallState] /\ \A d \in Call : CallFits(calls'[d])
    BY <2>1, BecomesFits
  <2>3. UNCHANGED <<checkpoints, claims, acknowledged, faults, crashes>>
    BY <1>4, CallerFits
  <2> QED BY <1>1, <1>2, <2>2, <2>3 DEF CallsIInv, TypeOK
<1>5. ASSUME NEW c \in Call, Works(c) PROVE CallsIInv'
  <2>1. PICK next : Becomes(c, next)
    BY <1>5, WorkFits
  <2>2. calls' \in [Call -> CallState] /\ \A d \in Call : CallFits(calls'[d])
    BY <2>1, BecomesFits
  <2>3. /\ UNCHANGED <<checkpoints, acknowledged, crashes>>
        /\ faults' = faults \/ (faults < MaxFaults /\ faults' = faults + 1)
    BY <1>5, WorkFits
  <2>4. claims' \in [Run -> [1..Steps -> WorkClaimRecord]]
    BY <1>5, WorkKeepsTyping
  <2> QED BY <1>1, <1>2, <1>3, <2>2, <2>3, <2>4 DEF CallsIInv, TypeOK
<1>6. ASSUME NEW c \in Call, Puts(c) PROVE CallsIInv'
  <2>1. PICK next : Becomes(c, next) /\ HasPut(c, next)
    BY <1>6, PutFits
  <2>2. calls' \in [Call -> CallState] /\ \A d \in Call : CallFits(calls'[d])
    BY <2>1, BecomesFits
  <2>3. /\ calls[c].pc \in Persists /\ UNCHANGED <<claims, crashes>>
        /\ faults' = faults \/ (faults < MaxFaults /\ faults' = faults + 1)
    BY <1>6, PutFits
  <2>4. /\ calls[c].run \in Run /\ Target(calls[c]) \in Sequence
        /\ CheckpointOf(calls[c]) \in Checkpoint /\ Inspectable(CheckpointOf(calls[c]))
    BY <2>3, TargetTyped
  <2>5. acknowledged' \subseteq Run \X Sequence \X Checkpoint
    BY <1>1, <2>1, <2>4 DEF HasPut, Told
  <2>6. UNCHANGED checkpoints \/ Written(c)
    BY <2>1 DEF HasPut
  <2>7. CASE UNCHANGED checkpoints
    BY <1>1, <1>2, <1>3, <2>2, <2>3, <2>5, <2>7 DEF CallsIInv, TypeOK
  <2>8. CASE Written(c)
    <3>1. /\ checkpoints' \in [Run -> [Sequence -> Checkpoint \cup {NoCheckpoint}]]
          /\ checkpoints'[calls[c].run][Target(calls[c])] = CheckpointOf(calls[c])
          /\ \A r \in Run, s \in Sequence :
                <<r, s>> # <<calls[c].run, Target(calls[c])>> =>
                   checkpoints'[r][s] = checkpoints[r][s]
      BY <2>3, <2>8, WrittenTyped
    <3>2. ASSUME NEW r \in Run, NEW s \in Sequence, checkpoints'[r][s] # NoCheckpoint
          PROVE  Inspectable(checkpoints'[r][s])
      <4>1. CASE <<r, s>> = <<calls[c].run, Target(calls[c])>>
        <5>1. checkpoints'[r][s] = CheckpointOf(calls[c])
          BY <3>1, <4>1
        <5> QED BY <2>4, <5>1
      <4>2. CASE <<r, s>> # <<calls[c].run, Target(calls[c])>>
        <5>1. checkpoints'[r][s] = checkpoints[r][s]
          BY <3>1, <4>2
        <5>2. Inspectable(checkpoints[r][s])
          BY <1>1, <3>2, <5>1 DEF EveryCheckpointInspects, Stored
        <5> QED BY <5>1, <5>2
      <4> QED BY <4>1, <4>2
    <3>3. EveryCheckpointInspects'
      BY <3>2 DEF EveryCheckpointInspects, Stored
    <3> QED BY <1>1, <1>3, <2>2, <2>3, <2>5, <3>1, <3>3 DEF CallsIInv, TypeOK
  <2> QED BY <2>6, <2>7, <2>8
<1>7. ASSUME NEW i \in Instance, Crash(i) PROVE CallsIInv'
  <2>1. /\ UNCHANGED <<checkpoints, claims, acknowledged, faults>>
        /\ crashes < MaxCrashes /\ crashes' = crashes + 1
        /\ calls' = [c \in Call |-> IF InstanceOf[c] = i THEN [Idle EXCEPT !.pc = "gone"]
                                    ELSE calls[c]]
    BY <1>7 DEF Crash
  <2>2. crashes' \in 0..MaxCrashes
    BY <1>1, <2>1, PlanAssumption
  <2>3. calls' \in [Call -> CallState]
    <3> DEFINE gone == [Idle EXCEPT !.pc = "gone"]
    <3>1. gone \in CallState
      BY IdleFits
    <3>2. calls' = [c \in Call |-> IF InstanceOf[c] = i THEN gone ELSE calls[c]]
      BY <2>1
    <3> HIDE DEF gone
    <3> QED BY <1>1, <3>1, <3>2
  <2>4. \A c \in Call : CallFits(calls'[c])
    BY <1>1, <2>1, IdleFits
  <2> QED BY <1>1, <1>2, <2>1, <2>2, <2>3, <2>4 DEF CallsIInv, TypeOK
<1>8. ASSUME Tick PROVE CallsIInv'
  <2>1. /\ UNCHANGED <<checkpoints, calls, acknowledged, faults, crashes>>
        /\ claims' = [r \in Run |-> [n \in 1..Steps |-> Aged(claims[r][n])]]
    BY <1>8 DEF Tick
  <2>2. \A r \in Run, n \in 1..Steps : Aged(claims[r][n]) \in WorkClaimRecord
    BY <1>1, AgedTyped
  <2>3. claims' \in [Run -> [1..Steps -> WorkClaimRecord]]
    BY <2>1, <2>2
  <2> QED BY <1>1, <1>2, <2>1, <2>3 DEF CallsIInv, TypeOK
<1>9. CASE UNCHANGED vars
  <2>1. UNCHANGED <<checkpoints, claims, calls, acknowledged, faults, crashes>>
    BY <1>9 DEF vars
  <2> QED BY <1>1, <1>2, <2>1 DEF CallsIInv, TypeOK
<1> QED BY <1>4, <1>5, <1>6, <1>7, <1>8, <1>9, NextCases

\* The calls and the stores are well-formed, and a call that is about to persist
\* holds a checkpoint that agrees with its plan.
THEOREM CallsInvariance == Spec => []CallsIInv
BY InitCalls, NextCalls, PTL DEF Spec

\* The variables have their types.
THEOREM WorkflowTyping == Spec => []TypeOK
<1>1. CallsIInv => TypeOK
  BY DEF CallsIInv
<1> QED BY <1>1, CallsInvariance, PTL

\* Whatever calls, failures and crashes wrote a checkpoint, inspect can show it
\* (buildInspectionSnapshot, the schemas of a checkpoint and an inspection).
THEOREM EveryCheckpointAlwaysInspects == Spec => []EveryCheckpointInspects
<1>1. CallsIInv => EveryCheckpointInspects
  BY DEF CallsIInv
<1> QED BY <1>1, CallsInvariance, PTL
-----------------------------------------------------------------------------
(* The history of a run, in one process: a put is not interrupted.          *)

Writers == {"writing", "reloading"}

\* Puts of one process follow one another.
OnePut == \A c, d \in Call : calls[c].pc \in Writers /\ calls[d].pc \in Writers => c = d

\* What put looked up is still true when it writes.
SlotsAreFree == \A c \in Call : calls[c].pc = "writing" => Slot(calls[c]) = NoCheckpoint

\* A checkpoint may be stored after the one it was made from.
Follows(r, base, checkpoint) ==
  base # 0 => base \in Stored(r) /\ MayFollow(checkpoints[r][base], checkpoint)

\* A call works from a stored checkpoint that it may follow, the latest or not.
FromHistory ==
  \A c \in Call :
    Active(calls[c]) => Follows(calls[c].run, calls[c].base, CheckpointOf(calls[c]))

HistoryIInv ==
  OnePut /\ SlotsAreFree /\ FromHistory /\ OneHistory /\ AcknowledgedIsKept

\* MayFollow asks only for the control and the progress of what follows.
LEMMA MayFollowOn ==
  ASSUME NEW earlier \in Checkpoint, NEW first \in Checkpoint, NEW later \in Checkpoint,
         MayFollow(earlier, first), later.control = first.control, first.done <= later.done
  PROVE  MayFollow(earlier, later)
<1>1. earlier.done \in Int /\ first.done \in Int /\ later.done \in Int
  BY PlanAssumption DEF Checkpoint
<1> QED BY <1>1 DEF MayFollow

\* Wherever a call goes, its checkpoint may follow the one it started from.
LEMMA NextFollows ==
  ASSUME CallsIInv, HistoryIInv, NEW c \in Call, NEW next \in CallState,
         \/ ~Active(next)
         \/ Begins(next)
         \/ Active(calls[c]) /\ Stays(calls[c], next)
         \/ Active(calls[c]) /\ \E token : Advances(calls[c], next, token)
  PROVE  Active(next) => Follows(next.run, next.base, CheckpointOf(next))
<1> DEFINE call == calls[c]
<1>1. call \in CallState /\ TypeOK
  BY DEF CallsIInv, TypeOK
<1>2. next.run \in Run /\ call.run \in Run
  BY <1>1 DEF CallState
<1>3. CASE Begins(next)
  <2>1. CASE next.base = 0
    BY <2>1 DEF Follows
  <2>2. CASE Continues(next)
    <3>1. next.base \in Stored(next.run)
      BY <1>1, <1>2, <2>2, LatestIsStored DEF Continues
    <3> QED BY <2>2, <3>1 DEF Continues, Follows
  <2> QED BY <1>3, <2>1, <2>2 DEF Begins
<1>4. CASE Active(call) /\ (Stays(call, next) \/ \E token : Advances(call, next, token))
  <2>1. Follows(call.run, call.base, CheckpointOf(call))
    BY <1>4 DEF HistoryIInv, FromHistory
  <2>2. /\ next.run = call.run /\ next.base = call.base /\ next.operation = call.operation
        /\ next.done = call.done \/ next.done = call.done + 1
    BY <1>4 DEF Stays, Advances
  <2>3. CheckpointOf(call) \in Checkpoint /\ CheckpointOf(next) \in Checkpoint
    BY <1>1, CheckpointTyped
  <2>4. /\ CheckpointOf(next).control = CheckpointOf(call).control
        /\ CheckpointOf(next).done = next.done /\ CheckpointOf(call).done = call.done
    BY <2>2 DEF CheckpointOf
  <2>5. call.done \in Nat
    BY <1>1, PlanAssumption DEF CallState
  <2>6. CheckpointOf(call).done <= CheckpointOf(next).done
    BY <2>2, <2>4, <2>5
  <2>7. ASSUME call.base # 0
        PROVE  call.base \in Stored(call.run)
               /\ MayFollow(checkpoints[call.run][call.base], CheckpointOf(next))
    <3>1. /\ call.base \in Stored(call.run)
          /\ MayFollow(checkpoints[call.run][call.base], CheckpointOf(call))
      BY <2>1, <2>7 DEF Follows
    <3>2. checkpoints[call.run][call.base] \in Checkpoint
      BY <1>1, <1>2, <3>1 DEF TypeOK, Stored
    <3> QED BY <2>3, <2>4, <2>6, <3>1, <3>2, MayFollowOn
  <2> QED BY <2>2, <2>7 DEF Follows
<1> QED BY <1>3, <1>4

\* Checkpoints that stay stored keep the calls that started from them going.
LEMMA FollowsStays ==
  ASSUME NEW r \in Run, NEW base, NEW checkpoint, Follows(r, base, checkpoint),
         \A s \in Stored(r) : checkpoints'[r][s] = checkpoints[r][s]
  PROVE  Follows(r, base, checkpoint)'
BY DEF Follows, Stored

\* A step that writes no checkpoint.
LEMMA HistoryKept ==
  ASSUME CallsIInv, HistoryIInv, UNCHANGED checkpoints, NEW c \in Call, NEW next,
         Becomes(c, next), UNCHANGED acknowledged \/ (calls[c].pc \in Persists /\ Told(c)),
         \/ ~Active(next)
         \/ Begins(next)
         \/ Active(calls[c]) /\ Stays(calls[c], next) /\ next.pc \notin Writers
         \/ Active(calls[c]) /\ \E token : Advances(calls[c], next, token)
         \/ /\ next.pc = "writing" /\ Active(calls[c]) /\ Stays(calls[c], next)
            /\ Slot(calls[c]) = NoCheckpoint
            /\ \A d \in Call \ {c} : calls[d].pc \notin Writers
  PROVE  HistoryIInv'
<1>1. /\ next \in CallState /\ calls'[c] = next
      /\ \A d \in Call \ {c} : calls'[d] = calls[d]
  BY BecomesFits DEF Becomes
<1>2. next.pc \in Writers =>
        /\ next.pc = "writing" /\ Slot(next) = NoCheckpoint
        /\ \A d \in Call \ {c} : calls[d].pc \notin Writers
  BY DEF Active, Working, Persists, Writers, Begins, Stays, Advances, Slot, Target
<1>3. OnePut'
  <2>1. ASSUME NEW d \in Call, NEW e \in Call, calls'[d].pc \in Writers, calls'[e].pc \in Writers
        PROVE  d = e
    <3>1. CASE d = c \/ e = c
      BY <1>1, <1>2, <2>1, <3>1
    <3>2. CASE d # c /\ e # c
      <4>1. calls'[d] = calls[d] /\ calls'[e] = calls[e]
        BY <1>1, <3>2
      <4> QED BY <2>1, <4>1 DEF HistoryIInv, OnePut
    <3> QED BY <3>1, <3>2
  <2> QED BY <2>1 DEF OnePut
<1>4. SlotsAreFree'
  <2>1. ASSUME NEW d \in Call, calls'[d].pc = "writing"
        PROVE  checkpoints[calls'[d].run][Target(calls'[d])] = NoCheckpoint
    <3>1. CASE d = c
      <4>1. calls'[d] = next /\ next.pc \in Writers
        BY <1>1, <2>1, <3>1 DEF Writers
      <4>2. Slot(next) = NoCheckpoint
        BY <1>2, <4>1
      <4> QED BY <4>1, <4>2 DEF Slot
    <3>2. CASE d # c
      <4>1. calls'[d] = calls[d]
        BY <1>1, <3>2
      <4> QED BY <2>1, <4>1 DEF HistoryIInv, SlotsAreFree, Slot
    <3> QED BY <3>1, <3>2
  <2>2. \A d \in Call : calls'[d].pc = "writing" => Slot(calls[d])' = NoCheckpoint
    BY <2>1 DEF Slot, Target
  <2> QED BY <2>2 DEF SlotsAreFree
<1>5. FromHistory'
  <2>1. Active(next) => Follows(next.run, next.base, CheckpointOf(next))
    BY <1>1, NextFollows
  <2>2. ASSUME NEW d \in Call, Active(calls'[d])
        PROVE  Follows(calls'[d].run, calls'[d].base, CheckpointOf(calls'[d]))
    <3>1. CASE d = c
      BY <1>1, <2>1, <2>2, <3>1
    <3>2. CASE d # c
      <4>1. calls'[d] = calls[d]
        BY <1>1, <3>2
      <4> QED BY <2>2, <4>1 DEF HistoryIInv, FromHistory
    <3> QED BY <3>1, <3>2
  <2>3. \A d \in Call :
          Active(calls[d])' => Follows(calls[d].run, calls[d].base, CheckpointOf(calls[d]))'
    BY <2>2 DEF Active, Follows, Stored, CheckpointOf
  <2> QED BY <2>3 DEF FromHistory
<1>6. OneHistory'
  BY DEF HistoryIInv, OneHistory, Stored
<1>7. AcknowledgedIsKept'
  BY DEF HistoryIInv, AcknowledgedIsKept, Told, Slot
<1> QED BY <1>3, <1>4, <1>5, <1>6, <1>7 DEF HistoryIInv

\* The step that writes one: into a free slot, after the checkpoint it started from.
LEMMA HistoryGrows ==
  ASSUME CallsIInv, HistoryIInv, NEW c \in Call, NEW next, Becomes(c, next),
         calls[c].pc = "writing", next.pc = "reloading", Stays(calls[c], next),
         Written(c), UNCHANGED acknowledged
  PROVE  HistoryIInv'
<1> DEFINE call == calls[c]
           slot == Target(calls[c])
           written == CheckpointOf(calls[c])
<1>1. /\ next \in CallState /\ calls'[c] = next
      /\ \A d \in Call \ {c} : calls'[d] = calls[d]
  BY BecomesFits DEF Becomes
<1>2. call.pc \in Persists
  BY DEF Persists
<1>3. /\ call.run \in Run /\ slot \in Sequence /\ written # NoCheckpoint
      /\ call.base \in Nat /\ slot = call.base + 1 /\ Active(call)
  BY <1>2, TargetTyped, PlanAssumption DEF CallsIInv, TypeOK, CallState, Target, Active
<1>4. /\ checkpoints'[call.run][slot] = written
      /\ \A r \in Run, s \in Sequence :
           <<r, s>> # <<call.run, slot>> => checkpoints'[r][s] = checkpoints[r][s]
  BY <1>2, WrittenTyped
<1>5. checkpoints[call.run][slot] = NoCheckpoint
  BY DEF HistoryIInv, SlotsAreFree, Slot
<1>6. \A r \in Run : \A s \in Stored(r) :
        s \in Sequence /\ <<r, s>> # <<call.run, slot>> /\ checkpoints'[r][s] = checkpoints[r][s]
  BY <1>4, <1>5 DEF Stored
<1>7. \A r \in Run : \A s \in Stored(r)' : s \in Stored(r) \/ <<r, s>> = <<call.run, slot>>
  BY <1>4 DEF Stored
<1>8. \A d \in Call \ {c} : calls[d].pc \notin Writers
  BY DEF HistoryIInv, OnePut, Writers
<1>9. OnePut'
  BY <1>1, <1>8 DEF OnePut
<1>10. SlotsAreFree'
  <2>1. \A d \in Call : calls'[d].pc # "writing"
    BY <1>1, <1>8 DEF Writers
  <2> QED BY <2>1 DEF SlotsAreFree
<1>11. FromHistory'
  <2>1. ASSUME NEW d \in Call, Active(calls'[d])
        PROVE  calls'[d].base # 0 =>
                 /\ calls'[d].base \in Sequence
                 /\ checkpoints'[calls'[d].run][calls'[d].base] # NoCheckpoint
                 /\ MayFollow(checkpoints'[calls'[d].run][calls'[d].base],
                              CheckpointOf(calls'[d]))
    <3>1. PICK r, base, checkpoint :
            r = calls'[d].run /\ base = calls'[d].base /\ checkpoint = CheckpointOf(calls'[d])
      OBVIOUS
    <3>2. calls'[d] \in CallState
      BY BecomesFits
    <3>3. r \in Run
      BY <3>1, <3>2 DEF CallState
    <3>4. Follows(r, base, checkpoint)
      <4>1. CASE d = c
        <5>1. Active(calls[c]) /\ Stays(calls[c], next) /\ Active(next)
          BY <1>1, <1>3, <2>1, <4>1
        <5>2. Follows(next.run, next.base, CheckpointOf(next))
          BY <1>1, <5>1, NextFollows
        <5> QED BY <1>1, <3>1, <4>1, <5>2
      <4>2. CASE d # c
        <5>1. calls'[d] = calls[d]
          BY <1>1, <4>2
        <5> QED BY <2>1, <3>1, <5>1 DEF HistoryIInv, FromHistory
      <4> QED BY <4>1, <4>2
    <3>5. \A s \in Stored(r) : checkpoints'[r][s] = checkpoints[r][s]
      BY <1>6, <3>3
    <3>6. Follows(r, base, checkpoint)'
      BY <3>3, <3>4, <3>5, FollowsStays
    <3>7. base # 0 => /\ base \in Sequence /\ checkpoints'[r][base] # NoCheckpoint
                      /\ MayFollow(checkpoints'[r][base], checkpoint)
      BY <3>6 DEF Follows, Stored
    <3> QED BY <3>1, <3>7
  <2> QED BY <2>1 DEF FromHistory, Active, Follows, Stored, CheckpointOf
<1>12. OneHistory'
  <2>1. Follows(call.run, call.base, written)
    BY <1>3 DEF HistoryIInv, FromHistory
  <2>2. ASSUME NEW r \in Run, NEW s \in Stored(r)' \ {1}
        PROVE  s - 1 \in Stored(r)' /\ MayFollow(checkpoints'[r][s - 1], checkpoints'[r][s])
    <3>1. CASE <<r, s>> = <<call.run, slot>>
      <4>1. r = call.run /\ s = slot /\ s - 1 = call.base /\ call.base # 0
        BY <1>3, <2>2, <3>1
      <4>2. call.base \in Stored(r) /\ MayFollow(checkpoints[r][call.base], written)
        BY <2>1, <4>1 DEF Follows
      <4>3. call.base \in Stored(r)' /\ checkpoints'[r][call.base] = checkpoints[r][call.base]
        BY <1>6, <4>2 DEF Stored
      <4> QED BY <1>4, <4>1, <4>2, <4>3
    <3>2. CASE s \in Stored(r)
      <4>1. s - 1 \in Stored(r) /\ MayFollow(checkpoints[r][s - 1], checkpoints[r][s])
        BY <2>2, <3>2 DEF HistoryIInv, OneHistory
      <4>2. checkpoints'[r][s] = checkpoints[r][s] /\ checkpoints'[r][s - 1] = checkpoints[r][s - 1]
        BY <1>6, <3>2, <4>1
      <4> QED BY <4>1, <4>2 DEF Stored
    <3> QED BY <1>7, <2>2, <3>1, <3>2
  <2> QED BY <2>2 DEF OneHistory
<1>13. AcknowledgedIsKept'
  <2>1. ASSUME NEW entry \in acknowledged PROVE checkpoints'[entry[1]][entry[2]] = entry[3]
    <3>1. /\ entry[1] \in Run /\ entry[2] \in Sequence /\ entry[3] \in Checkpoint
          /\ checkpoints[entry[1]][entry[2]] = entry[3]
      BY <2>1 DEF CallsIInv, TypeOK, HistoryIInv, AcknowledgedIsKept
    <3>2. entry[2] \in Stored(entry[1])
      BY <3>1, NoRecordAssumption DEF Stored
    <3> QED BY <1>6, <3>1, <3>2
  <2> QED BY <2>1 DEF AcknowledgedIsKept
<1> QED BY <1>9, <1>10, <1>11, <1>12, <1>13 DEF HistoryIInv

\* Calls that end or stay where they are change no history.
LEMMA HistoryRests ==
  ASSUME HistoryIInv, UNCHANGED <<checkpoints, acknowledged>>,
         \A c \in Call : calls'[c] = calls[c] \/ calls'[c].pc = "gone"
  PROVE  HistoryIInv'
<1>1. OnePut'
  BY DEF HistoryIInv, OnePut, Writers
<1>2. SlotsAreFree'
  <2>1. ASSUME NEW c \in Call, calls'[c].pc = "writing"
        PROVE  checkpoints'[calls'[c].run][Target(calls'[c])] = NoCheckpoint
    <3>1. calls'[c] = calls[c]
      BY <2>1
    <3> QED BY <2>1, <3>1 DEF HistoryIInv, SlotsAreFree, Slot
  <2> QED BY <2>1 DEF SlotsAreFree, Slot, Target
<1>3. FromHistory'
  <2>1. ASSUME NEW c \in Call, Active(calls'[c])
        PROVE  Follows(calls'[c].run, calls'[c].base, CheckpointOf(calls'[c]))
    <3>1. calls'[c] = calls[c]
      BY <2>1 DEF Active, Working, Persists
    <3> QED BY <2>1, <3>1 DEF HistoryIInv, FromHistory
  <2>2. \A c \in Call :
          Active(calls[c])' => Follows(calls[c].run, calls[c].base, CheckpointOf(calls[c]))'
    BY <2>1 DEF Active, Follows, Stored, CheckpointOf
  <2> QED BY <2>2 DEF FromHistory
<1>4. OneHistory'
  BY DEF HistoryIInv, OneHistory, Stored
<1>5. AcknowledgedIsKept'
  BY DEF HistoryIInv, AcknowledgedIsKept
<1> QED BY <1>1, <1>2, <1>3, <1>4, <1>5 DEF HistoryIInv

LEMMA InitHistory == Init => HistoryIInv
<1> SUFFICES ASSUME Init PROVE HistoryIInv
  OBVIOUS
<1>1. \A c \in Call : calls[c].pc = "idle"
  BY DEF Init, Idle
<1>2. OnePut /\ SlotsAreFree /\ FromHistory
  BY <1>1 DEF OnePut, Writers, SlotsAreFree, FromHistory, Active, Working, Persists
<1>3. OneHistory
  BY DEF Init, OneHistory, Stored
<1>4. AcknowledgedIsKept
  BY DEF Init, AcknowledgedIsKept
<1> QED BY <1>2, <1>3, <1>4 DEF HistoryIInv

LEMMA NextHistory ==
  ASSUME ~SharedDatabase, CallsIInv, HistoryIInv, [Next]_vars
  PROVE  HistoryIInv'
<1>1. ASSUME NEW c \in Call, Calls(c) PROVE HistoryIInv'
  <2>1. PICK next : Becomes(c, next) /\ (~Active(next) \/ Begins(next))
    BY <1>1, CallerFits
  <2>2. UNCHANGED <<checkpoints, acknowledged>>
    BY <1>1, CallerFits
  <2> QED BY <2>1, <2>2, HistoryKept
<1>2. ASSUME NEW c \in Call, Works(c) PROVE HistoryIInv'
  <2>1. PICK next : Becomes(c, next) /\ Worked(c, next)
    BY <1>2, WorkFits
  <2>2. UNCHANGED <<checkpoints, acknowledged>> /\ Active(calls[c])
    BY <1>2, WorkFits DEF Active
  <2>3. \/ ~Active(next)
        \/ Stays(calls[c], next) /\ next.pc \notin Writers
        \/ \E token : Advances(calls[c], next, token)
    BY <2>1 DEF Worked, Writers
  <2> QED BY <2>1, <2>2, <2>3, HistoryKept
<1>3. ASSUME NEW c \in Call, Puts(c) PROVE HistoryIInv'
  <2>1. PICK next : Becomes(c, next) /\ HasPut(c, next)
    BY <1>3, PutFits
  <2>2. calls[c].pc \in Persists /\ Active(calls[c])
    BY <1>3, PutFits DEF Active
  <2>3. CASE /\ next.pc = "writing" /\ Stays(calls[c], next) /\ MayEnterPut(c)
             /\ Slot(calls[c]) = NoCheckpoint
             /\ UNCHANGED <<checkpoints, acknowledged>>
    <3>1. \A d \in Call \ {c} : calls[d].pc \notin Writers
      BY <2>3 DEF MayEnterPut, Writers
    <3> QED BY <2>1, <2>2, <2>3, <3>1, HistoryKept
  <2>4. CASE /\ calls[c].pc = "writing" /\ next.pc = "reloading" /\ Stays(calls[c], next)
             /\ Written(c) /\ UNCHANGED acknowledged
    BY <2>1, <2>4, HistoryGrows
  <2>5. CASE ~Active(next) /\ UNCHANGED checkpoints /\ (UNCHANGED acknowledged \/ Told(c))
    BY <2>1, <2>2, <2>5, HistoryKept
  <2> QED BY <2>1, <2>3, <2>4, <2>5 DEF HasPut
<1>4. ASSUME NEW i \in Instance, Crash(i) PROVE HistoryIInv'
  <2>1. /\ UNCHANGED <<checkpoints, acknowledged>>
        /\ calls' = [c \in Call |-> IF InstanceOf[c] = i THEN [Idle EXCEPT !.pc = "gone"]
                                    ELSE calls[c]]
    BY <1>4 DEF Crash
  <2>2. \A c \in Call : calls'[c] = calls[c] \/ calls'[c].pc = "gone"
    BY <2>1 DEF Idle
  <2> QED BY <2>1, <2>2, HistoryRests
<1>5. CASE Tick
  BY <1>5, HistoryRests DEF Tick
<1>6. CASE UNCHANGED vars
  BY <1>6, HistoryRests DEF vars
<1> QED BY <1>1, <1>2, <1>3, <1>4, <1>5, <1>6, NextCases

\* In one process a put is not interrupted, what it looked up stays true, and every
\* call works from a checkpoint of the run's one history.
THEOREM HistoryInvariance ==
  ASSUME ~SharedDatabase
  PROVE  Spec => []HistoryIInv
<1>1. CallsIInv /\ HistoryIInv /\ [Next]_vars => HistoryIInv'
  BY NextHistory
<1> QED BY <1>1, InitHistory, CallsInvariance, PTL DEF Spec

\* The stored checkpoints of a run form one history, whichever calls wrote them
\* (resumeFromCheckpoint, persistCheckpoint).
THEOREM RunsHaveOneHistory ==
  ASSUME ~SharedDatabase
  PROVE  Spec => []OneHistory
<1>1. HistoryIInv => OneHistory
  BY DEF HistoryIInv
<1> QED BY <1>1, HistoryInvariance, PTL

\* A checkpoint that was returned to a caller stays stored, as it is (put).
THEOREM AcknowledgedIsAlwaysKept ==
  ASSUME ~SharedDatabase
  PROVE  Spec => []AcknowledgedIsKept
<1>1. HistoryIInv => AcknowledgedIsKept
  BY DEF HistoryIInv
<1> QED BY <1>1, HistoryInvariance, PTL
-----------------------------------------------------------------------------
(* Checkpoints and claims, for calls of different runner instances.         *)

\* Claim ids tell calls apart: no runner instance works on two calls at a time.
OwnInstances == \A c, d \in Call : InstanceOf[c] = InstanceOf[d] => c = d

\* A record has an output when its work is completed, and only then.
RecordFits(rec) == rec.output # NoOutput <=> rec.status = "completed"

\* The first steps of a run are completed, and the last of them produced a token.
DoneMatches(r, done, token) ==
  /\ \A n \in 1..done : claims[r][n].status = "completed"
  /\ token = IF done = 0 THEN NoOutput ELSE claims[r][done].output

\* A call executes under its own claim, if that is still its own.
OwnClaimIsLive ==
  \A c \in Call : calls[c].pc = "executing" /\ ClaimOf(c).claimId = ClaimIdOf(c)
                    => ClaimOf(c).status = "claimed"

ClaimsIInv ==
  /\ \A r \in Run, n \in 1..Steps : RecordFits(claims[r][n])
  /\ \A c \in Call : Active(calls[c]) => DoneMatches(calls[c].run, calls[c].done, calls[c].token)
  /\ OwnClaimIsLive
  /\ CheckpointMatchesClaims

\* What is completed stays completed, with its output.
CompletedStays ==
  \A r \in Run, n \in 1..Steps :
    claims[r][n].status = "completed" =>
      claims'[r][n].status = "completed" /\ claims'[r][n].output = claims[r][n].output

\* What a claim, a release and a completion make of a record.
LEMMA GrantStep ==
  ASSUME NEW rec \in WorkClaimRecord, RecordFits(rec), NEW id, NEW sequence, NEW ttl,
         ClaimDecision(rec, id, sequence) = "acquired"
  PROVE  /\ rec.status # "completed"
         /\ RecordFits(GrantedRecord(rec, id, sequence, ttl))
         /\ GrantedRecord(rec, id, sequence, ttl).status = "claimed"
         /\ GrantedRecord(rec, id, sequence, ttl).claimId = id
<1>1. rec.status # "completed"
  BY DEF ClaimDecision
<1> QED BY <1>1 DEF GrantedRecord, RefreshedRecord, ClaimedRecord, WorkClaimRecord, RecordFits

LEMMA ReleaseStep ==
  ASSUME NEW rec \in WorkClaimRecord, RecordFits(rec)
  PROVE  /\ RecordFits(ReleasedRecord(rec)) /\ ReleasedRecord(rec).claimId = rec.claimId
         /\ ReleasedRecord(rec).output = rec.output
         /\ rec.status = "completed" => ReleasedRecord(rec).status = "completed"
BY DEF ReleasedRecord, WorkClaimRecord, RecordFits

LEMMA CompleteStep ==
  ASSUME NEW rec \in WorkClaimRecord, RecordFits(rec), NEW output \in Output
  PROVE  /\ RecordFits(CompletedRecord(rec, output))
         /\ CompletedRecord(rec, output).status = "completed"
         /\ CompletedRecord(rec, output).claimId = rec.claimId
         /\ CompletedRecord(rec, output).output =
              IF rec.status = "completed" THEN rec.output ELSE output
BY PlanAssumption DEF CompletedRecord, WorkClaimRecord, RecordFits

\* Completed steps remain the ones a token stands for.
LEMMA DoneStays ==
  ASSUME CompletedStays, NEW r \in Run, NEW done \in 0..Steps, NEW token,
         DoneMatches(r, done, token)
  PROVE  DoneMatches(r, done, token)'
<1>1. Steps \in Nat
  BY PlanAssumption
<1>2. \A n \in 1..done : n \in 1..Steps
  BY <1>1
<1>3. done # 0 => done \in 1..done
  BY <1>1
<1> QED BY <1>2, <1>3 DEF CompletedStays, DoneMatches

\* One more completed step, and the token it produced.
LEMMA DoneGrows ==
  ASSUME CompletedStays, NEW r \in Run, NEW done \in 0..Steps, done < Steps,
         NEW before, DoneMatches(r, done, before), NEW token,
         claims'[r][done + 1].status = "completed", claims'[r][done + 1].output = token
  PROVE  DoneMatches(r, done + 1, token)'
<1>1. Steps \in Nat /\ done \in Nat /\ done + 1 # 0
  BY PlanAssumption
<1>2. ASSUME NEW n \in 1..(done + 1) PROVE claims'[r][n].status = "completed"
  <2>1. n = done + 1 \/ (n \in 1..done /\ n \in 1..Steps)
    BY <1>1
  <2> QED BY <2>1 DEF CompletedStays, DoneMatches
<1> QED BY <1>1, <1>2 DEF DoneMatches

\* The same, in a call that begins.
LEMMA BeginsMatches ==
  ASSUME CallsIInv, CheckpointMatchesClaims, NEW next \in CallState, Begins(next)
  PROVE  DoneMatches(next.run, next.done, next.token)
<1>1. CASE next.base = 0 /\ next.done = 0 /\ next.token = NoOutput
  BY <1>1 DEF DoneMatches
<1>2. CASE Continues(next)
  <2>1. next.run \in Run /\ LatestSequence(next.run) \in Stored(next.run)
    BY <1>2, LatestIsStored DEF Continues, CallsIInv, CallState
  <2> QED BY <1>2, <2>1 DEF Continues, CheckpointMatchesClaims, DoneMatches
<1> QED BY <1>1, <1>2 DEF Begins

\* A step of a call keeps the claims of the others, and counts what is completed.
LEMMA ClaimsMove ==
  ASSUME OwnInstances, CallsIInv, ClaimsIInv, NEW c \in Call, Works(c), NEW next,
         Becomes(c, next), Worked(c, next)
  PROVE  /\ CompletedStays
         /\ \A r \in Run, n \in 1..Steps : RecordFits(claims'[r][n])
         /\ OwnClaimIsLive'
         /\ Active(next) => DoneMatches(next.run, next.done, next.token)'
<1> DEFINE call == calls[c]
           rec == ClaimOf(c)
           id == ClaimIdOf(c)
           r0 == calls[c].run
           n0 == CurrentStep(calls[c])
           new == claims'[r0][n0]
<1>1. call.pc \in Working
  BY WorkFits
<1>2. /\ r0 \in Run /\ n0 \in 1..Steps /\ rec = claims[r0][n0] /\ rec \in WorkClaimRecord
      /\ RecordFits(rec) /\ call \in CallState /\ call.done < Steps
  BY <1>1, ClaimTyped DEF ClaimsIInv, CallsIInv, TypeOK, CallFits
<1>3. /\ next \in CallState /\ calls'[c] = next
      /\ \A d \in Call \ {c} : calls'[d] = calls[d]
  BY BecomesFits DEF Becomes
<1>4. ASSUME NEW record, SetClaim(c, record)
      PROVE  /\ new = record
             /\ \A r \in Run, n \in 1..Steps : <<r, n>> # <<r0, n0>> => claims'[r][n] = claims[r][n]
  BY <1>2, <1>4 DEF SetClaim, CallsIInv, TypeOK
\* The one record that may change.
<1>5. /\ \A r \in Run, n \in 1..Steps : <<r, n>> # <<r0, n0>> => claims'[r][n] = claims[r][n]
      /\ RecordFits(new)
      /\ rec.status = "completed" => new.status = "completed" /\ new.output = rec.output
      /\ new = rec \/ new.claimId = id
  <2>1. CASE UNCHANGED claims
    BY <1>2, <2>1
  <2>2. CASE Grants(c)
    <3>1. ClaimDecision(rec, id, ClaimSequence(calls[c])) = "acquired"
      BY <2>2 DEF Grants, Decision
    <3>2. PICK record : record = GrantedRecord(rec, id, ClaimSequence(calls[c]), TTL)
      OBVIOUS
    <3>3. rec.status # "completed" /\ RecordFits(record) /\ record.claimId = id
      BY <1>2, <3>1, <3>2, GrantStep
    <3>4. SetClaim(c, record)
      BY <2>2, <3>2 DEF Grants
    <3>5. /\ new = record
          /\ \A r \in Run, n \in 1..Steps : <<r, n>> # <<r0, n0>> => claims'[r][n] = claims[r][n]
      BY <1>4, <3>4
    <3> QED BY <3>3, <3>5
  <2>3. CASE Releases(c)
    <3>1. PICK record : record = ReleasedRecord(rec)
      OBVIOUS
    <3>2. /\ RecordFits(record) /\ record.claimId = rec.claimId /\ record.output = rec.output
          /\ rec.status = "completed" => record.status = "completed"
      BY <1>2, <3>1, ReleaseStep
    <3>3. SetClaim(c, record) /\ rec.claimId = id
      BY <2>3, <3>1 DEF Releases, CanRelease
    <3>4. /\ new = record
          /\ \A r \in Run, n \in 1..Steps : <<r, n>> # <<r0, n0>> => claims'[r][n] = claims[r][n]
      BY <1>4, <3>3
    <3> QED BY <3>2, <3>3, <3>4
  <2>4. CASE \E output \in Output : Completes(c, output)
    <3>1. PICK output \in Output : Completes(c, output)
      BY <2>4
    <3>2. PICK record : record = CompletedRecord(rec, output)
      OBVIOUS
    <3>3. /\ RecordFits(record) /\ record.claimId = rec.claimId /\ record.status = "completed"
          /\ rec.status = "completed" => record.output = rec.output
      BY <1>2, <3>2, CompleteStep
    <3> QED BY <1>4, <3>1, <3>2, <3>3 DEF Completes, CanComplete
  <2> QED BY <2>1, <2>2, <2>3, <2>4 DEF Worked
<1>6. CompletedStays
  BY <1>2, <1>5 DEF CompletedStays
<1>7. \A r \in Run, n \in 1..Steps : RecordFits(claims'[r][n])
  BY <1>5 DEF ClaimsIInv
<1>8. OwnClaimIsLive'
  <2>1. ASSUME NEW d \in Call, calls'[d].pc = "executing",
               claims'[calls'[d].run][CurrentStep(calls'[d])].claimId
                 = <<InstanceOf[d], ClaimSequence(calls'[d])>>
        PROVE  claims'[calls'[d].run][CurrentStep(calls'[d])].status = "claimed"
    <3>1. CASE d = c
      <4>1. next.pc = "executing" /\ Grants(c) /\ Stays(call, next)
        BY <1>3, <2>1, <3>1 DEF Worked, Advances, Active, Working
      <4>2. new.status = "claimed"
        <5>1. ClaimDecision(rec, id, ClaimSequence(calls[c])) = "acquired"
          BY <4>1 DEF Grants, Decision
        <5>2. PICK record : record = GrantedRecord(rec, id, ClaimSequence(calls[c]), TTL)
          OBVIOUS
        <5>3. record.status = "claimed"
          BY <1>2, <5>1, <5>2, GrantStep
        <5>4. SetClaim(c, record)
          BY <4>1, <5>2 DEF Grants
        <5>5. new = record
          BY <1>4, <5>4
        <5> QED BY <5>3, <5>5
      <4> QED BY <1>3, <3>1, <4>1, <4>2 DEF Stays, CurrentStep
    <3>2. CASE d # c
      <4>1. calls'[d] = calls[d] /\ calls[d].pc \in Working
        BY <1>3, <2>1, <3>2 DEF Working
      <4>2. calls[d].run \in Run /\ CurrentStep(calls[d]) \in 1..Steps
        BY <4>1, ClaimTyped
      <4>3. CASE claims'[calls[d].run][CurrentStep(calls[d])] = ClaimOf(d)
        BY <2>1, <4>1, <4>3 DEF ClaimsIInv, OwnClaimIsLive, ClaimIdOf
      <4>4. CASE claims'[calls[d].run][CurrentStep(calls[d])] # ClaimOf(d)
        <5>1. /\ calls[d].run = r0 /\ CurrentStep(calls[d]) = n0 /\ new # rec
          BY <1>2, <1>5, <4>2, <4>4 DEF ClaimOf
        <5>2. new.claimId = <<InstanceOf[c], ClaimSequence(calls[c])>>
          BY <1>5, <5>1 DEF ClaimIdOf
        <5>3. InstanceOf[c] = InstanceOf[d]
          BY <2>1, <4>1, <5>1, <5>2
        <5> QED BY <3>2, <5>3 DEF OwnInstances
      <4> QED BY <4>3, <4>4
    <3> QED BY <3>1, <3>2
  <2> QED BY <2>1 DEF OwnClaimIsLive, ClaimOf, ClaimIdOf, CurrentStep, ClaimSequence
<1>9. ASSUME Active(next) PROVE DoneMatches(next.run, next.done, next.token)'
  <2>1. DoneMatches(call.run, call.done, call.token)
    BY <1>1 DEF ClaimsIInv, Active
  <2>2. PICK r, done, token : r = call.run /\ done = call.done /\ token = call.token
    OBVIOUS
  <2>3. r \in Run /\ done \in 0..Steps /\ done < Steps /\ DoneMatches(r, done, token)
    BY <1>2, <2>1, <2>2 DEF CallState
  <2>4. CASE Stays(call, next)
    <3>1. DoneMatches(r, done, token)'
      BY <1>6, <2>3, DoneStays
    <3>2. next.run = r /\ next.done = done /\ next.token = token
      BY <2>2, <2>4 DEF Stays
    <3> QED BY <3>1, <3>2 DEF DoneMatches
  <2>5. CASE \E output \in Output :
               /\ Advances(call, next, output)
               /\ (rec.output = output /\ UNCHANGED claims) \/ Completes(c, output)
    <3>1. PICK output \in Output :
            /\ Advances(call, next, output)
            /\ (rec.output = output /\ UNCHANGED claims) \/ Completes(c, output)
      BY <2>5
    <3>2. new.status = "completed" /\ new.output = output
      <4>1. CASE rec.output = output /\ UNCHANGED claims
        <5>1. new = rec /\ output # NoOutput
          BY <1>2, <4>1, PlanAssumption
        <5> QED BY <1>2, <4>1, <5>1 DEF RecordFits
      <4>2. CASE Completes(c, output)
        <5>1. PICK record : record = CompletedRecord(rec, output)
          OBVIOUS
        <5>2. rec.status = "claimed" /\ SetClaim(c, record)
          BY <4>2, <5>1 DEF Completes, CanComplete, ClaimsIInv, OwnClaimIsLive
        <5>3. record.status = "completed" /\ record.output = output
          BY <1>2, <5>1, <5>2, CompleteStep
        <5>4. new = record
          BY <1>4, <5>2
        <5> QED BY <5>3, <5>4
      <4> QED BY <3>1, <4>1, <4>2
    <3>3. claims'[r][done + 1].status = "completed" /\ claims'[r][done + 1].output = output
      BY <2>2, <3>2 DEF CurrentStep
    <3>4. DoneMatches(r, done + 1, output)'
      BY <1>6, <2>3, <3>3, DoneGrows
    <3>5. next.run = r /\ next.done = done + 1 /\ next.token = output
      BY <2>2, <3>1 DEF Advances
    <3> QED BY <3>4, <3>5 DEF DoneMatches
  <2> QED BY <1>9, <2>4, <2>5 DEF Worked
<1> QED BY <1>6, <1>7, <1>8, <1>9

\* What the stored checkpoints count as done stays done.
LEMMA StoredKept ==
  ASSUME CallsIInv, CheckpointMatchesClaims, CompletedStays, UNCHANGED checkpoints
  PROVE  CheckpointMatchesClaims'
<1>1. ASSUME NEW r \in Run, NEW s \in Stored(r)
      PROVE  DoneMatches(r, checkpoints[r][s].done, checkpoints[r][s].token)'
  <2>1. PICK done, token : done = checkpoints[r][s].done /\ token = checkpoints[r][s].token
    OBVIOUS
  <2>2. checkpoints[r][s] \in Checkpoint
    BY DEF CallsIInv, TypeOK, Stored
  <2>3. done \in 0..Steps /\ DoneMatches(r, done, token)
    BY <2>1, <2>2 DEF Checkpoint, CheckpointMatchesClaims, DoneMatches
  <2>4. DoneMatches(r, done, token)'
    BY <2>3, DoneStays
  <2> QED BY <2>1, <2>4 DEF DoneMatches
<1> QED BY <1>1 DEF CheckpointMatchesClaims, DoneMatches, Stored

\* One call became another, which counts as done what is.
LEMMA ClaimsMoved ==
  ASSUME CallsIInv, ClaimsIInv, CompletedStays, OwnClaimIsLive',
         \A r \in Run, n \in 1..Steps : RecordFits(claims'[r][n]),
         CheckpointMatchesClaims',
         NEW c \in Call, NEW next, Becomes(c, next),
         Active(next) => DoneMatches(next.run, next.done, next.token)'
  PROVE  ClaimsIInv'
<1>1. /\ next \in CallState /\ calls'[c] = next
      /\ \A d \in Call \ {c} : calls'[d] = calls[d]
  BY BecomesFits DEF Becomes
<1>2. ASSUME NEW d \in Call, Active(calls'[d])
      PROVE  /\ \A n \in 1..calls'[d].done : claims'[calls'[d].run][n].status = "completed"
             /\ calls'[d].token = IF calls'[d].done = 0 THEN NoOutput
                                  ELSE claims'[calls'[d].run][calls'[d].done].output
  <2>1. CASE d = c
    <3>1. DoneMatches(next.run, next.done, next.token)' /\ calls'[d] = next
      BY <1>1, <1>2, <2>1
    <3> QED BY <3>1 DEF DoneMatches
  <2>2. CASE d # c
    <3>1. calls'[d] = calls[d] /\ calls[d] \in CallState
      BY <1>1, <2>2 DEF CallsIInv, TypeOK
    <3>2. PICK r, done, token : r = calls[d].run /\ done = calls[d].done /\ token = calls[d].token
      OBVIOUS
    <3>3. r \in Run /\ done \in 0..Steps /\ DoneMatches(r, done, token)
      BY <1>2, <3>1, <3>2 DEF CallState, ClaimsIInv
    <3>4. DoneMatches(r, done, token)'
      BY <3>3, DoneStays
    <3> QED BY <3>1, <3>2, <3>4 DEF DoneMatches
  <2> QED BY <2>1, <2>2
<1> QED BY <1>2 DEF ClaimsIInv, Active, DoneMatches

\* Steps that leave the claims alone, but for their leases, and start nothing.
LEMMA OwnClaimStays ==
  ASSUME CallsIInv, ClaimsIInv,
         \A r \in Run, n \in 1..Steps :
           claims'[r][n].status = claims[r][n].status /\ claims'[r][n].claimId = claims[r][n].claimId,
         \A c \in Call : calls'[c] = calls[c] \/ calls'[c].pc # "executing"
  PROVE  OwnClaimIsLive'
<1>1. ASSUME NEW c \in Call, calls'[c].pc = "executing",
             claims'[calls'[c].run][CurrentStep(calls'[c])].claimId
               = <<InstanceOf[c], ClaimSequence(calls'[c])>>
      PROVE  claims'[calls'[c].run][CurrentStep(calls'[c])].status = "claimed"
  <2>1. calls'[c] = calls[c] /\ calls[c].pc \in Working
    BY <1>1 DEF Working
  <2>2. calls[c].run \in Run /\ CurrentStep(calls[c]) \in 1..Steps
    BY <2>1, ClaimTyped
  <2>3. ClaimOf(c).claimId = ClaimIdOf(c)
    BY <1>1, <2>1, <2>2 DEF ClaimOf, ClaimIdOf
  <2>4. ClaimOf(c).status = "claimed"
    BY <1>1, <2>1, <2>3 DEF ClaimsIInv, OwnClaimIsLive
  <2> QED BY <2>1, <2>2, <2>4 DEF ClaimOf
<1> QED BY <1>1 DEF OwnClaimIsLive, ClaimOf, ClaimIdOf, CurrentStep, ClaimSequence

LEMMA InitClaims == Init => ClaimsIInv
<1> SUFFICES ASSUME Init PROVE ClaimsIInv
  OBVIOUS
<1>1. \A c \in Call : calls[c].pc = "idle"
  BY DEF Init, Idle
<1>2. \A r \in Run, n \in 1..Steps : RecordFits(claims[r][n])
  BY DEF Init, AbsentRecord, RecordFits
<1>3. CheckpointMatchesClaims
  BY DEF Init, CheckpointMatchesClaims, Stored
<1> QED BY <1>1, <1>2, <1>3 DEF ClaimsIInv, OwnClaimIsLive, Active, Working, Persists

LEMMA NextClaims ==
  ASSUME OwnInstances, CallsIInv, ClaimsIInv, [Next]_vars
  PROVE  ClaimsIInv'
<1>1. /\ \A r \in Run, n \in 1..Steps : RecordFits(claims[r][n])
      /\ CheckpointMatchesClaims
  BY DEF ClaimsIInv
<1>2. UNCHANGED claims => CompletedStays
  BY DEF CompletedStays
<1>3. ASSUME NEW c \in Call, Calls(c) PROVE ClaimsIInv'
  <2>1. PICK next : Becomes(c, next) /\ (~Active(next) \/ Begins(next))
    BY <1>3, CallerFits
  <2>2. UNCHANGED <<checkpoints, claims>>
    BY <1>3, CallerFits
  <2>3. /\ next \in CallState /\ calls'[c] = next
        /\ \A d \in Call \ {c} : calls'[d] = calls[d]
    BY <2>1, BecomesFits DEF Becomes
  <2>4. Active(next) => DoneMatches(next.run, next.done, next.token)
    BY <1>1, <2>1, <2>3, BeginsMatches
  <2>5. Active(next) => DoneMatches(next.run, next.done, next.token)'
    BY <2>2, <2>4 DEF DoneMatches
  <2>6. next.pc # "executing"
    BY <2>1 DEF Active, Working, Begins
  <2>7. OwnClaimIsLive'
    BY <2>2, <2>3, <2>6, OwnClaimStays
  <2>8. CompletedStays /\ CheckpointMatchesClaims'
    BY <1>1, <1>2, <2>2, StoredKept
  <2> QED BY <1>1, <2>1, <2>2, <2>5, <2>7, <2>8, ClaimsMoved
<1>4. ASSUME NEW c \in Call, Works(c) PROVE ClaimsIInv'
  <2>1. PICK next : Becomes(c, next) /\ Worked(c, next)
    BY <1>4, WorkFits
  <2>2. UNCHANGED checkpoints
    BY <1>4, WorkFits
  <2>3. /\ CompletedStays /\ OwnClaimIsLive'
        /\ \A r \in Run, n \in 1..Steps : RecordFits(claims'[r][n])
        /\ Active(next) => DoneMatches(next.run, next.done, next.token)'
    BY <1>4, <2>1, ClaimsMove
  <2>4. CheckpointMatchesClaims'
    BY <1>1, <2>2, <2>3, StoredKept
  <2> QED BY <2>1, <2>3, <2>4, ClaimsMoved
<1>5. ASSUME NEW c \in Call, Puts(c) PROVE ClaimsIInv'
  <2>1. PICK next : Becomes(c, next) /\ HasPut(c, next)
    BY <1>5, PutFits
  <2>2. calls[c].pc \in Persists /\ UNCHANGED claims
    BY <1>5, PutFits
  <2>3. /\ next \in CallState /\ calls'[c] = next
        /\ \A d \in Call \ {c} : calls'[d] = calls[d]
    BY <2>1, BecomesFits DEF Becomes
  <2>4. DoneMatches(calls[c].run, calls[c].done, calls[c].token)
    BY <2>2 DEF ClaimsIInv, Active
  <2>5. ~Active(next) \/ (Stays(calls[c], next) /\ next.pc # "executing")
    BY <2>1 DEF HasPut
  <2>6. Active(next) => DoneMatches(next.run, next.done, next.token)'
    BY <2>2, <2>4, <2>5 DEF DoneMatches, Stays
  <2>7. OwnClaimIsLive'
    <3>1. next.pc # "executing"
      BY <2>5 DEF Active, Working
    <3> QED BY <2>2, <2>3, <3>1, OwnClaimStays
  <2>8. CompletedStays
    BY <1>2, <2>2
  <2>9. CheckpointMatchesClaims'
    <3>1. CASE UNCHANGED checkpoints
      BY <1>1, <2>8, <3>1, StoredKept
    <3>2. CASE Written(c)
      <4>1. /\ calls[c].run \in Run /\ Target(calls[c]) \in Sequence
            /\ checkpoints'[calls[c].run][Target(calls[c])] = CheckpointOf(calls[c])
            /\ \A r \in Run, s \in Sequence :
                  <<r, s>> # <<calls[c].run, Target(calls[c])>> =>
                     checkpoints'[r][s] = checkpoints[r][s]
        BY <2>2, <3>2, TargetTyped, WrittenTyped
      <4>2. ASSUME NEW r \in Run, NEW s \in Sequence, checkpoints'[r][s] # NoCheckpoint
            PROVE  /\ \A n \in 1..checkpoints'[r][s].done : claims'[r][n].status = "completed"
                   /\ checkpoints'[r][s].token =
                        IF checkpoints'[r][s].done = 0 THEN NoOutput
                        ELSE claims'[r][checkpoints'[r][s].done].output
        <5>1. CASE <<r, s>> = <<calls[c].run, Target(calls[c])>>
          <6>1. /\ r = calls[c].run /\ checkpoints'[r][s].done = calls[c].done
                /\ checkpoints'[r][s].token = calls[c].token
            BY <4>1, <5>1 DEF CheckpointOf
          <6> QED BY <2>2, <2>4, <6>1 DEF DoneMatches
        <5>2. CASE <<r, s>> # <<calls[c].run, Target(calls[c])>>
          <6>1. checkpoints'[r][s] = checkpoints[r][s] /\ s \in Stored(r)
            BY <4>1, <4>2, <5>2 DEF Stored
          <6> QED BY <1>1, <2>2, <6>1 DEF CheckpointMatchesClaims
        <5> QED BY <5>1, <5>2
      <4> QED BY <4>2 DEF CheckpointMatchesClaims, Stored
    <3> QED BY <2>1, <3>1, <3>2 DEF HasPut
  <2> QED BY <1>1, <2>1, <2>2, <2>6, <2>7, <2>8, <2>9, ClaimsMoved
<1>6. ASSUME UNCHANGED checkpoints,
             \A r \in Run, n \in 1..Steps :
               /\ claims'[r][n].status = claims[r][n].status
               /\ claims'[r][n].claimId = claims[r][n].claimId
               /\ claims'[r][n].output = claims[r][n].output,
             \A c \in Call : calls'[c] = calls[c] \/ calls'[c].pc = "gone"
      PROVE  ClaimsIInv'
  <2>1. CompletedStays
    BY <1>6 DEF CompletedStays
  <2>2. OwnClaimIsLive'
    BY <1>6, OwnClaimStays
  <2>3. CheckpointMatchesClaims'
    BY <1>1, <1>6, <2>1, StoredKept
  <2>4. \A r \in Run, n \in 1..Steps : RecordFits(claims'[r][n])
    BY <1>1, <1>6 DEF RecordFits
  <2>5. ASSUME NEW d \in Call, Active(calls'[d])
        PROVE  /\ \A n \in 1..calls'[d].done : claims'[calls'[d].run][n].status = "completed"
               /\ calls'[d].token = IF calls'[d].done = 0 THEN NoOutput
                                    ELSE claims'[calls'[d].run][calls'[d].done].output
    <3>1. calls'[d] = calls[d] /\ calls[d] \in CallState
      BY <1>6, <2>5 DEF CallsIInv, TypeOK, Active, Working, Persists
    <3>2. PICK r, done, token : r = calls[d].run /\ done = calls[d].done /\ token = calls[d].token
      OBVIOUS
    <3>3. r \in Run /\ done \in 0..Steps /\ DoneMatches(r, done, token)
      BY <2>5, <3>1, <3>2 DEF CallState, ClaimsIInv
    <3>4. DoneMatches(r, done, token)'
      BY <2>1, <3>3, DoneStays
    <3> QED BY <3>1, <3>2, <3>4 DEF DoneMatches
  <2> QED BY <2>2, <2>3, <2>4, <2>5 DEF ClaimsIInv, Active, DoneMatches
<1>7. ASSUME NEW i \in Instance, Crash(i) PROVE ClaimsIInv'
  <2>1. /\ UNCHANGED <<checkpoints, claims>>
        /\ calls' = [c \in Call |-> IF InstanceOf[c] = i THEN [Idle EXCEPT !.pc = "gone"]
                                    ELSE calls[c]]
    BY <1>7 DEF Crash
  <2>2. \A c \in Call : calls'[c] = calls[c] \/ calls'[c].pc = "gone"
    BY <2>1 DEF Idle
  <2> QED BY <1>6, <2>1, <2>2
<1>8. CASE Tick
  <2>1. UNCHANGED <<checkpoints, calls>>
        /\ claims' = [r \in Run |-> [n \in 1..Steps |-> Aged(claims[r][n])]]
    BY <1>8 DEF Tick
  <2>2. ASSUME NEW r \in Run, NEW n \in 1..Steps
        PROVE  /\ claims'[r][n].status = claims[r][n].status
               /\ claims'[r][n].claimId = claims[r][n].claimId
               /\ claims'[r][n].output = claims[r][n].output
    <3>1. claims[r][n] \in WorkClaimRecord /\ claims'[r][n] = Aged(claims[r][n])
      BY <2>1 DEF CallsIInv, TypeOK
    <3> QED BY <3>1, AgedTyped
  <2> QED BY <1>6, <2>1, <2>2
<1>9. CASE UNCHANGED vars
  <2>1. UNCHANGED <<checkpoints, claims, calls>>
    BY <1>9 DEF vars
  <2> QED BY <1>6, <2>1
<1> QED BY <1>3, <1>4, <1>5, <1>7, <1>8, <1>9, NextCases

\* Claims have an output when they are completed, calls count what is completed, and
\* no call but its holder touches a claim.
THEOREM ClaimsInvariance ==
  ASSUME OwnInstances
  PROVE  Spec => []ClaimsIInv
<1>1. CallsIInv /\ ClaimsIInv /\ [Next]_vars => ClaimsIInv'
  BY NextClaims
<1> QED BY <1>1, InitClaims, CallsInvariance, PTL DEF Spec

\* A checkpoint never runs ahead of, or disagrees with, the work claims
\* (executeStepWithClaim, restoreClaimedStepState), however many runner instances
\* work on the run and whatever fails.
THEOREM CheckpointsAlwaysMatchClaims ==
  ASSUME OwnInstances
  PROVE  Spec => []CheckpointMatchesClaims
<1>1. ClaimsIInv => CheckpointMatchesClaims
  BY DEF ClaimsIInv
<1> QED BY <1>1, ClaimsInvariance, PTL

\* A claim that is granted was not completed and nobody else's live one.
LEMMA GrantedWasFree ==
  ASSUME OwnInstances, CallsIInv, NEW c \in Call, Grants(c),
         NEW r \in Run, NEW n \in 1..Steps, calls[c].run = r, CurrentStep(calls[c]) = n
  PROVE  claims[r][n].status # "completed" /\ \A d \in Call \ {c} : ~HoldsStep(d, r, n)
<1> DEFINE rec == claims[r][n]
<1>1. calls[c].pc \in Working
  BY DEF Grants, Working
<1>2. /\ rec \in WorkClaimRecord /\ ClaimSequence(calls[c]) \in Nat
      /\ ClaimOf(c) = rec
      /\ ClaimDecision(rec, ClaimIdOf(c), ClaimSequence(calls[c])) = "acquired"
  BY <1>1, ClaimTyped DEF Grants, Decision
<1>3. rec.status # "completed"
  BY <1>2 DEF ClaimDecision
<1>4. ASSUME NEW d \in Call \ {c}, HoldsStep(d, r, n) PROVE FALSE
  <2>1. rec.claimId = ClaimIdOf(d) /\ rec.status = "claimed" /\ ~IsExpired(rec)
    BY <1>4 DEF HoldsStep
  <2>2. ClaimIdOf(d) # ClaimIdOf(c)
    BY DEF ClaimIdOf, OwnInstances
  <2>3. rec.sequence \in Nat
    BY <1>2 DEF WorkClaimRecord
  <2>4. rec.sequence > ClaimSequence(calls[c]) \/ rec.sequence <= ClaimSequence(calls[c])
    BY <1>2, <2>3
  <2>5. ClaimDecision(rec, ClaimIdOf(c), ClaimSequence(calls[c]))
          \in {"superseded", "alreadyClaimed"}
    BY <2>1, <2>2, <2>4 DEF ClaimDecision
  <2> QED BY <1>2, <2>5
<1> QED BY <1>3, <1>4

\* A call never begins to execute a step that another call executes under a live
\* claim, and never one that is completed (claim, executeStepWithClaim).
THEOREM NeverConcurrentDuplicates ==
  ASSUME OwnInstances
  PROVE  Spec => NoConcurrentDuplicate
<1> DEFINE Free(c, r, n) ==
             claims[r][n].status # "completed" /\ \A d \in Call \ {c} : ~HoldsStep(d, r, n)
<1>1. ASSUME CallsIInv, Next, NEW c \in Call, NEW r \in Run, NEW n \in 1..Steps,
             HoldsStep(c, r, n)', calls[c].pc = "claiming"
      PROVE  Free(c, r, n)
  <2>1. calls'[c].pc = "executing" /\ calls'[c].run = r /\ CurrentStep(calls'[c]) = n
    BY <1>1 DEF HoldsStep, CurrentStep
  <2>2. ASSUME NEW d \in Call, NEW next, Becomes(d, next), next.pc # "executing" PROVE FALSE
    <3>1. calls'[d] = next /\ \A e \in Call \ {d} : calls'[e] = calls[e]
      BY <1>1, <2>2, BecomesFits
    <3>2. CASE d = c
      BY <2>1, <2>2, <3>1, <3>2
    <3>3. CASE d # c
      <4>1. calls'[c] = calls[c]
        BY <3>1, <3>3
      <4> QED BY <1>1, <2>1, <4>1
    <3> QED BY <3>2, <3>3
  <2>3. ASSUME NEW d \in Call, Calls(d) PROVE FALSE
    <3>1. PICK next : Becomes(d, next) /\ (~Active(next) \/ Begins(next))
      BY <1>1, <2>3, CallerFits
    <3>2. next.pc # "executing"
      BY <3>1 DEF Active, Working, Begins
    <3> QED BY <2>2, <3>1, <3>2
  <2>4. ASSUME NEW d \in Call, Puts(d) PROVE FALSE
    <3>1. PICK next : Becomes(d, next) /\ HasPut(d, next)
      BY <1>1, <2>4, PutFits
    <3>2. next.pc # "executing"
      BY <3>1 DEF HasPut, Active, Working
    <3> QED BY <2>2, <3>1, <3>2
  <2>5. ASSUME NEW d \in Call, Works(d) PROVE Free(c, r, n)
    <3>1. PICK next : Becomes(d, next) /\ Worked(d, next)
      BY <1>1, <2>5, WorkFits
    <3>2. next.pc = "executing"
      BY <2>2, <3>1
    <3>3. calls'[d] = next /\ \A e \in Call \ {d} : calls'[e] = calls[e]
      BY <1>1, <3>1, BecomesFits
    <3>4. d = c
      <4>1. SUFFICES ASSUME d # c PROVE FALSE
        OBVIOUS
      <4>2. calls'[c] = calls[c]
        BY <3>3, <4>1
      <4> QED BY <1>1, <2>1, <4>2
    <3>5. Grants(c) /\ Stays(calls[c], next)
      BY <3>1, <3>2, <3>4 DEF Worked, Active, Working, Advances
    <3>6. calls[c].run = r /\ CurrentStep(calls[c]) = n
      BY <2>1, <3>3, <3>4, <3>5 DEF Stays, CurrentStep
    <3> QED BY <1>1, <3>5, <3>6, GrantedWasFree
  <2>6. ASSUME NEW i \in Instance, Crash(i) PROVE FALSE
    <3>1. calls'[c] = calls[c] \/ calls'[c].pc = "gone"
      BY <2>6 DEF Crash, Idle
    <3> QED BY <1>1, <2>1, <3>1
  <2>7. ASSUME Tick PROVE FALSE
    BY <1>1, <2>1, <2>7 DEF Tick
  <2> QED BY <1>1, <2>3, <2>4, <2>5, <2>6, <2>7, NextCases
<1>2. ASSUME UNCHANGED vars, NEW c \in Call, NEW r \in Run, NEW n \in 1..Steps,
             HoldsStep(c, r, n)', calls[c].pc = "claiming"
      PROVE  FALSE
  BY <1>2 DEF vars, HoldsStep
<1>3. CallsIInv /\ [Next]_vars =>
        [\A c \in Call, r \in Run, n \in 1..Steps :
           HoldsStep(c, r, n)' /\ calls[c].pc = "claiming" =>
             /\ claims[r][n].status # "completed"
             /\ \A d \in Call \ {c} : ~HoldsStep(d, r, n)]_vars
  BY <1>1, <1>2
<1> QED BY <1>3, CallsInvariance, PTL DEF Spec, NoConcurrentDuplicate
=============================================================================
