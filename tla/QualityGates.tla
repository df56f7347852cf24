---------------------------- MODULE QualityGates ----------------------------
(***************************************************************************)
(* The evidence for and against promoting a build of the extraction code   *)
(* (libs/foundation/core: snapshot-diff-engine.ts,                         *)
(* incumbent-comparison-runtime.ts, drift-regression-runtime.ts,           *)
(* performance-gate-runtime.ts, live-canary-runtime.ts and                 *)
(* promotion-gate-policy-runtime.ts), under the default policies.  A       *)
(* candidate's snapshots are compared with the incumbent's, the            *)
(* differences become findings of some severity, and the gate weighs the   *)
(* worst of them against a performance artifact and a canary artifact that *)
(* other runs have produced.                                               *)
(*                                                                         *)
(* Confidence is in percent and rates are compared by cross-multiplication:*)
(* the code's rounding to six decimals is left out.  Severities are        *)
(* 0 .. 4, from none to critical; verdicts are 0 promote, 1 hold,          *)
(* 2 quarantine.                                                           *)
(***************************************************************************)
EXTENDS Integers, FiniteSets, FiniteSetsExt, ValidatorLadder

CONSTANTS CorpusRuns,        \* artifacts of baseline corpus runs
          Measurements,      \* artifacts of the performance budget
          Budgets,           \* the limits of two p95 times (ms) and of the heap growth (KiB)
          CanaryScenarios,   \* sets of scenarios: a pack state, the probes that fail,
                             \* and the action the chaos suite expects
          NoEvidence         \* the artifact has not been made, or was refused

\* A run is a function from its cases; a confidence is in percent.
ASSUME CorpusAssumption ==
    /\ NoEvidence \notin CorpusRuns /\ NoEvidence \notin 0 .. 2
    /\ \A run \in CorpusRuns :
         /\ IsFiniteSet(DOMAIN run)
         /\ \A k \in DOMAIN run :
              /\ run[k].snapshot.quality \in 0 .. 100
              /\ IsFiniteSet(run[k].snapshot.observations)
              /\ \A o \in run[k].snapshot.observations :
                   o \in [field : {o.field}, value : Nat, confidence : 0 .. 100]

VARIABLES
    incumbent, candidate,    \* the two corpus runs
    comparison,              \* the differences of each case
    quality,                 \* the drift regression analysis
    measured,                \* the performance artifact
    canary,                  \* the canary artifact; the gate does without
    chaos,                   \* whether the chaos provider suite passed
    gate,                    \* the verdict of the promotion gate
    metrics,                 \* the quality metrics of each pack
    report                   \* the exported report: the decision and a status

runVars == <<incumbent, candidate>>
evidenceVars == <<measured, canary, chaos>>
gateVars == <<runVars, comparison, quality, evidenceVars, gate, metrics, report>>

GateInit ==
    /\ incumbent = NoEvidence /\ candidate = NoEvidence
    /\ comparison = NoEvidence /\ quality = NoEvidence
    /\ measured = NoEvidence /\ canary = NoEvidence
    /\ chaos = NoEvidence /\ gate = NoEvidence
    /\ metrics = NoEvidence /\ report = NoEvidence

-----------------------------------------------------------------------------
(* Snapshots and their differences. *)

Preferred(o, p) == o.confidence > p.confidence \/ (o.confidence = p.confidence /\ o.value < p.value)

FieldsOf(s) == {o.field : o \in s.observations}

Best(s, f) ==
    CHOOSE o \in s.observations :
        /\ o.field = f
        /\ \A p \in s.observations : (p.field = f /\ p # o) => Preferred(o, p)

\* A sum of sizes: how many members there are, counted with what they are of.
Total(S, members(_)) == Cardinality(UNION {{x} \X members(x) : x \in S})

\* The sum of the confidences, in points.
Confidence(s, fields) == Total(fields, LAMBDA f : 1 .. Best(s, f).confidence)

\* An average as a pair, numerator and denominator.
Average(s) ==
    IF FieldsOf(s) = {} THEN <<s.quality, 1>>
    ELSE <<Confidence(s, FieldsOf(s)), Cardinality(FieldsOf(s))>>

Removed(b, c) == FieldsOf(b) \ FieldsOf(c)
Added(b, c) == FieldsOf(c) \ FieldsOf(b)
Changed(b, c) ==
    {f \in FieldsOf(b) \cap FieldsOf(c) : Best(b, f).value # Best(c, f).value}

CompareSnapshots(b, c) ==
    LET changed == Changed(b, c)
        before == Average(b)
        after == Average(c)
    IN  [removed |-> Removed(b, c), added |-> Added(b, c), changed |-> changed,
         drift |-> 2 * (Confidence(b, Removed(b, c)) + Confidence(c, Added(b, c)))
                     + Confidence(b, changed) + Confidence(c, changed),
         driftOf |-> 2 * (Confidence(b, FieldsOf(b)) + Confidence(c, FieldsOf(c))),
         drop |-> before[1] * after[2] - after[1] * before[2],
         dropOf |-> 100 * before[2] * after[2]]

-----------------------------------------------------------------------------
(* The comparison of the two runs. *)

Aligned(inc, cand) ==
    /\ DOMAIN inc = DOMAIN cand
    /\ \A k \in DOMAIN inc : inc[k].pack = cand[k].pack

RunCorpus(inc, cand) ==
    /\ incumbent = NoEvidence
    /\ incumbent' = inc /\ candidate' = cand
    /\ UNCHANGED <<comparison, quality, evidenceVars, gate, metrics, report>>

RunIncumbentComparison ==
    /\ incumbent # NoEvidence /\ comparison = NoEvidence
    /\ Aligned(incumbent, candidate)
    /\ comparison' = [k \in DOMAIN incumbent |->
           [pack |-> incumbent[k].pack,
            diff |-> CompareSnapshots(incumbent[k].snapshot, candidate[k].snapshot)]]
    /\ UNCHANGED <<runVars, quality, evidenceVars, gate, metrics, report>>

-----------------------------------------------------------------------------
(* The severity of what was found. *)

DriftLimits == <<10, 50, 120, 250>>           \* thousandths
ConfidenceLimits == <<20, 80, 150, 300>>

MagnitudeSeverity(part, of, limits) ==
    Cardinality({i \in 1 .. 4 : of > 0 /\ 1000 * part >= limits[i] * of})

CaseSeverity(diff) ==
    Max({MagnitudeSeverity(diff.drift, diff.driftOf, DriftLimits),
         MagnitudeSeverity(diff.drop, diff.dropOf, ConfidenceLimits)})

\* A bug for the checks to find: a change that moves no rate is no finding.
SeverityOfRates(kind, diff) == IF kind = "remove" THEN 4 ELSE CaseSeverity(diff)

ChangeSeverity(kind, diff) ==
    IF kind = "remove" THEN 4
    ELSE IF CaseSeverity(diff) > 0 THEN CaseSeverity(diff)
    ELSE IF kind = "add" THEN 2 ELSE 1

\* One finding for each field, or one for the confidence when no field differs.
FindingsOf(diff) ==
    {[severity |-> ChangeSeverity("remove", diff), field |-> f] : f \in diff.removed}
    \cup {[severity |-> ChangeSeverity("add", diff), field |-> f] : f \in diff.added}
    \cup {[severity |-> ChangeSeverity("change", diff), field |-> f] : f \in diff.changed}

ConfidenceSeverity(diff) ==
    IF FindingsOf(diff) # {} THEN 0
    ELSE MagnitudeSeverity(diff.drop, diff.dropOf, ConfidenceLimits)

PackSeverity(cases) ==
    Max({0} \cup (UNION {{x.severity : x \in FindingsOf(comparison[k].diff)} : k \in cases})
            \cup {ConfidenceSeverity(comparison[k].diff) : k \in cases})

CasesOf(p) == {k \in DOMAIN comparison : comparison[k].pack = p}

AnalyzeDriftRegression ==
    /\ comparison # NoEvidence /\ quality = NoEvidence
    /\ quality' =
         [severity |-> [p \in {comparison[k].pack : k \in DOMAIN comparison} |->
                           PackSeverity(CasesOf(p))],
          caseCount |-> Cardinality(DOMAIN comparison)]
    /\ UNCHANGED <<runVars, comparison, evidenceVars, gate, metrics, report>>

-----------------------------------------------------------------------------
(* The performance budget.  A measurement has the two p95 times and the    *)
(* heap growth as tuple "now", the profile and sample sizes of the run,    *)
(* and the baseline it is compared with, if any.                           *)

HoldDeltas == <<25, 50, 1024>>
QuarantineDeltas == <<100, 200, 4096>>

Comparable(m) ==
    /\ m.baseline # NoEvidence
    /\ m.baseline.samples = m.samples
    /\ m.baseline.profile = m.profile

EvaluatePerformanceBudget(m) ==
    /\ measured = NoEvidence
    /\ measured' =
         [profile |-> m.profile, comparable |-> Comparable(m),
          failed |-> \E i \in 1 .. 3 : m.now[i] > Budgets[i],
          deltas |-> IF Comparable(m) THEN [i \in 1 .. 3 |-> m.now[i] - m.baseline.now[i]]
                     ELSE <<0, 0, 0>>]
    /\ UNCHANGED <<runVars, comparison, quality, canary, chaos, gate, metrics, report>>

-----------------------------------------------------------------------------
(* The live canary: each scenario goes through the validator ladder. *)

ScenarioAction(s) == ResolveAction(s.state, FailedGates(s.failing))

ScenarioPassed(s) ==
    FailedGates(s.failing) = {} /\ ScenarioAction(s) \in {"active", "promote-shadow"}

RunLiveCanary(scenarios) ==
    /\ canary = NoEvidence
    /\ canary' = IF \E s \in scenarios : ScenarioAction(s) \in {"quarantined", "retired"} THEN 2
                 ELSE IF \A s \in scenarios : ScenarioPassed(s) THEN 0 ELSE 1
    /\ UNCHANGED <<runVars, comparison, quality, measured, chaos, gate, metrics, report>>

\* The chaos suite runs scenarios the same way and compares with what each expects.
RunChaosProviderSuite(scenarios) ==
    /\ chaos = NoEvidence
    /\ chaos' = \A s \in scenarios : ScenarioAction(s) = s.expected
    /\ UNCHANGED <<runVars, comparison, quality, measured, canary, gate, metrics, report>>

-----------------------------------------------------------------------------
(* The gate. *)

WorstSeverity == Max({quality.severity[p] : p \in DOMAIN quality.severity})

QualityVerdict ==
    IF WorstSeverity >= 3 THEN 2 ELSE IF WorstSeverity >= 1 THEN 1 ELSE 0

PerformanceVerdict ==
    IF measured.failed \/ (\E i \in 1 .. 3 : measured.deltas[i] >= QuarantineDeltas[i]) THEN 2
    ELSE IF ~measured.comparable \/ (\E i \in 1 .. 3 : measured.deltas[i] > HoldDeltas[i]) THEN 1
    ELSE 0

EvaluatePromotionGatePolicy ==
    /\ quality # NoEvidence /\ measured # NoEvidence /\ gate = NoEvidence
    /\ measured.profile = [cases |-> quality.caseCount,
                           packs |-> Cardinality(DOMAIN quality.severity)]
    /\ gate' = Max({QualityVerdict, PerformanceVerdict,
                    IF canary = NoEvidence THEN 0 ELSE canary})
    /\ UNCHANGED <<runVars, comparison, quality, evidenceVars, metrics, report>>

-----------------------------------------------------------------------------
(* The quality metrics, and the report over all of the evidence. *)

MetricsOf(cases) ==
    LET baseline == Total(cases, LAMBDA k : FieldsOf(incumbent[k].snapshot))
        missing == Total(cases, LAMBDA k : comparison[k].diff.removed)
    IN  [baseline |-> baseline, recalled |-> Max({0, baseline - missing}),
         unexpected |-> Total(cases, LAMBDA k : comparison[k].diff.added)]

EvaluateQualityMetrics ==
    /\ comparison # NoEvidence /\ metrics = NoEvidence
    /\ metrics' = [p \in {comparison[k].pack : k \in DOMAIN comparison} |-> MetricsOf(CasesOf(p))]
    /\ UNCHANGED <<runVars, comparison, quality, evidenceVars, gate, report>>

\* The worst of the sections: drift, performance, chaos and the gate; the canary
\* speaks through the gate only.
ReportStatus ==
    Max({QualityVerdict,
         IF measured.failed THEN 2 ELSE IF ~measured.comparable THEN 1 ELSE 0,
         IF chaos THEN 0 ELSE 2,
         gate})

BuildQualityReportExport ==
    /\ gate # NoEvidence /\ chaos # NoEvidence /\ report = NoEvidence
    /\ report' = [decision |-> gate, status |-> ReportStatus]
    /\ UNCHANGED <<runVars, comparison, quality, evidenceVars, gate, metrics>>

GateNext ==
    \/ \E inc, cand \in CorpusRuns : RunCorpus(inc, cand)
    \/ RunIncumbentComparison
    \/ AnalyzeDriftRegression
    \/ \E m \in Measurements : EvaluatePerformanceBudget(m)
    \/ \E s \in CanaryScenarios : RunLiveCanary(s)
    \/ \E s \in CanaryScenarios : RunChaosProviderSuite(s)
    \/ EvaluatePromotionGatePolicy
    \/ EvaluateQualityMetrics
    \/ BuildQualityReportExport

GateSpec == GateInit /\ [][GateNext]_gateVars

-----------------------------------------------------------------------------
(* What the checks show. *)

\* The fields of a snapshot, each with the value that it is most sure of.
Extracted(s) == {<<o.field, o.value>> : o \in {Best(s, f) : f \in FieldsOf(s)}}

\* What a build is promoted with was seen to be as good as what it replaces, from
\* the snapshots of every case through the comparison, the analysis and the policy:
\* every field the incumbent extracted is there with the value it is most sure of,
\* no other field appeared, and no case is less certain by two points.  The metrics
\* taken from the same comparison say so too.
PromotedBuildLosesNothing ==
    gate = 0 =>
        /\ \A k \in DOMAIN incumbent :
              LET b == incumbent[k].snapshot
                  c == candidate[k].snapshot
              IN  /\ Extracted(b) = Extracted(c)
                  /\ 50 * (Average(b)[1] * Average(c)[2] - Average(c)[1] * Average(b)[2])
                       < 100 * Average(b)[2] * Average(c)[2]
        /\ metrics # NoEvidence =>
              \A p \in DOMAIN metrics : /\ metrics[p].recalled = metrics[p].baseline
                                        /\ metrics[p].unexpected = 0
=============================================================================
