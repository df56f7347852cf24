------------------------------ MODULE Extraction ------------------------------
(***************************************************************************)
(* The extraction of one captured page (extractor-runtime.ts):             *)
(* the document artifact is chosen, each field of the recipe is resolved   *)
(* through its selectors (selector-engine.ts), the observations are        *)
(* assembled into a snapshot (snapshot-builder.ts), the snapshot is        *)
(* asserted (assertion-engine.ts) and its evidence is written down         *)
(* (evidence-manifest.ts).  Fields and normalized values are numbers in    *)
(* the order their serialized forms have; confidences are hundredths.      *)
(***************************************************************************)
EXTENDS Integers, FiniteSets, SequencesExt

CONSTANTS Recipe,       \* the recipe's fields: sequence of records, see below
          RequiredFields, Invariants,   \* its assertions
          Rendered,     \* does the plan's capture step ask for the rendered DOM
          Artifacts,    \* captured artifacts: [id, kind]; ids in locator order
          Matches,      \* the sequences of raw texts a selector may match
          NormalOf,     \* what the field's normalizer makes of a raw text
          Unnormalizable,
          Samples,      \* observations another caller may assemble
          MaxSamples    \* bound on how many at once

ASSUME RecipeNamesEachFieldOnce ==
  \A i, j \in DOMAIN Recipe : Recipe[i].field = Recipe[j].field => i = j

ASSUME ExtractionAssumption ==
  /\ Recipe \in Seq(ToSet(Recipe))
  /\ \A f \in ToSet(Recipe) :
       /\ f.field \in Nat /\ f.confidence \in Int /\ f.policy.impact \in Int
       /\ f.selectors \in Seq(ToSet(f.selectors))
  /\ Matches \subseteq Seq(DOMAIN NormalOf)
  /\ NormalOf \in [DOMAIN NormalOf -> Nat \cup {Unnormalizable}]
  /\ \A o \in Samples :
       o \in [field : Nat, value : Nat, confidence : Int, evidence : {o.evidence}]

VARIABLES phase,        \* which step of the orchestration is next
          captured,     \* the artifacts given, and what the selectors match
          resolved,     \* the resolutions of the fields so far
          observed,     \* the observations so far
          assembled,    \* the snapshot's observations
          manifest      \* the evidence of each observation of the snapshot

extractionVars == <<phase, captured, resolved, observed, assembled, manifest>>

Selectors == UNION {ToSet(Recipe[i].selectors) : i \in DOMAIN Recipe}
Bounded(score) == CHOOSE s \in 0..100 :
                    s = IF score < 0 THEN 0 ELSE IF score > 100 THEN 100 ELSE score

(***************************************************************************)
(* selector-engine.ts: candidates are tried in order while the policy      *)
(* allows their depth; the first one that matches anything is taken.       *)
(***************************************************************************)
CanAttemptCandidate(depth, policy) ==
  /\ depth <= policy.maxFallbackCount
  /\ depth * policy.impact <= policy.maxImpact

ResolveSelectorPrecedence(field, page) ==
  {[field |-> field.field, selector |-> field.selectors[d].path, depth |-> d - 1,
    values |-> IF field.selectors[d].all THEN page[field.selectors[d]]
               ELSE SubSeq(page[field.selectors[d]], 1, 1),
    matched |-> Len(page[field.selectors[d]]),
    confidence |-> Bounded(100 - (d - 1) * field.policy.impact)]
     : d \in {e \in DOMAIN field.selectors :
                /\ page[field.selectors[e]] # <<>>
                /\ \A lower \in 1..e :
                     /\ CanAttemptCandidate(lower - 1, field.policy)
                     /\ lower < e => page[field.selectors[lower]] = <<>>}}

DeriveObservationConfidence(field, resolution) ==
  LET least == IF field.confidence < resolution.confidence
               THEN field.confidence ELSE resolution.confidence
  IN Bounded(least - (IF resolution.matched > 1 THEN 5 ELSE 0))

(***************************************************************************)
(* The document: the preferred kind first, then the smallest locator.      *)
(***************************************************************************)
PreferredKinds == IF Rendered THEN <<"renderedDom", "html">> ELSE <<"html", "renderedDom">>

SelectDocumentArtifact(artifacts) ==
  LET rank(a) == CHOOSE k \in 1..2 : PreferredKinds[k] = a.kind
      documents == {a \in artifacts : a.kind \in ToSet(PreferredKinds)}
  IN {a \in documents : \A b \in documents \ {a} :
        rank(a) < rank(b) \/ (rank(a) = rank(b) /\ a.id < b.id)}

(***************************************************************************)
(* snapshot-builder.ts: observations of one field and value become one.    *)
(***************************************************************************)
MergeObservationPairKeepingFirst(current, next) ==
  [current EXCEPT !.evidence = @ \union next.evidence]
  \* A bug for the checks to find: the confidence of the first one wins.

MergeObservationPair(current, next) ==
  [current EXCEPT !.confidence = IF @ > next.confidence THEN @ ELSE next.confidence,
                  !.evidence = @ \union next.evidence]

SameKey(a, b) == a.field = b.field /\ a.value = b.value
CompareObservations(a, b) == a.field < b.field \/ (a.field = b.field /\ a.value < b.value)

AddObservation(map, o) ==
  IF \E m \in map : SameKey(m, o)
  THEN {IF SameKey(m, o) THEN MergeObservationPair(m, o) ELSE m : m \in map}
  ELSE map \union {o}

\* The map after the first observations, from one to the next.
MapAfter(observations) ==
  LET after[n \in 0..Len(observations)] ==
        IF n = 0 THEN {} ELSE AddObservation(after[n - 1], observations[n])
  IN after

SortObservations(map) ==
  [n \in 1..Cardinality(map) |->
     CHOOSE o \in map : Cardinality({p \in map : CompareObservations(p, o)}) = n - 1]

AssembleObservations(observations) ==
  SortObservations(MapAfter(observations)[Len(observations)])

(***************************************************************************)
(* assertion-engine.ts: a required field is judged by its most confident   *)
(* observation, an invariant by the first observation of its field.        *)
(***************************************************************************)
OfField(observations, field) == SelectSeq(observations, LAMBDA o : o.field = field)

RequiredFieldHolds(observations, rule) ==
  \E o \in ToSet(OfField(observations, rule.field)) : o.confidence >= rule.minimum

EvaluateBusinessInvariant(observations, rule) ==
  LET own == OfField(observations, rule.field)
  IN own # <<>> /\ own[1].value \in rule.allowed

AssertionsHold(observations) ==
  /\ \A rule \in RequiredFields : RequiredFieldHolds(observations, rule)
  /\ \A rule \in Invariants : EvaluateBusinessInvariant(observations, rule)

-----------------------------------------------------------------------------
Nowhere == [artifacts |-> {}, page |-> [s \in Selectors |-> <<>>]]

ExtractionInit ==
  /\ phase = "idle"
  /\ captured = Nowhere
  /\ resolved = <<>> /\ observed = <<>> /\ assembled = <<>> /\ manifest = <<>>

FailWith(reason) ==
  /\ phase' = reason
  /\ UNCHANGED <<captured, resolved, observed, assembled, manifest>>

(* runExtractorOrchestration: the document is chosen and parsed.           *)
StartExtraction ==
  /\ phase = "idle"
  /\ \E artifacts \in SUBSET Artifacts, page \in [Selectors -> Matches] :
       /\ captured' = [artifacts |-> artifacts, page |-> page]
       /\ phase' = IF SelectDocumentArtifact(artifacts) = {} THEN "noDocument" ELSE "fields"
  /\ UNCHANGED <<resolved, observed, assembled, manifest>>

(* buildFieldArtifacts: one turn of its loop.                              *)
ResolveField ==
  /\ phase = "fields" /\ Len(resolved) < Len(Recipe)
  /\ LET field == Recipe[Len(resolved) + 1]
         found == ResolveSelectorPrecedence(field, captured.page)
         document == CHOOSE a \in SelectDocumentArtifact(captured.artifacts) : TRUE
     IN IF found = {} THEN FailWith("mismatch")
        ELSE LET resolution == CHOOSE r \in found : TRUE
             IN IF \E v \in ToSet(resolution.values) : NormalOf[v] = Unnormalizable
                THEN FailWith("mismatch")
                ELSE /\ resolved' = Append(resolved, resolution)
                     /\ observed' = observed \o
                          [i \in DOMAIN resolution.values |->
                             [field |-> field.field, value |-> NormalOf[resolution.values[i]],
                              confidence |-> DeriveObservationConfidence(field, resolution),
                              evidence |-> {document.id}]]
                     /\ UNCHANGED <<phase, captured, assembled, manifest>>

BuildObservationSnapshot ==
  /\ phase = "fields" /\ Len(resolved) = Len(Recipe)
  /\ assembled' = AssembleObservations(observed)
  /\ phase' = "snapshot"
  /\ UNCHANGED <<captured, resolved, observed, manifest>>

RunAssertionEngine ==
  /\ phase = "snapshot"
  /\ phase' = IF AssertionsHold(assembled) THEN "asserted" ELSE "failedAssertions"
  /\ UNCHANGED <<captured, resolved, observed, assembled, manifest>>

(* generateEvidenceManifest: every observation with the artifacts it names *)
(* and the resolution of its field.                                        *)
GenerateEvidenceManifest ==
  /\ phase = "asserted"
  /\ IF \A o \in ToSet(assembled) :
          /\ \E r \in ToSet(resolved) : r.field = o.field
          /\ o.evidence \subseteq {a.id : a \in captured.artifacts}
     THEN /\ manifest' = [i \in DOMAIN assembled |->
                [artifacts |-> {a \in captured.artifacts : a.id \in assembled[i].evidence},
                 trace |-> CHOOSE r \in ToSet(resolved) : r.field = assembled[i].field]]
          /\ phase' = "extracted"
          /\ UNCHANGED <<captured, resolved, observed, assembled>>
     ELSE FailWith("mismatch")

(* buildObservationSnapshot called by others, with observations of any      *)
(* order and evidence.                                                     *)
AssembleSamples ==
  /\ phase = "idle"
  /\ \E given \in BoundedSeq(Samples, MaxSamples) \ {<<>>} :
       /\ observed' = given
       /\ assembled' = AssembleObservations(given)
  /\ phase' = "assembled"
  /\ UNCHANGED <<captured, resolved, manifest>>

Ended == {"noDocument", "mismatch", "failedAssertions", "extracted", "assembled"}

NextPage ==
  /\ phase \in Ended
  /\ phase' = "idle" /\ captured' = Nowhere
  /\ resolved' = <<>> /\ observed' = <<>> /\ assembled' = <<>> /\ manifest' = <<>>

ExtractionNext ==
  \/ StartExtraction \/ ResolveField \/ BuildObservationSnapshot \/ RunAssertionEngine
  \/ GenerateEvidenceManifest \/ AssembleSamples \/ NextPage

ExtractionSpec == ExtractionInit /\ [][ExtractionNext]_extractionVars

-----------------------------------------------------------------------------
\* The observations of one field and value, as one.
Together(like, o) ==
  [field |-> o.field, value |-> o.value,
   confidence |-> CHOOSE c \in {s.confidence : s \in like} : \A s \in like : s.confidence <= c,
   evidence |-> UNION {s.evidence : s \in like}]

(* The snapshot depends on which observations were made and not on their    *)
(* order: for every field and value seen it has one observation, with the  *)
(* greatest of their confidences and all of their evidence, and it is      *)
(* sorted (snapshot-builder.ts assembleObservations).                      *)
SnapshotIsOrderFree ==
  assembled # <<>> =>
    LET seen == ToSet(observed)
    IN /\ ToSet(assembled) = {Together({s \in seen : SameKey(s, o)}, o) : o \in seen}
       /\ \A i, j \in DOMAIN assembled :
            i < j => CompareObservations(assembled[i], assembled[j])
=============================================================================
