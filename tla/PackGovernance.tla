--------------------------- MODULE PackGovernance ---------------------------
(***************************************************************************)
(* How the versions of a site pack are promoted, set aside and retired     *)
(* (libs/foundation/core: validator-ladder-runtime.ts,                     *)
(* reflection-engine-runtime.ts, pack-governance-runtime.ts,               *)
(* pack-lifecycle-runtime.ts and the schemas of diff-verdict.ts and        *)
(* site-pack.ts).  The ladder turns what was observed of a pack into a     *)
(* verdict, the reflection engine turns a verdict into a decision, and     *)
(* governance applies a decision to the catalog.  Each of the three is     *)
(* handed its inputs by a caller, who may have read them some time ago,    *)
(* and nothing marks a decision as used.                                   *)
(*                                                                         *)
(* One pack id is modelled: the code filters the catalog by it.  Versions  *)
(* are numbers, in the order of comparePackVersions.                       *)
(***************************************************************************)
EXTENDS Integers, FiniteSets, ValidatorLadder

CONSTANTS MaxVersion,     \* bound: versions are 1 .. MaxVersion
          MaxDecisions,   \* bound: decisions in the hands of callers
          Observations,   \* the sets of probes that may be found to fail
          NoVerdict

ASSUME GovernanceAssumption ==
    /\ MaxVersion \in Nat /\ MaxDecisions \in Nat
    /\ Observations \subseteq SUBSET Probes

PackVersions == [version : Nat \ {0}, state : PackStates,
              content : Nat \ {0},   \* the version whose definition this one is a copy of
              from : Nat]            \* derivedFromVersion, 0 for a recorded draft

VARIABLES
    catalog,      \* the artifacts of the pack
    verdict,      \* the last verdict on one of its versions
    decisions     \* the decisions callers hold

packVars == <<catalog, verdict, decisions>>

Verdicts == [packState : PackStates, action : PackActions, failed : SUBSET Gates]
Decisions == [version : Nat \ {0}, from : PackStates, to : PackStates]

PackTypeOK ==
    /\ catalog \subseteq PackVersions
    /\ verdict \in Verdicts \cup {NoVerdict}
    /\ decisions \subseteq Decisions

PackInit ==
    /\ catalog = {}
    /\ verdict = NoVerdict
    /\ decisions = {}

-----------------------------------------------------------------------------
(* The validator ladder. *)

EvaluatePack(a, observed) ==
    LET failed == FailedGates(observed)
    IN  /\ verdict' = [packState |-> a.state, failed |-> failed,
                       action |-> ResolveAction(a.state, failed)]
        /\ UNCHANGED <<catalog, decisions>>

-----------------------------------------------------------------------------
(* The reflection engine. *)

\* The moves a decision may make, each with the action that names it.
DecidableMoves ==
    {<<s, "shadow">> : s \in {"draft", "active", "guarded", "quarantined"}}
    \cup {<<s, "active">> : s \in {"shadow", "guarded", "quarantined"}}
    \cup {<<"active", "guarded">>, <<"active", "quarantined">>, <<"guarded", "quarantined">>}
    \cup {<<s, "retired">> : s \in PackStates \ {"retired"}}

Decidable(state, v) == ConsistentVerdict(v) /\ <<state, TargetState(v.action)>> \in DecidableMoves

\* The engine compares pack ids only: the verdict may be about another version.
Decide(a) ==
    /\ verdict # NoVerdict
    /\ Decidable(a.state, verdict)
    /\ Cardinality(decisions) < MaxDecisions
    /\ decisions' = decisions \cup
           {[version |-> a.version, from |-> a.state, to |-> TargetState(verdict.action)]}
    /\ UNCHANGED <<catalog, verdict>>

-----------------------------------------------------------------------------
(* Governance. *)

LifecycleMoves ==
    {<<"draft", "shadow">>, <<"draft", "retired">>, <<"shadow", "active">>,
     <<"shadow", "retired">>}
    \cup ({"active"} \X {"shadow", "guarded", "quarantined", "retired"})
    \cup ({"guarded"} \X {"shadow", "active", "quarantined", "retired"})
    \cup ({"quarantined"} \X {"shadow", "active", "retired"})

IsSubject(a, d) == a.version = d.version /\ a.state = d.from

NewestVersion(next) == \A a \in catalog : next > a.version

\* A bug for the checks to find: the previous active artifact stays.
StillActive(a) == a

Demoted(a) == IF a.state = "active" THEN [a EXCEPT !.state = "shadow"] ELSE a

Activated(a, next) ==
    [version |-> next, state |-> "active", content |-> a.content, from |-> a.version]

\* A bug for the checks to find: the subject itself becomes active.
ActivateInPlace(d, next) ==
    /\ d.to = "active"
    /\ \E a \in catalog :
          /\ IsSubject(a, d)
          /\ catalog' = {Demoted(b) : b \in catalog \ {a}}
                        \cup {[a EXCEPT !.state = "active"]}
    /\ UNCHANGED <<verdict, decisions>>

Activate(d, next) ==
    /\ d.to = "active"
    /\ NewestVersion(next)
    /\ \E a \in catalog :
          /\ IsSubject(a, d)
          /\ catalog' = {Demoted(b) : b \in catalog} \cup {Activated(a, next)}
    /\ UNCHANGED <<verdict, decisions>>

Transition(d) ==
    /\ d.to # "active"
    /\ \E a \in catalog :
          /\ IsSubject(a, d)
          /\ <<a.state, d.to>> \in LifecycleMoves
          /\ catalog' = (catalog \ {a}) \cup {[a EXCEPT !.state = d.to]}
    /\ UNCHANGED <<verdict, decisions>>

\* A curator records a draft under a version of its own.
RecordDraft(version) ==
    /\ \A a \in catalog : a.version # version
    /\ catalog' = catalog \cup
           {[version |-> version, state |-> "draft", content |-> version, from |-> 0]}
    /\ UNCHANGED <<verdict, decisions>>

PackNext ==
    \/ \E n \in 1 .. MaxVersion : RecordDraft(n)
    \/ \E a \in catalog, o \in Observations : EvaluatePack(a, o)
    \/ \E a \in catalog : Decide(a)
    \/ \E d \in decisions, n \in 1 .. MaxVersion : Activate(d, n)
    \/ \E d \in decisions : Transition(d)

PackSpec == PackInit /\ [][PackNext]_packVars

-----------------------------------------------------------------------------
(* What the checks and the proofs show. *)

\* The catalog governance builds always satisfies the schema it is decoded with
\* outside of any error handler (VersionedSitePackCatalogSchema): no version twice
\* and at most one active artifact, whichever decisions are applied in whichever
\* order and however often.
CatalogIsValid ==
    \A a, b \in catalog :
        (a.version = b.version \/ (a.state = "active" /\ b.state = "active")) => a = b

\* The order in which the states of one version follow each other.
StateRank(state) ==
    CASE state = "active" -> 5 [] state = "guarded" -> 4 [] state = "quarantined" -> 3
      [] state = "draft" -> 2 [] state = "shadow" -> 1 [] state = "retired" -> 0

\* History is reproducible (buildTransitionedArtifact, buildActivatedArtifact): a
\* recorded version keeps its definition and its origin, and its state never
\* returns to one it has left, so a decision made before a change of state cannot
\* become applicable again.
HistoryIsKept ==
    [][\A a \in catalog : \E b \in catalog' :
          /\ b.version = a.version /\ b.content = a.content /\ b.from = a.from
          /\ StateRank(b.state) <= StateRank(a.state)]_packVars

\* A version is activated out of shadow, guard or quarantine only, and after every
\* other version: a decision that was taken before its subject was retired, or that
\* is applied twice, brings nothing back (applyPackGovernanceDecision).
OnlyLiveVersionsAreActivated ==
    [][\A b \in catalog' :
          (b.state = "active" /\ \A a \in catalog : a.version # b.version) =>
              /\ \A a \in catalog : a.version < b.version
              /\ \E a \in catalog : /\ a.version = b.from /\ a.content = b.content
                                    /\ a.state \in {"shadow", "guarded", "quarantined"}]_packVars
=============================================================================
