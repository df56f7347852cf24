--------------------------- MODULE EvidenceProofs ---------------------------
(***************************************************************************)
(* Proofs about the evidence the project keeps of its runs.                *)
(*                                                                         *)
(* The governance of a site pack, for any number of versions and decisions *)
(* and any observations: the catalog is always valid, history is kept, and *)
(* only live versions are activated, whichever decisions are applied in    *)
(* whichever order and however often.  The sidecar of a benchmark run, for *)
(* any number of records and of failures to write them: a run that returns *)
(* left every record whole, in the order it was said, joined to nothing    *)
(* but what a failed append left of the same record.  The sweeps of a      *)
(* benchmark, for any corpus, order of its hashes, levels and              *)
(* number of shards: they report every page once, in whatever order the    *)
(* workers end their pages.  The release gates, for any corpus of evidence *)
(* and any fields, values and confidences: a build that is promoted loses  *)
(* nothing the incumbent finds, however often the scripts were run.        *)
(* The discovery of a shop's pages, for any sitemaps, limits and number of *)
(* workers: pages keep the order of the plan, whichever answers first.     *)
(* The snapshot of a page, for any recipe, texts and observations: it does *)
(* not depend on the order in which the observations were made.            *)
(* The attempts of a benchmark, for any pages, errors, plans and exits:    *)
(* the summary accounts for all, and the advice for what failed.           *)
(***************************************************************************)
EXTENDS PackGovernance, BenchmarkRun, BenchmarkSuite, QualityGates, Discovery, Extraction,
        BenchmarkReport, FiniteSetTheorems, SequenceTheorems, TLAPS

-----------------------------------------------------------------------------
(* The governance of site packs.                                           *)

\* What the operations put into the catalog are artifacts of the pack.
LEMMA ArtifactsTyped ==
  ASSUME NEW a \in PackVersions, NEW next \in 1 .. MaxVersion, NEW life \in PackStates
  PROVE  /\ Demoted(a) \in PackVersions
         /\ Activated(a, next) \in PackVersions
         /\ [a EXCEPT !.state = life] \in PackVersions
         /\ [version |-> next, state |-> "draft", content |-> next, from |-> 0] \in PackVersions
BY GovernanceAssumption DEF PackVersions, Demoted, Activated, PackStates

\* Every operation keeps the state well typed.
LEMMA PackStepTyped == PackTypeOK /\ [PackNext]_packVars => PackTypeOK'
<1> SUFFICES ASSUME PackTypeOK, [PackNext]_packVars PROVE PackTypeOK'
  OBVIOUS
<1>1. CASE UNCHANGED packVars
  BY <1>1 DEF packVars, PackTypeOK
<1>2. ASSUME NEW n \in 1 .. MaxVersion, RecordDraft(n) PROVE PackTypeOK'
  <2>1. [version |-> n, state |-> "draft", content |-> n, from |-> 0] \in PackVersions
    BY GovernanceAssumption DEF PackVersions, PackStates
  <2> QED BY <1>2, <2>1 DEF RecordDraft, PackTypeOK
<1>3. ASSUME NEW a \in catalog, NEW o \in Observations, EvaluatePack(a, o) PROVE PackTypeOK'
  <2>1. FailedGates(o) \in SUBSET Gates
    BY GovernanceAssumption DEF FailedGates, Gates
  <2>2. ResolveAction(a.state, FailedGates(o)) \in PackActions
    BY DEF ResolveAction, PackActions
  <2>3. a.state \in PackStates
    BY <1>3 DEF PackTypeOK, PackVersions
  <2> QED BY <1>3, <2>1, <2>2, <2>3 DEF EvaluatePack, PackTypeOK, Verdicts
<1>4. ASSUME NEW a \in catalog, Decide(a) PROVE PackTypeOK'
  <2>1. a.version \in Nat \ {0} /\ a.state \in PackStates
    BY <1>4 DEF PackTypeOK, PackVersions
  <2>2. TargetState(verdict.action) \in PackStates
    BY <1>4 DEF Decide, PackTypeOK, Verdicts, PackActions, TargetState, PackStates
  <2> QED BY <1>4, <2>1, <2>2 DEF Decide, PackTypeOK, Decisions
<1>5. ASSUME NEW d \in decisions, NEW n \in 1 .. MaxVersion, Activate(d, n) PROVE PackTypeOK'
  <2>1. PICK a \in catalog : catalog' = {Demoted(b) : b \in catalog} \cup {Activated(a, n)}
    BY <1>5 DEF Activate
  <2>2. catalog' \subseteq PackVersions
    BY <1>5, <2>1, ArtifactsTyped DEF PackTypeOK, PackStates
  <2> QED BY <1>5, <2>2 DEF Activate, PackTypeOK
<1>6. ASSUME NEW d \in decisions, Transition(d) PROVE PackTypeOK'
  <2>1. PICK a \in catalog : catalog' = (catalog \ {a}) \cup {[a EXCEPT !.state = d.to]}
    BY <1>6 DEF Transition
  <2>2. d.to \in PackStates
    BY <1>6 DEF PackTypeOK, Decisions
  <2>3. [a EXCEPT !.state = d.to] \in PackVersions
    BY <2>1, <2>2 DEF PackTypeOK, PackVersions
  <2> QED BY <1>6, <2>1, <2>3 DEF Transition, PackTypeOK
<1> QED BY <1>1, <1>2, <1>3, <1>4, <1>5, <1>6 DEF PackNext

-----------------------------------------------------------------------------
\* No operation gives a version twice or leaves two artifacts active.
LEMMA CatalogStaysValid ==
  PackTypeOK /\ CatalogIsValid /\ [PackNext]_packVars => CatalogIsValid'
<1> SUFFICES ASSUME PackTypeOK, CatalogIsValid, [PackNext]_packVars PROVE CatalogIsValid'
  OBVIOUS
<1>1. CASE UNCHANGED catalog
  BY <1>1 DEF CatalogIsValid
<1>2. ASSUME NEW n \in 1 .. MaxVersion, RecordDraft(n) PROVE CatalogIsValid'
  <2> DEFINE draft == [version |-> n, state |-> "draft", content |-> n, from |-> 0]
  <2>1. catalog' = catalog \cup {draft} /\ \A a \in catalog : a.version # n
    BY <1>2 DEF RecordDraft
  <2> QED BY <2>1 DEF CatalogIsValid
<1>3. ASSUME NEW d \in decisions, NEW n \in 1 .. MaxVersion, Activate(d, n)
      PROVE  CatalogIsValid'
  <2>1. PICK a \in catalog : catalog' = {Demoted(b) : b \in catalog} \cup {Activated(a, n)}
    BY <1>3 DEF Activate
  <2>2. ASSUME NEW b \in catalog
        PROVE  /\ Demoted(b).version = b.version /\ Demoted(b).state # "active"
               /\ b.version # n
    BY <1>3, <2>2 DEF Demoted, PackTypeOK, PackVersions, Activate, NewestVersion
  <2>3. Activated(a, n).version = n /\ Activated(a, n).state = "active"
    BY DEF Activated
  <2>4. ASSUME NEW x \in catalog', NEW y \in catalog',
               x.version = y.version \/ (x.state = "active" /\ y.state = "active")
        PROVE  x = y
    <3>1. CASE x = Activated(a, n)
      BY <2>1, <2>2, <2>3, <2>4, <3>1
    <3>2. CASE y = Activated(a, n)
      BY <2>1, <2>2, <2>3, <2>4, <3>2
    <3>3. CASE x # Activated(a, n) /\ y # Activated(a, n)
      <4>1. PICK b \in catalog, c \in catalog : x = Demoted(b) /\ y = Demoted(c)
        BY <2>1, <2>4, <3>3
      <4>2. b.version = c.version
        BY <2>2, <2>4, <4>1
      <4> QED BY <4>1, <4>2 DEF CatalogIsValid
    <3> QED BY <3>1, <3>2, <3>3
  <2> QED BY <2>4 DEF CatalogIsValid
<1>4. ASSUME NEW d \in decisions, Transition(d) PROVE CatalogIsValid'
  <2>1. PICK a \in catalog : catalog' = (catalog \ {a}) \cup {[a EXCEPT !.state = d.to]}
    BY <1>4 DEF Transition
  <2> DEFINE moved == [a EXCEPT !.state = d.to]
  <2>2. moved.version = a.version /\ moved.state = d.to /\ d.to # "active"
    BY <1>4 DEF Transition, PackTypeOK, PackVersions
  <2> HIDE DEF moved
  <2>3. ASSUME NEW x \in catalog', NEW y \in catalog',
               x.version = y.version \/ (x.state = "active" /\ y.state = "active")
        PROVE  x = y
    <3>1. CASE x = moved /\ y # moved
      BY <2>1, <2>2, <2>3, <3>1 DEF CatalogIsValid, moved
    <3>2. CASE y = moved /\ x # moved
      BY <2>1, <2>2, <2>3, <3>2 DEF CatalogIsValid, moved
    <3>3. CASE x # moved /\ y # moved
      BY <2>1, <2>3, <3>3 DEF CatalogIsValid, moved
    <3> QED BY <3>1, <3>2, <3>3
  <2> QED BY <2>3 DEF CatalogIsValid
<1> QED BY <1>1, <1>2, <1>3, <1>4 DEF PackNext, packVars, EvaluatePack, Decide

\* The catalog is well typed and valid for ever.
THEOREM CatalogInvariant == PackSpec => [](PackTypeOK /\ CatalogIsValid)
<1>1. PackInit => PackTypeOK /\ CatalogIsValid
  BY DEF PackInit, PackTypeOK, CatalogIsValid
<1>2. PackTypeOK /\ CatalogIsValid /\ [PackNext]_packVars => PackTypeOK' /\ CatalogIsValid'
  BY PackStepTyped, CatalogStaysValid
<1> QED BY <1>1, <1>2, PTL DEF PackSpec

\* The catalog satisfies the schema it is decoded with, whichever decisions are
\* applied in whichever order and however often: no version twice and at most one
\* active artifact.
THEOREM CatalogAlwaysValid == PackSpec => []CatalogIsValid
BY CatalogInvariant, PTL

-----------------------------------------------------------------------------
\* A recorded version keeps its definition and origin, and its state never returns
\* to one it has left: buildTransitionedArtifact and buildActivatedArtifact never
\* rewrite history.
THEOREM HistoryAlwaysKept == PackSpec => HistoryIsKept
<1> DEFINE Kept(a, b) == /\ b.version = a.version /\ b.content = a.content /\ b.from = a.from
                         /\ StateRank(b.state) <= StateRank(a.state)
           Keeps == \A a \in catalog : \E b \in catalog' : Kept(a, b)
<1>1. \A s \in PackStates : StateRank(s) \in Nat
  BY DEF PackStates, StateRank
<1>2. PackTypeOK /\ [PackNext]_packVars => [Keeps]_packVars
  <2> SUFFICES ASSUME PackTypeOK, PackNext, NEW a \in catalog
               PROVE  \E b \in catalog' : Kept(a, b)
    OBVIOUS
  <2>1. a \in PackVersions /\ a.state \in PackStates /\ StateRank(a.state) \in Nat
    BY <1>1 DEF PackTypeOK, PackVersions
  <2>2. CASE catalog \subseteq catalog'
    <3>1. Kept(a, a)
      BY <2>1
    <3> QED BY <2>2, <3>1
  <2>3. ASSUME NEW d \in decisions, NEW n \in 1 .. MaxVersion, Activate(d, n)
        PROVE  \E b \in catalog' : Kept(a, b)
    <3>1. Demoted(a) \in catalog'
      BY <2>3 DEF Activate
    <3>2. Kept(a, Demoted(a))
      <4>1. CASE a.state = "active"
        <5>1. Demoted(a) = [a EXCEPT !.state = "shadow"]
          BY <4>1 DEF Demoted
        <5>2. StateRank("shadow") <= StateRank(a.state)
          BY <4>1 DEF StateRank
        <5> QED BY <2>1, <5>1, <5>2 DEF PackVersions
      <4>2. CASE a.state # "active"
        BY <2>1, <4>2 DEF Demoted
      <4> QED BY <4>1, <4>2
    <3> QED BY <3>1, <3>2
  <2>4. ASSUME NEW d \in decisions, Transition(d)
        PROVE  \E b \in catalog' : Kept(a, b)
    <3>1. PICK c \in catalog : /\ <<c.state, d.to>> \in LifecycleMoves /\ d.to # "active"
                               /\ catalog' = (catalog \ {c}) \cup {[c EXCEPT !.state = d.to]}
      BY <2>4 DEF Transition
    <3>2. CASE a # c
      BY <2>1, <3>1, <3>2
    <3>3. CASE a = c
      <4>1. StateRank(d.to) <= StateRank(a.state)
        BY <3>1, <3>3 DEF LifecycleMoves, StateRank
      <4>2. Kept(a, [a EXCEPT !.state = d.to])
        BY <2>1, <4>1 DEF PackVersions
      <4> QED BY <3>1, <3>3, <4>2
    <3> QED BY <3>2, <3>3
  <2> QED BY <2>2, <2>3, <2>4 DEF PackNext, RecordDraft, EvaluatePack, Decide
<1> QED BY <1>2, CatalogInvariant, PTL DEF PackSpec, HistoryIsKept

\* A decision to activate was taken about a live version.
ActivationsAreOfLive ==
  \A d \in decisions : d.to = "active" => d.from \in {"shadow", "guarded", "quarantined"}

\* The reflection engine takes no other decisions.
LEMMA DecisionsStayLive ==
  PackTypeOK /\ ActivationsAreOfLive /\ [PackNext]_packVars => ActivationsAreOfLive'
<1> SUFFICES ASSUME PackTypeOK, ActivationsAreOfLive, [PackNext]_packVars
             PROVE  ActivationsAreOfLive'
  OBVIOUS
<1>1. CASE UNCHANGED decisions
  BY <1>1 DEF ActivationsAreOfLive
<1>2. ASSUME NEW a \in catalog, Decide(a) PROVE ActivationsAreOfLive'
  <2>1. <<a.state, TargetState(verdict.action)>> \in DecidableMoves
    BY <1>2 DEF Decide, Decidable
  <2>2. TargetState(verdict.action) = "active" => a.state \in {"shadow", "guarded", "quarantined"}
    BY <2>1 DEF DecidableMoves
  <2> QED BY <1>2, <2>2 DEF Decide, ActivationsAreOfLive
<1> QED BY <1>1, <1>2
        DEF PackNext, packVars, RecordDraft, EvaluatePack, Activate, Transition

\* A version is activated out of shadow, guard or quarantine only and after every
\* other version, so that a decision taken before its subject was retired, or
\* applied twice, brings nothing back (applyPackGovernanceDecision).
THEOREM OnlyLiveVersionsActivated == PackSpec => OnlyLiveVersionsAreActivated
<1> DEFINE Fresh(b) == b.state = "active" /\ \A a \in catalog : a.version # b.version
           Live(b) == /\ \A a \in catalog : a.version < b.version
                      /\ \E a \in catalog : /\ a.version = b.from /\ a.content = b.content
                                            /\ a.state \in {"shadow", "guarded", "quarantined"}
<1>1. PackSpec => []ActivationsAreOfLive
  <2>1. PackInit => ActivationsAreOfLive
    BY DEF PackInit, ActivationsAreOfLive
  <2> QED BY <2>1, DecisionsStayLive, CatalogInvariant, PTL DEF PackSpec
<1>2. PackTypeOK /\ ActivationsAreOfLive /\ [PackNext]_packVars
        => [\A b \in catalog' : Fresh(b) => Live(b)]_packVars
  <2> SUFFICES ASSUME PackTypeOK, ActivationsAreOfLive, PackNext, NEW b \in catalog', Fresh(b)
               PROVE  Live(b)
    OBVIOUS
  <2>1. b \notin catalog
    OBVIOUS
  <2>2. PICK d \in decisions, n \in 1 .. MaxVersion : Activate(d, n)
    <3>1. ASSUME NEW n \in 1 .. MaxVersion, RecordDraft(n) PROVE FALSE
      BY <2>1, <3>1 DEF RecordDraft
    <3>2. ASSUME NEW d \in decisions, Transition(d) PROVE FALSE
      <4>1. PICK a \in catalog : catalog' = (catalog \ {a}) \cup {[a EXCEPT !.state = d.to]}
        BY <3>2 DEF Transition
      <4>2. b.version = a.version
        BY <2>1, <4>1 DEF PackTypeOK, PackVersions
      <4> QED BY <4>2
    <3> QED BY <2>1, <3>1, <3>2 DEF PackNext, EvaluatePack, Decide
  <2>3. PICK a \in catalog :
          /\ IsSubject(a, d)
          /\ catalog' = {Demoted(c) : c \in catalog} \cup {Activated(a, n)}
    BY <2>2 DEF Activate
  <2>4. b = Activated(a, n)
    <3>1. ASSUME NEW c \in catalog, b = Demoted(c) PROVE FALSE
      BY <3>1 DEF Demoted, PackTypeOK, PackVersions
    <3> QED BY <2>3, <3>1
  <2>5. a.state \in {"shadow", "guarded", "quarantined"}
    BY <2>2, <2>3 DEF IsSubject, ActivationsAreOfLive, Activate
  <2> QED BY <2>2, <2>4, <2>5 DEF Activated, Activate, NewestVersion
<1> QED BY <1>1, <1>2, CatalogInvariant, PTL DEF PackSpec, OnlyLiveVersionsAreActivated

-----------------------------------------------------------------------------
(* The sidecar of a benchmark run.                                          *)

BenchmarkRunSpec == BenchmarkRunInit /\ [][BenchmarkRunNext]_benchmarkRunVars

Records == {"run-start", "progress-event", "final-artifact", "run-error"}
Pieces == [of : Nat, text : Texts]

SidecarTyped ==
  /\ said \in Seq(Records) /\ file \in Seq(Pieces)
  /\ settled \in Nat /\ settled <= Len(said)
  /\ tried => settled < Len(said)

\* The pieces stand in the order of their records, at most two of each.
PiecesInOrder ==
  /\ \A j, k \in DOMAIN file : j <= k => file[j].of <= file[k].of
  /\ \A j, k \in DOMAIN file : j + 2 <= k => file[j].of < file[k].of

\* The chain never runs ahead: of the record whose turn it is there is at most what its
\* first append left, at the end.
NothingAhead ==
  \A k \in DOMAIN file :
    \/ file[k].of <= settled
    \/ tried /\ k = Len(file) /\ file[k].of = settled + 1

\* As long as nothing was lost, every settled record has a line, and a piece without a
\* newline is followed by its own record's line or waits for it.
NothingMissing ==
  ~lost =>
    /\ \A record \in 1..settled : \E k \in DOMAIN file : file[k] = Piece(record, "line")
    /\ \A k \in DOMAIN file :
         file[k].text # "line" =>
           IF k < Len(file) THEN file[k].of \in {0, file[k + 1].of}
           ELSE file[k].of \in {0, settled + 1}

FinalIsLast ==
  /\ runStage \in {"flushing", "returned"} => said # <<>> /\ said[Len(said)] = "final-artifact"
  /\ runStage = "returned" => settled = Len(said) /\ ~lost

SidecarOrder == SidecarTyped /\ PiecesInOrder /\ NothingAhead /\ NothingMissing
SidecarIInv == SidecarOrder /\ FinalIsLast

-----------------------------------------------------------------------------
LEMMA SidecarInitially == BenchmarkRunInit => SidecarIInv
<1> SUFFICES ASSUME BenchmarkRunInit PROVE SidecarIInv
  OBVIOUS
<1>1. said = <<>> /\ Len(said) = 0 /\ DOMAIN file = {} /\ file \in Seq(Pieces)
  BY DEF BenchmarkRunInit
<1> QED BY <1>1 DEF BenchmarkRunInit, SidecarIInv, SidecarOrder, SidecarTyped, PiecesInOrder,
                    NothingAhead, NothingMissing, FinalIsLast

\* A record that is handed over waits for its turn.
LEMMA HandOverStep ==
  ASSUME SidecarOrder, NEW record \in Records, HandOver(record)
  PROVE  SidecarOrder' /\ said' # <<>> /\ said'[Len(said')] = record
<1>1. said' = Append(said, record) /\ UNCHANGED <<settled, tried, lost, file>>
  BY DEF HandOver, writerVars
<1>2. /\ said' \in Seq(Records) /\ Len(said') = Len(said) + 1 /\ Len(said) \in Nat
      /\ said'[Len(said')] = record /\ said' # <<>>
  BY <1>1 DEF SidecarOrder, SidecarTyped
<1>3. SidecarTyped'
  BY <1>1, <1>2 DEF SidecarOrder, SidecarTyped
<1>4. PiecesInOrder' /\ NothingAhead' /\ NothingMissing'
  BY <1>1 DEF SidecarOrder, PiecesInOrder, NothingAhead, NothingMissing
<1> QED BY <1>2, <1>3, <1>4 DEF SidecarOrder

\* What a piece at the end does to the file.
LEMMA AddedPiece ==
  ASSUME NEW f \in Seq(Pieces), NEW piece \in Pieces
  PROVE  /\ Append(f, piece) \in Seq(Pieces)
         /\ Len(f) \in Nat /\ Len(Append(f, piece)) = Len(f) + 1
         /\ DOMAIN f = 1..Len(f) /\ DOMAIN Append(f, piece) = 1..(Len(f) + 1)
         /\ \A k \in 1..Len(f) : Append(f, piece)[k] = f[k]
         /\ Append(f, piece)[Len(f) + 1] = piece
OBVIOUS

LEMMA PiecesNumbered ==
  ASSUME NEW f \in Seq(Pieces)
  PROVE  \A k \in DOMAIN f : f[k].of \in Nat
<1> SUFFICES ASSUME NEW k \in DOMAIN f PROVE f[k].of \in Nat
  OBVIOUS
<1>1. f[k] \in Pieces
  OBVIOUS
<1> QED BY <1>1 DEF Pieces

\* A piece of the record whose turn it is keeps the order: it stands last, and behind at
\* most one other of that record.
LEMMA PieceKeepsOrder ==
  ASSUME SidecarTyped, PiecesInOrder, NothingAhead,
         NEW text \in Texts, file' = Append(file, Piece(settled + 1, text))
  PROVE  /\ file' \in Seq(Pieces) /\ PiecesInOrder'
         /\ \A k \in DOMAIN file' : file'[k].of <= settled + 1
         /\ ~tried => \A k \in DOMAIN file' : file'[k].of <= settled \/ k = Len(file')
<1> DEFINE piece == Piece(settled + 1, text)
<1>1. piece \in Pieces /\ piece.of = settled + 1
  BY DEF Piece, Pieces, SidecarTyped
<1>2. /\ file' \in Seq(Pieces) /\ Len(file) \in Nat /\ Len(file') = Len(file) + 1
      /\ DOMAIN file = 1..Len(file) /\ DOMAIN file' = 1..(Len(file) + 1)
      /\ \A k \in 1..Len(file) : file'[k] = file[k]
      /\ file'[Len(file) + 1].of = settled + 1
  BY <1>1, AddedPiece DEF SidecarTyped
<1>3. \A k \in 1..Len(file) : file[k].of \in Nat
  BY <1>2, PiecesNumbered DEF SidecarTyped
<1>4. settled \in Nat /\ \A k \in 1..Len(file) : file[k].of <= settled \/ k = Len(file)
  BY <1>2 DEF NothingAhead, SidecarTyped
<1>5. \A k \in 1..Len(file) : file[k].of <= settled + 1
  <2> SUFFICES ASSUME NEW k \in 1..Len(file) PROVE file[k].of <= settled + 1
    OBVIOUS
  <2>1. k \in DOMAIN file /\ file[k].of \in Nat /\ settled \in Nat
    BY <1>2, <1>3, <1>4
  <2>2. file[k].of <= settled \/ file[k].of = settled + 1
    BY <2>1 DEF NothingAhead
  <2> QED BY <2>1, <2>2
<1>0. \A k \in 1..Len(file) : file'[k].of = file[k].of
  BY <1>2
<1> HIDE DEF piece
<1>6. \A j, k \in DOMAIN file' : j <= k => file'[j].of <= file'[k].of
  <2> SUFFICES ASSUME NEW j \in DOMAIN file', NEW k \in DOMAIN file', j <= k
               PROVE  file'[j].of <= file'[k].of
    OBVIOUS
  <2>1. CASE k = Len(file) + 1
    <3>1. file'[k].of = settled + 1 /\ settled \in Nat
      BY <1>2, <1>4, <2>1
    <3>2. CASE j = Len(file) + 1
      BY <2>1, <3>1, <3>2
    <3>3. CASE j \in 1..Len(file)
      BY <1>0, <1>5, <3>1, <3>3
    <3> QED BY <1>2, <3>2, <3>3
  <2>2. CASE k \in 1..Len(file)
    BY <1>2, <2>2 DEF PiecesInOrder
  <2> QED BY <1>2, <2>1, <2>2
<1>7. \A j, k \in DOMAIN file' : j + 2 <= k => file'[j].of < file'[k].of
  <2> SUFFICES ASSUME NEW j \in DOMAIN file', NEW k \in DOMAIN file', j + 2 <= k
               PROVE  file'[j].of < file'[k].of
    OBVIOUS
  <2>1. CASE k = Len(file) + 1
    <3>1. j \in 1..Len(file) /\ j # Len(file)
      BY <1>2, <2>1
    <3>2. file[j].of <= settled /\ file[j].of \in Nat /\ settled \in Nat
      BY <1>3, <1>4, <3>1
    <3>3. file'[k].of = settled + 1 /\ file'[j].of = file[j].of
      BY <1>0, <1>2, <2>1, <3>1
    <3> QED BY <3>2, <3>3
  <2>2. CASE k \in 1..Len(file)
    BY <1>2, <2>2 DEF PiecesInOrder
  <2> QED BY <1>2, <2>1, <2>2
<1>8. PiecesInOrder'
  BY <1>6, <1>7 DEF PiecesInOrder
<1>9. ~tried => \A k \in 1..Len(file) : file[k].of <= settled
  BY <1>2 DEF NothingAhead
<1>10. \A k \in DOMAIN file' : file'[k].of <= settled + 1
  <2> SUFFICES ASSUME NEW k \in 1..(Len(file) + 1) PROVE file'[k].of <= settled + 1
    BY <1>2
  <2>1. CASE k = Len(file) + 1
    <3>1. file'[k].of = settled + 1 /\ settled \in Nat
      BY <1>2, <1>4, <2>1
    <3> QED BY <3>1
  <2>2. CASE k \in 1..Len(file)
    BY <1>0, <1>5, <2>2
  <2> QED BY <1>2, <2>1, <2>2
<1>11. ASSUME ~tried, NEW k \in DOMAIN file' PROVE file'[k].of <= settled \/ k = Len(file')
  <2>1. CASE k = Len(file) + 1
    BY <1>2, <2>1
  <2>2. CASE k \in 1..Len(file)
    BY <1>0, <1>9, <1>11, <2>2
  <2> QED BY <1>2, <2>1, <2>2
<1> QED BY <1>2, <1>8, <1>10, <1>11

\* The record that is written stands whole and ended behind what a failed append left of it.
LEMMA EntryIsWrittenStep == SidecarOrder /\ EntryIsWritten => SidecarOrder'
<1> SUFFICES ASSUME SidecarOrder, EntryIsWritten PROVE SidecarOrder'
  OBVIOUS
<1> DEFINE piece == Piece(settled + 1, "line")
<1>1. /\ settled < Len(said) /\ file' = Append(file, piece)
      /\ settled' = settled + 1 /\ ~tried' /\ said' = said /\ lost' = lost
  BY DEF EntryIsWritten, Settles
<1>2. SidecarTyped /\ PiecesInOrder /\ NothingAhead /\ NothingMissing
  BY DEF SidecarOrder
<1>3. piece \in Pieces /\ piece.of = settled + 1 /\ piece.text = "line" /\ "line" \in Texts
  BY <1>2 DEF Piece, Pieces, SidecarTyped, Texts
<1>4. /\ file' \in Seq(Pieces) /\ PiecesInOrder'
      /\ \A k \in DOMAIN file' : file'[k].of <= settled + 1
  BY <1>1, <1>2, <1>3, PieceKeepsOrder
<1>5. /\ Len(file) \in Nat /\ Len(file') = Len(file) + 1
      /\ DOMAIN file = 1..Len(file) /\ DOMAIN file' = 1..(Len(file) + 1)
      /\ \A k \in 1..Len(file) : file'[k] = file[k]
      /\ file'[Len(file) + 1] = piece
  BY <1>1, <1>2, <1>3, AddedPiece DEF SidecarTyped
<1>6. SidecarTyped'
  BY <1>1, <1>2, <1>4 DEF SidecarTyped
<1>7. NothingAhead'
  BY <1>1, <1>4 DEF NothingAhead
<1>8. NothingMissing'
  <2> SUFFICES ASSUME ~lost
        PROVE  /\ \A record \in 1..(settled + 1) :
                    \E k \in DOMAIN file' : file'[k] = Piece(record, "line")
               /\ \A k \in DOMAIN file' :
                    file'[k].text # "line" =>
                      IF k < Len(file') THEN file'[k].of \in {0, file'[k + 1].of}
                      ELSE file'[k].of \in {0, settled + 2}
    <3>1. settled + 1 + 1 = settled + 2 /\ settled' = settled + 1
      BY <1>1, <1>2 DEF SidecarTyped
    <3> QED BY <1>1, <3>1 DEF NothingMissing
  <2>1. ASSUME NEW record \in 1..(settled + 1)
        PROVE  \E k \in DOMAIN file' : file'[k] = Piece(record, "line")
    <3>1. CASE record = settled + 1
      BY <1>5, <3>1
    <3>2. CASE record \in 1..settled
      <4>1. PICK k \in DOMAIN file : file[k] = Piece(record, "line")
        BY <1>2, <3>2 DEF NothingMissing
      <4> QED BY <1>5, <4>1
    <3> QED BY <1>2, <3>1, <3>2 DEF SidecarTyped
  <2>2. ASSUME NEW k \in DOMAIN file', file'[k].text # "line"
        PROVE  k < Len(file') /\ file'[k].of \in {0, file'[k + 1].of}
    <3>1. k \in 1..Len(file) /\ file'[k] = file[k]
      BY <1>3, <1>5, <2>2
    <3>2. IF k < Len(file) THEN file[k].of \in {0, file[k + 1].of}
          ELSE file[k].of \in {0, settled + 1}
      BY <1>2, <1>5, <2>2, <3>1 DEF NothingMissing
    <3>3. CASE k < Len(file)
      <4>1. k + 1 \in 1..Len(file)
        BY <1>5, <3>1, <3>3
      <4> QED BY <1>5, <3>1, <3>2, <3>3, <4>1
    <3>4. CASE k = Len(file)
      BY <1>3, <1>5, <3>1, <3>2, <3>4
    <3> QED BY <1>5, <3>1, <3>3, <3>4
  <2> QED BY <2>1, <2>2
<1> QED BY <1>4, <1>6, <1>7, <1>8 DEF SidecarOrder

\* A failed append leaves at most one piece of the record, at the end; the second one is
\* the record's loss.
LEMMA WriteFailsStep == SidecarOrder /\ WriteFails => SidecarOrder' /\ (lost => lost')
<1> SUFFICES ASSUME SidecarOrder, WriteFails PROVE SidecarOrder' /\ (lost => lost')
  OBVIOUS
<1>1. SidecarTyped /\ PiecesInOrder /\ NothingAhead /\ NothingMissing
  BY DEF SidecarOrder
<1>2. /\ settled < Len(said) /\ said' = said
      /\ \/ tried /\ settled' = settled + 1 /\ ~tried' /\ lost'
         \/ ~tried /\ settled' = settled /\ tried' /\ lost' = lost
  BY DEF WriteFails, Settles
<1>3. CASE file' = file
  <2>1. SidecarTyped' /\ PiecesInOrder'
    BY <1>1, <1>2, <1>3 DEF SidecarTyped, PiecesInOrder
  <2>2. NothingAhead'
    <3>1. \A k \in DOMAIN file : file[k].of \in Nat
      BY <1>1, PiecesNumbered DEF SidecarTyped
    <3> QED BY <1>1, <1>2, <1>3, <3>1 DEF NothingAhead, SidecarTyped
  <2>3. NothingMissing'
    BY <1>1, <1>2, <1>3 DEF NothingMissing, SidecarTyped
  <2> QED BY <1>2, <2>1, <2>2, <2>3 DEF SidecarOrder
<1>4. ASSUME NEW text \in Texts, file' = Append(file, Piece(settled + 1, text))
      PROVE  SidecarOrder' /\ (lost => lost')
  <2> DEFINE piece == Piece(settled + 1, text)
  <2>1. piece \in Pieces /\ piece.of = settled + 1
    BY <1>1 DEF Piece, Pieces, SidecarTyped
  <2>2. /\ file' \in Seq(Pieces) /\ PiecesInOrder'
        /\ \A k \in DOMAIN file' : file'[k].of <= settled + 1
        /\ ~tried => \A k \in DOMAIN file' : file'[k].of <= settled \/ k = Len(file')
    BY <1>1, <1>4, PieceKeepsOrder
  <2>3. /\ Len(file) \in Nat /\ Len(file') = Len(file) + 1
        /\ DOMAIN file = 1..Len(file) /\ DOMAIN file' = 1..(Len(file) + 1)
        /\ \A k \in 1..Len(file) : file'[k] = file[k]
        /\ file'[Len(file) + 1] = piece
    BY <1>1, <1>4, <2>1, AddedPiece DEF SidecarTyped
  <2>4. SidecarTyped'
    BY <1>1, <1>2, <2>2 DEF SidecarTyped
  <2>5. NothingAhead'
    <3>1. \A k \in DOMAIN file' : file'[k].of \in Nat
      BY <2>2, PiecesNumbered
    <3>2. CASE tried
      BY <1>2, <2>2, <3>2 DEF NothingAhead
    <3>3. CASE ~tried
      <4>1. file'[Len(file')].of = settled + 1
        BY <2>1, <2>3
      <4> QED BY <1>2, <2>2, <3>1, <3>3, <4>1 DEF NothingAhead
    <3> QED BY <1>1, <3>2, <3>3 DEF SidecarTyped
  <2>6. NothingMissing'
    <3> SUFFICES ASSUME ~lost'
          PROVE  /\ \A record \in 1..settled :
                      \E k \in DOMAIN file' : file'[k] = Piece(record, "line")
                 /\ \A k \in DOMAIN file' :
                      file'[k].text # "line" =>
                        IF k < Len(file') THEN file'[k].of \in {0, file'[k + 1].of}
                        ELSE file'[k].of \in {0, settled + 1}
      BY <1>2 DEF NothingMissing
    <3>1. ~lost /\ ~tried
      BY <1>2
    <3>2. ASSUME NEW record \in 1..settled
          PROVE  \E k \in DOMAIN file' : file'[k] = Piece(record, "line")
      <4>1. PICK k \in DOMAIN file : file[k] = Piece(record, "line")
        BY <1>1, <3>1, <3>2 DEF NothingMissing
      <4> QED BY <2>3, <4>1
    <3>3. ASSUME NEW k \in DOMAIN file', file'[k].text # "line"
          PROVE  IF k < Len(file') THEN file'[k].of \in {0, file'[k + 1].of}
                 ELSE file'[k].of \in {0, settled + 1}
      <4>1. CASE k = Len(file')
        BY <2>1, <2>3, <4>1
      <4>2. CASE k \in 1..Len(file) /\ k < Len(file)
        <5>1. k + 1 \in 1..Len(file)
          BY <2>3, <4>2
        <5>2. file[k].of \in {0, file[k + 1].of}
          BY <1>1, <2>3, <3>1, <3>3, <4>2 DEF NothingMissing
        <5> QED BY <2>3, <4>2, <5>1, <5>2
      <4>3. CASE k = Len(file)
        <5>1. k \in 1..Len(file)
          BY <2>3, <3>3, <4>3
        <5>2. file[k].of \in {0, settled + 1}
          BY <1>1, <2>3, <3>1, <3>3, <4>3, <5>1 DEF NothingMissing
        <5> QED BY <2>1, <2>3, <4>3, <5>1, <5>2
      <4> QED BY <2>3, <4>1, <4>2, <4>3
    <3> QED BY <3>2, <3>3
  <2> QED BY <1>2, <2>2, <2>4, <2>5, <2>6 DEF SidecarOrder
<1> QED BY <1>3, <1>4 DEF WriteFails, PutDown

LEMMA DirectoryFailsStep == SidecarOrder /\ DirectoryFails => SidecarOrder' /\ lost'
<1> SUFFICES ASSUME SidecarOrder, DirectoryFails PROVE SidecarOrder' /\ lost'
  OBVIOUS
<1>1. /\ settled < Len(said) /\ settled' = settled + 1 /\ ~tried' /\ lost'
      /\ file' = file /\ said' = said
  BY DEF DirectoryFails, Settles
<1>2. SidecarTyped' /\ PiecesInOrder' /\ NothingMissing'
  BY <1>1 DEF SidecarOrder, SidecarTyped, PiecesInOrder, NothingMissing
<1>3. NothingAhead'
  <2>1. \A k \in DOMAIN file : file[k].of \in Nat
    BY PiecesNumbered DEF SidecarOrder, SidecarTyped
  <2> QED BY <1>1, <2>1 DEF SidecarOrder, SidecarTyped, NothingAhead
<1> QED BY <1>1, <1>2, <1>3 DEF SidecarOrder

\* A step that neither hands over nor writes anything.
LEMMA QuietStep ==
  ASSUME SidecarOrder, UNCHANGED <<said, writerVars>>
  PROVE  SidecarOrder' /\ UNCHANGED <<said, settled, lost>>
BY DEF SidecarOrder, SidecarTyped, PiecesInOrder, NothingAhead, NothingMissing, writerVars

LEMMA SidecarStep == SidecarIInv /\ [BenchmarkRunNext]_benchmarkRunVars => SidecarIInv'
<1> SUFFICES ASSUME SidecarIInv, [BenchmarkRunNext]_benchmarkRunVars PROVE SidecarIInv'
  OBVIOUS
<1> USE DEF SidecarIInv, FinalIsLast
<1>1. CASE UNCHANGED benchmarkRunVars
  <2>1. UNCHANGED <<said, writerVars>> /\ runStage' = runStage
    BY <1>1 DEF benchmarkRunVars, writerVars
  <2> QED BY <2>1, QuietStep
<1>2. CASE StartRun
  BY <1>2, HandOverStep DEF StartRun, Records
<1>3. CASE ProbeExit
  BY <1>3, QuietStep DEF ProbeExit
<1>4. CASE JudgePass
  BY <1>4, QuietStep DEF JudgePass
<1>5. CASE Progress
  BY <1>5, HandOverStep DEF Progress, Records
<1>6. CASE SuiteReturns
  BY <1>6, HandOverStep DEF SuiteReturns, Records
<1>7. CASE SuiteThrows
  BY <1>7, QuietStep DEF SuiteThrows
<1>8. CASE FlushFinal
  BY <1>8, QuietStep DEF FlushFinal
<1>9. CASE ReportError
  BY <1>9, HandOverStep DEF ReportError, Records
<1>10. CASE FlushError
  BY <1>10, QuietStep DEF FlushError
<1>11. CASE EntryIsWritten
  <2>1. settled < Len(said) /\ UNCHANGED <<said, runStage>>
    BY <1>11 DEF EntryIsWritten
  <2>2. runStage # "returned"
    BY <2>1 DEF SidecarOrder, SidecarTyped
  <2> QED BY <1>11, <2>1, <2>2, EntryIsWrittenStep
<1>12. CASE WriteFails
  <2>1. settled < Len(said) /\ UNCHANGED <<said, runStage>>
    BY <1>12 DEF WriteFails
  <2>2. runStage # "returned"
    BY <2>1 DEF SidecarOrder, SidecarTyped
  <2> QED BY <1>12, <2>1, <2>2, WriteFailsStep
<1>13. CASE DirectoryFails
  <2>1. settled < Len(said) /\ UNCHANGED <<said, runStage>>
    BY <1>13 DEF DirectoryFails
  <2>2. runStage # "returned"
    BY <2>1 DEF SidecarOrder, SidecarTyped
  <2> QED BY <1>13, <2>1, <2>2, DirectoryFailsStep
<1>14. CASE NewRun
  <2>1. /\ said' = <<>> /\ settled' = 0 /\ ~tried' /\ ~lost' /\ runStage' = "idle"
        /\ file' \in {<<>>, <<Fragment>>}
    BY <1>14 DEF NewRun
  <2>2. CASE file' = <<>>
    BY <2>1, <2>2 DEF SidecarOrder, SidecarTyped, PiecesInOrder, NothingAhead, NothingMissing
  <2>3. CASE file' = <<Fragment>>
    <3>1. /\ file' \in Seq(Pieces) /\ Len(file') = 1 /\ DOMAIN file' = {1}
          /\ file'[1].of = 0 /\ file'[1].text = "part"
      BY <2>3 DEF Fragment, Piece, Pieces, Texts
    <3> QED BY <2>1, <3>1 DEF SidecarOrder, SidecarTyped, PiecesInOrder, NothingAhead,
                              NothingMissing
  <2> QED BY <2>1, <2>2, <2>3
<1> QED BY <1>1, <1>2, <1>3, <1>4, <1>5, <1>6, <1>7, <1>8, <1>9, <1>10, <1>11, <1>12, <1>13, <1>14
        DEF BenchmarkRunNext

\* The inductive invariant of the sidecar: its pieces stand in the order of their records,
\* none ahead of its turn, and nothing settled is missing unless a record was lost.
THEOREM SidecarInvariant == BenchmarkRunSpec => []SidecarIInv
BY SidecarInitially, SidecarStep, PTL DEF BenchmarkRunSpec

\* A run that returns leaves every record whole in the sidecar, in order, joined to nothing
\* but what a failed append left of the same record (createArtifactJsonlWriter), however
\* many events, writes and failures there were.
THEOREM SidecarAlwaysKeepsEveryRecord == BenchmarkRunSpec => []SidecarKeepsEveryRecord
<1>1. SidecarIInv => SidecarKeepsEveryRecord
  <2> SUFFICES ASSUME SidecarIInv, runStage = "returned"
               PROVE  /\ said[Len(said)] = "final-artifact"
                      /\ \A record \in DOMAIN said : Lines(record) # {}
                      /\ PiecesInOrder
                      /\ \A k \in DOMAIN file :
                           file[k].text # "line" =>
                             k + 1 \in DOMAIN file /\ file[k].of \in {0, file[k + 1].of}
    BY DEF SidecarKeepsEveryRecord, PiecesInOrder
  <2>1. /\ ~lost /\ settled = Len(said) /\ said # <<>> /\ said[Len(said)] = "final-artifact"
        /\ said \in Seq(Records) /\ ~tried /\ PiecesInOrder /\ NothingAhead /\ NothingMissing
        /\ file \in Seq(Pieces)
    BY DEF SidecarIInv, SidecarOrder, SidecarTyped, FinalIsLast
  <2>2. Len(said) \in Nat /\ Len(said) >= 1 /\ DOMAIN said = 1..Len(said)
    BY <2>1
  <2>3. ASSUME NEW record \in DOMAIN said PROVE Lines(record) # {}
    BY <2>1, <2>2 DEF NothingMissing, Lines
  <2>4. ASSUME NEW k \in DOMAIN file, file[k].text # "line"
        PROVE  k + 1 \in DOMAIN file /\ file[k].of \in {0, file[k + 1].of}
    <3>1. /\ Len(file) \in Nat /\ DOMAIN file = 1..Len(file) /\ file[k].of \in Nat
          /\ file[k].of <= settled
      BY <2>1, PiecesNumbered DEF NothingAhead
    <3>2. CASE k < Len(file)
      BY <2>1, <2>4, <3>1, <3>2 DEF NothingMissing
    <3>3. CASE k = Len(file)
      <4>1. file[k].of \in {0, settled + 1}
        BY <2>1, <2>4, <3>3 DEF NothingMissing
      <4>2. file[k].of = 0
        BY <2>1, <2>2, <3>1, <4>1
      <4>3. PICK l \in DOMAIN file : file[l] = Piece(Len(said), "line")
        BY <2>1, <2>2 DEF NothingMissing
      <4>4. file[l].of = Len(said)
        BY <4>3 DEF Piece
      <4>5. l <= k
        BY <3>1, <3>3, <4>3
      <4>6. file[l].of <= file[k].of
        BY <2>1, <4>3, <4>5 DEF PiecesInOrder
      <4> QED BY <2>2, <4>2, <4>4, <4>6
    <3> QED BY <3>1, <3>2, <3>3
  <2> QED BY <2>1, <2>3, <2>4
<1> QED BY <1>1, SidecarInvariant, PTL

-----------------------------------------------------------------------------
(* The sweeps of the benchmark suite.                                       *)

\* The strict total orders on a set, as sets of pairs.
Orders(S, before) ==
  /\ \A p \in S : <<p, p>> \notin before
  /\ \A p, q, r \in S : <<p, q>> \in before /\ <<q, r>> \in before => <<p, r>> \in before
  /\ \A p, q \in S : p # q => <<p, q>> \in before \/ <<q, p>> \in before

RankOf(S, before, p) == Cardinality({q \in S : <<q, p>> \in before})

\* Ranks are numbers below the size of the set, and tell its elements apart.
LEMMA RanksTellApart ==
  ASSUME NEW S, IsFiniteSet(S), NEW before, Orders(S, before)
  PROVE  /\ \A p \in S : RankOf(S, before, p) \in 0..Cardinality(S) - 1
         /\ \A p, q \in S : <<p, q>> \in before => RankOf(S, before, p) < RankOf(S, before, q)
         /\ \A p, q \in S : RankOf(S, before, p) = RankOf(S, before, q) => p = q
<1> DEFINE Lower(p) == {q \in S : <<q, p>> \in before}
<1>1. ASSUME NEW p \in S
      PROVE  /\ IsFiniteSet(Lower(p)) /\ Cardinality(Lower(p)) \in Nat
             /\ Cardinality(Lower(p)) < Cardinality(S)
  <2>1. Lower(p) \in SUBSET S /\ p \notin Lower(p)
    BY DEF Orders
  <2>2. Lower(p) # S
    BY <2>1
  <2> HIDE DEF Lower
  <2>3. IsFiniteSet(Lower(p)) /\ Cardinality(Lower(p)) <= Cardinality(S)
        /\ (Cardinality(S) = Cardinality(Lower(p)) => S = Lower(p))
    BY <2>1, FS_Subset
  <2>4. Cardinality(Lower(p)) \in Nat /\ Cardinality(S) \in Nat
    BY <2>3, FS_CardinalityType
  <2> QED BY <2>2, <2>3, <2>4
<1>2. ASSUME NEW p \in S, NEW q \in S, <<p, q>> \in before
      PROVE  Cardinality(Lower(p)) < Cardinality(Lower(q))
  <2>1. Lower(p) \in SUBSET Lower(q) /\ p \notin Lower(p) /\ p \in Lower(q)
    BY <1>2 DEF Orders
  <2>2. Lower(p) # Lower(q)
    BY <2>1
  <2>3. IsFiniteSet(Lower(q)) /\ Cardinality(Lower(q)) \in Nat /\ Cardinality(Lower(p)) \in Nat
    BY <1>1
  <2> HIDE DEF Lower
  <2>4. Cardinality(Lower(p)) <= Cardinality(Lower(q))
        /\ (Cardinality(Lower(q)) = Cardinality(Lower(p)) => Lower(q) = Lower(p))
    BY <2>1, <2>3, FS_Subset
  <2> QED BY <2>2, <2>3, <2>4
<1>3. Cardinality(S) \in Nat
  BY FS_CardinalityType
<1>4. \A p \in S : RankOf(S, before, p) = Cardinality(Lower(p))
  BY DEF RankOf
<1> HIDE DEF Lower
<1>5. ASSUME NEW p \in S, NEW q \in S, RankOf(S, before, p) = RankOf(S, before, q)
      PROVE  p = q
  <2>1. ~(<<p, q>> \in before) /\ ~(<<q, p>> \in before)
    BY <1>1, <1>2, <1>4, <1>5
  <2> QED BY <2>1 DEF Orders
<1> QED BY <1>1, <1>2, <1>3, <1>4, <1>5

\* Each place is taken.
LEMMA RanksAreTaken ==
  ASSUME NEW S, IsFiniteSet(S), NEW before, Orders(S, before)
  PROVE  \A m \in 1..Cardinality(S) : \E p \in S : RankOf(S, before, p) = m - 1
<1> DEFINE n == Cardinality(S)
           rank == [p \in S |-> RankOf(S, before, p)]
<1>1. n \in Nat
  BY FS_CardinalityType
<1>2. rank \in Injection(S, 0..n - 1)
  BY RanksTellApart DEF Injection, IsInjective
<1>3. IsFiniteSet(0..n - 1) /\ Cardinality(0..n - 1) = n
  BY <1>1, FS_Interval
<1>4. rank \in Surjection(S, 0..n - 1)
  <2> HIDE DEF rank
  <2>1. Cardinality(S) = Cardinality(0..n - 1)
    BY <1>3
  <2>2. Cardinality(S) = Cardinality(0..n - 1) <=> rank \in Surjection(S, 0..n - 1)
    BY <1>2, <1>3, FS_Injection
  <2> QED BY <2>1, <2>2
<1> SUFFICES ASSUME NEW m \in 1..n PROVE \E p \in S : RankOf(S, before, p) = m - 1
  OBVIOUS
<1>5. m - 1 \in 0..n - 1
  BY <1>1
<1>6. PICK p \in S : rank[p] = m - 1
  BY <1>4, <1>5 DEF Surjection
<1> QED BY <1>6

\* A listing by rank has every element once.
LEMMA ListingByRank ==
  ASSUME NEW S, IsFiniteSet(S), NEW before, Orders(S, before),
         NEW s, s = [n \in 1..Cardinality(S) |-> CHOOSE p \in S : RankOf(S, before, p) = n - 1]
  PROVE  s \in Bijection(1..Cardinality(S), S)
<1> DEFINE n == Cardinality(S)
<1>1. n \in Nat
  BY FS_CardinalityType
<1>2. \A m \in 1..n : \E p \in S : RankOf(S, before, p) = m - 1
  BY RanksAreTaken
<1>3. \A m \in 1..n : s[m] \in S /\ RankOf(S, before, s[m]) = m - 1
  BY <1>2
<1>4. s \in [1..n -> S]
  BY <1>3
<1>5. \A m, k \in 1..n : s[m] = s[k] => m = k
  <2> TAKE m, k \in 1..n
  <2> HAVE s[m] = s[k]
  <2>1. m - 1 = k - 1
    BY <1>3
  <2> QED BY <2>1, <1>1
<1>6. \A p \in S : \E m \in 1..n : s[m] = p
  <2> TAKE p \in S
  <2>1. RankOf(S, before, p) \in 0..n - 1
    BY RanksTellApart
  <2>2. PICK m \in 1..n : m - 1 = RankOf(S, before, p)
    <3>1. RankOf(S, before, p) + 1 \in 1..n
      BY <1>1, <2>1
    <3>2. (RankOf(S, before, p) + 1) - 1 = RankOf(S, before, p)
      BY <2>1
    <3> QED BY <3>1, <3>2
  <2>3. s[m] = p
    BY <1>3, <2>2, RanksTellApart
  <2> QED BY <2>3
<1> QED BY <1>4, <1>5, <1>6 DEF Bijection, Injection, Surjection, IsInjective

\* Pages of the corpus are ordered by their hashes.
HashPairs(S) == {pair \in S \X S : Before(pair[1], pair[2])}

LEMMA HashesOrder ==
  ASSUME NEW S, S \subseteq ToSet(Corpus)
  PROVE  /\ Orders(S, HashPairs(S))
         /\ \A p \in S : RankOf(S, HashPairs(S), p) = RankIn(p, S)
<1>1. \A p \in S : p \in DOMAIN HashOrder
  BY SuiteAssumption
<1>2. \A p \in S : HashOrder[p] \in Nat
  BY <1>1, SuiteAssumption
<1>3. \A p, q \in S : <<p, q>> \in HashPairs(S) <=> HashOrder[p] < HashOrder[q]
  BY DEF HashPairs, Before
<1>4. \A p, q \in S : p # q => HashOrder[p] # HashOrder[q]
  BY <1>1, SuiteAssumption DEF IsInjective
<1>5. Orders(S, HashPairs(S))
  BY <1>2, <1>3, <1>4 DEF Orders
<1>6. ASSUME NEW p \in S PROVE RankOf(S, HashPairs(S), p) = RankIn(p, S)
  <2>1. {q \in S : <<q, p>> \in HashPairs(S)} = {q \in S : Before(q, p)}
    BY <1>3 DEF Before
  <2> QED BY <2>1 DEF RankOf, RankIn
<1> QED BY <1>5, <1>6

\* The pages take turns in a strict order: those of one rank by their groups.
TurnPairs(S, GroupOf) == {pair \in S \X S : TakesTurnBefore(pair[1], pair[2], S, GroupOf)}

LEMMA TurnsOrder ==
  ASSUME NEW S, S \subseteq ToSet(Corpus), IsFiniteSet(S), NEW GroupOf,
         \A p \in S : GroupOf[p] \in DOMAIN HashOrder
  PROVE  Orders(S, TurnPairs(S, GroupOf))
<1> DEFINE Group(p) == {q \in S : GroupOf[q] = GroupOf[p]}
           rank == [p \in S |-> RankIn(p, Group(p))]
           hash == [p \in S |-> HashOrder[GroupOf[p]]]
<1>1. \A p \in S : hash[p] \in Nat
  BY SuiteAssumption
<1>2. ASSUME NEW p \in S
      PROVE  /\ rank[p] \in Nat
             /\ \A q \in S : GroupOf[p] = GroupOf[q] /\ rank[p] = rank[q] => p = q
  <2>1. Group(p) \subseteq S /\ p \in Group(p)
    OBVIOUS
  <2>2. PICK G : G = Group(p)
    OBVIOUS
  <2>3. IsFiniteSet(G) /\ Cardinality(G) \in Nat /\ G \subseteq ToSet(Corpus)
    BY <2>1, <2>2, FS_Subset, FS_CardinalityType
  <2>4. Orders(G, HashPairs(G)) /\ \A q \in G : RankOf(G, HashPairs(G), q) = RankIn(q, G)
    BY <2>3, HashesOrder
  <2>5. /\ \A q \in G : RankOf(G, HashPairs(G), q) \in 0..Cardinality(G) - 1
        /\ \A q, r \in G :
             RankOf(G, HashPairs(G), q) = RankOf(G, HashPairs(G), r) => q = r
    BY <2>3, <2>4, RanksTellApart
  <2>6. \A q \in S : GroupOf[p] = GroupOf[q] => q \in G /\ rank[q] = RankIn(q, G)
    <3> TAKE q \in S
    <3> HAVE GroupOf[p] = GroupOf[q]
    <3>1. Group(q) = Group(p)
      OBVIOUS
    <3> QED BY <3>1, <2>2
  <2>7. rank[p] = RankOf(G, HashPairs(G), p) /\ p \in G
    BY <2>1, <2>2, <2>4, <2>6
  <2>8. rank[p] \in Nat
    BY <2>3, <2>5, <2>7
  <2>9. ASSUME NEW q \in S, GroupOf[p] = GroupOf[q], rank[p] = rank[q] PROVE p = q
    <3>1. q \in G /\ rank[q] = RankOf(G, HashPairs(G), q)
      BY <2>4, <2>6, <2>9
    <3> QED BY <3>1, <2>5, <2>7, <2>9
  <2> QED BY <2>8, <2>9
<1>3. ASSUME NEW p \in S, NEW q \in S
      PROVE  <<p, q>> \in TurnPairs(S, GroupOf)
               <=> (rank[p] < rank[q] \/ (rank[p] = rank[q] /\ hash[p] < hash[q]))
  BY DEF TurnPairs, TakesTurnBefore, Before
<1>4. ASSUME NEW p \in S, NEW q \in S, hash[p] = hash[q] PROVE GroupOf[p] = GroupOf[q]
  BY <1>4, SuiteAssumption DEF IsInjective
<1> HIDE DEF rank, hash
<1>5. \A p \in S : <<p, p>> \notin TurnPairs(S, GroupOf)
  BY <1>1, <1>2, <1>3
<1>6. ASSUME NEW p \in S, NEW q \in S, NEW r \in S,
             <<p, q>> \in TurnPairs(S, GroupOf), <<q, r>> \in TurnPairs(S, GroupOf)
      PROVE  <<p, r>> \in TurnPairs(S, GroupOf)
  <2>1. /\ rank[p] \in Nat /\ rank[q] \in Nat /\ rank[r] \in Nat
        /\ hash[p] \in Nat /\ hash[q] \in Nat /\ hash[r] \in Nat
    BY <1>1, <1>2
  <2>2. /\ rank[p] < rank[q] \/ (rank[p] = rank[q] /\ hash[p] < hash[q])
        /\ rank[q] < rank[r] \/ (rank[q] = rank[r] /\ hash[q] < hash[r])
    BY <1>3, <1>6
  <2>3. rank[p] < rank[r] \/ (rank[p] = rank[r] /\ hash[p] < hash[r])
    BY <2>1, <2>2
  <2> QED BY <1>3, <2>3
<1>7. ASSUME NEW p \in S, NEW q \in S, p # q
      PROVE  <<p, q>> \in TurnPairs(S, GroupOf) \/ <<q, p>> \in TurnPairs(S, GroupOf)
  <2>1. /\ rank[p] \in Nat /\ rank[q] \in Nat
        /\ hash[p] \in Nat /\ hash[q] \in Nat
    BY <1>1, <1>2
  <2>2. ~(rank[p] = rank[q] /\ hash[p] = hash[q])
    BY <1>2, <1>4, <1>7
  <2> QED BY <1>3, <2>1, <2>2
<1> QED BY <1>5, <1>6, <1>7 DEF Orders

\* Taking turns, each page has its turn once.
LEMMA EachPageHasItsTurn ==
  ASSUME NEW S, S \subseteq ToSet(Corpus), IsFiniteSet(S), NEW GroupOf,
         \A p \in S : GroupOf[p] \in DOMAIN HashOrder
  PROVE  InTurns(S, GroupOf) \in Bijection(1..Cardinality(S), S)
<1>1. PICK before : before = TurnPairs(S, GroupOf)
  OBVIOUS
<1>2. Orders(S, before)
  BY <1>1, TurnsOrder
<1>3. \A p \in S : {q \in S : TakesTurnBefore(q, p, S, GroupOf)} = {q \in S : <<q, p>> \in before}
  BY <1>1 DEF TurnPairs
<1>4. \A p \in S : Cardinality({q \in S : TakesTurnBefore(q, p, S, GroupOf)}) = RankOf(S, before, p)
  BY <1>3 DEF RankOf
<1>5. PICK s : s = [n \in 1..Cardinality(S) |-> CHOOSE p \in S : RankOf(S, before, p) = n - 1]
  OBVIOUS
<1>6. s \in Bijection(1..Cardinality(S), S)
  BY <1>2, <1>5, ListingByRank
<1>7. InTurns(S, GroupOf) = s
  BY <1>4, <1>5 DEF InTurns, Sorted
<1> QED BY <1>6, <1>7


\* The corpus, and every sample of it, has each of its pages once.
LEMMA CorpusFits ==
  /\ Len(Corpus) \in Nat
  /\ Corpus \in Bijection(1..Len(Corpus), ToSet(Corpus))
  /\ IsFiniteSet(ToSet(Corpus)) /\ Cardinality(ToSet(Corpus)) = Len(Corpus)
<1>1. Len(Corpus) \in Nat /\ Corpus \in [1..Len(Corpus) -> ToSet(Corpus)]
  BY SuiteAssumption
<1>2. Corpus \in Bijection(1..Len(Corpus), ToSet(Corpus))
  BY <1>1, SuiteAssumption DEF Bijection, Injection, Surjection, ToSet
<1>3. IsFiniteSet(1..Len(Corpus)) /\ Cardinality(1..Len(Corpus)) = Len(Corpus)
  BY <1>1, FS_Interval
<1>4. ExistsBijection(1..Len(Corpus), ToSet(Corpus))
  BY <1>2 DEF ExistsBijection
<1> QED BY <1>1, <1>2, <1>3, <1>4, FS_Bijection

\* A sequence with each of its elements once.
Once(s) == DOMAIN s = 1..Len(s) /\ Len(s) \in Nat /\ IsInjective(s)

LEMMA OnceCounts ==
  ASSUME NEW s, Once(s)
  PROVE  IsFiniteSet(ToSet(s)) /\ Cardinality(ToSet(s)) = Len(s)
<1> DEFINE f == [i \in 1..Len(s) |-> s[i]]
<1>1. f \in Bijection(1..Len(s), ToSet(s))
  BY DEF Once, Bijection, Injection, Surjection, ToSet, IsInjective
<1>2. IsFiniteSet(1..Len(s)) /\ Cardinality(1..Len(s)) = Len(s)
  <2>1. PICK n \in Nat : n = Len(s)
    BY DEF Once
  <2>2. IsFiniteSet(1..n) /\ Cardinality(1..n) = n
    <3>1. IsFiniteSet(1..n) /\ Cardinality(1..n) = IF 1 > n THEN 0 ELSE n - 1 + 1
      BY FS_Interval
    <3> QED BY <3>1
  <2> QED BY <2>1, <2>2
<1>3. ExistsBijection(1..Len(s), ToSet(s))
  BY <1>1 DEF ExistsBijection
<1> QED BY <1>2, <1>3, FS_Bijection

\* A listing is a sequence with each of its elements once.
LEMMA ListingIsOnce ==
  ASSUME NEW n \in Nat, NEW S, NEW s, s \in Bijection(1..n, S)
  PROVE  s \in Seq(S) /\ Once(s) /\ Len(s) = n /\ ToSet(s) = S
<1>1. s \in [1..n -> S] /\ IsInjective(s) /\ \A p \in S : \E i \in 1..n : s[i] = p
  BY DEF Bijection, Injection, Surjection
<1>2. s \in Seq(S)
  BY <1>1, SeqDef
<1>3. Len(s) = n
  BY <1>1, <1>2
<1> QED BY <1>1, <1>2, <1>3 DEF Once, ToSet

LEMMA SampleFits ==
  ASSUME NEW size \in 1..Len(Corpus), NEW sample, sample = SelectStratifiedSample(size)
  PROVE  /\ sample \in Seq(ToSet(Corpus)) /\ Once(sample)
         /\ Len(sample) = size /\ ToSet(sample) \subseteq ToSet(Corpus)
<1>1. CASE size >= Len(Corpus)
  <2>1. sample = Corpus /\ size = Len(Corpus)
    BY <1>1, CorpusFits DEF SelectStratifiedSample
  <2> QED BY <2>1, CorpusFits, ListingIsOnce
<1>2. CASE ~(size >= Len(Corpus))
  <2> DEFINE turns == InTurns(ToSet(Corpus), BucketOf)
             place(p) == OriginalOrder(p)
  <2>1. turns \in Bijection(1..Len(Corpus), ToSet(Corpus))
    BY CorpusFits, EachPageHasItsTurn, SuiteAssumption
  <2>2. PICK chosen : chosen = {turns[n] : n \in 1..size}
    OBVIOUS
  <2>3. 1..size \subseteq 1..Len(Corpus)
    BY CorpusFits
  <2>4. \A n \in 1..size : turns[n] \in ToSet(Corpus)
    BY <2>1, <2>3 DEF Bijection, Injection
  <2>5. \A n, m \in 1..size : turns[n] = turns[m] => n = m
    BY <2>1, <2>3 DEF Bijection, Injection, IsInjective
  <2>6. chosen \subseteq ToSet(Corpus)
    BY <2>2, <2>4
  <2>7. IsFiniteSet(chosen) /\ Cardinality(chosen) = size
    <3> DEFINE f == [n \in 1..size |-> turns[n]]
    <3> HIDE DEF turns
    <3>1. f \in Bijection(1..size, chosen)
      BY <2>2, <2>5 DEF Bijection, Injection, Surjection, IsInjective
    <3>2. IsFiniteSet(1..size) /\ Cardinality(1..size) = size
      BY CorpusFits, FS_Interval
    <3>3. ExistsBijection(1..size, chosen)
      BY <3>1 DEF ExistsBijection
    <3> QED BY <3>2, <3>3, FS_Bijection
  <2>8. \A p \in chosen : place(p) \in 1..Len(Corpus) /\ Corpus[place(p)] = p
    BY <2>6, CorpusFits DEF OriginalOrder, Bijection, Injection, ToSet
  <2>9. PICK before : before = {pair \in chosen \X chosen : place(pair[1]) < place(pair[2])}
    OBVIOUS
  <2>10. \A p, q \in chosen : <<p, q>> \in before <=> place(p) < place(q)
    BY <2>9
  <2>11. Orders(chosen, before)
    <3> HIDE DEF place
    <3>1. \A p \in chosen : place(p) \in Nat
      BY <2>8, CorpusFits
    <3>2. \A p, q \in chosen : place(p) = place(q) => p = q
      BY <2>8
    <3> QED BY <3>1, <3>2, <2>10 DEF Orders
  <2>12. \A p \in chosen : {q \in chosen : OriginalOrder(q) < OriginalOrder(p)}
                             = {q \in chosen : <<q, p>> \in before}
    BY <2>10
  <2>13. \A p \in chosen : Cardinality({q \in chosen : OriginalOrder(q) < OriginalOrder(p)})
                             = RankOf(chosen, before, p)
    BY <2>12 DEF RankOf
  <2>14. sample = Sorted(chosen, LAMBDA p, q : OriginalOrder(p) < OriginalOrder(q))
    BY <1>2, <2>2 DEF SelectStratifiedSample
  <2>15. sample = [n \in 1..Cardinality(chosen) |->
                     CHOOSE p \in chosen : RankOf(chosen, before, p) = n - 1]
    BY <2>13, <2>14 DEF Sorted
  <2>16. sample \in Bijection(1..size, chosen)
    BY <2>7, <2>11, <2>15, ListingByRank
  <2>17. size \in Nat
    BY CorpusFits
  <2>18. sample \in Seq(chosen) /\ Once(sample) /\ Len(sample) = size /\ ToSet(sample) = chosen
    BY <2>16, <2>17, ListingIsOnce
  <2>19. sample \in Seq(ToSet(Corpus))
    <3>1. sample \in [1..size -> ToSet(Corpus)]
      BY <2>6, <2>16 DEF Bijection, Injection
    <3> QED BY <3>1, <2>17, SeqDef
  <2> QED BY <2>6, <2>18, <2>19
<1> QED BY <1>1, <1>2


LEMMA Multiples ==
  ASSUME NEW a \in Int, NEW b \in Int, NEW k \in Nat \ {0}
  PROVE  /\ k * a \in Int
         /\ k * (a + 1) = k * a + k
         /\ a < b => k * a + k <= k * b
         /\ a >= 0 => k * a >= 0
OBVIOUS

LEMMA Division ==
  ASSUME NEW n \in Nat, NEW k \in Nat \ {0}
  PROVE  \E c \in Nat : c = n \div k /\ k * c <= n /\ n < k * c + k
<1>1. PICK c \in Int : c = n \div k
  OBVIOUS
<1>2. k * c <= n /\ n < k * c + k
  BY <1>1
<1>3. c >= 0
  BY <1>1
<1> QED BY <1>1, <1>2, <1>3

\* The places of a shard in the sample.
PlacesOf(shards, own, n) == {j \in 1..n : \E i \in Nat : j = own + shards * i}

\* A place belongs to one shard only, and to some.
LEMMA EachPlaceHasItsShard ==
  ASSUME NEW n \in Nat, NEW shards \in Nat \ {0}, NEW j \in 1..n
  PROVE  /\ \E own \in 1..shards : j \in PlacesOf(shards, own, n)
         /\ \A own, other \in 1..shards :
              j \in PlacesOf(shards, own, n) /\ j \in PlacesOf(shards, other, n) => own = other
<1>1. PICK c \in Nat : shards * c <= j - 1 /\ j - 1 < shards * c + shards
  <2>1. j - 1 \in Nat
    OBVIOUS
  <2> QED BY <2>1, Division
<1>2. PICK m \in Int : m = shards * c
  BY Multiples
<1>3. PICK own \in 1..shards : j = own + m
  <2>1. j - m \in 1..shards /\ j = (j - m) + m
    BY <1>1, <1>2
  <2> QED BY <2>1
<1>4. j \in PlacesOf(shards, own, n)
  BY <1>2, <1>3 DEF PlacesOf
<1>5. ASSUME NEW first \in 1..shards, NEW other \in 1..shards, NEW a \in Nat, NEW b \in Nat,
             j = first + shards * a, j = other + shards * b
      PROVE  ~(a < b)
  <2>1. PICK x \in Int, y \in Int : x = shards * a /\ y = shards * b
    BY Multiples
  <2>2. a < b => x + shards <= y
    BY <2>1, Multiples
  <2>3. j = first + x /\ j = other + y
    BY <1>5, <2>1
  <2> QED BY <2>2, <2>3
<1>6. ASSUME NEW first \in 1..shards, NEW other \in 1..shards,
             j \in PlacesOf(shards, first, n), j \in PlacesOf(shards, other, n)
      PROVE  first = other
  <2>1. PICK a \in Nat, b \in Nat : j = first + shards * a /\ j = other + shards * b
    BY <1>6 DEF PlacesOf
  <2>2. ~(a < b) /\ ~(b < a)
    BY <2>1, <1>5
  <2>3. a = b
    BY <2>2
  <2>4. PICK x \in Int : x = shards * a
    BY Multiples
  <2>5. j = first + x /\ j = other + x
    BY <2>1, <2>3, <2>4
  <2> QED BY <2>5
<1> QED BY <1>4, <1>6

\* The part of the pages that is at the places of a shard.
IsPartOf(part, listed, shards, own) ==
  \A p : p \in ToSet(part) <=> \E j \in PlacesOf(shards, own, Len(listed)) : p = listed[j]

\* A shard has the pages at its places, each once.
LEMMA ShardFits ==
  ASSUME NEW S, NEW listed \in Seq(S), Once(listed),
         NEW shards \in Nat \ {0}, NEW own \in 1..shards,
         NEW part, part = SelectShardPages(listed, shards, own)
  PROVE  /\ part \in Seq(S) /\ Once(part)
         /\ IsPartOf(part, listed, shards, own)
<1>1. PICK n \in Nat : n = Len(listed)
  OBVIOUS
<1>2. n - own + shards \in Nat
  OBVIOUS
<1>3. PICK count \in Nat : /\ count = (n - own + shards) \div shards
                           /\ shards * count <= n - own + shards
                           /\ n - own + shards < shards * count + shards
  BY <1>2, Division
<1>4. part = [i \in 1..count |-> listed[own + (i - 1) * shards]]
  BY <1>1, <1>3 DEF SelectShardPages
<1> DEFINE at(i) == own + (i - 1) * shards
<1>5. ASSUME NEW i \in 1..count PROVE at(i) \in 1..n /\ i - 1 \in Nat /\ at(i) = own + shards * (i - 1)
  <2>1. PICK x \in Int, y \in Int : x = shards * (i - 1) /\ y = shards * (count - 1)
    BY Multiples
  <2>2. x >= 0
    BY <2>1, Multiples
  <2>3. x <= y
    <3>1. CASE i - 1 = count - 1
      BY <3>1, <2>1
    <3>2. CASE i - 1 < count - 1
      <4>1. x + shards <= y
        BY <3>2, <2>1, Multiples
      <4> QED BY <4>1
    <3> QED BY <3>1, <3>2
  <2>4. shards * count = y + shards
    <3>1. shards * ((count - 1) + 1) = shards * (count - 1) + shards
      BY Multiples
    <3>2. (count - 1) + 1 = count
      OBVIOUS
    <3> QED BY <3>1, <3>2, <2>1
  <2>5. y <= n - own
    BY <1>3, <2>4
  <2>6. at(i) = own + x
    BY <2>1
  <2> HIDE DEF at
  <2> QED BY <2>1, <2>2, <2>3, <2>5, <2>6
<1>6. ASSUME NEW j \in PlacesOf(shards, own, n) PROVE \E i \in 1..count : j = at(i)
  <2>1. PICK a \in Nat : j = own + shards * a
    BY DEF PlacesOf
  <2>2. j \in 1..n
    BY DEF PlacesOf
  <2>3. PICK x \in Int, y \in Int : x = shards * a /\ y = shards * count
    BY Multiples
  <2>4. a < count
    <3>1. CASE count < a
      <4>1. y + shards <= x
        BY <2>3, <3>1, Multiples
      <4>2. FALSE
        BY <1>3, <2>1, <2>2, <2>3, <4>1
      <4> QED BY <4>2
    <3>2. CASE count = a
      <4>1. x = y
        BY <2>3, <3>2
      <4>2. FALSE
        BY <1>3, <2>1, <2>2, <2>3, <4>1
      <4> QED BY <4>2
    <3> QED BY <3>1, <3>2
  <2>5. a + 1 \in 1..count /\ (a + 1) - 1 = a
    BY <2>4
  <2>6. a * shards = shards * a
    OBVIOUS
  <2>7. at(a + 1) = j
    BY <2>1, <2>5, <2>6
  <2> QED BY <2>5, <2>7
<1>7. ASSUME NEW i \in 1..count, NEW k \in 1..count, at(i) = at(k) PROVE ~(i < k)
  <2>1. PICK x \in Int, y \in Int : x = shards * (i - 1) /\ y = shards * (k - 1)
    BY Multiples
  <2>2. i - 1 < k - 1 => x + shards <= y
    BY <2>1, Multiples
  <2>3. at(i) = own + x /\ at(k) = own + y
    BY <1>5, <2>1
  <2>4. x = y
    BY <2>3, <1>7
  <2> QED BY <2>2, <2>4
<1> HIDE DEF at
<1>8. \A i \in 1..count : part[i] = listed[at(i)] /\ at(i) \in 1..n
  BY <1>4, <1>5 DEF at
<1>9. DOMAIN part = 1..count
  BY <1>4
<1>10. \A j, k \in 1..n : listed[j] = listed[k] => j = k
  BY <1>1 DEF Once, IsInjective
<1>11. \A j \in 1..n : listed[j] \in S
  BY <1>1
<1>12. \A i, k \in 1..count : part[i] = part[k] => i = k
  <2> TAKE i, k \in 1..count
  <2> HAVE part[i] = part[k]
  <2>1. at(i) = at(k)
    BY <1>8, <1>10
  <2>2. ~(i < k) /\ ~(k < i)
    BY <1>7, <2>1
  <2> QED BY <2>2
<1>13. part \in [1..count -> S]
  BY <1>4, <1>8, <1>9, <1>11
<1>14. part \in Seq(S)
  BY <1>13, SeqDef
<1>15. Len(part) = count
  BY <1>9, <1>14
<1>16. Once(part)
  BY <1>9, <1>12, <1>15 DEF Once, IsInjective
<1>17. ASSUME NEW i \in 1..count PROVE at(i) \in PlacesOf(shards, own, n)
  BY <1>5 DEF PlacesOf
<1>18. IsPartOf(part, listed, shards, own)
  <2>1. \A p \in ToSet(part) : \E j \in PlacesOf(shards, own, n) : p = listed[j]
    BY <1>8, <1>9, <1>17 DEF ToSet
  <2>2. \A j \in PlacesOf(shards, own, n) : listed[j] \in ToSet(part)
    BY <1>6, <1>8, <1>9 DEF ToSet
  <2> QED BY <1>1, <2>1, <2>2 DEF IsPartOf
<1> QED BY <1>14, <1>16, <1>18

\* Interleaved by domain, a shard's pages are still its pages, each once.
LEMMA InterleavingFits ==
  ASSUME NEW listed \in Seq(ToSet(Corpus)), Once(listed),
         NEW order, order = InterleaveSweepPagesByDomain(listed)
  PROVE  Once(order) /\ Len(order) = Len(listed) /\ ToSet(order) = ToSet(listed)
<1>1. IsFiniteSet(ToSet(listed)) /\ Cardinality(ToSet(listed)) = Len(listed) /\ Len(listed) \in Nat
  BY OnceCounts
<1>2. ToSet(listed) \subseteq ToSet(Corpus)
  BY DEF ToSet
<1>3. CASE Len(listed) <= 2
  <2>1. order = listed
    BY <1>3 DEF InterleaveSweepPagesByDomain
  <2> QED BY <2>1
<1>4. CASE ~(Len(listed) <= 2)
  <2>1. order = InTurns(ToSet(listed), SiteDomainOf)
    BY <1>4 DEF InterleaveSweepPagesByDomain
  <2>2. \A p \in ToSet(listed) : SiteDomainOf[p] \in DOMAIN HashOrder
    BY <1>2, SuiteAssumption
  <2>3. order \in Bijection(1..Len(listed), ToSet(listed))
    BY <1>1, <1>2, <2>1, <2>2, EachPageHasItsTurn
  <2> QED BY <1>1, <2>3, ListingIsOnce
<1> QED BY <1>3, <1>4


-----------------------------------------------------------------------------
PagesOf(own) == SelectShardPages(Sample, plan.shards, own)

PlanFits ==
  /\ suite \in {"idle", "sweep", "running", "report", "merge", "merged"}
  /\ suite = "idle" => shard = 1 /\ level = 1
  /\ suite # "idle" =>
       /\ plan.size \in 1..Len(Corpus) /\ plan.shards \in 1..MaxShards
       /\ shard \in 1..plan.shards /\ level \in 1..Len(Levels)

Busy(w) == workers[w] # IdleWorker

\* What was taken is at one worker or has its outcome.
WorkFits ==
  suite = "running" =>
    /\ taken \in 0..Len(ShardPages)
    /\ DOMAIN tally \subseteq 1..taken
    /\ \A w \in DOMAIN workers :
         Busy(w) => /\ "index" \in DOMAIN workers[w]
                    /\ workers[w].index \in 1..taken
                    /\ workers[w].index \notin DOMAIN tally
    /\ \A v, w \in DOMAIN workers :
         Busy(v) /\ Busy(w) /\ workers[v].index = workers[w].index => v = w
    /\ \A i \in 1..taken :
         i \in DOMAIN tally \/ \E w \in DOMAIN workers : Busy(w) /\ workers[w].index = i

\* A sweep was finished at each level before the current one, over all pages.
SweepsFit ==
  /\ \E S : sweeps \in Seq(S)
  /\ suite \in {"sweep", "running"} => Len(sweeps) = level - 1
  /\ suite = "report" => Len(sweeps) = level
  /\ suite \in {"idle", "merge", "merged"} => Len(sweeps) = 0 /\ attempts = {}
  /\ \A i \in 1..Len(sweeps) :
       sweeps[i].concurrency = Levels[i] /\ sweeps[i].attemptCount = Len(ShardPages)

\* An attempt is told by its page and its concurrency.
ToldApart(run) ==
  \A a, b \in run : a.page = b.page /\ a.concurrency = b.concurrency => a = b

Covers(run, concurrency, listed) ==
  \A p \in ToSet(listed) : \E a \in run : a.page = p /\ a.concurrency = concurrency

AttemptsFit ==
  /\ ToldApart(attempts)
  /\ \A a \in attempts : a.page \in ToSet(ShardPages)
                         /\ \E i \in 1..Len(sweeps) : a.concurrency = Levels[i]
  /\ \A i \in 1..Len(sweeps) : Covers(attempts, Levels[i], ShardPages)

\* The attempts of an artifact: at the first level, one of each page.
Reports(artifact, listed) ==
  /\ ToldApart(artifact.attempts)
  /\ \A a \in artifact.attempts : a.page \in ToSet(listed)
  /\ Covers(artifact.attempts, Levels[1], listed)

ArtifactsFit ==
  /\ \E S : artifacts \in Seq(S)
  /\ suite = "idle" => Len(artifacts) = 0
  /\ suite \in {"sweep", "running", "report"} => Len(artifacts) = shard - 1
  /\ suite = "merge" => Len(artifacts) = plan.shards
  /\ suite # "idle" =>
       \A i \in 1..Len(artifacts) : i <= plan.shards => Reports(artifacts[i], PagesOf(i))
  /\ suite = "merged" =>
       Len(artifacts) = plan.shards + 1 /\ Reports(artifacts[Len(artifacts)], Sample)

SuiteIInv == PlanFits /\ WorkFits /\ SweepsFit /\ AttemptsFit /\ ArtifactsFit

-----------------------------------------------------------------------------
\* The sample and the shards follow from the plan.
LEMMA PlannedPages ==
  ASSUME PlanFits, suite # "idle"
  PROVE  /\ Sample \in Seq(ToSet(Corpus)) /\ Once(Sample) /\ Len(Sample) = plan.size
         /\ plan.shards \in Nat \ {0}
         /\ \A own \in 1..plan.shards :
              /\ PagesOf(own) \in Seq(ToSet(Corpus)) /\ Once(PagesOf(own))
              /\ IsPartOf(PagesOf(own), Sample, plan.shards, own)
         /\ ShardPages = PagesOf(shard) /\ shard \in 1..plan.shards
<1>1. PICK size \in 1..Len(Corpus) : size = plan.size
  BY DEF PlanFits
<1>2. PICK sample : sample = Sample
  OBVIOUS
<1>3. sample \in Seq(ToSet(Corpus)) /\ Once(sample) /\ Len(sample) = size
  BY <1>1, <1>2, SampleFits DEF Sample
<1>4. plan.shards \in Nat \ {0}
  <2>1. MaxShards \in Nat /\ plan.shards \in 1..MaxShards
    BY SuiteAssumption DEF PlanFits
  <2> QED BY <2>1
<1>5. ASSUME NEW own \in 1..plan.shards
      PROVE  /\ PagesOf(own) \in Seq(ToSet(Corpus)) /\ Once(PagesOf(own))
             /\ IsPartOf(PagesOf(own), Sample, plan.shards, own)
  <2>1. PICK shards \in Nat \ {0} : shards = plan.shards
    BY <1>4
  <2>2. own \in 1..shards
    BY <2>1
  <2>3. PICK part : part = SelectShardPages(sample, shards, own)
    OBVIOUS
  <2>4. PICK listed : listed = ToSet(Corpus)
    OBVIOUS
  <2>5. sample \in Seq(listed) /\ Once(sample) /\ shards \in Nat \ {0}
    BY <1>3, <2>1, <2>4
  <2>7. part \in Seq(listed) /\ Once(part) /\ IsPartOf(part, sample, shards, own)
    BY <2>2, <2>3, <2>5, ShardFits
  <2>6. part = PagesOf(own)
    BY <1>2, <2>1, <2>3 DEF PagesOf
  <2> QED BY <1>1, <1>2, <1>3, <2>1, <2>4, <2>6, <2>7
<1>6. ShardPages = PagesOf(shard) /\ shard \in 1..plan.shards
  BY DEF ShardPages, PagesOf, PlanFits
<1> QED BY <1>1, <1>2, <1>3, <1>4, <1>5, <1>6

LEMMA PagesStay ==
  ASSUME plan' = plan
  PROVE  /\ Sample' = Sample
         /\ shard' = shard => ShardPages' = ShardPages
         /\ \A own : PagesOf(own)' = PagesOf(own)
<1>1. Sample' = Sample
  BY DEF Sample
<1>2. shard' = shard => ShardPages' = ShardPages
  BY <1>1 DEF ShardPages
<1>3. \A own : PagesOf(own)' = PagesOf(own)
  BY <1>1 DEF PagesOf
<1> QED BY <1>1, <1>2, <1>3

\* The sweeps, attempts and artifacts of a step that only works on pages stay as they fit.
LEMMA BooksStay ==
  ASSUME SuiteIInv, suite # "idle", suite \in {"sweep", "running"}, suite' = "running",
         UNCHANGED <<plan, shard, level, sweeps, attempts, artifacts>>
  PROVE  PlanFits' /\ SweepsFit' /\ AttemptsFit' /\ ArtifactsFit'
<1>1. Sample' = Sample /\ ShardPages' = ShardPages /\ \A i : PagesOf(i)' = PagesOf(i)
  BY PagesStay
<1>2. PlanFits'
  BY DEF SuiteIInv, PlanFits
<1>3. SweepsFit'
  BY <1>1 DEF SuiteIInv, SweepsFit
<1>4. AttemptsFit'
  BY <1>1 DEF SuiteIInv, AttemptsFit, Covers, ToldApart
<1>5. ArtifactsFit'
  BY <1>1 DEF SuiteIInv, ArtifactsFit, Reports, Covers, ToldApart
<1> QED BY <1>2, <1>3, <1>4, <1>5


LEMMA SuiteStarts ==
  ASSUME SuiteInit
  PROVE  SuiteIInv
<1>1. PlanFits /\ WorkFits
  BY DEF SuiteInit, PlanFits, WorkFits
<1>2. sweeps \in Seq({}) /\ artifacts \in Seq({}) /\ Len(sweeps) = 0 /\ Len(artifacts) = 0
  BY DEF SuiteInit
<1>3. SweepsFit /\ ArtifactsFit
  BY <1>2 DEF SuiteInit, SweepsFit, ArtifactsFit
<1>4. AttemptsFit
  BY <1>2 DEF SuiteInit, AttemptsFit, ToldApart
<1> QED BY <1>1, <1>3, <1>4 DEF SuiteIInv

LEMMA SelectPagesFits ==
  ASSUME SuiteIInv, NEW size \in 1..Len(Corpus), NEW shards \in 1..MaxShards,
         SelectPages(size, shards)
  PROVE  SuiteIInv'
<1>1. PlanFits'
  BY SuiteAssumption DEF SelectPages, SuiteIInv, PlanFits
<1>2. WorkFits'
  BY DEF SelectPages, WorkFits
<1>3. Len(sweeps) = 0 /\ Len(artifacts) = 0 /\ attempts = {} /\ shard = 1 /\ level = 1
  BY DEF SelectPages, SuiteIInv, PlanFits, SweepsFit, ArtifactsFit
<1>4. SweepsFit'
  BY <1>3 DEF SelectPages, SuiteIInv, SweepsFit
<1>5. AttemptsFit'
  BY <1>3 DEF SelectPages, AttemptsFit, ToldApart
<1>6. ArtifactsFit'
  BY <1>3 DEF SelectPages, SuiteIInv, ArtifactsFit
<1> QED BY <1>1, <1>2, <1>4, <1>5, <1>6 DEF SuiteIInv

\* A shard's pages and their number, in a step within the shard.
LEMMA PagesAtWork ==
  ASSUME SuiteIInv, suite # "idle", UNCHANGED <<plan, shard>>
  PROVE  /\ Len(ShardPages) \in Nat /\ ShardPages' = ShardPages
         /\ Len(ShardPages)' = Len(ShardPages)
<1>1. ShardPages \in Seq(ToSet(Corpus))
  BY PlannedPages DEF SuiteIInv
<1> QED BY <1>1, PagesStay

LEMMA StartSweepFits ==
  ASSUME SuiteIInv, StartSweep
  PROVE  SuiteIInv'
<1>1. PlanFits' /\ SweepsFit' /\ AttemptsFit' /\ ArtifactsFit'
  BY BooksStay DEF StartSweep
<1>2. Len(ShardPages) \in Nat /\ Len(ShardPages)' = Len(ShardPages)
  BY PagesAtWork DEF StartSweep
<1>3. \A w \in DOMAIN workers' : ~Busy(w)'
  BY DEF StartSweep, Busy
<1>4. taken' = 0 /\ DOMAIN tally' = {}
  BY DEF StartSweep
<1>5. WorkFits'
  BY <1>2, <1>3, <1>4 DEF WorkFits
<1> QED BY <1>1, <1>5 DEF SuiteIInv

LEMMA TakePageFits ==
  ASSUME SuiteIInv, NEW w \in DOMAIN workers, NEW order, TakePage(w, order)
  PROVE  SuiteIInv'
<1>1. PlanFits' /\ SweepsFit' /\ AttemptsFit' /\ ArtifactsFit'
  BY BooksStay DEF TakePage
<1>2. Len(ShardPages) \in Nat /\ Len(ShardPages)' = Len(ShardPages)
  BY PagesAtWork DEF TakePage
<1>3. PICK n \in Nat, t \in Nat : n = Len(ShardPages) /\ t = taken /\ t < n
  BY <1>2 DEF TakePage, SuiteIInv, WorkFits
<1>4. /\ taken' = t + 1 /\ tally' = tally /\ suite' = "running" /\ ~Busy(w)
      /\ DOMAIN workers' = DOMAIN workers
      /\ workers'[w] = [index |-> t + 1, left |-> order]
      /\ \A v \in DOMAIN workers : v # w => workers'[v] = workers[v]
  BY <1>3 DEF TakePage, Occupy, Busy
<1>5. "index" \in DOMAIN workers'[w] /\ workers'[w].index = t + 1 /\ Busy(w)'
  BY <1>4 DEF Busy, IdleWorker
<1>6. \A v \in DOMAIN workers : v # w => (Busy(v)' <=> Busy(v))
  BY <1>4 DEF Busy
<1>7. /\ DOMAIN tally \subseteq 1..t
      /\ \A v \in DOMAIN workers :
           Busy(v) => /\ "index" \in DOMAIN workers[v] /\ workers[v].index \in 1..t
                      /\ workers[v].index \notin DOMAIN tally
      /\ \A u, v \in DOMAIN workers :
           Busy(u) /\ Busy(v) /\ workers[u].index = workers[v].index => u = v
      /\ \A i \in 1..t :
           i \in DOMAIN tally \/ \E v \in DOMAIN workers : Busy(v) /\ workers[v].index = i
  BY <1>3 DEF TakePage, SuiteIInv, WorkFits
<1>8. taken' \in 0..Len(ShardPages)' /\ DOMAIN tally' \subseteq 1..taken'
  BY <1>2, <1>3, <1>4, <1>7
<1>9. ASSUME NEW v \in DOMAIN workers', Busy(v)'
      PROVE  /\ "index" \in DOMAIN workers'[v] /\ workers'[v].index \in 1..taken'
             /\ workers'[v].index \notin DOMAIN tally'
  BY <1>4, <1>5, <1>6, <1>7, <1>9
<1>10. ASSUME NEW u \in DOMAIN workers', NEW v \in DOMAIN workers', Busy(u)', Busy(v)',
              workers'[u].index = workers'[v].index
       PROVE  u = v
  BY <1>4, <1>5, <1>6, <1>7, <1>10
<1>11. ASSUME NEW i \in 1..taken'
       PROVE  i \in DOMAIN tally' \/ \E v \in DOMAIN workers' : Busy(v)' /\ workers'[v].index = i
  <2>1. CASE i = t + 1
    BY <2>1, <1>4, <1>5
  <2>2. CASE i # t + 1
    <3>1. i \in 1..t
      BY <2>2, <1>4
    <3>2. CASE i \in DOMAIN tally
      BY <3>2, <1>4
    <3>3. ASSUME NEW v \in DOMAIN workers, Busy(v), workers[v].index = i
          PROVE  Busy(v)' /\ workers'[v].index = i /\ v \in DOMAIN workers'
      BY <3>3, <1>4, <1>6
    <3> QED BY <3>1, <3>2, <3>3, <1>7
  <2> QED BY <2>1, <2>2
<1>12. WorkFits'
  BY <1>8, <1>9, <1>10, <1>11 DEF WorkFits
<1> QED BY <1>1, <1>12 DEF SuiteIInv

LEMMA ExecuteVariantFits ==
  ASSUME SuiteIInv, NEW w \in DOMAIN workers, NEW outcome, ExecuteVariant(w, outcome)
  PROVE  SuiteIInv'
<1>1. PlanFits' /\ SweepsFit' /\ AttemptsFit' /\ ArtifactsFit'
  BY BooksStay DEF ExecuteVariant
<1>2. Len(ShardPages) \in Nat /\ Len(ShardPages)' = Len(ShardPages)
  BY PagesAtWork DEF ExecuteVariant
<1>3. PICK t : t = taken /\ t \in 0..Len(ShardPages)
  BY <1>2 DEF ExecuteVariant, SuiteIInv, WorkFits
<1>4. /\ DOMAIN tally \subseteq 1..t
      /\ \A v \in DOMAIN workers :
           Busy(v) => /\ "index" \in DOMAIN workers[v] /\ workers[v].index \in 1..t
                      /\ workers[v].index \notin DOMAIN tally
      /\ \A u, v \in DOMAIN workers :
           Busy(u) /\ Busy(v) /\ workers[u].index = workers[v].index => u = v
      /\ \A i \in 1..t :
           i \in DOMAIN tally \/ \E v \in DOMAIN workers : Busy(v) /\ workers[v].index = i
  BY <1>3 DEF ExecuteVariant, SuiteIInv, WorkFits
<1>5. taken' = t /\ suite' = "running" /\ Busy(w) /\ DOMAIN workers' = DOMAIN workers
  BY <1>3 DEF ExecuteVariant, Busy
<1>6. \A v \in DOMAIN workers : v # w => workers'[v] = workers[v] /\ (Busy(v)' <=> Busy(v))
  BY DEF ExecuteVariant, Busy
<1>7. PICK own : own = workers[w].index /\ own \in 1..t /\ own \notin DOMAIN tally
  BY <1>4, <1>5
\* The page is tried with another variant ...
<1>8. CASE tally' = tally /\ workers'[w] = [index |-> own, left |-> Tail(workers[w].left)]
  <2>1. "index" \in DOMAIN workers'[w] /\ workers'[w].index = own /\ Busy(w)'
    BY <1>4, <1>5, <1>7, <1>8 DEF Busy, IdleWorker
  <2>2. \A v \in DOMAIN workers : (Busy(v)' <=> Busy(v)) /\ (Busy(v) => workers'[v].index = workers[v].index /\ "index" \in DOMAIN workers'[v])
    BY <2>1, <1>4, <1>5, <1>6, <1>7
  <2> QED BY <2>2, <1>1, <1>2, <1>3, <1>4, <1>5, <1>8 DEF WorkFits, SuiteIInv
\* ... or has its outcome.
<1>9. CASE DOMAIN tally' = DOMAIN tally \cup {own} /\ workers'[w] = IdleWorker
  <2>1. ~Busy(w)'
    BY <1>9 DEF Busy
  <2>2. taken' \in 0..Len(ShardPages)' /\ DOMAIN tally' \subseteq 1..taken'
    BY <1>2, <1>3, <1>4, <1>5, <1>7, <1>9
  <2>3. ASSUME NEW v \in DOMAIN workers', Busy(v)'
        PROVE  /\ v # w /\ Busy(v) /\ workers'[v] = workers[v]
               /\ "index" \in DOMAIN workers'[v] /\ workers'[v].index \in 1..taken'
               /\ workers'[v].index \notin DOMAIN tally'
    <3>1. v # w /\ Busy(v) /\ workers'[v] = workers[v] /\ v \in DOMAIN workers
      BY <2>1, <2>3, <1>5, <1>6
    <3>2. workers[v].index # own
      BY <3>1, <1>4, <1>5, <1>7
    <3> QED BY <3>1, <3>2, <1>4, <1>5, <1>9
  <2>4. ASSUME NEW u \in DOMAIN workers', NEW v \in DOMAIN workers', Busy(u)', Busy(v)',
               workers'[u].index = workers'[v].index
        PROVE  u = v
    BY <2>3, <2>4, <1>4, <1>5
  <2>5. ASSUME NEW i \in 1..taken'
        PROVE  i \in DOMAIN tally' \/ \E v \in DOMAIN workers' : Busy(v)' /\ workers'[v].index = i
    <3>1. CASE i \in DOMAIN tally'
      BY <3>1
    <3>2. CASE i \notin DOMAIN tally'
      <4>1. i \in 1..t /\ i # own /\ i \notin DOMAIN tally
        BY <3>2, <1>5, <1>9
      <4>2. PICK v \in DOMAIN workers : Busy(v) /\ workers[v].index = i
        BY <4>1, <1>4
      <4>3. v # w
        BY <4>1, <4>2, <1>7
      <4> QED BY <4>2, <4>3, <1>5, <1>6
    <3> QED BY <3>1, <3>2
  <2>6. WorkFits'
    BY <2>2, <2>3, <2>4, <2>5 DEF WorkFits
  <2> QED BY <2>6, <1>1 DEF SuiteIInv
<1>10. \/ tally' = tally /\ workers'[w] = [index |-> own, left |-> Tail(workers[w].left)]
       \/ DOMAIN tally' = DOMAIN tally \cup {own} /\ workers'[w] = IdleWorker
  <2> DEFINE again == IsRetryableOutcome(outcome) /\ Len(workers[w].left) > 1
  <2> DEFINE another == [index |-> workers[w].index, left |-> Tail(workers[w].left)]
  <2>0. another = [index |-> own, left |-> Tail(workers[w].left)]
    BY <1>7
  <2>1. workers' = [workers EXCEPT ![w] = IF again THEN another ELSE IdleWorker]
    BY DEF ExecuteVariant
  <2>2. tally' = IF again THEN tally
                 ELSE [i \in DOMAIN tally \cup {own} |-> IF i = own THEN outcome ELSE tally[i]]
    <3>1. tally' = IF again THEN tally
                   ELSE [i \in DOMAIN tally \cup {workers[w].index} |->
                           IF i = workers[w].index THEN outcome ELSE tally[i]]
      BY DEF ExecuteVariant
    <3> QED BY <3>1, <1>7
  <2> HIDE DEF again, another
  <2>3. CASE again
    <3>1. tally' = tally
      BY <2>2, <2>3
    <3>2. workers'[w] = another
      BY <2>1, <2>3
    <3> QED BY <3>1, <3>2, <2>0
  <2>4. CASE ~again
    <3>1. DOMAIN tally' = DOMAIN tally \cup {own}
      BY <2>2, <2>4
    <3>2. workers'[w] = IdleWorker
      BY <2>1, <2>4
    <3> QED BY <3>1, <3>2
  <2> QED BY <2>3, <2>4
<1> QED BY <1>8, <1>9, <1>10


\* The attempts of a finished sweep.
RunOf(listed, n, here, ends) ==
  {[concurrency |-> here, page |-> listed[i], outcome |-> ends[i]] : i \in 1..n}

\* They are one of each page.
LEMMA RunCounts ==
  ASSUME NEW n \in Nat, NEW listed, Once(listed), Len(listed) = n, NEW here, NEW ends,
         NEW run, run = RunOf(listed, n, here, ends)
  PROVE  Cardinality(run) = n
<1> USE DEF RunOf
<1> DEFINE record == [i \in 1..n |-> [concurrency |-> here, page |-> listed[i], outcome |-> ends[i]]]
<1>1. ASSUME NEW i \in 1..n, NEW k \in 1..n, record[i] = record[k] PROVE i = k
  <2>1. record[i].page = listed[i] /\ record[k].page = listed[k]
    OBVIOUS
  <2>2. listed[i] = listed[k]
    BY <2>1, <1>1
  <2> QED BY <2>2 DEF Once, IsInjective
<1>2. record \in [1..n -> run]
  OBVIOUS
<1>3. \A a \in run : \E i \in 1..n : record[i] = a
  OBVIOUS
<1> HIDE DEF record
<1>4. record \in Bijection(1..n, run)
  BY <1>1, <1>2, <1>3 DEF Bijection, Injection, Surjection, IsInjective
<1>5. ExistsBijection(1..n, run)
  BY <1>4 DEF ExistsBijection
<1>6. IsFiniteSet(1..n) /\ Cardinality(1..n) = n
  BY FS_Interval
<1> QED BY <1>5, <1>6, FS_Bijection

LEMMA EndSweepFits ==
  ASSUME SuiteIInv, NEW saturated \in BOOLEAN, EndSweep(saturated)
  PROVE  SuiteIInv'
<1> USE DEF SuiteIInv
<1>1. /\ suite = "running" /\ taken = Len(ShardPages)
      /\ \A w \in DOMAIN workers : ~Busy(w)
      /\ UNCHANGED <<plan, shard, artifacts>>
  BY DEF EndSweep, CloseSweep, Busy
<1>2. /\ Len(ShardPages) \in Nat /\ ShardPages' = ShardPages
      /\ Once(ShardPages) /\ ShardPages \in Seq(ToSet(Corpus))
  BY <1>1, PagesAtWork, PlannedPages
<1>3. PICK n \in Nat : n = Len(ShardPages)
  BY <1>2
<1>4. PICK listed : listed = InterleaveSweepPagesByDomain(ShardPages)
  OBVIOUS
<1>5. Once(listed) /\ Len(listed) = n /\ ToSet(listed) = ToSet(ShardPages)
  BY <1>2, <1>3, <1>4, InterleavingFits
<1>6. \A p : p \in ToSet(ShardPages) <=> \E i \in 1..n : p = listed[i]
  BY <1>5 DEF ToSet, Once
<1>7. DOMAIN tally = 1..n
  BY <1>1, <1>3 DEF WorkFits
<1>8. PICK here : here = Levels[level]
  OBVIOUS
<1>9. PICK run : run = RunOf(listed, n, here, tally)
  OBVIOUS
<1>10. Cardinality(run) = n
  BY <1>5, <1>9, RunCounts
<1>11. PICK current : current = Summary(run, here)
  OBVIOUS
<1>12. current.concurrency = here /\ current.attemptCount = n
  BY <1>10, <1>11 DEF Summary
<1>13. /\ sweeps' = Append(sweeps, current) /\ attempts' = attempts \cup run
       /\ \/ suite' = "report" /\ level' = level
          \/ level # Len(Levels) /\ suite' = "sweep" /\ level' = level + 1
  <2> DEFINE stop == \/ level = Len(Levels)
                     \/ /\ saturated /\ sweeps # <<>> /\ current.concurrency # 1
                        /\ QualityStable(sweeps[Len(sweeps)], current)
  <2>1. run = {[concurrency |-> Levels[level],
                page |-> InterleaveSweepPagesByDomain(ShardPages)[i], outcome |-> tally[i]] :
                 i \in DOMAIN tally}
    BY <1>4, <1>7, <1>8, <1>9 DEF RunOf
  <2>2. /\ sweeps' = Append(sweeps, current) /\ attempts' = attempts \cup run
        /\ IF stop THEN suite' = "report" /\ UNCHANGED level
           ELSE suite' = "sweep" /\ level' = level + 1
    BY <2>1, <1>8, <1>11 DEF EndSweep, CloseSweep
  <2> QED BY <2>2
<1>14. level \in 1..Len(Levels) /\ Len(Levels) \in Nat
  BY <1>1, SuiteAssumption DEF PlanFits
<1>15. PlanFits'
  BY <1>1, <1>13, <1>14 DEF PlanFits
<1>16. WorkFits'
  BY <1>13 DEF WorkFits
<1>17. /\ Len(sweeps) = level - 1 /\ Len(sweeps') = level
       /\ sweeps'[level] = current /\ \A i \in 1..Len(sweeps) : sweeps'[i] = sweeps[i]
       /\ \E S : sweeps' \in Seq(S)
  <2>1. Len(sweeps) = level - 1
    BY <1>1 DEF SweepsFit
  <2>2. PICK S : sweeps \in Seq(S)
    BY DEF SweepsFit
  <2>3. PICK T : T = S \cup {current}
    OBVIOUS
  <2>4. sweeps \in Seq(T) /\ current \in T
    BY <2>2, <2>3
  <2> QED BY <2>1, <2>4, <1>13, <1>14
<1>18. SweepsFit'
  <2>1. \A i \in 1..Len(sweeps') :
          sweeps'[i].concurrency = Levels[i] /\ sweeps'[i].attemptCount = Len(ShardPages)
    <3> TAKE i \in 1..Len(sweeps')
    <3>1. CASE i = level
      BY <3>1, <1>3, <1>8, <1>12, <1>17
    <3>2. CASE i # level
      <4>1. i \in 1..Len(sweeps)
        BY <3>2, <1>14, <1>17
      <4> QED BY <4>1, <1>17 DEF SweepsFit
    <3> QED BY <3>1, <3>2
  <2>2. suite' \in {"sweep", "running"} => Len(sweeps') = level' - 1
    BY <1>13, <1>14, <1>17
  <2>3. suite' = "report" => Len(sweeps') = level'
    BY <1>13, <1>17
  <2>4. suite' \notin {"idle", "merge", "merged"}
    BY <1>13
  <2> QED BY <2>1, <2>2, <2>3, <2>4, <1>2, <1>17 DEF SweepsFit
<1>19. \A a \in run : a.concurrency = here /\ \E i \in 1..n : a.page = listed[i] /\ a.outcome = tally[i]
                      /\ a = [concurrency |-> here, page |-> listed[i], outcome |-> tally[i]]
  BY <1>9 DEF RunOf
<1>20. ToldApart(attempts')
  <2>1. ASSUME NEW a \in run, NEW b \in run, a.page = b.page PROVE a = b
    <3>1. PICK i \in 1..n : a.page = listed[i] /\ a = [concurrency |-> here, page |-> listed[i], outcome |-> tally[i]]
      BY <1>19
    <3>2. PICK k \in 1..n : b.page = listed[k] /\ b = [concurrency |-> here, page |-> listed[k], outcome |-> tally[k]]
      BY <1>19
    <3>3. i = k
      BY <3>1, <3>2, <2>1, <1>5 DEF Once, IsInjective
    <3> QED BY <3>1, <3>2, <3>3
  <2>2. ASSUME NEW a \in attempts, NEW b \in run PROVE a.concurrency # b.concurrency
    <3>1. PICK i \in 1..Len(sweeps) : a.concurrency = Levels[i]
      BY DEF AttemptsFit
    <3>2. i \in DOMAIN Levels /\ level \in DOMAIN Levels /\ i # level
      BY <1>14, <1>17, SuiteAssumption
    <3>3. Levels[i] # Levels[level]
      BY <3>2, SuiteAssumption DEF IsInjective
    <3> QED BY <3>1, <3>3, <1>8, <1>19
  <2> QED BY <2>1, <2>2, <1>13 DEF AttemptsFit, ToldApart
<1>21. \A a \in attempts' : a.page \in ToSet(ShardPages) /\ \E i \in 1..Len(sweeps') : a.concurrency = Levels[i]
  <2> TAKE a \in attempts'
  <2>1. CASE a \in attempts
    <3>1. PICK i \in 1..Len(sweeps) : a.concurrency = Levels[i]
      BY <2>1 DEF AttemptsFit
    <3>2. i \in 1..Len(sweeps')
      BY <1>14, <1>17
    <3> QED BY <2>1, <3>1, <3>2 DEF AttemptsFit
  <2>2. CASE a \in run
    <3>1. level \in 1..Len(sweeps')
      BY <1>14, <1>17
    <3> QED BY <2>2, <3>1, <1>6, <1>8, <1>19
  <2> QED BY <2>1, <2>2, <1>13
<1>22. ASSUME NEW i \in 1..Len(sweeps') PROVE Covers(attempts', Levels[i], ShardPages)
  <2>1. CASE i = level
    <3> SUFFICES ASSUME NEW p \in ToSet(ShardPages)
                 PROVE  \E a \in attempts' : a.page = p /\ a.concurrency = Levels[i]
      BY DEF Covers
    <3>1. PICK k \in 1..n : p = listed[k]
      BY <1>6
    <3>2. PICK a : a = [concurrency |-> here, page |-> listed[k], outcome |-> tally[k]]
      OBVIOUS
    <3>3. a \in attempts'
      BY <3>2, <1>9, <1>13 DEF RunOf
    <3> QED BY <2>1, <3>1, <3>2, <3>3, <1>8
  <2>2. CASE i # level
    <3>1. i \in 1..Len(sweeps)
      BY <2>2, <1>14, <1>17
    <3>2. Covers(attempts, Levels[i], ShardPages)
      BY <3>1 DEF AttemptsFit
    <3> QED BY <3>2, <1>13 DEF Covers
  <2> QED BY <2>1, <2>2
<1>23. AttemptsFit'
  BY <1>2, <1>20, <1>21, <1>22 DEF AttemptsFit, ToldApart, Covers
<1>24. ArtifactsFit'
  <2>1. Sample' = Sample /\ \A i : PagesOf(i)' = PagesOf(i)
    BY <1>1, PagesStay
  <2> QED BY <2>1, <1>1, <1>13 DEF ArtifactsFit, Reports, ToldApart, Covers
<1> QED BY <1>15, <1>16, <1>18, <1>23, <1>24


LEMMA ReportShardFits ==
  ASSUME SuiteIInv, NEW subs, ReportShard(subs)
  PROVE  SuiteIInv'
<1> USE DEF SuiteIInv
<1>1. PICK own : own = shard
  OBVIOUS
<1>2. PICK artifact : artifact = Artifact(attempts, ToSet(sweeps), subs)
  OBVIOUS
<1>3. /\ suite = "report" /\ plan' = plan /\ artifacts' = Append(artifacts, artifact)
      /\ Len(sweeps') = 0 /\ sweeps' \in Seq({}) /\ attempts' = {} /\ level' = 1
      /\ \/ own < plan.shards /\ shard' = own + 1 /\ suite' = "sweep"
         \/ ~(own < plan.shards) /\ shard' = own /\ suite' = "merge"
  BY <1>1, <1>2 DEF ReportShard
<1>4. own \in 1..plan.shards /\ plan.shards \in Nat \ {0} /\ ShardPages = PagesOf(own)
  BY <1>1, <1>3, PlannedPages
<1>5. artifact.attempts = attempts
  BY <1>2 DEF Artifact
<1>6. PlanFits'
  <2>1. 1 \in 1..Len(Levels)
    BY SuiteAssumption
  <2>2. /\ plan.size \in 1..Len(Corpus) /\ plan.shards \in 1..MaxShards
    BY <1>3 DEF PlanFits
  <2>3. shard' \in 1..plan.shards /\ suite' \in {"sweep", "merge"}
    BY <1>3, <1>4
  <2> QED BY <2>1, <2>2, <2>3, <1>3 DEF PlanFits
<1>7. WorkFits'
  BY <1>3 DEF WorkFits
<1>8. SweepsFit'
  BY <1>3 DEF SweepsFit
<1>9. AttemptsFit'
  BY <1>3 DEF AttemptsFit, ToldApart
<1>10. Reports(artifact, PagesOf(own))
  <2>1. Len(sweeps) = level /\ level \in Nat \ {0}
    BY <1>3, SuiteAssumption DEF SweepsFit, PlanFits
  <2>2. Covers(attempts, Levels[1], ShardPages)
    BY <2>1 DEF AttemptsFit
  <2>3. ToldApart(attempts) /\ \A a \in attempts : a.page \in ToSet(ShardPages)
    BY DEF AttemptsFit
  <2> QED BY <2>2, <2>3, <1>4, <1>5 DEF Reports
<1>11. /\ Len(artifacts) = own - 1 /\ Len(artifacts') = own /\ artifacts'[own] = artifact
       /\ \A i \in 1..Len(artifacts) : artifacts'[i] = artifacts[i]
       /\ \E S : artifacts' \in Seq(S)
  <2>1. Len(artifacts) = own - 1
    BY <1>1, <1>3 DEF ArtifactsFit
  <2>2. PICK S : artifacts \in Seq(S)
    BY DEF ArtifactsFit
  <2>3. PICK T : T = S \cup {artifact}
    OBVIOUS
  <2>4. artifacts \in Seq(T) /\ artifact \in T
    BY <2>2, <2>3
  <2> QED BY <2>1, <2>4, <1>3, <1>4
<1>12. \A i \in 1..Len(artifacts') : Reports(artifacts'[i], PagesOf(i))
  <2> TAKE i \in 1..Len(artifacts')
  <2>1. CASE i = own
    BY <2>1, <1>10, <1>11
  <2>2. CASE i # own
    <3>1. i \in 1..Len(artifacts) /\ i <= plan.shards
      BY <2>2, <1>4, <1>11
    <3> QED BY <3>1, <1>3, <1>11 DEF ArtifactsFit
  <2> QED BY <2>1, <2>2
<1>13. ArtifactsFit'
  <2>1. \A i : PagesOf(i)' = PagesOf(i)
    BY <1>3, PagesStay
  <2>2. \A i \in 1..Len(artifacts') :
          (Reports(artifacts[i], PagesOf(i)))'
    BY <2>1, <1>12 DEF Reports, ToldApart, Covers
  <2>3. (suite' \in {"sweep", "running", "report"} => Len(artifacts') = shard' - 1)
        /\ (suite' = "merge" => Len(artifacts') = plan'.shards)
    BY <1>3, <1>4, <1>11
  <2> QED BY <2>2, <2>3, <1>3, <1>11 DEF ArtifactsFit
<1> QED BY <1>6, <1>7, <1>8, <1>9, <1>13

\* The shards have no page in common, and together the sample.
LEMMA ShardsDivideTheSample ==
  ASSUME PlanFits, suite # "idle"
  PROVE  /\ \A own \in 1..plan.shards : ToSet(PagesOf(own)) \subseteq ToSet(Sample)
         /\ \A p \in ToSet(Sample) : \E own \in 1..plan.shards : p \in ToSet(PagesOf(own))
         /\ \A own, other \in 1..plan.shards : \A p :
              p \in ToSet(PagesOf(own)) /\ p \in ToSet(PagesOf(other)) => own = other
<1>1. PICK n : n = plan.size
  OBVIOUS
<1>2. PICK shards \in Nat \ {0} : shards = plan.shards
  BY PlannedPages
<1>3. PICK sample : sample = Sample
  OBVIOUS
<1>4. Once(sample) /\ Len(sample) = n
  BY <1>1, <1>3, PlannedPages
<1>5. n \in Nat /\ DOMAIN sample = 1..n
  BY <1>4 DEF Once
<1>6. \A own \in 1..shards : \A p :
        p \in ToSet(PagesOf(own)) <=> \E j \in PlacesOf(shards, own, n) : p = sample[j]
  <2> TAKE own \in 1..shards
  <2>1. IsPartOf(PagesOf(own), Sample, plan.shards, own)
    BY <1>2, PlannedPages
  <2> QED BY <2>1, <1>2, <1>3, <1>4 DEF IsPartOf
<1>7. \A own : \A j \in PlacesOf(shards, own, n) : j \in 1..n
  BY DEF PlacesOf
<1>8. \A p : p \in ToSet(sample) <=> \E j \in 1..n : p = sample[j]
  BY <1>5 DEF ToSet
<1>9. \A own \in 1..shards : ToSet(PagesOf(own)) \subseteq ToSet(sample)
  BY <1>6, <1>7, <1>8
<1>10. ASSUME NEW p \in ToSet(sample) PROVE \E own \in 1..shards : p \in ToSet(PagesOf(own))
  <2>1. PICK j \in 1..n : p = sample[j]
    BY <1>8
  <2>2. PICK own \in 1..shards : j \in PlacesOf(shards, own, n)
    BY <1>5, EachPlaceHasItsShard
  <2> QED BY <2>1, <2>2, <1>6
<1>11. ASSUME NEW own \in 1..shards, NEW other \in 1..shards, NEW p,
              p \in ToSet(PagesOf(own)), p \in ToSet(PagesOf(other))
       PROVE  own = other
  <2>1. PICK j \in PlacesOf(shards, own, n) : p = sample[j]
    BY <1>6, <1>11
  <2>2. PICK k \in PlacesOf(shards, other, n) : p = sample[k]
    BY <1>6, <1>11
  <2>3. j \in 1..n /\ k \in 1..n
    BY <1>7
  <2>4. j = k
    BY <2>1, <2>2, <2>3, <1>4, <1>5 DEF Once, IsInjective
  <2> QED BY <2>1, <2>2, <2>3, <2>4, <1>5, EachPlaceHasItsShard
<1> QED BY <1>2, <1>3, <1>9, <1>10, <1>11

LEMMA MergeArtifactsFits ==
  ASSUME SuiteIInv, MergeArtifacts
  PROVE  SuiteIInv'
<1> USE DEF SuiteIInv
<1>1. PICK merged : merged = Artifact(MergeAttempts, MergeSweepSummaries, MergedSubs)
  OBVIOUS
<1>2. /\ suite = "merge" /\ suite' = "merged" /\ artifacts' = Append(artifacts, merged)
      /\ UNCHANGED <<plan, shard, level, sweeps, attempts>>
  BY <1>1 DEF MergeArtifacts
<1>3. merged.attempts = MergeAttempts
  BY <1>1 DEF Artifact
<1>4. PICK n \in Nat \ {0} : n = plan.shards /\ Len(artifacts) = n
  BY <1>2, PlannedPages DEF ArtifactsFit
<1>5. \A i \in 1..n : Reports(artifacts[i], PagesOf(i))
  BY <1>2, <1>4 DEF ArtifactsFit
<1>6. \A a : a \in merged.attempts <=>
        \E i \in 1..n : /\ a \in artifacts[i].attempts
                        /\ \A j \in i + 1..n : \A b \in artifacts[j].attempts :
                             ~(a.page = b.page /\ a.concurrency = b.concurrency)
  BY <1>3, <1>4 DEF MergeAttempts, Latest
<1>7. ToldApart(merged.attempts)
  <2> SUFFICES ASSUME NEW a \in merged.attempts, NEW b \in merged.attempts,
                      a.page = b.page, a.concurrency = b.concurrency
               PROVE  a = b
    BY DEF ToldApart
  <2>1. PICK i \in 1..n : /\ a \in artifacts[i].attempts
                          /\ \A j \in i + 1..n : \A c \in artifacts[j].attempts :
                               ~(a.page = c.page /\ a.concurrency = c.concurrency)
    BY <1>6
  <2>2. PICK k \in 1..n : /\ b \in artifacts[k].attempts
                          /\ \A j \in k + 1..n : \A c \in artifacts[j].attempts :
                               ~(b.page = c.page /\ b.concurrency = c.concurrency)
    BY <1>6
  <2>3. ~(i < k) /\ ~(k < i)
    BY <2>1, <2>2
  <2>4. i = k
    BY <2>3
  <2> QED BY <2>1, <2>2, <2>4, <1>5 DEF Reports, ToldApart
<1>8. /\ \A i \in 1..n : ToSet(PagesOf(i)) \subseteq ToSet(Sample)
      /\ \A p \in ToSet(Sample) : \E i \in 1..n : p \in ToSet(PagesOf(i))
      /\ \A i, j \in 1..n : \A p :
           p \in ToSet(PagesOf(i)) /\ p \in ToSet(PagesOf(j)) => i = j
  BY <1>2, <1>4, ShardsDivideTheSample
<1>9. \A a \in merged.attempts : a.page \in ToSet(Sample)
  BY <1>5, <1>6, <1>8 DEF Reports
<1>10. Covers(merged.attempts, Levels[1], Sample)
  <2> SUFFICES ASSUME NEW p \in ToSet(Sample)
               PROVE  \E a \in merged.attempts : a.page = p /\ a.concurrency = Levels[1]
    BY DEF Covers
  <2>1. PICK i \in 1..n : p \in ToSet(PagesOf(i))
    BY <1>8
  <2>2. PICK a \in artifacts[i].attempts : a.page = p /\ a.concurrency = Levels[1]
    BY <2>1, <1>5 DEF Reports, Covers
  <2>3. \A j \in i + 1..n : \A b \in artifacts[j].attempts : b.page # p
    BY <2>1, <1>5, <1>8 DEF Reports
  <2> QED BY <2>2, <2>3, <1>6
<1>11. Reports(merged, Sample)
  BY <1>7, <1>9, <1>10 DEF Reports
<1>12. /\ Len(artifacts') = n + 1 /\ artifacts'[n + 1] = merged
       /\ \A i \in 1..n : artifacts'[i] = artifacts[i]
       /\ \E S : artifacts' \in Seq(S)
  <2>1. PICK S : artifacts \in Seq(S)
    BY DEF ArtifactsFit
  <2>2. PICK T : T = S \cup {merged}
    OBVIOUS
  <2>3. artifacts \in Seq(T) /\ merged \in T
    BY <2>1, <2>2
  <2> QED BY <2>3, <1>2, <1>4
<1>13. Sample' = Sample /\ ShardPages' = ShardPages /\ \A i : PagesOf(i)' = PagesOf(i)
  BY <1>2, PagesStay
<1>14. PlanFits' /\ WorkFits' /\ SweepsFit' /\ AttemptsFit'
  <2>1. Len(sweeps') = 0 /\ attempts' = {}
    BY <1>2 DEF SweepsFit
  <2>2. PlanFits'
    BY <1>2 DEF PlanFits
  <2>3. WorkFits'
    BY <1>2 DEF WorkFits
  <2>4. SweepsFit'
    BY <2>1, <1>2 DEF SweepsFit
  <2>5. AttemptsFit'
    BY <2>1 DEF AttemptsFit, ToldApart
  <2> QED BY <2>2, <2>3, <2>4, <2>5
<1>15. ArtifactsFit'
  <2>1. \A i \in 1..Len(artifacts') : i <= plan'.shards => (Reports(artifacts[i], PagesOf(i)))'
    <3> TAKE i \in 1..Len(artifacts')
    <3>1. i <= plan'.shards => i \in 1..n /\ artifacts'[i] = artifacts[i]
      BY <1>2, <1>4, <1>12
    <3> QED BY <3>1, <1>5, <1>13 DEF Reports, ToldApart, Covers
  <2>2. Len(artifacts') = plan'.shards + 1 /\ (Reports(artifacts[Len(artifacts)], Sample))'
    BY <1>2, <1>4, <1>11, <1>12, <1>13 DEF Reports, ToldApart, Covers
  <2> QED BY <2>1, <2>2, <1>2, <1>12 DEF ArtifactsFit
<1> QED BY <1>14, <1>15


LEMMA SuiteStands ==
  ASSUME SuiteIInv, UNCHANGED suiteVars
  PROVE  SuiteIInv'
<1>1. Sample' = Sample /\ ShardPages' = ShardPages /\ \A i : PagesOf(i)' = PagesOf(i)
  BY PagesStay DEF suiteVars
<1>2. PlanFits' /\ SweepsFit'
  BY <1>1 DEF suiteVars, SuiteIInv, PlanFits, SweepsFit
<1>3. WorkFits'
  BY <1>1 DEF suiteVars, SuiteIInv, WorkFits, Busy
<1>4. AttemptsFit' /\ ArtifactsFit'
  BY <1>1 DEF suiteVars, SuiteIInv, AttemptsFit, ArtifactsFit, Reports, ToldApart, Covers
<1> QED BY <1>2, <1>3, <1>4 DEF SuiteIInv

\* Every step of the suite keeps the invariant.
LEMMA SuiteStepFits ==
  SuiteIInv /\ [SuiteNext]_suiteVars => SuiteIInv'
<1> SUFFICES ASSUME SuiteIInv, [SuiteNext]_suiteVars PROVE SuiteIInv'
  OBVIOUS
<1>1. ASSUME NEW size \in 1..Len(Corpus), NEW shards \in 1..MaxShards, SelectPages(size, shards)
      PROVE  SuiteIInv'
  BY <1>1, SelectPagesFits
<1>2. CASE StartSweep
  BY <1>2, StartSweepFits
<1>3. ASSUME NEW w \in DOMAIN workers, NEW order \in VariantOrders, TakePage(w, order)
      PROVE  SuiteIInv'
  BY <1>3, TakePageFits
<1>4. ASSUME NEW w \in DOMAIN workers, NEW outcome \in Outcomes, ExecuteVariant(w, outcome)
      PROVE  SuiteIInv'
  BY <1>4, ExecuteVariantFits
<1>5. ASSUME NEW saturated \in BOOLEAN, EndSweep(saturated)
      PROVE  SuiteIInv'
  BY <1>5, EndSweepFits
<1>6. ASSUME NEW subs, ReportShard(subs)
      PROVE  SuiteIInv'
  BY <1>6, ReportShardFits
<1>7. CASE MergeArtifacts
  BY <1>7, MergeArtifactsFits
<1>8. CASE UNCHANGED suiteVars
  BY <1>8, SuiteStands
<1> QED BY <1>1, <1>2, <1>3, <1>4, <1>5, <1>6, <1>7, <1>8 DEF SuiteNext

\* The books of the suite: which pages a sweep has taken, with whom they are, and what
\* its sweeps and artifacts have reported of them.
THEOREM SuiteInvariant == SuiteSpec => []SuiteIInv
<1>1. SuiteInit => SuiteIInv
  BY SuiteStarts
<1>2. SuiteIInv /\ [SuiteNext]_suiteVars => SuiteIInv'
  BY SuiteStepFits
<1> QED BY <1>1, <1>2, PTL DEF SuiteSpec

\* Attempts that are one of each page are as many as the pages.
LEMMA OneOfEachPage ==
  ASSUME NEW listed, Once(listed), NEW run,
         \A a, b \in run : a.page = b.page => a = b,
         \A p : p \in ToSet(listed) <=> \E a \in run : a.page = p
  PROVE  Cardinality(run) = Len(listed)
<1> DEFINE place == [p \in ToSet(listed) |-> CHOOSE a \in run : a.page = p]
<1>1. \A p \in ToSet(listed) : place[p] \in run /\ place[p].page = p
  OBVIOUS
<1>2. place \in Bijection(ToSet(listed), run)
  <2>1. place \in [ToSet(listed) -> run]
    BY <1>1
  <2>2. \A p, q \in ToSet(listed) : place[p] = place[q] => p = q
    BY <1>1
  <2>3. \A a \in run : \E p \in ToSet(listed) : place[p] = a
    <3> HIDE DEF place
    <3> QED BY <1>1
  <2> HIDE DEF place
  <2> QED BY <2>1, <2>2, <2>3 DEF Bijection, Injection, Surjection, IsInjective
<1>3. ExistsBijection(ToSet(listed), run)
  BY <1>2 DEF ExistsBijection
<1>4. IsFiniteSet(ToSet(listed)) /\ Cardinality(ToSet(listed)) = Len(listed)
  BY OnceCounts
<1> QED BY <1>3, <1>4, FS_Bijection

LEMMA CompleteSweeps ==
  ASSUME SuiteIInv
  PROVE  SweepsAreComplete
<1> USE DEF SuiteIInv
<1>1. ASSUME NEW i \in 1..Len(sweeps)
      PROVE  LET run == {a \in attempts : a.concurrency = sweeps[i].concurrency}
             IN  /\ {a.page : a \in run} = ToSet(ShardPages)
                 /\ sweeps[i].attemptCount = Len(ShardPages)
  <2>1. sweeps[i].concurrency = Levels[i] /\ sweeps[i].attemptCount = Len(ShardPages)
    BY DEF SweepsFit
  <2>2. \A a \in attempts : a.page \in ToSet(ShardPages)
    BY DEF AttemptsFit
  <2>3. \A p \in ToSet(ShardPages) : \E a \in attempts : a.page = p /\ a.concurrency = Levels[i]
    BY DEF AttemptsFit, Covers
  <2> QED BY <2>1, <2>2, <2>3
<1>2. ASSUME suite = "merged"
      PROVE  LET first == {a \in artifacts[Len(artifacts)].attempts : a.concurrency = Levels[1]}
             IN  {a.page : a \in first} = ToSet(Sample) /\ Cardinality(first) = plan.size
  <2>1. PICK merged : merged = artifacts[Len(artifacts)]
    OBVIOUS
  <2>2. Reports(merged, Sample)
    BY <1>2, <2>1 DEF ArtifactsFit
  <2>3. PICK first : first = {a \in merged.attempts : a.concurrency = Levels[1]}
    OBVIOUS
  <2>4. \A a, b \in first : a.page = b.page => a = b
    BY <2>2, <2>3 DEF Reports, ToldApart
  <2>5. \A p : p \in ToSet(Sample) <=> \E a \in first : a.page = p
    BY <2>2, <2>3 DEF Reports, Covers
  <2>6. PICK sample : sample = Sample
    OBVIOUS
  <2>7. Once(sample) /\ Len(sample) = plan.size
    BY <1>2, <2>6, PlannedPages
  <2>8. Cardinality(first) = Len(sample)
    BY <2>4, <2>5, <2>6, <2>7, OneOfEachPage
  <2>9. {a.page : a \in first} = ToSet(Sample)
    BY <2>5
  <2> QED BY <2>1, <2>3, <2>7, <2>8, <2>9
<1> QED BY <1>1, <1>2 DEF SweepsAreComplete

\* SweepsAreComplete, for every corpus, every order of its hashes, every set of levels
\* and any number of shards: whatever the order in which the workers end their pages,
\* a sweep reports each page of its shard once, and the merged artifact each page of
\* the sample once (mapWithConcurrency, runRealWorldSweep, mergeSuiteArtifacts).
THEOREM SweepsAreAlwaysComplete == SuiteSpec => []SweepsAreComplete
<1>1. SuiteIInv => SweepsAreComplete
  BY CompleteSweeps
<1> QED BY <1>1, SuiteInvariant, PTL


-----------------------------------------------------------------------------
(* The promotion of a build.                                               *)

\* Severities and verdicts: the worst of some.
LEMMA WorstIsThere ==
  ASSUME NEW S \in SUBSET (0 .. 4), S # {}
  PROVE  Max(S) \in S /\ \A n \in S : n <= Max(S)
<1>1. PICK m \in S : \A n \in S : m >= n
  <2>1. \A n \in S : n = 0 \/ n = 1 \/ n = 2 \/ n = 3 \/ n = 4
    OBVIOUS
  <2> DEFINE Largest(m) == m \in S /\ \A n \in S : m >= n
  <2>2. 4 \in S => Largest(4)
    BY <2>1
  <2>3. 4 \notin S /\ 3 \in S => Largest(3)
    BY <2>1
  <2>4. 4 \notin S /\ 3 \notin S /\ 2 \in S => Largest(2)
    BY <2>1
  <2>5. 4 \notin S /\ 3 \notin S /\ 2 \notin S /\ 1 \in S => Largest(1)
    BY <2>1
  <2>6. 4 \notin S /\ 3 \notin S /\ 2 \notin S /\ 1 \notin S => Largest(0)
    <3>1. PICK n : n \in S
      OBVIOUS
    <3> QED BY <3>1, <2>1
  <2> QED BY <2>2, <2>3, <2>4, <2>5, <2>6
<1> QED BY <1>1 DEF Max

LEMMA MagnitudeFits ==
  ASSUME NEW part, NEW of, NEW limits
  PROVE  MagnitudeSeverity(part, of, limits) \in 0 .. 4
<1>1. PICK S : S = {i \in 1 .. 4 : of > 0 /\ 1000 * part >= limits[i] * of}
  OBVIOUS
<1>2. IsFiniteSet(1 .. 4) /\ Cardinality(1 .. 4) = 4
  <2>1. PICK n \in Nat : n = 4
    OBVIOUS
  <2>2. IsFiniteSet(1 .. n) /\ Cardinality(1 .. n) = n
    BY FS_Interval
  <2> QED BY <2>1, <2>2
<1>5. S \in SUBSET (1 .. 4)
  BY <1>1
<1>3. IsFiniteSet(S) /\ Cardinality(S) <= 4
  BY <1>2, <1>5, FS_Subset
<1>4. Cardinality(S) \in Nat
  BY <1>3, FS_CardinalityType
<1> QED BY <1>1, <1>3, <1>4 DEF MagnitudeSeverity

\* Every finding has a severity.
LEMMA FindingsCount ==
  ASSUME NEW diff, NEW x \in FindingsOf(diff)
  PROVE  x.severity \in 1 .. 4
<1>1. PICK n \in 0 .. 4, m \in 0 .. 4 :
        /\ n = MagnitudeSeverity(diff.drift, diff.driftOf, DriftLimits)
        /\ m = MagnitudeSeverity(diff.drop, diff.dropOf, ConfidenceLimits)
  BY MagnitudeFits
<1>2. Max({n, m}) \in 0 .. 4
  BY WorstIsThere
<1>3. CaseSeverity(diff) \in 0 .. 4
  BY <1>1, <1>2 DEF CaseSeverity
<1>4. \A kind \in {"remove", "add", "change"} : ChangeSeverity(kind, diff) \in 1 .. 4
  BY <1>3 DEF ChangeSeverity
<1> QED BY <1>4 DEF FindingsOf

\* The fields that a snapshot has, and what it is most sure of.
IsSnapshot(s) ==
  /\ s.quality \in 0 .. 100 /\ IsFiniteSet(s.observations)
  /\ \A o \in s.observations : o \in [field : {o.field}, value : Nat, confidence : 0 .. 100]

LEMMA LeastIsThere ==
  ASSUME NEW S \in SUBSET Nat, S # {}
  PROVE  \E least \in S : \A n \in S : least <= n
<1>1. PICK least \in S : \A n \in S : ~(<<n, least>> \in OpToRel(<, Nat))
  BY NatLessThanWellFounded, WFMin
<1>2. \A n \in S : ~(n < least)
  BY <1>1 DEF OpToRel
<1> QED BY <1>2

LEMMA FieldsHaveBest ==
  ASSUME NEW s, IsSnapshot(s), NEW f \in FieldsOf(s)
  PROVE  Best(s, f) \in s.observations /\ Best(s, f).field = f
<1> DEFINE Own == {o \in s.observations : o.field = f}
           Doubts == {100 - o.confidence : o \in Own}
<1>1. \A o \in Own : o \in [field : {f}, value : Nat, confidence : 0 .. 100]
  BY DEF IsSnapshot
<1>2. PICK doubt \in Doubts : \A d \in Doubts : doubt <= d
  <2>1. Doubts \in SUBSET Nat /\ Doubts # {}
    BY <1>1 DEF FieldsOf
  <2> HIDE DEF Doubts
  <2> QED BY <2>1, LeastIsThere
<1> DEFINE Values == {o.value : o \in {p \in Own : 100 - p.confidence = doubt}}
<1>3. PICK value \in Values : \A v \in Values : value <= v
  <2>1. Values \in SUBSET Nat /\ Values # {}
    BY <1>1
  <2> HIDE DEF Values
  <2> QED BY <2>1, LeastIsThere
<1>4. PICK best \in Own : 100 - best.confidence = doubt /\ best.value = value
  OBVIOUS
<1>5. ASSUME NEW p \in Own, p # best PROVE Preferred(best, p)
  <2>1. /\ best \in [field : {f}, value : Nat, confidence : 0 .. 100]
        /\ p \in [field : {f}, value : Nat, confidence : 0 .. 100]
    BY <1>1
  <2>2. 100 - best.confidence <= 100 - p.confidence
    BY <1>2, <1>4
  <2>3. CASE p.confidence = best.confidence
    <3>1. p.value \in Values
      BY <2>1, <2>3, <1>4
    <3>2. best.value <= p.value
      BY <3>1, <1>3, <1>4
    <3>3. best.value # p.value
      BY <2>1, <2>3, <1>5
    <3> QED BY <2>1, <2>3, <3>2, <3>3 DEF Preferred
  <2>4. CASE p.confidence # best.confidence
    BY <2>1, <2>2, <2>4 DEF Preferred
  <2> QED BY <2>3, <2>4
<1>6. best \in s.observations /\ best.field = f
      /\ \A p \in s.observations : (p.field = f /\ p # best) => Preferred(best, p)
  BY <1>4, <1>5
<1> QED BY <1>6 DEF Best

LEMMA FieldsAreFinite ==
  ASSUME NEW s, IsSnapshot(s)
  PROVE  IsFiniteSet(FieldsOf(s))
<1> DEFINE field == [o \in s.observations |-> o.field]
<1>1. field \in Surjection(s.observations, FieldsOf(s))
  BY DEF FieldsOf, Surjection
<1>2. IsFiniteSet(s.observations)
  BY DEF IsSnapshot
<1> HIDE DEF field
<1> QED BY <1>1, <1>2, FS_Surjection

\* A sum of finite sizes is a number.
TotalOf(S, members) == Cardinality(UNION {{x} \X members[x] : x \in S})

LEMMA TotalsFit ==
  ASSUME NEW S, IsFiniteSet(S), NEW members, \A x \in S : IsFiniteSet(members[x])
  PROVE  TotalOf(S, members) \in Nat
<1> DEFINE part == [x \in S |-> {x} \X members[x]]
<1>1. PICK parts : parts = {{x} \X members[x] : x \in S}
  OBVIOUS
<1>2. part \in Surjection(S, parts)
  BY <1>1 DEF Surjection
<1>3. IsFiniteSet(parts)
  <2> HIDE DEF part
  <2> QED BY <1>2, FS_Surjection
<1>4. \A x \in S : IsFiniteSet({x} \X members[x])
  <2> TAKE x \in S
  <2>1. PICK own : own = {x} /\ IsFiniteSet(own)
    BY FS_Singleton
  <2>2. PICK all : all = members[x] /\ IsFiniteSet(all)
    OBVIOUS
  <2>3. IsFiniteSet(own \X all)
    BY <2>1, <2>2, FS_Product
  <2> QED BY <2>1, <2>2, <2>3
<1>5. IsFiniteSet(UNION parts)
  BY <1>1, <1>3, <1>4, FS_UNION
<1> QED BY <1>1, <1>5, FS_CardinalityType DEF TotalOf

LEMMA AveragesFit ==
  ASSUME NEW s, IsSnapshot(s)
  PROVE  Average(s)[1] \in Nat /\ Average(s)[2] \in Nat \ {0}
<1>1. IsFiniteSet(FieldsOf(s))
  BY FieldsAreFinite
<1>2. CASE FieldsOf(s) = {}
  BY <1>2 DEF Average, IsSnapshot
<1>3. CASE FieldsOf(s) # {}
  <2>1. Cardinality(FieldsOf(s)) \in Nat \ {0}
    BY <1>1, <1>3, FS_CardinalityType, FS_EmptySet
  <2>2. Confidence(s, FieldsOf(s)) \in Nat
    <3>1. PICK points : points = [f \in FieldsOf(s) |-> 1 .. Best(s, f).confidence]
      OBVIOUS
    <3>2. ASSUME NEW f \in FieldsOf(s) PROVE IsFiniteSet(points[f])
      <4>1. PICK n \in Nat : n = Best(s, f).confidence
        BY FieldsHaveBest DEF IsSnapshot
      <4>2. IsFiniteSet(1 .. n)
        BY FS_Interval
      <4> QED BY <3>1, <4>1, <4>2
    <3>3. TotalOf(FieldsOf(s), points) \in Nat
      BY <1>1, <3>2, TotalsFit
    <3>4. UNION {{f} \X points[f] : f \in FieldsOf(s)}
            = UNION {{f} \X (1 .. Best(s, f).confidence) : f \in FieldsOf(s)}
      BY <3>1
    <3> QED BY <3>3, <3>4 DEF TotalOf, Confidence, Total
  <2> QED BY <1>3, <2>1, <2>2 DEF Average
<1> QED BY <1>2, <1>3


\* Differences of no severity at all, in the fields or in the confidence.
LEMMA NothingFound ==
  ASSUME NEW b, IsSnapshot(b), NEW c, IsSnapshot(c), NEW diff, diff = CompareSnapshots(b, c),
         FindingsOf(diff) = {}, ConfidenceSeverity(diff) = 0
  PROVE  /\ diff.removed = {} /\ diff.added = {}
         /\ Extracted(b) = Extracted(c)
         /\ 50 * (Average(b)[1] * Average(c)[2] - Average(c)[1] * Average(b)[2])
              < 100 * Average(b)[2] * Average(c)[2]
<1>1. diff.removed = Removed(b, c) /\ diff.added = Added(b, c) /\ diff.changed = Changed(b, c)
  BY DEF CompareSnapshots
<1>2. diff.removed = {} /\ diff.added = {} /\ diff.changed = {}
  BY DEF FindingsOf
<1>3. FieldsOf(b) = FieldsOf(c)
  BY <1>1, <1>2 DEF Removed, Added
<1>4. \A f \in FieldsOf(b) : Best(b, f).value = Best(c, f).value
  BY <1>1, <1>2, <1>3 DEF Changed
<1>5. \A f \in FieldsOf(b) : Best(b, f).field = f /\ Best(c, f).field = f
  BY <1>3, FieldsHaveBest
<1>6. Extracted(b) = Extracted(c)
  <2>1. {<<o.field, o.value>> : o \in {Best(b, f) : f \in FieldsOf(b)}}
          = {<<f, Best(b, f).value>> : f \in FieldsOf(b)}
    BY <1>5
  <2>2. {<<o.field, o.value>> : o \in {Best(c, f) : f \in FieldsOf(c)}}
          = {<<f, Best(c, f).value>> : f \in FieldsOf(b)}
    BY <1>3, <1>5
  <2> QED BY <2>1, <2>2, <1>4 DEF Extracted
<1>7. PICK b1 \in Nat, b2 \in Nat \ {0}, c1 \in Nat, c2 \in Nat \ {0} :
        b1 = Average(b)[1] /\ b2 = Average(b)[2] /\ c1 = Average(c)[1] /\ c2 = Average(c)[2]
  BY AveragesFit
<1>8. PICK drop : drop = b1 * c2 - c1 * b2
  OBVIOUS
<1>9. PICK of : of = 100 * b2 * c2
  OBVIOUS
<1>10. diff.drop = drop /\ diff.dropOf = of
  BY <1>7, <1>8, <1>9 DEF CompareSnapshots
<1>11. drop \in Int /\ of \in Int /\ of > 0
  BY <1>8, <1>9
<1>12. ~(1000 * drop >= 20 * of)
  <2>1. PICK S : S = {i \in 1 .. 4 : of > 0 /\ 1000 * drop >= ConfidenceLimits[i] * of}
    OBVIOUS
  <2>2. Cardinality(S) = 0
    BY <2>1, <1>10 DEF ConfidenceSeverity, MagnitudeSeverity
  <2>3. IsFiniteSet(S)
    <3>1. PICK n \in Nat : n = 4
      OBVIOUS
    <3>2. IsFiniteSet(1 .. n)
      BY FS_Interval
    <3>3. S \in SUBSET (1 .. n)
      BY <2>1, <3>1
    <3> QED BY <3>2, <3>3, FS_Subset
  <2>4. 1 \notin S
    BY <2>2, <2>3, FS_EmptySet
  <2>5. ConfidenceLimits[1] = 20
    BY DEF ConfidenceLimits
  <2> QED BY <2>1, <2>4, <2>5, <1>11
<1>13. 50 * drop < of
  BY <1>11, <1>12
<1> QED BY <1>2, <1>6, <1>7, <1>8, <1>9, <1>13

-----------------------------------------------------------------------------
Compared(inc, cand) ==
  [k \in DOMAIN inc |-> [pack |-> inc[k].pack,
                         diff |-> CompareSnapshots(inc[k].snapshot, cand[k].snapshot)]]

Packs == {comparison[k].pack : k \in DOMAIN comparison}

\* Each artifact is of the ones before it, and a gate that promotes saw nothing.
RunsFit == incumbent # NoEvidence => incumbent \in CorpusRuns /\ candidate \in CorpusRuns
ComparisonFits ==
  comparison # NoEvidence =>
    /\ incumbent # NoEvidence /\ Aligned(incumbent, candidate)
    /\ comparison = Compared(incumbent, candidate)
QualityFits ==
  quality # NoEvidence =>
    comparison # NoEvidence /\ quality.severity = [p \in Packs |-> PackSeverity(CasesOf(p))]
CanaryFits == canary # NoEvidence => canary \in 0 .. 2
GateFits == gate = 0 => quality # NoEvidence /\ QualityVerdict = 0
MetricsFit ==
  metrics # NoEvidence =>
    comparison # NoEvidence /\ metrics = [p \in Packs |-> MetricsOf(CasesOf(p))]

GateIInv ==
  RunsFit /\ ComparisonFits /\ QualityFits /\ CanaryFits /\ GateFits /\ MetricsFit

LEMMA GateStarts == GateInit => GateIInv
BY CorpusAssumption
   DEF GateInit, GateIInv, RunsFit, ComparisonFits, QualityFits, CanaryFits, GateFits, MetricsFit

\* What is derived stays with what it is derived from.
LEMMA DerivedStays ==
  ASSUME UNCHANGED <<incumbent, candidate, comparison>>
  PROVE  /\ Packs' = Packs /\ \A p : CasesOf(p)' = CasesOf(p)
         /\ \A cases : PackSeverity(cases)' = PackSeverity(cases)
         /\ \A cases : MetricsOf(cases)' = MetricsOf(cases)
<1>1. Packs' = Packs /\ \A p : CasesOf(p)' = CasesOf(p)
  BY DEF Packs, CasesOf
<1>2. \A cases : PackSeverity(cases)' = PackSeverity(cases)
  BY DEF PackSeverity
<1>3. \A cases : MetricsOf(cases)' = MetricsOf(cases)
  BY DEF MetricsOf, Total
<1> QED BY <1>1, <1>2, <1>3

\* A verdict is the worst of three.
LEMMA GatePromotes ==
  ASSUME CanaryFits, EvaluatePromotionGatePolicy, gate' = 0
  PROVE  QualityVerdict = 0
<1>1. PICK q \in 0 .. 2, p \in 0 .. 2, c \in 0 .. 2 :
        /\ q = QualityVerdict /\ p = PerformanceVerdict
        /\ c = IF canary = NoEvidence THEN 0 ELSE canary
  BY DEF QualityVerdict, PerformanceVerdict, CanaryFits
<1>2. gate' = Max({q, p, c})
  BY <1>1 DEF EvaluatePromotionGatePolicy
<1>3. q <= Max({q, p, c})
  BY WorstIsThere
<1> QED BY <1>1, <1>2, <1>3

LEMMA GateStep == GateIInv /\ [GateNext]_gateVars => GateIInv'
<1> SUFFICES ASSUME GateIInv, [GateNext]_gateVars PROVE GateIInv'
  OBVIOUS
<1> USE DEF GateIInv
<1>1. ASSUME NEW inc \in CorpusRuns, NEW cand \in CorpusRuns, RunCorpus(inc, cand) PROVE GateIInv'
  <2>1. comparison = NoEvidence /\ quality = NoEvidence /\ metrics = NoEvidence /\ gate # 0
    BY <1>1 DEF RunCorpus, ComparisonFits, QualityFits, GateFits, MetricsFit
  <2> QED BY <2>1, <1>1 DEF RunCorpus, runVars, evidenceVars, RunsFit, ComparisonFits, QualityFits,
                            CanaryFits, GateFits, MetricsFit
<1>2. CASE RunIncumbentComparison
  <2>1. quality = NoEvidence /\ metrics = NoEvidence /\ gate # 0
    BY <1>2 DEF RunIncumbentComparison, QualityFits, GateFits, MetricsFit
  <2>2. ComparisonFits'
    BY <1>2 DEF RunIncumbentComparison, runVars, ComparisonFits, Compared, Aligned
  <2> QED BY <2>1, <2>2, <1>2 DEF RunIncumbentComparison, runVars, evidenceVars, RunsFit, QualityFits,
                            CanaryFits, GateFits, MetricsFit
<1>3. ASSUME UNCHANGED <<runVars, comparison>>,
             quality' = quality \/ AnalyzeDriftRegression,
             CanaryFits',
             UNCHANGED gate \/ EvaluatePromotionGatePolicy,
             UNCHANGED metrics \/ EvaluateQualityMetrics
      PROVE  GateIInv'
  <2>1. UNCHANGED <<incumbent, candidate, comparison>>
    BY <1>3 DEF runVars
  <2>2. RunsFit' /\ ComparisonFits'
    BY <2>1 DEF RunsFit, ComparisonFits, Compared, Aligned
  <2>3. QualityFits'
    <3>1. CASE quality' = quality
      BY <3>1, <2>1, DerivedStays DEF QualityFits
    <3>2. CASE AnalyzeDriftRegression
      BY <3>2, <2>1, DerivedStays DEF AnalyzeDriftRegression, QualityFits, Packs
    <3> QED BY <3>1, <3>2, <1>3
  <2>4. quality # NoEvidence => quality' = quality
    BY <1>3 DEF AnalyzeDriftRegression
  <2>5. quality' = quality => QualityVerdict' = QualityVerdict
    BY DEF QualityVerdict, WorstSeverity
  <2>6. GateFits'
    <3>1. CASE UNCHANGED gate
      BY <3>1, <2>4, <2>5 DEF GateFits
    <3>2. CASE EvaluatePromotionGatePolicy
      <4>1. quality # NoEvidence
        BY <3>2 DEF EvaluatePromotionGatePolicy
      <4>2. gate' = 0 => QualityVerdict = 0
        BY <3>2, GatePromotes
      <4> QED BY <4>1, <4>2, <2>4, <2>5 DEF GateFits
    <3> QED BY <3>1, <3>2, <1>3
  <2>7. MetricsFit'
    <3>1. CASE UNCHANGED metrics
      BY <3>1, <2>1, DerivedStays DEF MetricsFit
    <3>2. CASE EvaluateQualityMetrics
      BY <3>2, <2>1, DerivedStays DEF EvaluateQualityMetrics, MetricsFit, Packs
    <3> QED BY <3>1, <3>2, <1>3
  <2> QED BY <2>2, <2>3, <2>6, <2>7, <1>3
<1>4. CASE AnalyzeDriftRegression
  BY <1>3, <1>4 DEF AnalyzeDriftRegression, evidenceVars, CanaryFits
<1>5. ASSUME NEW m, EvaluatePerformanceBudget(m) PROVE GateIInv'
  BY <1>3, <1>5 DEF EvaluatePerformanceBudget, CanaryFits
<1>6. ASSUME NEW s, RunLiveCanary(s) PROVE GateIInv'
  <2>1. CanaryFits'
    BY <1>6 DEF RunLiveCanary, CanaryFits
  <2> QED BY <2>1, <1>3, <1>6 DEF RunLiveCanary
<1>7. ASSUME NEW s, RunChaosProviderSuite(s) PROVE GateIInv'
  BY <1>3, <1>7 DEF RunChaosProviderSuite, CanaryFits
<1>8. CASE EvaluatePromotionGatePolicy
  <2>1. UNCHANGED <<runVars, comparison>> /\ quality' = quality /\ metrics' = metrics /\ canary' = canary
    BY <1>8 DEF EvaluatePromotionGatePolicy, evidenceVars
  <2> QED BY <2>1, <1>3, <1>8 DEF CanaryFits
<1>9. CASE EvaluateQualityMetrics
  <2>1. UNCHANGED <<runVars, comparison>> /\ quality' = quality /\ gate' = gate /\ canary' = canary
    BY <1>9 DEF EvaluateQualityMetrics, evidenceVars
  <2> QED BY <2>1, <1>3, <1>9 DEF CanaryFits
<1>10. CASE BuildQualityReportExport
  BY <1>3, <1>10 DEF BuildQualityReportExport, evidenceVars, CanaryFits
<1>11. CASE UNCHANGED gateVars
  BY <1>3, <1>11 DEF gateVars, evidenceVars, CanaryFits
<1> QED BY <1>1, <1>2, <1>4, <1>5, <1>6, <1>7, <1>8, <1>9, <1>10, <1>11 DEF GateNext


\* The inductive invariant of the gate.
THEOREM GateInvariant == GateSpec => []GateIInv
BY GateStarts, GateStep, PTL DEF GateSpec

\* The severity of a pack is the worst of its cases.
LEMMA PackIsTheWorst ==
  ASSUME NEW cases
  PROVE  /\ PackSeverity(cases) \in 0 .. 4
         /\ PackSeverity(cases) = 0 =>
              \A k \in cases : /\ FindingsOf(comparison[k].diff) = {}
                               /\ ConfidenceSeverity(comparison[k].diff) = 0
<1> DEFINE losses == UNION {{x.severity : x \in FindingsOf(comparison[k].diff)} : k \in cases}
           doubts == {ConfidenceSeverity(comparison[k].diff) : k \in cases}
           worst == {0} \cup losses \cup doubts
<1>1. /\ \A n : n \in losses <=> \E k \in cases : \E x \in FindingsOf(comparison[k].diff) : n = x.severity
      /\ \A n : n \in doubts <=> \E k \in cases : n = ConfidenceSeverity(comparison[k].diff)
  OBVIOUS
<1>6. PackSeverity(cases) = Max(worst)
  BY DEF PackSeverity
<1> HIDE DEF losses, doubts
<1>2. \A k \in cases : \A x \in FindingsOf(comparison[k].diff) : x.severity \in 1 .. 4
  BY FindingsCount
<1>3. \A k \in cases : ConfidenceSeverity(comparison[k].diff) \in 0 .. 4
  BY MagnitudeFits DEF ConfidenceSeverity
<1>4. worst \in SUBSET (0 .. 4) /\ worst # {}
  BY <1>1, <1>2, <1>3
<1>5. Max(worst) \in worst /\ \A n \in worst : n <= Max(worst)
  BY <1>4, WorstIsThere
<1>7. ASSUME Max(worst) = 0, NEW k \in cases
      PROVE  FindingsOf(comparison[k].diff) = {} /\ ConfidenceSeverity(comparison[k].diff) = 0
  <2>1. ASSUME NEW x \in FindingsOf(comparison[k].diff) PROVE FALSE
    <3>1. x.severity \in worst
      BY <1>1
    <3> QED BY <3>1, <1>2, <1>5, <1>7
  <2>2. ConfidenceSeverity(comparison[k].diff) \in worst
    BY <1>1
  <2>3. ConfidenceSeverity(comparison[k].diff) <= 0
    BY <2>2, <1>5, <1>7
  <2> QED BY <2>1, <2>3, <1>3
<1> QED BY <1>4, <1>5, <1>6, <1>7

\* A verdict of no hold and no quarantine is about every case.
LEMMA NoCaseHasSeverity ==
  ASSUME GateIInv, gate = 0
  PROVE  \A k \in DOMAIN comparison : /\ FindingsOf(comparison[k].diff) = {}
                                      /\ ConfidenceSeverity(comparison[k].diff) = 0
<1>1. /\ QualityVerdict = 0
      /\ quality.severity = [p \in Packs |-> PackSeverity(CasesOf(p))]
  BY DEF GateIInv, GateFits, QualityFits
<1>2. PICK severities : severities = {quality.severity[p] : p \in DOMAIN quality.severity}
  OBVIOUS
<1>3. \A n \in severities : n \in 0 .. 4
  BY <1>1, <1>2, PackIsTheWorst
<1> SUFFICES ASSUME NEW k \in DOMAIN comparison
             PROVE  /\ FindingsOf(comparison[k].diff) = {}
                    /\ ConfidenceSeverity(comparison[k].diff) = 0
  OBVIOUS
<1>4. PICK p : p = comparison[k].pack
  OBVIOUS
<1>5. p \in Packs /\ k \in CasesOf(p)
  BY <1>4 DEF Packs, CasesOf
<1>6. PICK severity : severity = PackSeverity(CasesOf(p))
  OBVIOUS
<1>7. severity \in severities
  BY <1>1, <1>2, <1>5, <1>6
<1>8. severities \in SUBSET (0 .. 4) /\ severities # {}
  BY <1>3, <1>7
<1>9. WorstSeverity = Max(severities) /\ severity <= Max(severities) /\ Max(severities) \in 0 .. 4
  BY <1>2, <1>7, <1>8, WorstIsThere DEF WorstSeverity
<1>10. severity = 0
  BY <1>1, <1>3, <1>7, <1>9 DEF QualityVerdict
<1> QED BY <1>5, <1>6, <1>10, PackIsTheWorst

LEMMA PromotionLosesNothing ==
  ASSUME GateIInv
  PROVE  PromotedBuildLosesNothing
<1> SUFFICES ASSUME gate = 0 PROVE PromotedBuildLosesNothing
  BY DEF PromotedBuildLosesNothing
<1>1. /\ incumbent \in CorpusRuns /\ candidate \in CorpusRuns
      /\ Aligned(incumbent, candidate) /\ comparison = Compared(incumbent, candidate)
  BY DEF GateIInv, RunsFit, ComparisonFits, QualityFits, GateFits
<1>2. \A k \in DOMAIN incumbent :
        IsSnapshot(incumbent[k].snapshot) /\ IsSnapshot(candidate[k].snapshot)
  BY <1>1, CorpusAssumption DEF Aligned, IsSnapshot
<1>3. DOMAIN comparison = DOMAIN incumbent
      /\ \A k \in DOMAIN incumbent :
           comparison[k].diff = CompareSnapshots(incumbent[k].snapshot, candidate[k].snapshot)
  BY <1>1 DEF Compared
<1>4. ASSUME NEW k \in DOMAIN incumbent,
             NEW b, b = incumbent[k].snapshot, NEW c, c = candidate[k].snapshot
      PROVE  /\ comparison[k].diff.removed = {} /\ comparison[k].diff.added = {}
             /\ Extracted(b) = Extracted(c)
             /\ 50 * (Average(b)[1] * Average(c)[2] - Average(c)[1] * Average(b)[2])
                  < 100 * Average(b)[2] * Average(c)[2]
  <2>1. PICK diff : diff = comparison[k].diff
    OBVIOUS
  <2>2. FindingsOf(diff) = {} /\ ConfidenceSeverity(diff) = 0
    BY <2>1, <1>3, NoCaseHasSeverity
  <2>3. diff = CompareSnapshots(b, c) /\ IsSnapshot(b) /\ IsSnapshot(c)
    BY <2>1, <1>2, <1>3, <1>4
  <2> QED BY <2>1, <2>2, <2>3, NothingFound
<1>5. ASSUME NEW p \in DOMAIN metrics, metrics # NoEvidence
      PROVE  metrics[p].recalled = metrics[p].baseline /\ metrics[p].unexpected = 0
  <2>1. PICK cases : cases = CasesOf(p)
    OBVIOUS
  <2>2. metrics[p] = MetricsOf(cases)
    BY <2>1, <1>5 DEF GateIInv, MetricsFit
  <2>3. cases \in SUBSET DOMAIN incumbent
    BY <2>1, <1>3 DEF CasesOf
  <2>4. IsFiniteSet(cases)
    BY <2>3, <1>1, CorpusAssumption, FS_Subset
  <2>5. \A k \in cases : comparison[k].diff.removed = {} /\ comparison[k].diff.added = {}
    BY <2>3, <1>4
  <2>6. PICK fields : fields = [k \in cases |-> FieldsOf(incumbent[k].snapshot)]
    OBVIOUS
  <2>7. \A k \in cases : IsFiniteSet(fields[k])
    BY <2>3, <2>6, <1>2, FieldsAreFinite
  <2>8. PICK baseline \in Nat : baseline = TotalOf(cases, fields)
    BY <2>4, <2>7, TotalsFit
  <2>9. UNION {{k} \X fields[k] : k \in cases}
          = UNION {{k} \X FieldsOf(incumbent[k].snapshot) : k \in cases}
    BY <2>6
  <2>10. Cardinality({}) = 0
    BY FS_EmptySet
  <2>11. UNION {{k} \X comparison[k].diff.removed : k \in cases} = {}
    BY <2>5
  <2>12. UNION {{k} \X comparison[k].diff.added : k \in cases} = {}
    BY <2>5
  <2>13. MetricsOf(cases) = [baseline |-> baseline, recalled |-> Max({0, baseline - 0}), unexpected |-> 0]
    BY <2>8, <2>9, <2>10, <2>11, <2>12 DEF MetricsOf, Total, TotalOf
  <2>14. Max({0, baseline - 0}) = baseline
    BY DEF Max
  <2> QED BY <2>2, <2>13, <2>14
<1>6. \A k \in DOMAIN incumbent :
        LET b == incumbent[k].snapshot
            c == candidate[k].snapshot
        IN  /\ Extracted(b) = Extracted(c)
            /\ 50 * (Average(b)[1] * Average(c)[2] - Average(c)[1] * Average(b)[2])
                 < 100 * Average(b)[2] * Average(c)[2]
  BY <1>4
<1> QED BY <1>5, <1>6 DEF PromotedBuildLosesNothing

\* PromotedBuildLosesNothing, for every pair of corpus runs, whatever the other
\* evidence: a build that the gate promotes has every field of the incumbent with its
\* best value, no other field, and no case two points less certain
\* (compareSnapshots, analyzeDriftRegression, evaluatePromotionGatePolicy).
THEOREM PromotedBuildNeverLoses == GateSpec => []PromotedBuildLosesNothing
<1>1. GateIInv => PromotedBuildLosesNothing
  BY PromotionLosesNothing
<1> QED BY <1>1, GateInvariant, PTL
-----------------------------------------------------------------------------
(* The discovery of a shop's pages.                                         *)

\* A set of numbers is listed from the least to the greatest.
LEMMA AscendingFits ==
  ASSUME NEW S \in SUBSET Nat, IsFiniteSet(S), NEW s, s = Ascending(S)
  PROVE  /\ s \in Seq(S) /\ Len(s) = Cardinality(S)
         /\ DOMAIN s = 1..Cardinality(S) /\ Cardinality(S) \in Nat
         /\ \A m, n \in DOMAIN s : m < n => s[m] < s[n]
<1> DEFINE before == {pair \in S \X S : pair[1] < pair[2]}
           size == Cardinality(S)
<1>1. size \in Nat
  BY FS_CardinalityType
<1>2. \A p, q \in S : <<p, q>> \in before <=> p < q
  OBVIOUS
<1> HIDE DEF before
<1>3. Orders(S, before)
  BY <1>2 DEF Orders
<1>4. \A p \in S : RankOf(S, before, p) = Cardinality({j \in S : j < p})
  <2> TAKE p \in S
  <2>1. {q \in S : <<q, p>> \in before} = {j \in S : j < p}
    BY <1>2
  <2> QED BY <2>1 DEF RankOf
<1>5. s = [n \in 1..size |-> CHOOSE p \in S : RankOf(S, before, p) = n - 1]
  <2>1. ASSUME NEW n \in 1..size
        PROVE  (CHOOSE p \in S : RankOf(S, before, p) = n - 1)
                 = (CHOOSE k \in S : Cardinality({j \in S : j < k}) = n - 1)
    BY <1>4
  <2> QED BY <2>1 DEF Ascending
<1>6. /\ s \in Bijection(1..size, S)
      /\ \A m \in 1..size : RankOf(S, before, s[m]) = m - 1
  <2>1. s = [n \in 1..Cardinality(S) |-> CHOOSE p \in S : RankOf(S, before, p) = n - 1]
    BY <1>5
  <2>2. s \in Bijection(1..Cardinality(S), S)
    BY <1>3, <2>1, ListingByRank
  <2>3. \A m \in 1..size : \E p \in S : RankOf(S, before, p) = m - 1
    BY <1>3, RanksAreTaken
  <2>4. \A m \in 1..size : RankOf(S, before, s[m]) = m - 1
    BY <2>1, <2>3
  <2> QED BY <2>2, <2>4
<1>7. s \in [1..size -> S]
  BY <1>6 DEF Bijection, Injection
<1>8. s \in Seq(S) /\ Len(s) = size /\ DOMAIN s = 1..size
  BY <1>1, <1>7
<1>9. \A m, n \in 1..size : m < n => s[m] < s[n]
  <2> TAKE m, n \in 1..size
  <2> HAVE m < n
  <2>1. s[m] \in S /\ s[n] \in S /\ s[m] \in Nat /\ s[n] \in Nat
    BY <1>7
  <2>2. RankOf(S, before, s[m]) < RankOf(S, before, s[n])
    BY <1>1, <1>6
  <2>3. ~(s[n] < s[m])
    <3>1. ASSUME s[n] < s[m] PROVE FALSE
      <4>1. RankOf(S, before, s[n]) < RankOf(S, before, s[m])
        BY <3>1, <2>1, <1>2, <1>3, RanksTellApart
      <4> QED BY <4>1, <2>2, <1>1, <1>6
    <3> QED BY <3>1
  <2>4. s[n] # s[m]
    BY <2>2, <1>6, <1>1
  <2> QED BY <2>1, <2>3, <2>4
<1> QED BY <1>1, <1>8, <1>9

\* What is left of a sequence when entries are taken out.
Thinned(t, s) ==
  \E pick \in [DOMAIN t -> DOMAIN s] :
    /\ \A n \in DOMAIN t : t[n] = s[pick[n]]
    /\ \A m, n \in DOMAIN t : m < n => pick[m] < pick[n]

LEMMA ThinnedTwice ==
  ASSUME NEW t, NEW s, NEW r, Thinned(t, s), Thinned(s, r)
  PROVE  Thinned(t, r)
<1>1. PICK f \in [DOMAIN t -> DOMAIN s] :
        /\ \A n \in DOMAIN t : t[n] = s[f[n]]
        /\ \A m, n \in DOMAIN t : m < n => f[m] < f[n]
  BY DEF Thinned
<1>2. PICK g \in [DOMAIN s -> DOMAIN r] :
        /\ \A n \in DOMAIN s : s[n] = r[g[n]]
        /\ \A m, n \in DOMAIN s : m < n => g[m] < g[n]
  BY DEF Thinned
<1> DEFINE h == [n \in DOMAIN t |-> g[f[n]]]
<1>3. h \in [DOMAIN t -> DOMAIN r]
  BY <1>1, <1>2
<1>4. \A n \in DOMAIN t : t[n] = r[h[n]]
  BY <1>1, <1>2
<1>5. \A m, n \in DOMAIN t : m < n => h[m] < h[n]
  BY <1>1, <1>2
<1> HIDE DEF h
<1> QED BY <1>3, <1>4, <1>5 DEF Thinned

LEMMA Unthinned ==
  ASSUME NEW S, NEW s \in Seq(S)
  PROVE  Thinned(s, s)
<1> DEFINE pick == [n \in DOMAIN s |-> n]
<1>1. pick \in [DOMAIN s -> DOMAIN s]
  OBVIOUS
<1>2. (\A n \in DOMAIN s : s[n] = s[pick[n]]) /\ (\A m, n \in DOMAIN s : m < n => pick[m] < pick[n])
  OBVIOUS
<1> HIDE DEF pick
<1> QED BY <1>1, <1>2 DEF Thinned

LEMMA EntriesAtThins ==
  ASSUME NEW S, NEW s \in Seq(S), NEW places \in SUBSET DOMAIN s,
         NEW t, t = EntriesAt(s, places)
  PROVE  /\ t \in Seq(S) /\ Thinned(t, s)
         /\ \A n \in DOMAIN t : \E i \in places : t[n] = s[i]
<1>1. PICK size \in Nat : size = Len(s)
  OBVIOUS
<1>2. DOMAIN s = 1..size
  BY <1>1
<1>3. places \in SUBSET Nat /\ IsFiniteSet(places)
  <2>1. IsFiniteSet(1..size)
    BY <1>1, FS_Interval
  <2>2. places \in SUBSET (1..size)
    BY <1>2
  <2> QED BY <2>1, <2>2, FS_Subset
<1>4. PICK up : up = Ascending(places)
  OBVIOUS
<1>5. /\ up \in Seq(places) /\ DOMAIN up = 1..Cardinality(places) /\ Cardinality(places) \in Nat
      /\ \A m, n \in DOMAIN up : m < n => up[m] < up[n]
  BY <1>3, <1>4, AscendingFits
<1>6. t = [n \in 1..Cardinality(places) |-> s[up[n]]]
  BY <1>4 DEF EntriesAt
<1>7. \A n \in DOMAIN up : up[n] \in places /\ up[n] \in DOMAIN s
  BY <1>5
<1>8. t \in Seq(S)
  BY <1>5, <1>6, <1>7
<1>9. DOMAIN t = DOMAIN up /\ up \in [DOMAIN t -> DOMAIN s]
  BY <1>5, <1>6, <1>7
<1>10. \A n \in DOMAIN t : t[n] = s[up[n]]
  BY <1>5, <1>6
<1>11. Thinned(t, s)
  BY <1>5, <1>9, <1>10 DEF Thinned
<1> QED BY <1>7, <1>8, <1>9, <1>10, <1>11

LEMMA FirstThins ==
  ASSUME NEW S, NEW s \in Seq(S), NEW n \in Nat, NEW t, t = First(s, n)
  PROVE  t \in Seq(S) /\ Thinned(t, s)
<1>1. PICK size \in Nat : size <= Len(s) /\ size = IF n < Len(s) THEN n ELSE Len(s)
  OBVIOUS
<1>2. t = SubSeq(s, 1, size)
  BY <1>1 DEF First
<1>3. t \in Seq(S) /\ DOMAIN t = 1..size /\ \A k \in 1..size : t[k] = s[k]
  BY <1>1, <1>2
<1> DEFINE pick == [k \in DOMAIN t |-> k]
<1>4. pick \in [DOMAIN t -> DOMAIN s]
  BY <1>1, <1>3
<1>5. (\A k \in DOMAIN t : t[k] = s[pick[k]]) /\ (\A j, k \in DOMAIN t : j < k => pick[j] < pick[k])
  BY <1>3
<1> HIDE DEF pick
<1> QED BY <1>3, <1>4, <1>5 DEF Thinned

LEMMA ThinnedOnce ==
  ASSUME NEW S, NEW T, NEW s \in Seq(S), NEW t \in Seq(T), Thinned(t, s), IsInjective(s)
  PROVE  IsInjective(t)
<1>1. PICK f \in [DOMAIN t -> DOMAIN s] :
        /\ \A n \in DOMAIN t : t[n] = s[f[n]]
        /\ \A m, n \in DOMAIN t : m < n => f[m] < f[n]
  BY DEF Thinned
<1> SUFFICES ASSUME NEW m \in DOMAIN t, NEW n \in DOMAIN t, t[m] = t[n] PROVE m = n
  BY DEF IsInjective
<1>2. f[m] = f[n]
  BY <1>1 DEF IsInjective
<1>3. m \in Nat /\ n \in Nat /\ f[m] \in Nat /\ f[n] \in Nat
  BY <1>1
<1> QED BY <1>1, <1>2, <1>3


LEMMA SeqOfMore ==
  ASSUME NEW S, NEW T, S \subseteq T, NEW s \in Seq(S)
  PROVE  s \in Seq(T)
<1>1. PICK n \in Nat : n = Len(s)
  OBVIOUS
<1>2. s \in [1..n -> S]
  BY <1>1
<1>3. s \in [1..n -> T]
  BY <1>2
<1> QED BY <1>3

\* Sequences without an entry in common, and without repetition, make one.
LEMMA Joined ==
  ASSUME NEW S, NEW T, S \cap T = {}, NEW s \in Seq(S), NEW t \in Seq(T),
         IsInjective(s), IsInjective(t), NEW r, r = s \o t
  PROVE  r \in Seq(S \cup T) /\ IsInjective(r)
<1>1. PICK m \in Nat, n \in Nat : m = Len(s) /\ n = Len(t)
  OBVIOUS
<1>2. /\ r \in Seq(S \cup T) /\ Len(r) = m + n
      /\ \A k \in 1..m + n : r[k] = IF k <= m THEN s[k] ELSE t[k - m]
  BY <1>1
<1>3. /\ \A k \in 1..m : s[k] \in S
      /\ \A k \in 1..n : t[k] \in T
  BY <1>1
<1>4. ASSUME NEW j \in 1..m + n, NEW k \in 1..m + n, r[j] = r[k]
      PROVE  j = k
  <2>1. CASE j <= m /\ k <= m
    <3>1. s[j] = s[k]
      BY <1>2, <1>4, <2>1
    <3>2. j \in DOMAIN s /\ k \in DOMAIN s
      BY <2>1, <1>1
    <3> QED BY <3>1, <3>2 DEF IsInjective
  <2>2. CASE j > m /\ k > m
    <3>1. t[j - m] = t[k - m]
      BY <1>2, <1>4, <2>2
    <3>2. j - m \in DOMAIN t /\ k - m \in DOMAIN t
      BY <2>2, <1>1
    <3>3. j - m = k - m
      BY <3>1, <3>2 DEF IsInjective
    <3> QED BY <3>3
  <2>3. CASE j <= m /\ k > m
    <3>1. s[j] = t[k - m] /\ s[j] \in S /\ t[k - m] \in T
      BY <1>2, <1>3, <1>4, <2>3
    <3> QED BY <3>1
  <2>4. CASE j > m /\ k <= m
    <3>1. s[k] = t[j - m] /\ s[k] \in S /\ t[j - m] \in T
      BY <1>2, <1>3, <1>4, <2>4
    <3> QED BY <3>1
  <2> QED BY <2>1, <2>2, <2>3, <2>4
<1>5. DOMAIN r = 1..m + n
  BY <1>1, <1>2
<1> QED BY <1>2, <1>4, <1>5 DEF IsInjective

Hinted(types) == {u \in DOMAIN HintOf : HintOf[u] \in types}

\* The bucket of a type has URLs of that type, each once.
LEMMA BucketFits ==
  ASSUME NEW candidates \in SUBSET DOMAIN HintOf, NEW type \in ToSet(PageTypes)
  PROVE  /\ Bucket(type, candidates) \in Seq(Hinted({type}))
         /\ IsInjective(Bucket(type, candidates))
<1>1. PICK all : all = {u \in candidates : HintOf[u] = type}
  OBVIOUS
<1>2. all \in SUBSET Hinted({type}) /\ all \in SUBSET DOMAIN HintOf
  BY <1>1 DEF Hinted
<1>3. all \in SUBSET Nat /\ IsFiniteSet(all)
  BY <1>2, DiscoveryAssumption, FS_Subset
<1>4. PICK listed : listed = Ascending(all)
  OBVIOUS
<1>5. /\ listed \in Seq(all) /\ DOMAIN listed = 1..Cardinality(all) /\ Cardinality(all) \in Nat
      /\ \A m, n \in DOMAIN listed : m < n => listed[m] < listed[n]
  BY <1>3, <1>4, AscendingFits
<1>6. IsInjective(listed)
  <2> SUFFICES ASSUME NEW m \in DOMAIN listed, NEW n \in DOMAIN listed, listed[m] = listed[n]
               PROVE  m = n
    BY DEF IsInjective
  <2>1. m \in 1..Cardinality(all) /\ n \in 1..Cardinality(all)
    BY <1>5
  <2>2. listed[m] \in all /\ listed[m] \in Nat
    <3>1. listed[m] \in all
      BY <1>5
    <3> QED BY <3>1, <1>3
  <2>3. ~(m < n) /\ ~(n < m)
    BY <2>2, <1>5
  <2> QED BY <2>1, <2>3, <1>5
<1>7. PICK limit : limit = IF Limits.share[type] * Target > Limits.floor[type]
                           THEN Limits.share[type] * Target ELSE Limits.floor[type]
  OBVIOUS
<1>8. limit \in Nat
  <2>1. Limits.share[type] \in Nat /\ Limits.floor[type] \in Nat /\ Target \in Nat
    BY DiscoveryAssumption
  <2> QED BY <2>1, <1>7
<1>9. PICK bucket : bucket = First(listed, limit)
  OBVIOUS
<1>10. bucket \in Seq(all) /\ Thinned(bucket, listed)
  BY <1>5, <1>8, <1>9, FirstThins
<1>11. IsInjective(bucket)
  BY <1>5, <1>6, <1>10, ThinnedOnce
<1>12. bucket \in Seq(Hinted({type}))
  BY <1>2, <1>10, SeqOfMore
<1>13. Bucket(type, candidates) = bucket
  BY <1>1, <1>4, <1>7, <1>9 DEF Bucket
<1> QED BY <1>11, <1>12, <1>13

\* The plan has URLs of the site, each once.
LEMMA FetchPlanFits ==
  ASSUME NEW candidates \in SUBSET DOMAIN HintOf, NEW urlPlan, urlPlan = BuildFetchPlan(candidates)
  PROVE  urlPlan \in Seq(DOMAIN HintOf) /\ IsInjective(urlPlan)
<1>1. {"product", "listing", "search", "offer", "unknown"} \subseteq ToSet(PageTypes)
  <2>1. /\ PageTypes[1] = "product" /\ PageTypes[2] = "listing" /\ PageTypes[3] = "search"
        /\ PageTypes[4] = "offer" /\ PageTypes[5] = "unknown" /\ DOMAIN PageTypes = 1..5
    BY DEF PageTypes
  <2> QED BY <2>1 DEF ToSet
<1>2. PICK a, b, c, d, e :
        /\ a = Bucket("product", candidates) /\ b = Bucket("listing", candidates)
        /\ c = Bucket("search", candidates) /\ d = Bucket("offer", candidates)
        /\ e = Bucket("unknown", candidates)
  OBVIOUS
<1>3. /\ a \in Seq(Hinted({"product"})) /\ IsInjective(a)
      /\ b \in Seq(Hinted({"listing"})) /\ IsInjective(b)
      /\ c \in Seq(Hinted({"search"})) /\ IsInjective(c)
      /\ d \in Seq(Hinted({"offer"})) /\ IsInjective(d)
      /\ e \in Seq(Hinted({"unknown"})) /\ IsInjective(e)
  BY <1>1, <1>2, BucketFits
<1>4. ASSUME NEW types, NEW type, type \notin types
      PROVE  /\ Hinted(types) \cap Hinted({type}) = {}
             /\ Hinted(types) \cup Hinted({type}) = Hinted(types \cup {type})
  BY <1>4 DEF Hinted
<1>5. PICK ab : ab = a \o b
  OBVIOUS
<1>6. ab \in Seq(Hinted({"product"} \cup {"listing"})) /\ IsInjective(ab)
  <2>1. /\ Hinted({"product"}) \cap Hinted({"listing"}) = {}
        /\ Hinted({"product"}) \cup Hinted({"listing"}) = Hinted({"product"} \cup {"listing"})
    BY <1>4
  <2>2. ab \in Seq(Hinted({"product"}) \cup Hinted({"listing"})) /\ IsInjective(ab)
    BY <1>3, <1>5, <2>1, Joined
  <2> QED BY <2>1, <2>2
<1>7. PICK two : two = {"product"} \cup {"listing"}
  OBVIOUS
<1>8. PICK abc : abc = ab \o c
  OBVIOUS
<1>9. abc \in Seq(Hinted(two \cup {"search"})) /\ IsInjective(abc)
  <2>1. /\ Hinted(two) \cap Hinted({"search"}) = {}
        /\ Hinted(two) \cup Hinted({"search"}) = Hinted(two \cup {"search"})
    BY <1>4, <1>7
  <2>2. abc \in Seq(Hinted(two) \cup Hinted({"search"})) /\ IsInjective(abc)
    BY <1>3, <1>6, <1>7, <1>8, <2>1, Joined
  <2> QED BY <2>1, <2>2
<1>10. PICK three : three = two \cup {"search"}
  OBVIOUS
<1>11. PICK abcd : abcd = abc \o d
  OBVIOUS
<1>12. abcd \in Seq(Hinted(three \cup {"offer"})) /\ IsInjective(abcd)
  <2>1. /\ Hinted(three) \cap Hinted({"offer"}) = {}
        /\ Hinted(three) \cup Hinted({"offer"}) = Hinted(three \cup {"offer"})
    BY <1>4, <1>7, <1>10
  <2>2. abcd \in Seq(Hinted(three) \cup Hinted({"offer"})) /\ IsInjective(abcd)
    BY <1>3, <1>9, <1>10, <1>11, <2>1, Joined
  <2> QED BY <2>1, <2>2
<1>13. PICK four : four = three \cup {"offer"}
  OBVIOUS
<1>14. PICK all : all = abcd \o e
  OBVIOUS
<1>15. all \in Seq(Hinted(four \cup {"unknown"})) /\ IsInjective(all)
  <2>1. /\ Hinted(four) \cap Hinted({"unknown"}) = {}
        /\ Hinted(four) \cup Hinted({"unknown"}) = Hinted(four \cup {"unknown"})
    BY <1>4, <1>7, <1>10, <1>13
  <2>2. all \in Seq(Hinted(four) \cup Hinted({"unknown"})) /\ IsInjective(all)
    BY <1>3, <1>12, <1>13, <1>14, <2>1, Joined
  <2> QED BY <2>1, <2>2
<1>16. PICK length : length = IF 2 * Target > Limits.plan THEN 2 * Target ELSE Limits.plan
  OBVIOUS
<1>17. length \in Nat
  <2>1. Limits.plan \in Nat /\ Target \in Nat
    BY DiscoveryAssumption
  <2> QED BY <2>1, <1>16
<1>18. urlPlan = First(all, length)
  BY <1>2, <1>5, <1>8, <1>11, <1>14, <1>16 DEF BuildFetchPlan
<1>19. all \in Seq(DOMAIN HintOf)
  <2>1. Hinted(four \cup {"unknown"}) \subseteq DOMAIN HintOf
    BY DEF Hinted
  <2> QED BY <1>15, <2>1, SeqOfMore
<1>20. urlPlan \in Seq(DOMAIN HintOf) /\ Thinned(urlPlan, all)
  BY <1>17, <1>18, <1>19, FirstThins
<1> QED BY <1>15, <1>19, <1>20, ThinnedOnce


\* What the discovery of a site has in hand at each step.
FoundPages ==
  [source : {"sitemap", "fallback"}, asked : DOMAIN HintOf, url : FinalUrls,
   type : ToSet(PageTypes)]
AskedIn(some) == [i \in DOMAIN some |-> some[i].asked]
UrlPlan == BuildFetchPlan(Candidates)

WalkFits ==
  /\ queued \in Seq(DOMAIN LinksOf)
  /\ found \subseteq DOMAIN HintOf /\ home.linked \subseteq DOMAIN HintOf

Probing == step \in {"probing", "fallback"}

\* A probe has the page of the URL asked, a browser that of any URL.
OfProbe(page) == page.source = "sitemap" /\ page.url = page.asked
OfStep(page) == IF step = "probing" THEN OfProbe(page) ELSE page.source = "fallback"

\* Workers are at places of the batch, an answer is at the place of the URL asked, and
\* the batch keeps the order of the plan.
ProbesFit ==
  /\ urls \in Seq(DOMAIN HintOf)
  /\ index \in Nat \ {0} /\ entryOf \in [Workers -> 0..Len(urls)]
  /\ ~Probing => entryOf = Idle
  /\ Probing =>
       /\ Thinned(urls, UrlPlan)
       /\ outputs \in [1..Len(urls) -> {Missing} \cup FoundPages]
       /\ \A i \in 1..Len(urls) :
            outputs[i] # Missing => outputs[i].asked = urls[i] /\ OfStep(outputs[i])

\* While the browser tries what is left, the pages are those of the probes, and it asks
\* for none of their URLs.
PagesFit ==
  /\ pages \in Seq(FoundPages)
  /\ step = "fallback" =>
       /\ home.browser /\ Thinned(AskedIn(pages), UrlPlan)
       /\ \A i \in DOMAIN pages :
            OfProbe(pages[i]) /\ \A m \in DOMAIN urls : pages[i].asked # urls[m]

\* What PagesFollowThePlan says of two pages, the first before the second.
Follows(one, two) ==
  /\ one.url # two.url /\ one.asked # two.asked
  /\ IF one.source = two.source
     THEN PlaceIn(UrlPlan, one.asked) < PlaceIn(UrlPlan, two.asked)
     ELSE one.source = "sitemap" /\ home.browser

DiscoveryIInv == WalkFits /\ ProbesFit /\ PagesFit /\ PagesFollowThePlan

LEMMA CandidatesOfSite ==
  ASSUME WalkFits
  PROVE  Candidates \in SUBSET DOMAIN HintOf
BY DiscoveryAssumption DEF WalkFits, Candidates

\* The pages that answered, at their places, keep the order of the plan.
LEMMA PagesInOrder ==
  ASSUME ProbesFit, Probing, NEW answered, answered = Pages
  PROVE  /\ answered \in Seq(FoundPages) /\ Thinned(AskedIn(answered), UrlPlan)
         /\ \A k \in DOMAIN answered :
              OfStep(answered[k]) /\ \E m \in DOMAIN urls : answered[k].asked = urls[m]
<1>1. PICK n \in Nat : n = Len(urls)
  BY DEF ProbesFit
<1>2. /\ outputs \in [1..n -> {Missing} \cup FoundPages] /\ outputs \in Seq({Missing} \cup FoundPages)
      /\ \A i \in 1..n : outputs[i] # Missing => outputs[i].asked = urls[i] /\ OfStep(outputs[i])
      /\ DOMAIN outputs = 1..n /\ DOMAIN urls = 1..n
  BY <1>1 DEF ProbesFit
<1>3. PICK places : places = {i \in DOMAIN outputs : outputs[i] # Missing}
  OBVIOUS
<1>4. places \in SUBSET DOMAIN outputs /\ answered = EntriesAt(outputs, places)
  BY <1>3 DEF Pages
<1>5. /\ answered \in Seq({Missing} \cup FoundPages) /\ Thinned(answered, outputs)
      /\ \A k \in DOMAIN answered : \E i \in places : answered[k] = outputs[i]
  <2>1. PICK probed : probed = outputs
    OBVIOUS
  <2>2. /\ probed \in Seq({Missing} \cup FoundPages)
        /\ places \in SUBSET DOMAIN probed /\ answered = EntriesAt(probed, places)
    BY <2>1, <1>2, <1>4
  <2>3. /\ answered \in Seq({Missing} \cup FoundPages) /\ Thinned(answered, probed)
        /\ \A k \in DOMAIN answered : \E i \in places : answered[k] = probed[i]
    BY <2>2, EntriesAtThins
  <2> QED BY <2>1, <2>3
<1>6. \A k \in DOMAIN answered : answered[k] # Missing /\ answered[k] \in FoundPages
  BY <1>2, <1>3, <1>5
<1>7. answered \in Seq(FoundPages)
  <2>1. PICK m \in Nat : m = Len(answered)
    BY <1>5
  <2>2. answered \in [1..m -> FoundPages]
    BY <2>1, <1>5, <1>6
  <2> QED BY <2>1, <2>2
<1>8. PICK pick \in [DOMAIN answered -> DOMAIN outputs] :
        /\ \A k \in DOMAIN answered : answered[k] = outputs[pick[k]]
        /\ \A j, k \in DOMAIN answered : j < k => pick[j] < pick[k]
  BY <1>5 DEF Thinned
<1>9. PICK seen : seen = AskedIn(answered)
  OBVIOUS
<1>10. DOMAIN seen = DOMAIN answered /\ \A k \in DOMAIN seen : seen[k] = answered[k].asked
  BY <1>9 DEF AskedIn
<1>11. pick \in [DOMAIN seen -> DOMAIN urls]
  BY <1>2, <1>8, <1>10
<1>12. \A k \in DOMAIN answered : answered[k].asked = urls[pick[k]] /\ OfStep(answered[k])
  BY <1>2, <1>6, <1>8
<1>13. Thinned(seen, urls)
  BY <1>8, <1>10, <1>11, <1>12 DEF Thinned
<1>14. Thinned(seen, UrlPlan)
  BY <1>13, ThinnedTwice DEF ProbesFit
<1>15. ASSUME NEW k \in DOMAIN answered PROVE \E m \in DOMAIN urls : answered[k].asked = urls[m]
  BY <1>2, <1>8, <1>12
<1> QED BY <1>7, <1>9, <1>12, <1>14, <1>15

\* What keeps the order of a plan was asked at growing places.
LEMMA PlacesGrow ==
  ASSUME NEW S, NEW urlPlan \in Seq(S), IsInjective(urlPlan),
         NEW seen, Thinned(AskedIn(seen), urlPlan)
  PROVE  \A i, j \in DOMAIN seen : i < j =>
           /\ PlaceIn(urlPlan, seen[i].asked) < PlaceIn(urlPlan, seen[j].asked)
           /\ seen[i].asked # seen[j].asked
<1>1. PICK asked : asked = AskedIn(seen)
  OBVIOUS
<1>2. DOMAIN asked = DOMAIN seen /\ \A k \in DOMAIN seen : asked[k] = seen[k].asked
  BY <1>1 DEF AskedIn
<1>3. PICK pick \in [DOMAIN asked -> DOMAIN urlPlan] :
        /\ \A k \in DOMAIN asked : asked[k] = urlPlan[pick[k]]
        /\ \A j, k \in DOMAIN asked : j < k => pick[j] < pick[k]
  BY <1>1 DEF Thinned
<1>4. ASSUME NEW k \in DOMAIN seen
      PROVE  PlaceIn(urlPlan, seen[k].asked) = pick[k] /\ pick[k] \in Nat
  <2>1. pick[k] \in DOMAIN urlPlan /\ urlPlan[pick[k]] = seen[k].asked
    BY <1>2, <1>3
  <2>2. \A m \in DOMAIN urlPlan : urlPlan[m] = seen[k].asked => m = pick[k]
    BY <2>1 DEF IsInjective
  <2>3. PlaceIn(urlPlan, seen[k].asked) = pick[k]
    BY <2>1, <2>2 DEF PlaceIn
  <2> QED BY <2>1, <2>3
<1> SUFFICES ASSUME NEW i \in DOMAIN seen, NEW j \in DOMAIN seen, i < j
             PROVE  /\ PlaceIn(urlPlan, seen[i].asked) < PlaceIn(urlPlan, seen[j].asked)
                    /\ seen[i].asked # seen[j].asked
  OBVIOUS
<1>5. pick[i] < pick[j] /\ pick[i] # pick[j]
  BY <1>2, <1>3, <1>4
<1> QED BY <1>4, <1>5

\* Pages of the probes follow the plan.
LEMMA ProbedFollow ==
  ASSUME WalkFits, NEW probed \in Seq(FoundPages), Thinned(AskedIn(probed), UrlPlan),
         \A k \in DOMAIN probed : OfProbe(probed[k])
  PROVE  \A i, j \in DOMAIN probed : i < j => Follows(probed[i], probed[j])
<1>1. PICK urlPlan : urlPlan = UrlPlan
  OBVIOUS
<1>2. urlPlan \in Seq(DOMAIN HintOf) /\ IsInjective(urlPlan)
  BY <1>1, CandidatesOfSite, FetchPlanFits DEF UrlPlan
<1>3. \A i, j \in DOMAIN probed : i < j =>
        /\ PlaceIn(urlPlan, probed[i].asked) < PlaceIn(urlPlan, probed[j].asked)
        /\ probed[i].asked # probed[j].asked
  BY <1>1, <1>2, PlacesGrow
<1> QED BY <1>1, <1>3 DEF OfProbe, Follows

\* The pages of the probes and then those of the browser follow the plan.
LEMMA BothFollow ==
  ASSUME WalkFits, home.browser, NEW probed \in Seq(FoundPages), NEW more \in Seq(FoundPages),
         Thinned(AskedIn(probed), UrlPlan), Thinned(AskedIn(more), UrlPlan),
         \A k \in DOMAIN probed : OfProbe(probed[k]),
         \A k \in DOMAIN more : more[k].source = "fallback",
         \A i \in DOMAIN probed, k \in DOMAIN more :
           probed[i].asked # more[k].asked /\ probed[i].url # more[k].url,
         \A j, k \in DOMAIN more : j < k => more[j].url # more[k].url,
         NEW all, all = probed \o more
  PROVE  all \in Seq(FoundPages) /\ \A i, j \in DOMAIN all : i < j => Follows(all[i], all[j])
<1>1. PICK m \in Nat, n \in Nat : m = Len(probed) /\ n = Len(more)
  OBVIOUS
<1>2. /\ all \in Seq(FoundPages) /\ Len(all) = m + n
      /\ \A k \in 1..m : all[k] = probed[k]
      /\ \A k \in m + 1..m + n : all[k] = more[k - m] /\ k - m \in 1..n
  BY <1>1
<1>3. DOMAIN probed = 1..m /\ DOMAIN more = 1..n /\ DOMAIN all = 1..m + n
  BY <1>1, <1>2
<1>4. PICK urlPlan : urlPlan = UrlPlan
  OBVIOUS
<1>5. urlPlan \in Seq(DOMAIN HintOf) /\ IsInjective(urlPlan)
  BY <1>4, CandidatesOfSite, FetchPlanFits DEF UrlPlan
<1>6. \A i, j \in 1..m : i < j => Follows(probed[i], probed[j])
  BY <1>3, ProbedFollow
<1>7. ASSUME NEW i \in 1..n, NEW j \in 1..n, i < j PROVE Follows(more[i], more[j])
  <2>1. /\ PlaceIn(urlPlan, more[i].asked) < PlaceIn(urlPlan, more[j].asked)
        /\ more[i].asked # more[j].asked
    BY <1>3, <1>5, <1>4, <1>7, PlacesGrow
  <2>2. more[i].url # more[j].url /\ more[i].source = more[j].source
    BY <1>3, <1>7
  <2> QED BY <2>1, <2>2, <1>4 DEF Follows
<1>8. ASSUME NEW i \in 1..m, NEW j \in 1..n PROVE Follows(probed[i], more[j])
  <2>1. /\ probed[i].source = "sitemap" /\ more[j].source = "fallback"
        /\ probed[i].url # more[j].url /\ probed[i].asked # more[j].asked
    BY <1>3 DEF OfProbe
  <2> QED BY <2>1 DEF Follows
<1>9. ASSUME NEW i \in 1..m + n, NEW j \in 1..m + n, i < j PROVE Follows(all[i], all[j])
  <2>1. CASE j <= m
    <3>1. i \in 1..m /\ j \in 1..m
      BY <1>9, <2>1
    <3> QED BY <3>1, <1>2, <1>6, <1>9
  <2>2. CASE ~(j <= m) /\ i <= m
    <3>1. i \in 1..m /\ j \in m + 1..m + n
      BY <1>9, <2>2
    <3>2. all[i] = probed[i] /\ all[j] = more[j - m] /\ j - m \in 1..n
      BY <3>1, <1>2
    <3> QED BY <3>1, <3>2, <1>8
  <2>3. CASE ~(j <= m) /\ ~(i <= m)
    <3>1. i \in m + 1..m + n /\ j \in m + 1..m + n
      BY <1>9, <2>3
    <3>2. /\ all[i] = more[i - m] /\ i - m \in 1..n
          /\ all[j] = more[j - m] /\ j - m \in 1..n
      BY <3>1, <1>2
    <3>3. i - m < j - m
      BY <1>9, <3>1
    <3> QED BY <3>2, <3>3, <1>7
  <2> QED BY <2>1, <2>2, <2>3
<1> QED BY <1>2, <1>3, <1>9

\* The places that the entries at some places are from.
LEMMA EntriesAtPicks ==
  ASSUME NEW S, NEW s \in Seq(S), NEW places \in SUBSET DOMAIN s,
         NEW t, t = EntriesAt(s, places)
  PROVE  \E pick \in [DOMAIN t -> places] :
           /\ \A n \in DOMAIN t : t[n] = s[pick[n]]
           /\ \A m, n \in DOMAIN t : m < n => pick[m] < pick[n]
<1>1. PICK size \in Nat : size = Len(s)
  OBVIOUS
<1>2. places \in SUBSET Nat /\ IsFiniteSet(places)
  <2>1. IsFiniteSet(1..size)
    BY <1>1, FS_Interval
  <2>2. places \in SUBSET (1..size)
    BY <1>1
  <2> QED BY <2>1, <2>2, FS_Subset
<1>3. PICK up : up = Ascending(places)
  OBVIOUS
<1>4. /\ up \in Seq(places) /\ DOMAIN up = 1..Cardinality(places) /\ Cardinality(places) \in Nat
      /\ \A m, n \in DOMAIN up : m < n => up[m] < up[n]
  BY <1>2, <1>3, AscendingFits
<1>5. t = [n \in 1..Cardinality(places) |-> s[up[n]]]
  BY <1>3 DEF EntriesAt
<1>6. DOMAIN t = DOMAIN up /\ \A n \in DOMAIN t : t[n] = s[up[n]]
  BY <1>4, <1>5
<1>7. up \in [DOMAIN t -> places]
  BY <1>4, <1>6
<1> QED BY <1>4, <1>6, <1>7

LEMMA DiscoveryStarts == DiscoveryInit => DiscoveryIInv
<1> SUFFICES ASSUME DiscoveryInit PROVE DiscoveryIInv
  OBVIOUS
<1>1. WalkFits
  BY DEF DiscoveryInit, WalkFits, NoHome
<1>2. ProbesFit
  BY DEF DiscoveryInit, ProbesFit, Idle, Probing
<1>3. PagesFit /\ PagesFollowThePlan
  BY DEF DiscoveryInit, PagesFit, PagesFollowThePlan
<1> QED BY <1>1, <1>2, <1>3 DEF DiscoveryIInv

\* What a sitemap lists of further sitemaps is added to the walk.
LEMMA SitemapsQueue ==
  ASSUME NEW links, NEW shop \in DOMAIN LinksOf, links = LinksOf[shop],
         NEW places \in SUBSET DOMAIN links, \A i \in places : links[i] \in DOMAIN LinksOf
  PROVE  EntriesAt(links, places) \in Seq(DOMAIN LinksOf)
<1>1. PICK listed : listed = DOMAIN LinksOf \union DOMAIN HintOf
  OBVIOUS
<1>2. PICK added : added = EntriesAt(links, places)
  OBVIOUS
<1>3. /\ added \in Seq(listed)
      /\ \A n \in DOMAIN added : \E i \in places : added[n] = links[i]
  <2>1. links \in Seq(listed)
    BY <1>1, DiscoveryAssumption
  <2> QED BY <1>2, <2>1, EntriesAtThins
<1>4. \A n \in DOMAIN added : added[n] \in DOMAIN LinksOf
  BY <1>3
<1>5. PICK n \in Nat : n = Len(added)
  BY <1>3
<1>6. added \in [1..n -> DOMAIN LinksOf]
  BY <1>3, <1>4, <1>5
<1> QED BY <1>2, <1>5, <1>6

\* A batch that keeps the order of the plan is probed.
LEMMA BatchFits ==
  ASSUME NEW batch \in Seq(DOMAIN HintOf), NEW next \in {"probing", "fallback"},
         StartProbes(batch, next), Thinned(batch, UrlPlan')
  PROVE  ProbesFit'
<1>1. PICK n \in Nat : n = Len(batch)
  OBVIOUS
<1>2. urls' = batch /\ index' = 1 /\ entryOf' = Idle /\ step' = next
      /\ outputs' = [i \in 1..n |-> Missing]
  BY <1>1 DEF StartProbes
<1>3. entryOf' \in [Workers -> 0..Len(urls')] /\ index' \in Nat \ {0}
  BY <1>1, <1>2 DEF Idle
<1>4. /\ outputs' \in [1..Len(urls') -> {Missing} \cup FoundPages]
      /\ \A i \in 1..Len(urls') : outputs'[i] = Missing
  BY <1>1, <1>2
<1>5. Probing'
  BY <1>2 DEF Probing
<1> QED BY <1>2, <1>3, <1>4, <1>5 DEF ProbesFit

\* Nothing changes of the plan while its URLs are probed.
LEMMA PlanStays == UNCHANGED <<home, walkVars>> => UrlPlan' = UrlPlan /\ (WalkFits => WalkFits')
BY DEF walkVars, UrlPlan, Candidates, WalkFits

\* Every step of the discovery keeps the invariant.
LEMMA DiscoveryStep == DiscoveryIInv /\ [DiscoveryNext]_discoveryVars => DiscoveryIInv'
<1> SUFFICES ASSUME DiscoveryIInv, [DiscoveryNext]_discoveryVars PROVE DiscoveryIInv'
  OBVIOUS
<1>0. WalkFits /\ ProbesFit /\ PagesFit /\ PagesFollowThePlan
  BY DEF DiscoveryIInv
<1>1. CASE UNCHANGED discoveryVars
  <2>1. UNCHANGED <<home, walkVars>> /\ UNCHANGED <<step, urls, index, entryOf, outputs, pages>>
    BY <1>1 DEF discoveryVars, walkVars
  <2>2. WalkFits' /\ UrlPlan' = UrlPlan
    BY <2>1, <1>0, PlanStays
  <2>3. ProbesFit' /\ PagesFit'
    BY <2>1, <2>2, <1>0 DEF ProbesFit, PagesFit, Probing, OfStep
  <2>4. PagesFollowThePlan'
    BY <2>1, <2>2, <1>0 DEF PagesFollowThePlan, UrlPlan
  <2> QED BY <2>2, <2>3, <2>4 DEF DiscoveryIInv
<1>2. CASE ProbeHomepage
  <2>1. /\ step = "idle" /\ step' = "sitemaps" /\ queued' = Roots
        /\ home'.linked \subseteq DOMAIN HintOf
        /\ UNCHANGED <<visited, found, urls, index, entryOf, outputs, pages>>
    BY <1>2 DEF ProbeHomepage, probeVars
  <2>2. WalkFits'
    BY <2>1, <1>0, DiscoveryAssumption DEF WalkFits
  <2>3. ProbesFit' /\ PagesFit' /\ PagesFollowThePlan'
    BY <2>1, <1>0 DEF ProbesFit, PagesFit, Probing, PagesFollowThePlan
  <2> QED BY <2>2, <2>3 DEF DiscoveryIInv
<1>3. CASE ReadSitemap
  <2>1. /\ step = "sitemaps" /\ step' = "sitemaps" /\ queued # <<>>
        /\ UNCHANGED <<home, urls, index, entryOf, outputs, pages>>
    BY <1>3 DEF ReadSitemap, probeVars, WalkGoesOn
  <2>2. PICK current : current = Head(queued)
    OBVIOUS
  <2>3. current \in DOMAIN LinksOf /\ Tail(queued) \in Seq(DOMAIN LinksOf)
    BY <2>1, <2>2, <1>0 DEF WalkFits
  <2>4. PICK links : links = LinksOf[current]
    OBVIOUS
  <2>5. PICK read : read = {i \in DOMAIN links :
                              Cardinality(found \union UrlsAmong(links, 1..i - 1))
                                < Limits.sitemapUrls}
    OBVIOUS
  <2>6. PICK places : places = {i \in read : links[i] \in DOMAIN LinksOf \ visited'}
    OBVIOUS
  <2>7. PICK added : added = EntriesAt(links, places)
    OBVIOUS
  <2>8. \/ queued' = Tail(queued) /\ found' = found
        \/ queued' = Tail(queued) \o added /\ found' = found \union UrlsAmong(links, read)
    BY <1>3, <2>2, <2>4, <2>5, <2>7, <2>6 DEF ReadSitemap
  <2>9. added \in Seq(DOMAIN LinksOf)
    <3>1. places \in SUBSET DOMAIN links /\ \A i \in places : links[i] \in DOMAIN LinksOf
      BY <2>5, <2>6
    <3> QED BY <2>3, <2>4, <2>7, <3>1, SitemapsQueue
  <2>10. UrlsAmong(links, read) \subseteq DOMAIN HintOf
    <3>1. links \in Seq(DOMAIN LinksOf \union DOMAIN HintOf)
      BY <2>3, <2>4, DiscoveryAssumption
    <3>2. \A i \in read : links[i] \in DOMAIN LinksOf \union DOMAIN HintOf
      BY <3>1, <2>5
    <3> QED BY <3>2 DEF UrlsAmong
  <2>11. WalkFits'
    <3>1. queued' \in Seq(DOMAIN LinksOf)
      <4>1. PICK rest : rest = Tail(queued)
        OBVIOUS
      <4>2. rest \in Seq(DOMAIN LinksOf) /\ rest \o added \in Seq(DOMAIN LinksOf)
        BY <4>1, <2>3, <2>9
      <4> QED BY <4>1, <4>2, <2>8
    <3>2. found' \subseteq DOMAIN HintOf
      BY <2>8, <2>10, <1>0 DEF WalkFits
    <3> QED BY <2>1, <3>1, <3>2, <1>0 DEF WalkFits
  <2>12. ProbesFit' /\ PagesFit' /\ PagesFollowThePlan'
    BY <2>1, <1>0 DEF ProbesFit, PagesFit, Probing, PagesFollowThePlan
  <2> QED BY <2>11, <2>12 DEF DiscoveryIInv
<1>4. CASE PlanProbes
  <2>1. UNCHANGED <<home, walkVars, pages>> /\ step' = "probing"
    BY <1>4 DEF PlanProbes, StartProbes
  <2>2. PICK batch : batch = UrlPlan
    OBVIOUS
  <2>3. StartProbes(batch, "probing")
    BY <1>4, <2>2 DEF PlanProbes, UrlPlan
  <2>4. WalkFits' /\ UrlPlan' = batch
    BY <2>1, <2>2, <1>0, PlanStays
  <2>5. batch \in Seq(DOMAIN HintOf) /\ Thinned(batch, batch)
    BY <2>2, <1>0, CandidatesOfSite, FetchPlanFits, Unthinned DEF UrlPlan
  <2>6. ProbesFit'
    BY <2>3, <2>4, <2>5, BatchFits
  <2>7. PagesFit' /\ PagesFollowThePlan'
    BY <2>1, <1>0 DEF PagesFit, PagesFollowThePlan
  <2> QED BY <2>4, <2>6, <2>7 DEF DiscoveryIInv
<1>5. ASSUME NEW w \in Workers, TakeEntry(w) PROVE DiscoveryIInv'
  <2>1. /\ UNCHANGED <<home, walkVars>> /\ UNCHANGED <<step, urls, outputs, pages>>
        /\ step \in {"probing", "fallback"} /\ index <= Len(urls)
        /\ entryOf' = [entryOf EXCEPT ![w] = index] /\ index' = index + 1
    BY <1>5 DEF TakeEntry
  <2>2. WalkFits' /\ UrlPlan' = UrlPlan
    BY <2>1, <1>0, PlanStays
  <2>3. entryOf' \in [Workers -> 0..Len(urls')] /\ index' \in Nat \ {0}
    <3>1. index \in 0..Len(urls)
      BY <2>1, <1>0 DEF ProbesFit
    <3> QED BY <2>1, <3>1, <1>0 DEF ProbesFit
  <2>4. ProbesFit' /\ PagesFit'
    BY <2>1, <2>2, <2>3, <1>0 DEF ProbesFit, PagesFit, Probing, OfStep
  <2>5. PagesFollowThePlan'
    BY <2>1 DEF PagesFollowThePlan
  <2> QED BY <2>2, <2>4, <2>5 DEF DiscoveryIInv
<1>6. ASSUME NEW w \in Workers, PageAnswers(w) PROVE DiscoveryIInv'
  <2>1. /\ UNCHANGED <<home, walkVars>> /\ UNCHANGED <<step, urls, index, pages>>
        /\ entryOf[w] # 0 /\ entryOf' = [entryOf EXCEPT ![w] = 0]
    BY <1>6 DEF PageAnswers
  <2>2. WalkFits' /\ UrlPlan' = UrlPlan
    BY <2>1, <1>0, PlanStays
  <2>3. Probing
    BY <2>1, <1>0 DEF ProbesFit, Idle
  <2>4. PICK entry : entry = entryOf[w]
    OBVIOUS
  <2>5. entry \in 1..Len(urls) /\ urls[entry] \in DOMAIN HintOf
    BY <2>1, <2>4, <1>0 DEF ProbesFit
  <2>6. \/ outputs' = outputs
        \/ \E page \in FoundPages : /\ page.asked = urls[entry] /\ OfStep(page)
                                   /\ outputs' = [outputs EXCEPT ![entry] = page]
    <3>1. CASE UNCHANGED outputs
      BY <3>1
    <3>2. ASSUME ~UNCHANGED outputs
          PROVE  \E page \in FoundPages : /\ page.asked = urls[entry] /\ OfStep(page)
                                         /\ outputs' = [outputs EXCEPT ![entry] = page]
      <4>1. PICK url \in IF step = "probing" THEN {urls[entry]} ELSE FinalUrls,
                 type \in ToSet(PageTypes) :
              outputs' = [outputs EXCEPT ![entry] =
                            FoundPage(IF step = "probing" THEN "sitemap" ELSE "fallback",
                                      urls[entry], url, type)]
        BY <1>6, <3>2, <2>4 DEF PageAnswers, PlaceOf
      <4>2. PICK page : page = FoundPage(IF step = "probing" THEN "sitemap" ELSE "fallback",
                                         urls[entry], url, type)
        OBVIOUS
      <4>3. page \in FoundPages /\ page.asked = urls[entry] /\ OfStep(page)
        <5>1. url \in FinalUrls /\ type \in ToSet(PageTypes)
          BY <2>5, <4>1, DiscoveryAssumption
        <5> QED BY <5>1, <2>5, <4>1, <4>2 DEF FoundPage, FoundPages, OfStep, OfProbe
      <4> QED BY <4>1, <4>2, <4>3
    <3> QED BY <3>1, <3>2
  <2>7. /\ outputs \in [1..Len(urls) -> {Missing} \cup FoundPages]
        /\ \A i \in 1..Len(urls) :
             outputs[i] # Missing => outputs[i].asked = urls[i] /\ OfStep(outputs[i])
    BY <2>3, <1>0 DEF ProbesFit
  <2>8. /\ outputs' \in [1..Len(urls) -> {Missing} \cup FoundPages]
        /\ \A i \in 1..Len(urls) :
             outputs'[i] # Missing => outputs'[i].asked = urls[i] /\ OfStep(outputs'[i])
    <3>1. CASE outputs' = outputs
      BY <3>1, <2>7
    <3>2. ASSUME NEW page \in FoundPages, page.asked = urls[entry], OfStep(page),
                 outputs' = [outputs EXCEPT ![entry] = page]
          PROVE  /\ outputs' \in [1..Len(urls) -> {Missing} \cup FoundPages]
                 /\ \A i \in 1..Len(urls) :
                      outputs'[i] # Missing => outputs'[i].asked = urls[i] /\ OfStep(outputs'[i])
      <4>1. outputs' \in [1..Len(urls) -> {Missing} \cup FoundPages]
        BY <3>2, <2>7
      <4>2. ASSUME NEW i \in 1..Len(urls)
            PROVE  outputs'[i] # Missing => outputs'[i].asked = urls[i] /\ OfStep(outputs'[i])
        <5>1. outputs'[i] = IF i = entry THEN page ELSE outputs[i]
          BY <3>2, <2>7
        <5> QED BY <5>1, <3>2, <2>7
      <4> QED BY <4>1, <4>2
    <3> QED BY <2>6, <3>1, <3>2
  <2>9. entryOf' \in [Workers -> 0..Len(urls)]
    BY <2>1, <1>0 DEF ProbesFit
  <2>10. ProbesFit' /\ PagesFit'
    BY <2>1, <2>2, <2>3, <2>8, <2>9, <1>0 DEF ProbesFit, PagesFit, Probing, OfStep
  <2>11. PagesFollowThePlan'
    BY <2>1, <2>3 DEF PagesFollowThePlan, Probing
  <2> QED BY <2>2, <2>10, <2>11 DEF DiscoveryIInv
<1>7. CASE EndProbes
  <2>1. /\ UNCHANGED <<home, walkVars>> /\ step = "probing" /\ AllAnswered
        /\ pages' = Pages
    BY <1>7 DEF EndProbes
  <2>2. WalkFits' /\ UrlPlan' = UrlPlan
    BY <2>1, <1>0, PlanStays
  <2>3. PICK answered : answered = Pages
    OBVIOUS
  <2>4. /\ answered \in Seq(FoundPages) /\ Thinned(AskedIn(answered), UrlPlan)
        /\ \A k \in DOMAIN answered : OfProbe(answered[k])
    <3>1. /\ answered \in Seq(FoundPages) /\ Thinned(AskedIn(answered), UrlPlan)
          /\ \A k \in DOMAIN answered : OfStep(answered[k])
      BY <2>1, <2>3, <1>0, PagesInOrder DEF Probing
    <3> QED BY <3>1, <2>1 DEF OfStep
  <2>5. CASE home.browser /\ Len(Pages) < Target
    <3>1. PICK places : places = {k \in DOMAIN urls : \A i \in DOMAIN Pages : Pages[i].url # urls[k]}
      OBVIOUS
    <3>2. PICK missing : missing = EntriesAt(urls, places)
      OBVIOUS
    <3>3. PICK least : least = IF Target - Len(Pages) > Limits.fallbackLeast
                               THEN Target - Len(Pages) ELSE Limits.fallbackLeast
      OBVIOUS
    <3>4. PICK size : size = IF least < Limits.fallbackMost THEN least ELSE Limits.fallbackMost
      OBVIOUS
    <3>5. PICK batch : batch = First(missing, size)
      OBVIOUS
    <3>6. StartProbes(batch, "fallback")
      BY <1>7, <2>5, <3>1, <3>2, <3>3, <3>4, <3>5 DEF EndProbes
    <3>7. size \in Nat
      <4>1. Len(answered) \in Nat /\ Len(answered) < Target /\ Target \in Nat
        BY <2>3, <2>4, <2>5, DiscoveryAssumption
      <4>2. Limits.fallbackLeast \in Nat /\ Limits.fallbackMost \in Nat
        BY DiscoveryAssumption
      <4>3. Target - Len(answered) \in Nat
        BY <4>1
      <4>4. least \in Nat
        BY <4>2, <4>3, <3>3, <2>3
      <4> QED BY <4>2, <4>4, <3>4
    <3>8. urls \in Seq(DOMAIN HintOf) /\ Thinned(urls, UrlPlan) /\ places \in SUBSET DOMAIN urls
      BY <2>1, <3>1, <1>0 DEF ProbesFit, Probing
    <3>9. missing \in Seq(DOMAIN HintOf) /\ Thinned(missing, urls)
      BY <3>2, <3>8, EntriesAtThins
    <3>10. batch \in Seq(DOMAIN HintOf) /\ Thinned(batch, missing)
      BY <3>5, <3>7, <3>9, FirstThins
    <3>11. ASSUME NEW i \in DOMAIN answered, NEW m \in DOMAIN batch
           PROVE  answered[i].asked # batch[m]
      <4>1. PICK k \in DOMAIN missing : batch[m] = missing[k]
        BY <3>10 DEF Thinned
      <4>2. PICK place \in places : missing[k] = urls[place]
        BY <4>1, <3>2, <3>8, EntriesAtThins
      <4>3. answered[i].url # urls[place]
        BY <2>3, <3>1
      <4> QED BY <4>1, <4>2, <4>3, <2>4 DEF OfProbe
    <3>12. Thinned(batch, UrlPlan')
      BY <3>8, <3>9, <3>10, <2>2, ThinnedTwice
    <3>13. ProbesFit'
      BY <3>6, <3>10, <3>12, BatchFits
    <3>14. step' = "fallback"
      BY <3>6 DEF StartProbes
    <3>15. PagesFit' /\ PagesFollowThePlan'
      BY <2>1, <2>2, <2>3, <2>4, <2>5, <3>6, <3>14, <3>11
         DEF PagesFit, PagesFollowThePlan, StartProbes
    <3> QED BY <2>2, <3>13, <3>15 DEF DiscoveryIInv
  <2>6. CASE ~(home.browser /\ Len(Pages) < Target)
    <3>1. step' = "selecting" /\ UNCHANGED <<urls, index, entryOf, outputs>>
      BY <1>7, <2>6 DEF EndProbes, probeVars
    <3>2. ProbesFit' /\ PagesFit'
      BY <2>1, <2>3, <2>4, <3>1, <1>0 DEF ProbesFit, PagesFit, Probing, AllAnswered
    <3>3. \A i, j \in DOMAIN answered : i < j => Follows(answered[i], answered[j])
      BY <1>0, <2>4, ProbedFollow
    <3>4. PagesFollowThePlan'
      BY <2>1, <2>2, <2>3, <3>3 DEF PagesFollowThePlan, Follows, UrlPlan
    <3> QED BY <2>2, <3>2, <3>4 DEF DiscoveryIInv
  <2> QED BY <2>5, <2>6
<1>8. CASE EndFallback
  <2>1. /\ UNCHANGED <<home, walkVars>> /\ UNCHANGED <<urls, index, entryOf, outputs>>
        /\ step = "fallback" /\ step' = "selecting" /\ AllAnswered
    BY <1>8 DEF EndFallback, probeVars
  <2>2. WalkFits' /\ UrlPlan' = UrlPlan
    BY <2>1, <1>0, PlanStays
  <2>3. PICK answered : answered = Pages
    OBVIOUS
  <2>4. PICK kept : kept = {k \in DOMAIN answered : ~IsElsewhere(k)}
    OBVIOUS
  <2>5. PICK more : more = EntriesAt(answered, kept)
    OBVIOUS
  <2>6. /\ answered \in Seq(FoundPages) /\ Thinned(AskedIn(answered), UrlPlan)
        /\ \A k \in DOMAIN answered :
             answered[k].source = "fallback" /\ \E m \in DOMAIN urls : answered[k].asked = urls[m]
    BY <2>1, <2>3, <1>0, PagesInOrder DEF Probing, OfStep
  <2>7. more \in Seq(FoundPages)
    BY <2>4, <2>5, <2>6, EntriesAtThins
  <2>8. PICK pick \in [DOMAIN more -> kept] :
          /\ \A k \in DOMAIN more : more[k] = answered[pick[k]]
          /\ \A j, k \in DOMAIN more : j < k => pick[j] < pick[k]
    <3>1. kept \in SUBSET DOMAIN answered
      BY <2>4
    <3> QED BY <3>1, <2>5, <2>6, EntriesAtPicks
  <2>9. ASSUME NEW k \in DOMAIN more
        PROVE  /\ pick[k] \in DOMAIN answered /\ more[k] = answered[pick[k]]
               /\ \A i \in DOMAIN pages : pages[i].url # more[k].url
               /\ \A j \in DOMAIN answered : j < pick[k] => answered[j].url # more[k].url
    BY <2>3, <2>4, <2>8 DEF IsElsewhere
  <2>10. Thinned(AskedIn(more), UrlPlan)
    <3>1. PICK seen, seenAll : seen = AskedIn(more) /\ seenAll = AskedIn(answered)
      OBVIOUS
    <3>2. /\ DOMAIN seen = DOMAIN more /\ \A k \in DOMAIN more : seen[k] = more[k].asked
          /\ DOMAIN seenAll = DOMAIN answered
          /\ \A k \in DOMAIN answered : seenAll[k] = answered[k].asked
      BY <3>1 DEF AskedIn
    <3>3. pick \in [DOMAIN seen -> DOMAIN seenAll]
      BY <2>4, <2>8, <3>2
    <3>4. \A k \in DOMAIN seen : seen[k] = seenAll[pick[k]]
      BY <2>9, <3>2
    <3>5. Thinned(seen, seenAll)
      BY <2>8, <3>2, <3>3, <3>4 DEF Thinned
    <3> QED BY <3>1, <3>5, <2>6, ThinnedTwice
  <2>11. PICK probed : probed = pages
    OBVIOUS
  <2>12. /\ home.browser /\ Thinned(AskedIn(probed), UrlPlan) /\ probed \in Seq(FoundPages)
         /\ \A i \in DOMAIN probed :
              OfProbe(probed[i]) /\ \A m \in DOMAIN urls : probed[i].asked # urls[m]
    BY <2>1, <2>11, <1>0 DEF PagesFit
  <2>13. \A i \in DOMAIN probed, k \in DOMAIN more :
           probed[i].asked # more[k].asked /\ probed[i].url # more[k].url
    <3> TAKE i \in DOMAIN probed, k \in DOMAIN more
    <3>1. PICK m \in DOMAIN urls : more[k].asked = urls[m]
      BY <2>6, <2>9
    <3> QED BY <3>1, <2>9, <2>11, <2>12
  <2>14. \A j, k \in DOMAIN more : j < k => more[j].url # more[k].url
    <3> TAKE j, k \in DOMAIN more
    <3> HAVE j < k
    <3>1. pick[j] < pick[k] /\ pick[j] \in DOMAIN answered /\ more[j] = answered[pick[j]]
      BY <2>8, <2>9
    <3> QED BY <3>1, <2>9
  <2>15. \A k \in DOMAIN more : more[k].source = "fallback"
    BY <2>6, <2>9
  <2>16. PICK all : all = probed \o more
    OBVIOUS
  <2>17. all \in Seq(FoundPages) /\ \A i, j \in DOMAIN all : i < j => Follows(all[i], all[j])
    BY <1>0, <2>7, <2>10, <2>12, <2>13, <2>14, <2>15, <2>16, BothFollow
  <2>18. pages' = all
    BY <1>8, <2>3, <2>4, <2>5, <2>11, <2>16 DEF EndFallback
  <2>19. ProbesFit' /\ PagesFit'
    BY <2>1, <2>17, <2>18, <1>0 DEF ProbesFit, PagesFit, Probing, AllAnswered
  <2>20. PagesFollowThePlan'
    BY <2>1, <2>2, <2>17, <2>18 DEF PagesFollowThePlan, Follows, UrlPlan
  <2> QED BY <2>2, <2>19, <2>20 DEF DiscoveryIInv
<1>9. CASE SelectDiscovered
  <2>1. /\ UNCHANGED <<home, walkVars>> /\ UNCHANGED <<urls, index, entryOf, outputs, pages>>
        /\ step = "selecting" /\ step' = "done"
    BY <1>9 DEF SelectDiscovered, probeVars
  <2>2. WalkFits'
    BY <2>1, <1>0, PlanStays
  <2>3. ProbesFit' /\ PagesFit' /\ PagesFollowThePlan'
    BY <2>1, <1>0 DEF ProbesFit, PagesFit, Probing, PagesFollowThePlan
  <2> QED BY <2>2, <2>3 DEF DiscoveryIInv
<1>10. CASE NextSite
  <2>1. /\ step' = "idle" /\ home' = NoHome /\ queued' = <<>> /\ found' = {} /\ pages' = <<>>
        /\ urls' = <<>> /\ index' = 1 /\ entryOf' = Idle
    BY <1>10 DEF NextSite
  <2>2. WalkFits'
    BY <2>1 DEF WalkFits, NoHome
  <2>3. ProbesFit'
    BY <2>1 DEF ProbesFit, Probing, Idle
  <2>4. PagesFit' /\ PagesFollowThePlan'
    BY <2>1 DEF PagesFit, PagesFollowThePlan
  <2> QED BY <2>2, <2>3, <2>4 DEF DiscoveryIInv
<1> QED BY <1>1, <1>2, <1>3, <1>4, <1>5, <1>6, <1>7, <1>8, <1>9, <1>10 DEF DiscoveryNext

\* The inductive invariant of a discovery: answers are at the places of the URLs asked, a
\* batch keeps the order of the plan, and the browser asks for no URL a probe served.
THEOREM DiscoveryInvariant == DiscoverySpec => []DiscoveryIInv
BY DiscoveryStarts, DiscoveryStep, PTL DEF DiscoverySpec

\* For any sitemaps, page types, redirects, limits and number of workers, and whichever of
\* them answers first, the pages to select from keep the order of the plan by the URLs
\* asked, each URL once (PagesFollowThePlan).
THEOREM PagesAlwaysFollowThePlan == DiscoverySpec => []PagesFollowThePlan
<1>1. DiscoveryIInv => PagesFollowThePlan
  BY DEF DiscoveryIInv
<1> QED BY <1>1, DiscoveryInvariant, PTL
-----------------------------------------------------------------------------
(* The snapshot of a page.                                                  *)

\* The artifacts that an observation may name, and those that callers name.
EvidenceNames == {a.id : a \in Artifacts} \cup UNION {o.evidence : o \in Samples}

Seen == [field : Nat, value : Nat, confidence : Int, evidence : SUBSET EvidenceNames]

\* A map that stands for the observations seen: one for each field and value.
Represents(map, seen) ==
  /\ IsFiniteSet(map) /\ map \subseteq Seen
  /\ \A m, k \in map : SameKey(m, k) => m = k
  /\ \A s \in seen : \E m \in map : SameKey(m, s)
  /\ \A m \in map :
       /\ \E s \in seen : SameKey(m, s) /\ s.confidence = m.confidence
       /\ \A s \in seen : SameKey(m, s) => s.confidence <= m.confidence
       /\ \A e : e \in m.evidence <=> \E s \in seen : SameKey(m, s) /\ e \in s.evidence

\* The one of two that are merged.
LEMMA PairMerges ==
  ASSUME NEW m \in Seen, NEW o \in Seen, SameKey(m, o), NEW one, one = MergeObservationPair(m, o)
  PROVE  /\ one \in Seen /\ SameKey(one, m) /\ SameKey(one, o)
         /\ one.evidence = m.evidence \cup o.evidence
         /\ one.confidence = IF m.confidence > o.confidence THEN m.confidence ELSE o.confidence
<1>1. one = [field |-> m.field, value |-> m.value,
             confidence |-> IF m.confidence > o.confidence THEN m.confidence ELSE o.confidence,
             evidence |-> m.evidence \cup o.evidence]
  BY DEF MergeObservationPair, Seen
<1> QED BY <1>1 DEF Seen, SameKey

\* One more observation: it is merged with the one of its field and value.
LEMMA AddRepresents ==
  ASSUME NEW seen \in SUBSET Seen, NEW map, Represents(map, seen), NEW o \in Seen,
         NEW next, next = AddObservation(map, o)
  PROVE  Represents(next, seen \cup {o})
<1>1. /\ IsFiniteSet(map) /\ map \subseteq Seen
      /\ \A m, k \in map : SameKey(m, k) => m = k
  BY DEF Represents
<1>2. CASE \E m \in map : SameKey(m, o)
  <2>1. PICK m \in map : SameKey(m, o)
    BY <1>2
  <2>2. PICK one : one = MergeObservationPair(m, o)
    OBVIOUS
  <2>3. /\ one \in Seen /\ SameKey(one, m) /\ SameKey(one, o)
        /\ one.evidence = m.evidence \cup o.evidence
        /\ one.confidence = IF m.confidence > o.confidence THEN m.confidence ELSE o.confidence
    BY <1>1, <2>1, <2>2, PairMerges
  <2>4. \A k \in map : SameKey(k, o) <=> k = m
    BY <1>1, <2>1 DEF SameKey
  <2>5. next = (map \ {m}) \cup {one}
    <3>1. next = {IF SameKey(k, o) THEN MergeObservationPair(k, o) ELSE k : k \in map}
      BY <1>2 DEF AddObservation
    <3>2. \A x : x \in next <=> \E k \in map : x = IF k = m THEN one ELSE k
      BY <3>1, <2>2, <2>4
    <3> QED BY <3>2, <2>1
  <2>6. IsFiniteSet(next) /\ next \subseteq Seen
    <3>1. IsFiniteSet(map \ {m})
      BY <1>1, FS_Difference
    <3>2. IsFiniteSet((map \ {m}) \cup {one})
      BY <3>1, FS_AddElement
    <3> QED BY <3>2, <2>3, <2>5, <1>1
  <2>7. \A k, l \in next : SameKey(k, l) => k = l
    <3>1. \A k \in map \ {m} : ~SameKey(k, one) /\ ~SameKey(one, k)
      BY <1>1, <2>1, <2>3 DEF SameKey
    <3> QED BY <3>1, <2>5, <1>1
  <2>8. \A s \in seen \cup {o} : \E k \in next : SameKey(k, s)
    <3> SUFFICES ASSUME NEW s \in seen \cup {o} PROVE \E k \in next : SameKey(k, s)
      OBVIOUS
    <3>1. CASE s = o
      BY <3>1, <2>3, <2>5
    <3>2. CASE s # o
      <4>1. PICK k \in map : SameKey(k, s)
        BY <3>2 DEF Represents
      <4>2. k = m => SameKey(one, s)
        BY <4>1, <2>3 DEF SameKey
      <4> QED BY <4>1, <4>2, <2>5
    <3> QED BY <3>1, <3>2
  <2>9. ASSUME NEW k \in next
        PROVE  /\ \E s \in seen \cup {o} : SameKey(k, s) /\ s.confidence = k.confidence
               /\ \A s \in seen \cup {o} : SameKey(k, s) => s.confidence <= k.confidence
               /\ \A e : e \in k.evidence <=> \E s \in seen \cup {o} : SameKey(k, s) /\ e \in s.evidence
    <3>1. CASE k = one
      <4>1. /\ \E s \in seen : SameKey(m, s) /\ s.confidence = m.confidence
            /\ \A s \in seen : SameKey(m, s) => s.confidence <= m.confidence
            /\ \A e : e \in m.evidence <=> \E s \in seen : SameKey(m, s) /\ e \in s.evidence
        BY <2>1 DEF Represents
      <4>2. \A s : SameKey(m, s) <=> SameKey(one, s)
        BY <2>3 DEF SameKey
      <4>3. m.confidence \in Int /\ o.confidence \in Int /\ \A s \in seen : s.confidence \in Int
        BY <1>1, <2>1 DEF Seen
      <4>4. \E s \in seen \cup {o} : SameKey(one, s) /\ s.confidence = one.confidence
        BY <4>1, <4>2, <4>3, <2>3
      <4>5. \A s \in seen \cup {o} : SameKey(one, s) => s.confidence <= one.confidence
        BY <4>1, <4>2, <4>3, <2>3
      <4>6. \A e : e \in one.evidence <=> \E s \in seen \cup {o} : SameKey(one, s) /\ e \in s.evidence
        BY <4>1, <4>2, <2>3
      <4> QED BY <3>1, <4>4, <4>5, <4>6
    <3>2. CASE k # one
      <4>1. k \in map /\ k # m
        BY <3>2, <2>5
      <4>2. ~SameKey(k, o)
        BY <4>1, <2>4
      <4> QED BY <4>1, <4>2 DEF Represents
    <3> QED BY <3>1, <3>2
  <2> QED BY <2>6, <2>7, <2>8, <2>9 DEF Represents
<1>3. CASE ~\E m \in map : SameKey(m, o)
  <2>1. next = map \cup {o}
    BY <1>3 DEF AddObservation
  <2>2. IsFiniteSet(next) /\ next \subseteq Seen
    BY <1>1, <2>1, FS_AddElement
  <2>3. \A k \in map : ~SameKey(k, o) /\ ~SameKey(o, k)
    BY <1>3 DEF SameKey
  <2>4. SameKey(o, o)
    BY DEF SameKey
  <2>5. \A k, l \in next : SameKey(k, l) => k = l
    BY <1>1, <2>1, <2>3
  <2>6. \A s \in seen \cup {o} : \E k \in next : SameKey(k, s)
    BY <2>1, <2>4 DEF Represents
  <2>7. \A s \in seen : ~SameKey(o, s)
    <3> SUFFICES ASSUME NEW s \in seen, SameKey(o, s) PROVE FALSE
      OBVIOUS
    <3>1. PICK m \in map : SameKey(m, s)
      BY DEF Represents
    <3> QED BY <3>1, <2>3 DEF SameKey
  <2>8. ASSUME NEW k \in next
        PROVE  /\ \E s \in seen \cup {o} : SameKey(k, s) /\ s.confidence = k.confidence
               /\ \A s \in seen \cup {o} : SameKey(k, s) => s.confidence <= k.confidence
               /\ \A e : e \in k.evidence <=> \E s \in seen \cup {o} : SameKey(k, s) /\ e \in s.evidence
    <3>1. CASE k = o
      <4>1. o.confidence \in Int
        BY DEF Seen
      <4> QED BY <3>1, <4>1, <2>4, <2>7
    <3>2. CASE k # o
      <4>1. k \in map /\ ~SameKey(k, o)
        BY <3>2, <2>1, <2>3
      <4> QED BY <4>1 DEF Represents
    <3> QED BY <3>1, <3>2
  <2> QED BY <2>2, <2>5, <2>6, <2>8 DEF Represents
<1> QED BY <1>2, <1>3


\* The maps of a call, one after the other; each but the first follows from the one before.
Steps(given, after, n) ==
  after = [k \in 0..n |-> IF k = 0 THEN {} ELSE AddObservation(after[k - 1], given[k])]

\* There are such maps: a least number of observations without them would have them.
LEMMA StepsExist ==
  ASSUME NEW given, NEW length \in Nat
  PROVE  \E after : Steps(given, after, length)
<1> DEFINE Bad == {n \in Nat : ~\E after : Steps(given, after, n)}
<1> SUFFICES ASSUME Bad # {} PROVE FALSE
  OBVIOUS
<1>1. PICK n \in Bad : \A m \in Bad : n <= m
  <2>1. Bad \in SUBSET Nat
    OBVIOUS
  <2> HIDE DEF Bad
  <2> QED BY <2>1, LeastIsThere
<1>2. n \in Nat /\ ~\E after : Steps(given, after, n)
  OBVIOUS
<1>3. n # 0
  <2>1. PICK after : after = [k \in 0..0 |-> {}]
    OBVIOUS
  <2>2. \A k \in 0..0 : k = 0
    OBVIOUS
  <2>3. Steps(given, after, 0)
    BY <2>1, <2>2 DEF Steps
  <2> QED BY <2>3, <1>2
<1>4. n - 1 \in Nat /\ n - 1 \notin Bad
  BY <1>1, <1>2, <1>3
<1>5. PICK before : Steps(given, before, n - 1)
  BY <1>4
<1>6. PICK after : after = [k \in 0..n |-> IF k = n THEN AddObservation(before[n - 1], given[n]) ELSE before[k]]
  OBVIOUS
<1>7. ASSUME NEW k \in 0..n
      PROVE  after[k] = IF k = 0 THEN {} ELSE AddObservation(after[k - 1], given[k])
  <2>1. CASE k = n
    <3>1. n - 1 \in 0..n /\ n - 1 # n
      BY <1>2, <1>3
    <3>2. after[n - 1] = before[n - 1]
      BY <3>1, <1>6
    <3> QED BY <2>1, <3>2, <1>3, <1>6
  <2>2. CASE k # n
    <3>1. k \in 0..n - 1
      BY <2>2, <1>2
    <3>2. after[k] = before[k]
      BY <2>2, <1>6
    <3>3. before[k] = IF k = 0 THEN {} ELSE AddObservation(before[k - 1], given[k])
      BY <3>1, <1>5 DEF Steps
    <3>4. CASE k = 0
      BY <3>2, <3>3, <3>4
    <3>5. CASE k # 0
      <4>1. k - 1 \in 0..n /\ k - 1 # n
        BY <3>1, <3>5, <1>2
      <4>2. after[k - 1] = before[k - 1]
        BY <4>1, <1>6
      <4> QED BY <3>2, <3>3, <3>5, <4>2
    <3> QED BY <3>4, <3>5
  <2> QED BY <2>1, <2>2
<1>8. Steps(given, after, n)
  <2>1. DOMAIN after = 0..n /\ after = [k \in 0..n |-> after[k]]
    BY <1>6
  <2> QED BY <2>1, <1>7 DEF Steps
<1> QED BY <1>8, <1>2

\* The map that a call ends with stands for everything it was given.
LEMMA MapRepresents ==
  ASSUME NEW given \in Seq(Seen)
  PROVE  Represents(MapAfter(given)[Len(given)], ToSet(given))
<1>1. PICK length \in Nat : length = Len(given)
  OBVIOUS
<1>2. PICK after : after = MapAfter(given)
  OBVIOUS
<1>3. Steps(given, after, length)
  <2>1. after = CHOOSE f : f = [n \in 0..Len(given) |->
                                  IF n = 0 THEN {} ELSE AddObservation(f[n - 1], given[n])]
    BY <1>2 DEF MapAfter
  <2>2. after = CHOOSE f : Steps(given, f, length)
    BY <2>1, <1>1 DEF Steps
  <2> QED BY <2>2, StepsExist
<1> DEFINE Given(n) == {given[i] : i \in 1..n}
           Bad == {n \in 0..length : ~Represents(after[n], Given(n))}
<1>4. Bad = {}
  <2> SUFFICES ASSUME Bad # {} PROVE FALSE
    OBVIOUS
  <2>1. PICK n \in Bad : \A m \in Bad : n <= m
    <3>1. Bad \in SUBSET Nat
      OBVIOUS
    <3> HIDE DEF Bad
    <3> QED BY <3>1, LeastIsThere
  <2>2. n \in 0..length /\ ~Represents(after[n], Given(n))
    OBVIOUS
  <2>3. CASE n = 0
    <3>1. after[0] = {} /\ Given(0) = {}
      BY <1>3 DEF Steps
    <3>2. Represents({}, {})
      BY FS_EmptySet DEF Represents
    <3> QED BY <3>1, <3>2, <2>2, <2>3
  <2>4. CASE n # 0
    <3>1. n - 1 \in 0..length /\ n \in 1..length
      BY <2>2, <2>4, <1>1
    <3>9. n - 1 \notin Bad
      <4>1. \A m \in Bad : n <= m
        BY <2>1
      <4> HIDE DEF Bad
      <4> QED BY <3>1, <4>1, <1>1
    <3>2. Represents(after[n - 1], Given(n - 1))
      BY <3>1, <3>9
    <3>3. after[n] = AddObservation(after[n - 1], given[n])
      BY <3>1, <2>4, <1>3 DEF Steps
    <3>4. \A i \in 1..length : given[i] \in Seen
      BY <1>1
    <3>5. given[n] \in Seen /\ Given(n - 1) \in SUBSET Seen
      BY <3>1, <3>4
    <3>6. Given(n) = Given(n - 1) \cup {given[n]}
      <4>1. \A i \in 1..n : i = n \/ i \in 1..n - 1
        BY <3>1
      <4>2. 1..n - 1 \subseteq 1..n /\ n \in 1..n
        BY <3>1
      <4> QED BY <4>1, <4>2
    <3>7. PICK earlier, map : earlier = Given(n - 1) /\ map = after[n - 1]
      OBVIOUS
    <3> HIDE DEF Given
    <3>8. Represents(after[n], earlier \cup {given[n]})
      BY <3>2, <3>3, <3>5, <3>7, AddRepresents
    <3> QED BY <3>6, <3>7, <3>8, <2>2
  <2> QED BY <2>3, <2>4
<1>5. Represents(after[length], Given(length))
  <2>1. length \in 0..length
    BY <1>1
  <2> QED BY <2>1, <1>4
<1>6. Given(length) = ToSet(given)
  BY <1>1 DEF ToSet
<1> QED BY <1>1, <1>2, <1>5, <1>6

\* A sorted map has every observation once, in order.
LEMMA SortFits ==
  ASSUME NEW map, IsFiniteSet(map), map \subseteq Seen,
         \A m, k \in map : SameKey(m, k) => m = k, NEW s, s = SortObservations(map)
  PROVE  /\ ToSet(s) = map
         /\ \A i, j \in DOMAIN s : i < j => CompareObservations(s[i], s[j])
<1> DEFINE before == {pair \in map \X map : CompareObservations(pair[1], pair[2])}
           size == Cardinality(map)
<1>1. size \in Nat
  BY FS_CardinalityType
<1>2. \A p, q \in map : <<p, q>> \in before <=> CompareObservations(p, q)
  OBVIOUS
<1> HIDE DEF before
<1>3. Orders(map, before)
  <2>1. \A p \in map : p.field \in Nat /\ p.value \in Nat
    BY DEF Seen
  <2>2. \A p \in map : ~CompareObservations(p, p)
    BY <2>1 DEF CompareObservations
  <2>3. \A p, q, r \in map : CompareObservations(p, q) /\ CompareObservations(q, r) => CompareObservations(p, r)
    BY <2>1 DEF CompareObservations
  <2>4. \A p, q \in map : p # q => CompareObservations(p, q) \/ CompareObservations(q, p)
    BY <2>1 DEF CompareObservations, SameKey
  <2> QED BY <1>2, <2>2, <2>3, <2>4 DEF Orders
<1>4. \A p \in map : RankOf(map, before, p) = Cardinality({q \in map : CompareObservations(q, p)})
  <2> TAKE p \in map
  <2>1. {q \in map : <<q, p>> \in before} = {q \in map : CompareObservations(q, p)}
    BY <1>2
  <2> QED BY <2>1 DEF RankOf
<1>5. s = [n \in 1..Cardinality(map) |-> CHOOSE p \in map : RankOf(map, before, p) = n - 1]
  <2>1. ASSUME NEW n \in 1..size
        PROVE  (CHOOSE p \in map : RankOf(map, before, p) = n - 1)
                 = (CHOOSE o \in map : Cardinality({p \in map : CompareObservations(p, o)}) = n - 1)
    BY <1>4
  <2> QED BY <2>1 DEF SortObservations
<1>6. s \in Bijection(1..Cardinality(map), map)
  BY <1>3, <1>5, ListingByRank
<1>7. \A n \in 1..size : \E p \in map : RankOf(map, before, p) = n - 1
  BY <1>3, RanksAreTaken
<1>8. \A n \in 1..size : s[n] \in map /\ RankOf(map, before, s[n]) = n - 1
  BY <1>5, <1>7
<1>9. DOMAIN s = 1..size
  BY <1>5
<1>10. ToSet(s) = map
  BY <1>6, <1>9 DEF ToSet, Bijection, Surjection, Injection
<1>11. ASSUME NEW i \in 1..size, NEW j \in 1..size, i < j
       PROVE  CompareObservations(s[i], s[j])
  <2>1. PICK p \in map, q \in map : p = s[i] /\ q = s[j]
    BY <1>8
  <2>2. RankOf(map, before, p) = i - 1 /\ RankOf(map, before, q) = j - 1
    BY <1>8, <2>1
  <2>3. p # q
    BY <2>2, <1>11, <1>1
  <2>4. ~(<<q, p>> \in before)
    <3>1. ASSUME <<q, p>> \in before PROVE FALSE
      <4>1. RankOf(map, before, q) < RankOf(map, before, p)
        BY <3>1, <1>3, RanksTellApart
      <4> QED BY <4>1, <2>2, <1>11, <1>1
    <3> QED BY <3>1
  <2>5. <<p, q>> \in before
    BY <2>3, <2>4, <1>3 DEF Orders
  <2> QED BY <2>1, <2>5, <1>2
<1> QED BY <1>9, <1>10, <1>11


\* What stands for the observations like o is those observations as one.
LEMMA TogetherIsThere ==
  ASSUME NEW seen \in SUBSET Seen, NEW map, Represents(map, seen), NEW o \in seen,
         NEW m \in map, SameKey(m, o),
         NEW like, \A s : s \in like <=> s \in seen /\ SameKey(s, o)
  PROVE  m = Together(like, o)
<1>1. m \in Seen /\ \A s \in seen : s \in Seen
  BY DEF Represents
<1>2. \A s \in seen : s \in like <=> SameKey(m, s)
  BY DEF SameKey
<1>3. /\ \E s \in like : s.confidence = m.confidence
      /\ \A s \in like : s.confidence <= m.confidence
      /\ \A e : e \in m.evidence <=> \E s \in like : e \in s.evidence
  BY <1>2 DEF Represents
<1>4. \A s \in like : s.confidence \in Int /\ s.evidence \in SUBSET EvidenceNames
  BY <1>1 DEF Seen
<1>5. PICK most : most = CHOOSE c \in {s.confidence : s \in like} : \A s \in like : s.confidence <= c
  OBVIOUS
<1>6. most \in {s.confidence : s \in like} /\ \A s \in like : s.confidence <= most
  <2>1. m.confidence \in {s.confidence : s \in like}
    BY <1>3
  <2> QED BY <2>1, <1>3, <1>5
<1>7. most = m.confidence
  <2>1. PICK s \in like : s.confidence = most
    BY <1>6
  <2>2. most <= m.confidence /\ m.confidence <= most
    BY <2>1, <1>3, <1>6
  <2> QED BY <2>1, <2>2, <1>1, <1>4 DEF Seen
<1>8. UNION {s.evidence : s \in like} = m.evidence
  BY <1>3
<1>9. m = [field |-> m.field, value |-> m.value, confidence |-> m.confidence, evidence |-> m.evidence]
  BY <1>1 DEF Seen
<1> QED BY <1>5, <1>7, <1>8, <1>9 DEF Together, SameKey

\* So the snapshot of any observations is the same in whatever order they come.
LEMMA AssemblyIsOrderFree ==
  ASSUME NEW given \in Seq(Seen), NEW s, s = AssembleObservations(given)
  PROVE  LET seen == ToSet(given)
         IN /\ ToSet(s) = {Together({t \in seen : SameKey(t, o)}, o) : o \in seen}
            /\ \A i, j \in DOMAIN s : i < j => CompareObservations(s[i], s[j])
<1>1. PICK map : map = MapAfter(given)[Len(given)]
  OBVIOUS
<1>2. PICK seen : seen = ToSet(given)
  OBVIOUS
<1>3. Represents(map, seen)
  BY <1>1, <1>2, MapRepresents
<1>4. seen \in SUBSET Seen
  BY <1>2 DEF ToSet
<1>5. /\ IsFiniteSet(map) /\ map \subseteq Seen
      /\ \A m, k \in map : SameKey(m, k) => m = k
  BY <1>3 DEF Represents
<1>6. s = SortObservations(map)
  BY <1>1 DEF AssembleObservations
<1>7. /\ ToSet(s) = map
      /\ \A i, j \in DOMAIN s : i < j => CompareObservations(s[i], s[j])
  BY <1>5, <1>6, SortFits
<1> DEFINE Like(o) == {t \in seen : SameKey(t, o)}
<1>8. \A o \in seen, m \in map : SameKey(m, o) => m = Together(Like(o), o)
  <2> TAKE o \in seen, m \in map
  <2>1. \A t : t \in Like(o) <=> t \in seen /\ SameKey(t, o)
    OBVIOUS
  <2> HIDE DEF Like
  <2> QED BY <2>1, <1>3, <1>4, TogetherIsThere
<1>9. map = {Together(Like(o), o) : o \in seen}
  <2>1. ASSUME NEW m \in map PROVE \E o \in seen : m = Together(Like(o), o)
    <3>1. PICK o \in seen : SameKey(m, o)
      BY <1>3 DEF Represents
    <3> HIDE DEF Like
    <3> QED BY <3>1, <1>8
  <2>2. ASSUME NEW o \in seen PROVE Together(Like(o), o) \in map
    <3>1. PICK m \in map : SameKey(m, o)
      BY <1>3 DEF Represents
    <3> HIDE DEF Like
    <3> QED BY <3>1, <1>8
  <2> HIDE DEF Like
  <2> QED BY <2>1, <2>2
<1> QED BY <1>2, <1>7, <1>9

-----------------------------------------------------------------------------
\* What the selectors of the recipe may find on some page.
Resolutions == UNION {ResolveSelectorPrecedence(f, p) : f \in ToSet(Recipe), p \in [Selectors -> Matches]}

\* The observations are well typed, and a snapshot is the assembly of all of them.
ExtractionIInv ==
  /\ observed \in Seq(Seen) /\ resolved \in Seq(Resolutions)
  /\ captured.artifacts \in SUBSET Artifacts
  /\ phase = "fields" => /\ captured.page \in [Selectors -> Matches]
                         /\ SelectDocumentArtifact(captured.artifacts) # {}
  /\ phase \in {"idle", "fields", "noDocument"} => assembled = <<>>
  /\ assembled = <<>> \/ assembled = AssembleObservations(observed)

LEMMA BoundedTyped == ASSUME NEW x \in Int PROVE Bounded(x) \in 0..100
BY DEF Bounded

\* What a field's selectors found makes observations of that field.
LEMMA ResolutionTyped ==
  ASSUME NEW field \in ToSet(Recipe), NEW page \in [Selectors -> Matches],
         NEW resolution \in ResolveSelectorPrecedence(field, page)
  PROVE  /\ resolution.values \in Seq(DOMAIN NormalOf)
         /\ resolution.matched \in Nat /\ resolution.confidence \in Int
<1>1. PICK d \in DOMAIN field.selectors :
        resolution = [field |-> field.field, selector |-> field.selectors[d].path, depth |-> d - 1,
                      values |-> IF field.selectors[d].all THEN page[field.selectors[d]]
                                 ELSE SubSeq(page[field.selectors[d]], 1, 1),
                      matched |-> Len(page[field.selectors[d]]),
                      confidence |-> Bounded(100 - (d - 1) * field.policy.impact)]
        /\ page[field.selectors[d]] # <<>>
  BY DEF ResolveSelectorPrecedence
<1>2. /\ field.selectors \in Seq(ToSet(field.selectors)) /\ field.policy.impact \in Int
      /\ Recipe \in Seq(ToSet(Recipe))
  BY ExtractionAssumption
<1>3. d \in Nat /\ field.selectors[d] \in ToSet(field.selectors)
  BY <1>2 DEF ToSet
<1>4. field.selectors[d] \in Selectors
  <2>1. PICK i \in DOMAIN Recipe : field = Recipe[i]
    BY DEF ToSet
  <2> QED BY <1>3, <2>1 DEF Selectors
<1>5. PICK texts : texts = page[field.selectors[d]]
  OBVIOUS
<1>6. texts \in Seq(DOMAIN NormalOf) /\ texts # <<>>
  BY <1>1, <1>4, <1>5, ExtractionAssumption
<1>7. SubSeq(texts, 1, 1) \in Seq(DOMAIN NormalOf)
  BY <1>6
<1>8. resolution.values = IF field.selectors[d].all THEN texts ELSE SubSeq(texts, 1, 1)
  BY <1>1, <1>5
<1>9. resolution.matched = Len(texts) /\ resolution.confidence = Bounded(100 - (d - 1) * field.policy.impact)
  BY <1>1, <1>5
<1>10. 100 - (d - 1) * field.policy.impact \in Int
  BY <1>2, <1>3
<1>11. resolution.confidence \in 0..100
  BY <1>9, <1>10, BoundedTyped
<1>12. resolution.values \in Seq(DOMAIN NormalOf)
  BY <1>6, <1>7, <1>8
<1>13. resolution.matched \in Nat
  <2>1. Len(texts) \in Nat
    BY <1>6
  <2> QED BY <2>1, <1>9
<1>14. resolution.confidence \in Int
  BY <1>11
<1> QED BY <1>12, <1>13, <1>14

\* A turn of the loop appends observations.
LEMMA ObservationsTyped ==
  ASSUME ExtractionIInv, ResolveField
  PROVE  observed' \in Seq(Seen) /\ resolved' \in Seq(Resolutions)
<1>1. /\ phase = "fields" /\ Len(resolved) < Len(Recipe)
      /\ captured.page \in [Selectors -> Matches]
      /\ SelectDocumentArtifact(captured.artifacts) # {}
  BY DEF ResolveField, ExtractionIInv
<1>2. PICK field : field = Recipe[Len(resolved) + 1]
  OBVIOUS
<1>3. PICK matching : matching = ResolveSelectorPrecedence(field, captured.page)
  OBVIOUS
<1>4. PICK document : document = CHOOSE a \in SelectDocumentArtifact(captured.artifacts) : TRUE
  OBVIOUS
<1>5. document.id \in EvidenceNames
  <2>1. document \in SelectDocumentArtifact(captured.artifacts)
    BY <1>1, <1>4
  <2>2. document \in Artifacts
    BY <2>1 DEF SelectDocumentArtifact, ExtractionIInv
  <2> QED BY <2>2 DEF EvidenceNames
<1>6. field \in ToSet(Recipe)
  <2>1. resolved \in Seq(Resolutions) /\ Recipe \in Seq(ToSet(Recipe))
    BY ExtractionAssumption DEF ExtractionIInv
  <2>2. Len(resolved) + 1 \in DOMAIN Recipe
    BY <1>1, <2>1
  <2> QED BY <1>2, <2>2 DEF ToSet
<1>7. CASE UNCHANGED <<resolved, observed>>
  BY <1>7 DEF ExtractionIInv
<1>8. CASE ~UNCHANGED <<resolved, observed>>
  <2>1. PICK resolution : resolution = CHOOSE r \in matching : TRUE
    OBVIOUS
  <2>2. /\ matching # {}
        /\ ~\E v \in ToSet(resolution.values) : NormalOf[v] = Unnormalizable
        /\ resolved' = Append(resolved, resolution)
        /\ observed' = observed \o
             [i \in DOMAIN resolution.values |->
                [field |-> field.field, value |-> NormalOf[resolution.values[i]],
                 confidence |-> DeriveObservationConfidence(field, resolution),
                 evidence |-> {document.id}]]
    BY <1>2, <1>3, <1>4, <1>8, <2>1 DEF ResolveField, FailWith
  <2>3. resolution \in ResolveSelectorPrecedence(field, captured.page)
    BY <1>3, <2>1, <2>2
  <2>4. /\ resolution.values \in Seq(DOMAIN NormalOf)
        /\ resolution.matched \in Nat /\ resolution.confidence \in Int
    BY <1>1, <1>6, <2>3, ResolutionTyped
  <2>5. resolution \in Resolutions
    BY <1>1, <1>6, <2>3 DEF Resolutions
  <2>6. resolved' \in Seq(Resolutions)
    BY <2>2, <2>5 DEF ExtractionIInv
  <2>7. field.field \in Nat /\ field.confidence \in Int
    BY <1>6, ExtractionAssumption
  <2>8. PICK sure : sure = DeriveObservationConfidence(field, resolution)
    OBVIOUS
  <2>9. sure \in Int
    <3>1. PICK least \in Int : least = IF field.confidence < resolution.confidence
                                       THEN field.confidence ELSE resolution.confidence
      BY <2>4, <2>7
    <3>2. PICK less \in Int : less = least - (IF resolution.matched > 1 THEN 5 ELSE 0)
      OBVIOUS
    <3>3. sure = Bounded(less)
      BY <2>8, <3>1, <3>2 DEF DeriveObservationConfidence
    <3>4. Bounded(less) \in 0..100
      BY BoundedTyped
    <3> QED BY <3>3, <3>4
  <2>10. PICK texts : texts = resolution.values
    OBVIOUS
  <2>11. PICK more : more = [i \in DOMAIN texts |->
                               [field |-> field.field, value |-> NormalOf[texts[i]],
                                confidence |-> sure, evidence |-> {document.id}]]
    OBVIOUS
  <2>12. more \in Seq(Seen)
    <3>1. texts \in Seq(DOMAIN NormalOf)
      BY <2>4, <2>10
    <3>2. \A i \in DOMAIN texts : NormalOf[texts[i]] \in Nat
      <4> TAKE i \in DOMAIN texts
      <4>1. texts[i] \in DOMAIN NormalOf /\ texts[i] \in ToSet(texts)
        BY <3>1 DEF ToSet
      <4>2. NormalOf[texts[i]] # Unnormalizable
        BY <4>1, <2>2, <2>10
      <4> QED BY <4>1, <4>2, ExtractionAssumption
    <3>3. \A i \in DOMAIN texts : more[i] \in Seen
      BY <3>2, <2>7, <2>9, <2>11, <1>5 DEF Seen
    <3>4. PICK n \in Nat : n = Len(texts)
      BY <3>1
    <3>5. DOMAIN texts = 1..n
      BY <3>1, <3>4
    <3>6. more = [i \in 1..n |-> more[i]]
      BY <2>11, <3>5
    <3>7. more \in [1..n -> Seen]
      BY <3>3, <3>5, <3>6
    <3> QED BY <3>7
  <2>13. observed' = observed \o more
    BY <2>2, <2>8, <2>10, <2>11
  <2>14. observed' \in Seq(Seen)
    BY <2>12, <2>13 DEF ExtractionIInv
  <2> QED BY <2>6, <2>14
<1> QED BY <1>7, <1>8

LEMMA ExtractionStep == ExtractionIInv /\ [ExtractionNext]_extractionVars => ExtractionIInv'
<1> SUFFICES ASSUME ExtractionIInv, [ExtractionNext]_extractionVars PROVE ExtractionIInv'
  OBVIOUS
<1> USE DEF ExtractionIInv
<1>1. CASE UNCHANGED extractionVars
  BY <1>1 DEF extractionVars
<1>2. CASE StartExtraction
  <2>1. PICK kept \in SUBSET Artifacts, page \in [Selectors -> Matches] :
          /\ captured' = [artifacts |-> kept, page |-> page]
          /\ phase' = IF SelectDocumentArtifact(kept) = {} THEN "noDocument" ELSE "fields"
    BY <1>2 DEF StartExtraction
  <2>2. captured'.artifacts = kept /\ captured'.page = page
    BY <2>1
  <2>3. UNCHANGED <<resolved, observed, assembled>> /\ phase = "idle"
    BY <1>2 DEF StartExtraction
  <2>4. phase' = "fields" => SelectDocumentArtifact(kept) # {}
    BY <2>1
  <2> QED BY <2>2, <2>3, <2>4
<1>3. CASE ResolveField
  <2>1. observed' \in Seq(Seen) /\ resolved' \in Seq(Resolutions)
    BY <1>3, ObservationsTyped
  <2>2. UNCHANGED <<captured, assembled>> /\ phase = "fields" /\ phase' \in {"fields", "mismatch"}
    BY <1>3 DEF ResolveField, FailWith
  <2> QED BY <2>1, <2>2
<1>4. CASE BuildObservationSnapshot
  BY <1>4 DEF BuildObservationSnapshot
<1>5. CASE RunAssertionEngine
  BY <1>5 DEF RunAssertionEngine
<1>6. CASE GenerateEvidenceManifest
  <2>1. UNCHANGED <<captured, resolved, observed, assembled>> /\ phase' \in {"extracted", "mismatch"}
    BY <1>6 DEF GenerateEvidenceManifest, FailWith
  <2> QED BY <2>1
<1>7. CASE AssembleSamples
  <2>1. PICK given \in BoundedSeq(Samples, MaxSamples) :
          observed' = given /\ assembled' = AssembleObservations(given)
    BY <1>7 DEF AssembleSamples
  <2>2. UNCHANGED <<captured, resolved>> /\ phase' = "assembled"
    BY <1>7 DEF AssembleSamples
  <2>3. given \in Seq(Seen)
    <3>1. \A o \in Samples : o \in Seen
      <4> TAKE o \in Samples
      <4>1. o \in [field : Nat, value : Nat, confidence : Int, evidence : {o.evidence}]
        BY ExtractionAssumption
      <4>2. o.evidence \in SUBSET EvidenceNames
        BY DEF EvidenceNames
      <4> QED BY <4>1, <4>2 DEF Seen
    <3>2. given \in Seq(Samples)
      BY DEF BoundedSeq, SeqOf
    <3> QED BY <3>1, <3>2
  <2> QED BY <2>1, <2>2, <2>3
<1>8. CASE NextPage
  BY <1>8 DEF NextPage, Nowhere
<1> QED BY <1>1, <1>2, <1>3, <1>4, <1>5, <1>6, <1>7, <1>8 DEF ExtractionNext

(* Whatever the recipe and the page, and whatever observations a caller      *)
(* gives, a snapshot is the assembly of all the observations there are     *)
(* (extractor-runtime.ts runExtractorOrchestration).                       *)
THEOREM ExtractionInvariant == ExtractionSpec => []ExtractionIInv
<1>1. ExtractionInit => ExtractionIInv
  BY DEF ExtractionInit, ExtractionIInv, Nowhere
<1> QED BY <1>1, ExtractionStep, PTL DEF ExtractionSpec

(* And the snapshot does not depend on the order of the observations, for    *)
(* any number of them and any fields, values and confidences               *)
(* (snapshot-builder.ts assembleObservations).                             *)
THEOREM SnapshotAlwaysOrderFree == ExtractionSpec => []SnapshotIsOrderFree
<1>1. ExtractionIInv => SnapshotIsOrderFree
  <2> SUFFICES ASSUME ExtractionIInv, assembled # <<>>
               PROVE  SnapshotIsOrderFree
    BY DEF SnapshotIsOrderFree
  <2>1. observed \in Seq(Seen) /\ assembled = AssembleObservations(observed)
    BY DEF ExtractionIInv
  <2> QED BY <2>1, AssemblyIsOrderFree DEF SnapshotIsOrderFree
<1> QED BY <1>1, ExtractionInvariant, PTL
-----------------------------------------------------------------------------
(* The attempts of a benchmark and what its report says of them.            *)

Profiles == HttpLanes \cup BrowserLanes
Modes == {"http", "browser", "none"}
SomeWords ==
  (UNION {e.words : e \in Errors \cup PlanErrors}) \cup DOMAIN NextStage \cup {"title-read"}
SomeSignals == UNION {StatusSignals[p.status] \cup p.strong \cup p.weak : p \in SentPages}
SomeWarnings ==
  (UNION PlanWarnings) \cup NoPlanYet
    \cup (UNION {p.warnings : p \in SentPages}) \cup (UNION {e.warnings : e \in Errors \cup PlanErrors})

Results ==
  [status : {p.status : p \in SentPages} \cup {"none"}, signals : SUBSET SomeSignals,
   content : BOOLEAN, error : SUBSET SomeWords, mode : Modes, warnings : SUBSET SomeWarnings]

Attempts ==
  [profile : Profiles, domain : ToSet(SiteNames), success : BOOLEAN, challenge : BOOLEAN,
   blocked : BOOLEAN, category : FailureCategories \cup {"none"}, mode : Modes,
   warnings : SUBSET SomeWarnings]

\* A success is neither blocked nor challenged and has no failure category; one of the
\* lane with two stages was found in one of them.
AttemptFits(a) ==
  /\ a.success => ~a.blocked /\ ~a.challenge
  /\ a.success <=> a.category = "none"
  /\ a.success /\ a.profile = "effect-hybrid-stealth" => a.mode \in {"http", "browser"}

OutcomesFit ==
  \A i \in DOMAIN outcomes :
    lane = "effect-hybrid-stealth" /\ Succeeds(outcomes[i]) => outcomes[i].mode \in {"http", "browser"}

AttemptIInv ==
  /\ lane \in Profiles \cup {"idle"}
  /\ lane = "idle" => outcomes = <<>> /\ atStage = "none"
  /\ lane # "idle" => site \in ToSet(SiteNames)
  /\ atStage = "result" => outcomes # <<>>
  /\ planned \in SUBSET SomeWarnings /\ fromHttp \in SUBSET SomeWarnings
  /\ outcomes \in Seq(Results) /\ OutcomesFit
  /\ reported \in Seq(Attempts) /\ \A i \in DOMAIN reported : AttemptFits(reported[i])

LEMMA AnsweredFits ==
  ASSUME NEW page \in SentPages, NEW mode \in Modes, NEW warned \in SUBSET SomeWarnings
  PROVE  Answered(page, mode, warned) \in Results /\ Answered(page, mode, warned).mode = mode
<1>1. WallSignals(page) \in SUBSET SomeSignals
  BY DEF WallSignals, SomeSignals
<1>2. page.content \in BOOLEAN
  BY AttemptAssumption
<1>3. (IF mode = "none" THEN {} ELSE warned \cup page.warnings) \in SUBSET SomeWarnings
  BY DEF SomeWarnings
<1>4. NoError \in SUBSET SomeWords
  BY DEF NoError
<1> QED BY <1>1, <1>2, <1>3, <1>4 DEF Answered, Results

LEMMA FailedFits ==
  ASSUME NEW words \in SUBSET SomeWords, NEW mode \in Modes, NEW warned \in SUBSET SomeWarnings
  PROVE  FailedResult(words, mode, warned) \in Results /\ ~Succeeds(FailedResult(words, mode, warned))
BY DEF FailedResult, Results, Succeeds

LEMMA ErrorsFit ==
  ASSUME NEW e \in Errors \cup PlanErrors
  PROVE  e.words \in SUBSET SomeWords /\ e.warnings \in SUBSET SomeWarnings
BY DEF SomeWords, SomeWarnings

\* Whatever failed has one of the categories.
LEMMA CategoriesFit ==
  ASSUME NEW r
  PROVE  /\ Succeeds(r) => FailureCategory(r) = "none"
         /\ ~Succeeds(r) => FailureCategory(r) \in FailureCategories
<1>1. ASSUME NEW signals PROVE ClassifyAccessWallKind(signals) \in FailureCategories
  BY DEF ClassifyAccessWallKind, FailureCategories
<1>2. ASSUME NEW words PROVE ErrorCategory(words) \in FailureCategories
  <2> DEFINE hits == {n \in DOMAIN ErrorSigns : ErrorSigns[n][1] \subseteq words}
  <2>1. CASE hits = {}
    BY <2>1 DEF ErrorCategory, FailureCategories
  <2>2. CASE hits # {}
    <3>1. hits \in SUBSET Nat
      BY DEF ErrorSigns
    <3>2. \E n \in hits : \A m \in hits : n <= m
      <4> HIDE DEF hits
      <4> QED BY <2>2, <3>1, LeastIsThere
    <3>3. PICK n : n = CHOOSE k \in hits : \A m \in hits : k <= m
      OBVIOUS
    <3>4. n \in hits
      <4> HIDE DEF hits
      <4> QED BY <3>2, <3>3
    <3>5. ErrorCategory(words) = ErrorSigns[n][2]
      BY <2>2, <3>3 DEF ErrorCategory
    <3> QED BY <3>4, <3>5 DEF FailureCategories
  <2> QED BY <2>1, <2>2
<1>3. {"http-error", "unknown-error", "empty-content"} \subseteq FailureCategories
  BY DEF FailureCategories
<1> HIDE DEF FailureCategories
<1> QED BY <1>1, <1>2, <1>3 DEF FailureCategory

LEMMA AttemptStarts == AttemptInit => AttemptIInv
BY DEF AttemptInit, AttemptIInv, OutcomesFit, SomeWarnings


\* A runner ends with a result.
LEMMA ResultFits ==
  ASSUME AttemptIInv, lane \in Profiles, UNCHANGED <<lane, site, reported>>,
         planned' \in SUBSET SomeWarnings, fromHttp' \in SUBSET SomeWarnings,
         NEW result \in Results, ResultIs(result),
         lane = "effect-hybrid-stealth" /\ Succeeds(result) => result.mode \in {"http", "browser"}
  PROVE  AttemptIInv'
<1>1. outcomes' = Append(outcomes, result) /\ atStage' = "result"
  BY DEF ResultIs
<1>2. outcomes \in Seq(Results) /\ OutcomesFit
  BY DEF AttemptIInv
<1>3. outcomes' \in Seq(Results) /\ outcomes' # <<>>
  BY <1>1, <1>2
<1>4. OutcomesFit'
  <2> SUFFICES ASSUME NEW i \in DOMAIN outcomes', lane = "effect-hybrid-stealth", Succeeds(outcomes'[i])
               PROVE  outcomes'[i].mode \in {"http", "browser"}
    BY DEF OutcomesFit
  <2>1. PICK r : r = outcomes'[i]
    OBVIOUS
  <2>2. r = result \/ (i \in DOMAIN outcomes /\ r = outcomes[i])
    BY <1>1, <1>2, <2>1
  <2> QED BY <1>2, <2>1, <2>2 DEF OutcomesFit
<1> QED BY <1>1, <1>3, <1>4 DEF AttemptIInv, Profiles, HttpLanes, BrowserLanes

\* A step on the way to a result.
LEMMA WayFits ==
  ASSUME AttemptIInv, lane \in Profiles, UNCHANGED <<lane, site, outcomes, reported>>,
         planned' \in SUBSET SomeWarnings, fromHttp' \in SUBSET SomeWarnings, atStage' # "result"
  PROVE  AttemptIInv'
<1>1. OutcomesFit'
  BY DEF AttemptIInv, OutcomesFit
<1> QED BY <1>1 DEF AttemptIInv, Profiles, HttpLanes, BrowserLanes

\* A page answers, or an access or a stage fails.
LEMMA RunnersFit ==
  ASSUME AttemptIInv,
         \/ \E error \in PlanErrors : FailWithoutPlan(error)
         \/ \E error \in Errors : FailAccess(error) \/ FailFetch(error) \/ FailStage(error)
         \/ \E page \in SentPages :
              \/ PreviewOverHttp(page) \/ FetchNatively(page) \/ RenderInBrowser(page)
              \/ StageHttp(page) \/ StageBrowser(page) \/ ReadTitle(page)
  PROVE  AttemptIInv'
<1>1. /\ PlannedLanes \subseteq Profiles /\ {"http", "browser", "none"} \subseteq Modes
      /\ {"effect-http", "native-fetch", "effect-browser", "effect-hybrid-stealth",
          "patchright-browser"} \subseteq Profiles
  BY DEF PlannedLanes, Profiles, HttpLanes, BrowserLanes, Modes
<1>2. /\ planned \in SUBSET SomeWarnings /\ fromHttp \in SUBSET SomeWarnings
      /\ {} \in SUBSET SomeWarnings /\ NoPlanYet \in SUBSET SomeWarnings
  BY DEF AttemptIInv, SomeWarnings
<1> HIDE DEF AttemptIInv
<1>3. CASE \E error \in PlanErrors : FailWithoutPlan(error)
  <2>1. PICK error \in PlanErrors : FailWithoutPlan(error)
    BY <1>3
  <2>2. error.words \in SUBSET SomeWords /\ error.warnings \in SUBSET SomeWarnings
    BY ErrorsFit
  <2>3. UNCHANGED <<lane, site, planned, reported>> /\ lane \in Profiles
    BY <2>1, <1>1 DEF FailWithoutPlan
  <2>4. CASE lane = "effect-hybrid-stealth" /\ atStage = "http"
    <3>1. atStage' = "browser" /\ fromHttp' = error.warnings /\ UNCHANGED outcomes
      BY <2>1, <2>4 DEF FailWithoutPlan
    <3> QED BY <3>1, <2>2, <2>3, <1>2, WayFits
  <2>5. CASE ~(lane = "effect-hybrid-stealth" /\ atStage = "http")
    <3>1. PICK warned \in SUBSET SomeWarnings :
            warned = IF lane = "effect-hybrid-stealth" THEN fromHttp \cup error.warnings ELSE {}
      BY <1>2, <2>2
    <3>2. ResultIs(FailedResult(error.words, "none", warned)) /\ UNCHANGED fromHttp
      BY <2>1, <2>5, <3>1 DEF FailWithoutPlan
    <3>3. PICK result : result = FailedResult(error.words, "none", warned)
      OBVIOUS
    <3>4. result \in Results /\ ~Succeeds(result)
      BY <3>3, <2>2, <1>1, FailedFits
    <3> QED BY <3>2, <3>3, <3>4, <2>3, <1>2, ResultFits
  <2> QED BY <2>4, <2>5
<1>4. CASE \E error \in Errors : FailAccess(error)
  <2>1. PICK error \in Errors : FailAccess(error)
    BY <1>4
  <2>2. error.words \in SUBSET SomeWords /\ error.warnings \in SUBSET SomeWarnings
    BY ErrorsFit
  <2>3. UNCHANGED <<lane, site, reported>> /\ lane \in Profiles /\ atStage \in {"http", "browser"}
    BY <2>1, <1>1 DEF FailAccess
  <2>4. CASE lane = "effect-hybrid-stealth" /\ atStage = "http"
    <3>1. /\ atStage' = "browser" /\ fromHttp' = error.warnings /\ planned' = NoPlanYet
          /\ UNCHANGED outcomes
      BY <2>1, <2>4 DEF FailAccess
    <3> QED BY <3>1, <2>2, <2>3, <1>2, WayFits
  <2>5. CASE ~(lane = "effect-hybrid-stealth" /\ atStage = "http")
    <3>1. PICK warned \in SUBSET SomeWarnings : warned = fromHttp \cup planned \cup error.warnings
      BY <1>2, <2>2
    <3>2. ResultIs(FailedResult(error.words, atStage, warned)) /\ UNCHANGED <<planned, fromHttp>>
      BY <2>1, <2>5, <3>1 DEF FailAccess
    <3>3. PICK result : result = FailedResult(error.words, atStage, warned)
      OBVIOUS
    <3>4. result \in Results /\ ~Succeeds(result)
      BY <3>3, <2>2, <2>3, <1>1, FailedFits
    <3> QED BY <3>2, <3>3, <3>4, <2>3, <1>2, ResultFits
  <2> QED BY <2>4, <2>5
<1>5. CASE \E error \in Errors : FailFetch(error) \/ FailStage(error)
  <2>1. PICK error \in Errors : FailFetch(error) \/ FailStage(error)
    BY <1>5
  <2>2. error.words \in SUBSET SomeWords
    BY ErrorsFit
  <2>3. UNCHANGED <<lane, site, planned, fromHttp, reported>> /\ lane \in Profiles
    BY <2>1, <1>1 DEF FailFetch, FailStage
  <2>4. PICK words \in SUBSET SomeWords : ResultIs(FailedResult(words, "none", {}))
    <3>1. CASE FailFetch(error)
      BY <3>1, <2>2 DEF FailFetch
    <3>2. CASE FailStage(error)
      <4>1. error.words \cup {atStage} \in SUBSET SomeWords
        BY <3>2, <2>2 DEF FailStage, SomeWords
      <4> QED BY <3>2, <4>1 DEF FailStage
    <3> QED BY <2>1, <3>1, <3>2
  <2>5. PICK result : result = FailedResult(words, "none", {})
    OBVIOUS
  <2>6. result \in Results /\ ~Succeeds(result)
    BY <2>5, <1>1, <1>2, FailedFits
  <2> QED BY <2>3, <2>4, <2>5, <2>6, <1>2, ResultFits
<1>6. CASE \E page \in SentPages : StageHttp(page)
  <2>1. PICK page \in SentPages : StageHttp(page)
    BY <1>6
  <2>2. UNCHANGED <<lane, site, reported>> /\ lane \in Profiles
    BY <2>1, <1>1 DEF StageHttp
  <2>3. CASE page.status = "ok" /\ WallSignals(page) = {}
    <3>1. ResultIs(Answered(page, "http", planned)) /\ UNCHANGED <<planned, fromHttp>>
      BY <2>1, <2>3 DEF StageHttp
    <3>2. PICK result : result = Answered(page, "http", planned)
      OBVIOUS
    <3>3. result \in Results /\ result.mode = "http"
      BY <3>2, <1>1, <1>2, AnsweredFits
    <3> QED BY <3>1, <3>2, <3>3, <2>2, <1>2, ResultFits
  <2>4. CASE ~(page.status = "ok" /\ WallSignals(page) = {})
    <3>1. /\ atStage' = "browser" /\ planned' = NoPlanYet
          /\ fromHttp' = planned \cup page.warnings /\ UNCHANGED outcomes
      BY <2>1, <2>4 DEF StageHttp
    <3>2. page.warnings \in SUBSET SomeWarnings
      BY DEF SomeWarnings
    <3>3. fromHttp' \in SUBSET SomeWarnings
      BY <3>1, <3>2, <1>2
    <3> QED BY <3>1, <3>3, <2>2, <1>2, WayFits
  <2> QED BY <2>3, <2>4
<1>7. CASE \E page \in SentPages : PreviewOverHttp(page) \/ RenderInBrowser(page) \/ StageBrowser(page)
  <2>1. PICK page \in SentPages : PreviewOverHttp(page) \/ RenderInBrowser(page) \/ StageBrowser(page)
    BY <1>7
  <2>2. UNCHANGED <<lane, site, planned, fromHttp, reported>> /\ lane \in Profiles
    BY <2>1, <1>1 DEF PreviewOverHttp, RenderInBrowser, StageBrowser
  <2>3. PICK mode \in {"http", "browser"}, warned \in SUBSET SomeWarnings :
          ResultIs(Answered(page, mode, warned))
    <3>1. CASE PreviewOverHttp(page)
      BY <3>1, <1>2 DEF PreviewOverHttp
    <3>2. CASE RenderInBrowser(page)
      BY <3>2, <1>2 DEF RenderInBrowser
    <3>3. CASE StageBrowser(page)
      <4>1. fromHttp \cup planned \in SUBSET SomeWarnings
        BY <1>2
      <4> QED BY <3>3, <4>1 DEF StageBrowser
    <3> QED BY <2>1, <3>1, <3>2, <3>3
  <2>4. PICK result : result = Answered(page, mode, warned)
    OBVIOUS
  <2>5. result \in Results /\ result.mode = mode
    BY <2>4, <1>1, AnsweredFits
  <2> QED BY <2>2, <2>3, <2>4, <2>5, <1>2, ResultFits
<1>8. CASE \E page \in SentPages : FetchNatively(page) \/ ReadTitle(page)
  <2>1. PICK page \in SentPages : FetchNatively(page) \/ ReadTitle(page)
    BY <1>8
  <2>2. /\ UNCHANGED <<lane, site, planned, fromHttp, reported>>
        /\ lane \in {"native-fetch", "patchright-browser"}
        /\ ResultIs(Answered(page, "none", {}))
    BY <2>1 DEF FetchNatively, ReadTitle
  <2>3. PICK result : result = Answered(page, "none", {})
    OBVIOUS
  <2>4. result \in Results
    BY <2>3, <1>1, <1>2, AnsweredFits
  <2>5. lane \in Profiles /\ lane # "effect-hybrid-stealth"
    BY <1>1, <2>2
  <2> QED BY <2>2, <2>3, <2>4, <2>5, <1>2, ResultFits
<1> QED BY <1>3, <1>4, <1>5, <1>6, <1>7, <1>8

\* The attempt that is reported is that of the last result.
LEMMA EndFits ==
  ASSUME AttemptIInv, EndAttempt
  PROVE  AttemptIInv'
<1>1. /\ atStage = "result" /\ lane # "idle" /\ lane \in Profiles /\ site \in ToSet(SiteNames)
      /\ outcomes \in Seq(Results) /\ outcomes # <<>> /\ OutcomesFit
      /\ reported \in Seq(Attempts) /\ \A i \in DOMAIN reported : AttemptFits(reported[i])
  BY DEF EndAttempt, AttemptIInv
<1>2. PICK r : r = Last(outcomes)
  OBVIOUS
<1>3. r \in Results /\ (lane = "effect-hybrid-stealth" /\ Succeeds(r) => r.mode \in {"http", "browser"})
  <2>1. Len(outcomes) \in DOMAIN outcomes /\ r = outcomes[Len(outcomes)]
    BY <1>1, <1>2 DEF Last
  <2> QED BY <1>1, <2>1 DEF OutcomesFit
<1>4. PICK all \in SUBSET SomeWarnings : all = UNION {outcomes[i].warnings : i \in DOMAIN outcomes}
  <2>1. \A i \in DOMAIN outcomes : outcomes[i].warnings \in SUBSET SomeWarnings
    <3> TAKE i \in DOMAIN outcomes
    <3>1. outcomes[i] \in Results
      BY <1>1
    <3> QED BY <3>1 DEF Results
  <2> QED BY <2>1
<1>5. PICK m : m = Merged
  OBVIOUS
<1>6. m = [status |-> r.status, signals |-> r.signals, content |-> r.content, error |-> r.error,
           mode |-> r.mode, warnings |-> all]
  BY <1>2, <1>3, <1>4, <1>5 DEF Merged, Results
<1>7. m \in Results /\ (Succeeds(m) <=> Succeeds(r)) /\ m.mode = r.mode
  BY <1>3, <1>6 DEF Results, Succeeds
<1>8. PICK a : a = AttemptOf(m)
  OBVIOUS
<1>9. a \in Attempts
  <2>1. FailureCategory(m) \in FailureCategories \cup {"none"}
    BY CategoriesFit
  <2>2. m.mode \in Modes /\ m.warnings \in SUBSET SomeWarnings
    BY <1>7 DEF Results
  <2>3. Succeeds(m) \in BOOLEAN
    BY DEF Succeeds
  <2> HIDE DEF FailureCategories
  <2> QED BY <1>1, <1>8, <2>1, <2>2, <2>3 DEF AttemptOf, Attempts
<1>10. AttemptFits(a)
  <2>1. /\ a.success <=> Succeeds(m)
        /\ a.challenge <=> m.signals # {}
        /\ a.blocked <=> m.signals # {} \/ m.error # NoError \/ m.status \in {"forbidden", "limited"}
        /\ a.category = FailureCategory(m) /\ a.mode = m.mode /\ a.profile = lane
    BY <1>8 DEF AttemptOf
  <2>2. "none" \notin FailureCategories
    BY DEF FailureCategories, ErrorSigns
  <2>3. a.success => ~a.blocked /\ ~a.challenge
    BY <2>1 DEF Succeeds
  <2>4. a.success <=> a.category = "none"
    BY <2>1, <2>2, CategoriesFit
  <2>5. a.success /\ a.profile = "effect-hybrid-stealth" => a.mode \in {"http", "browser"}
    BY <2>1, <1>3, <1>7
  <2> QED BY <2>3, <2>4, <2>5 DEF AttemptFits
<1>11. reported' = Append(reported, a)
  BY <1>5, <1>8 DEF EndAttempt
<1>12. reported' \in Seq(Attempts)
  BY <1>1, <1>9, <1>11
<1>13. \A i \in DOMAIN reported' : AttemptFits(reported'[i])
  <2> TAKE i \in DOMAIN reported'
  <2>1. PICK b : b = reported'[i]
    OBVIOUS
  <2>2. b = a \/ (i \in DOMAIN reported /\ b = reported[i])
    BY <1>1, <1>11, <2>1
  <2> QED BY <1>1, <1>10, <2>1, <2>2
<1>14. /\ lane' = "idle" /\ atStage' = "none" /\ outcomes' = <<>>
       /\ planned' = NoPlanYet /\ fromHttp' = {}
  BY DEF EndAttempt
<1>15. OutcomesFit' /\ outcomes' \in Seq(Results)
  BY <1>14 DEF OutcomesFit
<1> QED BY <1>12, <1>13, <1>14, <1>15 DEF AttemptIInv, SomeWarnings

LEMMA AttemptStep == AttemptIInv /\ [AttemptNext]_attemptVars => AttemptIInv'
<1> SUFFICES ASSUME AttemptIInv, [AttemptNext]_attemptVars PROVE AttemptIInv'
  OBVIOUS
<1>1. CASE UNCHANGED attemptVars
  BY <1>1 DEF attemptVars, AttemptIInv, OutcomesFit
<1>2. ASSUME NEW profile \in HttpLanes \cup BrowserLanes, NEW domain \in ToSet(SiteNames),
             NEW variants \in VariantsOf[profile], BeginPage(profile, domain, variants)
      PROVE  AttemptIInv'
  <2>1. /\ lane = "idle" /\ lane' = profile /\ site' = domain /\ atStage' # "result"
        /\ UNCHANGED <<planned, fromHttp, outcomes, reported>>
    BY <1>2 DEF BeginPage
  <2>2. outcomes = <<>>
    BY <2>1 DEF AttemptIInv
  <2>3. lane' \in Profiles /\ lane' # "idle"
    BY <2>1 DEF Profiles, HttpLanes, BrowserLanes
  <2>4. OutcomesFit'
    BY <2>1, <2>2 DEF OutcomesFit
  <2> QED BY <2>1, <2>2, <2>3, <2>4 DEF AttemptIInv
<1>3. ASSUME NEW warned \in PlanWarnings, ResolvePlan(warned) PROVE AttemptIInv'
  <2>1. planned' \in SUBSET SomeWarnings /\ fromHttp' \in SUBSET SomeWarnings
    BY <1>3 DEF ResolvePlan, SomeWarnings, AttemptIInv
  <2>2. lane \in Profiles /\ atStage' # "result"
    BY <1>3 DEF ResolvePlan, PlannedLanes, Profiles, HttpLanes, BrowserLanes
  <2> QED BY <1>3, <2>1, <2>2, WayFits DEF ResolvePlan
<1>4. CASE PassStage
  <2>1. lane \in Profiles /\ atStage' # "result"
    BY <1>4 DEF PassStage, NextStage, Profiles, HttpLanes, BrowserLanes
  <2>2. planned' \in SUBSET SomeWarnings /\ fromHttp' \in SUBSET SomeWarnings
    BY <1>4 DEF PassStage, AttemptIInv
  <2> QED BY <1>4, <2>1, <2>2, WayFits DEF PassStage
<1>5. CASE TryAnotherExit
  <2>1. lane \in Profiles /\ atStage' # "result"
    BY <1>5 DEF TryAnotherExit, AttemptIInv
  <2>2. planned' \in SUBSET SomeWarnings /\ fromHttp' \in SUBSET SomeWarnings
    BY <1>5 DEF TryAnotherExit, SomeWarnings
  <2> QED BY <1>5, <2>1, <2>2, WayFits DEF TryAnotherExit
<1>6. CASE EndAttempt
  BY <1>6, EndFits
<1>7. CASE \/ \E error \in PlanErrors : FailWithoutPlan(error)
           \/ \E error \in Errors : FailAccess(error) \/ FailFetch(error) \/ FailStage(error)
           \/ \E page \in SentPages :
                \/ PreviewOverHttp(page) \/ FetchNatively(page) \/ RenderInBrowser(page)
                \/ StageHttp(page) \/ StageBrowser(page) \/ ReadTitle(page)
  BY <1>7, RunnersFit
<1> QED BY <1>1, <1>2, <1>3, <1>4, <1>5, <1>6, <1>7 DEF AttemptNext

\* Whatever the runners, the exits and the errors, each attempt that is reported fits.
THEOREM AttemptInvariant == AttemptSpec => []AttemptIInv
BY AttemptStarts, AttemptStep, PTL DEF AttemptSpec


\* Two parts of a finite set without common elements add up to it.
LEMMA SplitCounts ==
  ASSUME NEW S, IsFiniteSet(S), NEW A, NEW B, S = A \cup B, A \cap B = {}
  PROVE  /\ IsFiniteSet(A) /\ IsFiniteSet(B)
         /\ Cardinality(A) \in Nat /\ Cardinality(B) \in Nat
         /\ Cardinality(A) + Cardinality(B) = Cardinality(S)
<1>1. IsFiniteSet(A) /\ IsFiniteSet(B)
  BY FS_Subset
<1>2. IsFiniteSet(A \cap B) /\ Cardinality(A \cap B) = 0
  BY FS_EmptySet
<1>3. Cardinality(A) \in Nat /\ Cardinality(B) \in Nat
  BY <1>1, FS_CardinalityType
<1>4. Cardinality(A \cup B) = Cardinality(A) + Cardinality(B) - Cardinality(A \cap B)
  BY <1>1, FS_Union
<1> QED BY <1>1, <1>2, <1>3, <1>4

\* Some of the attempts succeeded, some failed locally, and the others failed remotely.
LEMMA OutcomesSplit ==
  ASSUME AttemptIInv, NEW some \in SUBSET DOMAIN reported
  PROVE  /\ IsFiniteSet(some) /\ Count(some) \in Nat
         /\ Count(SuccessesOf(some)) \in Nat /\ Count(FailuresOf(some)) \in Nat
         /\ Count(LocalOf(some)) \in Nat /\ Count(RemoteOf(some)) \in Nat
         /\ Count(SuccessesOf(some)) + Count(FailuresOf(some)) = Count(some)
         /\ Count(LocalOf(some)) + Count(RemoteOf(some)) = Count(FailuresOf(some))
<1>1. reported \in Seq(Attempts) /\ \A i \in DOMAIN reported : AttemptFits(reported[i])
  BY DEF AttemptIInv
<1>2. IsFiniteSet(some)
  <2>1. PICK n \in Nat : n = Len(reported)
    BY <1>1
  <2>2. DOMAIN reported = 1..n
    BY <1>1, <2>1
  <2>3. IsFiniteSet(1..n)
    BY FS_Interval
  <2> QED BY <2>2, <2>3, FS_Subset
<1>3. ASSUME NEW i \in some PROVE Fails(reported[i]) <=> ~reported[i].success
  <2>1. AttemptFits(reported[i])
    BY <1>1
  <2> QED BY <2>1 DEF AttemptFits, Fails
<1>4. /\ some = SuccessesOf(some) \cup FailuresOf(some)
      /\ SuccessesOf(some) \cap FailuresOf(some) = {}
  BY <1>3 DEF SuccessesOf, FailuresOf
<1>5. /\ FailuresOf(some) = LocalOf(some) \cup RemoteOf(some)
      /\ LocalOf(some) \cap RemoteOf(some) = {}
  BY DEF LocalOf, RemoteOf
<1>6. /\ IsFiniteSet(FailuresOf(some))
      /\ Cardinality(SuccessesOf(some)) \in Nat /\ Cardinality(FailuresOf(some)) \in Nat
      /\ Cardinality(SuccessesOf(some)) + Cardinality(FailuresOf(some)) = Cardinality(some)
  <2>1. PICK A, B : A = SuccessesOf(some) /\ B = FailuresOf(some)
    OBVIOUS
  <2> QED BY <1>2, <1>4, <2>1, SplitCounts
<1>7. /\ Cardinality(LocalOf(some)) \in Nat /\ Cardinality(RemoteOf(some)) \in Nat
      /\ Cardinality(LocalOf(some)) + Cardinality(RemoteOf(some)) = Cardinality(FailuresOf(some))
  <2>1. PICK A, B, S : A = LocalOf(some) /\ B = RemoteOf(some) /\ S = FailuresOf(some)
    OBVIOUS
  <2> QED BY <1>5, <1>6, <2>1, SplitCounts
<1>8. Cardinality(some) \in Nat
  BY <1>2, FS_CardinalityType
<1> QED BY <1>2, <1>6, <1>7, <1>8 DEF Count

\* The part of the report on one phase adds up.
LEMMA PhaseAddsUp ==
  ASSUME AttemptIInv, NEW some \in SUBSET DOMAIN reported, NEW part, part = PhasePart(some)
  PROVE  /\ part.successes + part.failed = part.count
         /\ part.successes <= part.effective
         /\ part.local = Count(LocalOf(some)) /\ part.failed = Count(FailuresOf(some))
<1>1. PICK all, won, fell, near, far :
        /\ all = Count(some) /\ won = Count(SuccessesOf(some)) /\ fell = Count(FailuresOf(some))
        /\ near = Count(LocalOf(some)) /\ far = Count(RemoteOf(some))
  OBVIOUS
<1>2. /\ all \in Nat /\ won \in Nat /\ fell \in Nat /\ near \in Nat /\ far \in Nat
      /\ won + fell = all /\ near + far = fell
  BY <1>1, OutcomesSplit
<1>3. part = [count |-> all, local |-> near, failed |-> fell, successes |-> won,
              effective |-> IF all - near > 1 THEN all - near ELSE 1]
  BY <1>1 DEF PhasePart
<1> QED BY <1>1, <1>2, <1>3

LEMMA AttemptsAreCounted == AttemptIInv => AttemptsAddUp
<1> SUFFICES ASSUME AttemptIInv PROVE AttemptsAddUp
  OBVIOUS
<1>1. PICK all, http, browser :
        all = DOMAIN reported /\ http = Lane(all, HttpLanes) /\ browser = Lane(all, BrowserLanes)
  OBVIOUS
<1>2. PICK counts : counts = SuiteCounts
  OBVIOUS
<1>3. /\ counts.http = PhasePart(http) /\ counts.browser = PhasePart(browser)
      /\ counts.remote = Count(RemoteOf(all)) /\ counts.composite = Count(Composite(browser))
      /\ counts.viaHttp = Count(ResolvedVia(browser, "http"))
      /\ counts.viaBrowser = Count(ResolvedVia(browser, "browser"))
      /\ counts.compositeFailed = Count(CompositeFailures(browser))
  BY <1>1, <1>2 DEF SuiteCounts
<1>4. all = http \cup browser /\ http \cap browser = {}
  <2>1. ASSUME NEW i \in all PROVE reported[i].profile \in Profiles
    <3>1. reported \in Seq(Attempts)
      BY DEF AttemptIInv
    <3>2. reported[i] \in Attempts
      BY <1>1, <3>1
    <3> QED BY <3>2 DEF Attempts
  <2>2. HttpLanes \cap BrowserLanes = {}
    BY DEF HttpLanes, BrowserLanes
  <2> QED BY <1>1, <2>1, <2>2 DEF Lane, Profiles
<1>5. http \in SUBSET DOMAIN reported /\ browser \in SUBSET DOMAIN reported /\ all \in SUBSET DOMAIN reported
  BY <1>1, <1>4
<1>6. ASSUME NEW part \in {counts.http, counts.browser}
      PROVE  part.successes + part.failed = part.count /\ part.successes <= part.effective
  BY <1>3, <1>5, PhaseAddsUp
<1>7. counts.http.local + counts.browser.local + counts.remote
        = counts.http.failed + counts.browser.failed
  <2>1. /\ counts.http.local = Count(LocalOf(http)) /\ counts.http.failed = Count(FailuresOf(http))
        /\ counts.browser.local = Count(LocalOf(browser))
        /\ counts.browser.failed = Count(FailuresOf(browser))
    BY <1>3, <1>5, PhaseAddsUp
  <2>2. PICK S, A, B : S = RemoteOf(all) /\ A = RemoteOf(http) /\ B = RemoteOf(browser)
    OBVIOUS
  <2>3. S = A \cup B /\ A \cap B = {}
    BY <1>4, <2>2 DEF RemoteOf, FailuresOf
  <2>4. IsFiniteSet(S)
    <3>1. S \subseteq all
      BY <2>2 DEF RemoteOf, FailuresOf
    <3> QED BY <1>5, <3>1, OutcomesSplit, FS_Subset
  <2>5. Count(RemoteOf(http)) + Count(RemoteOf(browser)) = Count(RemoteOf(all))
    BY <2>2, <2>3, <2>4, SplitCounts DEF Count
  <2>6. PICK a, b, c, d, e, f :
          /\ a = Count(LocalOf(http)) /\ b = Count(RemoteOf(http)) /\ c = Count(FailuresOf(http))
          /\ d = Count(LocalOf(browser)) /\ e = Count(RemoteOf(browser))
          /\ f = Count(FailuresOf(browser))
    OBVIOUS
  <2>7. /\ a \in Nat /\ b \in Nat /\ c \in Nat /\ d \in Nat /\ e \in Nat /\ f \in Nat
        /\ a + b = c /\ d + e = f
    BY <1>5, <2>6, OutcomesSplit
  <2> QED BY <1>3, <2>1, <2>5, <2>6, <2>7
<1>8. counts.viaHttp + counts.viaBrowser + counts.compositeFailed = counts.composite
  <2>1. PICK S, A, B, C, D :
          /\ S = Composite(browser) /\ A = ResolvedVia(browser, "http")
          /\ B = ResolvedVia(browser, "browser") /\ C = CompositeFailures(browser)
          /\ D = SuccessesOf(S)
    OBVIOUS
  <2>2. S \in SUBSET DOMAIN reported
    BY <1>5, <2>1 DEF Composite, Lane
  <2>3. IsFiniteSet(S)
    BY <2>2, OutcomesSplit
  <2>4. D = A \cup B /\ A \cap B = {}
    <3>1. \A i \in D : reported[i].mode \in {"http", "browser"}
      <4> TAKE i \in D
      <4>1. /\ i \in DOMAIN reported /\ reported[i].success
            /\ reported[i].profile = "effect-hybrid-stealth"
        BY <2>1, <2>2 DEF SuccessesOf, Composite, Lane
      <4>2. AttemptFits(reported[i])
        BY <4>1 DEF AttemptIInv
      <4> QED BY <4>1, <4>2 DEF AttemptFits
    <3> QED BY <2>1, <3>1 DEF ResolvedVia
  <2>5. S = D \cup C /\ D \cap C = {}
    BY <2>1 DEF CompositeFailures, SuccessesOf
  <2>6. /\ IsFiniteSet(D) /\ Cardinality(D) \in Nat /\ Cardinality(C) \in Nat
        /\ Cardinality(D) + Cardinality(C) = Cardinality(S)
    BY <2>3, <2>5, SplitCounts
  <2>7. /\ Cardinality(A) \in Nat /\ Cardinality(B) \in Nat
        /\ Cardinality(A) + Cardinality(B) = Cardinality(D)
    BY <2>4, <2>6, SplitCounts
  <2> QED BY <1>3, <2>1, <2>6, <2>7 DEF Count
<1> QED BY <1>2, <1>6, <1>7, <1>8 DEF AttemptsAddUp

\* The summary of a benchmark accounts for every attempt, for any pages, errors, plans
\* and rotations, in any number.
THEOREM AttemptsAlwaysAddUp == AttemptSpec => []AttemptsAddUp
BY AttemptInvariant, AttemptsAreCounted, PTL


\* A top list is made of the values it counts, and is empty when there is none.
LEMMA BreakdownFits ==
  ASSUME NEW values, IsFiniteSet(DOMAIN values), ValuesIn(values) \subseteq ToSet(Alphabet),
         NEW top, top = CountBreakdown(values)
  PROVE  /\ KeysOf(top) \subseteq ValuesIn(values)
         /\ top # <<>> <=> DOMAIN values # {}
         /\ top # <<>> => top[1].key \in ValuesIn(values)
<1>1. PICK keys : keys = ValuesIn(values)
  OBVIOUS
<1>2. IsFiniteSet(keys)
  <2>1. PICK n \in Nat : \E g : g \in Surjection(1..n, DOMAIN values)
    <3>1. /\ Cardinality(DOMAIN values) \in Nat
          /\ ExistsBijection(1..Cardinality(DOMAIN values), DOMAIN values)
      BY FS_CardinalityType
    <3> QED BY <3>1 DEF ExistsBijection, Bijection
  <2>2. PICK f : f \in Surjection(1..n, DOMAIN values)
    BY <2>1
  <2>3. IsFiniteSet(1..n)
    BY FS_Interval
  <2>4. [m \in 1..n |-> values[f[m]]] \in Surjection(1..n, keys)
    BY <1>1, <2>2 DEF Surjection, ValuesIn
  <2> QED BY <2>3, <2>4, FS_Surjection
<1>3. \A k \in keys : OccurrencesOf(values, k) \in Nat
  <2> TAKE k \in keys
  <2>1. IsFiniteSet({i \in DOMAIN values : values[i] = k})
    BY FS_Subset
  <2> QED BY <2>1, FS_CardinalityType DEF OccurrencesOf
<1>4. \A k \in keys : AlphabeticPlace(k) \in DOMAIN Alphabet /\ Alphabet[AlphabeticPlace(k)] = k
  <2> TAKE k \in keys
  <2>1. \E n \in DOMAIN Alphabet : Alphabet[n] = k
    BY <1>1 DEF ToSet
  <2>2. PICK m : m = CHOOSE n \in DOMAIN Alphabet : Alphabet[n] = k
    OBVIOUS
  <2>3. m \in DOMAIN Alphabet /\ Alphabet[m] = k
    BY <2>1, <2>2
  <2> QED BY <2>2, <2>3 DEF AlphabeticPlace
<1>5. DOMAIN Alphabet \subseteq Nat
  BY ReportAssumption
<1>6. PICK often, place :
        /\ often = [k \in keys |-> OccurrencesOf(values, k)]
        /\ place = [k \in keys |-> AlphabeticPlace(k)]
  OBVIOUS
<1>7. /\ \A k \in keys : often[k] \in Nat /\ place[k] \in Nat
      /\ \A j, k \in keys : place[j] = place[k] => j = k
      /\ \A j, k \in keys : ComesBefore(values, j, k) <=>
            \/ often[j] > often[k]
            \/ often[j] = often[k] /\ place[j] < place[k]
  <2>1. \A k \in keys : often[k] = OccurrencesOf(values, k) /\ place[k] = AlphabeticPlace(k)
    BY <1>6
  <2>2. \A k \in keys : often[k] \in Nat /\ place[k] \in Nat
    BY <1>3, <1>4, <1>5, <2>1
  <2>3. \A j, k \in keys : place[j] = place[k] => j = k
    BY <1>4, <2>1
  <2>4. \A j, k \in keys : ComesBefore(values, j, k) <=>
          \/ often[j] > often[k]
          \/ often[j] = often[k] /\ place[j] < place[k]
    BY <2>1 DEF ComesBefore
  <2> QED BY <2>2, <2>3, <2>4
<1>8. PICK before : before = {p \in keys \X keys : ComesBefore(values, p[1], p[2])}
  OBVIOUS
<1>9. \A j, k \in keys : <<j, k>> \in before <=>
          \/ often[j] > often[k]
          \/ often[j] = often[k] /\ place[j] < place[k]
  <2>1. \A j, k \in keys : <<j, k>> \in before <=> ComesBefore(values, j, k)
    BY <1>8
  <2> QED BY <1>7, <2>1
<1>10. Orders(keys, before)
  <2>1. \A k \in keys : <<k, k>> \notin before
    BY <1>7, <1>9
  <2>2. \A i, j, k \in keys : <<i, j>> \in before /\ <<j, k>> \in before => <<i, k>> \in before
    BY <1>7, <1>9
  <2>3. \A j, k \in keys : j # k => <<j, k>> \in before \/ <<k, j>> \in before
    <3> TAKE j, k \in keys
    <3>1. j # k => place[j] # place[k]
      BY <1>7
    <3> QED BY <1>7, <1>9, <3>1
  <2> QED BY <2>1, <2>2, <2>3 DEF Orders
<1>11. \A k \in keys : Cardinality({j \in keys \ {k} : ComesBefore(values, j, k)}) = RankOf(keys, before, k)
  <2> TAKE k \in keys
  <2>1. \A j \in keys : <<j, k>> \in before <=> j # k /\ ComesBefore(values, j, k)
    BY <1>7, <1>9
  <2>2. {j \in keys \ {k} : ComesBefore(values, j, k)} = {j \in keys : <<j, k>> \in before}
    BY <2>1
  <2> QED BY <2>2 DEF RankOf
<1>12. PICK size \in Nat : size = Cardinality(keys)
  BY <1>2, FS_CardinalityType
<1>13. \A n \in 1..size : RankedAt(values, keys, n) \in keys
  <2> TAKE n \in 1..size
  <2>1. \E k \in keys : RankOf(keys, before, k) = n - 1
    BY <1>2, <1>10, <1>12, RanksAreTaken
  <2>2. \E k \in keys : Cardinality({j \in keys \ {k} : ComesBefore(values, j, k)}) = n - 1
    BY <1>11, <2>1
  <2> QED BY <2>2 DEF RankedAt
<1>14. PICK long \in Nat : long = TopSize(keys)
  BY <1>12, ReportAssumption DEF TopSize
<1>15. /\ long <= size
       /\ long >= 1 <=> keys # {}
  <2>1. size = 0 <=> keys = {}
    BY <1>2, <1>12, FS_EmptySet
  <2> QED BY <1>12, <1>14, <2>1, ReportAssumption DEF TopSize
<1>16. top = [n \in 1..long |-> Entry(values, RankedAt(values, keys, n))]
  BY <1>1, <1>14 DEF CountBreakdown
<1>17. \A n \in 1..long : top[n].key \in keys
  BY <1>13, <1>15, <1>16 DEF Entry
<1>18. DOMAIN top = 1..long
  BY <1>16
<1>19. KeysOf(top) \subseteq keys
  BY <1>17, <1>18 DEF KeysOf
<1>20. top # <<>> <=> long >= 1
  <2>1. CASE long >= 1
    <3>1. 1 \in DOMAIN top
      BY <1>18, <2>1
    <3> QED BY <2>1, <3>1
  <2>2. CASE ~(long >= 1)
    <3>1. top \in Seq(ToSet(top)) /\ Len(top) = long
      BY <1>16, <1>18 DEF ToSet
    <3> QED BY <2>2, <3>1
  <2> QED BY <2>1, <2>2
<1>21. keys # {} <=> DOMAIN values # {}
  BY <1>1 DEF ValuesIn
<1>22. long >= 1 => top[1].key \in keys
  BY <1>17
<1> QED BY <1>1, <1>15, <1>19, <1>20, <1>21, <1>22


CategoriesOf(some) == {reported[i].category : i \in some}

LEMMA CategoryListFits ==
  ASSUME AttemptIInv, NEW some \in SUBSET FailuresOf(DOMAIN reported), NEW top, top = Categories(some)
  PROVE  /\ KeysOf(top) \subseteq CategoriesOf(some)
         /\ top # <<>> <=> some # {}
         /\ top # <<>> => top[1].key \in CategoriesOf(some)
<1>1. some \in SUBSET DOMAIN reported /\ IsFiniteSet(some)
  <2>1. some \in SUBSET DOMAIN reported
    BY DEF FailuresOf
  <2> QED BY <2>1, OutcomesSplit
<1>2. PICK values : values = [i \in some |-> reported[i].category]
  OBVIOUS
<1>3. DOMAIN values = some /\ ValuesIn(values) = CategoriesOf(some)
  BY <1>2 DEF ValuesIn, CategoriesOf
<1>4. CategoriesOf(some) \subseteq FailureCategories
  <2>1. ASSUME NEW i \in some PROVE reported[i].category \in FailureCategories
    <3>1. /\ reported \in Seq(Attempts) /\ AttemptFits(reported[i])
          /\ Fails(reported[i]) /\ i \in DOMAIN reported
      BY DEF AttemptIInv, FailuresOf
    <3>2. reported[i] \in Attempts
      BY <3>1
    <3>3. reported[i].category # "none"
      BY <3>1 DEF AttemptFits, Fails
    <3> HIDE DEF FailureCategories
    <3> QED BY <3>2, <3>3 DEF Attempts
  <2> QED BY <2>1 DEF CategoriesOf
<1>5. ValuesIn(values) \subseteq ToSet(Alphabet)
  BY <1>3, <1>4, ReportAssumption
<1>6. top = CountBreakdown(values)
  BY <1>2 DEF Categories
<1> HIDE DEF FailureCategories
<1> QED BY <1>1, <1>3, <1>5, <1>6, BreakdownFits

LEMMA DomainListFits ==
  ASSUME AttemptIInv, NEW some \in SUBSET DOMAIN reported, NEW top, top = Domains(some)
  PROVE  top # <<>> <=> some # {}
<1>1. IsFiniteSet(some)
  BY OutcomesSplit
<1>2. PICK values : values = [i \in some |-> reported[i].domain]
  OBVIOUS
<1>3. DOMAIN values = some
  BY <1>2
<1>4. ValuesIn(values) \subseteq ToSet(Alphabet)
  <2>1. ASSUME NEW i \in some PROVE reported[i].domain \in ToSet(SiteNames)
    <3>1. reported \in Seq(Attempts)
      BY DEF AttemptIInv
    <3>2. reported[i] \in Attempts
      BY <3>1
    <3> QED BY <3>2 DEF Attempts
  <2> QED BY <1>2, <2>1, ReportAssumption DEF ValuesIn
<1>5. top = CountBreakdown(values)
  BY <1>2 DEF Domains
<1> QED BY <1>1, <1>3, <1>4, <1>5, BreakdownFits

\* What recommendations begin with, and where those about failures come from.
LEMMA HeadsOfAdvice ==
  ASSUME NEW summary, NEW r \in SuiteRecommendations(summary)
  PROVE  \/ r[1] \in {"read", "inspect-first", "stabilize", "drift", "separate", "inspect", "split"}
         \/ r[1] = "review" /\ summary.counts.browserRemote > 0
         \/ r[1] = "close-first" /\ summary.counts.http.local + summary.counts.browser.local # 0
         \/ r \in TopCategoryAdvice(summary)
         \/ r \in RemainingAdvice(summary)
<1>1. CASE r \in OverrideAdvice(summary.overrides)
  BY <1>1 DEF OverrideAdvice, InspectFirst, Drift, SaidIf
<1>2. CASE r \in FailedOverrideAdvice(summary.overrides)
  BY <1>2 DEF FailedOverrideAdvice, InspectFirst, Drift, SaidIf
<1>3. CASE r \in LocalAdvice(summary)
  BY <1>3 DEF LocalAdvice
<1>4. CASE r \in TopCategoryAdvice(summary) \cup RemainingAdvice(summary)
  BY <1>4
<1>5. CASE \/ r \in SaidIf(summary.counts.browserRemote > 0, <<"review", "browser", "all", "failures">>)
           \/ r \in SaidIf(summary.counts.composite > 0, <<"read", "composite", "all", "breakdown">>)
           \/ r \in InspectFirst("composite", "http", summary.httpDomains)
           \/ r \in InspectFirst("composite", "browser", summary.browserDomains)
           \/ r \in InspectFirst("composite", "failures", summary.compositeFailureDomains)
           \/ r \in SaidIf(summary.recovered # <<>>, <<"inspect", "browser", "allocation", "stability">>)
           \/ r \in InspectFirst("all", "remote", summary.remoteDomains)
           \/ r \in SaidIf(summary.mixed # {}, <<"split", "all", "mixed-domains", "by-category">>)
           \/ r \in InspectFirst("all", "local", summary.localCategories)
  BY <1>5 DEF InspectFirst, SaidIf
<1> QED BY <1>1, <1>2, <1>3, <1>4, <1>5 DEF SuiteRecommendations

\* What warnings begin with.
LEMMA HeadsOfWarnings ==
  ASSUME NEW summary, NEW r \in SuiteWarnings(summary)
  PROVE  \/ r[1] \in {"executed", "clusters", "mixed", "affected", "degraded", "better", "recovered", "top"}
         \/ r[1] = "local-failures" /\ summary.counts.http.local + summary.counts.browser.local > 0
<1>1. CASE r \in CompositeWarnings(summary)
  BY <1>1 DEF CompositeWarnings, Clusters
<1>2. CASE r \in OverrideWarnings(summary.overrides)
  BY <1>2 DEF OverrideWarnings, Spread, Clusters, SaidIf
<1>3. CASE r \notin CompositeWarnings(summary) \cup OverrideWarnings(summary.overrides)
  BY <1>3 DEF SuiteWarnings, SaidIf, TopOf
<1> QED BY <1>1, <1>2, <1>3

\* What is said of the top category and of those that remain.
LEMMA AdviceOnCategories ==
  ASSUME NEW summary, NEW c
  PROVE  /\ <<"failures", "all", "are", c>> \in SuiteRecommendations(summary)
              <=> c \in Advised /\ c = TopRemoteFailureCategory(summary)
         /\ <<"remain", "all", "concentrated", c>> \in SuiteRecommendations(summary)
              <=> <<"remain", "all", "concentrated", c>> \in RemainingAdvice(summary)
<1>1. PICK told, remaining, topped :
        /\ told = SuiteRecommendations(summary)
        /\ remaining = RemainingAdvice(summary) /\ topped = TopCategoryAdvice(summary)
  OBVIOUS
<1>2. remaining \subseteq told /\ topped \subseteq told
  BY <1>1 DEF SuiteRecommendations
<1>3. \A r \in told : r[1] \in {"failures", "remain"} => r \in remaining \cup topped
  BY <1>1, HeadsOfAdvice
<1>4. \A r \in remaining : r[1] = "remain"
  BY <1>1 DEF RemainingAdvice, SaidIf
<1>5. PICK top : top = TopRemoteFailureCategory(summary)
  OBVIOUS
<1>6. /\ \A r \in topped : r[1] # "remain"
      /\ <<"failures", "all", "are", c>> \in topped <=> c \in Advised /\ c = top
  <2>1. PICK others : others = InspectFirst("category", top, summary.domainsOf[top])
    OBVIOUS
  <2>2. \A r \in others : r[1] = "inspect-first"
    BY <2>1 DEF InspectFirst, SaidIf
  <2>3. topped = IF top \notin Advised THEN {} ELSE {<<"failures", "all", "are", top>>} \cup others
    BY <1>1, <1>5, <2>1 DEF TopCategoryAdvice
  <2> HIDE DEF Advised
  <2> QED BY <2>2, <2>3
<1>7. PICK x, y : x = <<"failures", "all", "are", c>> /\ y = <<"remain", "all", "concentrated", c>>
  OBVIOUS
<1>8. x[1] = "failures" /\ y[1] = "remain"
  BY <1>7
<1>9. x \in told <=> x \in topped
  BY <1>2, <1>3, <1>4, <1>8
<1>10. y \in told <=> y \in remaining
  BY <1>2, <1>3, <1>6, <1>8
<1> QED BY <1>1, <1>5, <1>6, <1>7, <1>9, <1>10


\* What of a summary the advice on failures is taken from.
LEMMA SummaryFits ==
  ASSUME AttemptIInv, NEW summary, summary = SuiteSummary,
         NEW remote, remote = RemoteOf(DOMAIN reported),
         NEW ofBrowser, ofBrowser = RemoteOf(Lane(DOMAIN reported, BrowserLanes)),
         NEW nearby, nearby = LocalOf(DOMAIN reported),
         NEW failed, failed = FailuresOf(DOMAIN reported)
  PROVE  /\ failed = remote \cup nearby /\ ofBrowser \subseteq remote
         /\ summary.remoteDomains # <<>> <=> remote # {}
         /\ summary.localCategories # <<>> <=> nearby # {}
         /\ summary.remoteCategories # <<>> <=> remote # {}
         /\ summary.remoteCategories # <<>> => summary.remoteCategories[1].key \in CategoriesOf(remote)
         /\ summary.browserCategories # <<>> => summary.browserCategories[1].key \in CategoriesOf(failed)
         /\ KeysOf(summary.browserCategories) \subseteq CategoriesOf(failed)
         /\ KeysOf(summary.browserRemoteCategories) \subseteq CategoriesOf(ofBrowser)
         /\ summary.counts.browserRemote \in Nat /\ (summary.counts.browserRemote = 0 <=> ofBrowser = {})
         /\ failed = {} => summary.counts.http.local = 0 /\ summary.counts.browser.local = 0
         /\ \A c \in FailureCategories : summary.domainsOf[c] # <<>> <=> c \in CategoriesOf(remote)
<1>1. PICK all, http, browser :
        all = DOMAIN reported /\ http = Lane(all, HttpLanes) /\ browser = Lane(all, BrowserLanes)
  OBVIOUS
<1>2. http \in SUBSET DOMAIN reported /\ browser \in SUBSET DOMAIN reported
  BY <1>1 DEF Lane
<1>3. /\ summary.remoteDomains = Domains(remote)
      /\ summary.localCategories = Categories(nearby)
      /\ summary.remoteCategories = Categories(remote)
      /\ summary.browserCategories = Categories(FailuresOf(browser))
      /\ summary.browserRemoteCategories = Categories(ofBrowser)
      /\ summary.counts = SuiteCounts
      /\ summary.domainsOf = [c \in FailureCategories |-> Domains(OfCategories(remote, {c}))]
  BY <1>1 DEF SuiteSummary
<1>4. /\ summary.counts.browserRemote = Count(ofBrowser)
      /\ summary.counts.http.local = Count(LocalOf(http))
      /\ summary.counts.browser.local = Count(LocalOf(browser))
  BY <1>1, <1>3 DEF SuiteCounts, PhasePart
<1>5. /\ failed = remote \cup nearby /\ ofBrowser \subseteq remote
      /\ FailuresOf(browser) \subseteq failed
      /\ LocalOf(http) \subseteq failed /\ LocalOf(browser) \subseteq failed
      /\ failed \subseteq DOMAIN reported
  BY <1>1, <1>2 DEF RemoteOf, LocalOf, FailuresOf
<1>6. IsFiniteSet(failed)
  BY <1>5, OutcomesSplit, FS_Subset
<1>7. summary.remoteDomains # <<>> <=> remote # {}
  <2>1. remote \in SUBSET DOMAIN reported
    BY <1>5
  <2> QED BY <1>3, <2>1, DomainListFits
<1>8. /\ summary.localCategories # <<>> <=> nearby # {}
      /\ summary.remoteCategories # <<>> <=> remote # {}
      /\ summary.remoteCategories # <<>> => summary.remoteCategories[1].key \in CategoriesOf(remote)
      /\ KeysOf(summary.browserRemoteCategories) \subseteq CategoriesOf(ofBrowser)
  <2>1. /\ remote \in SUBSET FailuresOf(DOMAIN reported) /\ nearby \in SUBSET FailuresOf(DOMAIN reported)
        /\ ofBrowser \in SUBSET FailuresOf(DOMAIN reported)
    BY <1>5
  <2>2. summary.localCategories # <<>> <=> nearby # {}
    BY <1>3, <2>1, CategoryListFits
  <2>3. /\ summary.remoteCategories # <<>> <=> remote # {}
        /\ summary.remoteCategories # <<>> => summary.remoteCategories[1].key \in CategoriesOf(remote)
    BY <1>3, <2>1, CategoryListFits
  <2>4. KeysOf(summary.browserRemoteCategories) \subseteq CategoriesOf(ofBrowser)
    BY <1>3, <2>1, CategoryListFits
  <2> QED BY <2>2, <2>3, <2>4
<1>9. /\ summary.browserCategories # <<>> => summary.browserCategories[1].key \in CategoriesOf(failed)
      /\ KeysOf(summary.browserCategories) \subseteq CategoriesOf(failed)
  <2>1. PICK some \in SUBSET FailuresOf(DOMAIN reported) : some = FailuresOf(browser)
    BY <1>5
  <2>2. /\ KeysOf(summary.browserCategories) \subseteq CategoriesOf(some)
        /\ summary.browserCategories # <<>> => summary.browserCategories[1].key \in CategoriesOf(some)
    BY <1>3, <2>1, CategoryListFits
  <2>3. CategoriesOf(some) \subseteq CategoriesOf(failed)
    BY <1>5, <2>1 DEF CategoriesOf
  <2> QED BY <2>2, <2>3
<1>10. summary.counts.browserRemote \in Nat /\ (summary.counts.browserRemote = 0 <=> ofBrowser = {})
  <2>1. IsFiniteSet(ofBrowser)
    BY <1>5, <1>6, FS_Subset
  <2> QED BY <1>4, <2>1, FS_CardinalityType, FS_EmptySet DEF Count
<1>11. failed = {} => summary.counts.http.local = 0 /\ summary.counts.browser.local = 0
  <2> SUFFICES ASSUME failed = {} PROVE summary.counts.http.local = 0 /\ summary.counts.browser.local = 0
    OBVIOUS
  <2>1. LocalOf(http) = {} /\ LocalOf(browser) = {}
    BY <1>5
  <2>2. Count({}) = 0
    BY FS_EmptySet DEF Count
  <2> QED BY <1>4, <2>1, <2>2
<1>12. ASSUME NEW c \in FailureCategories
       PROVE  summary.domainsOf[c] # <<>> <=> c \in CategoriesOf(remote)
  <2>1. PICK some \in SUBSET DOMAIN reported : some = OfCategories(remote, {c})
    BY <1>5 DEF OfCategories
  <2>2. summary.domainsOf[c] = Domains(some)
    <3> HIDE DEF FailureCategories
    <3> QED BY <1>3, <1>12, <2>1
  <2>3. some # {} <=> c \in CategoriesOf(remote)
    BY <2>1 DEF OfCategories, CategoriesOf
  <2> QED BY <2>2, <2>3, DomainListFits
<1> QED BY <1>5, <1>7, <1>8, <1>9, <1>10, <1>11, <1>12


\* The categories that are seen are those of the failures.
LEMMA SeenAreFailures ==
  ASSUME AttemptIInv
  PROVE  {reported[i].category : i \in DOMAIN reported} \ {"none"}
           = CategoriesOf(FailuresOf(DOMAIN reported))
<1>1. ASSUME NEW i \in DOMAIN reported PROVE Fails(reported[i]) <=> reported[i].category # "none"
  <2>1. AttemptFits(reported[i])
    BY DEF AttemptIInv
  <2> QED BY <2>1 DEF AttemptFits, Fails
<1> QED BY <1>1 DEF CategoriesOf, FailuresOf

\* What is said to remain has its domains, and both response categories are said to
\* remain together or each on its own.
LEMMA WhatRemains ==
  ASSUME NEW summary, NEW keys, keys = BrowserCategoryKeys(summary),
         NEW top, top = TopRemoteFailureCategory(summary)
  PROVE  /\ \A c : <<"remain", "all", "concentrated", c>> \in RemainingAdvice(summary) =>
              \/ c # "response-handling" /\ summary.domainsOf[c] # <<>> /\ c \in Advised
              \/ c = "response-handling" /\ CombinedResponseAdvice(summary)
         /\ \A c \in ResponseCategories : <<"remain", "all", "concentrated", c>> \in RemainingAdvice(summary)
              <=> c # top /\ c \in keys /\ summary.domainsOf[c] # <<>> /\ ~CombinedResponseAdvice(summary)
         /\ <<"remain", "all", "concentrated", "response-handling">> \in RemainingAdvice(summary)
              <=> CombinedResponseAdvice(summary)
<1>1. ASSUME NEW c
      PROVE  <<"remain", "all", "concentrated", c>> \in RemainingAdvice(summary) <=>
               \/ c = "browser-navigation-timeout"
                  /\ Remains(summary, "browser-navigation-timeout", BrowserCategoryKeys(summary))
               \/ c = "access-wall-forbidden"
                  /\ Remains(summary, "access-wall-forbidden", KeysOf(summary.remoteCategories))
               \/ /\ c \in ResponseCategories /\ Remains(summary, c, BrowserCategoryKeys(summary))
                  /\ ~CombinedResponseAdvice(summary)
               \/ c = "response-handling" /\ CombinedResponseAdvice(summary)
  BY DEF RemainingAdvice, SaidIf
<1>2. /\ ResponseCategories \subseteq Advised
      /\ {"browser-navigation-timeout", "access-wall-forbidden"} \subseteq Advised
      /\ "response-handling" \notin Advised
      /\ "browser-navigation-timeout" \notin ResponseCategories
      /\ "access-wall-forbidden" \notin ResponseCategories
  BY DEF ResponseCategories, Advised
<1>3. ASSUME NEW c, <<"remain", "all", "concentrated", c>> \in RemainingAdvice(summary)
      PROVE  \/ c # "response-handling" /\ summary.domainsOf[c] # <<>> /\ c \in Advised
             \/ c = "response-handling" /\ CombinedResponseAdvice(summary)
  <2> HIDE DEF Advised, ResponseCategories
  <2> QED BY <1>1, <1>2, <1>3 DEF Remains
<1>4. ASSUME NEW c \in ResponseCategories
      PROVE  <<"remain", "all", "concentrated", c>> \in RemainingAdvice(summary)
               <=> /\ c # top /\ c \in keys /\ summary.domainsOf[c] # <<>>
                   /\ ~CombinedResponseAdvice(summary)
  <2>1. c # "browser-navigation-timeout" /\ c # "access-wall-forbidden" /\ c # "response-handling"
    BY <1>2
  <2> HIDE DEF Advised, ResponseCategories
  <2> QED BY <1>1, <2>1 DEF Remains
<1>5. <<"remain", "all", "concentrated", "response-handling">> \in RemainingAdvice(summary)
        <=> CombinedResponseAdvice(summary)
  <2>1. "response-handling" \notin ResponseCategories
    BY <1>2
  <2> HIDE DEF Advised, ResponseCategories
  <2> QED BY <1>1, <2>1
<1> QED BY <1>3, <1>4, <1>5

LEMMA AdviceIsRight == AttemptIInv => AdviceMatchesFailures
<1> SUFFICES ASSUME AttemptIInv PROVE AdviceMatchesFailures
  OBVIOUS
<1>1. PICK summary, told, warned :
        /\ summary = SuiteSummary /\ told = SuiteRecommendations(summary)
        /\ warned = SuiteWarnings(summary)
  OBVIOUS
<1>2. PICK remote, ofBrowser, nearby, failed :
        /\ remote = RemoteOf(DOMAIN reported)
        /\ ofBrowser = RemoteOf(Lane(DOMAIN reported, BrowserLanes))
        /\ nearby = LocalOf(DOMAIN reported) /\ failed = FailuresOf(DOMAIN reported)
  OBVIOUS
<1>3. PICK seen : seen = {reported[i].category : i \in DOMAIN reported} \ {"none"}
  OBVIOUS
<1>4. seen = CategoriesOf(failed)
  BY <1>2, <1>3, SeenAreFailures
<1>5. /\ failed = remote \cup nearby /\ ofBrowser \subseteq remote
      /\ summary.remoteDomains # <<>> <=> remote # {}
      /\ summary.localCategories # <<>> <=> nearby # {}
      /\ summary.remoteCategories # <<>> <=> remote # {}
      /\ summary.remoteCategories # <<>> => summary.remoteCategories[1].key \in CategoriesOf(remote)
      /\ summary.browserCategories # <<>> => summary.browserCategories[1].key \in CategoriesOf(failed)
      /\ KeysOf(summary.browserCategories) \subseteq CategoriesOf(failed)
      /\ KeysOf(summary.browserRemoteCategories) \subseteq CategoriesOf(ofBrowser)
      /\ summary.counts.browserRemote \in Nat /\ (summary.counts.browserRemote = 0 <=> ofBrowser = {})
      /\ failed = {} => summary.counts.http.local = 0 /\ summary.counts.browser.local = 0
      /\ \A c \in FailureCategories : summary.domainsOf[c] # <<>> <=> c \in CategoriesOf(remote)
  <2> HIDE DEF FailureCategories
  <2> QED BY <1>1, <1>2, SummaryFits
<1>6. CategoriesOf(remote) \subseteq seen /\ CategoriesOf(ofBrowser) \subseteq CategoriesOf(remote)
  BY <1>4, <1>5 DEF CategoriesOf
<1>7. PICK top, keys :
        /\ top = TopRemoteFailureCategory(summary)
        /\ keys = BrowserCategoryKeys(summary)
  OBVIOUS
<1>8. /\ ResponseCategories \subseteq Advised /\ Advised \subseteq FailureCategories
      /\ "none" \notin Advised
  <2>1. Advised \subseteq FailureCategories
    <3>1. /\ ErrorSigns[3][2] = "browser-navigation-timeout" /\ 3 \in DOMAIN ErrorSigns
          /\ ErrorSigns[12][2] = "browser-header-read-failed" /\ 12 \in DOMAIN ErrorSigns
          /\ ErrorSigns[17][2] = "browser-navigation-http-error" /\ 17 \in DOMAIN ErrorSigns
      BY DEF ErrorSigns
    <3>2. {ErrorSigns[3][2], ErrorSigns[12][2], ErrorSigns[17][2]} \subseteq FailureCategories
      BY <3>1 DEF FailureCategories
    <3>3. {"access-wall-challenge", "access-wall-consent", "access-wall-forbidden",
           "access-wall-rate-limit", "access-wall-trap"} \subseteq FailureCategories
      BY DEF FailureCategories
    <3> HIDE DEF FailureCategories
    <3> QED BY <3>1, <3>2, <3>3 DEF Advised
  <2> QED BY <2>1 DEF ResponseCategories, Advised
<1> HIDE DEF FailureCategories
<1>9. top \in seen \cup {"none"}
  BY <1>4, <1>5, <1>6, <1>7 DEF TopRemoteFailureCategory
<1>10. CombinedResponseAdvice(summary) => top \notin ResponseCategories /\ ResponseCategories \subseteq seen
  <2> SUFFICES ASSUME CombinedResponseAdvice(summary)
               PROVE  top \notin ResponseCategories /\ ResponseCategories \subseteq seen
    OBVIOUS
  <2>1. PICK d : \A c \in ResponseCategories : d \in KeysOf(summary.domainsOf[c])
    BY DEF CombinedResponseAdvice
  <2>2. ASSUME NEW c \in ResponseCategories PROVE c \in seen
    <3>1. summary.domainsOf[c] # <<>>
      BY <2>1 DEF KeysOf
    <3> QED BY <1>5, <1>6, <1>8, <3>1
  <2> QED BY <1>7, <2>2 DEF CombinedResponseAdvice
<1>11. /\ \A c : <<"failures", "all", "are", c>> \in told <=> c \in Advised /\ c = top
       /\ \A c : <<"remain", "all", "concentrated", c>> \in told =>
            \/ c # "response-handling" /\ summary.domainsOf[c] # <<>> /\ c \in Advised
            \/ c = "response-handling" /\ CombinedResponseAdvice(summary)
       /\ \A c \in ResponseCategories : <<"remain", "all", "concentrated", c>> \in told
            <=> /\ c # top /\ c \in keys /\ summary.domainsOf[c] # <<>>
                /\ ~CombinedResponseAdvice(summary)
       /\ <<"remain", "all", "concentrated", "response-handling">> \in told
            <=> CombinedResponseAdvice(summary)
  <2>1. \A c : /\ <<"failures", "all", "are", c>> \in told <=> c \in Advised /\ c = top
               /\ <<"remain", "all", "concentrated", c>> \in told
                    <=> <<"remain", "all", "concentrated", c>> \in RemainingAdvice(summary)
    <3> HIDE DEF Advised
    <3> QED BY <1>1, <1>7, AdviceOnCategories
  <2> HIDE DEF Advised
  <2> QED BY <1>7, <2>1, WhatRemains
<1>12. ASSUME NEW c \in ResponseCategories \cap KeysOf(summary.browserRemoteCategories)
       PROVE  Cardinality(Naming(told, c)) = 1
  <2>1. c \in CategoriesOf(ofBrowser) /\ c \in CategoriesOf(remote)
    BY <1>5, <1>6
  <2>2. summary.counts.browserRemote # 0
    BY <1>5, <2>1 DEF CategoriesOf
  <2>3. keys = KeysOf(summary.browserRemoteCategories)
    BY <1>7, <2>2 DEF BrowserCategoryKeys
  <2>4. summary.domainsOf[c] # <<>>
    BY <1>5, <1>8, <2>1
  <2>5. PICK x, y, z : /\ x = <<"failures", "all", "are", c>> /\ y = <<"remain", "all", "concentrated", c>>
                       /\ z = <<"remain", "all", "concentrated", "response-handling">>
    OBVIOUS
  <2>6. /\ x \in told <=> c = top
        /\ y \in told <=> c # top /\ ~CombinedResponseAdvice(summary)
        /\ z \in told <=> CombinedResponseAdvice(summary)
    BY <1>8, <1>11, <2>3, <2>4, <2>5
  <2>7. Naming(told, c) = {r \in told : r \in {x, y, z}}
    BY <2>5 DEF Naming
  <2>8. \E r : Naming(told, c) = {r}
    BY <1>10, <2>6, <2>7
  <2> QED BY <2>8, FS_Singleton
<1>13. ASSUME NEW c \in Advised, Naming(told, c) # {}
       PROVE  seen \cap ({c} \cup ResponseCategories) # {}
  <2>1. PICK r \in told : r \in {<<"failures", "all", "are", c>>, <<"remain", "all", "concentrated", c>>,
                                 <<"remain", "all", "concentrated", "response-handling">>}
    BY <1>13 DEF Naming
  <2>2. CASE r = <<"failures", "all", "are", c>>
    <3>1. c = top
      BY <1>11, <2>1, <2>2
    <3> QED BY <1>8, <1>9, <3>1
  <2>3. CASE CombinedResponseAdvice(summary)
    <3>1. ResponseCategories # {}
      BY DEF ResponseCategories
    <3> QED BY <1>10, <2>3, <3>1
  <2>4. CASE r = <<"remain", "all", "concentrated", c>> /\ ~CombinedResponseAdvice(summary)
    <3>1. summary.domainsOf[c] # <<>>
      BY <1>11, <2>1, <2>4
    <3> QED BY <1>5, <1>6, <1>8, <3>1
  <2>5. CASE /\ r = <<"remain", "all", "concentrated", "response-handling">>
             /\ ~CombinedResponseAdvice(summary)
    BY <1>11, <2>1, <2>5
  <2> QED BY <2>1, <2>2, <2>3, <2>4, <2>5
<1>14. ASSUME seen # {}
       PROVE  \E r \in told : r[1] = "inspect-first" /\ r[2] = "all" /\ r[3] \in {"remote", "local"}
  <2>1. remote # {} \/ nearby # {}
    BY <1>4, <1>5, <1>14 DEF CategoriesOf
  <2>2. CASE remote # {}
    <3>1. PICK r : r \in InspectFirst("all", "remote", summary.remoteDomains)
      BY <1>5, <2>2 DEF InspectFirst, SaidIf
    <3>2. r[1] = "inspect-first" /\ r[2] = "all" /\ r[3] = "remote"
      BY <3>1 DEF InspectFirst, SaidIf
    <3>3. r \in told
      BY <1>1, <3>1 DEF SuiteRecommendations
    <3> QED BY <3>2, <3>3
  <2>3. CASE nearby # {}
    <3>1. PICK r : r \in InspectFirst("all", "local", summary.localCategories)
      BY <1>5, <2>3 DEF InspectFirst, SaidIf
    <3>2. r[1] = "inspect-first" /\ r[2] = "all" /\ r[3] = "local"
      BY <3>1 DEF InspectFirst, SaidIf
    <3>3. r \in told
      BY <1>1, <3>1 DEF SuiteRecommendations
    <3> QED BY <3>2, <3>3
  <2> QED BY <2>1, <2>2, <2>3
<1>15. ASSUME seen = {}, NEW r \in told \cup warned
       PROVE  r[1] \notin {"failures", "remain", "review", "close-first", "local-failures"}
  <2>1. failed = {} /\ remote = {} /\ ofBrowser = {}
    BY <1>4, <1>5, <1>15 DEF CategoriesOf
  <2>2. summary.counts.browserRemote = 0 /\ summary.counts.http.local = 0 /\ summary.counts.browser.local = 0
    BY <1>5, <2>1
  <2>3. TopCategoryAdvice(summary) = {}
    <3>1. top \notin Advised
      BY <1>8, <1>9, <1>15
    <3> QED BY <1>7, <3>1 DEF TopCategoryAdvice
  <2>4. RemainingAdvice(summary) = {}
    <3>1. ~CombinedResponseAdvice(summary)
      <4>1. ResponseCategories # {}
        BY DEF ResponseCategories
      <4> QED BY <1>10, <1>15, <4>1
    <3>2. ASSUME NEW c \in Advised, NEW k PROVE ~Remains(summary, c, k)
      BY <1>5, <1>6, <1>8, <1>15 DEF Remains
    <3>3. {"browser-navigation-timeout", "access-wall-forbidden"} \subseteq Advised
      BY DEF Advised
    <3> HIDE DEF Advised
    <3> QED BY <1>8, <3>1, <3>2, <3>3 DEF RemainingAdvice, SaidIf
  <2>5. CASE r \in told
    BY <1>1, <2>2, <2>3, <2>4, <2>5, HeadsOfAdvice
  <2>6. CASE r \in warned
    BY <1>1, <2>2, <2>6, HeadsOfWarnings
  <2> QED BY <2>5, <2>6
<1> QED BY <1>1, <1>3, <1>12, <1>13, <1>14, <1>15 DEF AdviceMatchesFailures

\* The advice of a benchmark matches what was seen, for any attempts, any number of
\* entries of a top list and any order of what is listed.
THEOREM AdviceAlwaysMatchesFailures == AttemptSpec => []AdviceMatchesFailures
BY AttemptInvariant, AdviceIsRight, PTL
=============================================================================
