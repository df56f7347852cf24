---------------------------- MODULE BenchmarkSuite ----------------------------
(***************************************************************************)
(* The benchmark suite (src/e9-benchmark-suite.ts): a sample of the frozen *)
(* corpus is divided among shards, each run by a process of its own; a     *)
(* shard sweeps its pages with one concurrency after the other, each page  *)
(* with a rotation of execution variants; the artifacts of the shards are  *)
(* merged at the end.                                                      *)
(*                                                                         *)
(* One profile of one phase stands for all.  The hashes that order pages,  *)
(* groups and variants are an arbitrary order; an attempt is reduced to    *)
(* the kind of its outcome, and the wall-clock half of the adaptive stop   *)
(* is left open.                                                           *)
(***************************************************************************)
EXTENDS Integers, SequencesExt

CONSTANTS Corpus,        \* the pages, in the order of the frozen corpus
          BucketOf,      \* [page -> site, page type and friction class]
          SiteDomainOf,  \* [page -> domain]
          HashOrder,     \* [page, bucket or domain -> Nat], injective
          Levels,        \* the concurrency levels of the phase
          Variants,      \* sequence of [key, priority]
          MaxRotation,   \* maxAttempts of the rotation
          MaxShards

\* The levels are each once, as in the defaults and every preset; a caller's own list,
\* which may repeat one, is left out.
ASSUME SuiteAssumption ==
    /\ Corpus \in Seq(ToSet(Corpus)) /\ IsInjective(Corpus)
    /\ HashOrder \in [DOMAIN HashOrder -> Nat] /\ IsInjective(HashOrder)
    /\ \A p \in ToSet(Corpus) : {p, BucketOf[p], SiteDomainOf[p]} \subseteq DOMAIN HashOrder
    /\ Levels \in Seq(Nat \ {0}) /\ Levels # <<>> /\ IsInjective(Levels)
    /\ MaxRotation \in Nat \ {0} /\ MaxShards \in Nat \ {0} /\ Variants # <<>>

VARIABLES suite,      \* what the suite is doing
          plan,       \* [size, shards], samplePageCount and shardCount
          shard,      \* the shard that runs
          level,      \* the index of its sweep
          taken,      \* the pages its workers have taken, mapWithConcurrency's index
          workers,    \* what each worker does
          tally,    \* outcomes of the sweep, by page index
          sweeps,     \* the finished sweeps of the shard
          attempts,   \* the attempts of its finished sweeps
          artifacts   \* of the finished shards, the merged one last

suiteVars == <<suite, plan, shard, level, taken, workers, tally, sweeps, attempts, artifacts>>

NoPlan == [size |-> 0, shards |-> 0]
IdleWorker == [index |-> 0, left |-> <<>>]

SuiteInit ==
    /\ suite = "idle" /\ plan = NoPlan
    /\ shard = 1 /\ level = 1
    /\ taken = 0 /\ workers = <<>> /\ tally = <<>>
    /\ sweeps = <<>> /\ attempts = {} /\ artifacts = <<>>

-----------------------------------------------------------------------------
(* Which pages, and in which order. *)

Before(p, q) == HashOrder[p] < HashOrder[q]

\* The place of a page in its group, ordered by hash.
RankIn(p, group) == Cardinality({q \in group : Before(q, p)})

\* One page of every group, then the next of every group, and so on.
TakesTurnBefore(p, q, pages, GroupOf) ==
    LET rank(r) == RankIn(r, {s \in pages : GroupOf[s] = GroupOf[r]})
    IN  rank(p) < rank(q) \/ (rank(p) = rank(q) /\ Before(GroupOf[p], GroupOf[q]))

\* Array.prototype.sort by a strict order: each page at its place.
Sorted(pages, Precedes(_, _)) ==
    [n \in 1..Cardinality(pages) |->
        CHOOSE p \in pages : Cardinality({q \in pages : Precedes(q, p)}) = n - 1]

InTurns(pages, GroupOf) ==
    Sorted(pages, LAMBDA p, q : TakesTurnBefore(p, q, pages, GroupOf))

OriginalOrder(p) == CHOOSE i \in DOMAIN Corpus : Corpus[i] = p

SelectStratifiedSample(size) ==
    LET chosen == {InTurns(ToSet(Corpus), BucketOf)[n] : n \in 1..size}
    IN  IF size >= Len(Corpus) THEN Corpus
        ELSE Sorted(chosen, LAMBDA p, q : OriginalOrder(p) < OriginalOrder(q))

\* Every shardCount-th page, from the shard's own place on.
SelectShardPages(pages, shards, own) ==
    LET count == (Len(pages) - own + shards) \div shards
    IN  [i \in 1..count |-> pages[own + (i - 1) * shards]]

Sample == SelectStratifiedSample(plan.size)
ShardPages == SelectShardPages(Sample, plan.shards, shard)

InterleaveSweepPagesByDomain(pages) ==
    IF Len(pages) <= 2 THEN pages ELSE InTurns(ToSet(pages), SiteDomainOf)

-----------------------------------------------------------------------------
(* The variants of a page. *)

Outcomes == {"success", "wall", "fault", "local"}

\* A wall, or a failure of the remote side that may pass, is worth another variant.
IsRetryableOutcome(outcome) == outcome = "wall"

\* By priority; variants of one priority begin at a place that the page's url decides.
VariantOrders ==
    {SubSeq(order, 1, MaxRotation) : order \in
        {o \in SetToSeqs(ToSet(Variants)) :
            \A i \in 1..Len(o) - 1 :
               \/ o[i].priority < o[i + 1].priority
               \/ /\ o[i].priority = o[i + 1].priority
                  /\ LET group == SelectSeq(Variants, LAMBDA v : v.priority = o[i].priority)
                         at(v) == CHOOSE n \in 1..Len(group) : group[n] = v
                     IN  at(o[i + 1]) = (at(o[i]) % Len(group)) + 1}}

-----------------------------------------------------------------------------
SelectPages(size, shards) ==
    /\ suite = "idle"
    /\ plan' = [size |-> size, shards |-> shards]
    /\ suite' = "sweep"
    /\ UNCHANGED <<shard, level, taken, workers, tally, sweeps, attempts, artifacts>>

StartSweep ==
    /\ suite = "sweep"
    /\ suite' = "running"
    /\ taken' = 0 /\ tally' = <<>>
    /\ workers' = [w \in 1..Levels[level] |-> IdleWorker]
    /\ UNCHANGED <<plan, shard, level, sweeps, attempts, artifacts>>

Occupy(w, index, order) ==
    workers' = [workers EXCEPT ![w] = [index |-> index, left |-> order]]

\* The worker reads and moves the index in one step, before it waits for anything.
TakePage(w, order) ==
    /\ suite = "running" /\ workers[w] = IdleWorker /\ taken < Len(ShardPages)
    /\ taken' = taken + 1
    /\ Occupy(w, taken + 1, order)
    /\ UNCHANGED <<suite, plan, shard, level, tally, sweeps, attempts, artifacts>>

\* One variant is executed; its outcome ends the page unless another is worth a try.
ExecuteVariant(w, outcome) ==
    /\ suite = "running" /\ workers[w] # IdleWorker
    /\ LET doing == workers[w]
           again == IsRetryableOutcome(outcome) /\ Len(doing.left) > 1
           next == IF again THEN [index |-> doing.index, left |-> Tail(doing.left)]
                   ELSE IdleWorker
       IN  /\ workers' = [workers EXCEPT ![w] = next]
           /\ tally' = IF again THEN tally
                         ELSE [i \in DOMAIN tally \cup {doing.index} |->
                                 IF i = doing.index THEN outcome ELSE tally[i]]
    /\ UNCHANGED <<suite, plan, shard, level, taken, sweeps, attempts, artifacts>>

CountOf(outcome, run) == Cardinality({a \in run : a.outcome = outcome})

\* buildSweepSummary
Summary(run, concurrency) ==
    [concurrency |-> concurrency, attemptCount |-> Cardinality(run),
     successCount |-> CountOf("success", run), localFailureCount |-> CountOf("local", run)]

\* shouldStopAdaptiveScaling but for its throughput: rates within a hundredth.
QualityStable(previous, current) ==
    LET n == previous.attemptCount
        m == current.attemptCount
        d == previous.successCount * m - current.successCount * n
    IN  100 * (IF d < 0 THEN -d ELSE d) <= n * m

\* The sweep is summarised, and its runner closed.
CloseSweep(saturated) ==
    /\ LET pages == InterleaveSweepPagesByDomain(ShardPages)
           run == {[concurrency |-> Levels[level], page |-> pages[i], outcome |-> tally[i]] :
                     i \in DOMAIN tally}
           current == Summary(run, Levels[level])
           stop == \/ level = Len(Levels)
                   \/ /\ saturated /\ sweeps # <<>> /\ current.concurrency # 1
                      /\ QualityStable(sweeps[Len(sweeps)], current)
       IN  /\ sweeps' = Append(sweeps, current)
           /\ attempts' = attempts \cup run
           /\ IF stop THEN suite' = "report" /\ UNCHANGED level
              ELSE suite' = "sweep" /\ level' = level + 1
    /\ taken' = 0 /\ workers' = <<>> /\ tally' = <<>>
    /\ UNCHANGED <<plan, shard, artifacts>>

\* A bug for the checks to find: the sweep ends with the first worker that is done.
EndSweepUnawaited(saturated) ==
    /\ suite = "running" /\ taken = Len(ShardPages)
    /\ \E w \in DOMAIN workers : workers[w] = IdleWorker
    /\ CloseSweep(saturated)

\* When no worker has a page left.
EndSweep(saturated) ==
    /\ suite = "running" /\ taken = Len(ShardPages)
    /\ \A w \in DOMAIN workers : workers[w] = IdleWorker
    /\ CloseSweep(saturated)

-----------------------------------------------------------------------------
(* The status of an artifact, and the merge. *)

Mostly(sweep) ==
    LET effective == sweep.attemptCount - sweep.localFailureCount
    IN  2 * sweep.successCount >= (IF effective > 1 THEN effective ELSE 1)

\* computeSuiteStatus, from the attempts, the sweeps and the statuses of the
\* sub-benchmarks that were executed.
ComputeSuiteStatus(tried, done, subs) ==
    LET local == CountOf("local", tried) > 0
        effective == {s \in done : s.attemptCount > s.localFailureCount}
        good == {s \in effective : Mostly(s)}
    IN  CASE done = {} -> IF subs = {"pass"} THEN "pass" ELSE IF "fail" \in subs THEN "fail" ELSE "warn"
          [] done # {} /\ effective = {} ->
               IF "fail" \in subs THEN "fail" ELSE IF local THEN "warn" ELSE "fail"
          [] OTHER ->
               IF "fail" \in subs \/ 2 * Cardinality(good) < Cardinality(effective) THEN "fail"
               ELSE IF good = effective /\ ~local THEN "pass" ELSE "warn"

Artifact(tried, done, subs) ==
    [attempts |-> tried, sweeps |-> done, subs |-> subs,
     status |-> ComputeSuiteStatus(tried, done, subs)]

ReportShard(subs) ==
    /\ suite = "report"
    /\ artifacts' = Append(artifacts, Artifact(attempts, ToSet(sweeps), subs))
    /\ sweeps' = <<>> /\ attempts' = {} /\ level' = 1
    /\ IF shard < plan.shards THEN shard' = shard + 1 /\ suite' = "sweep"
       ELSE suite' = "merge" /\ UNCHANGED shard
    /\ UNCHANGED <<plan, taken, workers, tally>>

\* Of two artifacts, the later one's part replaces what has the same key: a page of
\* a concurrency for attempts, a concurrency for sweeps.
Latest(PartOf(_), SameKey(_, _)) ==
    UNION {{x \in PartOf(artifacts[i]) :
              \A j \in i + 1..Len(artifacts) : \A y \in PartOf(artifacts[j]) : ~SameKey(x, y)} :
           i \in 1..Len(artifacts)}

MergeAttempts ==
    Latest(LAMBDA artifact : artifact.attempts,
           LAMBDA a, b : a.page = b.page /\ a.concurrency = b.concurrency)

MergeSweepSummaries ==
    Latest(LAMBDA artifact : artifact.sweeps, LAMBDA s, t : s.concurrency = t.concurrency)

\* The sub-benchmark of the last artifact that executed one.
MergedSubs ==
    LET executed == SelectSeq(artifacts, LAMBDA artifact : artifact.subs # {})
    IN  IF executed = <<>> THEN {} ELSE executed[Len(executed)].subs

MergeArtifacts ==
    /\ suite = "merge"
    /\ suite' = "merged"
    /\ artifacts' = Append(artifacts, Artifact(MergeAttempts, MergeSweepSummaries, MergedSubs))
    /\ UNCHANGED <<plan, shard, level, taken, workers, tally, sweeps, attempts>>

SuiteNext ==
    \/ \E size \in 1..Len(Corpus), shards \in 1..MaxShards : SelectPages(size, shards)
    \/ StartSweep
    \/ \E w \in DOMAIN workers :
          \/ \E order \in VariantOrders : TakePage(w, order)
          \/ \E outcome \in Outcomes : ExecuteVariant(w, outcome)
    \/ \E saturated \in BOOLEAN : EndSweep(saturated)
    \/ \E subs \in SUBSET {"pass", "fail"} : Cardinality(subs) <= 1 /\ ReportShard(subs)
    \/ MergeArtifacts

SuiteSpec == SuiteInit /\ [][SuiteNext]_suiteVars

-----------------------------------------------------------------------------
\* The workers of a sweep, whatever the order in which their pages end, leave no page
\* of the shard out and report none twice; the shards together report the sample.
SweepsAreComplete ==
    /\ \A i \in 1..Len(sweeps) :
          LET run == {a \in attempts : a.concurrency = sweeps[i].concurrency}
          IN  /\ {a.page : a \in run} = ToSet(ShardPages)
              /\ sweeps[i].attemptCount = Len(ShardPages)
    /\ suite = "merged" =>
          LET first == {a \in artifacts[Len(artifacts)].attempts : a.concurrency = Levels[1]}
          IN  {a.page : a \in first} = ToSet(Sample) /\ Cardinality(first) = plan.size

\* The sweeps of a merged artifact count the attempts that it lists: no shard's
\* completed sweep is lost in the merge.
CompletedSweepsAreKept ==
    suite = "merged" =>
        LET merged == artifacts[Len(artifacts)]
        IN  \A sweep \in merged.sweeps :
              sweep.attemptCount =
                Cardinality({a \in merged.attempts : a.concurrency = sweep.concurrency})
=============================================================================
