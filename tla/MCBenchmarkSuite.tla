-------------------------- MODULE MCBenchmarkSuite --------------------------
(* A small instance of BenchmarkSuite: three pages in two buckets and on two  *)
(* domains, two levels of concurrency, two exits, one or two shards.       *)
EXTENDS BenchmarkSuite

MCCorpus == <<"p1", "p2", "p3">>
MCBucketOf == [p \in ToSet(MCCorpus) |-> IF p = "p3" THEN "b2" ELSE "b1"]
MCSiteDomainOf == [p \in ToSet(MCCorpus) |-> IF p = "p1" THEN "d1" ELSE "d2"]
MCHash == [n \in {"p1", "p2", "p3", "b1", "b2", "d1", "d2"} |->
             CASE n = "p1" -> 3 [] n = "p2" -> 1 [] n = "p3" -> 2
               [] n = "b1" -> 4 [] n = "b2" -> 5 [] n = "d1" -> 6 [] n = "d2" -> 7]
MCLevels == <<1, 2>>
MCVariants == <<[key |-> "x", priority |-> 0], [key |-> "y", priority |-> 1]>>
=============================================================================
