\* Three pages in one or two shards of a benchmark.
CONSTANTS
  Corpus <- MCCorpus
  BucketOf <- MCBucketOf
  SiteDomainOf <- MCSiteDomainOf
  HashOrder <- MCHash
  Levels <- MCLevels
  Variants <- MCVariants
  MaxRotation = 2
  MaxShards = 2
SPECIFICATION SuiteSpec
\* A benchmark ends.
CHECK_DEADLOCK FALSE
INVARIANT CompletedSweepsAreKept
