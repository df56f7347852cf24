\* The components that serve one caller, each in a small instance.
CONSTANTS
  \* capture: two attempts at a challenge
  MaxAttempts = 2
  Looks <- MCLooks
  MaxDocuments = 3
  \* selection: two http providers, one browser, two egresses, three identities
  Unset = Unset
  Direct = "direct"
  ModeOf <- MCModeOf
  ProviderRank <- MCProviderRank
  EgressOrder <- MCEgressOrder
  IdentityOrder <- MCIdentityOrder
  RuntimeOf <- MCRuntimeOf
  SolverTime = 60
  ProviderHealth <- MCProviderHealth
  ProfileHealth <- MCProfileHealth
  Requests <- MCRequests
  \* http: four attempts, delays that reach their limit
  RetryAttempts = 4
  BaseDelay = 1
  MaxDelay = 3
  MaxRedirects = 5
  \* packs: four versions, three decisions
  MaxVersion = 4
  MaxDecisions = 3
  NoVerdict = NoVerdict
  Observations <- MCObservations
  \* gates
  NoEvidence = NoEvidence
  Budgets <- MCBudgets
  CorpusRuns <- MCCorpusRuns
  Measurements <- MCMeasurements
  CanaryScenarios <- MCScenarios
  \* extraction: two fields, one of them with a fallback selector
  Recipe <- MCRecipe
  RequiredFields <- MCRequired
  Invariants <- MCInvariants
  Rendered = TRUE
  Artifacts <- MCArtifacts
  Matches <- MCMatches
  NormalOf <- MCNormalOf
  Unnormalizable <- MCUn
  Samples <- MCSamples
  MaxSamples = 3
  \* suite: three pages, two levels, two exits, one or two shards
  Corpus <- MCCorpus
  BucketOf <- MCBucketOf
  SiteDomainOf <- MCSiteDomainOf
  HashOrder <- MCHash
  Levels <- MCLevels
  Variants <- MCVariants
  MaxRotation = 2
  MaxShards = 2
  \* run of the suite: two exits, rotations of one to three
  ExitPool <- MCPool
  Strangers = {"xx"}
  Fallbacks = {0, 1, 2}
  MaxPasses = 1
  MaxEvents = 1
  \* discovery: three pages, two sitemaps that list each other, two workers
  Roots <- MCRoots
  LinksOf <- MCLinksOf
  SeedUrls = {1}
  HintOf <- MCHintOf
  FinalUrls = {0, 1, 2, 3}
  Target = 2
  Limits <- MCLimits
  Workers = {w1, w2}
  \* attempts of benchmarks: three, one profile with a rotation
  SiteNames <- MCSites
  SentPages <- MCPages
  Errors <- MCErrors
  PlanErrors <- MCPlanErrors
  PlanWarnings <- MCPlans
  VariantsOf <- MCVariantsOf
  MaxReported = 3
  TopLimit = 2
  Alphabet <- MCAlphabet
  \* routes: three accesses, two of which browse, pools of one slot and one place to wait
  Proxies = {"p1", "p2"}
  NoValue = NoValue
  Callers = {1, 2, 3}
  ModuleSets <- MCModuleSets
  RouteRequests <- MCRouteRequests
  MaxPages = 1
  MaxWaiting = 1
  \* crawl planning: two compilations, three captures
  Below <- MCBelow
  Batches <- MCBatches
  Captures = {c1, c2, c3}
  MaxCompiled = 2
SPECIFICATION ServicesSpec
\* A capture, a request or a governed pack comes to its end.
CHECK_DEADLOCK FALSE
INVARIANTS
  ClearedPagesShowNoWall
  
  QuarantineIsAvoided
  FallbackNeverRefuses
  OneRequestAtATime
  CatalogIsValid
  PromotedBuildLosesNothing
  SnapshotIsOrderFree
  SweepsAreComplete
  SidecarKeepsEveryRecord
  PagesFollowThePlan
  AttemptsAddUp
  AdviceMatchesFailures
  RoutesAreKept
  NoPoolIsLost
  RegisteredLimitsAreShared
PROPERTIES
  HistoryIsKept
