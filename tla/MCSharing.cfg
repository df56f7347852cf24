\* The components whose callers compete, each in a small instance.
CONSTANTS
  \* claims: three claimants, two pieces of work, two checkpoints, two leases
  a = a
  b = b
  c = c
  x = x
  y = y
  k1 = k1
  k2 = k2
  ClaimId = {a, b, c}
  Output = {x, y}
  NoClaim = NoClaim
  NoOutput = NoOutput
  Key = {k1, k2}
  Sequence = {1, 2}
  TTL = {1, 2}
  \* accesses: two on one route, each with a fallback; a route and the domain have room for one lease
  a1 = a1
  a2 = a2
  shop = shop
  http = http
  browser = browser
  Access = {a1, a2}
  Domain = {shop}
  Path = {http, browser}
  DomainOf <- OneDomain
  PrimaryOf <- ByHttp
  FallbackOf <- ToBrowser
  NoPath = NoPath
  Pool = pool
  NoQuarantine = NoQuarantine
  LeaseTime = 2
  MaxPool = 2
  MaxRoute = 1
  MaxIdentity = 1
  Policy <- SmallPolicy
  \* budget: two domains of two accesses, one of which asks for another budget
  Absent = Absent
  Accesses <- FourAccesses
  Domains <- TwoDomains
  HostOf <- TwoEach
  Asked <- OneAsksForMore
SPECIFICATION SharingSpec
SYMMETRY AccessSymmetry
\* Every access may have its permit, wait or have been refused.
CHECK_DEADLOCK FALSE
INVARIANTS
  LeaseExclusion
  OutcomesAreCounted
  LeasesAreReturned
  PermitsAreConserved
PROPERTIES
  SequenceNeverDecreases
  ImplementsLeaseOnce
  LeasesAreKept
  QuarantineRunsItsTime
