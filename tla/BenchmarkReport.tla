---------------------------- MODULE BenchmarkReport ----------------------------
(***************************************************************************)
(* What the benchmark suite says of its attempts (src/e9-benchmark-        *)
(* suite.ts): counts and top lists (buildSuiteSummary), and from these     *)
(* alone the warnings and the recommendations of the artifact.             *)
(*                                                                         *)
(* Some of the attempts are the set of their places in the report.         *)
(* A sentence is a tuple: what it says, of which part, of what in it, and  *)
(* what it names.  Phases, sampling, throughput and the statuses of the    *)
(* sub-benchmarks are left out.                                            *)
(***************************************************************************)
EXTENDS BenchmarkAttempt, FiniteSets

CONSTANTS TopLimit,     \* entries of a top list, 5 in the code
          Alphabet      \* what top lists are made of, in the order of compareStrings

OverrideKinds == {"egress", "identity", "provider"}

FailureCategories ==
    {"access-wall-trap", "access-wall-challenge", "access-wall-rate-limit", "access-wall-consent",
     "access-wall-forbidden", "access-wall", "http-error", "empty-content", "unknown-error"}
    \cup {ErrorSigns[n][2] : n \in DOMAIN ErrorSigns}

ASSUME ReportAssumption ==
    /\ TopLimit \in Nat \ {0}
    /\ Alphabet \in Seq(ToSet(Alphabet))
    /\ \A m, n \in DOMAIN Alphabet : Alphabet[m] = Alphabet[n] => m = n
    /\ FailureCategories \cup OverrideKinds \cup ToSet(SiteNames) \subseteq ToSet(Alphabet)

-----------------------------------------------------------------------------
(* Top lists. *)

ValuesIn(values) == {values[i] : i \in DOMAIN values}
OccurrencesOf(values, k) == Cardinality({i \in DOMAIN values : values[i] = k})
AlphabeticPlace(k) == CHOOSE n \in DOMAIN Alphabet : Alphabet[n] = k
TopSize(keys) == IF Cardinality(keys) < TopLimit THEN Cardinality(keys) ELSE TopLimit

\* The most frequent first.
ComesBefore(values, j, k) ==
    \/ OccurrencesOf(values, j) > OccurrencesOf(values, k)
    \/ /\ OccurrencesOf(values, j) = OccurrencesOf(values, k)
       /\ AlphabeticPlace(j) < AlphabeticPlace(k)

RankedAt(values, keys, n) ==
    CHOOSE k \in keys : Cardinality({j \in keys \ {k} : ComesBefore(values, j, k)}) = n - 1

Entry(values, k) == [key |-> k, count |-> OccurrencesOf(values, k)]

\* buildCountBreakdown
CountBreakdown(values) ==
    LET keys == ValuesIn(values)
    IN  [n \in 1..TopSize(keys) |-> Entry(values, RankedAt(values, keys, n))]

KeysOf(breakdown) == {breakdown[i].key : i \in DOMAIN breakdown}

\* getUniqueTopBreakdownEntry: the first entry, when it is ahead of the second.
UniqueTop(breakdown) ==
    IF breakdown # <<>> /\ (Len(breakdown) = 1 \/ breakdown[1].count > breakdown[2].count)
    THEN {breakdown[1].key} ELSE {}

-----------------------------------------------------------------------------
(* Some of the attempts, by their places. *)

IsLocal(a) == a.category \in LocalCategories
Fails(a) == ~a.success \/ a.blocked \/ a.challenge
IsOverridden(a) == a.warnings \cap OverrideKinds # {}

Count(some) == Cardinality(some)
Lane(some, profiles) == {i \in some : reported[i].profile \in profiles}
FailuresOf(some) == {i \in some : Fails(reported[i])}
LocalOf(some) == {i \in FailuresOf(some) : IsLocal(reported[i])}
RemoteOf(some) == {i \in FailuresOf(some) : ~IsLocal(reported[i])}
SuccessesOf(some) == {i \in some : reported[i].success}
OfCategories(some, categories) == {i \in some : reported[i].category \in categories}

Domains(some) == CountBreakdown([i \in some |-> reported[i].domain])
Categories(some) == CountBreakdown([i \in some |-> reported[i].category])
OverrideKindsOf(some) ==
    CountBreakdown([p \in {q \in some \X OverrideKinds : q[2] \in reported[q[1]].warnings} |-> p[2]])

-----------------------------------------------------------------------------
(* buildSuiteSummary *)

\* Domains whose failures have several categories; their order is left out.
MixedDomains(some) ==
    {d \in {reported[i].domain : i \in some} :
        \E i, j \in some : /\ reported[i].domain = d /\ reported[j].domain = d
                           /\ reported[i].category # reported[j].category}

\* Attempts whose path was chosen by health instead of preference.
OverridePart(some) ==
    LET overridden == {i \in some : IsOverridden(reported[i])}
        failed == {i \in overridden : ~reported[i].success /\ ~IsLocal(reported[i])}
    IN  [count |-> Count(overridden),
         domains |-> Domains(overridden), kinds |-> OverrideKindsOf(overridden),
         failures |-> Count(failed),
         failureDomains |-> Domains(failed), failureKinds |-> OverrideKindsOf(failed)]

\* The lane that tries HTTP first.
Composite(some) == Lane(some, {"effect-hybrid-stealth"})
ResolvedVia(some, mode) == {i \in SuccessesOf(Composite(some)) : reported[i].mode = mode}
CompositeFailures(some) == Composite(some) \ SuccessesOf(Composite(some))

\* Counts of one phase.
PhasePart(some) ==
    LET others == Count(some) - Count(LocalOf(some))
    IN  [count |-> Count(some), local |-> Count(LocalOf(some)),
         failed |-> Count(FailuresOf(some)), successes |-> Count(SuccessesOf(some)),
         effective |-> IF others > 1 THEN others ELSE 1]

ResponseCategories == {"browser-navigation-http-error", "browser-header-read-failed"}

SuiteCounts ==
    LET all == DOMAIN reported
        http == Lane(all, HttpLanes)
        browser == Lane(all, BrowserLanes)
    IN  [http |-> PhasePart(http), browser |-> PhasePart(browser),
         remote |-> Count(RemoteOf(all)), browserRemote |-> Count(RemoteOf(browser)),
         composite |-> Count(Composite(browser)),
         viaHttp |-> Count(ResolvedVia(browser, "http")),
         viaBrowser |-> Count(ResolvedVia(browser, "browser")),
         compositeFailed |-> Count(CompositeFailures(browser))]

SuiteSummary ==
    LET all == DOMAIN reported
        http == Lane(all, HttpLanes)
        browser == Lane(all, BrowserLanes)
        remote == RemoteOf(all)
        recovered == {i \in browser : "recovered" \in reported[i].warnings}
    IN  [counts |-> SuiteCounts,
         httpDomains |-> Domains(ResolvedVia(browser, "http")),
         browserDomains |-> Domains(ResolvedVia(browser, "browser")),
         compositeFailureDomains |-> Domains(CompositeFailures(browser)),
         overrides |-> [all |-> OverridePart(all), http |-> OverridePart(http),
                        browser |-> OverridePart(browser)],
         recovered |-> Domains(recovered),
         remoteDomains |-> Domains(remote), remoteCategories |-> Categories(remote),
         browserCategories |-> Categories(FailuresOf(browser)),
         browserRemoteDomains |-> Domains(RemoteOf(browser)),
         browserRemoteCategories |-> Categories(RemoteOf(browser)),
         localCategories |-> Categories(LocalOf(all)),
         domainsOf |-> [c \in FailureCategories |-> Domains(OfCategories(remote, {c}))],
         responseDomains |-> Domains(OfCategories(RemoteOf(browser), ResponseCategories)),
         mixed |-> MixedDomains(remote)]

-----------------------------------------------------------------------------
(* buildSuiteWarnings *)

SaidIf(condition, sentence) == IF condition THEN {sentence} ELSE {}

\* One entry ahead of the others, or several.
Clusters(part, of, breakdown) == {<<"clusters", part, of, key>> : key \in UniqueTop(breakdown)}
Spread(part, of, breakdown) ==
    Clusters(part, of, breakdown)
      \cup SaidIf(UniqueTop(breakdown) = {} /\ Len(breakdown) > 1, <<"mixed", part, of, "several">>)

TopOf(part, of, breakdown) ==
    IF breakdown = <<>> THEN {} ELSE {<<"top", part, of, breakdown[1].key>>}

Parts == {"all", "http", "browser"}

OverrideWarnings(overrides) ==
    (UNION {Spread(part, "override-domains", overrides[part].domains)
              \cup Spread(part, "override-kinds", overrides[part].kinds)
              \cup Spread(part, "failed-override-domains", overrides[part].failureDomains)
              \cup Spread(part, "failed-override-kinds", overrides[part].failureKinds) :
            part \in Parts})
      \cup SaidIf(overrides.all.count > 0, <<"affected", "all", "overrides", "attempts">>)
      \cup SaidIf(overrides.all.failures > 0, <<"affected", "all", "overrides", "failures">>)

CompositeWarnings(summary) ==
    IF summary.counts.composite = 0 THEN {}
    ELSE {<<"executed", "composite", "all", "attempts">>}
           \cup Clusters("composite", "http", summary.httpDomains)
           \cup Clusters("composite", "browser", summary.browserDomains)
           \cup Clusters("composite", "failures", summary.compositeFailureDomains)

SuiteWarnings(summary) ==
    CompositeWarnings(summary)
      \cup OverrideWarnings(summary.overrides)
      \cup SaidIf(summary.counts.http.local + summary.counts.browser.local > 0,
                  <<"local-failures", "all", "affected", "attempts">>)
      \cup SaidIf(/\ 2 * summary.counts.browser.successes < summary.counts.browser.count
                  /\ summary.counts.browserRemote > 0, <<"degraded", "browser", "is", "lane">>)
      \cup SaidIf(/\ summary.counts.browser.count > 0 /\ summary.counts.browser.local > 0
                  /\ summary.counts.browser.successes * summary.counts.browser.count
                       > summary.counts.browser.successes * summary.counts.browser.effective,
                  <<"better", "browser", "without", "local-failures">>)
      \cup SaidIf(summary.recovered # <<>>, <<"recovered", "browser", "were", "allocations">>)
      \cup TopOf("browser", "recovered", summary.recovered)
      \cup TopOf("browser", "domain", summary.browserRemoteDomains)
      \cup TopOf("browser", "category", summary.browserRemoteCategories)
      \cup TopOf("all", "category", summary.remoteCategories)
      \cup TopOf("local", "category", summary.localCategories)

-----------------------------------------------------------------------------
(* buildSuiteRecommendations *)

\* What drives the overrides of a part, when one kind does.
Drift(part, of, kinds) == {<<"drift", part, of, kind>> : kind \in UniqueTop(kinds)}

InspectFirst(part, of, breakdown) ==
    SaidIf(breakdown # <<>>,
           <<"inspect-first", part, of, {breakdown[i].key : i \in (DOMAIN breakdown) \cap 1..3}>>)

OverrideAdvice(overrides) ==
    IF overrides.all.count = 0 THEN {}
    ELSE {<<"stabilize", "all", "overrides", "first">>}
           \cup UNION {InspectFirst(part, "overrides", overrides[part].domains)
                         \cup Drift(part, "overrides", overrides[part].kinds) : part \in Parts}

FailedOverrideAdvice(overrides) ==
    IF overrides.all.failures = 0 THEN {}
    ELSE {<<"separate", "all", "failed-overrides", "first">>}
           \cup UNION {InspectFirst(part, "failed-overrides", overrides[part].failureDomains)
                         \cup Drift(part, "failed-overrides", overrides[part].failureKinds) :
                       part \in Parts}

LocalAdvice(summary) ==
    IF summary.counts.http.local + summary.counts.browser.local = 0 THEN {}
    ELSE LET top == summary.localCategories[1].key
         IN  {<<"close-first", "local", "failures",
                IF top \in {"local-selection", "local-egress-config", "local-identity-config"}
                THEN "configuration"
                ELSE IF top = "local-access-health-quarantine" THEN "quarantine"
                ELSE "browser-engine">>}

Advised == {"access-wall-challenge", "access-wall-consent", "access-wall-forbidden",
            "access-wall-rate-limit", "access-wall-trap", "browser-navigation-timeout",
            "browser-navigation-http-error", "browser-header-read-failed"}

\* The category that the advice is about: the top remote one, else the browser's top.
TopRemoteFailureCategory(summary) ==
    IF summary.remoteCategories # <<>> THEN summary.remoteCategories[1].key
    ELSE IF summary.browserCategories # <<>> THEN summary.browserCategories[1].key ELSE "none"

TopCategoryAdvice(summary) ==
    LET top == TopRemoteFailureCategory(summary)
    IN  IF top \notin Advised THEN {}
        ELSE {<<"failures", "all", "are", top>>}
               \cup InspectFirst("category", top, summary.domainsOf[top])

\* browserRemoteFailureCategories is left out of a summary without such failures.
BrowserCategoryKeys(summary) ==
    KeysOf(IF summary.counts.browserRemote = 0 THEN summary.browserCategories
           ELSE summary.browserRemoteCategories)

\* A bug for the checks to find: the two response categories are reported together
\* whatever the top category is.
CombinedBesideTop(summary) ==
    /\ ResponseCategories \subseteq BrowserCategoryKeys(summary)
    /\ \E d \in KeysOf(summary.responseDomains) :
          \A c \in ResponseCategories : d \in KeysOf(summary.domainsOf[c])

\* Both response categories on one domain, below another top category, make one sentence.
CombinedResponseAdvice(summary) ==
    /\ ResponseCategories \subseteq BrowserCategoryKeys(summary)
    /\ \E d \in KeysOf(summary.responseDomains) :
          \A c \in ResponseCategories : d \in KeysOf(summary.domainsOf[c])
    /\ TopRemoteFailureCategory(summary) \notin ResponseCategories

\* Categories that stay visible below another top category.
Remains(summary, c, keys) ==
    c # TopRemoteFailureCategory(summary) /\ c \in keys /\ summary.domainsOf[c] # <<>>

RemainingAdvice(summary) ==
    SaidIf(Remains(summary, "browser-navigation-timeout", BrowserCategoryKeys(summary)),
           <<"remain", "all", "concentrated", "browser-navigation-timeout">>)
      \cup SaidIf(Remains(summary, "access-wall-forbidden", KeysOf(summary.remoteCategories)),
                  <<"remain", "all", "concentrated", "access-wall-forbidden">>)
      \cup {<<"remain", "all", "concentrated", c>> : c \in
             {x \in ResponseCategories : /\ Remains(summary, x, BrowserCategoryKeys(summary))
                                         /\ ~CombinedResponseAdvice(summary)}}
      \cup SaidIf(CombinedResponseAdvice(summary),
                  <<"remain", "all", "concentrated", "response-handling">>)

SuiteRecommendations(summary) ==
    SaidIf(summary.counts.browserRemote > 0, <<"review", "browser", "all", "failures">>)
      \cup SaidIf(summary.counts.composite > 0, <<"read", "composite", "all", "breakdown">>)
      \cup InspectFirst("composite", "http", summary.httpDomains)
      \cup InspectFirst("composite", "browser", summary.browserDomains)
      \cup InspectFirst("composite", "failures", summary.compositeFailureDomains)
      \cup OverrideAdvice(summary.overrides)
      \cup FailedOverrideAdvice(summary.overrides)
      \cup LocalAdvice(summary)
      \cup SaidIf(summary.recovered # <<>>, <<"inspect", "browser", "allocation", "stability">>)
      \cup InspectFirst("all", "remote", summary.remoteDomains)
      \cup SaidIf(summary.mixed # {}, <<"split", "all", "mixed-domains", "by-category">>)
      \cup TopCategoryAdvice(summary)
      \cup RemainingAdvice(summary)
      \cup InspectFirst("all", "local", summary.localCategories)

-----------------------------------------------------------------------------

\* The summary accounts for every attempt, whatever runner, rotation and error it came
\* from: an attempt succeeds or fails in exactly one way, a failure is local or remote,
\* a composite success was found in exactly one of its two stages, and leaving local
\* failures out never pushes a success rate beyond one.
AttemptsAddUp ==
    lane = "idle" /\ reported # <<>> =>
        LET counts == SuiteCounts
        IN  /\ \A part \in {counts.http, counts.browser} :
                  /\ part.successes + part.failed = part.count
                  /\ part.successes <= part.effective
            /\ counts.http.local + counts.browser.local + counts.remote
                  = counts.http.failed + counts.browser.failed
            /\ counts.viaHttp + counts.viaBrowser + counts.compositeFailed = counts.composite

\* The sentences that name a category.
Naming(said, c) ==
    {r \in said : r \in {<<"failures", "all", "are", c>>, <<"remain", "all", "concentrated", c>>,
                         <<"remain", "all", "concentrated", "response-handling">>}}

\* Advice has evidence and failures get advice: a browser response category among the
\* top ones is named in exactly one sentence, what is said to remain was seen, a failure
\* never goes without a recommendation, and a run without failures is given no advice
\* about any.
AdviceMatchesFailures ==
    lane = "idle" /\ reported # <<>> =>
        LET report == SuiteSummary
            said == SuiteRecommendations(report)
            seen == {reported[i].category : i \in DOMAIN reported} \ {"none"}
        IN  /\ \A c \in ResponseCategories \cap KeysOf(report.browserRemoteCategories) :
                  Cardinality(Naming(said, c)) = 1
            /\ \A c \in Advised :
                  Naming(said, c) # {} => seen \cap ({c} \cup ResponseCategories) # {}
            /\ seen # {} => \E r \in said :
                  r[1] = "inspect-first" /\ r[2] = "all" /\ r[3] \in {"remote", "local"}
            /\ seen = {} => \A r \in said \cup SuiteWarnings(report) :
                  r[1] \notin {"failures", "remain", "review", "close-first", "local-failures"}
=============================================================================
