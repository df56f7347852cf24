---------------------------- MODULE MCServices ----------------------------
(***************************************************************************)
(* Small instances of the components that serve one caller at a time:      *)
(* captures, selection, packs, gates, extraction and benchmarks.  They     *)
(* share no state with one another, so one exploration takes one of them,  *)
(* its subject, and follows it; every property is about one of them.       *)
(***************************************************************************)
EXTENDS ProviderCapture, AccessSelection, HttpAccess, PackGovernance, QualityGates,
        Extraction, MCBenchmarkSuite, BenchmarkRun, Discovery, BenchmarkReport,
        BrowserRuntimes, CrawlPlanning

-----------------------------------------------------------------------------
\* Captures: what a read of a page may show.

MCLooks ==
  {ClearLook, [ClearLook EXCEPT !.waiting = TRUE]}
    \cup [type : {"nonInteractive"}, waiting : {TRUE}, verifying : {FALSE}]
    \cup [type : {"embedded"}, waiting : {FALSE}, verifying : {FALSE}]
    \cup {[type |-> "managed", waiting |-> w, verifying |-> w] : w \in BOOLEAN}

-----------------------------------------------------------------------------
\* Selection: two http providers and a browser.

MCModeOf == [p \in {"http1", "http2", "browser1"} |-> IF p = "browser1" THEN "browser" ELSE "http"]
MCProviderRank ==
  [p \in DOMAIN MCModeOf |-> CASE p = "http1" -> 1 [] p = "http2" -> 2 [] OTHER -> 3]
MCEgressOrder == [e \in {"direct", "leased"} |-> IF e = "direct" THEN 1 ELSE 2]
MCIdentities == {"plain", "lent", "stealth"}
\* A browser prefers the stealth identity.
MCIdentityOrder ==
  [p \in DOMAIN MCModeOf |->
     [i \in MCIdentities |->
        IF p = "browser1"
        THEN CASE i = "stealth" -> 1 [] i = "plain" -> 2 [] i = "lent" -> 3
        ELSE CASE i = "plain" -> 1 [] i = "lent" -> 2 [] i = "stealth" -> 3]]
MCRuntimeOf == [x \in MCIdentities \cup DOMAIN MCModeOf |->
                  CASE x = "stealth" -> "patchright-stealth"
                    [] x = "browser1" -> "patchright-default" [] OTHER -> Unset]

MCProviderHealth == {[quarantined |-> q, score |-> 60] : q \in BOOLEAN}

\* Fresh, drifted and decisively worse backends, and quarantines; an egress may also have
\* a failing health of its own.
Backends == {[quarantined |-> FALSE, plugin |-> n, score |-> 100] : n \in {30, 60, 90}}
            \cup {[quarantined |-> TRUE, plugin |-> 90, score |-> 100]}
Routes == {[quarantined |-> q, plugin |-> 60, score |-> n] : q \in BOOLEAN, n \in {30, 90}}
MCProfileHealth ==
  [{"direct", "leased"} -> Routes] \cup [{"leased"} -> Routes]
    \cup [MCIdentities -> Backends] \cup [{"stealth"} -> Backends]

\* Every mix of mode, options, provider and fallback with profiles asked for, then some
\* with profiles left open, and some that are refused.
Options == [k \in {"solving", "wait", "timeout"} |->
              IF k = "solving" THEN TRUE ELSE IF k = "wait" THEN 2 ELSE 30]
OpenRequest ==
  [mode |-> Unset, browser |-> Unset, http |-> Unset, provider |-> Unset, default |-> "http2",
   lenient |-> FALSE, command |-> Unset, hint |-> Unset, fallback |-> Unset, egress |-> Unset,
   identity |-> Unset, registry |-> "full", url |-> "http", timeout |-> 20]
MCRequests ==
  {[OpenRequest EXCEPT !.mode = m, !.browser = b, !.http = h, !.provider = p, !.default = d,
                       !.lenient = TRUE, !.fallback = f, !.egress = "leased",
                       !.identity = "stealth"] :
     m \in {Unset, "http"}, b \in {Unset, Options}, h \in {Unset, "agent"},
     p \in {Unset, "http2", "ghost"}, d \in {"http2", "ghost"}, f \in {Unset, "on"}}
  \cup
  {[OpenRequest EXCEPT !.mode = m, !.provider = p, !.default = d, !.lenient = c = Unset, !.command = c,
                       !.hint = h, !.fallback = f, !.egress = "leased",
                       !.identity = "stealth"] :
     m \in {Unset, "browser"}, p \in {Unset, "browser1"}, d \in {"http1", "ghost"},
     c \in {Unset, "render"}, h \in {Unset, "browser"}, f \in {Unset, "off"}}
  \cup
  {[OpenRequest EXCEPT !.fallback = "off"], [OpenRequest EXCEPT !.identity = "stealth"],
   [OpenRequest EXCEPT !.command = "render", !.browser = Options, !.egress = "leased"],
   [OpenRequest EXCEPT !.registry = "constrained"], [OpenRequest EXCEPT !.registry = "doubled"],
   [OpenRequest EXCEPT !.identity = "ghost"], [OpenRequest EXCEPT !.url = "ftp"],
   [OpenRequest EXCEPT !.provider = "http2", !.default = "ghost", !.fallback = "on"]}

-----------------------------------------------------------------------------
\* Packs: what a validation may find failing.

MCObservations == {{}, {"latency"}, {"chaos"}, {"recall", "resume"}}

-----------------------------------------------------------------------------
\* Quality gates.

Seen(f, v, n) == [field |-> f, value |-> v, confidence |-> n]
MCBudgets == <<500, 1200, 16384>>
MCSnapshots ==
    {[quality |-> 60, observations |-> o] :
        o \in {{}, {Seen("price", 1, 90)}, {Seen("price", 1, 87)},
               {Seen("price", 1, 90), Seen("price", 2, 89)},
               {Seen("price", 2, 90), Seen("price", 1, 30)},
               {Seen("price", 1, 90), Seen("name", 1, 1)},
               {Seen("price", 1, 90), Seen("name", 2, 1)},
               {Seen("price", 1, 60), Seen("name", 1, 90)}}}
Run(p, s, t) == [c1 |-> [pack |-> "p1", snapshot |-> s], c2 |-> [pack |-> p, snapshot |-> t]]
MCSteady == [quality |-> 60, observations |-> {Seen("price", 1, 90)}]
MCCorpusRuns == {Run("p2", s, t) : s \in MCSnapshots, t \in {MCSteady, [quality |-> 60, observations |-> {Seen("price", 1, 70)}]}} \cup {Run("p1", MCSteady, MCSteady)}
MCMeasured(now, base, n) == [now |-> now, samples |-> 12, profile |-> [cases |-> 2, packs |-> n], baseline |-> base]
MCBase == [now |-> <<10, 10, 100>>, samples |-> 12, profile |-> [cases |-> 2, packs |-> 2]]
MCMeasurements == {MCMeasured(<<20, 10, 100>>, MCBase, 2), MCMeasured(<<60, 10, 100>>, MCBase, 2), MCMeasured(<<10, 10, 5000>>, MCBase, 2),
   MCMeasured(<<501, 10, 100>>, NoEvidence, 2), MCMeasured(<<20, 10, 100>>, NoEvidence, 1)}
MCScenarios ==
    {{[state |-> "draft", failing |-> {}, expected |-> "promote-shadow"]},
     {[state |-> "active", failing |-> {"recall"}, expected |-> "active"]},
     {[state |-> "active", failing |-> {}, expected |-> "active"],
      [state |-> "shadow", failing |-> {"chaos"}, expected |-> "quarantined"]}}

-----------------------------------------------------------------------------
\* Extraction: two fields, the first with a fallback selector.

TitleFirst == [path |-> "title", all |-> FALSE]
TitleBackup == [path |-> "heading", all |-> FALSE]
PriceEach == [path |-> "price", all |-> TRUE]
MCPolicy == [maxFallbackCount |-> 1, impact |-> 20, maxImpact |-> 40]
MCRecipe ==
  <<[field |-> 1, selectors |-> <<TitleFirst, TitleBackup>>, policy |-> MCPolicy,
     confidence |-> 90],
    [field |-> 2, selectors |-> <<PriceEach>>, policy |-> MCPolicy, confidence |-> 96]>>
MCRequired == {[field |-> 1, minimum |-> 80]}
MCInvariants == {[field |-> 2, allowed |-> 0..5]}
MCArtifacts == {[id |-> 1, kind |-> "screenshot"], [id |-> 2, kind |-> "renderedDom"],
                [id |-> 3, kind |-> "html"]}
MCMatches == {<<>>, <<"five">>, <<"5", "nine">>, <<"nine", "five", "5">>, <<"?">>}
MCNormalOf == [raw \in {"five", "5", "nine", "?"} |->
                 CASE raw \in {"five", "5"} -> 5 [] raw = "nine" -> 9 [] OTHER -> -1]
MCUn == -1
MCSamples == [field : {1}, value : {5, 9}, confidence : {60, 80}, evidence : {{1}, {2}}]

-----------------------------------------------------------------------------
\* The benchmark command: two exits.

MCPool == <<"de", "at">>

-----------------------------------------------------------------------------
\* Discovery: three pages, two sitemaps that list each other, and a limit of two URLs
\* that the second list exceeds; 0 is a URL off the site.

MCRoots == <<101>>
MCLinksOf == [s \in {101, 102} |-> IF s = 101 THEN <<102, 2, 102>> ELSE <<101, 3, 1>>]
MCHintOf == [u \in 1..3 |-> IF u = 3 THEN "listing" ELSE "product"]
MCLimits == [homepageUrls |-> 1, sitemaps |-> 3, sitemapUrls |-> 2, plan |-> 3,
             share |-> [t \in ToSet(PageTypes) |-> 1], floor |-> [t \in ToSet(PageTypes) |-> 2],
             fallbackLeast |-> 1, fallbackMost |-> 2, margin |-> 1, products |-> 1]

-----------------------------------------------------------------------------
\* Attempts of benchmarks: three, of two domains.

MCSites == <<"d1", "d2">>
MCAlphabet ==
    <<"access-wall", "access-wall-challenge", "access-wall-consent", "access-wall-forbidden",
      "access-wall-rate-limit", "access-wall-trap", "browser-closed", "browser-context-allocation",
      "browser-crash", "browser-dom-read-failed", "browser-dom-read-timeout",
      "browser-header-read-failed", "browser-launch", "browser-navigation-aborted",
      "browser-navigation-connection", "browser-navigation-failed",
      "browser-navigation-http-error", "browser-navigation-response-missing",
      "browser-navigation-timeout", "browser-page-allocation", "browser-route-registration",
      "browser-title-read-failed", "browser-title-read-timeout", "d1", "d2", "egress",
      "empty-content", "http-error", "identity", "local-access-health-quarantine",
      "local-egress-config", "local-identity-config", "local-selection", "network-error",
      "provider", "timeout", "unknown-error">>

Sent(status, strong, weak, redirected) ==
    [status |-> status, strong |-> strong, weak |-> weak, redirected |-> redirected,
     content |-> TRUE, warnings |-> {}]

MCPages ==
    {[Sent("ok", {}, {}, FALSE) EXCEPT !.warnings = {"recovered"}],
     Sent("forbidden", {}, {"text-cookies"}, FALSE)}

MCErrors == {[words |-> {word}, warnings |-> {}] : word \in {"http-status", "header-read"}}

MCPlanErrors == {[words |-> {"selection"}, warnings |-> {}]}
MCPlans == {{"egress"}}
MCVariantsOf == [p \in HttpLanes \cup BrowserLanes |-> IF p = "effect-http" THEN {2} ELSE {1}]

-----------------------------------------------------------------------------
\* Routes: the modules of the SDK, alone, with a module of an application, and with one that
\* may not be added.

MCCustomModule ==
  [id |-> "custom", plugins |-> [p \in {"plain"} |-> [id |-> p, kind |-> "direct"]],
   profiles |->
     [p \in {"routed", "leased-routed", "misfit"} |->
        [DirectProfile(p, IF p = "leased-routed" THEN "leased" ELSE "plain",
                       IF p = "routed" THEN "static" ELSE "leased") EXCEPT
           !.routeKind = "http-connect", !.route.kind = "http-connect", !.route.proxy = "p1"]]]

MCModuleSets ==
  {BuiltinModules, Append(BuiltinModules, MCCustomModule), Append(BuiltinModules, CoreModule)}

Asks(egress, config, identity, mode) ==
  [egress |-> egress, config |-> config, identity |-> identity, mode |-> mode,
   identityConfig |-> IF mode = "http" THEN NoValue ELSE [k \in {} |-> "blank"]]
By(p) == [k \in {"proxyUrl"} |-> p]
Through(node, p) == [k \in {"exitNodeId", "proxyUrl"} |-> IF k = "proxyUrl" THEN p ELSE node]

\* Two accesses that browse, through one pool or through one exit node behind two proxies,
\* and one that fetches; leased keys, and requests that are refused.
MCRouteRequests ==
  [n \in 1..3 |->
     CASE n = 1 -> {Asks("wireguard", Through("n1", "p1"), "default", "browser"),
                    Asks("socks5", By("p2"), "default", "http"),
                    Asks("tor", By("broken"), "default", "http"),
                    [Asks("direct", NoValue, "leased-default", "http") EXCEPT
                       !.identityConfig = [k \in {"ttlMs"} |-> "blank"]]}
       [] n = 2 -> {Asks("wireguard", Through("n1", "p1"), "default", "browser"),
                    Asks("wireguard", Through("n1", "p2"), "default", "browser"),
                    Asks("routed", NoValue, "stealth-default", "browser"),
                    Asks("leased-routed", NoValue, "leased-default", "browser"),
                    Asks("misfit", NoValue, "default", "http")}
       [] n = 3 -> {Asks("direct", By("p1"), "default", "http")}]

-----------------------------------------------------------------------------
\* Crawl planning: three targets in two domains, two of them with one plan id.

MCBelow == [d \in {"shop", "other"} |-> IF d = "shop" THEN {"shop", "www.shop"} ELSE {"other"}]

MCCrawlPolicy == [id |-> "p", mode |-> "hybrid", render |-> "onDemand", perDomain |-> 1,
                  global |-> 2, timeout |-> 10, retries |-> 1]

CrawlEntry(target, domain, host, pack, rank) ==
  [target |-> [id |-> target, domain |-> domain, host |-> host, pack |-> pack, policy |-> "p",
               kind |-> IF rank = 1 THEN "productListing" ELSE "blogPost",
               priority |-> IF rank = 3 THEN 2 ELSE 1, rank |-> rank],
   pack |-> [id |-> pack, policy |-> "p", pattern |-> [host |-> domain, wild |-> domain = "shop"]],
   policy |-> MCCrawlPolicy, run |-> [k \in {} |-> 0]]

Entry1 == CrawlEntry(<<"a">>, "shop", "www.shop", <<"b", "c">>, 1)
Entry2 == CrawlEntry(<<"a", "b">>, "other", "other", <<"c">>, 2)
Entry3 == CrawlEntry(<<"d">>, "shop", "shop", <<"c">>, 3)

NoDefaults == [k \in {} |-> 0]
CrawlBatch(entries, defaults) == [entries |-> entries, defaults |-> defaults]
RefusedWith(entry) == CrawlBatch(<<Entry2, entry>>, NoDefaults)

MCBatches ==
  {CrawlBatch(<<Entry1, Entry2, Entry3>>, NoDefaults),
   \* one of them over plain http, in a second domain, with limits of its own
   CrawlBatch(<<[Entry1 EXCEPT !.run = [mode |-> "http", render |-> "never"]],
                [Entry2 EXCEPT !.run = [global |-> 1]], Entry3>>, [timeout |-> 20]),
   \* another access policy
   CrawlBatch(<<[Entry1 EXCEPT !.policy.id = "q", !.target.policy = "q", !.pack.policy = "q"]>>,
              NoDefaults),
   CrawlBatch(<<>>, NoDefaults), RefusedWith(Entry2),
   RefusedWith([Entry1 EXCEPT !.run = [mode |-> "http"]]),
   RefusedWith([Entry1 EXCEPT !.run = [host |-> "other"]]),
   RefusedWith([Entry1 EXCEPT !.target.host = "other"]),
   RefusedWith([Entry1 EXCEPT !.pack.pattern.wild = FALSE]),
   RefusedWith([Entry1 EXCEPT !.pack.policy = "q"]),
   CrawlBatch(<<Entry1>>, [domain |-> "other"])}

-----------------------------------------------------------------------------
VARIABLE subject    \* the component under way, or "none"

servicesVars ==
  <<subject, captureVars, selectionVars, httpVars, packVars, gateVars,
    extractionVars, suiteVars, benchmarkRunVars, discoveryVars, attemptVars,
    runtimeVars, planningVars>>

ServicesInit ==
  /\ subject = "none"
  /\ CaptureInit /\ SelectionInit /\ HttpInit /\ PackInit
  /\ GateInit /\ ExtractionInit /\ SuiteInit /\ BenchmarkRunInit
  /\ DiscoveryInit /\ AttemptInit /\ RuntimesInit /\ PlanningInit

Takes(component) == subject \in {"none", component} /\ subject' = component

ServicesNext ==
  \/ /\ Takes("capture") /\ CaptureNext
     /\ UNCHANGED <<selectionVars, httpVars, packVars, gateVars, extractionVars,
                    suiteVars, benchmarkRunVars, discoveryVars, attemptVars,
                    runtimeVars, planningVars>>
  \/ /\ Takes("selection") /\ SelectionNext
     /\ UNCHANGED <<captureVars, httpVars, packVars, gateVars, extractionVars,
                    suiteVars, benchmarkRunVars, discoveryVars, attemptVars,
                    runtimeVars, planningVars>>
  \/ /\ Takes("http") /\ HttpNext
     /\ UNCHANGED <<captureVars, selectionVars, packVars, gateVars, extractionVars,
                    suiteVars, benchmarkRunVars, discoveryVars, attemptVars,
                    runtimeVars, planningVars>>
  \/ /\ Takes("packs") /\ PackNext
     /\ UNCHANGED <<captureVars, selectionVars, httpVars, gateVars, extractionVars,
                    suiteVars, benchmarkRunVars, discoveryVars, attemptVars,
                    runtimeVars, planningVars>>
  \/ /\ Takes("gates") /\ GateNext
     /\ UNCHANGED <<captureVars, selectionVars, httpVars, packVars, extractionVars,
                    suiteVars, benchmarkRunVars, discoveryVars, attemptVars,
                    runtimeVars, planningVars>>
  \/ /\ Takes("extraction") /\ ExtractionNext
     /\ UNCHANGED <<captureVars, selectionVars, httpVars, packVars, gateVars,
                    suiteVars, benchmarkRunVars, discoveryVars, attemptVars,
                    runtimeVars, planningVars>>
  \/ /\ Takes("suite") /\ SuiteNext
     /\ UNCHANGED <<captureVars, selectionVars, httpVars, packVars, gateVars,
                    extractionVars, benchmarkRunVars, discoveryVars, attemptVars,
                    runtimeVars, planningVars>>
  \/ /\ Takes("run") /\ BenchmarkRunNext
     /\ UNCHANGED <<captureVars, selectionVars, httpVars, packVars, gateVars,
                    extractionVars, suiteVars, discoveryVars, attemptVars,
                    runtimeVars, planningVars>>
  \/ /\ Takes("discovery") /\ DiscoveryNext
     /\ UNCHANGED <<captureVars, selectionVars, httpVars, packVars, gateVars,
                    extractionVars, suiteVars, benchmarkRunVars, attemptVars,
                    runtimeVars, planningVars>>
  \/ /\ Takes("report") /\ AttemptNext
     /\ UNCHANGED <<captureVars, selectionVars, httpVars, packVars, gateVars,
                    extractionVars, suiteVars, benchmarkRunVars, discoveryVars,
                    runtimeVars, planningVars>>
  \/ /\ Takes("routes") /\ RuntimesNext
     /\ UNCHANGED <<captureVars, selectionVars, httpVars, packVars, gateVars,
                    extractionVars, suiteVars, benchmarkRunVars, discoveryVars,
                    attemptVars, planningVars>>
  \/ /\ Takes("crawl") /\ PlanningNext
     /\ UNCHANGED <<captureVars, selectionVars, httpVars, packVars, gateVars,
                    extractionVars, suiteVars, benchmarkRunVars, discoveryVars,
                    attemptVars, runtimeVars>>

ServicesSpec == ServicesInit /\ [][ServicesNext]_servicesVars
=============================================================================
