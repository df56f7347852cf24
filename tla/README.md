# TLA+ project for effect-scrapling

effect-scrapling is a web-scraping framework on the Effect runtime. This
directory holds TLA+ models of the parts of it whose correctness depends on
the order of steps of several actors or on decisions that several functions
take one after the other, the TLC runs that check them on small instances, and
TLAPS proofs of what matters most.

Paths below are relative to the repository; *core* stands for
`libs/foundation/core/src`, *sdk* for `src/sdk`.

1. [The system](#1-the-system)
2. [The models and the code](#2-the-models-and-the-code)
3. [The runs](#3-the-runs)
4. [Fairness](#4-fairness)
5. [Where the code and its documents disagree](#5-where-the-code-and-its-documents-disagree)
6. [The proofs](#6-the-proofs)
7. [What is not modelled](#7-what-is-not-modelled)
8. [The plan](#8-the-plan)

## 1. The system

A caller describes an access (a URL with a policy) or a crawl (targets with
packs and policies). The SDK links an access to a *path*, a provider with an
egress and an identity profile, leases what the path needs, checks that nothing
on it is quarantined and lets the provider fetch the page, over HTTP or with a
page of a browser pool. A crawl is compiled into run plans; the durable workflow
runner executes a plan step by step, each step an access followed by extraction,
snapshot, diff and a quality gate. Packs (site descriptions) have a lifecycle of
their own and feed the selectors that the extraction uses. The benchmark suite
drives all of it over a frozen corpus of shops.

```
  operators, schedulers, CLI             crawl targets, packs, policies
        |  start / resume / retry /            | compile
        |  replay / cancel / defer             v
        v                                  run plans ---> workflow budget scheduler
  durable workflow runner ---- claim / complete / release ----> work-claim store
        |            \-------- put / latest ------------------> checkpoint store
        |  capture, extraction, diff, gate steps                (SQLite or memory)
        v
  browser captures (core)                  SDK callers: access previews
        |  one process per scope                    |  selection, second resolution
        |                                           v
        |                           execution coordinator --> resource kernel
        |                              |         |              |        |
        |                            health    engine        egress   identity
        |                            runtime     |           leases   leases
        v                                        v               |
   leak detector                 HTTP fetch / browser pools <--- proxy of the route
                                                 |
  benchmark suite --- previews ------------------+--> challenge solver
```

| Part | State it keeps | Operations | Who calls it | What is hard |
| --- | --- | --- | --- | --- |
| Work-claim store: *core*`/workflow-work-claim-store.ts`, `sqlite-workflow-work-claim-store.ts` | one record per run and dedupe key: status, owner, sequence, expiry, output | `claim`, `renew`, `complete`, `release`, `get`, `listByRun` | the workflow runner, in several processes | takeover of expired claims against late completions; an answer lost after the commit |
| Checkpoint store: *core*`/sqlite-run-checkpoint-store.ts` | one row per checkpoint id | `put`, `getById`, `latest` | the workflow runner | `put` looks up, writes and reloads in three statements without a transaction |
| Workflow runner: *core*`/durable-workflow-runtime.ts`, `run-state.ts` | nothing between calls; a call works from a copy of the latest checkpoint | `start`, `resume(Run)`, `retryRun`, `replayRun`, `cancelRun`, `deferRun`, `inspect` | operators, schedulers, the CLI | stale copies, crashes between claim and checkpoint, retries, colliding replays, what an inspection may show |
| Crawl planning and workflow budget: *core*`/crawl-plan-runtime.ts`, `access-planner-runtime.ts`, `workflow-budget-runtime.ts` | registrations of the scheduler | compile, register, `withPermit` | the CLI, the runner | permits of plans of several compilations under one access policy |
| Access budget: *core*`/access-budget-runtime.ts` | transactional semaphores, one global and one per domain | `withPermit`, `inspect` | capture steps | two permits taken one after the other; state made lazily by whoever comes first |
| Browser access lifecycle: *core*`/browser-access-runtime.ts`, `browser-leak-detection.ts` | the engine and the browser process as Deferreds with a generation, closed flag, counts of the leak detector | capture, reset, close | crawl captures | the first launch shared by many, crash recovery that closes the process under others, interruption |
| Retry and timeout: *core*`/access-retry-runtime.ts`, `access-timeout-runtime.ts`, `http-access-runtime.ts` | attempts so far | `withRetry`, `withTimeout`, capture | providers | a retry beside a request that was only given up |
| Browser pools: *sdk*`/browser-pool.ts` | per pool: slot counters, queue of waiters, allocation lock, shared and retired browsers; the map of pools | `withPooledBrowserPage`, close, reset | browser providers | wake-ups, hand-overs, browsers that crash, pools made while the map is closed |
| Access execution: *sdk*`/access-execution-coordinator.ts`, `access-resource-kernel.ts`, `access-allocation-plugin-runtime.ts` | the path each access holds | plan, acquire, use, release, fall back | the SDK's previews | partial failure and interruption between two leases; outcome recorded on several ways out |
| Egress and identity leases: *core*`/egress-lease-runtime.ts`, `identity-lease-runtime.ts` | a map of leases with expiry | acquire, renew, release, release by owner, sweep | allocation plugins | sweep and allocation are two modifications; leases expire under their users |
| Access health: *core*`/access-health-runtime.ts`, *sdk*`/access-health-gateway.ts` | per subject: counts, streaks, quarantine | `recordSuccess`, `recordFailure`, `assertHealthy`, `inspect` | the coordinator, selection | outcomes of executions that began before a quarantine |
| Selection and policy: *sdk*`/access-program-linker.ts`, `access-policy-runtime.ts`, `access-profile-policy-runtime.ts`, `access-runtime.ts` | none between requests | link, select provider, egress and identity, resolve the fallback | the coordinator | tolerant comparisons of health that changes between two reads; a second resolution for another mode |
| Egress routes and modules: *sdk*`/access-module-runtime.ts`, `access-profile-runtime.ts`, `access-transport-binding.ts` | the registry composed once | compose, configure a profile, derive the transport | resource kernel, providers | three merges between the profile asked for and the proxy used |
| Providers: *sdk*`/access-provider-runtime.ts`, `browser-challenge-runtime.ts`, `browser-mediation-runtime.ts` | the page in use, the timers of a capture | fetch, render, mediate | the engine | a page that changes by itself between reads; hard timers beside the fiber |
| Pack lifecycle and governance: *core*`/pack-lifecycle-runtime.ts`, `pack-governance-runtime.ts`, `validator-ladder-runtime.ts`, `reflection-engine-runtime.ts` | the versions and states of packs | evaluate, decide, apply | operators, reflector | decisions applied late, twice or out of order |
| Extraction: *core*`/extractor-runtime.ts`, `selector-engine.ts`, `snapshot-builder.ts`, `assertion-engine.ts`, `evidence-manifest.ts` | none | extract one page | workflow steps | merging observations in any order |
| Quality gates: *core*`/snapshot-diff-engine.ts`, `drift-regression-runtime.ts`, `promotion-gate-policy-runtime.ts` and others | none | compare, analyse, decide | workflow steps, release scripts | limits on rates that a small loss stays below |
| Benchmark suite: `src/e9-benchmark-suite.ts`, `src/e9-commerce-benchmark.ts`, `scripts/benchmarks/e9-benchmark-suite.ts` | sweeps, attempts, the JSONL sidecar, walks of sitemaps | sample, sweep, merge, report; discover | the CLI | workers that share an index, shards, appends behind a failing disk |
| Surfshark WireGuard runtime: *sdk*`/surfshark-wireguard-runtime.ts` | the local exits that answer | load, probe | the benchmark command | exits that come up one by one |

`PROJECT.json` lists these and the parts that are not modelled (section 7) with
their files.

What makes each modelled part correct, in a sentence:

- *Work claims*: two claimants never count on the same work at once, one
  completion wins and stays, and work of a later checkpoint is never handed back
  to an earlier one.
- *Workflow*: a checkpoint that a caller was told of stays stored, checkpoints
  agree with the claims, form one history and can be shown to an operator, no
  step is executed twice at a time, and a supervised run ends.
- *Crawl planning*: captures whose targets were registered with equal limits of
  one access policy keep these limits together.
- *Budget*: permits are neither lost nor invented.
- *Browser captures*: every browser process has exactly one closer, a closed
  scope leaves nothing behind, and a capture ends.
- *HTTP*: a retry never races the attempt it replaces.
- *Browser pools*: the counters are the requests served, the queue is first come
  first served, browsers are closed when and only when nobody uses them, every
  request ends, and closing the runtime forgets no pool that it has not stopped.
- *Access execution*: every lease is returned and kept until then; every
  execution is counted once by the health runtime; quarantines run their time.
- *Selection and routes*: nothing in quarantine is chosen beside something
  healthy, a fallback never refuses an access, and traffic takes the proxy that
  was asked for.
- *Captures of providers*: what is reported as cleared shows no wall, and nothing
  of a result is older than the last navigation of its capture.
- *Packs*: a catalog never has two active versions and its history is not
  rewritten.
- *Extraction and gates*: a snapshot does not depend on the order of
  observations, and a promoted build loses no field.
- *Benchmarks*: every page of the sample is reported once, whatever the workers
  and shards; a successful run has every record in its sidecar; reports add up and
  their advice has evidence.

## 2. The models and the code

Every action is one atomic access of shared state (an `Effect.sync`, a
modification of a `Ref` or `SynchronizedRef`, one SQLite transaction or
statement) or the outcome of one external call; whatever the code does between
two of them is part of the action it follows. In components that one caller uses
at a time an action runs from one place where the code may be suspended to the
next. Time is relative: a record keeps what is left of its lease or quarantine,
`Tick` takes one instant from all. All durations of an instance are multiples of
that instant.

Definitions under a comment *A bug for the checks to find* are not part of the
models: no action uses them. Each is a mutated form of a definition that follows
it, and `PROJECT.json` names the property that notices the mutation.

### Work claims: `WorkClaims`, `WorkClaimStore`, `LeaseOnce`

`WorkClaims` holds the record of one piece of work and the decisions on it:
`ClaimDecision` is the chain of early returns of `claim`, `GrantedRecord`,
`RenewedRecord`, `CompletedRecord` and `ReleasedRecord` are the builders of the
four operations. The in-memory and the SQLite store run the same procedure, one
under `Effect.sync`, the other in one transaction.

`WorkClaimStore` puts a map of such records between several claimants. Each of
`Acquire`, `Refuse`, `Renew`, `Complete`, `Release` is one call. The SQLite store
commits before it reads the record back, so each call may take effect and still
fail for its caller (reply `lost`). Two history variables hold what the answers
let the claimants conclude: `belief`, how long each may count on its lease, and
`finisher`, who was told that its completion is stored. The record that is read
back after the commit may already be another's; the runner acts on the status of
the decision only, so the model answers with that.

`LeaseOnce` is what the store promises without records, sequences and clocks:
a holder or none, a result or none, a result that never changes. The store
implements it with an unexpired claimed record as the holder.

### Durable workflow: `DurableWorkflow`

Uses `WorkClaims` for the claims of all steps, with pairs of a runner instance
and a checkpoint sequence as claim ids, as `buildClaimId` makes them.

| Model | Code |
| --- | --- |
| `calls` | the local state of a call of the runner: the checkpoint it started from, the steps it has done in its batch, what it is about to persist |
| `checkpoints` | the rows of the checkpoint store, by run and sequence |
| `Start`, `Resume`, `Retry`, `Replay`, `Cancel`, `Defer` | the operations of the runner, with the order of their refusals |
| `Acquire`, `Restore`, `Duplicate`, `ClaimUnavailable` | `executeStepWithClaim` up to the step's execution |
| `FinishStep`, `CompletionUnavailable`, `FailStep` | its end: complete, or release and persist the failure |
| `LookUpCheckpoint`, `WriteCheckpoint`, `ReloadCheckpoint`, `PutUnavailable` | the three statements of `put` |
| `Crash`, `Tick` | a process dies with all of its calls; time |
| `MatchesPlan`, `ControlFits` and the other conditions of `EveryCheckpointInspects` | the validation of a checkpoint against its plan, and the filters of `WorkflowInspectionSnapshotSchema` in `run-state.ts` that an inspection is decoded with |

`acknowledged` is a history variable: the checkpoints that callers were told of.
What a stage computes (captures, snapshots, diffs) is an abstract `Output`, any
of a small set each time a step is executed, so that executing a step twice can
show.

### Permits and plans: `AccessBudget`, `CrawlPlanning`

`AccessBudget` is the budget manager at the grain of its semaphores: an access
finds or makes the budget (`FindBudget`, `MakeBudget`), takes a global permit
(`TakeGlobal`), finds or makes the domain's semaphore (`FindDomain`,
`MakeDomain`), takes one of its permits or gives the global one back
(`TakeDomain`, `BackOut`), and releases both (`GiveBack`). `ReplaceDomain` is a
mutated form. Fibers may switch between any two.

`CrawlPlanning` goes from batches of targets to permits. `CompileCrawlPlans`
compiles all entries of a batch or refuses it: `InputRefused`, `ConfigRefused`
and `PlanRefused` are the refusals in their order, `ResolvedConfig` the merge of
defaults and overrides, `RunPlan` the plan with its stages, browser requirement
and concurrency budget. `MakeScheduler` registers the budgets of a compilation;
`WithPermit` and `ReleasePermit` are captures that ask the scheduler, with plans
of that compilation or of a later one (`SharedWorkflowBudget` finds the
registration by budget id). A permit is taken in one step here. `InOrder` are the
rearrangements of a batch in which no entry stands before one that
`compareEntries` puts first.

### Browser captures of the core: `BrowserAccess`, `BrowserLeaks`

`scope`, `runtime` and `process` are the closed flag, the lazily loaded engine
and the browser process with its generation; `at` is the suspension point of
each capture's fiber. `AskRuntime`/`EngineLoads`/`EngineMissing` are
`getOrLaunchRuntime`, `AskProcess`/`LaunchSucceeds`/`LaunchFails`/
`CloseAfterLaunch` `getOrLaunchBrowserProcess` with `releaseAfterLaunch`,
`NewContext` … `CloseContext` the scoped page, `Recycle`/`FinishReset`
`resetBrowserProcess`, `CloseScope`/`FinishShutdown` the finalizer of the layer.
`Receive` and `Refuse` complete the Deferred for everyone who waits. A crashed
capture asks for a process a second time to report its recovery. `Interrupt`
ends a waiting or working capture; `InterruptLaunch` and `InterruptClose` cut
short what the code leaves interruptible, for the captures of `CutShort`.
`BrowserLeaks` is the in-memory leak detector: a count per kind of resource and
an alarm after consecutive samples over a limit.

### Browser pools: `BrowserPool`, `BrowserRuntimes`, `EgressRoute`

`BrowserPool` is one runtime of the pool. `slots` is `stateRef`, `lock` is
`allocationRef`, `shared` is `browserRef`, `retired` is `retiredBrowsersRef`;
contexts and pages are counted in lockstep by the code, so `active` is both and
`MaxSlots` is the smaller limit. `gates` are the Deferreds that were completed. A
request goes through `RequestSlot` / `Enqueue` / `WakeWithSlot` (slot),
`RequestLock` / `EnqueueForLock` / `WakeWithLock` (lock), `AcquireBrowser` /
`Launched` / `PageOpened` / `AllocationFailed` / `Evict` (browser),
`ReleaseLock`, `EndUse`, `ReleaseSlot`, `CheckIdle`, `Sweep`. `StopSlots`,
`StopLock`, `StopBrowsers` are `stopBrowserPoolRuntime`.

`Yields` is the question of the scheduler. JavaScript runs one fiber at a time;
an Effect fiber normally keeps the thread until it suspends, but the scheduler
may make it yield between two synchronous effects when it has used up its
budget of operations. With `Yields = FALSE` fibers switch where they suspend;
with `TRUE` they switch between any two modifications.

`EgressRoute` holds the functions between a profile and a proxy: the composition
of modules into a registry and its refusals, the configuration of a profile
(`Configured`, `AllowedKeys`), the session each allocation plugin makes
(`DirectSession`, `WireGuardSession`, `ProxySession`), and the transport that
`RealizedTransport` derives and merges. `BrowserRuntimes` takes accesses through
them (`ResolveProfiles`, `AcquireSessions`, `Transport`, `Fetch`) to the pool of
their key and proxy (`FindPool`, `CacheKey`), through its slots and queue (`TakeSlot`,
`GiveBack`) and its allocation lock (`Allocate`) to a browser and a page
(`Launch`, `OpenPage`), with one more try when a browser looks dead
(`AllocationFails`). `Close` stops the pools of the map one after the other while
accesses go on: `StopPool` closes slots and lock and wakes who waits,
`StopBrowser` closes the browser, `ClearMap` empties the map. The code asks
whether a pool is open when a slot and when the lock is taken and not again, and
neither does the model; `late` notes who was allocating while its pool was stopped.

### Access execution: `AccessHealth`, `Leases`, `AccessExecution`

`AccessHealth` has the transition functions of one health subject, `Leases` the
operations on the map of a lease manager. `AccessExecution` composes two lease
managers, the health of domains and paths, and the accesses:

| Model | Code |
| --- | --- |
| `SweepEgress`, `LeaseEgress`, `SweepIdentity`, `LeaseIdentity`, `AbandonEgress` | `provision` of the resource kernel with the leased plugins; `acquire` of a manager sweeps in one modification and allocates in the next |
| `CheckHealth` | `assertHealthy`, one subject after the other; only the primary path is checked |
| `Execute` | the engine resolves (a result, or a result behind an access wall) or fails (with or without a guardrail error) |
| `Record` | `recordSuccess` and `recordFailure`, one subject after the other: inside the use of the path for failures and fallbacks, after its release for a primary success or wall |
| `Interrupt` | the access's fiber is interrupted; acquisition and release are not interruptible |
| `ReleaseEgress`, `ReleaseIdentity`, `Settle` | the release of `acquireUseRelease`, and what follows it |
| `Tick` | one instant for leases and quarantines |

All accesses have one owner and tenant, as in the SDK, and a lease's key is used
once, so the key stands for the lease's id.

### Selection: `AccessSelection`

A request is asked (`Ask`), refused or linked (`RefuseSelection`,
`ResolveSelection`), given an egress and an identity (`SelectEgress`,
`SelectIdentity`, `RefuseProfiles`), and, when it wants a fallback, resolved a
second time as `BrowserRequest` makes it (`ResolveIntent`). Each selection reads
health signals that may be any of the instance's, new ones each time. The
comparators (`ProviderBeats`, `EgressBeats`, `IdentityBeats`) allow for a
tolerance and are not transitive; which profile `Array.prototype.sort` then puts
first depends on the engine, so a choice may be any that beats all others
directly or through a chain. `QuarantineWarnings` and `ProfileWarnings` are what
the plan tells its reader.

### Captures of providers: `ChallengeSolver`, `ProviderCapture`, `HttpAccess`

`ChallengeSolver` is `resolveBrowserChallenges`: attempts under one deadline,
each a read of the page, a wait or a click, and a confirmation. Every read may
show anything (`Looks`). `ProviderCapture` is `executeBrowserProvider` around it:
page, route guard, navigation, status, headers, content, mediation, second
navigation, confirmation, with a hard timer that is set anew by each stage and
answers in the place of the fiber (`HardTimeout`). Documents of the page are
numbered, those it is navigated to (`Navigated`) and those it moves to by itself
while the capture awaits something (`PageMoves`); content, response, headers and
final URL carry the number of the document they were read from. The content is
read after `goto` (`Read`), after a settled challenge (`SettledRead`) and after a
configured wait (`ReadAfterWait`).

`HttpAccess` has the two HTTP clients: the foundation's capture under its retry
policy, whose timeout aborts the response and only gives up the body
(`GiveUpOnly`, `AbandonedBodyEnds`), and the SDK's provider, which follows
redirects under one timeout.

### Packs and gates: `ValidatorLadder`, `PackGovernance`, `QualityGates`, `Extraction`

`ValidatorLadder` turns what failed into a verdict; `PackGovernance` decides on a
verdict (`Decide`) and applies decisions whenever a caller does, in any order and
more than once (`Activate`, `Transition`, `RecordDraft`), to a catalog of
versions. `QualityGates` runs a candidate through the incumbent comparison, the
drift analysis, the performance budget, the live canary and the gate policy to
the exported report. `Extraction` is one page: the document artifact, each field
through its selectors, observations merged in pairs, assertions, the evidence
manifest; `AssembleSamples` assembles arbitrary samples to test the merge alone.

### Benchmarks: `BenchmarkSuite`, `BenchmarkRun`, `BenchmarkAttempt`, `BenchmarkReport`, `Discovery`

`BenchmarkSuite` samples the corpus, divides it among shards, sweeps with workers
that share one index (`TakePage`, `ExecuteVariant`), decides after each sweep
whether to go on, and merges the artifacts. `BenchmarkRun` is the command: its
guards, the readiness of the local exits and the sidecar with its chain of
appends. The file is the sequence of pieces put down in it: a failed append may
have put down nothing, a part of the record, all but its newline, or all of it,
the second try is appended right behind (`WriteFails`, `EntryIsWritten`), and a
piece without a newline shares the line of the next one; the next run appends
behind what this one left (`NewRun`). `BenchmarkAttempt` is one page through its
lane, by HTTP, in a browser or in both stages, and through other exits;
`BenchmarkReport` the summary, warnings and recommendations over the attempts.
`Discovery` finds the pages of a shop: homepage, sitemaps, a bounded plan, concurrent probes, a browser for some
that failed, a quota of each type. A page has the URL that was asked and, when it
comes of the browser, the URL where that ended up.

### Instances: `MC*`

`MCDurableWorkflow`, `MCBrowserPool`, `MCBrowserAccess` and `MCBenchmarkSuite`
instantiate one component each. `MCSharing` and `MCServices` put instances of
components that share no state side by side: `subject` is the component that an
exploration takes with its first step and then follows. This explores the sum of
the components' states and not their product, and a property of one of them is
checked in the states of that one. Components that do share state are composed:
`AccessExecution` of leases, health and accesses, `DurableWorkflow` of claims,
checkpoints and calls, `ProviderCapture` of capture and solver,
`BrowserRuntimes` of routes and pools, `BenchmarkReport` of attempts and reports.

## 3. The runs

`MC*.tla` give the instances their definitions; the `.cfg` files their constants.

| Run | Checks | Shows |
| --- | --- | --- |
| `workflow` | `AcknowledgedIsKept`, `CheckpointMatchesClaims`, `OneHistory`, `EveryCheckpointInspects`, `NoConcurrentDuplicate` | two runner instances on one run of two steps; every operation but replay, every kind of failure, a crash, steps that outlive their lease |
| `workflow_replay` | `AcknowledgedIsKept` | two replays that share their run id: one is told of a conflict, the other's checkpoint stays |
| `workflow_live` | `RunSettles` | a supervised run ends as succeeded although a call crashes with its claim and steps fail retryably |
| `workflow_retry_three` | `RetryNeverCorrupted`, violated | [disagreement 1](#5-where-the-code-and-its-documents-disagree) |
| `workflow_shared_put` | `AcknowledgedIsKept`, violated | disagreement 2 |
| `pool` | `SlotsAreCounted`, `FirstQueuedFirstGranted` | three requests, two slots, yields anywhere, one crash, failing allocations, shutdown: these hold under any scheduling |
| `pool_live` | `NoForgottenBrowser`, `UsedBrowsersStayOpen`, `EveryRequestEnds` | the same requests when fibers switch only where they suspend |
| `browser` | `EachBrowserHasItsCloser`, `ClosedScopeIsClean`, `CapturesEnd` | three captures on one process, with failing loads and launches, policy violations, crashes, timeouts, interruptions, a scope that closes at any time |
| `browser_startup` | `EveryCaptureEnds`, violated | disagreement 3 |
| `sharing` | `LeaseExclusion`, `SequenceNeverDecreases`, `ImplementsLeaseOnce`; `LeasesAreReturned`, `LeasesAreKept`, `OutcomesAreCounted`, `QuarantineRunsItsTime`; `PermitsAreConserved` | claims, accesses and permits, each between any two modifications of the others |
| `services` | one or two properties of each of twelve components, below | selections, captures, packs, gates, extraction, benchmarks, routes and crawls, each with every order of its pages, workers, writes, timers and callers |
| `benchmark_shards` | `CompletedSweepsAreKept`, violated | disagreement 4 |

`PROJECT.json` names, for every property of a passing run, a mutant: a bug in
one mapped definition that makes TLC find the property violated under the run's
own configuration.

The properties of `services`, and what they would notice:

| Property | Module | Says |
| --- | --- | --- |
| `ClearedPagesShowNoWall` | `ProviderCapture` | a page that is reported as cleared of its challenge shows no wall |
| `PartsFollowTheNavigation` | `ProviderCapture` | however often a capture navigates and its page moves by itself, status and headers of a result are of the document that the last navigation led to, the content is no older and the final URL no older than the content |
| `OneRequestAtATime` | `HttpAccess` | at most one request waits for its response, and nothing of the provider's runs on after its answer; beside them only bodies that a capture gave up may be open, one per retry |
| `QuarantineIsAvoided` | `AccessSelection` | a provider or profile that nobody named is in quarantine only when every other candidate is, and the plan says so |
| `FallbackNeverRefuses` | `AccessSelection` | an access whose own path was resolved is not refused because of its fallback, but for a default provider that the caller insists on and nobody registered |
| `CatalogIsValid`, `HistoryIsKept` | `PackGovernance` | no version twice and at most one active, however decisions are applied; a recorded version keeps its definition, and its state never returns |
| `PromotedBuildLosesNothing` | `QualityGates` | a promoted build extracted every field of the incumbent with its value, no other field, and no case less certain by two points |
| `SnapshotIsOrderFree` | `Extraction` | a snapshot has one observation per field and value, with the greatest confidence and all evidence, sorted, for every order |
| `SweepsAreComplete` | `BenchmarkSuite` | the workers of a sweep leave no page of the shard out and report none twice; the shards together report the sample |
| `SidecarKeepsEveryRecord` | `BenchmarkRun` | a run that returns left every record whole and ended, in order and at most twice; what a failed append left joins the line of the same record alone, and what an earlier run left that of the first |
| `AttemptsAddUp`, `AdviceMatchesFailures` | `BenchmarkAttempt`, `BenchmarkReport` | the summary accounts for every attempt in exactly one way; advice has evidence, and failures get advice |
| `PagesFollowThePlan` | `Discovery` | the pages of the probes, and after them those of the browser, are in the order of the plan by the URLs that were asked, whoever answers first and wherever the browser is redirected; no URL is there twice, and none that a probe served is asked again |
| `RoutesAreKept` | `BrowserRuntimes` | the traffic of an access takes the proxy that was asked for, never none and never another's, also in a pool that is being closed |
| `NoPoolIsLost` | `BrowserRuntimes` | a pool that no close finds any more has been stopped, nobody waits in it, and a browser is left in it only where an access was allocating while it was stopped |
| `RegisteredLimitsAreShared` | `CrawlPlanning` | captures of one access policy whose targets were registered with equal limits keep these together, in all and in each domain; targets with other limits are not counted with them |

The comment above each property in its module states it exactly, with its
exceptions.

Bounds, and why they are enough for what the runs ask:

- *Work claims.* Three claimants are a holder, its replacement and one more that
  replaces it; one key is independent of the other, and the second is there for
  `LeaseOnce`'s simultaneous lapses. Two sequences are a stale and a current one, two outputs a completion
  and one that would overwrite it, two durations a lease that outlives another.
  The theorems of section 6 remove these bounds.
- *Workflow.* `MaxSequence` 4 leaves a run of two steps room for a failed, a
  deferred or a cancelled checkpoint besides its two. `MaxFaults` and
  `MaxCrashes` 1: a fault and a crash, together; the lost update, the takeover
  and the retry each need one. Two calls, because the stores serialise: what a
  third call could do to the other two, one of them could do before. `TTL` 1 is a
  lease that expires at the next instant or not. `workflow_replay` has two steps
  per checkpoint, `workflow_retry_three` three, since disagreement 1 needs the
  third.
- *Browser pool.* Two slots and three requests are the smallest pool with a queue
  and with two pages on one browser; `MaxQueue` 2 (or 1) fills up. Four browser
  processes run or wait to be closed; `Launched` reuses the numbers of closed
  ones. Retired browsers pile up for as long as the pool is never idle, so
  behaviours reach any bound; at it a launch can only fail.
- *Browser captures.* A launcher, a waiter and one that resets what the launcher
  gave up; the detector alarms at the first sample over its limit. Only `c3` may
  be cut short, so that the properties of the other two are about uninterrupted
  startups. The theorems remove the number of captures.
- *Accesses.* Two accesses to one domain: what accesses do to each other goes
  through a lease's scope, a pool's capacity or a subject's health, and always
  concerns a pair. Every access has a fallback, so one access makes two attempts
  and a wall, a fallback's failure and its success meet on the domain. A route
  and the domain have room for one lease, the pool for two, and a lease lasts two
  instants, so that capacities refuse, leases expire in use and another access
  takes the place. The domain is quarantined at the second failure in a row for
  two instants, a path at the first for one. The theorems remove these bounds.
- *Permits.* Four accesses to two domains, one of which asks for more than the
  budget was made with, at capacities that refuse globally and per domain.
- *Services.* Each component has the smallest instance in which its property can
  fail for a mutated definition: two attempts at a challenge (one that fails and
  one that clears); two HTTP providers and a browser, two egresses and three
  identities (a preference, its rival and a chain through a third); four HTTP
  attempts, so that the delay reaches its limit; four versions of a pack and
  three decisions (a promotion, its successor and a late one); two fields, one
  with a fallback selector, and three samples; three pages in two buckets, two
  concurrency levels, two exits, one or two shards, two workers; two exits under
  rotations of one to three; two sitemaps that list each other and three pages;
  three attempts in a report; three accesses, two of which browse, on pools of one
  slot and one waiting place (one holds the slot or allocates while the other
  waits, comes late or asks for a pool of its own); two compilations with three
  captures in two domains. `MaxDocuments` 3 lets a page move by itself twice behind
  one navigation, and before or after a second, and `FinalUrls` lets a browser end
  up at any page of the site and at one that is not in the plan. Failed appends are not bounded.

Deadlock is checked in every run but `sharing`, `services` and
`benchmark_shards`: there captures, requests and benchmarks come to an end, and
accesses may all hold, wait for nobody, or have been refused.

## 4. Fairness

- *Workflow* (`workflow_live`). A pending call proceeds (weak fairness): its
  next store access or the end of its step stays possible until it happens.
  Time passes (weak fairness of `Tick`). Somebody supervises the run (strong
  fairness of `Supervise`, which needs an idle call): it starts the run when there
  is no checkpoint, retries it after a failure and resumes it otherwise, as
  `docs/runbooks/e5-workflow-operational-controls.md` tells operators. Steps end
  within their lease (`StepOutlivesLease = FALSE`): the runner never renews a
  claim, so a step that always takes longer than `timeoutMs` is taken over again
  and again and the run does not settle. Faults and crashes are finite and get
  no fairness.
- *Pool* (`pool_live`). Strong fairness of what a request does once it came: the
  scheduler runs ready fibers in the order they became ready, and a request that
  can run again and again, since others run in between, has its turn. It assumes
  that every launch, `newContext` and `newPage` settles; one that never does
  keeps the allocation lock, and neither waiting nor allocating can be
  interrupted, so everybody waits for it. A shutdown that began continues.
  Nothing is assumed of arrivals, crashes and the beginning of a shutdown.
- *Browser captures* (`browser`, `browser_startup`). Weak fairness of what each
  capture does when it may go on or was answered, and of a shutdown that began:
  every call of the engine and the browser is answered, in the end by its own
  deadline or the engine's launch timeout. Nobody need come, interrupt or close.
  Even so `EveryCaptureEnds` fails (disagreement 3); `CapturesEnd` is what
  remains when no interruption cuts a startup or a close short.

## 5. Where the code and its documents disagree

Each of the first four is a run that TLC must find violated.

1. `workflow_retry_three`. A batch claims its n-th step at the checkpoint sequence
   plus n, but a failure is persisted at that sequence plus one. When the third
   step of a batch fails retryably, `retryRun` claims it at a sequence lower than
   the released claim's, is answered `superseded` without an output, and fails
   with `CheckpointCorruption`, each time. The operational-controls runbook
   promises a retry exactly for such failures.
2. `workflow_shared_put`. `put` looks the id up and upserts outside a transaction;
   two processes both find nothing and the second overwrites what the first was
   told is stored. A test says that conflicting duplicates are rejected. Within
   one process the statements run without suspension and `workflow` shows that
   the property holds there.
3. `browser_startup`. `getOrLaunchBrowserProcess` completes its Deferred when a
   launch succeeds or fails and not when the launching capture is interrupted: the
   state stays `launching`, and every later capture of the scope waits without a
   deadline. The lifecycle runbook says that a failed startup lets the next
   capture retry.
4. `benchmark_shards`. The merge of shard artifacts keeps the attempts of every
   page and, of each profile and concurrency, the last shard's sweep alone; the
   status and the summary are then computed from that. Two tests say that the
   merge completes the sample and loses no completed sweep.

More of them can be checked with definitions of the modules that no run lists:

- `NoForgottenWaiter` (`BrowserPool`, as an invariant of `MCBrowserPool.cfg`): a
  request decides to queue in one modification and queues in a second that does
  not look at the capacity again (*sdk*`/browser-pool.ts:588`). When the last slot
  is released in between, which takes a yield there, it waits in an idle pool.
- `ClosedPoolLeavesNoBrowser` (there): a shutdown closes the browser under an
  allocation; the allocation's retry launches another into the stopped runtime,
  and nobody closes it (*sdk*`/browser-pool.ts:1036`). `NoPoolIsLost` admits such a
  browser, and no other.
- `LostClaimWritesNoFailure` (`DurableWorkflow`, as a property of
  `MCDurableWorkflow.cfg`): when a step fails, the answer of `release`, that the
  claim is no longer the runner's, is dropped, and a failed checkpoint is
  persisted (*core*`/durable-workflow-runtime.ts:1011`).
  `docs/runbooks/e5-duplicate-work-suppression.md:24` calls that a regression.

And these were met while reading the code for the models:

- `resumeRun` of a run that succeeded through a retry answers that its checkpoint
  is corrupted: the control result repeats a control of another status
  (*core*`/run-state.ts:328`).
- The explanation of a render keeps `waitMs` and `waitSelector`
  (*sdk*`/access-program-linker.ts:182`), its execution drops them
  (*sdk*`/access-runtime.ts:119`); README and CLI tests offer `--wait-ms`.
- The id of a plan joins target and pack id by a dash, and compilation compares
  target ids alone: target `a-b` with pack `c` and target `a` with pack `b-c` get
  one plan id, and with it one budget and one run. `RegisteredLimitsAreShared`
  is checked with such a pair.
- Permits are shared by an access policy and its limits
  (*core*`/workflow-budget-runtime.ts:73`): targets of one policy that runs
  registered with different limits have pools of their own, and together may hold
  more than any of these limits.
- The workflow budget refuses a later registration of one id under another access
  policy, but neither another domain nor other limits, which are ignored.
- The warning about a preferred profile that was passed over compares the sums of
  the scores, the sort compares them one by one
  (*sdk*`/access-profile-policy-runtime.ts:71`): a profile that lost by one score
  may be left without a word.
- When the first append of a record fails half-way, the second is put down on the
  same physical line (`scripts/benchmarks/e9-benchmark-suite.ts:600-603`): `flush`
  reports no failure, and a reader of JSON lines cannot read that one. An append
  that failed after it wrote everything leaves its record twice. The first record
  of a run likewise joins the unended line of a run that was killed.
- A page may move to another document by itself behind `goto` or during the
  configured wait (*sdk*`/access-provider-runtime.ts:797`, `:1089`): the content of
  the result, and the URL, are then of a later document than status and headers.
- A page that the browser found in place of a failed probe carries the URL where
  the browser ended up (`src/e9-commerce-benchmark.ts:1232`), which may be one that
  the plan, or the site, does not have.

## 6. The proofs

Eight modules of theorems. The constants are arbitrary up to the named
assumptions of the modules, which ask for types, positive limits, finite sets
where things are counted, and values that stand for "none" to be no others:
`NoValues`, `SequenceAssumption`, `TTLAssumption`, `PlanAssumption`,
`InstanceAssumption`, `NoRecordAssumption`, `PoolAssumption`, `RouteAssumption`,
`RuntimesAssumption`, `BudgetAssumption`, `AccessAssumption`, `SolverAssumption`,
`HttpAssumption`, `SelectionAssumption`, `PlanningAssumption`,
`GovernanceAssumption`, `SuiteAssumption`, `CorpusAssumption`, `DiscoveryAssumption`,
`ExtractionAssumption`, `AttemptAssumption`, `ReportAssumption`,
`BrowserAccessAssumption` and `LimitsAssumption`. TLC evaluates them on the
instances of the runs.

| Module | About | Theorems |
| --- | --- | --- |
| `WorkClaimStoreProofs` | `WorkClaimStore` | `Typing`; `LeaseExclusionHolds`: two claimants never both count on a live lease; `SingleFinisherHolds`; `CompletedForeverHolds`; `SequenceNeverDecreasesHolds`; `Implementation`: every behaviour of the store is one of `LeaseOnce` |
| `DurableWorkflowProofs` | `DurableWorkflow` | `WorkflowTyping`; `EveryCheckpointAlwaysInspects`; `RunsHaveOneHistory` and `AcknowledgedIsAlwaysKept`, in one process; `CheckpointsAlwaysMatchClaims` and `NeverConcurrentDuplicates`, when calls have instances of their own |
| `BrowserPoolProofs` | `BrowserPool` | `PoolTyping`; `SlotsAreAlwaysCounted`; `FirstQueuedIsFirstGranted`; `PagesAlwaysFitTheLimit`; `NoBrowserIsForgotten`; where fibers switch only where they suspend, `UsedBrowsersAreKept` and `NoWaiterIsForgotten` |
| `BrowserRuntimesProofs` | `BrowserRuntimes`, `EgressRoute` | `RuntimesInvariant`; `RoutesAreAlwaysKept`; `NoPoolIsEverLost` |
| `BrowserAccessProofs` | `BrowserAccess`, `BrowserLeaks` | `BrowserTyping`; `BrowserLife`, the inductive invariant of launches and resets; `EachBrowserAlwaysHasItsCloser`; `DetectorInvariant`; `ClosedScopeAlwaysClean` |
| `SharingProofs` | `AccessBudget`, `AccessExecution` | `BudgetInvariant`; `PermitsStayConserved`; `BudgetIsNeverOverrun`; `RefusalsAreUnderLoad`: an access is refused only while others have every permit of the semaphore that refuses it; `AccessTyping`; `LeasesAreAlwaysReturned`; `LeasesAreAlwaysKept`; `QuarantineAlwaysRunsItsTime`; `CapacitiesAlwaysHold`: pool, routes and domains are never leased beyond their room; `OutcomesAreAlwaysCounted` |
| `ServicesProofs` | `HttpAccess`, `ProviderCapture`, `AccessSelection`, `CrawlPlanning` | `HttpInvariant`; `OneRequestAlways`; `CaptureInvariant`; `ClearedNeverShowsWall`; `PartsAlwaysFollowTheNavigation`; `ClearanceAlwaysSeenLast`; `SelectionInvariant`; `QuarantineIsAlwaysAvoided`; `FallbackNeverMakesRefuse`; `PlanningInvariant`; `RegisteredLimitsAreAlwaysShared` |
| `EvidenceProofs` | `PackGovernance`, `BenchmarkRun`, `BenchmarkSuite`, `QualityGates`, `Discovery`, `Extraction`, `BenchmarkAttempt`, `BenchmarkReport` | `CatalogInvariant`; `CatalogAlwaysValid`; `HistoryAlwaysKept`; `OnlyLiveVersionsActivated`; `SidecarInvariant`; `SidecarAlwaysKeepsEveryRecord`; `SuiteInvariant`; `SweepsAreAlwaysComplete`; `GateInvariant`; `PromotedBuildNeverLoses`; `DiscoveryInvariant`; `PagesAlwaysFollowThePlan`; `ExtractionInvariant`; `SnapshotAlwaysOrderFree`; `AttemptInvariant`; `AttemptsAlwaysAddUp`; `AdviceAlwaysMatchesFailures` |

Each proof follows the same way: an inductive invariant, that it holds initially,
that every action keeps it, and that it implies the property; an action property
follows from the invariant and one step. What the invariants add, and why:

- *Work claims* (`IInv`). `LeaseExclusion` speaks of what claimants count on, a
  takeover looks at the record. `BeliefBacked` connects the two: whoever counts on
  n instants owns a claimed record whose lease is at least n, so two believers are
  one. `FinishedIsStored` does the same for completions, and `AbsentIsBlank` says
  that a record that does not exist has no history, without which a first claim
  could lower a sequence. `Implementation` maps `Acquire` to the abstract
  `Acquire` (or to a stutter for a holder that claims again), `Renew` to a stutter,
  `Complete` to `Finish`, `Release` and `Tick` to `Lapse`.
- *Workflow.* Three invariants, each on top of the one before. `CallsIInv`: a call
  that is about to persist holds a checkpoint that `inspectRun` accepts; this needs
  nothing of the other calls. `HistoryIInv`: at most one put is under way
  (`OnePut`), the sequence number it looked for is still free (`SlotsAreFree`),
  and every call works from a checkpoint of the one history (`FromHistory`). The
  first of these is what one process gives and a shared database does not, so the
  theorems assume `~SharedDatabase`; the run `workflow_shared_put` shows that they
  must. `ClaimsIInv`: what a call counts as done is completed in the store with
  the output that it carries (`DoneMatches`), and a call that executes finds the
  claim of its step either taken over or still claimed (`OwnClaimIsLive`). Two calls of
  one runner instance at a time could form one claim id; `OwnInstances` excludes
  that, as the claims runbook asks of callers.
- *Browser pool.* Three layers. `QueuesIInv`: a queue holds requests that wait for
  a gate that is closed, each once. `HoldersAreCounted`: the counter of an open
  pool is the number of requests between grant and release; a grant by a release
  takes the heads of the queue before they wake, so it is counted by the open
  gates. `BrowsersIInv`: an open browser is the shared one or a retired one
  (`OpenIsKnown`), and as long as there are retired ones, a request is left that
  will look whether to sweep them (`RetiredAreSwept`). These hold for any
  scheduling. `UsedBrowsersAreKept` and `NoWaiterIsForgotten` assume `~Yields`,
  that nothing runs between the look at the slots and what follows from it: a
  sweep finds no slot taken (`SweepIsSafe`), and whoever is queued waits for a
  full pool (`QueuedMeansFull`).
- *Browser runtimes* (`RuntimesIInv`). `SessionsKeepTheProxy` follows a profile
  through session, transport and merges; `PoolsFitTheirCallers` and `BrowsersFit`
  carry it into the pool and the browser of the pool and of each page in it.
  `QueuesWait`, `ClosingInOrder` and `LateOnesAreNoted` are what makes
  `NoPoolIsLost` inductive: while one close stops pools in the order of the map, a
  new pool goes to the end of it; and only who was allocating in a pool when it was
  stopped can still launch a browser there, because nobody takes its lock later.
- *Accesses* (`AccessIInv`). `LeasesAreReturned` is nearly inductive: whoever
  leaves the places in which a lease may be held has just removed it, and only an
  access that holds none changes its attempt and with it its key. What is added is
  typing, that health is kept of subjects alone, and that nobody is on a fallback
  that does not exist. `LeasesStayReturned` is the argument once for all actions;
  `CapacitiesHold` counts the leases in a scope, which only an allocation with
  room in it lets grow. `BooksIInv` counts outcomes while accesses are under way:
  `HealthIsTheCount` says that a subject's health is the number of executions that
  are recorded on it so far, `BooksAreKept` which those are at each place. It needs
  domains and paths to be different subjects, as their keys are in the code.
- *Permits* (`BudgetIInv`). `SemaphoresAreThere`: whoever is past a semaphore's
  creation finds it; `DomainsFollowBudget`: no domain has one before the budget.
  Then what is free and what is held make the capacity, whatever the order, and a
  semaphore that refuses has everything out with others (`RefusalsAreUnderLoad`);
  `HoldersCount` is the arithmetic of one access that changes its stage.
- *Browser captures* (`LifeIInv`, `CountIInv`). `StartupOrder`: one capture loads
  the engine, and only while it says so. `LaunchOrder`: one launches, of a
  generation that nobody closed. `ResetOrder`: whoever resets a generation took it
  out of the state alone. `DetectorCounts`: the detector counts what captures hold.
  `CutShortIsOver` makes the exception stable: an interrupted startup stays
  visible in the capture that it cut short, so the theorems hold until then.
- *HTTP* (`HttpInvariant`). Requests are numbered as they are opened and each is
  open at most once, so an open one of an earlier attempt would be one that its
  attempt left without closing or giving up.
- *Provider captures* (`CaptureIInv`). `PartsFollowStage` says which parts of the
  last navigation were read at each stage, and that the content is no older; it
  stands however far the page moves by itself. `Sound` says what an answer that is
  already given, perhaps by the hard timer, was made of.
- *Selection* (`SelectionIInv`). The comparators are not transitive, so that a
  choice may be whatever a chain of comparisons leads to. What carries the proof is
  that one profile out of quarantine beats every one in it directly: a chain never
  leads back. That an offered provider exists to be first is the least rank of a
  non-empty set (`SomeProviderIsFirst`). `PathsInOrder` says what a fallback may
  rely on because the path before it was resolved.
- *Crawl planning* (`PlanningIInv`). `PermitsFit`: a permit is of the pool and the
  domain registered for its plan, whichever compilation it came with; then
  `PoolsHaveRoom` counts the captures that hold one, and only a capture that found
  room joins them.
- *Packs.* `CatalogIsValid` is inductive with its types; `HistoryIsKept` and
  `OnlyLiveVersionsActivated` are about one step, the latter by `DecisionsStayLive`.
- *Sidecar* (`SidecarIInv`). The pieces in the file are in the order of their
  records, at most two of each (`PiecesInOrder`), because of a record that is not
  settled there is at most what its first append left, at the end (`NothingAhead`).
  As long as nothing was told as lost, every settled record has a line, and a piece
  without a newline is followed by its own record's line or waits for it
  (`NothingMissing`).
- *Sweeps* (`SuiteIInv`). `WorkFits`: each page that was taken is at one worker or
  has its outcome, so the outcomes are of all pages when the workers are idle.
  `AttemptsFit` and `ArtifactsFit` follow the records into the artifacts. Underneath
  are facts about the operators: a listing by rank has each page once
  (`ListingByRank`), taking turns is a strict total order (`TurnsOrder`), so a sample
  has its size and no page twice (`SampleFits`), and each place of the sample is in
  one shard (`EachPlaceHasItsShard`). A caller's list of concurrency levels may
  repeat one; `SuiteAssumption` leaves that out, and no preset does.

- *Gates* (`GateIInv`). Every artifact is still the one that its script derives from
  those it read: corpus runs are made once, and a comparison, an analysis, a verdict
  or metrics that exist are those of the runs that are there. A promoting verdict
  then means that no finding of a pack, and so of a case, has a severity
  (`PackIsTheWorst`, `NoCaseHasSeverity`); and a case without severity has no field
  removed, added or changed, and no drop of two points (`NothingFound`). The best
  observation of a field exists because the most certain of its observations, and
  the least value among those, do (`FieldsHaveBest`); observations that agree in
  both are one. Sums are numbers of pairs, which makes them a matter of
  cardinalities instead of induction (`TotalsFit`).
- *Discovery* (`DiscoveryIInv`). `ProbesFit`: an answer is at the place of the URL asked and
  the batch that is probed is what is left of the plan (`Thinned`); whatever filters
  and slices take away leaves the order as it is (`EntriesAtThins`, `FirstThins`,
  `ThinnedTwice`). The plan has no URL twice, because a URL has one type and the
  buckets are of different types (`FetchPlanFits`), so that a place in it means
  something; `PagesFit` carries the order from the probes over to the fallback, which
  asks for none of the URLs that a probe served. Where the browser ended up does not
  enter the order, and a page that ends up at a URL that is there is dropped.

- *Snapshots* (`ExtractionIInv`). A snapshot is the assembly of the observations
  there are, and what matters is the assembly. `Represents` says that a map stands
  for a set of observations; one more observation keeps it so, merged or added
  (`AddRepresents`), and therefore the map after all of them stands for all
  (`MapRepresents`). That last step is an induction over the number of
  observations, done by a least counterexample (`LeastIsThere`), and so is the
  existence of the maps (`StepsExist`). What stands for a set is determined by it
  (`TogetherIsThere`), and sorting by rank keeps it and puts it in order (`SortFits`).

- *Attempts and their report* (`AttemptIInv`). `OutcomesFit`: a success of the lane
  with two stages was found in one of them, whichever exit it came through;
  `AttemptFits` is what remains of this in a reported attempt, with one more fact:
  it is a success exactly if nothing blocked or challenged it and it has no failure
  category (`CategoriesFit`: every error is sorted into one). The counts are then
  those of sets of places that are disjoint and make up the whole (`OutcomesSplit`),
  and nothing is added up one by one. For the advice, a top list is made of values
  that it counts, and is empty when there are none, at whatever length it is cut
  (`BreakdownFits`, by the ranks of the sweeps); `SummaryFits` says what each list of
  the summary tells of the failures, `AdviceOnCategories` and `WhatRemains` which
  sentence comes from which list. It is then a matter of cases that a response
  category below the top is named once, on its own or together with the other.

Every invariant and action property that a run checks is the property of a theorem.
Model-checked only are the liveness properties (`RunSettles`, `EveryRequestEnds`,
`CapturesEnd`), which need fairness and `ENABLED` and are out of the prover's
reach, and what the four runs with a counterexample find.

## 7. What is not modelled

Parts: the SDK's surface (`scraper.ts`, `engine.ts`, the CLI) composes the services
and keeps no state of its own; the capture store has no concurrent writers of one
key; prompts and language models are text processing and an external service;
contracts are types, errors and read models; the control plane and the other
benchmarks are drivers and reports over the parts above.

In the modelled parts:

- *Stores*: decoding of damaged rows; `inspect`, `get` and `listByRun`, which only
  read; clocks of several hosts that disagree
  (*core*`/workflow-work-claim-store.ts:274`; all instants come from one clock);
  two concurrent calls on one runner instance, which form the same claim id
  (*core*`/durable-workflow-runtime.ts:576`) and which the claims runbook leaves to
  callers.
- *Leases*: `renew` and release by owner, which the SDK does not call; the id of a
  lease, which has no scope in it (*core*`/egress-lease-runtime.ts:304`) and which
  collides only when a key is used twice.
- *Health*: events and scores; subjects of lease keys, which are used once and kept
  for ever (*core*`/access-health-runtime.ts:268`); that words in a message, which
  contains the URL, decide whether a failure is recorded
  (*sdk*`/access-health-gateway.ts:45`); that a subject may be quarantined after its
  check and before the execution (`:76`).
- *Permits*: snapshots, which read two semaphores one after the other
  (*core*`/access-budget-runtime.ts:147`).
- *Pools*: peaks and the aggregation of snapshots; that a lock may be handed to a
  waiter that is gone (*sdk*`/browser-pool.ts:861`): waiting cannot be interrupted.
  Each leased key makes a pool of its own, so a pool's limits do not limit
  processes.
- *Providers*: what a page shows, wall detection and the URL policy are inputs. A
  confirmation pass does not fail on a bad status, a hard timeout answers before
  the page is closed, and the body of a timed-out response is read on without an
  abort (*core*`/http-access-runtime.ts:234`); the models have all three, and the
  properties except them.
- *Routes*: that a browser route drops the headers of its proxy, and that a direct
  or leased plugin with a proxied kind and no URL goes direct in spite of the
  message at *sdk*`/access-transport-binding.ts:402`. Surfshark's containers are
  external processes; the model has their readiness.
- *Gates and extraction*: the assertion engine judges the first observation of a
  field only, other than `docs/runbooks/e2-assertion-engine.md:5` reads; the
  reflector may give two clusters one id; trust decay, candidate generation, the
  pack registry's lookup and the soak statistics are left out.
- *Benchmarks*: timings and percentiles; that rotation also takes exits that do
  not answer; that the quota of product pages takes every place of a small target;
  that the hybrid lane forgets the plan's warnings when its preview fails.

The instance of `AccessExecution` has no access without a fallback; after a wall
such an access goes the way that a success goes. Hazards that no property covers
are those named here with a line, and three of `PROJECT.json` that the code is
exposed to: a request that queues behind the last release, which the properties of
`pool_live` exclude by its scheduling; a step that always outlives its lease, which
`RunSettles` excludes; and a refusal because of a global permit that another access
is about to give back, which no document excludes and which `RefusalsAreUnderLoad`
admits.

## 8. The plan

What is left, in this order:

1. `AccessExecution` composed with `BrowserPool`: hard timeouts return the leases
   while the browser's fiber is still on its page.
2. The lease managers with `renew`, release by owner and ids of repeated keys,
   against an abstract capacity.
3. The capture store with its several writes, and selector trust decay, candidate
   generation and the registry as functions against reference definitions.
