----------------------------- MODULE CrawlPlanning -----------------------------
(***************************************************************************)
(* From crawl targets to permits: a batch of entries is compiled into run  *)
(* plans, all of them or none, a budget scheduler is made of the compiled  *)
(* plans, and captures of plans, of this compilation or of a later one,    *)
(* then ask it for a permit.                                               *)
(*                                                                         *)
(* An id is a sequence of the words its hyphens separate, a URL is its     *)
(* host.  Namespaces, the rationale and the failure context, which only    *)
(* canaries and chaos suites give, are left out.  The permits of a budget  *)
(* are taken in one step: the steps of its manager are AccessBudget's.     *)
(***************************************************************************)
EXTENDS Naturals, FiniteSets, Sequences, Functions, TLC

CONSTANTS Below,        \* domain -> the hosts it holds, itself among them
          Batches,      \* the sequences of entries that may be compiled
          Captures,     \* what asks for permits
          MaxCompiled   \* how often a batch is compiled

ASSUME PlanningAssumption ==
  /\ \A domain \in DOMAIN Below : domain \in Below[domain]
  /\ IsFiniteSet(Captures)
  /\ MaxCompiled \in Nat

VARIABLES known,      \* the compilations so far, each a sequence of compiled plans
          refusals,   \* batches that were refused
          scheduler,  \* budget id -> registration, or <<>> before the scheduler is made
          permits     \* capture -> the compiled plan, pool and domain of its permit, or <<>>
planningVars == <<known, refusals, scheduler, permits>>

-----------------------------------------------------------------------------
\* Entries: a target, a pack, an access policy, and what the run and the batch override.

\* A wildcard holds the domain after its asterisk too.
MatchesPattern(pattern, host) ==
  host \in (IF pattern.wild THEN Below[pattern.host] ELSE {pattern.host})

ValidPolicy(policy) ==
  /\ policy.global >= policy.perDomain
  /\ policy.render = "never" <=> policy.mode = "http"

\* Higher priority first; the order of domains, keys and ids is the target's rank.
Precedes(left, right) ==
  \/ left.target.priority > right.target.priority
  \/ left.target.priority = right.target.priority /\ left.target.rank < right.target.rank

\* The entries sorted: a rearrangement in which none comes after one it precedes.
InOrder(entries) ==
  {[i \in DOMAIN entries |-> entries[order[i]]] :
     order \in {o \in Bijection(DOMAIN entries, DOMAIN entries) :
                  \A i, j \in DOMAIN entries : i < j => ~Precedes(entries[o[j]], entries[o[i]])}}

InputRefused(batch) ==
  \/ batch.entries = <<>>
  \/ \E i, j \in DOMAIN batch.entries :
       i # j /\ batch.entries[i].target.id = batch.entries[j].target.id
  \/ \E i \in DOMAIN batch.entries : ~ValidPolicy(batch.entries[i].policy)

RunExecutionDefaults(entry) ==
  [target |-> entry.target.id, domain |-> entry.target.domain, pack |-> entry.pack.id,
   policy |-> entry.policy.id, host |-> entry.target.host,
   mode |-> entry.policy.mode, render |-> entry.policy.render,
   perDomain |-> entry.policy.perDomain, global |-> entry.policy.global,
   timeout |-> entry.policy.timeout, retries |-> entry.policy.retries, interval |-> 1]

\* The run decides over the batch's defaults, those over the access policy.
ResolvedConfig(defaults, entry) ==
  entry.run @@ (defaults @@ RunExecutionDefaults(entry))

ConfigRefused(config, entry) ==
  \/ config.target # entry.target.id
  \/ config.domain # entry.target.domain
  \/ config.pack # entry.pack.id
  \/ config.policy # entry.policy.id
  \/ config.host \notin Below[entry.target.domain]
  \/ ~MatchesPattern(entry.pack.pattern, config.host)
  \/ ~ValidPolicy(config)

\* The planner looks at the target's own first URL, whatever the run overrides.
PlanRefused(entry) ==
  \/ entry.target.pack # entry.pack.id
  \/ entry.target.policy # entry.policy.id
  \/ entry.pack.policy # entry.policy.id
  \/ ~MatchesPattern(entry.pack.pattern, entry.target.domain)
  \/ entry.target.host \notin Below[entry.target.domain]
  \/ ~MatchesPattern(entry.pack.pattern, entry.target.host)

HighFriction == {"productListing", "searchResult", "socialPost"}

RequiresBrowser(config, kind) ==
  CASE config.mode = "http" -> FALSE
    [] config.mode \in {"browser", "managed"} -> TRUE
    [] config.mode = "hybrid" -> config.render = "always" \/ kind \in HighFriction

Stages == <<"capture", "extract", "snapshot", "diff", "quality", "reflect">>

\* Ids join the words of target and pack: two pairs may have one plan id.
PlanId(target, pack) == target \o pack

ConcurrencyBudget(entry, config) ==
  [id |-> entry.target.id, global |-> config.global, perDomain |-> config.perDomain]

RunPlan(entry, config) ==
  [id |-> PlanId(entry.target.id, entry.pack.id), target |-> entry.target.id,
   pack |-> entry.pack.id, policy |-> entry.policy.id,
   budget |-> ConcurrencyBudget(entry, config).id, host |-> config.host,
   attempts |-> config.retries + 1, timeout |-> config.timeout,
   interval |-> config.interval, stages |-> Stages,
   browser |-> RequiresBrowser(config, entry.target.kind)]

InitialCheckpoint(plan) ==
  [run |-> plan.id, sequence |-> 1, next |-> Head(plan.stages), completed |-> <<>>,
   pending |-> plan.stages, outcome |-> "running"]

CompiledEntry(defaults, entry) ==
  LET config == ResolvedConfig(defaults, entry)
      plan == RunPlan(entry, config)
  IN  [config |-> config, budget |-> ConcurrencyBudget(entry, config), plan |-> plan,
       checkpoint |-> InitialCheckpoint(plan)]

\* The limits of a run are numbers, whoever decides them.
ASSUME LimitsAssumption ==
  \A batch \in Batches : \A i \in DOMAIN batch.entries :
    /\ ResolvedConfig(batch.defaults, batch.entries[i]).global \in Nat
    /\ ResolvedConfig(batch.defaults, batch.entries[i]).perDomain \in Nat

-----------------------------------------------------------------------------
PlanningInit ==
  /\ known = <<>>
  /\ refusals = 0
  /\ scheduler = <<>>
  /\ permits = [c \in Captures |-> <<>>]

\* One refused entry refuses the batch.
CompileCrawlPlans(batch) ==
  /\ Len(known) + refusals < MaxCompiled
  /\ \E sorted \in InOrder(batch.entries) :
       IF \/ InputRefused(batch)
          \/ \E i \in DOMAIN sorted :
               \/ ConfigRefused(ResolvedConfig(batch.defaults, sorted[i]), sorted[i])
               \/ PlanRefused(sorted[i])
       THEN refusals' = refusals + 1 /\ UNCHANGED known
       ELSE /\ known' = Append(known, [i \in DOMAIN sorted |->
                          CompiledEntry(batch.defaults, sorted[i])])
            /\ UNCHANGED refusals
  /\ UNCHANGED <<scheduler, permits>>

WorkflowBudgetRegistrations(compiled) ==
  [id \in {compiled[i].plan.budget : i \in DOMAIN compiled} |->
     LET i == CHOOSE j \in DOMAIN compiled : compiled[j].plan.budget = id
     IN  [policy |-> compiled[i].plan.policy, domain |-> compiled[i].config.domain,
          budget |-> compiled[i].budget]]

MakeScheduler(n) ==
  /\ scheduler = <<>>
  /\ scheduler' = WorkflowBudgetRegistrations(known[n])
  /\ UNCHANGED <<known, refusals, permits>>

\* A bug for the checks to find: every target has a pool of its own.
OwnWorkflowBudget(plan, budget) ==
  [id |-> <<plan.budget, budget.global, budget.perDomain>>,
   global |-> budget.global, perDomain |-> budget.perDomain]

\* Targets of one access policy and equal limits share a pool.
SharedWorkflowBudget(plan, budget) ==
  [id |-> <<plan.policy, budget.global, budget.perDomain>>,
   global |-> budget.global, perDomain |-> budget.perDomain]

Holding == {c \in Captures : permits[c] # <<>>}

\* The limits and the domain are those of the registration, also when the plan is of a
\* later compilation; only another access policy is refused.
WithPermit(c, compiled) ==
  /\ scheduler # <<>>
  /\ permits[c] = <<>>
  /\ compiled.plan.budget \in DOMAIN scheduler
  /\ LET registration == scheduler[compiled.plan.budget]
         shared == SharedWorkflowBudget(compiled.plan, registration.budget)
         inPool == {d \in Holding : permits[d].pool = shared.id}
     IN  /\ registration.policy = compiled.plan.policy
         /\ Cardinality(inPool) < shared.global
         /\ Cardinality({d \in inPool : permits[d].domain = registration.domain})
              < shared.perDomain
         /\ permits' = [permits EXCEPT ![c] =
              [compiled |-> compiled, pool |-> shared.id, domain |-> registration.domain]]
  /\ UNCHANGED <<known, refusals, scheduler>>

ReleasePermit(c) ==
  /\ permits[c] # <<>>
  /\ permits' = [permits EXCEPT ![c] = <<>>]
  /\ UNCHANGED <<known, refusals, scheduler>>

PlanningNext ==
  \/ \E batch \in Batches : CompileCrawlPlans(batch)
  \/ \E n \in DOMAIN known : MakeScheduler(n)
  \/ \E c \in Captures :
       \/ \E n \in DOMAIN known : \E i \in DOMAIN known[n] : WithPermit(c, known[n][i])
       \/ ReleasePermit(c)

PlanningSpec == PlanningInit /\ [][PlanningNext]_planningVars

-----------------------------------------------------------------------------
\* The limits a capture runs under: those registered for its target, which a run or its
\* batch may have overridden.
LimitsOf(c) == scheduler[permits[c].compiled.plan.budget].budget
PolicyOf(c) == permits[c].compiled.plan.policy

\* Captures of one access policy whose targets are registered with equal limits keep them
\* together, all of them and in each domain, although every target has a budget of its own
\* and also when their plans come of later compilations, with other limits.  Targets that
\* are registered with different limits are not kept together, whatever the access policy
\* says.  A permit is for a host in the domain of its target, and for no browser where the
\* mode, as overridden, is plain http.
RegisteredLimitsAreShared ==
  \A c \in Holding :
    LET alike == {d \in Holding :
                    /\ PolicyOf(d) = PolicyOf(c)
                    /\ LimitsOf(d).global = LimitsOf(c).global
                    /\ LimitsOf(d).perDomain = LimitsOf(c).perDomain}
        compiled == permits[c].compiled
    IN  /\ Cardinality(alike) <= LimitsOf(c).global
        /\ Cardinality({d \in alike : permits[d].domain = permits[c].domain})
             <= LimitsOf(c).perDomain
        /\ compiled.plan.host \in Below[compiled.config.domain]
        /\ compiled.config.mode = "http" => ~compiled.plan.browser
=============================================================================
