---------------------------- MODULE AccessSelection ----------------------------
(***************************************************************************)
(* How the SDK turns a request into an execution program: the linked       *)
(* program (access-program-linker.ts), the provider                        *)
(* (access-policy-runtime.ts), the egress and the identity                 *)
(* (access-profile-policy-runtime.ts), the browser's settings, and then a  *)
(* second resolution of the same request for the browser fallback of an    *)
(* HTTP path (access-runtime.ts).  Each choice is made on health signals   *)
(* inspected a moment before; the signals of a later inspection may say    *)
(* anything else, since other accesses report their outcomes meanwhile.    *)
(*                                                                         *)
(* Profiles are sorted by a comparator with a tolerance, which is not      *)
(* transitive; what Array.prototype.sort then puts first depends on the    *)
(* engine, so a choice may be any profile that beats all others directly   *)
(* or through a chain.  A warning is what it is about and what it says.    *)
(***************************************************************************)
EXTENDS Integers, FiniteSets, TLC

CONSTANTS ModeOf,          \* the registered providers, each with its mode
          ProviderRank,    \* provider -> its place by priority, then by name
          Requests,        \* the requests of the instance
          EgressOrder,     \* egress profile that may be selected implicitly -> its place by name
          Direct,          \* the direct egress profile
          IdentityOrder,   \* provider -> identity profile -> its place in the preference list
          RuntimeOf,       \* provider or identity profile -> its browser runtime, or Unset
          ProviderHealth,  \* the health a provider may be inspected with
          ProfileHealth,   \* the functions profile -> health that may be inspected
          SolverTime,      \* the least timeout of a browser that solves challenges
          Unset            \* an option that was not given

ASSUME SelectionAssumption ==
  /\ Direct \in DOMAIN EgressOrder
  /\ \A e, f \in DOMAIN EgressOrder : EgressOrder[e] = EgressOrder[f] => e = f
  /\ \A p \in DOMAIN ModeOf : \A i, j \in DOMAIN IdentityOrder[p] :
       IdentityOrder[p][i] = IdentityOrder[p][j] => i = j
  /\ \A p, q \in DOMAIN ModeOf : ProviderRank[p] = ProviderRank[q] => p = q
  /\ \A p \in DOMAIN ModeOf : ProviderRank[p] \in Nat
  /\ Unset \notin {"http", "browser", "render"}
  /\ \A r \in Requests :
       /\ {"mode", "http", "provider", "default"} \subseteq DOMAIN r
       /\ r.mode \in {"http", "browser", Unset}
       /\ r.command \in {"access", "render", "extract", Unset}
       /\ r.lenient \in BOOLEAN
  /\ \A h \in ProviderHealth : h.quarantined \in BOOLEAN
  /\ \A h \in ProfileHealth : \A p \in DOMAIN h : h[p].quarantined \in BOOLEAN

VARIABLES asked,       \* the request
          explaining,  \* whether it is to be explained, not run
          resolving,   \* the step: "idle", "provider", "profiles", "egress", "identity", "done", "planned", "refused"
          branch,      \* the path being resolved: "base" or "fallback"
          signals,     \* the health signals of the step
          chosen,      \* the provider, egress and identity chosen so far, and the warnings
          program      \* the paths resolved: branch -> choice
selectionVars == <<asked, explaining, resolving, branch, signals, chosen, program>>

Providers == DOMAIN ModeOf
Serves(p, mode) == p \in Providers /\ ModeOf[p] = mode
Egresses == DOMAIN EgressOrder
Nothing == [provider |-> Unset, egress |-> Unset, identity |-> Unset, warnings |-> {},
            settings |-> Unset]
NoSignals == [p \in {} |-> 0]

-----------------------------------------------------------------------------
\* A bug for the checks to find: the fallback keeps the provider asked for.
BrowserRequestOfSameProvider(r) == [r EXCEPT !.mode = "browser", !.http = Unset]

\* The request as a path sees it: the fallback asks for a browser, without the HTTP
\* options and without a provider that is not a browser.
BrowserRequest(r) ==
  [r EXCEPT !.mode = "browser", !.http = Unset,
            !.provider = IF Serves(@, "browser") THEN @ ELSE Unset]

PathRequest == IF branch = "base" THEN asked ELSE BrowserRequest(asked)

Offered(mode) == {p \in Providers : ModeOf[p] = mode}

DefaultProvider(mode) ==
  IF Offered(mode) = {} THEN Unset
  ELSE CHOOSE p \in Offered(mode) : \A q \in Offered(mode) : ProviderRank[p] <= ProviderRank[q]

\* Every command has its program; rendering has no path to fall back to.
Programs ==
  [command \in {"access", "render", "extract"} |->
     [mode |-> IF command = "render" THEN "browser" ELSE "http",
      fallback |-> command # "render" /\ Offered("browser") # {}]]

InferredCommand(r) ==
  CASE r.command # Unset -> r.command
    [] r.command = Unset /\ (r.mode = "browser" \/ r.browser # Unset) -> "render"
    [] r.command = Unset /\ r.mode # "browser" /\ r.browser = Unset ->
         IF r.mode = "http" \/ r.http # Unset THEN "access"
         ELSE IF r.hint # Unset THEN (IF r.hint = "browser" THEN "render" ELSE "access")
         ELSE IF Offered("browser") # {} /\ Offered("http") = {} THEN "render" ELSE "access"

\* A mode that contradicts the options given with it, or options of both modes.
Contradictory(r) ==
  \/ r.mode = "browser" /\ r.http # Unset
  \/ r.mode = "http" /\ r.browser # Unset
  \/ r.mode = Unset /\ r.http # Unset /\ r.browser # Unset

RequestedMode(r) ==
  CASE r.mode # Unset -> r.mode
    [] r.mode = Unset /\ r.browser # Unset -> "browser"
    [] r.mode = Unset /\ r.browser = Unset /\ r.http # Unset -> "http"
    [] OTHER -> Unset

TargetMode(r) ==
  IF RequestedMode(r) # Unset THEN RequestedMode(r)
  ELSE IF branch = "fallback" THEN "browser" ELSE Programs[InferredCommand(asked)].mode

CandidateProviders(mode, default) == {p \in {default, DefaultProvider(mode)} : Serves(p, mode)}

PreferredProvider(mode, default) ==
  IF default \in CandidateProviders(mode, default) THEN default ELSE DefaultProvider(mode)

ProviderRefused(r) ==
  \/ Contradictory(r)
  \/ r.provider # Unset /\ ~Serves(r.provider, TargetMode(r))
  \/ /\ r.provider = Unset
     /\ \/ r.default \notin Providers /\ ~r.lenient
        \/ PreferredProvider(TargetMode(r), r.default) \notin Providers

-----------------------------------------------------------------------------
\* The comparators: what is put first.  A profile's health is
\* [quarantined, plugin, score]; a provider's is [quarantined, score].
Tolerance == 35

ProviderBeats(h, p, q, preferred) ==
  LET a == h[p]
      b == h[q]
  IN  IF a.quarantined # b.quarantined THEN b.quarantined
      ELSE IF a.score # b.score THEN a.score > b.score ELSE p = preferred

\* A bug for the checks to find: the direct egress is favoured before quarantines count.
DirectBeats(h, p, q) ==
  LET a == h[p]
      b == h[q]
  IN  IF p = Direct THEN b.plugin - a.plugin <= Tolerance /\ b.score - a.score <= Tolerance
      ELSE IF q = Direct THEN a.plugin - b.plugin > Tolerance \/ a.score - b.score > Tolerance
      ELSE a.plugin + a.score > b.plugin + b.score

EgressBeats(h, p, q) ==
  LET a == h[p]
      b == h[q]
      Close(x, y) == y.plugin - x.plugin <= Tolerance /\ y.score - x.score <= Tolerance
  IN  IF a.quarantined # b.quarantined THEN b.quarantined
      ELSE IF p = Direct /\ Close(a, b) THEN TRUE
      ELSE IF q = Direct /\ Close(b, a) THEN FALSE
      ELSE IF a.plugin # b.plugin THEN a.plugin > b.plugin
      ELSE IF a.score # b.score THEN a.score > b.score
      ELSE EgressOrder[p] < EgressOrder[q]

\* p is preferred to q, and q's value is not better by more than the tolerance.
Favoured(order, p, q, value, other) ==
  order[p] < order[q] /\ other - value <= Tolerance

IdentityBeats(h, order, p, q) ==
  LET a == h[p]
      b == h[q]
  IN  IF a.quarantined # b.quarantined THEN b.quarantined
      ELSE IF Favoured(order, p, q, a.plugin, b.plugin) THEN TRUE
      ELSE IF Favoured(order, q, p, b.plugin, a.plugin) THEN FALSE
      ELSE IF a.plugin # b.plugin THEN a.plugin > b.plugin
      ELSE IF Favoured(order, p, q, a.score, b.score) THEN TRUE
      ELSE IF Favoured(order, q, p, b.score, a.score) THEN FALSE
      ELSE a.score > b.score

\* The profiles a sort may put first: those in every group that nobody outside beats.
SortedFirst(S, Beats(_, _)) ==
  {p \in S : \A T \in SUBSET S \ {{}} :
               (\A x \in T, y \in S \ T : ~Beats(y, x)) => p \in T}

-----------------------------------------------------------------------------
\* Warnings: a quarantined choice is told, and a preferred one that was left because its
\* health is worse.

QuarantineWarnings(kind, health) ==
  IF health.quarantined THEN {<<kind, "quarantined">>} ELSE {}

PreferredProviderLessHealthy(h, preferred, selected) ==
  IF h[preferred].quarantined # h[selected].quarantined THEN h[preferred].quarantined
  ELSE h[preferred].score < h[selected].score

ProviderWarnings(h, preferred, selected, domainQuarantined) ==
  QuarantineWarnings("domain", [quarantined |-> domainQuarantined])
    \cup QuarantineWarnings("provider", h[selected])
    \cup (IF selected # preferred /\ ProviderBeats(h, selected, preferred, preferred)
             /\ PreferredProviderLessHealthy(h, preferred, selected)
          THEN {<<"provider", "overridden">>} ELSE {})

\* The scores of profile and plugin are added up here, not compared one by one.
PreferredProfileLessHealthy(h, preferred, selected) ==
  \/ h[preferred].quarantined
  \/ h[selected].plugin + h[selected].score > h[preferred].plugin + h[preferred].score

\* The strategy gives health as its reason when the choice beats the preferred profile.
ProfileWarnings(kind, h, preferred, selected, beaten) ==
  QuarantineWarnings(kind, h[selected])
    \cup (IF selected # preferred /\ beaten
             /\ PreferredProfileLessHealthy(h, preferred, selected)
          THEN {<<kind, "overridden">>} ELSE {})

DuplicateProfileIds(r) == r.registry = "doubled"
NotHttp(r) == r.url # "http"

\* An unknown profile, or nothing to choose from but egresses that need a configuration.
ProfilesRefused(r) ==
  \/ DuplicateProfileIds(r)
  \/ r.egress = "ghost" \/ r.identity = "ghost"
  \/ r.egress = Unset /\ r.registry = "constrained"
  \/ NotHttp(r)

-----------------------------------------------------------------------------
\* The settings of a browser: what the request says, then the identity, then the provider.

Given(options, key) ==
  IF options = Unset \/ key \notin DOMAIN options THEN Unset ELSE options[key]
FirstOf(values) ==
  IF \A i \in DOMAIN values : values[i] = Unset THEN Unset
  ELSE values[CHOOSE i \in DOMAIN values :
                values[i] # Unset /\ \A j \in 1..(i - 1) : values[j] = Unset]

BrowserSettings(r, choice) ==
  LET timeout == FirstOf(<<Given(r.browser, "timeout"), r.timeout>>)
      solving == Given(r.browser, "solving") = TRUE
  IN  [runtime |-> FirstOf(<<Given(r.browser, "runtime"), RuntimeOf[choice.identity],
                           RuntimeOf[choice.provider], "patchright-default">>),
       solving |-> solving,
       timeout |-> IF solving /\ timeout < SolverTime THEN SolverTime ELSE timeout]

\* What is explained has the request's waits; what is run has not.
ExplainedSettings(r, choice) ==
  BrowserSettings(r, choice) @@ [wait |-> Given(r.browser, "wait")]

PathSettings(r, choice) ==
  IF ModeOf[choice.provider] = "http" THEN [timeout |-> r.timeout]
  ELSE IF explaining THEN ExplainedSettings(r, choice) ELSE BrowserSettings(r, choice)

-----------------------------------------------------------------------------
SelectionInit ==
  /\ asked = Unset
  /\ explaining = FALSE
  /\ resolving = "idle"
  /\ branch = "base"
  /\ signals = NoSignals
  /\ chosen = Nothing
  /\ program = [a \in {} |-> Nothing]

Ask ==
  /\ resolving = "idle"
  /\ asked' \in Requests
  /\ explaining' \in (IF asked'.command = Unset THEN {FALSE} ELSE BOOLEAN)
  /\ resolving' = "provider"
  /\ UNCHANGED <<branch, signals, chosen, program>>

RefuseSelection ==
  /\ resolving = "provider"
  /\ ProviderRefused(PathRequest)
  /\ resolving' = "refused"
  /\ signals' = NoSignals
  /\ UNCHANGED <<asked, explaining, branch, chosen, program>>

\* A provider that was asked for by name is taken whatever its health.
ResolveSelection ==
  /\ resolving = "provider"
  /\ ~ProviderRefused(PathRequest)
  /\ LET r == PathRequest
         mode == TargetMode(r)
         candidates == IF r.provider # Unset THEN {r.provider}
                       ELSE CandidateProviders(mode, r.default)
         preferred == PreferredProvider(mode, r.default)
     IN  \E h \in [candidates -> ProviderHealth], p \in candidates, domain \in BOOLEAN :
           /\ \A q \in candidates \ {p} : ProviderBeats(h, p, q, preferred)
           /\ signals' = h
           /\ chosen' = [chosen EXCEPT !.provider = p,
                           !.warnings = ProviderWarnings(h, FirstOf(<<r.provider, preferred>>),
                                                         p, domain)]
  /\ resolving' = "profiles"
  /\ UNCHANGED <<asked, explaining, branch, program>>

RefuseProfiles ==
  /\ resolving = "profiles"
  /\ ProfilesRefused(asked)
  /\ resolving' = "refused"
  /\ signals' = NoSignals
  /\ UNCHANGED <<asked, explaining, branch, chosen, program>>

\* The health of all that may be chosen, or of the one that was asked for.
HealthOf(explicit, profiles) ==
  {g \in ProfileHealth : DOMAIN g = IF explicit = Unset THEN profiles ELSE {explicit}}

SelectEgress ==
  /\ resolving = "profiles"
  /\ ~ProfilesRefused(asked)
  /\ \E h \in HealthOf(asked.egress, Egresses) :
       \E p \in SortedFirst(DOMAIN h, LAMBDA x, y : EgressBeats(h, x, y)) :
         LET preferred == IF asked.egress = Unset THEN Direct ELSE p
         IN  /\ signals' = h
             /\ chosen' = [chosen EXCEPT !.egress = p,
                  !.warnings = @ \cup ProfileWarnings("egress", h, preferred, p,
                                        ~EgressBeats(h, preferred, p))]
  /\ resolving' = "identity"
  /\ UNCHANGED <<asked, explaining, branch, program>>

PreferredIdentity(order) == CHOOSE i \in DOMAIN order : \A j \in DOMAIN order : order[i] <= order[j]

SelectIdentity ==
  /\ resolving = "identity"
  /\ LET order == IdentityOrder[chosen.provider]
     IN  \E h \in HealthOf(asked.identity, DOMAIN order) :
           \E p \in SortedFirst(DOMAIN h, LAMBDA x, y : IdentityBeats(h, order, x, y)) :
             LET preferred == IF asked.identity = Unset THEN PreferredIdentity(order) ELSE p
             IN  /\ signals' = h
                 /\ chosen' = [chosen EXCEPT !.identity = p,
                      !.warnings = @ \cup ProfileWarnings("identity", h, preferred, p,
                                            ~IdentityBeats(h, order, preferred, p))]
  /\ resolving' = "done"
  /\ UNCHANGED <<asked, explaining, branch, program>>

\* A fallback to a browser is part of an HTTP path of the programs that have the edge,
\* when the request says so or leaves mode, provider and HTTP options open.
WantsFallback ==
  /\ branch = "base"
  /\ ModeOf[chosen.provider] = "http"
  /\ Programs[InferredCommand(asked)].fallback
  /\ IF asked.fallback # Unset THEN asked.fallback = "on"
     ELSE asked.mode = Unset /\ asked.provider = Unset /\ asked.http = Unset

FinishPath ==
  /\ resolving = "done"
  /\ LET path == [chosen EXCEPT !.settings = PathSettings(PathRequest, chosen),
                    !.warnings = @ \cup UNION {program[a].warnings : a \in DOMAIN program}]
     IN  program' = [a \in DOMAIN program \cup {branch} |->
                       IF a = branch THEN path ELSE program[a]]
  /\ signals' = NoSignals
  /\ chosen' = Nothing
  /\ IF WantsFallback THEN branch' = "fallback" /\ resolving' = "provider"
                      ELSE resolving' = "planned" /\ UNCHANGED branch
  /\ UNCHANGED <<asked, explaining>>

\* The steps of one path, the same when it is explained as when it is run.
ResolveIntent ==
  \/ RefuseSelection \/ ResolveSelection
  \/ RefuseProfiles \/ SelectEgress \/ SelectIdentity

SelectionNext == Ask \/ ResolveIntent \/ FinishPath

-----------------------------------------------------------------------------
\* What the last step chose, and what it would have preferred.
Choice ==
  CASE resolving = "profiles" ->
         [kind |-> "provider", picked |-> chosen.provider,
          preferred |-> PreferredProvider(TargetMode(PathRequest), asked.default)]
    [] resolving = "identity" ->
         [kind |-> "egress", picked |-> chosen.egress, preferred |-> Direct]
    [] OTHER ->
         [kind |-> "identity", picked |-> chosen.identity,
          preferred |-> PreferredIdentity(IdentityOrder[chosen.provider])]

\* A provider or a profile that nobody asked for by name is in quarantine only when every
\* other that could have been chosen is, whatever preferences and tolerances say; whoever
\* reads the plan is told of a quarantine, and that a preferred one was left for it.
QuarantineIsAvoided ==
  signals # NoSignals =>
    /\ signals[Choice.picked].quarantined =>
         /\ \A p \in DOMAIN signals : signals[p].quarantined
         /\ <<Choice.kind, "quarantined">> \in chosen.warnings
    /\ Choice.preferred \in DOMAIN signals =>
         (signals[Choice.preferred].quarantined /\ ~signals[Choice.picked].quarantined =>
            <<Choice.kind, "overridden">> \in chosen.warnings)

\* An access whose own path was resolved is not refused because of its fallback: the
\* request for the fallback drops what only fits the first path.  One thing it cannot drop is
\* a default provider that is not registered, where the caller insists on it: a path whose
\* provider was asked for by name never looks at it, its fallback does.
FallbackNeverRefuses ==
  resolving = "refused" /\ branch = "fallback" =>
    asked.default \notin Providers /\ ~asked.lenient

SelectionSpec == SelectionInit /\ [][SelectionNext]_selectionVars
=============================================================================
