------------------------------ MODULE EgressRoute ------------------------------
(***************************************************************************)
(* What the SDK makes of an egress profile: the modules that register      *)
(* profiles and plugins, the configuration a caller gives with a profile,  *)
(* the plugin that turns a profile into a session, and the proxy the       *)
(* session's traffic then takes.  The functions here keep no state.        *)
(*                                                                         *)
(* A plugin configuration is a function of the keys given, "blank" for a   *)
(* value of the wrong type or an empty one; one that is no object is an    *)
(* unexpected key.  A proxy is a URL that parses, or "broken".  The exit   *)
(* node of a WireGuard route stands for its endpoint and interface too;    *)
(* headers and bypass lists accompany the proxy and are left out.          *)
(***************************************************************************)
EXTENDS Naturals, Sequences, FiniteSets

CONSTANTS Proxies,  \* the proxy URLs that parse
          NoValue   \* an option that was not given

ASSUME RouteAssumption ==
  /\ Proxies \cap {NoValue, "blank", "broken"} = {}
  /\ NoValue # "blank"

Field(f, key) == IF f # NoValue /\ key \in DOMAIN f THEN f[key] ELSE NoValue
NonEmpty(v) == IF v = "blank" THEN NoValue ELSE v
FirstGiven(v, w) == IF v # NoValue THEN v ELSE w

-----------------------------------------------------------------------------
\* Runtime modules: each contributes plugins, kind by id, and profiles by id.

ProxyKinds == {"http-connect", "socks5", "pool-server", "tor"}

\* A profile of a route that needs a proxy to be configured before it may be used.
ProxyProfile(kind) ==
  [id |-> kind, plugin |-> kind, mode |-> "static", routeKind |-> kind, routeKey |-> kind,
   route |-> [kind |-> kind, proxy |-> NoValue, node |-> NoValue],
   constrained |-> TRUE, config |-> NoValue]

DirectProfile(id, plugin, mode) ==
  [id |-> id, plugin |-> plugin, mode |-> mode, routeKind |-> "direct", routeKey |-> id,
   route |-> [kind |-> "direct", proxy |-> NoValue, node |-> NoValue],
   constrained |-> FALSE, config |-> NoValue]

BuiltinEgressProfiles ==
  [p \in {"direct", "leased-direct", "wireguard"} \cup ProxyKinds |->
     CASE p = "direct" -> DirectProfile(p, "direct", "static")
       [] p = "leased-direct" -> DirectProfile(p, "leased", "leased")
       [] OTHER -> ProxyProfile(p)]

CoreModule ==
  [id |-> "core",
   plugins |-> [p \in {"direct", "leased"} |-> [id |-> p, kind |-> p]],
   profiles |-> [p \in {"direct", "leased-direct"} |-> BuiltinEgressProfiles[p]]]

ProxyModule(kind) ==
  [id |-> kind, plugins |-> [p \in {kind} |-> [id |-> p, kind |-> p]],
   profiles |-> [p \in {kind} |-> ProxyProfile(p)]]

BuiltinModules ==
  <<CoreModule, ProxyModule("http-connect"), ProxyModule("socks5"),
    ProxyModule("pool-server"), ProxyModule("wireguard"), ProxyModule("tor")>>

\* Identity profiles: the browser they run in, and whether they are leased.
IdentityProfiles ==
  [i \in {"default", "leased-default", "stealth-default", "leased-stealth-default"} |->
     [runtime |-> IF i \in {"default", "leased-default"}
                  THEN "patchright-default" ELSE "patchright-stealth",
      mode |-> IF i \in {"default", "stealth-default"} THEN "static" ELSE "leased"]]

\* The contributions of one kind, a function per module, as one record.
Contributed(parts) ==
  [key \in UNION {DOMAIN parts[n] : n \in DOMAIN parts} |->
     LET n == CHOOSE m \in DOMAIN parts : key \in DOMAIN parts[m] IN parts[n][key]]

\* A key that is not the id of what it holds, or that two modules contribute.
BadlyContributed(parts) ==
  \/ \E n \in DOMAIN parts : \E key \in DOMAIN parts[n] : parts[n][key].id # key
  \/ \E n, m \in DOMAIN parts : n # m /\ DOMAIN parts[n] \cap DOMAIN parts[m] # {}

Plugins(modules) == [n \in DOMAIN modules |-> modules[n].plugins]
Profiles(modules) == [n \in DOMAIN modules |-> modules[n].profiles]

Composition(modules) ==
  [plugins |-> Contributed(Plugins(modules)), profiles |-> Contributed(Profiles(modules))]

CompositionRefused(modules) ==
  \/ \E n \in DOMAIN modules : modules[n].id = "blank"
  \/ BadlyContributed(Plugins(modules)) \/ BadlyContributed(Profiles(modules))
  \/ LET c == Composition(modules)
     IN  \E p \in DOMAIN c.profiles : c.profiles[p].plugin \notin DOMAIN c.plugins

-----------------------------------------------------------------------------
\* Resolution of a profile that was asked for, with the caller's configuration in place
\* of the profile's.

Configured(profile, config) == [profile EXCEPT !.config = FirstGiven(config, @)]

ProxyForEligibility(profile) ==
  FirstGiven(NonEmpty(profile.route.proxy), NonEmpty(Field(profile.config, "proxyUrl")))

Usable(profile) == profile.constrained => ProxyForEligibility(profile) \in Proxies

-----------------------------------------------------------------------------
\* Allocation: what each plugin accepts and makes of a profile.

LeasedKeys == {"ownerId", "ttlMs", "maxPoolLeases", "maxRouteLeases"}

AllowedKeys(kind) ==
  CASE kind = "direct" -> {}
    [] kind = "leased" -> LeasedKeys
    [] kind = "wireguard" -> {"proxyUrl", "exitNodeId", "egressKey"}
    [] kind \in ProxyKinds -> {"proxyUrl", "egressKey"}

Decodable(config, keys) ==
  config # NoValue =>
    /\ DOMAIN config \subseteq keys
    /\ \A key \in DOMAIN config : config[key] # "blank"
    /\ Field(config, "proxyUrl") # "broken"

IdentityRefused(identity, config) ==
  ~Decodable(config, IF IdentityProfiles[identity].mode = "leased"
                     THEN {"ownerId", "ttlMs", "maxActiveLeases"} ELSE {})

RequiredMode(kind) == IF kind = "leased" THEN "leased" ELSE "static"

ResolvedProxy(profile) ==
  FirstGiven(Field(profile.config, "proxyUrl"), NonEmpty(profile.route.proxy))

AllocationRefused(kind, profile) ==
  \/ ~Decodable(profile.config, AllowedKeys(kind))
  \/ profile.mode # RequiredMode(kind)
  \/ kind \in ProxyKinds \cup {"wireguard"} /\ ResolvedProxy(profile) \notin Proxies

\* How traffic of a route leaves: directly, through a proxy, tor or wireguard.
DeriveTransport(routeKind, route) ==
  LET proxy == NonEmpty(route.proxy)
      kinds == {routeKind, route.kind}
  IN  [kind |-> CASE "wireguard" \in kinds -> "wireguard"
                  [] "wireguard" \notin kinds /\ "tor" \in kinds -> "tor"
                  [] OTHER -> IF proxy # NoValue THEN "proxy" ELSE "direct",
       proxy |-> proxy]

DirectSession(profile, sequence) ==
  [key |-> <<profile.routeKey, sequence>>, routeKind |-> profile.routeKind,
   route |-> profile.route,
   transport |-> DeriveTransport(profile.routeKind, profile.route)]

\* The route keeps the proxy it had: only the transport knows the one resolved.
WireGuardSession(profile) ==
  LET proxy == ResolvedProxy(profile)
      node == FirstGiven(Field(profile.config, "exitNodeId"), NonEmpty(profile.route.node))
  IN  [key |-> <<FirstGiven(Field(profile.config, "egressKey"), FirstGiven(node, proxy)), 0>>,
       routeKind |-> profile.routeKind,
       route |-> [profile.route EXCEPT !.kind = "wireguard", !.node = node],
       transport |-> [kind |-> "wireguard", proxy |-> proxy]]

ProxySession(kind, profile) ==
  LET proxy == ResolvedProxy(profile)
  IN  [key |-> <<FirstGiven(Field(profile.config, "egressKey"), proxy), 0>>,
       routeKind |-> profile.routeKind,
       route |-> [profile.route EXCEPT !.kind = kind, !.proxy = proxy],
       transport |-> [kind |-> IF kind = "tor" THEN "tor" ELSE "proxy", proxy |-> proxy]]

\* Leased keys carry the number of the allocation, static ones 0.
Session(kind, profile, sequence) ==
  CASE kind = "direct" -> DirectSession(profile, 0)
    [] kind = "leased" -> DirectSession(profile, sequence)
    [] kind = "wireguard" -> WireGuardSession(profile)
    [] kind \in ProxyKinds -> ProxySession(kind, profile)

IdentityKey(identity, sequence) ==
  <<identity, IF IdentityProfiles[identity].mode = "leased" THEN sequence ELSE 0>>

-----------------------------------------------------------------------------
\* Execution: the transport of a session, merged with the one its route implies, once for
\* the execution's context and once by the provider.

MergeTransport(transport, routeKind, route) ==
  LET derived == DeriveTransport(routeKind, route)
  IN  IF transport.kind = derived.kind /\ transport.kind # "direct"
      THEN [derived EXCEPT !.proxy = FirstGiven(transport.proxy, @)]
      ELSE transport

RealizedTransport(session) ==
  LET once == MergeTransport(session.transport, session.routeKind, session.route)
  IN  MergeTransport(once, session.routeKind, session.route)

\* No provider sends traffic directly when the transport is not: without a proxy it refuses.
Unsupported(transport) == transport.kind # "direct" /\ NonEmpty(transport.proxy) = NoValue

ProxyOf(transport) == IF transport.kind = "direct" THEN NoValue ELSE NonEmpty(transport.proxy)
=============================================================================
