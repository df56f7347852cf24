---------------------------- MODULE BrowserRuntimes ----------------------------
(***************************************************************************)
(* Accesses from the profile they ask for to the proxy their traffic takes, *)
(* and the browser pools they share on the way: one pool for each pool key *)
(* and proxy, made when it is first asked for and kept until the runtime   *)
(* is closed.  Closing stops the pools one after the other while accesses  *)
(* go on, and may make new ones.                                           *)
(*                                                                         *)
(* A pool is seen here as its slots, its queue, the turns its accesses     *)
(* take to allocate a page, and the browser it shares, if any; BrowserPool *)
(* has its counters, interruptions and retired browsers.  The leases of a  *)
(* session are AccessExecution's.                                          *)
(***************************************************************************)
EXTENDS EgressRoute, SequencesExt

CONSTANTS Callers,        \* the accesses
          ModuleSets,     \* the sequences of modules a runtime may be composed of
          RouteRequests,  \* access -> what it may ask for
          MaxPages,       \* slots of a pool
          MaxWaiting      \* places in the queue of a pool

\* Plugins are of the kinds that a session can be made of; profiles and routes are records.
ASSUME RuntimesAssumption ==
  /\ MaxPages \in Nat \ {0} /\ MaxWaiting \in Nat
  /\ \A modules \in ModuleSets : \A n \in DOMAIN modules :
       /\ \A p \in DOMAIN modules[n].plugins :
            modules[n].plugins[p].kind \in {"direct", "leased", "wireguard"} \cup ProxyKinds
       /\ \A p \in DOMAIN modules[n].profiles :
            /\ {"config", "route"} \subseteq DOMAIN modules[n].profiles[p]
            /\ {"kind", "proxy", "node"} \subseteq DOMAIN modules[n].profiles[p].route

VARIABLES registry,   \* plugins and profiles, or NoValue before the runtime is composed
          at,         \* where each access is
          request,    \* what it asks for
          session,    \* the transport and keys allocated for it
          via,        \* the pool it runs in, a number of pools
          on,         \* the launch options of the browser that its page is on, or NoValue
          pools,      \* every pool made so far
          live,       \* the pools of the map, in insertion order
          allocated,  \* the numbers given to leased egresses and identities
          stopping    \* the entries of the map that a close has stopped, or -1
runtimeVars == <<registry, at, request, session, via, on, pools, live, allocated, stopping>>

RuntimesInit ==
  /\ registry = NoValue
  /\ at = [c \in Callers |-> "idle"]
  /\ request = [c \in Callers |-> NoValue]
  /\ session = [c \in Callers |-> NoValue]
  /\ via = [c \in Callers |-> 0]
  /\ on = [c \in Callers |-> NoValue]
  /\ pools = <<>>
  /\ live = <<>>
  /\ allocated = [egress |-> 0, identity |-> 0]
  /\ stopping = -1

Move(c, place) == at' = [at EXCEPT ![c] = place]

Compose ==
  /\ registry = NoValue
  /\ \E modules \in ModuleSets :
       ~CompositionRefused(modules) /\ registry' = Composition(modules)
  /\ UNCHANGED <<at, request, session, via, on, pools, live, allocated, stopping>>

\* The profiles of a request, with its configuration; refused when one is unknown or
\* needs a proxy that is not configured.
ProfileOf(r) == Configured(registry.profiles[r.egress], r.config)

ResolveProfiles(c) ==
  /\ registry # NoValue
  /\ at[c] = "idle"
  /\ \E r \in RouteRequests[c] :
       /\ request' = [request EXCEPT ![c] = r]
       /\ IF /\ r.egress \in DOMAIN registry.profiles
             /\ r.identity \in DOMAIN IdentityProfiles
             /\ Usable(ProfileOf(r))
          THEN Move(c, "planned")
          ELSE Move(c, "failed")
  /\ UNCHANGED <<registry, session, via, on, pools, live, allocated, stopping>>

\* The egress session first, then the identity's.
AcquireSessions(c) ==
  /\ at[c] = "planned"
  /\ LET r == request[c]
         profile == ProfileOf(r)
         kind == registry.plugins[profile.plugin].kind
         leased == IdentityProfiles[r.identity].mode = "leased"
         egress == allocated.egress + (IF kind = "leased" THEN 1 ELSE 0)
         identity == allocated.identity + (IF leased THEN 1 ELSE 0)
     IN  IF AllocationRefused(kind, profile)
         THEN Move(c, "failed") /\ UNCHANGED <<session, allocated>>
         ELSE IF IdentityRefused(r.identity, r.identityConfig)
         THEN /\ Move(c, "failed")
              /\ allocated' = [allocated EXCEPT !.egress = egress]
              /\ UNCHANGED session
         ELSE /\ Move(c, "allocated")
              /\ session' = [session EXCEPT ![c] =
                   [egress |-> Session(kind, profile, egress),
                    identity |-> IdentityKey(r.identity, identity)]]
              /\ allocated' = [egress |-> egress, identity |-> identity]
  /\ UNCHANGED <<registry, request, via, on, pools, live, stopping>>

Transport(c) == RealizedTransport(session[c].egress)

Fetch(c) ==
  /\ at[c] = "allocated"
  /\ request[c].mode = "http"
  /\ Move(c, IF Unsupported(Transport(c)) THEN "failed" ELSE "fetching")
  /\ UNCHANGED <<registry, request, session, via, on, pools, live, allocated, stopping>>

Fetched(c) ==
  /\ at[c] = "fetching"
  /\ Move(c, "done")
  /\ UNCHANGED <<registry, request, session, via, on, pools, live, allocated, stopping>>

-----------------------------------------------------------------------------
\* The pools.

\* A bug for the checks to find: accesses with the same keys share a pool whatever their proxy.
PoolKeyOfSession(c) ==
  [runtime |-> IdentityProfiles[request[c].identity].runtime,
   egress |-> session[c].egress.key, identity |-> session[c].identity, proxy |-> NoValue]

\* The pool key of the execution's context and the proxy.
CacheKey(c) ==
  [runtime |-> IdentityProfiles[request[c].identity].runtime,
   egress |-> session[c].egress.key, identity |-> session[c].identity,
   proxy |-> ProxyOf(Transport(c))]

NewPool(c) ==
  [key |-> CacheKey(c), runtime |-> IdentityProfiles[request[c].identity].runtime,
   proxy |-> ProxyOf(Transport(c)),
   state |-> "open", active |-> 0, waiting |-> <<>>, browser |-> NoValue, late |-> {}]

\* A browser refuses a proxy that does not parse, which fetch is given as it is.
FindPool(c) ==
  /\ at[c] = "allocated"
  /\ request[c].mode = "browser"
  /\ LET found == {p \in ToSet(live) : pools[p].key = CacheKey(c)}
     IN  IF Unsupported(Transport(c)) \/ ProxyOf(Transport(c)) = "broken"
         THEN Move(c, "failed") /\ UNCHANGED <<pools, live, via>>
         ELSE /\ Move(c, "entering")
              /\ IF found # {}
                 THEN /\ via' = [via EXCEPT ![c] = CHOOSE p \in found : TRUE]
                      /\ UNCHANGED <<pools, live>>
                 ELSE /\ pools' = Append(pools, NewPool(c))
                      /\ live' = Append(live, Len(pools'))
                      /\ via' = [via EXCEPT ![c] = Len(pools')]
  /\ UNCHANGED <<registry, request, session, on, allocated, stopping>>

\* Accesses that hold the allocation lock of their pool; each has a second try.
Allocating == {"launching", "creating", "relaunching", "recreating"}
AtWork(p) == {c \in Callers : at[c] \in Allocating /\ via[c] = p}
IsOpen(p) == pools[p].state = "open"

TakeSlot(c) ==
  /\ at[c] = "entering"
  /\ LET p == via[c]
         pool == pools[p]
     IN  CASE ~IsOpen(p) -> Move(c, "failed") /\ UNCHANGED pools
           [] IsOpen(p) /\ pool.waiting = <<>> /\ pool.active < MaxPages ->
                Move(c, "opening") /\ pools' = [pools EXCEPT ![p].active = @ + 1]
           [] OTHER ->
                IF Len(pool.waiting) >= MaxWaiting
                THEN Move(c, "failed") /\ UNCHANGED pools
                ELSE Move(c, "waiting") /\ pools' = [pools EXCEPT ![p].waiting = Append(@, c)]
  /\ UNCHANGED <<registry, request, session, via, on, live, allocated, stopping>>

\* The slot of an access given back: the first of the queue takes it.
GiveBack(c, place) ==
  LET p == via[c]
      next == IF pools[p].waiting = <<>> THEN {} ELSE {Head(pools[p].waiting)}
  IN  /\ pools' = IF next = {} THEN [pools EXCEPT ![p].active = @ - 1]
                               ELSE [pools EXCEPT ![p].waiting = Tail(@)]
      /\ at' = [w \in Callers |-> IF w = c THEN place
                                  ELSE IF w \in next THEN "opening" ELSE at[w]]

LaunchOptions(pool) == [stealth |-> pool.runtime = "patchright-stealth", proxy |-> pool.proxy]

\* The allocation lock of an open pool, which one access holds at a time.  From here on
\* nothing asks again whether the pool is open.
Allocate(c) ==
  /\ at[c] = "opening"
  /\ IF IsOpen(via[c])
     THEN AtWork(via[c]) = {} /\ Move(c, "launching") /\ UNCHANGED pools
     ELSE GiveBack(c, "failed")
  /\ UNCHANGED <<registry, request, session, via, on, live, allocated, stopping>>

\* The browser of the pool, launched when there is none.
Launch(c) ==
  /\ at[c] \in {"launching", "relaunching"}
  /\ LET pool == pools[via[c]]
         browser == IF pool.browser = NoValue THEN LaunchOptions(pool) ELSE pool.browser
     IN  /\ pools' = [pools EXCEPT ![via[c]].browser = browser]
         /\ on' = [on EXCEPT ![c] = browser]
  /\ Move(c, IF at[c] = "launching" THEN "creating" ELSE "recreating")
  /\ UNCHANGED <<registry, request, session, via, live, allocated, stopping>>

\* A context and a page on the browser that was acquired.
OpenPage(c) ==
  /\ at[c] \in {"creating", "recreating"}
  /\ Move(c, "browsing")
  /\ UNCHANGED <<registry, request, session, via, on, pools, live, allocated, stopping>>

\* The launch, the context or the page failed.  A browser that looks dead is taken out of
\* the pool for a second try.
AllocationFails(c) ==
  /\ at[c] \in Allocating
  /\ \/ GiveBack(c, "failed")
     \/ /\ at[c] \in {"launching", "creating"}
        /\ Move(c, "relaunching")
        /\ pools' = [pools EXCEPT ![via[c]].browser = NoValue]
  /\ on' = [on EXCEPT ![c] = NoValue]
  /\ UNCHANGED <<registry, request, session, via, live, allocated, stopping>>

\* The use of the page ended, well or not; the browser of an idle pool stays.
ClosePage(c) ==
  /\ at[c] = "browsing"
  /\ GiveBack(c, "done")
  /\ on' = [on EXCEPT ![c] = NoValue]
  /\ UNCHANGED <<registry, request, session, via, live, allocated, stopping>>

-----------------------------------------------------------------------------
\* Closing the runtime, which may be used again afterwards.

\* With no pool in the map it ends at once.
Close ==
  /\ live # <<>>
  /\ stopping = -1
  /\ stopping' = 0
  /\ UNCHANGED <<registry, at, request, session, via, on, pools, live, allocated>>

\* The iteration of the map sees the pools inserted meanwhile.  The waiters of a pool that
\* is stopped find it closed; who allocates there already goes on.
StopPool ==
  /\ stopping \in 0..(Len(live) - 1)
  /\ LET p == live[stopping + 1]
     IN  /\ IsOpen(p)
         /\ pools' = [pools EXCEPT ![p].state = "stopping", ![p].waiting = <<>>]
         /\ at' = [c \in Callers |->
                     IF at[c] = "waiting" /\ via[c] = p THEN "failed" ELSE at[c]]
  /\ UNCHANGED <<registry, request, session, via, on, live, allocated, stopping>>

\* The browser of the pool is closed behind a launch under way: "late" notes who was
\* allocating then.
StopBrowser ==
  /\ stopping \in 0..(Len(live) - 1)
  /\ LET p == live[stopping + 1]
     IN  /\ pools[p].state = "stopping"
         /\ pools' = [pools EXCEPT ![p].state = "stopped", ![p].browser = NoValue,
                                   ![p].late = AtWork(p)]
  /\ stopping' = stopping + 1
  /\ UNCHANGED <<registry, at, request, session, via, on, live, allocated>>

\* A bug for the checks to find: the pools inserted since the close began are not looked for.
ClearWhatWasStopped ==
  /\ stopping > 0
  /\ live' = <<>>
  /\ stopping' = -1
  /\ UNCHANGED <<registry, at, request, session, via, on, pools, allocated>>

ClearMap ==
  /\ stopping = Len(live)
  /\ live' = <<>>
  /\ stopping' = -1
  /\ UNCHANGED <<registry, at, request, session, via, on, pools, allocated>>

RuntimesNext ==
  \/ Compose \/ Close \/ StopPool \/ StopBrowser \/ ClearMap
  \/ \E c \in Callers :
       \/ ResolveProfiles(c) \/ AcquireSessions(c) \/ Fetch(c) \/ Fetched(c)
       \/ FindPool(c) \/ TakeSlot(c) \/ Allocate(c) \/ Launch(c) \/ OpenPage(c)
       \/ AllocationFails(c) \/ ClosePage(c)

RuntimesSpec == RuntimesInit /\ [][RuntimesNext]_runtimeVars

-----------------------------------------------------------------------------
\* What a caller asked for: the proxy of its configuration, or of the profile's, or of the
\* profile's route.
AskedProxy(r) ==
  LET profile == registry.profiles[r.egress]
      given == Field(FirstGiven(r.config, profile.config), "proxyUrl")
  IN  FirstGiven(given, NonEmpty(profile.route.proxy))

\* The traffic of an access takes the proxy that was asked for, through however many merges
\* of configuration, route and transport, and in whichever shared browser it ends up: never
\* directly, never through the proxy of another access.
RoutesAreKept ==
  \A c \in Callers :
    /\ at[c] = "fetching" => ProxyOf(Transport(c)) = AskedProxy(request[c])
    /\ at[c] = "browsing" =>
         on[c] = [stealth |-> IdentityProfiles[request[c].identity].runtime = "patchright-stealth",
                  proxy |-> AskedProxy(request[c])]

\* A close that stops pools one by one, while accesses go on and make new ones, forgets no
\* pool that it has not stopped, leaves nobody waiting in one that it has, and leaves a
\* browser behind in one only where an access was allocating while it was stopped.
NoPoolIsLost ==
  /\ \A p \in DOMAIN pools :
       /\ pools[p].state # "stopped" => p \in ToSet(live)
       /\ pools[p].state = "stopped" /\ pools[p].browser # NoValue => pools[p].late # {}
  /\ \A c \in Callers : at[c] = "waiting" => IsOpen(via[c])
=============================================================================
