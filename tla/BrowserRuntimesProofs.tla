------------------------ MODULE BrowserRuntimesProofs ------------------------
(***************************************************************************)
(* Proofs about the browser pools that accesses share, for any modules,    *)
(* profiles and requests, any pool limits, and any order of resolving,     *)
(* browsing and closing: the traffic of an access takes the proxy that was *)
(* asked for, whichever browser it shares, and a close that stops pools    *)
(* one by one forgets none that it has not stopped.                        *)
(***************************************************************************)
EXTENDS BrowserRuntimes, SequenceTheorems, TLAPS

-----------------------------------------------------------------------------
(* Routes: from the profile to the proxy.                                   *)

PluginKinds == {"direct", "leased", "wireguard"} \cup ProxyKinds

\* Profiles as the modules register them: records with a route.
IsProfile(profile) ==
  /\ {"config", "route"} \subseteq DOMAIN profile
  /\ {"kind", "proxy", "node"} \subseteq DOMAIN profile.route

\* The transport of a route: it keeps the route's proxy, and is direct only without one.
LEMMA DerivedTransport ==
  ASSUME NEW routeKind, NEW route
  PROVE  LET derived == DeriveTransport(routeKind, route)
         IN  /\ derived = [kind |-> derived.kind, proxy |-> NonEmpty(route.proxy)]
             /\ derived.proxy = NonEmpty(route.proxy)
             /\ derived.kind = "direct" => NonEmpty(route.proxy) = NoValue
<1> DEFINE proxy == NonEmpty(route.proxy)
           kinds == {routeKind, route.kind}
           kind == CASE "wireguard" \in kinds -> "wireguard"
                     [] "wireguard" \notin kinds /\ "tor" \in kinds -> "tor"
                     [] OTHER -> IF proxy # NoValue THEN "proxy" ELSE "direct"
<1>1. DeriveTransport(routeKind, route) = [kind |-> kind, proxy |-> proxy]
  BY DEF DeriveTransport
<1>2. kind = "direct" => proxy = NoValue
  <2>1. CASE "wireguard" \in kinds
    BY <2>1
  <2>2. CASE "wireguard" \notin kinds /\ "tor" \in kinds
    BY <2>2
  <2>3. CASE "wireguard" \notin kinds /\ "tor" \notin kinds
    BY <2>3
  <2> QED BY <2>1, <2>2, <2>3
<1> QED BY <1>1, <1>2

\* Merging a transport with its route, once and twice, keeps a transport that the route
\* implies itself, and the proxy of any other that is not direct.
LEMMA MergeKeepsTheProxy ==
  ASSUME NEW kind, NEW proxy, NEW routeKind, NEW route, kind # "direct", proxy # NoValue
  PROVE  MergeTransport([kind |-> kind, proxy |-> proxy], routeKind, route)
           = [kind |-> kind, proxy |-> proxy]
<1> DEFINE derived == DeriveTransport(routeKind, route)
           transport == [kind |-> kind, proxy |-> proxy]
<1>1. derived = [kind |-> derived.kind, proxy |-> NonEmpty(route.proxy)]
  BY DerivedTransport
<1>2. MergeTransport(transport, routeKind, route)
        = IF transport.kind = derived.kind /\ transport.kind # "direct"
          THEN [derived EXCEPT !.proxy = FirstGiven(transport.proxy, @)]
          ELSE transport
  BY DEF MergeTransport
<1>3. FirstGiven(transport.proxy, derived.proxy) = proxy
  BY DEF FirstGiven
<1> HIDE DEF derived
<1>4. CASE kind = derived.kind
  <2>1. [derived EXCEPT !.proxy = FirstGiven(transport.proxy, @)]
          = [derived EXCEPT !.proxy = proxy]
    BY <1>3
  <2>2. [derived EXCEPT !.proxy = proxy] = [kind |-> derived.kind, proxy |-> proxy]
    BY <1>1
  <2> QED BY <1>2, <1>4, <2>1, <2>2
<1>5. CASE kind # derived.kind
  BY <1>2, <1>5
<1> QED BY <1>4, <1>5

LEMMA MergeKeepsTheDerived ==
  ASSUME NEW routeKind, NEW route
  PROVE  MergeTransport(DeriveTransport(routeKind, route), routeKind, route)
           = DeriveTransport(routeKind, route)
<1> DEFINE derived == DeriveTransport(routeKind, route)
<1> SUFFICES MergeTransport(derived, routeKind, route) = derived
  OBVIOUS
<1>1. derived = [kind |-> derived.kind, proxy |-> NonEmpty(route.proxy)]
  BY DerivedTransport
<1>2. MergeTransport(derived, routeKind, route)
        = IF derived.kind = derived.kind /\ derived.kind # "direct"
          THEN [derived EXCEPT !.proxy = FirstGiven(derived.proxy, @)]
          ELSE derived
  BY DEF MergeTransport
<1> HIDE DEF derived
<1>3. FirstGiven(derived.proxy, derived.proxy) = derived.proxy
  BY DEF FirstGiven
<1>4. [derived EXCEPT !.proxy = FirstGiven(derived.proxy, @)] = [derived EXCEPT !.proxy = derived.proxy]
  BY <1>3
<1>5. [derived EXCEPT !.proxy = derived.proxy] = derived
  BY <1>1
<1> QED BY <1>2, <1>4, <1>5

\* The proxy of what a plugin makes of a profile is the one it resolved, whatever the kind.
LEMMA RealizedDirect ==
  ASSUME NEW profile, NEW sequence
  PROVE  ProxyOf(RealizedTransport(DirectSession(profile, sequence)))
           = NonEmpty(profile.route.proxy)
<1> DEFINE derived == DeriveTransport(profile.routeKind, profile.route)
<1>1. RealizedTransport(DirectSession(profile, sequence)) = derived
  <2>1. /\ DirectSession(profile, sequence).transport = derived
        /\ DirectSession(profile, sequence).routeKind = profile.routeKind
        /\ DirectSession(profile, sequence).route = profile.route
    BY DEF DirectSession
  <2>2. MergeTransport(derived, profile.routeKind, profile.route) = derived
    BY MergeKeepsTheDerived
  <2>3. RealizedTransport(DirectSession(profile, sequence))
          = MergeTransport(MergeTransport(DirectSession(profile, sequence).transport,
                                          DirectSession(profile, sequence).routeKind,
                                          DirectSession(profile, sequence).route),
                           DirectSession(profile, sequence).routeKind,
                           DirectSession(profile, sequence).route)
    BY DEF RealizedTransport
  <2> HIDE DEF derived
  <2> QED BY <2>1, <2>2, <2>3
<1>2. /\ derived.proxy = NonEmpty(profile.route.proxy)
      /\ derived.kind = "direct" => NonEmpty(profile.route.proxy) = NoValue
  BY DerivedTransport
<1> HIDE DEF derived
<1>3. NonEmpty(NonEmpty(profile.route.proxy)) = NonEmpty(profile.route.proxy)
  BY DEF NonEmpty
<1> QED BY <1>1, <1>2, <1>3 DEF ProxyOf

LEMMA RealizedProxied ==
  ASSUME NEW key, NEW routeKind, NEW route, NEW kind, NEW proxy \in Proxies, kind # "direct"
  PROVE  ProxyOf(RealizedTransport([key |-> key, routeKind |-> routeKind, route |-> route,
                                    transport |-> [kind |-> kind, proxy |-> proxy]])) = proxy
<1>1. proxy # NoValue /\ proxy # "blank"
  BY RouteAssumption
<1>2. MergeTransport([kind |-> kind, proxy |-> proxy], routeKind, route)
        = [kind |-> kind, proxy |-> proxy]
  BY <1>1, MergeKeepsTheProxy
<1> QED BY <1>1, <1>2 DEF RealizedTransport, ProxyOf, NonEmpty

LEMMA RealizedProxyIsTheResolvedOne ==
  ASSUME NEW profile, NEW kind \in PluginKinds, NEW sequence,
         ~AllocationRefused(kind, profile)
  PROVE  ProxyOf(RealizedTransport(Session(kind, profile, sequence))) = ResolvedProxy(profile)
<1>1. Decodable(profile.config, AllowedKeys(kind))
  BY DEF AllocationRefused
<1>2. CASE kind \in {"direct", "leased"}
  <2>1. "proxyUrl" \notin AllowedKeys(kind)
    BY <1>2 DEF AllowedKeys, LeasedKeys, ProxyKinds
  <2>2. Field(profile.config, "proxyUrl") = NoValue
    BY <1>1, <2>1 DEF Decodable, Field
  <2>3. ResolvedProxy(profile) = NonEmpty(profile.route.proxy)
    BY <2>2 DEF ResolvedProxy, FirstGiven
  <2>4. Session(kind, profile, sequence)
          = DirectSession(profile, IF kind = "direct" THEN 0 ELSE sequence)
    BY <1>2 DEF Session, ProxyKinds
  <2> QED BY <2>3, <2>4, RealizedDirect
<1>3. CASE kind \in ProxyKinds \cup {"wireguard"}
  <2>1. PICK proxy \in Proxies : proxy = ResolvedProxy(profile)
    BY <1>3 DEF AllocationRefused
  <2>2. CASE kind = "wireguard"
    <3> DEFINE made == WireGuardSession(profile)
    <3>1. Session(kind, profile, sequence) = made
      BY <2>2 DEF Session, ProxyKinds
    <3>2. made = [key |-> made.key, routeKind |-> profile.routeKind, route |-> made.route,
                  transport |-> [kind |-> "wireguard", proxy |-> proxy]]
      BY <2>1 DEF WireGuardSession
    <3> HIDE DEF made
    <3> QED BY <2>1, <3>1, <3>2, RealizedProxied
  <2>3. CASE kind \in ProxyKinds
    <3> DEFINE made == ProxySession(kind, profile)
               leaves == IF kind = "tor" THEN "tor" ELSE "proxy"
    <3>1. Session(kind, profile, sequence) = made
      BY <2>3 DEF Session, ProxyKinds
    <3>2. made = [key |-> made.key, routeKind |-> profile.routeKind, route |-> made.route,
                  transport |-> [kind |-> leaves, proxy |-> proxy]]
      BY <2>1 DEF ProxySession
    <3>3. leaves # "direct"
      OBVIOUS
    <3> HIDE DEF made, leaves
    <3> QED BY <2>1, <3>1, <3>2, <3>3, RealizedProxied
  <2> QED BY <1>3, <2>2, <2>3
<1> QED BY <1>2, <1>3 DEF PluginKinds
-----------------------------------------------------------------------------
(* Runtimes: the shared pools.                                              *)

Places == {"idle", "planned", "allocated", "fetching", "entering", "waiting", "opening",
           "launching", "creating", "relaunching", "recreating", "browsing", "done", "failed"}
OnABrowser == {"creating", "recreating", "browsing"}
InPool == {"entering", "waiting", "opening", "launching", "creating", "relaunching",
           "recreating", "browsing"}
PoolStates == {"open", "stopping", "stopped"}
PoolFields == {"key", "runtime", "proxy", "state", "active", "waiting", "browser", "late"}

IsPool(pool) ==
  /\ DOMAIN pool = PoolFields
  /\ pool.key.proxy = pool.proxy /\ pool.key.runtime = pool.runtime
  /\ pool.state \in PoolStates
  /\ pool.waiting \in Seq(Callers)

RuntimesTypeOK ==
  /\ at \in [Callers -> Places]
  /\ DOMAIN request = Callers /\ DOMAIN session = Callers /\ DOMAIN on = Callers
  /\ via \in [Callers -> Nat]
  /\ \E S : pools \in Seq(S)
  /\ \A p \in DOMAIN pools : IsPool(pools[p])
  /\ live \in Seq(DOMAIN pools)

\* What the runtime is composed of: nobody asks for a profile before.
RegistryIsComplete ==
  /\ registry = NoValue => \A c \in Callers : at[c] = "idle"
  /\ registry # NoValue => \A e \in DOMAIN registry.profiles :
       /\ IsProfile(registry.profiles[e])
       /\ registry.profiles[e].plugin \in DOMAIN registry.plugins
       /\ registry.plugins[registry.profiles[e].plugin].kind \in PluginKinds

\* A session's traffic takes the proxy asked for.
SessionsKeepTheProxy ==
  \A c \in Callers :
    /\ at[c] = "planned" => request[c].egress \in DOMAIN registry.profiles
    /\ at[c] \in InPool \cup {"allocated", "fetching"} =>
         ProxyOf(Transport(c)) = AskedProxy(request[c])

\* So does the pool an access is in.
PoolsFitTheirCallers ==
  \A c \in Callers :
    at[c] \in InPool =>
      /\ via[c] \in DOMAIN pools
      /\ pools[via[c]].proxy = AskedProxy(request[c])
      /\ pools[via[c]].runtime = IdentityProfiles[request[c].identity].runtime

\* A queue holds accesses that wait at its pool, each once.
QueuesWait ==
  \A p \in DOMAIN pools :
    /\ \A i \in DOMAIN pools[p].waiting :
         at[pools[p].waiting[i]] = "waiting" /\ via[pools[p].waiting[i]] = p
    /\ \A i, j \in DOMAIN pools[p].waiting :
         i # j => pools[p].waiting[i] # pools[p].waiting[j]

\* A browser runs with the options of its pool, and so does the one that a page is on, in
\* the pool still or not.
BrowsersFit ==
  /\ \A p \in DOMAIN pools : pools[p].browser \in {NoValue, LaunchOptions(pools[p])}
  /\ \A c \in Callers : at[c] \in OnABrowser => on[c] = LaunchOptions(pools[via[c]])

\* A close has stopped the first entries of the map.
ClosingInOrder ==
  /\ stopping \in Int /\ stopping >= -1 /\ stopping <= Len(live)
  /\ \A i \in 1..stopping : pools[live[i]].state = "stopped"

\* Who allocates in a stopped pool did so when it was stopped.
LateOnesAreNoted ==
  \A c \in Callers :
    at[c] \in Allocating /\ pools[via[c]].state = "stopped" => pools[via[c]].late # {}

RuntimesIInv ==
  /\ RuntimesTypeOK /\ RegistryIsComplete /\ SessionsKeepTheProxy /\ PoolsFitTheirCallers
  /\ QueuesWait /\ BrowsersFit /\ ClosingInOrder /\ LateOnesAreNoted /\ NoPoolIsLost

-----------------------------------------------------------------------------
LEMMA PlaceSet ==
  /\ InPool \subseteq Places
  /\ \A place \in {"idle", "planned", "allocated", "fetching", "done", "failed"} :
       place \in Places /\ place \notin InPool
  BY DEF InPool, Places

\* What a step does to the pools that were there.
SamePool(p) ==
  /\ DOMAIN pools'[p] = DOMAIN pools[p]
  /\ pools'[p].key = pools[p].key /\ pools'[p].runtime = pools[p].runtime
  /\ pools'[p].proxy = pools[p].proxy
SameState(p) == pools'[p].state = pools[p].state /\ pools'[p].late = pools[p].late
SameBrowser(p) == pools'[p].browser = pools[p].browser
SameQueue(p) == pools'[p].waiting = pools[p].waiting

LEMMA UpdatedSequence ==
  ASSUME NEW s, NEW p, NEW value, \E S : s \in Seq(S)
  PROVE  /\ \E S : [s EXCEPT ![p] = value] \in Seq(S)
         /\ Len([s EXCEPT ![p] = value]) = Len(s)
         /\ DOMAIN [s EXCEPT ![p] = value] = DOMAIN s
<1>1. PICK S : s \in Seq(S)
  OBVIOUS
<1> DEFINE More == S \cup {value}
<1>2. [s EXCEPT ![p] = value] \in Seq(More)
  <2>1. PICK n \in Nat : s \in [1..n -> S]
    BY <1>1, SeqDef
  <2>2. PICK t : t = [s EXCEPT ![p] = value]
    OBVIOUS
  <2>3. t \in [1..n -> More]
    BY <2>1, <2>2
  <2> HIDE DEF More
  <2>4. t \in UNION {[1..m -> More] : m \in Nat}
    BY <2>1, <2>3
  <2> QED BY <2>2, <2>4, SeqDef
<1>3. DOMAIN [s EXCEPT ![p] = value] = DOMAIN s
  OBVIOUS
<1>4. \E M : [s EXCEPT ![p] = value] \in Seq(M)
  BY <1>2
<1>5. Len([s EXCEPT ![p] = value]) = Len(s)
  BY <1>1, <1>2, <1>3
<1> QED BY <1>3, <1>4, <1>5

\* An update of the fields of one pool.
LEMMA UpdatedPool ==
  ASSUME RuntimesTypeOK, NEW p \in DOMAIN pools, NEW pool,
         DOMAIN pool = PoolFields, pool.key = pools[p].key, pool.runtime = pools[p].runtime,
         pool.proxy = pools[p].proxy, pools' = [pools EXCEPT ![p] = pool]
  PROVE  /\ \E S : pools' \in Seq(S)
         /\ DOMAIN pools' = DOMAIN pools
         /\ pools'[p] = pool
         /\ \A q \in DOMAIN pools \ {p} : pools'[q] = pools[q]
         /\ \A q \in DOMAIN pools : SamePool(q)
<1>1. \A q \in DOMAIN pools \ {p} : pools'[q] = pools[q]
  OBVIOUS
<1>2. pools'[p] = pool
  OBVIOUS
<1>3. DOMAIN pools[p] = PoolFields
  BY DEF RuntimesTypeOK, IsPool
<1> QED BY <1>1, <1>2, <1>3, UpdatedSequence DEF RuntimesTypeOK, SamePool

LEMMA TakeSlotEffect ==
  ASSUME RuntimesIInv, NEW c \in Callers, TakeSlot(c)
  PROVE  /\ UNCHANGED <<registry, request, session, via, live, stopping>>
         /\ at[c] = "entering" /\ via[c] \in DOMAIN pools
         /\ \E S : pools' \in Seq(S)
         /\ DOMAIN pools' = DOMAIN pools
         /\ \A p \in DOMAIN pools : SamePool(p) /\ SameState(p) /\ SameBrowser(p)
         /\ \/ /\ at' = [at EXCEPT ![c] = "waiting"]
               /\ pools'[via[c]].waiting = Append(pools[via[c]].waiting, c)
               /\ \A p \in DOMAIN pools \ {via[c]} : SameQueue(p)
            \/ /\ \E place \in {"failed", "opening"} : at' = [at EXCEPT ![c] = place]
               /\ \A p \in DOMAIN pools : SameQueue(p)
         /\ at'[c] = "waiting" => IsOpen(via[c])
         /\ UNCHANGED on
<1> DEFINE p == via[c]
<1>1. /\ UNCHANGED <<registry, request, session, via, live, stopping>>
      /\ at[c] = "entering"
  BY DEF TakeSlot
<1>2. p \in DOMAIN pools /\ DOMAIN pools[p] = PoolFields
  BY <1>1 DEF RuntimesIInv, RuntimesTypeOK, PoolsFitTheirCallers, InPool, IsPool
<1>3. /\ \/ UNCHANGED pools /\ Move(c, "failed")
         \/ pools' = [pools EXCEPT ![p].active = @ + 1] /\ Move(c, "opening")
         \/ /\ pools' = [pools EXCEPT ![p].waiting = Append(@, c)] /\ Move(c, "waiting")
            /\ IsOpen(p)
      /\ UNCHANGED on
  BY DEF TakeSlot
<1>4. CASE UNCHANGED pools /\ Move(c, "failed")
  <2>1. at' = [at EXCEPT ![c] = "failed"] /\ at'[c] = "failed"
    BY <1>4 DEF Move, RuntimesIInv, RuntimesTypeOK
  <2> QED BY <1>1, <1>2, <1>3, <1>4, <2>1
          DEF RuntimesIInv, RuntimesTypeOK, SamePool, SameState, SameBrowser, SameQueue
<1>5. CASE pools' = [pools EXCEPT ![p].active = @ + 1] /\ Move(c, "opening")
  <2>1. PICK pool : pool = [pools[p] EXCEPT !.active = @ + 1]
    OBVIOUS
  <2>2. pools' = [pools EXCEPT ![p] = pool]
    BY <1>5, <2>1
  <2>3. /\ DOMAIN pool = PoolFields /\ pool.key = pools[p].key
        /\ pool.runtime = pools[p].runtime /\ pool.proxy = pools[p].proxy
        /\ pool.state = pools[p].state /\ pool.late = pools[p].late
        /\ pool.browser = pools[p].browser
        /\ pool.waiting = pools[p].waiting
    BY <1>2, <2>1 DEF PoolFields
  <2>4. /\ \E S : pools' \in Seq(S)
        /\ DOMAIN pools' = DOMAIN pools
        /\ pools'[p] = pool
        /\ \A q \in DOMAIN pools \ {p} : pools'[q] = pools[q]
        /\ \A q \in DOMAIN pools : SamePool(q)
    BY <1>2, <2>2, <2>3, UpdatedPool DEF RuntimesIInv
  <2>5. at'[c] = "opening"
    BY <1>5 DEF Move, RuntimesIInv, RuntimesTypeOK
  <2> QED BY <1>1, <1>2, <1>3, <1>5, <2>3, <2>4, <2>5 DEF SameState, SameBrowser, SameQueue, Move
<1>6. CASE /\ pools' = [pools EXCEPT ![p].waiting = Append(@, c)] /\ Move(c, "waiting")
           /\ IsOpen(p)
  <2>1. PICK pool : pool = [pools[p] EXCEPT !.waiting = Append(@, c)]
    OBVIOUS
  <2>2. pools' = [pools EXCEPT ![p] = pool]
    BY <1>6, <2>1
  <2>3. /\ DOMAIN pool = PoolFields /\ pool.key = pools[p].key
        /\ pool.runtime = pools[p].runtime /\ pool.proxy = pools[p].proxy
        /\ pool.state = pools[p].state /\ pool.late = pools[p].late
        /\ pool.browser = pools[p].browser
        /\ pool.waiting = Append(pools[p].waiting, c)
    BY <1>2, <2>1 DEF PoolFields
  <2>4. /\ \E S : pools' \in Seq(S)
        /\ DOMAIN pools' = DOMAIN pools
        /\ pools'[p] = pool
        /\ \A q \in DOMAIN pools \ {p} : pools'[q] = pools[q]
        /\ \A q \in DOMAIN pools : SamePool(q)
    BY <1>2, <2>2, <2>3, UpdatedPool DEF RuntimesIInv
  <2> QED BY <1>1, <1>2, <1>3, <1>6, <2>3, <2>4 DEF SameState, SameBrowser, SameQueue, Move
<1> QED BY <1>3, <1>4, <1>5, <1>6


\* The first of the queue, if any, takes the slot that is given back.
LEMMA GiveBackEffect ==
  ASSUME RuntimesIInv, NEW c \in Callers, at[c] \in InPool, NEW place, GiveBack(c, place)
  PROVE  /\ via[c] \in DOMAIN pools
         /\ \E S : pools' \in Seq(S)
         /\ DOMAIN pools' = DOMAIN pools
         /\ \A p \in DOMAIN pools : SamePool(p) /\ SameState(p) /\ SameBrowser(p)
         /\ \/ /\ at' = [at EXCEPT ![c] = place]
               /\ \A p \in DOMAIN pools : SameQueue(p)
            \/ /\ pools[via[c]].waiting # <<>>
               /\ at' = [w \in Callers |->
                           IF w = c THEN place
                           ELSE IF w = Head(pools[via[c]].waiting) THEN "opening" ELSE at[w]]
               /\ pools'[via[c]].waiting = Tail(pools[via[c]].waiting)
               /\ \A p \in DOMAIN pools \ {via[c]} : SameQueue(p)
<1> DEFINE p == via[c]
           next == IF pools[p].waiting = <<>> THEN {} ELSE {Head(pools[p].waiting)}
<1>1. p \in DOMAIN pools /\ DOMAIN pools[p] = PoolFields
  BY DEF RuntimesIInv, RuntimesTypeOK, PoolsFitTheirCallers, IsPool
<1>2. /\ pools' = IF next = {} THEN [pools EXCEPT ![p].active = @ - 1]
                               ELSE [pools EXCEPT ![p].waiting = Tail(@)]
      /\ at' = [w \in Callers |-> IF w = c THEN place
                                  ELSE IF w \in next THEN "opening" ELSE at[w]]
  BY DEF GiveBack
<1>3. PICK pool : pool = IF next = {} THEN [pools[p] EXCEPT !.active = @ - 1]
                                      ELSE [pools[p] EXCEPT !.waiting = Tail(@)]
  OBVIOUS
<1>4. pools' = [pools EXCEPT ![p] = pool]
  <2> HIDE DEF next
  <2>1. CASE next = {}
    <3>1. pools' = [pools EXCEPT ![p].active = @ - 1]
      BY <1>2, <2>1
    <3>2. pool = [pools[p] EXCEPT !.active = @ - 1]
      BY <1>3, <2>1
    <3> QED BY <1>1, <3>1, <3>2
  <2>2. CASE next # {}
    <3>1. pools' = [pools EXCEPT ![p].waiting = Tail(@)]
      BY <1>2, <2>2
    <3>2. pool = [pools[p] EXCEPT !.waiting = Tail(@)]
      BY <1>3, <2>2
    <3> QED BY <1>1, <3>1, <3>2
  <2> QED BY <2>1, <2>2
<1>5. /\ DOMAIN pool = PoolFields /\ pool.key = pools[p].key
      /\ pool.runtime = pools[p].runtime /\ pool.proxy = pools[p].proxy
      /\ pool.state = pools[p].state /\ pool.late = pools[p].late
      /\ pool.browser = pools[p].browser
      /\ pool.waiting = IF next = {} THEN pools[p].waiting ELSE Tail(pools[p].waiting)
  <2>1. CASE next = {}
    <3>1. pool = [pools[p] EXCEPT !.active = @ - 1]
      BY <1>3, <2>1
    <3> HIDE DEF next
    <3> QED BY <1>1, <2>1, <3>1 DEF PoolFields
  <2>2. CASE next # {}
    <3>1. pool = [pools[p] EXCEPT !.waiting = Tail(@)]
      BY <1>3, <2>2
    <3> HIDE DEF next
    <3> QED BY <1>1, <2>2, <3>1 DEF PoolFields
  <2> QED BY <2>1, <2>2
<1>6. /\ \E S : pools' \in Seq(S)
      /\ DOMAIN pools' = DOMAIN pools
      /\ pools'[p] = pool
      /\ \A q \in DOMAIN pools \ {p} : pools'[q] = pools[q]
      /\ \A q \in DOMAIN pools : SamePool(q)
  BY <1>1, <1>4, <1>5, UpdatedPool DEF RuntimesIInv
<1>7. \A q \in DOMAIN pools : SameState(q) /\ SameBrowser(q)
  BY <1>5, <1>6 DEF SameState, SameBrowser
<1>8. CASE pools[p].waiting = <<>>
  <2>1. next = {}
    BY <1>8
  <2>2. \A q \in DOMAIN pools : SameQueue(q)
    <3> HIDE DEF next
    <3> QED BY <1>5, <1>6, <2>1 DEF SameQueue
  <2>3. at' = [at EXCEPT ![c] = place]
    <3>1. at = [w \in Callers |-> at[w]]
      BY DEF RuntimesIInv, RuntimesTypeOK
    <3> HIDE DEF next
    <3> QED BY <1>2, <2>1, <3>1
  <2> QED BY <1>1, <1>6, <1>7, <2>2, <2>3
<1>9. CASE pools[p].waiting # <<>>
  <2>1. next = {Head(pools[p].waiting)}
    BY <1>9
  <2>2. /\ pools'[p].waiting = Tail(pools[p].waiting)
        /\ \A q \in DOMAIN pools \ {p} : SameQueue(q)
    <3> HIDE DEF next
    <3> QED BY <1>5, <1>6, <2>1 DEF SameQueue
  <2>3. at' = [w \in Callers |->
                 IF w = c THEN place
                 ELSE IF w = Head(pools[p].waiting) THEN "opening" ELSE at[w]]
    <3> HIDE DEF next
    <3> QED BY <1>2, <2>1
  <2> QED BY <1>1, <1>6, <1>7, <1>9, <2>2, <2>3
<1> QED BY <1>8, <1>9

\* An update of the browser of one pool.
LEMMA BrowserEffect ==
  ASSUME RuntimesTypeOK, NEW p \in DOMAIN pools, NEW browser,
         pools' = [pools EXCEPT ![p].browser = browser]
  PROVE  /\ \E S : pools' \in Seq(S)
         /\ DOMAIN pools' = DOMAIN pools
         /\ \A q \in DOMAIN pools : SamePool(q) /\ SameState(q) /\ SameQueue(q)
         /\ \A q \in DOMAIN pools \ {p} : SameBrowser(q)
         /\ pools'[p].browser = browser
<1>1. DOMAIN pools[p] = PoolFields
  BY DEF RuntimesTypeOK, IsPool
<1>2. PICK pool : pool = [pools[p] EXCEPT !.browser = browser]
  OBVIOUS
<1>3. pools' = [pools EXCEPT ![p] = pool]
  BY <1>2
<1>4. /\ DOMAIN pool = PoolFields /\ pool.key = pools[p].key
      /\ pool.runtime = pools[p].runtime /\ pool.proxy = pools[p].proxy
      /\ pool.state = pools[p].state /\ pool.late = pools[p].late
      /\ pool.waiting = pools[p].waiting /\ pool.browser = browser
  BY <1>1, <1>2 DEF PoolFields
<1>5. /\ \E S : pools' \in Seq(S)
      /\ DOMAIN pools' = DOMAIN pools
      /\ pools'[p] = pool
      /\ \A q \in DOMAIN pools \ {p} : pools'[q] = pools[q]
      /\ \A q \in DOMAIN pools : SamePool(q)
  BY <1>3, <1>4, UpdatedPool
<1> QED BY <1>4, <1>5 DEF SameState, SameQueue, SameBrowser

\* The two halves of stopping a pool.
LEMMA StopPoolEffect ==
  ASSUME RuntimesIInv, StopPool, NEW p, p = live[stopping + 1]
  PROVE  /\ p \in DOMAIN pools /\ IsOpen(p)
         /\ UNCHANGED <<registry, request, session, via, on, live, stopping>>
         /\ \E S : pools' \in Seq(S)
         /\ DOMAIN pools' = DOMAIN pools
         /\ \A q \in DOMAIN pools : SamePool(q) /\ SameBrowser(q)
         /\ pools'[p].state = "stopping" /\ pools'[p].waiting = <<>>
         /\ \A q \in DOMAIN pools \ {p} : SameQueue(q) /\ SameState(q)
         /\ at' = [c \in Callers |->
                     IF at[c] = "waiting" /\ via[c] = p THEN "failed" ELSE at[c]]
<1>1. /\ stopping \in 0..(Len(live) - 1) /\ IsOpen(p)
      /\ pools' = [pools EXCEPT ![p].state = "stopping", ![p].waiting = <<>>]
      /\ at' = [c \in Callers |->
                  IF at[c] = "waiting" /\ via[c] = p THEN "failed" ELSE at[c]]
      /\ UNCHANGED <<registry, request, session, via, on, live, stopping>>
  BY DEF StopPool
<1>2. p \in DOMAIN pools /\ DOMAIN pools[p] = PoolFields
  BY <1>1 DEF RuntimesIInv, RuntimesTypeOK, IsPool
<1>3. PICK pool : pool = [[pools[p] EXCEPT !.state = "stopping"] EXCEPT !.waiting = <<>>]
  OBVIOUS
<1>4. pools' = [pools EXCEPT ![p] = pool]
  BY <1>1, <1>2, <1>3
<1>5. /\ DOMAIN pool = PoolFields /\ pool.key = pools[p].key
      /\ pool.runtime = pools[p].runtime /\ pool.proxy = pools[p].proxy
      /\ pool.state = "stopping" /\ pool.waiting = <<>> /\ pool.browser = pools[p].browser
  BY <1>2, <1>3 DEF PoolFields
<1>6. /\ \E S : pools' \in Seq(S)
      /\ DOMAIN pools' = DOMAIN pools
      /\ pools'[p] = pool
      /\ \A q \in DOMAIN pools \ {p} : pools'[q] = pools[q]
      /\ \A q \in DOMAIN pools : SamePool(q)
  BY <1>2, <1>4, <1>5, UpdatedPool DEF RuntimesIInv
<1> QED BY <1>1, <1>2, <1>5, <1>6 DEF SameQueue, SameState, SameBrowser

LEMMA StopBrowserEffect ==
  ASSUME RuntimesIInv, StopBrowser, NEW p, p = live[stopping + 1]
  PROVE  /\ stopping \in 0..(Len(live) - 1) /\ p \in DOMAIN pools
         /\ pools[p].state = "stopping" /\ stopping' = stopping + 1
         /\ UNCHANGED <<registry, at, request, session, via, on, live>>
         /\ \E S : pools' \in Seq(S)
         /\ DOMAIN pools' = DOMAIN pools
         /\ \A q \in DOMAIN pools : SamePool(q) /\ SameQueue(q)
         /\ pools'[p].state = "stopped" /\ pools'[p].browser = NoValue
         /\ pools'[p].late = AtWork(p)
         /\ \A q \in DOMAIN pools \ {p} : SameBrowser(q) /\ SameState(q)
<1>1. PICK work : work = AtWork(p)
  OBVIOUS
<1>2. /\ stopping \in 0..(Len(live) - 1) /\ pools[p].state = "stopping"
      /\ pools' = [pools EXCEPT ![p].state = "stopped", ![p].browser = NoValue, ![p].late = work]
      /\ stopping' = stopping + 1
      /\ UNCHANGED <<registry, at, request, session, via, on, live>>
  BY <1>1 DEF StopBrowser
<1>3. p \in DOMAIN pools /\ DOMAIN pools[p] = PoolFields
  BY <1>2 DEF RuntimesIInv, RuntimesTypeOK, IsPool
<1>4. PICK pool : pool = [[[pools[p] EXCEPT !.state = "stopped"] EXCEPT !.browser = NoValue]
                            EXCEPT !.late = work]
  OBVIOUS
<1>5. pools' = [pools EXCEPT ![p] = pool]
  BY <1>2, <1>3, <1>4
<1>6. /\ DOMAIN pool = PoolFields /\ pool.key = pools[p].key
      /\ pool.runtime = pools[p].runtime /\ pool.proxy = pools[p].proxy
      /\ pool.state = "stopped" /\ pool.waiting = pools[p].waiting /\ pool.browser = NoValue
      /\ pool.late = work
  BY <1>3, <1>4 DEF PoolFields
<1>7. /\ \E S : pools' \in Seq(S)
      /\ DOMAIN pools' = DOMAIN pools
      /\ pools'[p] = pool
      /\ \A q \in DOMAIN pools \ {p} : pools'[q] = pools[q]
      /\ \A q \in DOMAIN pools : SamePool(q)
  BY <1>3, <1>5, <1>6, UpdatedPool DEF RuntimesIInv
<1> QED BY <1>1, <1>2, <1>3, <1>6, <1>7 DEF SameQueue, SameState, SameBrowser


-----------------------------------------------------------------------------
LEMMA RuntimesInitially == RuntimesInit => RuntimesIInv
<1> SUFFICES ASSUME RuntimesInit PROVE RuntimesIInv
  OBVIOUS
<1> USE DEF RuntimesInit
<1>1. pools \in Seq({}) /\ live \in Seq(DOMAIN pools) /\ DOMAIN pools = {} /\ Len(live) = 0
  OBVIOUS
<1>2. RuntimesTypeOK
  BY <1>1 DEF RuntimesTypeOK, Places
<1>3. RegistryIsComplete /\ SessionsKeepTheProxy /\ PoolsFitTheirCallers
  BY DEF RegistryIsComplete, SessionsKeepTheProxy, PoolsFitTheirCallers, InPool
<1>4. QueuesWait /\ BrowsersFit /\ NoPoolIsLost
  BY <1>1 DEF QueuesWait, BrowsersFit, NoPoolIsLost, OnABrowser
<1>5. ClosingInOrder /\ LateOnesAreNoted
  BY <1>1 DEF ClosingInOrder, LateOnesAreNoted, Allocating
<1> QED BY <1>2, <1>3, <1>4, <1>5 DEF RuntimesIInv

\* What several modules contribute is what each of them does.
LEMMA ContributionOfAModule ==
  ASSUME NEW parts, NEW key \in DOMAIN Contributed(parts)
  PROVE  \E n \in DOMAIN parts :
           key \in DOMAIN parts[n] /\ Contributed(parts)[key] = parts[n][key]
<1> DEFINE keys == UNION {DOMAIN parts[n] : n \in DOMAIN parts}
           from(k) == CHOOSE m \in DOMAIN parts : k \in DOMAIN parts[m]
<1>1. Contributed(parts) = [k \in keys |-> parts[from(k)][k]]
  BY DEF Contributed
<1>2. key \in keys
  BY <1>1
<1>3. from(key) \in DOMAIN parts /\ key \in DOMAIN parts[from(key)]
  BY <1>2
<1> HIDE DEF from, keys
<1> QED BY <1>1, <1>2, <1>3

LEMMA ComposedRegistry ==
  ASSUME NEW modules \in ModuleSets, ~CompositionRefused(modules)
  PROVE  \A e \in DOMAIN Composition(modules).profiles :
           LET c == Composition(modules)
           IN  /\ IsProfile(c.profiles[e])
               /\ c.profiles[e].plugin \in DOMAIN c.plugins
               /\ c.plugins[c.profiles[e].plugin].kind \in PluginKinds
<1> DEFINE c == Composition(modules)
<1>1. /\ c.plugins = Contributed(Plugins(modules))
      /\ c.profiles = Contributed(Profiles(modules))
  BY DEF Composition
<1>2. \A p \in DOMAIN c.profiles : c.profiles[p].plugin \in DOMAIN c.plugins
  BY DEF CompositionRefused
<1>3. ASSUME NEW p \in DOMAIN c.plugins PROVE c.plugins[p].kind \in PluginKinds
  <2>1. PICK n \in DOMAIN Plugins(modules) :
          p \in DOMAIN Plugins(modules)[n] /\ c.plugins[p] = Plugins(modules)[n][p]
    BY <1>1, <1>3, ContributionOfAModule
  <2>2. n \in DOMAIN modules /\ Plugins(modules)[n] = modules[n].plugins
    BY <2>1 DEF Plugins
  <2> QED BY <2>1, <2>2, RuntimesAssumption DEF PluginKinds
<1>4. ASSUME NEW e \in DOMAIN c.profiles PROVE IsProfile(c.profiles[e])
  <2>1. PICK n \in DOMAIN Profiles(modules) :
          e \in DOMAIN Profiles(modules)[n] /\ c.profiles[e] = Profiles(modules)[n][e]
    BY <1>1, <1>4, ContributionOfAModule
  <2>2. n \in DOMAIN modules /\ Profiles(modules)[n] = modules[n].profiles
    BY <2>1 DEF Profiles
  <2> QED BY <2>1, <2>2, RuntimesAssumption DEF IsProfile
<1> HIDE DEF c
<1>5. \A e \in DOMAIN c.profiles :
        /\ IsProfile(c.profiles[e])
        /\ c.profiles[e].plugin \in DOMAIN c.plugins
        /\ c.plugins[c.profiles[e].plugin].kind \in PluginKinds
  BY <1>2, <1>3, <1>4
<1> QED BY <1>5 DEF c

LEMMA ComposeStep == ASSUME RuntimesIInv, Compose PROVE RuntimesIInv'
<1>1. /\ registry = NoValue
      /\ UNCHANGED <<at, request, session, via, on, pools, live, stopping>>
  BY DEF Compose
<1>2. \A c \in Callers : at[c] = "idle"
  BY <1>1 DEF RuntimesIInv, RegistryIsComplete
<1>3. RegistryIsComplete'
  <2>1. PICK modules \in ModuleSets :
          ~CompositionRefused(modules) /\ registry' = Composition(modules)
    BY DEF Compose
  <2>2. PICK c : c = Composition(modules)
    OBVIOUS
  <2>3. \A e \in DOMAIN c.profiles :
          /\ IsProfile(c.profiles[e])
          /\ c.profiles[e].plugin \in DOMAIN c.plugins
          /\ c.plugins[c.profiles[e].plugin].kind \in PluginKinds
    BY <2>1, <2>2, ComposedRegistry
  <2> QED BY <1>1, <1>2, <2>1, <2>2, <2>3 DEF RegistryIsComplete
<1>4. RuntimesTypeOK' /\ PoolsFitTheirCallers' /\ SessionsKeepTheProxy'
  BY <1>1, <1>2 DEF RuntimesIInv, RuntimesTypeOK, PoolsFitTheirCallers, SessionsKeepTheProxy,
                    InPool
<1>5. QueuesWait' /\ BrowsersFit' /\ ClosingInOrder' /\ LateOnesAreNoted' /\ NoPoolIsLost'
  BY <1>1 DEF RuntimesIInv, QueuesWait, BrowsersFit, ClosingInOrder, LateOnesAreNoted,
              NoPoolIsLost, IsOpen
<1> QED BY <1>3, <1>4, <1>5 DEF RuntimesIInv

\* An access that stays out of the pools.
LEMMA StepOutsideThePools ==
  ASSUME RuntimesIInv, NEW c \in Callers, NEW place \in Places \ InPool,
         at[c] \notin InPool, at' = [at EXCEPT ![c] = place], registry # NoValue,
         UNCHANGED <<registry, via, on, pools, live, stopping>>,
         DOMAIN request' = Callers, DOMAIN session' = Callers,
         \A d \in Callers \ {c} : request'[d] = request[d] /\ session'[d] = session[d],
         place = "planned" => request'[c].egress \in DOMAIN registry.profiles,
         place \in {"allocated", "fetching"} =>
           ProxyOf(RealizedTransport(session'[c].egress)) = AskedProxy(request'[c])
  PROVE  RuntimesIInv'
<1>1. RuntimesTypeOK'
  BY DEF RuntimesIInv, RuntimesTypeOK
<1>2. \A d \in Callers : at'[d] = IF d = c THEN place ELSE at[d]
  BY DEF RuntimesIInv, RuntimesTypeOK
<1>3. RegistryIsComplete'
  BY DEF RuntimesIInv, RegistryIsComplete
<1>4. SessionsKeepTheProxy'
  <2>1. AskedProxy(request[c])' = AskedProxy(request'[c])
    BY DEF AskedProxy
  <2>2. ASSUME NEW d \in Callers \ {c}
        PROVE  /\ AskedProxy(request[d])' = AskedProxy(request[d])
               /\ Transport(d)' = Transport(d)
    BY <2>2 DEF AskedProxy, Transport
  <2> QED BY <1>2, <2>1, <2>2 DEF RuntimesIInv, SessionsKeepTheProxy, Transport
<1>5. PoolsFitTheirCallers'
  <2>1. ASSUME NEW d \in Callers \ {c} PROVE AskedProxy(request[d])' = AskedProxy(request[d])
    BY <2>1 DEF AskedProxy
  <2> QED BY <1>2, <2>1 DEF RuntimesIInv, PoolsFitTheirCallers
<1>6. QueuesWait'
  <2>1. \A p \in DOMAIN pools : \A i \in DOMAIN pools[p].waiting :
          pools[p].waiting[i] \in Callers \ {c}
    BY DEF RuntimesIInv, RuntimesTypeOK, IsPool, QueuesWait, InPool
  <2> QED BY <1>2, <2>1 DEF RuntimesIInv, QueuesWait
<1>7. BrowsersFit' /\ LateOnesAreNoted'
  BY <1>2 DEF RuntimesIInv, BrowsersFit, LateOnesAreNoted, InPool, OnABrowser, Allocating
<1>8. ClosingInOrder' /\ NoPoolIsLost'
  BY <1>2 DEF RuntimesIInv, ClosingInOrder, NoPoolIsLost, IsOpen, InPool
<1> QED BY <1>1, <1>3, <1>4, <1>5, <1>6, <1>7, <1>8 DEF RuntimesIInv


LEMMA ResolveProfilesStep ==
  ASSUME RuntimesIInv, NEW c \in Callers, ResolveProfiles(c)
  PROVE  RuntimesIInv'
<1>1. /\ registry # NoValue /\ at[c] = "idle"
      /\ UNCHANGED <<registry, session, via, on, pools, live, stopping>>
  BY DEF ResolveProfiles
<1>2. PICK r : /\ request' = [request EXCEPT ![c] = r]
               /\ \/ Move(c, "planned") /\ r.egress \in DOMAIN registry.profiles
                  \/ Move(c, "failed")
  BY DEF ResolveProfiles
<1>3. DOMAIN request = Callers /\ DOMAIN session = Callers
  BY DEF RuntimesIInv, RuntimesTypeOK
<1>4. /\ DOMAIN request' = Callers /\ request'[c] = r
      /\ \A d \in Callers \ {c} : request'[d] = request[d]
  BY <1>2, <1>3
<1>5. PICK place \in {"planned", "failed"} :
        /\ at' = [at EXCEPT ![c] = place]
        /\ place = "planned" => r.egress \in DOMAIN registry.profiles
  BY <1>2 DEF Move
<1>6. place \in Places \ InPool /\ at[c] \notin InPool /\ place \notin {"allocated", "fetching"}
  BY <1>1, PlaceSet DEF InPool
<1> QED BY <1>1, <1>3, <1>4, <1>5, <1>6, StepOutsideThePools

\* The proxy of the session that is allocated is the one asked for.
LEMMA AllocatedProxy ==
  ASSUME RuntimesIInv, NEW c \in Callers, at[c] = "planned", NEW kind, NEW sequence,
         kind = registry.plugins[ProfileOf(request[c]).plugin].kind,
         ~AllocationRefused(kind, ProfileOf(request[c]))
  PROVE  ProxyOf(RealizedTransport(Session(kind, ProfileOf(request[c]), sequence)))
           = AskedProxy(request[c])
<1>1. PICK r : r = request[c]
  OBVIOUS
<1>2. PICK given : given = registry.profiles[r.egress]
  OBVIOUS
<1>3. /\ IsProfile(given) /\ given.plugin \in DOMAIN registry.plugins
      /\ registry.plugins[given.plugin].kind \in PluginKinds
  BY <1>1, <1>2 DEF RuntimesIInv, SessionsKeepTheProxy, RegistryIsComplete
<1>4. PICK profile : profile = ProfileOf(r)
  OBVIOUS
<1>5. profile = [given EXCEPT !.config = FirstGiven(r.config, @)]
  BY <1>2, <1>4 DEF ProfileOf, Configured
<1>6. /\ profile.config = FirstGiven(r.config, given.config)
      /\ profile.route = given.route /\ profile.plugin = given.plugin
  <2>1. PICK config : config = FirstGiven(r.config, given.config)
    OBVIOUS
  <2>2. profile = [given EXCEPT !.config = config]
    BY <1>5, <2>1
  <2> QED BY <1>3, <2>1, <2>2 DEF IsProfile
<1>7. kind \in PluginKinds /\ ~AllocationRefused(kind, profile)
  BY <1>1, <1>3, <1>4, <1>6
<1>8. ProxyOf(RealizedTransport(Session(kind, profile, sequence))) = ResolvedProxy(profile)
  BY <1>7, RealizedProxyIsTheResolvedOne
<1>9. ResolvedProxy(profile) = AskedProxy(r)
  BY <1>2, <1>6 DEF ResolvedProxy, AskedProxy
<1> QED BY <1>1, <1>4, <1>8, <1>9

LEMMA AcquireSessionsStep ==
  ASSUME RuntimesIInv, NEW c \in Callers, AcquireSessions(c)
  PROVE  RuntimesIInv'
<1>1. /\ at[c] = "planned" /\ UNCHANGED <<registry, request, via, on, pools, live, stopping>>
  BY DEF AcquireSessions
<1>2. registry # NoValue
  BY <1>1 DEF RuntimesIInv, RegistryIsComplete
<1>3. DOMAIN request = Callers /\ DOMAIN session = Callers
  BY DEF RuntimesIInv, RuntimesTypeOK
<1>4. PICK kind : kind = registry.plugins[ProfileOf(request[c]).plugin].kind
  OBVIOUS
<1>5. \/ Move(c, "failed") /\ UNCHANGED session
      \/ /\ ~AllocationRefused(kind, ProfileOf(request[c]))
         /\ Move(c, "allocated")
         /\ \E sequence, identity :
              session' = [session EXCEPT ![c] =
                            [egress |-> Session(kind, ProfileOf(request[c]), sequence),
                             identity |-> identity]]
  BY <1>4 DEF AcquireSessions
<1>6. CASE Move(c, "failed") /\ UNCHANGED session
  <2>1. "failed" \in Places \ InPool /\ at[c] \notin InPool
    BY <1>1, PlaceSet DEF InPool
  <2>2. at' = [at EXCEPT ![c] = "failed"] /\ session' = session
    BY <1>6 DEF Move
  <2>3. DOMAIN request' = Callers /\ DOMAIN session' = Callers
    BY <1>1, <1>3, <2>2
  <2>4. \A d \in Callers \ {c} : request'[d] = request[d] /\ session'[d] = session[d]
    BY <1>1, <2>2
  <2> QED BY <1>1, <1>2, <2>1, <2>2, <2>3, <2>4, StepOutsideThePools
<1>7. CASE /\ ~AllocationRefused(kind, ProfileOf(request[c]))
           /\ Move(c, "allocated")
           /\ \E sequence, identity :
                session' = [session EXCEPT ![c] =
                              [egress |-> Session(kind, ProfileOf(request[c]), sequence),
                               identity |-> identity]]
  <2>1. PICK sequence, identity :
          session' = [session EXCEPT ![c] =
                        [egress |-> Session(kind, ProfileOf(request[c]), sequence),
                         identity |-> identity]]
    BY <1>7
  <2>2. PICK egress : egress = Session(kind, ProfileOf(request[c]), sequence)
    OBVIOUS
  <2>3. /\ DOMAIN session' = Callers /\ session'[c].egress = egress
        /\ \A d \in Callers \ {c} : session'[d] = session[d]
    BY <1>3, <2>1, <2>2
  <2>4. ProxyOf(RealizedTransport(egress)) = AskedProxy(request[c])
    BY <1>1, <1>4, <1>7, <2>2, AllocatedProxy
  <2>5. AskedProxy(request'[c]) = AskedProxy(request[c])
    BY <1>1 DEF AskedProxy
  <2>6. "allocated" \in Places \ InPool /\ at[c] \notin InPool
    BY <1>1, PlaceSet DEF InPool
  <2>7. at' = [at EXCEPT ![c] = "allocated"]
    BY <1>7 DEF Move
  <2>8. DOMAIN request' = Callers /\ \A d \in Callers \ {c} : request'[d] = request[d]
    BY <1>1, <1>3
  <2>9. ProxyOf(RealizedTransport(session'[c].egress)) = AskedProxy(request'[c])
    BY <2>3, <2>4, <2>5
  <2> QED BY <1>1, <1>2, <2>3, <2>6, <2>7, <2>8, <2>9, StepOutsideThePools
<1> QED BY <1>5, <1>6, <1>7

LEMMA FetchStep ==
  ASSUME RuntimesIInv, NEW c \in Callers, Fetch(c) \/ Fetched(c)
  PROVE  RuntimesIInv'
<1>1. PICK place \in {"failed", "fetching", "done"} :
        /\ at' = [at EXCEPT ![c] = place]
        /\ at[c] \in {"allocated", "fetching"}
        /\ UNCHANGED <<registry, request, session, via, on, pools, live, stopping>>
  BY DEF Fetch, Fetched, Move
<1>2. place \in Places \ InPool /\ at[c] \notin InPool /\ place # "planned"
  BY <1>1, PlaceSet DEF InPool
<1>3. registry # NoValue
  BY <1>1 DEF RuntimesIInv, RegistryIsComplete
<1>4. ProxyOf(RealizedTransport(session[c].egress)) = AskedProxy(request[c])
  BY <1>1 DEF RuntimesIInv, SessionsKeepTheProxy, Transport
<1>5. AskedProxy(request'[c]) = AskedProxy(request[c])
  BY <1>1 DEF AskedProxy
<1>6. ProxyOf(RealizedTransport(session'[c].egress)) = AskedProxy(request'[c])
  BY <1>1, <1>4, <1>5
<1>7. DOMAIN request' = Callers /\ DOMAIN session' = Callers
  BY <1>1 DEF RuntimesIInv, RuntimesTypeOK
<1>8. \A d \in Callers \ {c} : request'[d] = request[d] /\ session'[d] = session[d]
  BY <1>1
<1> QED BY <1>1, <1>2, <1>3, <1>6, <1>7, <1>8, StepOutsideThePools


\* An access enters a pool that is there or that it adds to the map.
LEMMA EnterPoolStep ==
  ASSUME RuntimesIInv, NEW c \in Callers, at[c] = "allocated",
         at' = [at EXCEPT ![c] = "entering"],
         UNCHANGED <<registry, request, session, on, stopping>>,
         NEW p \in DOMAIN pools', p \in Nat, via' = [via EXCEPT ![c] = p],
         pools'[p].proxy = AskedProxy(request[c]),
         pools'[p].runtime = IdentityProfiles[request[c].identity].runtime,
         \E S : pools' \in Seq(S), DOMAIN pools \subseteq DOMAIN pools',
         \A q \in DOMAIN pools : pools'[q] = pools[q],
         \A q \in DOMAIN pools' \ DOMAIN pools :
           /\ IsPool(pools'[q]) /\ pools'[q].waiting = <<>> /\ pools'[q].browser = NoValue
           /\ IsOpen(q)' /\ q \in ToSet(live'),
         live' \in Seq(DOMAIN pools'), Len(live) <= Len(live'),
         \A i \in 1..Len(live) : live'[i] = live[i]
  PROVE  RuntimesIInv'
<1> USE DEF RuntimesIInv
<1>1. \A d \in Callers : at'[d] = IF d = c THEN "entering" ELSE at[d]
  BY DEF RuntimesTypeOK
<1>2. \A d \in Callers : via'[d] = IF d = c THEN p ELSE via[d]
  BY DEF RuntimesTypeOK
<1>3. \A d \in Callers : /\ AskedProxy(request[d])' = AskedProxy(request[d])
                         /\ Transport(d)' = Transport(d)
  BY DEF AskedProxy, Transport
<1>4. \A q \in DOMAIN pools' : IsPool(pools'[q])
  BY DEF RuntimesTypeOK
<1>5. RuntimesTypeOK'
  <2>1. at' \in [Callers -> Places] /\ via' \in [Callers -> Nat]
    BY DEF RuntimesTypeOK, Places
  <2>2. DOMAIN request' = Callers /\ DOMAIN session' = Callers
    BY DEF RuntimesTypeOK
  <2>3. \A q \in DOMAIN pools' : IsPool(pools[q])'
    BY <1>4 DEF IsPool
  <2> QED BY <2>1, <2>2, <2>3 DEF RuntimesTypeOK
<1>6. RegistryIsComplete'
  <2>1. registry # NoValue
    BY DEF RegistryIsComplete
  <2> QED BY <2>1 DEF RegistryIsComplete
<1>7. SessionsKeepTheProxy'
  <2>1. ProxyOf(Transport(c)) = AskedProxy(request[c])
    BY DEF SessionsKeepTheProxy
  <2>2. ASSUME NEW d \in Callers
        PROVE  /\ at'[d] = "planned" => request'[d].egress \in DOMAIN registry'.profiles
               /\ at'[d] \in InPool \cup {"allocated", "fetching"} =>
                    ProxyOf(Transport(d)') = AskedProxy(request[d])'
    BY <1>1, <1>3, <2>1 DEF SessionsKeepTheProxy
  <2> QED BY <2>2 DEF SessionsKeepTheProxy
<1>8. PoolsFitTheirCallers'
  BY <1>1, <1>2, <1>3 DEF PoolsFitTheirCallers
<1>9. QueuesWait'
  <2>1. ASSUME NEW q \in DOMAIN pools
        PROVE  \A i \in DOMAIN pools[q].waiting : pools[q].waiting[i] \in Callers \ {c}
    BY <2>1 DEF RuntimesTypeOK, IsPool, QueuesWait
  <2>2. ASSUME NEW q \in DOMAIN pools'
        PROVE  /\ \A i \in DOMAIN pools'[q].waiting :
                    at'[pools'[q].waiting[i]] = "waiting" /\ via'[pools'[q].waiting[i]] = q
               /\ \A i, j \in DOMAIN pools'[q].waiting :
                    i # j => pools'[q].waiting[i] # pools'[q].waiting[j]
    <3>1. CASE q \in DOMAIN pools
      BY <1>1, <1>2, <2>1, <3>1 DEF QueuesWait
    <3>2. CASE q \notin DOMAIN pools
      <4>1. DOMAIN pools'[q].waiting = {}
        BY <2>2, <3>2
      <4> QED BY <4>1
    <3> QED BY <3>1, <3>2
  <2> QED BY <2>2 DEF QueuesWait
<1>10. BrowsersFit'
  <2>1. ASSUME NEW q \in DOMAIN pools'
        PROVE  pools'[q].browser \in {NoValue, LaunchOptions(pools'[q])}
    BY <2>1 DEF BrowsersFit
  <2>2. ASSUME NEW d \in Callers, at'[d] \in OnABrowser
        PROVE  on'[d] = LaunchOptions(pools'[via'[d]])
    <3>1. d # c /\ at[d] \in OnABrowser /\ via'[d] = via[d]
      BY <1>1, <1>2, <2>2 DEF OnABrowser
    <3>2. via[d] \in DOMAIN pools
      BY <3>1 DEF PoolsFitTheirCallers, InPool, OnABrowser
    <3> QED BY <2>2, <3>1, <3>2 DEF BrowsersFit
  <2> QED BY <2>1, <2>2 DEF BrowsersFit, LaunchOptions
<1>11. ClosingInOrder'
  <2>1. /\ stopping \in Int /\ stopping >= -1 /\ stopping <= Len(live)
        /\ live \in Seq(DOMAIN pools)
    BY DEF ClosingInOrder, RuntimesTypeOK
  <2>2. Len(live) \in Nat /\ Len(live') \in Nat
    BY <2>1
  <2>3. \A i \in 1..stopping : live'[i] = live[i] /\ live[i] \in DOMAIN pools
    BY <2>1, <2>2
  <2>4. \A i \in 1..stopping : pools'[live'[i]].state = "stopped"
    BY <2>3 DEF ClosingInOrder
  <2>5. stopping <= Len(live')
    BY <2>1, <2>2
  <2> QED BY <2>1, <2>4, <2>5 DEF ClosingInOrder
<1>12. NoPoolIsLost'
  <2>1. ToSet(live) \subseteq ToSet(live')
    <3>1. /\ DOMAIN live = 1..Len(live) /\ Len(live) \in Nat
          /\ DOMAIN live' = 1..Len(live') /\ Len(live') \in Nat
      BY DEF RuntimesTypeOK
    <3>2. \A i \in DOMAIN live : i \in DOMAIN live' /\ live'[i] = live[i]
      BY <3>1
    <3> HIDE DEF RuntimesIInv
    <3> QED BY <3>2 DEF ToSet
  <2>2. ASSUME NEW q \in DOMAIN pools'
        PROVE  /\ pools'[q].state # "stopped" => q \in ToSet(live')
               /\ pools'[q].state = "stopped" /\ pools'[q].browser # NoValue =>
                    pools'[q].late # {}
    <3>1. CASE q \in DOMAIN pools
      BY <2>1, <3>1 DEF NoPoolIsLost
    <3>2. CASE q \notin DOMAIN pools
      BY <2>2, <3>2
    <3> QED BY <3>1, <3>2
  <2>3. ASSUME NEW d \in Callers, at'[d] = "waiting" PROVE pools'[via'[d]].state = "open"
    <3>1. d # c /\ at[d] = "waiting" /\ via'[d] = via[d] /\ via[d] \in DOMAIN pools
      BY <1>1, <1>2, <2>3 DEF PoolsFitTheirCallers, InPool
    <3> QED BY <3>1 DEF NoPoolIsLost, IsOpen
  <2> QED BY <2>2, <2>3 DEF NoPoolIsLost, IsOpen, ToSet
<1>13. LateOnesAreNoted'
  <2>1. ASSUME NEW d \in Callers, at'[d] \in Allocating, pools'[via'[d]].state = "stopped"
        PROVE  pools'[via'[d]].late # {}
    <3>1. d # c /\ at[d] \in Allocating /\ via'[d] = via[d] /\ via[d] \in DOMAIN pools
      BY <1>1, <1>2, <2>1 DEF PoolsFitTheirCallers, InPool, Allocating
    <3> QED BY <2>1, <3>1 DEF LateOnesAreNoted
  <2> QED BY <2>1 DEF LateOnesAreNoted
<1> QED BY <1>5, <1>6, <1>7, <1>8, <1>9, <1>10, <1>11, <1>12, <1>13

LEMMA FindPoolStep ==
  ASSUME RuntimesIInv, NEW c \in Callers, FindPool(c)
  PROVE  RuntimesIInv'
<1> USE DEF RuntimesIInv
<1> DEFINE found == {p \in ToSet(live) : pools[p].key = CacheKey(c)}
<1>1. /\ at[c] = "allocated"
      /\ UNCHANGED <<registry, request, session, on, stopping>>
      /\ \/ Move(c, "failed") /\ UNCHANGED <<pools, live, via>>
         \/ /\ Move(c, "entering") /\ found # {}
            /\ via' = [via EXCEPT ![c] = CHOOSE p \in found : TRUE]
            /\ UNCHANGED <<pools, live>>
         \/ /\ Move(c, "entering") /\ found = {}
            /\ pools' = Append(pools, NewPool(c))
            /\ live' = Append(live, Len(pools'))
            /\ via' = [via EXCEPT ![c] = Len(pools')]
  BY DEF FindPool
<1>2. registry # NoValue
  BY <1>1 DEF RegistryIsComplete
<1>3. ProxyOf(Transport(c)) = AskedProxy(request[c])
  BY <1>1 DEF SessionsKeepTheProxy
<1>4. CASE Move(c, "failed") /\ UNCHANGED <<pools, live, via>>
  <2>1. "failed" \in Places \ InPool /\ at[c] \notin InPool
    BY <1>1, PlaceSet DEF InPool
  <2>2. at' = [at EXCEPT ![c] = "failed"]
    BY <1>4 DEF Move
  <2>3. /\ DOMAIN request' = Callers /\ DOMAIN session' = Callers
        /\ \A d \in Callers \ {c} : request'[d] = request[d] /\ session'[d] = session[d]
    BY <1>1 DEF RuntimesTypeOK
  <2> QED BY <1>1, <1>2, <1>4, <2>1, <2>2, <2>3, StepOutsideThePools
<1>5. CASE /\ Move(c, "entering") /\ found # {}
           /\ via' = [via EXCEPT ![c] = CHOOSE p \in found : TRUE]
           /\ UNCHANGED <<pools, live>>
  <2>1. PICK p : p = CHOOSE q \in found : TRUE
    OBVIOUS
  <2>2. p \in found
    BY <1>5, <2>1
  <2>3. p \in ToSet(live) /\ pools[p].key = CacheKey(c)
    BY <2>2
  <2> HIDE DEF found
  <2>4. p \in DOMAIN pools /\ p \in Nat
    BY <2>3 DEF ToSet, RuntimesTypeOK
  <2>5. /\ pools[p].proxy = AskedProxy(request[c])
        /\ pools[p].runtime = IdentityProfiles[request[c].identity].runtime
    BY <1>3, <2>3, <2>4 DEF RuntimesTypeOK, IsPool, CacheKey
  <2>6. /\ at' = [at EXCEPT ![c] = "entering"] /\ via' = [via EXCEPT ![c] = p]
        /\ pools' = pools /\ live' = live
    BY <1>5, <2>1 DEF Move
  <2>7. /\ \E S : pools' \in Seq(S)
        /\ live' \in Seq(DOMAIN pools') /\ Len(live) <= Len(live')
    BY <2>6 DEF RuntimesTypeOK
  <2> QED BY <1>1, <2>4, <2>5, <2>6, <2>7, EnterPoolStep
<1>6. CASE /\ Move(c, "entering") /\ found = {}
           /\ pools' = Append(pools, NewPool(c))
           /\ live' = Append(live, Len(pools'))
           /\ via' = [via EXCEPT ![c] = Len(pools')]
  <2> HIDE DEF found
  <2>1. PICK S : pools \in Seq(S)
    BY DEF RuntimesTypeOK
  <2>2. PICK pool : pool = NewPool(c)
    OBVIOUS
  <2>3. PICK p : p = Len(pools) + 1
    OBVIOUS
  <2>4. /\ pools' \in Seq(S \cup {pool}) /\ Len(pools') = p /\ p \in Nat
        /\ DOMAIN pools' = DOMAIN pools \cup {p} /\ pools'[p] = pool
        /\ \A q \in DOMAIN pools : pools'[q] = pools[q]
    BY <1>6, <2>1, <2>2, <2>3
  <2>5. /\ live' \in Seq(DOMAIN pools') /\ Len(live') = Len(live) + 1
        /\ live'[Len(live) + 1] = p
        /\ \A i \in 1..Len(live) : live'[i] = live[i]
    <3>1. live \in Seq(DOMAIN pools') /\ p \in DOMAIN pools'
      BY <2>4 DEF RuntimesTypeOK
    <3>2. live' = Append(live, p)
      BY <1>6, <2>4
    <3> QED BY <3>1, <3>2
  <2>6. p \in ToSet(live') /\ Len(live) <= Len(live')
    <3>1. Len(live) \in Nat
      BY DEF RuntimesTypeOK
    <3> QED BY <2>5, <3>1 DEF ToSet
  <2>7. /\ pool.proxy = AskedProxy(request[c])
        /\ pool.runtime = IdentityProfiles[request[c].identity].runtime
        /\ pool.waiting = <<>> /\ pool.browser = NoValue /\ pool.state = "open"
    BY <1>3, <2>2 DEF NewPool
  <2>8. IsPool(pool)
    BY <2>2 DEF NewPool, CacheKey, IsPool, PoolFields, PoolStates
  <2>9. \E T : pools' \in Seq(T)
    BY <2>4
  <2>10. /\ at' = [at EXCEPT ![c] = "entering"] /\ via' = [via EXCEPT ![c] = p]
    BY <1>6, <2>4 DEF Move
  <2>11. p \in DOMAIN pools' /\ DOMAIN pools \subseteq DOMAIN pools'
    BY <2>4
  <2>12. \A q \in DOMAIN pools' \ DOMAIN pools :
           /\ IsPool(pools'[q]) /\ pools'[q].waiting = <<>> /\ pools'[q].browser = NoValue
           /\ pools'[q].state = "open" /\ q \in ToSet(live')
    BY <2>4, <2>6, <2>7, <2>8
  <2>13. /\ pools'[p].proxy = AskedProxy(request[c])
         /\ pools'[p].runtime = IdentityProfiles[request[c].identity].runtime
    BY <2>4, <2>7
  <2>14. \A q \in DOMAIN pools' \ DOMAIN pools :
           /\ IsPool(pools'[q]) /\ pools'[q].waiting = <<>> /\ pools'[q].browser = NoValue
           /\ IsOpen(q)' /\ q \in ToSet(live')
    BY <2>12 DEF IsOpen
  <2> HIDE DEF RuntimesIInv
  <2> QED BY <1>1, <2>4, <2>5, <2>6, <2>9, <2>10, <2>11, <2>13, <2>14, EnterPoolStep
<1> QED BY <1>1, <1>4, <1>5, <1>6


\* A step of accesses in the pools: nobody enters one, no pool changes its key.
MovesInThePools ==
  /\ UNCHANGED <<registry, request, session, via, live>>
  /\ \E S : pools' \in Seq(S)
  /\ DOMAIN pools' = DOMAIN pools
  /\ \A p \in DOMAIN pools : SamePool(p)
  /\ at' \in [Callers -> Places]
  /\ \A c \in Callers :
       at'[c] # at[c] => at[c] \in InPool /\ at'[c] \in InPool \cup {"failed", "done"}

LEMMA StepInThePools ==
  ASSUME RuntimesIInv, MovesInThePools, NEW changed \in SUBSET DOMAIN pools,
         DOMAIN on' = Callers,
         \A p \in changed : pools'[p].state \in PoolStates /\ pools'[p].waiting \in Seq(Callers),
         \A p \in DOMAIN pools \ changed : SameState(p) /\ SameQueue(p)
  PROVE  RuntimesTypeOK' /\ RegistryIsComplete' /\ SessionsKeepTheProxy' /\ PoolsFitTheirCallers'
<1> USE DEF RuntimesIInv, MovesInThePools
<1>1. RuntimesTypeOK'
  <2>1. ASSUME NEW p \in DOMAIN pools PROVE IsPool(pools'[p])
    <3>1. pools'[p].state \in PoolStates /\ pools'[p].waiting \in Seq(Callers)
      BY DEF SameState, SameQueue, RuntimesTypeOK, IsPool
    <3> QED BY <3>1 DEF SamePool, RuntimesTypeOK, IsPool
  <2>2. \A p \in DOMAIN pools' : IsPool(pools[p])'
    BY <2>1 DEF IsPool
  <2> QED BY <2>2 DEF RuntimesTypeOK
<1>2. RegistryIsComplete'
  BY DEF RegistryIsComplete, InPool
<1>3. \A c \in Callers : /\ AskedProxy(request[c])' = AskedProxy(request[c])
                         /\ Transport(c)' = Transport(c)
  BY DEF AskedProxy, Transport
<1>4. SessionsKeepTheProxy'
  <2>1. ASSUME NEW c \in Callers
        PROVE  /\ at'[c] = "planned" => request'[c].egress \in DOMAIN registry'.profiles
               /\ at'[c] \in InPool \cup {"allocated", "fetching"} =>
                    ProxyOf(Transport(c)') = AskedProxy(request[c])'
    <3>1. CASE at'[c] = at[c]
      BY <1>3, <3>1 DEF SessionsKeepTheProxy
    <3>2. CASE at'[c] # at[c]
      BY <1>3, <3>2 DEF SessionsKeepTheProxy, InPool
    <3> QED BY <3>1, <3>2
  <2> QED BY <2>1 DEF SessionsKeepTheProxy
<1>5. PoolsFitTheirCallers'
  <2>1. ASSUME NEW c \in Callers, at'[c] \in InPool
        PROVE  /\ via'[c] \in DOMAIN pools'
               /\ pools'[via'[c]].proxy = AskedProxy(request[c])'
               /\ pools'[via'[c]].runtime = IdentityProfiles[request'[c].identity].runtime
    <3>1. at[c] \in InPool
      BY <2>1
    <3> QED BY <1>3, <3>1 DEF PoolsFitTheirCallers, SamePool
  <2> QED BY <2>1 DEF PoolsFitTheirCallers
<1> QED BY <1>1, <1>2, <1>4, <1>5

\* A step of accesses that stops no pool: browsers with the options of their pools, under
\* the accesses that are on them; work begins in open pools only.
LEMMA WorkInThePools ==
  ASSUME RuntimesIInv, MovesInThePools, stopping' = stopping,
         \A p \in DOMAIN pools :
           /\ SameState(p)
           /\ pools'[p].browser \in {NoValue, LaunchOptions(pools[p])}
           /\ pools[p].state = "stopped" /\ pools'[p].browser # NoValue => pools[p].late # {},
         \A c \in Callers :
           /\ at'[c] \in OnABrowser => on'[c] = LaunchOptions(pools[via[c]])
           /\ at'[c] \in Allocating => at[c] \in Allocating \/ IsOpen(via[c])
           /\ at'[c] = "waiting" => at[c] = "waiting" \/ IsOpen(via[c])
  PROVE  BrowsersFit' /\ ClosingInOrder' /\ LateOnesAreNoted' /\ NoPoolIsLost'
<1> USE DEF RuntimesIInv, MovesInThePools
<1>1. \A p \in DOMAIN pools : LaunchOptions(pools'[p]) = LaunchOptions(pools[p])
  BY DEF LaunchOptions, SamePool
<1>2. ASSUME NEW c \in Callers, at'[c] \in InPool
      PROVE  at[c] \in InPool /\ via'[c] = via[c] /\ via[c] \in DOMAIN pools
  BY <1>2 DEF PoolsFitTheirCallers
<1>3. OnABrowser \subseteq InPool /\ Allocating \subseteq InPool /\ "waiting" \in InPool
  BY DEF OnABrowser, Allocating, InPool
<1>4. BrowsersFit'
  <2>1. ASSUME NEW p \in DOMAIN pools'
        PROVE  pools'[p].browser \in {NoValue, LaunchOptions(pools'[p])}
    BY <1>1
  <2>2. ASSUME NEW c \in Callers, at'[c] \in OnABrowser
        PROVE  on'[c] = LaunchOptions(pools'[via'[c]])
    <3>1. via'[c] = via[c] /\ via[c] \in DOMAIN pools
      BY <1>2, <1>3, <2>2
    <3> QED BY <1>1, <2>2, <3>1
  <2> QED BY <2>1, <2>2 DEF BrowsersFit, LaunchOptions
<1>5. ClosingInOrder'
  <2>1. \A i \in 1..stopping : live[i] \in DOMAIN pools
    BY DEF ClosingInOrder, RuntimesTypeOK
  <2> QED BY <2>1 DEF ClosingInOrder, SameState
<1>6. LateOnesAreNoted'
  <2>1. ASSUME NEW c \in Callers, at'[c] \in Allocating, pools'[via'[c]].state = "stopped"
        PROVE  pools'[via'[c]].late # {}
    <3>1. via'[c] = via[c] /\ via[c] \in DOMAIN pools
      BY <1>2, <1>3, <2>1
    <3>2. pools[via[c]].state = "stopped" /\ pools'[via[c]].late = pools[via[c]].late
      BY <2>1, <3>1 DEF SameState
    <3>3. at[c] \in Allocating
      BY <2>1, <3>2 DEF IsOpen
    <3> QED BY <3>1, <3>2, <3>3 DEF LateOnesAreNoted
  <2> QED BY <2>1 DEF LateOnesAreNoted
<1>7. NoPoolIsLost'
  <2>1. \A p \in DOMAIN pools' :
          /\ pools'[p].state # "stopped" => p \in ToSet(live')
          /\ pools'[p].state = "stopped" /\ pools'[p].browser # NoValue => pools'[p].late # {}
    BY DEF NoPoolIsLost, SameState
  <2>2. ASSUME NEW c \in Callers, at'[c] = "waiting" PROVE pools'[via'[c]].state = "open"
    <3>1. via'[c] = via[c] /\ via[c] \in DOMAIN pools
      BY <1>2, <1>3, <2>2
    <3>2. pools[via[c]].state = "open"
      BY <2>2, <3>1 DEF NoPoolIsLost, IsOpen
    <3> QED BY <3>1, <3>2 DEF SameState
  <2> QED BY <2>1, <2>2 DEF NoPoolIsLost, IsOpen, ToSet
<1> QED BY <1>4, <1>5, <1>6, <1>7

\* Queues that do not change, and nobody who waits moves.
LEMMA QueuesAreKept ==
  ASSUME RuntimesIInv, via' = via, DOMAIN pools' = DOMAIN pools,
         \A p \in DOMAIN pools : SameQueue(p),
         \A c \in Callers : at[c] = "waiting" => at'[c] = "waiting"
  PROVE  QueuesWait'
<1>1. \A p \in DOMAIN pools : pools[p].waiting \in Seq(Callers)
  BY DEF RuntimesIInv, RuntimesTypeOK, IsPool
<1>2. \A p \in DOMAIN pools : \A i \in DOMAIN pools[p].waiting : pools[p].waiting[i] \in Callers
  BY <1>1
<1> QED BY <1>2 DEF RuntimesIInv, QueuesWait, SameQueue

\* No access acquires a browser.
LEMMA ServicesAreKept ==
  ASSUME RuntimesIInv, MovesInThePools, stopping' = stopping,
         \A p \in DOMAIN pools : SameState(p) /\ SameBrowser(p),
         \A c \in Callers :
           /\ at'[c] \in OnABrowser => at[c] \in OnABrowser /\ on'[c] = on[c]
           /\ at'[c] \in Allocating => at[c] \in Allocating
           /\ at'[c] = "waiting" => at[c] = "waiting" \/ IsOpen(via[c])
  PROVE  BrowsersFit' /\ ClosingInOrder' /\ LateOnesAreNoted' /\ NoPoolIsLost'
<1>1. \A p \in DOMAIN pools : pools'[p].browser \in {NoValue, LaunchOptions(pools[p])}
  BY DEF RuntimesIInv, BrowsersFit, SameBrowser
<1>2. \A c \in Callers : at'[c] \in OnABrowser => on'[c] = LaunchOptions(pools[via[c]])
  BY DEF RuntimesIInv, BrowsersFit
<1>3. \A p \in DOMAIN pools : pools[p].state = "stopped" /\ pools'[p].browser # NoValue =>
                                pools[p].late # {}
  BY DEF RuntimesIInv, NoPoolIsLost, SameBrowser
<1>4. \A c \in Callers :
        /\ at'[c] \in Allocating => at[c] \in Allocating \/ IsOpen(via[c])
        /\ at'[c] = "waiting" => at[c] = "waiting" \/ IsOpen(via[c])
  OBVIOUS
<1> QED BY <1>1, <1>2, <1>3, <1>4, WorkInThePools

LEMMA TakeSlotStep ==
  ASSUME RuntimesIInv, NEW c \in Callers, TakeSlot(c)
  PROVE  RuntimesIInv'
<1> DEFINE p == via[c]
<1>1. /\ UNCHANGED <<registry, request, session, via, live, stopping>>
      /\ at[c] = "entering" /\ p \in DOMAIN pools
      /\ \E S : pools' \in Seq(S)
      /\ DOMAIN pools' = DOMAIN pools
      /\ \A q \in DOMAIN pools : SamePool(q) /\ SameState(q) /\ SameBrowser(q)
      /\ \/ /\ at' = [at EXCEPT ![c] = "waiting"]
            /\ pools'[p].waiting = Append(pools[p].waiting, c)
            /\ \A q \in DOMAIN pools \ {p} : SameQueue(q)
         \/ /\ \E place \in {"failed", "opening"} : at' = [at EXCEPT ![c] = place]
            /\ \A q \in DOMAIN pools : SameQueue(q)
      /\ at'[c] = "waiting" => IsOpen(p)
      /\ UNCHANGED on
  BY TakeSlotEffect
<1>2. PICK place \in {"failed", "opening", "waiting"} : at' = [at EXCEPT ![c] = place]
  BY <1>1
<1>3. at \in [Callers -> Places] /\ at[c] \in InPool /\ p \in DOMAIN pools
  BY <1>1 DEF RuntimesIInv, RuntimesTypeOK, InPool
<1>4. \A d \in Callers : at'[d] = IF d = c THEN place ELSE at[d]
  BY <1>2, <1>3
<1>5. MovesInThePools
  <2>1. at' \in [Callers -> Places]
    BY <1>2, <1>3 DEF Places
  <2>2. place \in InPool \cup {"failed", "done"}
    BY DEF InPool
  <2> QED BY <1>1, <1>3, <1>4, <2>1, <2>2 DEF MovesInThePools
<1>6. \A q \in DOMAIN pools : pools[q].waiting \in Seq(Callers)
  BY DEF RuntimesIInv, RuntimesTypeOK, IsPool
<1>7. \A q \in DOMAIN pools : \A i \in DOMAIN pools[q].waiting : pools[q].waiting[i] \in Callers \ {c}
  BY <1>1, <1>6 DEF RuntimesIInv, QueuesWait
<1>8. RuntimesTypeOK' /\ RegistryIsComplete' /\ SessionsKeepTheProxy' /\ PoolsFitTheirCallers'
  <2>1. pools'[p].waiting \in Seq(Callers)
    <3>1. PICK s \in Seq(Callers) : s = pools[p].waiting
      BY <1>1, <1>6
    <3>2. pools'[p].waiting = Append(s, c) \/ pools'[p].waiting = s
      BY <1>1, <3>1 DEF SameQueue
    <3> QED BY <3>2
  <2>2. pools'[p].state \in PoolStates /\ DOMAIN on' = Callers
    BY <1>1 DEF SameState, RuntimesIInv, RuntimesTypeOK, IsPool
  <2>3. \A q \in DOMAIN pools \ {p} : SameState(q) /\ SameQueue(q)
    BY <1>1
  <2> HIDE DEF p
  <2>4. \A q \in {p} : pools'[q].state \in PoolStates /\ pools'[q].waiting \in Seq(Callers)
    BY <2>1, <2>2
  <2>5. {p} \in SUBSET DOMAIN pools
    BY <1>1
  <2> QED BY <1>5, <2>2, <2>3, <2>4, <2>5, StepInThePools
<1>9. BrowsersFit' /\ ClosingInOrder' /\ LateOnesAreNoted' /\ NoPoolIsLost'
  <2>1. \A d \in Callers :
          /\ at'[d] \in OnABrowser => at[d] \in OnABrowser /\ on'[d] = on[d]
          /\ at'[d] \in Allocating => at[d] \in Allocating
          /\ at'[d] = "waiting" => at[d] = "waiting" \/ IsOpen(via[d])
    BY <1>1, <1>4 DEF OnABrowser, Allocating
  <2> HIDE DEF p
  <2> QED BY <1>1, <1>5, <2>1, ServicesAreKept
<1>10. QueuesWait'
  <2>1. ASSUME NEW q \in DOMAIN pools, SameQueue(q)
        PROVE  /\ \A i \in DOMAIN pools'[q].waiting :
                    at'[pools'[q].waiting[i]] = "waiting" /\ via'[pools'[q].waiting[i]] = q
               /\ \A i, j \in DOMAIN pools'[q].waiting :
                    i # j => pools'[q].waiting[i] # pools'[q].waiting[j]
    BY <1>1, <1>4, <1>7, <2>1 DEF RuntimesIInv, QueuesWait, SameQueue
  <2>2. ASSUME at' = [at EXCEPT ![c] = "waiting"],
               pools'[p].waiting = Append(pools[p].waiting, c)
        PROVE  /\ \A i \in DOMAIN pools'[p].waiting :
                    at'[pools'[p].waiting[i]] = "waiting" /\ via'[pools'[p].waiting[i]] = p
               /\ \A i, j \in DOMAIN pools'[p].waiting :
                    i # j => pools'[p].waiting[i] # pools'[p].waiting[j]
    <3>1. PICK s \in Seq(Callers) : s = pools[p].waiting
      BY <1>1, <1>6
    <3>2. PICK t : t = Append(s, c)
      OBVIOUS
    <3>3. /\ pools'[p].waiting = t
          /\ DOMAIN t = 1..(Len(s) + 1) /\ DOMAIN s = 1..Len(s) /\ Len(s) \in Nat
          /\ t[Len(s) + 1] = c /\ \A i \in 1..Len(s) : t[i] = s[i]
      BY <2>2, <3>1, <3>2
    <3>4. /\ \A i \in DOMAIN s : s[i] \in Callers \ {c} /\ at[s[i]] = "waiting" /\ via[s[i]] = p
          /\ \A i, j \in DOMAIN s : i # j => s[i] # s[j]
      BY <1>1, <1>7, <3>1 DEF RuntimesIInv, QueuesWait
    <3>5. \A i \in DOMAIN t : (i \in DOMAIN s /\ t[i] = s[i]) \/ (i = Len(s) + 1 /\ t[i] = c)
      BY <3>3
    <3>6. at'[c] = "waiting" /\ \A d \in Callers \ {c} : at'[d] = at[d]
      BY <1>4, <1>3, <2>2
    <3>7. \A i \in DOMAIN t : at'[t[i]] = "waiting" /\ via'[t[i]] = p
      BY <1>1, <3>4, <3>5, <3>6
    <3>8. \A i, j \in DOMAIN t : i # j => t[i] # t[j]
      BY <3>4, <3>5
    <3> QED BY <3>3, <3>7, <3>8
  <2> QED BY <1>1, <2>1, <2>2 DEF QueuesWait
<1> QED BY <1>8, <1>9, <1>10 DEF RuntimesIInv


\* An access leaves its pool, and the first of the queue takes its slot.
LEMMA GiveBackStep ==
  ASSUME RuntimesIInv, NEW c \in Callers, at[c] \in {"opening", "browsing"} \cup Allocating,
         NEW place \in {"failed", "done"}, GiveBack(c, place),
         UNCHANGED <<registry, request, session, via, live, stopping>>,
         DOMAIN on' = Callers, \A d \in Callers \ {c} : on'[d] = on[d]
  PROVE  RuntimesIInv'
<1> DEFINE p == via[c]
<1>1. at[c] \in InPool /\ at[c] # "waiting" /\ at \in [Callers -> Places]
  BY DEF RuntimesIInv, RuntimesTypeOK, InPool, Allocating
<1>2. /\ p \in DOMAIN pools
      /\ \E S : pools' \in Seq(S)
      /\ DOMAIN pools' = DOMAIN pools
      /\ \A q \in DOMAIN pools : SamePool(q) /\ SameState(q) /\ SameBrowser(q)
      /\ \/ /\ at' = [at EXCEPT ![c] = place]
            /\ \A q \in DOMAIN pools : SameQueue(q)
         \/ /\ pools[p].waiting # <<>>
            /\ at' = [w \in Callers |->
                        IF w = c THEN place
                        ELSE IF w = Head(pools[p].waiting) THEN "opening" ELSE at[w]]
            /\ pools'[p].waiting = Tail(pools[p].waiting)
            /\ \A q \in DOMAIN pools \ {p} : SameQueue(q)
  BY <1>1, GiveBackEffect
<1>3. \A q \in DOMAIN pools : pools[q].waiting \in Seq(Callers)
  BY DEF RuntimesIInv, RuntimesTypeOK, IsPool
<1>4. \A q \in DOMAIN pools : \A i \in DOMAIN pools[q].waiting :
        /\ pools[q].waiting[i] \in Callers \ {c}
        /\ at[pools[q].waiting[i]] = "waiting" /\ via[pools[q].waiting[i]] = q
  BY <1>1, <1>3 DEF RuntimesIInv, QueuesWait
<1>5. pools[p].waiting # <<>> =>
        1 \in DOMAIN pools[p].waiting /\ Head(pools[p].waiting) = pools[p].waiting[1]
  BY <1>2, <1>3
<1>6. /\ MovesInThePools
      /\ \A d \in Callers : at'[d] \in OnABrowser \cup Allocating \cup {"waiting"} =>
           at'[d] = at[d] /\ d # c
  <2>1. CASE at' = [at EXCEPT ![c] = place]
    <3>1. \A d \in Callers : at'[d] = IF d = c THEN place ELSE at[d]
      BY <1>1, <2>1
    <3>2. at' \in [Callers -> Places]
      BY <1>1, <2>1 DEF Places
    <3>3. \A d \in Callers : at'[d] \in OnABrowser \cup Allocating \cup {"waiting"} =>
            at'[d] = at[d] /\ d # c
      BY <3>1 DEF OnABrowser, Allocating
    <3> QED BY <1>1, <1>2, <3>1, <3>2, <3>3 DEF MovesInThePools
  <2>2. CASE /\ pools[p].waiting # <<>>
             /\ at' = [w \in Callers |->
                         IF w = c THEN place
                         ELSE IF w = Head(pools[p].waiting) THEN "opening" ELSE at[w]]
    <3>1. PICK w \in Callers : w = Head(pools[p].waiting) /\ at[w] = "waiting"
      BY <1>2, <1>4, <1>5, <2>2
    <3>2. at' = [d \in Callers |-> IF d = c THEN place
                                   ELSE IF d = w THEN "opening" ELSE at[d]]
      BY <2>2, <3>1
    <3>3. at' \in [Callers -> Places]
      BY <1>1, <3>2 DEF Places
    <3>4. \A d \in Callers :
            at'[d] # at[d] => at[d] \in InPool /\ at'[d] \in InPool \cup {"failed", "done"}
      BY <1>1, <3>1, <3>2 DEF InPool
    <3>5. \A d \in Callers : at'[d] \in OnABrowser \cup Allocating \cup {"waiting"} =>
            at'[d] = at[d] /\ d # c
      BY <3>2 DEF OnABrowser, Allocating
    <3> QED BY <1>2, <3>3, <3>4, <3>5 DEF MovesInThePools
  <2> QED BY <1>2, <2>1, <2>2
<1>7. RuntimesTypeOK' /\ RegistryIsComplete' /\ SessionsKeepTheProxy' /\ PoolsFitTheirCallers'
  <2>1. pools'[p].waiting \in Seq(Callers)
    <3>1. PICK s \in Seq(Callers) : s = pools[p].waiting
      BY <1>2, <1>3
    <3>2. (s # <<>> /\ pools'[p].waiting = Tail(s)) \/ pools'[p].waiting = s
      BY <1>2, <3>1 DEF SameQueue
    <3>3. s # <<>> => Tail(s) \in Seq(Callers)
      OBVIOUS
    <3> QED BY <3>2, <3>3
  <2>2. pools'[p].state \in PoolStates
    BY <1>2 DEF SameState, RuntimesIInv, RuntimesTypeOK, IsPool
  <2>3. \A q \in DOMAIN pools \ {p} : SameState(q) /\ SameQueue(q)
    BY <1>2
  <2>4. p \in DOMAIN pools
    BY <1>2
  <2> HIDE DEF p
  <2>5. \A q \in {p} : pools'[q].state \in PoolStates /\ pools'[q].waiting \in Seq(Callers)
    BY <2>1, <2>2
  <2>6. {p} \in SUBSET DOMAIN pools
    BY <2>4
  <2> QED BY <1>6, <2>3, <2>5, <2>6, StepInThePools
<1>8. BrowsersFit' /\ ClosingInOrder' /\ LateOnesAreNoted' /\ NoPoolIsLost'
  <2>1. \A d \in Callers :
          /\ at'[d] \in OnABrowser => at[d] \in OnABrowser /\ on'[d] = on[d]
          /\ at'[d] \in Allocating => at[d] \in Allocating
          /\ at'[d] = "waiting" => at[d] = "waiting" \/ IsOpen(via[d])
    BY <1>6
  <2> HIDE DEF p
  <2> QED BY <1>2, <1>6, <2>1, ServicesAreKept
<1>9. QueuesWait'
  <2> DEFINE Waits(q) ==
        /\ \A i \in DOMAIN pools'[q].waiting :
             at'[pools'[q].waiting[i]] = "waiting" /\ via'[pools'[q].waiting[i]] = q
        /\ \A i, j \in DOMAIN pools'[q].waiting :
             i # j => pools'[q].waiting[i] # pools'[q].waiting[j]
  <2>1. CASE at' = [at EXCEPT ![c] = place] /\ \A q \in DOMAIN pools : SameQueue(q)
    <3>1. \A d \in Callers \ {c} : at'[d] = at[d]
      BY <1>1, <2>1
    <3>2. ASSUME NEW q \in DOMAIN pools PROVE Waits(q)
      BY <1>4, <2>1, <3>1, <3>2 DEF RuntimesIInv, QueuesWait, SameQueue
    <3> QED BY <1>2, <3>2 DEF QueuesWait
  <2>2. CASE /\ pools[p].waiting # <<>>
             /\ at' = [w \in Callers |->
                         IF w = c THEN place
                         ELSE IF w = Head(pools[p].waiting) THEN "opening" ELSE at[w]]
             /\ pools'[p].waiting = Tail(pools[p].waiting)
             /\ \A q \in DOMAIN pools \ {p} : SameQueue(q)
    <3>1. PICK w \in Callers : /\ w = Head(pools[p].waiting) /\ w = pools[p].waiting[1]
                               /\ via[w] = p
      BY <1>2, <1>4, <1>5, <2>2
    <3>2. \A d \in Callers \ {c, w} : at'[d] = at[d]
      BY <2>2, <3>1
    <3>3. ASSUME NEW q \in DOMAIN pools \ {p} PROVE Waits(q)
      <4>1. \A i \in DOMAIN pools[q].waiting : pools[q].waiting[i] \in Callers \ {c, w}
        BY <1>4, <3>1, <3>3
      <4>2. pools'[q].waiting = pools[q].waiting
        BY <2>2, <3>3 DEF SameQueue
      <4> QED BY <1>4, <3>2, <3>3, <4>1, <4>2 DEF RuntimesIInv, QueuesWait
    <3>4. Waits(p)
      <4>1. PICK s \in Seq(Callers) : s = pools[p].waiting
        BY <1>2, <1>3
      <4>2. PICK t : t = Tail(s)
        OBVIOUS
      <4>3. /\ pools'[p].waiting = t /\ s # <<>>
            /\ DOMAIN t = 1..(Len(s) - 1) /\ DOMAIN s = 1..Len(s) /\ Len(s) \in Nat
            /\ \A i \in 1..(Len(s) - 1) : t[i] = s[i + 1]
        BY <2>2, <4>1, <4>2
      <4>4. /\ \A i \in DOMAIN s : s[i] \in Callers \ {c} /\ at[s[i]] = "waiting" /\ via[s[i]] = p
            /\ \A i, j \in DOMAIN s : i # j => s[i] # s[j]
            /\ w = s[1]
        BY <1>2, <1>4, <3>1, <4>1 DEF RuntimesIInv, QueuesWait
      <4>5. \A i \in DOMAIN t : i + 1 \in DOMAIN s /\ t[i] = s[i + 1] /\ i + 1 # 1 /\ 1 \in DOMAIN s
        BY <4>3
      <4>6. \A i \in DOMAIN t : t[i] \in Callers \ {c, w} /\ at[t[i]] = "waiting" /\ via[t[i]] = p
        BY <4>4, <4>5
      <4>7. \A i \in DOMAIN t : at'[t[i]] = "waiting" /\ via'[t[i]] = p
        BY <3>2, <4>6
      <4>8. \A i, j \in DOMAIN t : i # j => t[i] # t[j]
        BY <4>3, <4>4, <4>5
      <4> QED BY <4>3, <4>7, <4>8
    <3> QED BY <1>2, <3>3, <3>4 DEF QueuesWait
  <2> QED BY <1>2, <2>1, <2>2
<1> QED BY <1>7, <1>8, <1>9 DEF RuntimesIInv

\* An access goes on with its allocation: the queues and the states of the pools are left.
LEMMA AllocationStep ==
  ASSUME RuntimesIInv, NEW c \in Callers, at[c] \in {"opening"} \cup Allocating,
         NEW place \in {"browsing"} \cup Allocating, at' = [at EXCEPT ![c] = place],
         at[c] \in Allocating \/ IsOpen(via[c]),
         UNCHANGED <<registry, request, session, via, live, stopping>>,
         DOMAIN on' = Callers, \A d \in Callers \ {c} : on'[d] = on[d],
         place \in OnABrowser => on'[c] = LaunchOptions(pools[via[c]]),
         \E S : pools' \in Seq(S), DOMAIN pools' = DOMAIN pools,
         \A p \in DOMAIN pools : SamePool(p) /\ SameState(p) /\ SameQueue(p),
         \A p \in DOMAIN pools \ {via[c]} : SameBrowser(p),
         pools'[via[c]].browser \in {pools[via[c]].browser, NoValue, LaunchOptions(pools[via[c]])},
         via[c] \in DOMAIN pools
  PROVE  RuntimesIInv'
<1>1. at \in [Callers -> Places]
  BY DEF RuntimesIInv, RuntimesTypeOK
<1>2. \A d \in Callers : at'[d] = IF d = c THEN place ELSE at[d]
  BY <1>1
<1>3. MovesInThePools
  <2>1. at' \in [Callers -> Places]
    BY <1>1 DEF Places, Allocating
  <2>2. at[c] \in InPool /\ place \in InPool
    BY DEF InPool, Allocating
  <2> QED BY <1>2, <2>1, <2>2 DEF MovesInThePools
<1>4. RuntimesTypeOK' /\ RegistryIsComplete' /\ SessionsKeepTheProxy' /\ PoolsFitTheirCallers'
  <2>1. {} \in SUBSET DOMAIN pools
    OBVIOUS
  <2> QED BY <1>3, <2>1, StepInThePools
<1>5. QueuesWait'
  <2>1. \A d \in Callers : at[d] = "waiting" => at'[d] = "waiting"
    BY <1>2 DEF Allocating
  <2> QED BY <2>1, QueuesAreKept
<1>6. BrowsersFit' /\ ClosingInOrder' /\ LateOnesAreNoted' /\ NoPoolIsLost'
  <2>1. \A d \in Callers :
          /\ at'[d] \in OnABrowser => on'[d] = LaunchOptions(pools[via[d]])
          /\ at'[d] \in Allocating => at[d] \in Allocating \/ IsOpen(via[d])
          /\ at'[d] = "waiting" => at[d] = "waiting" \/ IsOpen(via[d])
    BY <1>2 DEF RuntimesIInv, BrowsersFit, Allocating
  <2>2. \A p \in DOMAIN pools : pools'[p].browser \in {NoValue, LaunchOptions(pools[p])}
    BY DEF RuntimesIInv, BrowsersFit, SameBrowser
  <2>3. ASSUME NEW p \in DOMAIN pools, pools[p].state = "stopped", pools'[p].browser # NoValue
        PROVE  pools[p].late # {}
    <3>1. CASE p = via[c]
      BY <2>3, <3>1 DEF RuntimesIInv, LateOnesAreNoted, IsOpen
    <3>2. CASE p # via[c]
      BY <2>3, <3>2 DEF RuntimesIInv, NoPoolIsLost, SameBrowser
    <3> QED BY <3>1, <3>2
  <2> QED BY <1>3, <2>1, <2>2, <2>3, WorkInThePools
<1> QED BY <1>4, <1>5, <1>6 DEF RuntimesIInv

\* An access that has a slot is in a pool that was made.
LEMMA PoolOfTheSlot ==
  ASSUME RuntimesIInv, NEW c \in Callers, at[c] \in {"opening"} \cup Allocating
  PROVE  via[c] \in DOMAIN pools /\ DOMAIN on = Callers
  BY DEF RuntimesIInv, RuntimesTypeOK, PoolsFitTheirCallers, InPool, Allocating

LEMMA AllocateStep ==
  ASSUME RuntimesIInv, NEW c \in Callers, Allocate(c)
  PROVE  RuntimesIInv'
<1>1. /\ at[c] = "opening"
      /\ UNCHANGED <<registry, request, session, via, on, live, stopping>>
  BY DEF Allocate
<1>2. via[c] \in DOMAIN pools /\ DOMAIN on = Callers
  BY <1>1, PoolOfTheSlot
<1>3. CASE ~IsOpen(via[c])
  <2>1. GiveBack(c, "failed")
    BY <1>3 DEF Allocate
  <2> QED BY <1>1, <1>2, <2>1, GiveBackStep
<1>4. CASE IsOpen(via[c])
  <2>1. at' = [at EXCEPT ![c] = "launching"] /\ pools' = pools
    BY <1>4 DEF Allocate, Move
  <2>2. "launching" \in Allocating /\ "launching" \notin OnABrowser
    BY DEF Allocating, OnABrowser
  <2>3. /\ \E S : pools' \in Seq(S)
        /\ DOMAIN pools' = DOMAIN pools
        /\ \A p \in DOMAIN pools : SamePool(p) /\ SameState(p) /\ SameQueue(p) /\ SameBrowser(p)
    BY <2>1 DEF RuntimesIInv, RuntimesTypeOK, SamePool, SameState, SameQueue, SameBrowser
  <2> QED BY <1>1, <1>2, <1>4, <2>1, <2>2, <2>3, AllocationStep
<1> QED BY <1>3, <1>4

LEMMA LaunchStep ==
  ASSUME RuntimesIInv, NEW c \in Callers, Launch(c)
  PROVE  RuntimesIInv'
<1>1. /\ at[c] \in {"launching", "relaunching"}
      /\ UNCHANGED <<registry, request, session, via, live, stopping>>
  BY DEF Launch
<1>2. at[c] \in Allocating
  BY <1>1 DEF Allocating
<1>3. via[c] \in DOMAIN pools /\ DOMAIN on = Callers
  BY <1>2, PoolOfTheSlot
<1>4. PICK options : options = LaunchOptions(pools[via[c]])
  OBVIOUS
<1>5. pools[via[c]].browser \in {NoValue, options}
  BY <1>3, <1>4 DEF RuntimesIInv, BrowsersFit
<1>6. PICK browser :
        /\ browser = IF pools[via[c]].browser = NoValue THEN options ELSE pools[via[c]].browser
        /\ pools' = [pools EXCEPT ![via[c]].browser = browser]
        /\ on' = [on EXCEPT ![c] = browser]
  BY <1>4 DEF Launch
<1>7. browser = options
  BY <1>5, <1>6
<1>8. DOMAIN on' = Callers /\ on'[c] = options /\ \A d \in Callers \ {c} : on'[d] = on[d]
  BY <1>3, <1>6, <1>7
<1>9. PICK place \in {"creating", "recreating"} : at' = [at EXCEPT ![c] = place]
  BY DEF Launch, Move
<1>10. place \in Allocating
  BY DEF Allocating
<1>11. /\ \E S : pools' \in Seq(S)
       /\ DOMAIN pools' = DOMAIN pools
       /\ \A q \in DOMAIN pools : SamePool(q) /\ SameState(q) /\ SameQueue(q)
       /\ \A q \in DOMAIN pools \ {via[c]} : SameBrowser(q)
       /\ pools'[via[c]].browser = options
  BY <1>3, <1>6, <1>7, BrowserEffect DEF RuntimesIInv
<1> QED BY <1>1, <1>2, <1>3, <1>4, <1>8, <1>9, <1>10, <1>11, AllocationStep

LEMMA OpenPageStep ==
  ASSUME RuntimesIInv, NEW c \in Callers, OpenPage(c)
  PROVE  RuntimesIInv'
<1>1. /\ at[c] \in {"creating", "recreating"} /\ at' = [at EXCEPT ![c] = "browsing"]
      /\ UNCHANGED <<registry, request, session, via, on, pools, live, stopping>>
  BY DEF OpenPage, Move
<1>2. at[c] \in Allocating
  BY <1>1 DEF Allocating
<1>3. via[c] \in DOMAIN pools /\ DOMAIN on = Callers
  BY <1>2, PoolOfTheSlot
<1>4. on[c] = LaunchOptions(pools[via[c]])
  BY <1>1 DEF RuntimesIInv, BrowsersFit, OnABrowser
<1>5. /\ \E S : pools' \in Seq(S)
      /\ DOMAIN pools' = DOMAIN pools
      /\ \A p \in DOMAIN pools : SamePool(p) /\ SameState(p) /\ SameQueue(p) /\ SameBrowser(p)
  BY <1>1 DEF RuntimesIInv, RuntimesTypeOK, SamePool, SameState, SameQueue, SameBrowser
<1> QED BY <1>1, <1>2, <1>3, <1>4, <1>5, AllocationStep

LEMMA AllocationFailsStep ==
  ASSUME RuntimesIInv, NEW c \in Callers, AllocationFails(c)
  PROVE  RuntimesIInv'
<1>1. /\ at[c] \in Allocating /\ on' = [on EXCEPT ![c] = NoValue]
      /\ UNCHANGED <<registry, request, session, via, live, stopping>>
      /\ \/ GiveBack(c, "failed")
         \/ /\ Move(c, "relaunching")
            /\ pools' = [pools EXCEPT ![via[c]].browser = NoValue]
  BY DEF AllocationFails
<1>2. via[c] \in DOMAIN pools /\ DOMAIN on = Callers
  BY <1>1, PoolOfTheSlot
<1>3. DOMAIN on' = Callers /\ \A d \in Callers \ {c} : on'[d] = on[d]
  BY <1>1, <1>2
<1>4. CASE GiveBack(c, "failed")
  BY <1>1, <1>3, <1>4, GiveBackStep
<1>5. CASE /\ Move(c, "relaunching")
           /\ pools' = [pools EXCEPT ![via[c]].browser = NoValue]
  <2>1. /\ \E S : pools' \in Seq(S)
        /\ DOMAIN pools' = DOMAIN pools
        /\ \A q \in DOMAIN pools : SamePool(q) /\ SameState(q) /\ SameQueue(q)
        /\ \A q \in DOMAIN pools \ {via[c]} : SameBrowser(q)
        /\ pools'[via[c]].browser = NoValue
    BY <1>2, <1>5, BrowserEffect DEF RuntimesIInv
  <2>2. at' = [at EXCEPT ![c] = "relaunching"]
    BY <1>5 DEF Move
  <2>3. "relaunching" \in Allocating /\ "relaunching" \notin OnABrowser
    BY DEF Allocating, OnABrowser
  <2> QED BY <1>1, <1>2, <1>3, <2>1, <2>2, <2>3, AllocationStep
<1> QED BY <1>1, <1>4, <1>5

LEMMA ClosePageStep ==
  ASSUME RuntimesIInv, NEW c \in Callers, ClosePage(c)
  PROVE  RuntimesIInv'
<1>1. /\ at[c] = "browsing" /\ GiveBack(c, "done") /\ on' = [on EXCEPT ![c] = NoValue]
      /\ UNCHANGED <<registry, request, session, via, live, stopping>>
  BY DEF ClosePage
<1>2. DOMAIN on = Callers
  BY DEF RuntimesIInv, RuntimesTypeOK
<1>3. DOMAIN on' = Callers /\ \A d \in Callers \ {c} : on'[d] = on[d]
  BY <1>1, <1>2
<1> QED BY <1>1, <1>3, GiveBackStep

LEMMA CloseStep == ASSUME RuntimesIInv, Close PROVE RuntimesIInv'
<1>1. /\ stopping' = 0
      /\ UNCHANGED <<registry, at, request, session, via, on, pools, live, allocated>>
  BY DEF Close
<1>2. ClosingInOrder'
  BY <1>1 DEF RuntimesIInv, RuntimesTypeOK, ClosingInOrder
<1>3. RuntimesTypeOK' /\ RegistryIsComplete' /\ SessionsKeepTheProxy' /\ PoolsFitTheirCallers'
  BY <1>1 DEF RuntimesIInv, RuntimesTypeOK, RegistryIsComplete, SessionsKeepTheProxy,
              PoolsFitTheirCallers, AskedProxy, Transport
<1>4. QueuesWait' /\ BrowsersFit' /\ LateOnesAreNoted' /\ NoPoolIsLost'
  BY <1>1 DEF RuntimesIInv, QueuesWait, BrowsersFit, LateOnesAreNoted, NoPoolIsLost, IsOpen
<1> QED BY <1>2, <1>3, <1>4 DEF RuntimesIInv

LEMMA StopPoolStep == ASSUME RuntimesIInv, StopPool PROVE RuntimesIInv'
<1>1. PICK p : p = live[stopping + 1]
  OBVIOUS
<1>2. /\ p \in DOMAIN pools /\ IsOpen(p)
      /\ UNCHANGED <<registry, request, session, via, on, live, stopping>>
      /\ \E S : pools' \in Seq(S)
      /\ DOMAIN pools' = DOMAIN pools
      /\ \A q \in DOMAIN pools : SamePool(q) /\ SameBrowser(q)
      /\ pools'[p].state = "stopping" /\ pools'[p].waiting = <<>>
      /\ \A q \in DOMAIN pools \ {p} : SameQueue(q) /\ SameState(q)
      /\ at' = [c \in Callers |->
                  IF at[c] = "waiting" /\ via[c] = p THEN "failed" ELSE at[c]]
  BY <1>1, StopPoolEffect
<1>3. /\ at \in [Callers -> Places] /\ at' \in [Callers -> Places]
      /\ \A c \in Callers : at'[c] = IF at[c] = "waiting" /\ via[c] = p THEN "failed" ELSE at[c]
  BY <1>2 DEF RuntimesIInv, RuntimesTypeOK, Places
<1>4. MovesInThePools
  <2>1. \A c \in Callers :
          at'[c] # at[c] => at[c] \in InPool /\ at'[c] \in InPool \cup {"failed", "done"}
    BY <1>2 DEF InPool
  <2> QED BY <1>2, <1>3, <2>1 DEF MovesInThePools
<1>5. RuntimesTypeOK' /\ RegistryIsComplete' /\ SessionsKeepTheProxy' /\ PoolsFitTheirCallers'
  <2>1. <<>> \in Seq(Callers) /\ "stopping" \in PoolStates
    BY DEF PoolStates
  <2>2. \A q \in {p} : pools'[q].state \in PoolStates /\ pools'[q].waiting \in Seq(Callers)
    BY <1>2, <2>1
  <2>3. {p} \in SUBSET DOMAIN pools
    BY <1>2
  <2>4. DOMAIN on' = Callers
    BY <1>2 DEF RuntimesIInv, RuntimesTypeOK
  <2> QED BY <1>2, <1>4, <2>2, <2>3, <2>4, StepInThePools
<1>6. QueuesWait'
  <2>1. ASSUME NEW q \in DOMAIN pools
        PROVE  /\ \A i \in DOMAIN pools'[q].waiting :
                    at'[pools'[q].waiting[i]] = "waiting" /\ via'[pools'[q].waiting[i]] = q
               /\ \A i, j \in DOMAIN pools'[q].waiting :
                    i # j => pools'[q].waiting[i] # pools'[q].waiting[j]
    <3>1. CASE q = p
      BY <1>2, <3>1
    <3>2. CASE q # p
      <4>1. pools'[q].waiting = pools[q].waiting /\ pools[q].waiting \in Seq(Callers)
        BY <1>2, <3>2 DEF SameQueue, RuntimesIInv, RuntimesTypeOK, IsPool
      <4>2. \A i \in DOMAIN pools[q].waiting : pools[q].waiting[i] \in Callers
        BY <4>1
      <4> QED BY <1>2, <3>2, <4>1, <4>2 DEF RuntimesIInv, QueuesWait
    <3> QED BY <3>1, <3>2
  <2> QED BY <1>2, <2>1 DEF QueuesWait
<1>7. BrowsersFit'
  <2>1. \A q \in DOMAIN pools : LaunchOptions(pools'[q]) = LaunchOptions(pools[q])
    BY <1>2 DEF LaunchOptions, SamePool
  <2>2. ASSUME NEW q \in DOMAIN pools'
        PROVE  pools'[q].browser \in {NoValue, LaunchOptions(pools'[q])}
    BY <1>2, <2>1 DEF RuntimesIInv, BrowsersFit, SameBrowser
  <2>3. ASSUME NEW c \in Callers, at'[c] \in OnABrowser
        PROVE  on'[c] = LaunchOptions(pools'[via'[c]])
    <3>1. at[c] \in OnABrowser /\ via'[c] = via[c] /\ via[c] \in DOMAIN pools
      BY <1>2, <1>3, <2>3 DEF RuntimesIInv, PoolsFitTheirCallers, InPool, OnABrowser
    <3> QED BY <1>2, <2>1, <3>1 DEF RuntimesIInv, BrowsersFit
  <2> QED BY <2>2, <2>3 DEF BrowsersFit, LaunchOptions
<1>8. ClosingInOrder'
  <2>1. \A i \in 1..stopping : live[i] \in DOMAIN pools /\ live[i] # p
    BY <1>2 DEF RuntimesIInv, RuntimesTypeOK, ClosingInOrder, IsOpen
  <2> QED BY <1>2, <2>1 DEF RuntimesIInv, ClosingInOrder, SameState
<1>9. LateOnesAreNoted'
  <2>1. ASSUME NEW c \in Callers, at'[c] \in Allocating, pools'[via'[c]].state = "stopped"
        PROVE  pools'[via'[c]].late # {}
    <3>1. at[c] \in Allocating /\ via'[c] = via[c] /\ via[c] \in DOMAIN pools
      BY <1>2, <1>3, <2>1 DEF RuntimesIInv, PoolsFitTheirCallers, InPool, Allocating
    <3>2. via[c] # p
      BY <1>2, <2>1, <3>1
    <3> QED BY <1>2, <2>1, <3>1, <3>2 DEF RuntimesIInv, LateOnesAreNoted, SameState
  <2> QED BY <2>1 DEF LateOnesAreNoted
<1>10. NoPoolIsLost'
  <2>1. p \in ToSet(live)
    BY <1>2 DEF RuntimesIInv, NoPoolIsLost, IsOpen
  <2>2. ASSUME NEW q \in DOMAIN pools
        PROVE  /\ pools'[q].state # "stopped" => q \in ToSet(live)
               /\ pools'[q].state = "stopped" /\ pools'[q].browser # NoValue =>
                    pools'[q].late # {}
    BY <1>2, <2>1 DEF RuntimesIInv, NoPoolIsLost, SameState, SameBrowser
  <2>3. ASSUME NEW c \in Callers, at'[c] = "waiting" PROVE pools'[via'[c]].state = "open"
    <3>1. at[c] = "waiting" /\ via[c] # p /\ via'[c] = via[c] /\ via[c] \in DOMAIN pools
      BY <1>2, <1>3, <2>3 DEF RuntimesIInv, PoolsFitTheirCallers, InPool
    <3> QED BY <1>2, <3>1 DEF RuntimesIInv, NoPoolIsLost, IsOpen, SameState
  <2> QED BY <1>2, <2>2, <2>3 DEF NoPoolIsLost, IsOpen, ToSet
<1> QED BY <1>5, <1>6, <1>7, <1>8, <1>9, <1>10 DEF RuntimesIInv

LEMMA StopBrowserStep == ASSUME RuntimesIInv, StopBrowser PROVE RuntimesIInv'
<1>1. PICK p : p = live[stopping + 1]
  OBVIOUS
<1>2. /\ stopping \in 0..(Len(live) - 1) /\ p \in DOMAIN pools
      /\ pools[p].state = "stopping" /\ stopping' = stopping + 1
      /\ UNCHANGED <<registry, at, request, session, via, on, live>>
      /\ \E S : pools' \in Seq(S)
      /\ DOMAIN pools' = DOMAIN pools
      /\ \A q \in DOMAIN pools : SamePool(q) /\ SameQueue(q)
      /\ pools'[p].state = "stopped" /\ pools'[p].browser = NoValue
      /\ pools'[p].late = AtWork(p)
      /\ \A q \in DOMAIN pools \ {p} : SameBrowser(q) /\ SameState(q)
  BY <1>1, StopBrowserEffect
<1>3. MovesInThePools
  BY <1>2 DEF MovesInThePools, RuntimesIInv, RuntimesTypeOK
<1>4. RuntimesTypeOK' /\ RegistryIsComplete' /\ SessionsKeepTheProxy' /\ PoolsFitTheirCallers'
  <2>1. \A q \in DOMAIN pools : pools[q].waiting \in Seq(Callers)
    BY DEF RuntimesIInv, RuntimesTypeOK, IsPool
  <2>2. \A q \in {p} : pools'[q].state \in PoolStates /\ pools'[q].waiting \in Seq(Callers)
    BY <1>2, <2>1 DEF PoolStates, SameQueue
  <2>3. {p} \in SUBSET DOMAIN pools
    BY <1>2
  <2>4. DOMAIN on' = Callers
    BY <1>2 DEF RuntimesIInv, RuntimesTypeOK
  <2> QED BY <1>2, <1>3, <2>2, <2>3, <2>4, StepInThePools
<1>5. QueuesWait'
  BY <1>2, QueuesAreKept
<1>6. \A c \in Callers : at[c] \in InPool => via[c] \in DOMAIN pools
  BY DEF RuntimesIInv, PoolsFitTheirCallers
<1>7. BrowsersFit'
  <2>1. \A q \in DOMAIN pools : LaunchOptions(pools'[q]) = LaunchOptions(pools[q])
    BY <1>2 DEF LaunchOptions, SamePool
  <2>2. ASSUME NEW q \in DOMAIN pools'
        PROVE  pools'[q].browser \in {NoValue, LaunchOptions(pools'[q])}
    BY <1>2, <2>1 DEF RuntimesIInv, BrowsersFit, SameBrowser
  <2>3. ASSUME NEW c \in Callers, at'[c] \in OnABrowser
        PROVE  on'[c] = LaunchOptions(pools'[via'[c]])
    BY <1>2, <1>6, <2>1, <2>3 DEF RuntimesIInv, BrowsersFit, InPool, OnABrowser
  <2> QED BY <2>2, <2>3 DEF BrowsersFit, LaunchOptions
<1>8. ClosingInOrder'
  <2>1. live \in Seq(DOMAIN pools) /\ Len(live) \in Nat
    BY DEF RuntimesIInv, RuntimesTypeOK
  <2>2. stopping' \in Int /\ stopping' >= -1 /\ stopping' <= Len(live)
    BY <1>2, <2>1
  <2>3. ASSUME NEW i \in 1..stopping'
        PROVE  pools'[live[i]].state = "stopped"
    <3>1. live[i] \in DOMAIN pools
      BY <2>1, <2>2, <2>3
    <3>2. CASE live[i] = p
      BY <1>2, <3>2
    <3>3. CASE live[i] # p
      <4>1. i \in 1..stopping
        BY <1>1, <1>2, <2>3, <3>3
      <4> QED BY <1>2, <3>1, <3>3, <4>1 DEF RuntimesIInv, ClosingInOrder, SameState
    <3> QED BY <3>2, <3>3
  <2> QED BY <1>2, <2>2, <2>3 DEF ClosingInOrder
<1>9. LateOnesAreNoted'
  <2>1. ASSUME NEW c \in Callers, at[c] \in Allocating, pools'[via[c]].state = "stopped"
        PROVE  pools'[via[c]].late # {}
    <3>1. via[c] \in DOMAIN pools
      BY <1>6, <2>1 DEF InPool, Allocating
    <3>2. CASE via[c] = p
      <4>1. c \in AtWork(p)
        BY <2>1, <3>2 DEF AtWork
      <4> QED BY <1>2, <3>2, <4>1
    <3>3. CASE via[c] # p
      BY <1>2, <2>1, <3>1, <3>3 DEF RuntimesIInv, LateOnesAreNoted, SameState
    <3> QED BY <3>2, <3>3
  <2> QED BY <1>2, <2>1 DEF LateOnesAreNoted
<1>10. NoPoolIsLost'
  <2>1. ASSUME NEW q \in DOMAIN pools
        PROVE  /\ pools'[q].state # "stopped" => q \in ToSet(live)
               /\ pools'[q].state = "stopped" /\ pools'[q].browser # NoValue =>
                    pools'[q].late # {}
    BY <1>2 DEF RuntimesIInv, NoPoolIsLost, SameState, SameBrowser
  <2>2. ASSUME NEW c \in Callers, at[c] = "waiting" PROVE pools'[via[c]].state = "open"
    <3>1. via[c] \in DOMAIN pools /\ pools[via[c]].state = "open"
      BY <1>6, <2>2 DEF RuntimesIInv, NoPoolIsLost, InPool, IsOpen
    <3> QED BY <1>2, <3>1 DEF SameState
  <2> QED BY <1>2, <2>1, <2>2 DEF NoPoolIsLost, IsOpen, ToSet
<1> QED BY <1>4, <1>5, <1>7, <1>8, <1>9, <1>10 DEF RuntimesIInv

LEMMA ClearMapStep == ASSUME RuntimesIInv, ClearMap PROVE RuntimesIInv'
<1>1. /\ stopping = Len(live) /\ live' = <<>> /\ stopping' = -1
      /\ UNCHANGED <<registry, at, request, session, via, on, pools>>
  BY DEF ClearMap
<1>2. live' \in Seq(DOMAIN pools) /\ Len(live') = 0
  BY <1>1
<1>3. ClosingInOrder'
  BY <1>1, <1>2 DEF ClosingInOrder
<1>4. RuntimesTypeOK' /\ RegistryIsComplete' /\ SessionsKeepTheProxy' /\ PoolsFitTheirCallers'
  BY <1>1, <1>2 DEF RuntimesIInv, RuntimesTypeOK, RegistryIsComplete, SessionsKeepTheProxy,
              PoolsFitTheirCallers, AskedProxy, Transport
<1>5. QueuesWait' /\ BrowsersFit' /\ LateOnesAreNoted'
  BY <1>1 DEF RuntimesIInv, QueuesWait, BrowsersFit, LateOnesAreNoted
<1>6. NoPoolIsLost'
  <2>1. live \in Seq(DOMAIN pools)
    BY DEF RuntimesIInv, RuntimesTypeOK
  <2>2. ASSUME NEW q \in ToSet(live) PROVE pools[q].state = "stopped"
    BY <1>1, <2>1 DEF RuntimesIInv, ClosingInOrder, ToSet
  <2>3. \A q \in DOMAIN pools : pools[q].state = "stopped"
    BY <2>2 DEF RuntimesIInv, NoPoolIsLost
  <2> QED BY <1>1, <2>3 DEF RuntimesIInv, NoPoolIsLost, IsOpen
<1> QED BY <1>3, <1>4, <1>5, <1>6 DEF RuntimesIInv

LEMMA RuntimesStep == RuntimesIInv /\ [RuntimesNext]_runtimeVars => RuntimesIInv'
<1> SUFFICES ASSUME RuntimesIInv, [RuntimesNext]_runtimeVars PROVE RuntimesIInv'
  OBVIOUS
<1>1. CASE UNCHANGED runtimeVars
  <2>1. UNCHANGED <<registry, at, request, session, via, on, pools, live, stopping>>
    BY <1>1 DEF runtimeVars
  <2>2. RuntimesTypeOK' /\ RegistryIsComplete' /\ SessionsKeepTheProxy' /\ PoolsFitTheirCallers'
    BY <2>1 DEF RuntimesIInv, RuntimesTypeOK, RegistryIsComplete, SessionsKeepTheProxy,
                PoolsFitTheirCallers, AskedProxy, Transport
  <2>3. QueuesWait' /\ BrowsersFit' /\ ClosingInOrder' /\ LateOnesAreNoted' /\ NoPoolIsLost'
    BY <2>1 DEF RuntimesIInv, QueuesWait, BrowsersFit, ClosingInOrder, LateOnesAreNoted,
                NoPoolIsLost, IsOpen
  <2> QED BY <2>2, <2>3 DEF RuntimesIInv
<1>2. CASE Compose \/ Close \/ StopPool \/ StopBrowser \/ ClearMap
  BY <1>2, ComposeStep, CloseStep, StopPoolStep, StopBrowserStep, ClearMapStep
<1>3. ASSUME NEW c \in Callers,
             \/ ResolveProfiles(c) \/ AcquireSessions(c) \/ Fetch(c) \/ Fetched(c)
             \/ FindPool(c) \/ TakeSlot(c) \/ Allocate(c) \/ Launch(c) \/ OpenPage(c)
             \/ AllocationFails(c) \/ ClosePage(c)
      PROVE  RuntimesIInv'
  <2> QED BY <1>3, ResolveProfilesStep, AcquireSessionsStep, FetchStep, FindPoolStep,
             TakeSlotStep, AllocateStep, LaunchStep, OpenPageStep, AllocationFailsStep,
             ClosePageStep
<1> QED BY <1>1, <1>2, <1>3 DEF RuntimesNext

\* The invariant that carries the two properties: who composes, who waits where, what runs
\* where, and how far a close has come (BrowserRuntimes).
THEOREM RuntimesInvariant == RuntimesSpec => []RuntimesIInv
  BY RuntimesInitially, RuntimesStep, PTL DEF RuntimesSpec

\* For any modules, requests and pool limits: the traffic of an access takes the proxy that
\* was asked for, whichever browser it shares.
THEOREM RoutesAreAlwaysKept == RuntimesSpec => []RoutesAreKept
<1>1. RuntimesIInv => RoutesAreKept
  <2> SUFFICES ASSUME RuntimesIInv, NEW c \in Callers
               PROVE  /\ at[c] = "fetching" => ProxyOf(Transport(c)) = AskedProxy(request[c])
                      /\ at[c] = "browsing" =>
                           on[c] =
                             [stealth |-> IdentityProfiles[request[c].identity].runtime
                                            = "patchright-stealth",
                              proxy |-> AskedProxy(request[c])]
    BY DEF RoutesAreKept
  <2>1. at[c] = "fetching" => ProxyOf(Transport(c)) = AskedProxy(request[c])
    BY DEF RuntimesIInv, SessionsKeepTheProxy
  <2>2. at[c] = "browsing" =>
          /\ pools[via[c]].proxy = AskedProxy(request[c])
          /\ pools[via[c]].runtime = IdentityProfiles[request[c].identity].runtime
    BY DEF RuntimesIInv, PoolsFitTheirCallers, InPool
  <2>3. at[c] = "browsing" => on[c] = LaunchOptions(pools[via[c]])
    BY DEF RuntimesIInv, BrowsersFit, OnABrowser
  <2> QED BY <2>1, <2>2, <2>3 DEF LaunchOptions
<1> QED BY <1>1, RuntimesInvariant, PTL

\* For any number of pools, closes and accesses: a pool that a close cannot find has been
\* stopped, nobody waits in it, and a browser in it comes of an access that was allocating
\* when it was stopped.
THEOREM NoPoolIsEverLost == RuntimesSpec => []NoPoolIsLost
<1>1. RuntimesIInv => NoPoolIsLost
  BY DEF RuntimesIInv
<1> QED BY <1>1, RuntimesInvariant, PTL
=============================================================================
