------------------------------ MODULE Discovery ------------------------------
(***************************************************************************)
(* The discovery of one shop's pages (src/e9-commerce-benchmark.ts): the   *)
(* homepage is probed over HTTP and in a browser, the sitemaps are walked, *)
(* a bounded plan of URLs is probed by several workers at once, a browser  *)
(* tries some of those that failed, and a quota of each page type is       *)
(* selected.  URLs are numbers in the order prioritizeUrl gives them.      *)
(* Filters and slices are written as what they leave, by rank, so that     *)
(* they can be reasoned about.                                             *)
(***************************************************************************)
EXTENDS Integers, FiniteSets, SequencesExt

CONSTANTS Roots,        \* the site's sitemaps, in order
          LinksOf,      \* what a sitemap lists: sequence of URLs and sitemaps
          SeedUrls,     \* URLs the site's catalog entry names
          HintOf,       \* classifyE9DiscoveryUrl: page type of a URL's spelling
          FinalUrls,    \* where a browser may end up, on the site or off it
          Target,       \* targetPagesPerSite
          Limits,       \* the code's limits and floors, see the uses below
          Workers       \* the workers of mapWithConcurrency

PageTypes == <<"product", "listing", "search", "offer", "unknown">>

ASSUME DiscoveryAssumption ==
  /\ Roots \in Seq(DOMAIN LinksOf)
  /\ LinksOf \in [DOMAIN LinksOf -> Seq(DOMAIN LinksOf \union DOMAIN HintOf)]
  /\ IsFiniteSet(DOMAIN HintOf) /\ DOMAIN HintOf \subseteq Nat
  /\ SeedUrls \subseteq DOMAIN HintOf
  /\ DOMAIN HintOf \subseteq FinalUrls
  /\ HintOf \in [DOMAIN HintOf -> ToSet(PageTypes)]
  /\ Target \in Nat /\ {Limits.plan, Limits.fallbackLeast, Limits.fallbackMost} \subseteq Nat
  /\ \A type \in ToSet(PageTypes) : {Limits.share[type], Limits.floor[type]} \subseteq Nat

\* A page the probe of the URL asked found at the URL of its own.
FoundPage(source, asked, url, type) ==
  [source |-> source, asked |-> asked, url |-> url, type |-> type]
Missing == FoundPage("none", 0, 0, "missing")

VARIABLES step,         \* where buildSiteSummary is
          home,         \* is the homepage there over HTTP, in the browser
          queued, visited,   \* the walk of the sitemaps
          found,        \* URLs discovered
          urls,         \* the fetch plan, then the URLs the browser tries
          index,        \* next entry of the workers
          entryOf,      \* worker -> the entry it is at, 0 for none
          outputs,      \* entry -> page or Missing
          pages,        \* the pages found, those of the browser last
          chosenPages,  \* URLs selected
          state         \* of the site's summary

discoveryVars == <<step, home, queued, visited, found, urls, index, entryOf,
                   outputs, pages, chosenPages, state>>
\* A set of numbers as a sequence, and the entries of a sequence at some places, in order.
Ascending(S) ==
  [n \in 1..Cardinality(S) |-> CHOOSE k \in S : Cardinality({j \in S : j < k}) = n - 1]
EntriesAt(s, places) == [n \in 1..Cardinality(places) |-> s[Ascending(places)[n]]]
First(s, n) == SubSeq(s, 1, IF n < Len(s) THEN n ELSE Len(s))

walkVars == <<queued, visited, found>>
probeVars == <<urls, index, entryOf, outputs>>

NoHome == [http |-> FALSE, browser |-> FALSE, linked |-> {}]
Idle == [w \in Workers |-> 0]

DiscoveryInit ==
  /\ step = "idle" /\ home = NoHome
  /\ queued = <<>> /\ visited = {} /\ found = {}
  /\ urls = <<>> /\ index = 1 /\ entryOf = Idle /\ outputs = <<>>
  /\ pages = <<>> /\ chosenPages = {} /\ state = "none"

(* buildSiteSummary: the two probes of the homepage; the URLs its HTML     *)
(* links to are some of those the site has.                                *)
ProbeHomepage ==
  /\ step = "idle"
  /\ \E http, browser \in BOOLEAN, linked \in SUBSET DOMAIN HintOf :
       /\ linked # {} => http \/ browser
       /\ Cardinality(linked) <= Limits.homepageUrls
       /\ home' = [http |-> http, browser |-> browser, linked |-> linked]
  /\ step' = "sitemaps" /\ queued' = Roots
  /\ UNCHANGED <<visited, found, probeVars, pages, chosenPages, state>>

(***************************************************************************)
(* fetchSitemapUrls: one turn of its loop; a list is read until the URLs   *)
(* found reach the limit.                                                  *)
(***************************************************************************)
WalkGoesOn == /\ queued # <<>> /\ Cardinality(visited) < Limits.sitemaps
              /\ Cardinality(found) < Limits.sitemapUrls

UrlsAmong(links, places) == {links[i] : i \in places} \ DOMAIN LinksOf

ReadSitemap ==
  /\ step = "sitemaps" /\ WalkGoesOn
  /\ LET current == Head(queued)
     IN IF current \in visited
        THEN queued' = Tail(queued) /\ UNCHANGED <<visited, found>>
        ELSE /\ visited' = visited \union {current}
             /\ \/ queued' = Tail(queued) /\ UNCHANGED found    \* no answer, or no XML
                \/ LET links == LinksOf[current]
                       read == {i \in DOMAIN links :
                                  Cardinality(found \union UrlsAmong(links, 1..i - 1))
                                    < Limits.sitemapUrls}
                       isNew == {i \in read : links[i] \in DOMAIN LinksOf \ visited'}
                   IN /\ queued' = Tail(queued) \o EntriesAt(links, isNew)
                      /\ found' = found \union UrlsAmong(links, read)
  /\ UNCHANGED <<step, home, probeVars, pages, chosenPages, state>>

Candidates == found \union home.linked \union SeedUrls

(* buildFetchPlan: each hinted type has its bucket, of bounded size.       *)
Bucket(type, candidates) ==
  LET own == Ascending({u \in candidates : HintOf[u] = type})
      limit == IF Limits.share[type] * Target > Limits.floor[type]
               THEN Limits.share[type] * Target ELSE Limits.floor[type]
  IN First(own, limit)

BuildFetchPlan(candidates) ==
  LET all == Bucket("product", candidates) \o Bucket("listing", candidates)
               \o Bucket("search", candidates) \o Bucket("offer", candidates)
               \o Bucket("unknown", candidates)
  IN First(all, IF 2 * Target > Limits.plan THEN 2 * Target ELSE Limits.plan)

StartProbes(batch, next) ==
  /\ urls' = batch /\ index' = 1 /\ entryOf' = Idle
  /\ outputs' = [i \in DOMAIN batch |-> Missing]
  /\ step' = next

PlanProbes ==
  /\ step = "sitemaps" /\ ~WalkGoesOn
  /\ StartProbes(BuildFetchPlan(Candidates), "probing")
  /\ UNCHANGED <<home, walkVars, pages, chosenPages, state>>

(***************************************************************************)
(* mapWithConcurrency: a worker takes the next entry, in a browser at most *)
(* two do; its answer is written at the entry's place.  Over HTTP a page   *)
(* has the URL asked, in a browser the URL where the browser ended up.     *)
(***************************************************************************)
TakeEntry(w) ==
  /\ step \in {"probing", "fallback"} /\ entryOf[w] = 0 /\ index <= Len(urls)
  /\ step = "fallback" => Cardinality({v \in Workers : entryOf[v] # 0}) < 2
  /\ entryOf' = [entryOf EXCEPT ![w] = index]
  /\ index' = index + 1
  /\ UNCHANGED <<step, home, walkVars, urls, outputs, pages, chosenPages, state>>

PlaceOnArrival(w) == Cardinality({i \in DOMAIN outputs : outputs[i] # Missing}) + 1
  \* A bug for the checks to find: pages are kept in the order they arrive.

PlaceOf(w) == entryOf[w]

PageAnswers(w) ==
  /\ entryOf[w] # 0
  /\ \/ UNCHANGED outputs
     \/ LET asked == urls[entryOf[w]]
        IN \E url \in IF step = "probing" THEN {asked} ELSE FinalUrls, type \in ToSet(PageTypes) :
             outputs' = [outputs EXCEPT ![PlaceOf(w)] =
                           FoundPage(IF step = "probing" THEN "sitemap" ELSE "fallback",
                                     asked, url, type)]
  /\ entryOf' = [entryOf EXCEPT ![w] = 0]
  /\ UNCHANGED <<step, home, walkVars, urls, index, pages, chosenPages, state>>

AllAnswered == index > Len(urls) /\ entryOf = Idle
Pages == EntriesAt(outputs, {i \in DOMAIN outputs : outputs[i] # Missing})

(* buildDiscoveryPages: too few pages send a browser to some of the rest.  *)
EndProbes ==
  /\ step = "probing" /\ AllAnswered
  /\ pages' = Pages
  /\ IF home.browser /\ Len(Pages) < Target
     THEN LET missing == EntriesAt(urls,
                {k \in DOMAIN urls : \A i \in DOMAIN Pages : Pages[i].url # urls[k]})
              least == IF Target - Len(Pages) > Limits.fallbackLeast
                       THEN Target - Len(Pages) ELSE Limits.fallbackLeast
          IN StartProbes(First(missing, IF least < Limits.fallbackMost
                                           THEN least ELSE Limits.fallbackMost), "fallback")
     ELSE step' = "selecting" /\ UNCHANGED probeVars
  /\ UNCHANGED <<home, walkVars, chosenPages, state>>

(* A page is kept unless its URL is there already, of a probe or of an     *)
(* earlier page of the browser.                                            *)
IsElsewhere(k) ==
  \/ \E i \in DOMAIN pages : pages[i].url = Pages[k].url
  \/ \E j \in DOMAIN Pages : j < k /\ Pages[j].url = Pages[k].url

EndFallback ==
  /\ step = "fallback" /\ AllAnswered
  /\ pages' = pages \o EntriesAt(Pages, {k \in DOMAIN Pages : ~IsElsewhere(k)})
  /\ step' = "selecting"
  /\ UNCHANGED <<home, walkVars, probeVars, chosenPages, state>>

(***************************************************************************)
(* selectByType: the first pages of a type until count are selected.       *)
(***************************************************************************)
SelectByType(selected, type, count) ==
  LET add(s, p) == IF Cardinality(s) >= Target \/ Cardinality(s) >= count
                      \/ p.type # type THEN s ELSE s \union {p.url}
  IN FoldLeft(add, selected, pages)

AtMostTarget(n) == IF n < Target THEN n ELSE Target

Selection ==
  LET products == SelectByType({}, "product", AtMostTarget(
                    IF Target - Limits.margin > Limits.products
                    THEN Target - Limits.margin ELSE Limits.products))
      listings == SelectByType(products, "listing", AtMostTarget(Cardinality(products) + 4))
      searches == SelectByType(listings, "search", AtMostTarget(Cardinality(listings) + 2))
      offers == SelectByType(searches, "offer", AtMostTarget(Cardinality(searches) + 4))
      fill(s, p) == IF Cardinality(s) >= Target THEN s ELSE s \union {p.url}
  IN FoldLeft(fill, offers, pages)

SelectDiscovered ==
  /\ step = "selecting"
  /\ chosenPages' = Selection
  /\ state' = IF Cardinality(chosenPages') >= Target /\ home.browser THEN "healthy"
              ELSE IF 2 * Cardinality(chosenPages') >= Target \/ home.browser \/ home.http
              THEN "partial"
              ELSE IF Candidates # {} THEN "degraded" ELSE "unreachable"
  /\ step' = "done"
  /\ UNCHANGED <<home, walkVars, probeVars, pages>>

NextSite ==
  /\ step = "done"
  /\ step' = "idle" /\ home' = NoHome
  /\ queued' = <<>> /\ visited' = {} /\ found' = {}
  /\ urls' = <<>> /\ index' = 1 /\ entryOf' = Idle /\ outputs' = <<>>
  /\ pages' = <<>> /\ chosenPages' = {} /\ state' = "none"

DiscoveryNext ==
  \/ ProbeHomepage \/ ReadSitemap \/ PlanProbes
  \/ \E w \in Workers : TakeEntry(w) \/ PageAnswers(w)
  \/ EndProbes \/ EndFallback \/ SelectDiscovered \/ NextSite

DiscoverySpec == DiscoveryInit /\ [][DiscoveryNext]_discoveryVars

-----------------------------------------------------------------------------
PlaceIn(plan, url) == CHOOSE k \in DOMAIN plan : plan[k] = url

(* Whichever worker answers first and wherever the browser is redirected,  *)
(* the pages to select from are those of the probes and then those of the  *)
(* browser, each in the order of the plan by the URL that was asked, so    *)
(* that the selection follows from the answers alone; a URL is there once, *)
(* and none that a probe served is asked again in the browser              *)
(* (mapWithConcurrency, buildDiscoveryPages).                              *)
PagesFollowThePlan ==
  LET plan == BuildFetchPlan(Candidates)
  IN step = "selecting" =>
       \A i, j \in DOMAIN pages : i < j =>
         /\ pages[i].url # pages[j].url /\ pages[i].asked # pages[j].asked
         /\ IF pages[i].source = pages[j].source
            THEN PlaceIn(plan, pages[i].asked) < PlaceIn(plan, pages[j].asked)
            ELSE pages[i].source = "sitemap" /\ home.browser
=============================================================================
