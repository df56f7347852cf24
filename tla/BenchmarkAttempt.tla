--------------------------- MODULE BenchmarkAttempt ---------------------------
(***************************************************************************)
(* One page of a benchmark sweep after the other (src/e9-benchmark-        *)
(* suite.ts): the runner of a profile fetches it, by HTTP, with a browser, *)
(* or by HTTP first and a stealth browser after that; what comes back is   *)
(* searched for an access wall and sorted into a category; a rotation      *)
(* tries the next exit after a wall or a failure that may pass.            *)
(*                                                                         *)
(* What a page sends is an input: a status, the signals of a wall that its *)
(* texts show, whether there is any content.  The text of an error is the  *)
(* set of the words that the classification looks for.                     *)
(***************************************************************************)
EXTENDS Integers, SequencesExt

CONSTANTS SiteNames,      \* the domains of the pages, in the order of compareStrings
          SentPages,          \* what pages send: [status, strong, weak, redirected, content, warnings]
          Errors,         \* what accesses fail with: [words, warnings]
          PlanErrors,     \* what the resolution of a plan fails with
          PlanWarnings,   \* the sets of warnings that a plan comes with
          VariantsOf,     \* the exits a profile may try, by profile
          MaxReported     \* bound: attempts of one report

ASSUME AttemptAssumption ==
    \A page \in SentPages :
        page.status \in {"unauthorized", "forbidden", "limited", "ok", "missing"} /\ page.content \in BOOLEAN

VARIABLES lane,       \* the profile that runs, or "idle"
          site,       \* the domain of its page
          atStage,    \* what the runner is about to do
          exits,      \* variants of the rotation that are left, this one included
          planned,    \* warnings of the plan it resolved, or NoPlanYet
          fromHttp,   \* warnings that the HTTP stage left to the browser stage
          opened,     \* what a patchright attempt holds: "context", "page"
          outcomes,      \* the results of the rotation so far
          reported    \* the finished attempts

attemptVars == <<lane, site, atStage, exits, planned, fromHttp, opened, outcomes, reported>>

NoError == {}
NoPlanYet == {"unresolved"}

HttpLanes == {"effect-http", "native-fetch"}
BrowserLanes == {"effect-browser", "effect-hybrid-stealth", "patchright-browser"}
PlannedLanes == {"effect-http", "effect-browser", "effect-hybrid-stealth"}

\* The HTTP phase runs before the browser phase, each profile after the other.
LaneOrder == <<"effect-http", "native-fetch", "effect-browser", "effect-hybrid-stealth",
               "patchright-browser">>

InLaneOrder(profile) ==
    reported # <<>> => \E i, j \in DOMAIN LaneOrder :
        i <= j /\ LaneOrder[i] = Last(reported).profile /\ LaneOrder[j] = profile

AttemptInit ==
    /\ lane = "idle" /\ site = "none" /\ atStage = "none" /\ exits = 0
    /\ planned = NoPlanYet /\ fromHttp = {} /\ opened = {} /\ outcomes = <<>>
    /\ reported = <<>>

-----------------------------------------------------------------------------
(* Access walls (src/sdk/access-wall-detection.ts). *)

StatusSignals == [unauthorized |-> {"status-401"}, forbidden |-> {"status-403"},
                  limited |-> {"status-429"}, ok |-> {}, missing |-> {}, none |-> {}]

\* detectAccessWall: strong signals, or two weak ones after a redirect, make a wall;
\* its signals are all that were seen.  Signals of final URLs are inputs.
WallSignals(page) ==
    LET strong == StatusSignals[page.status] \cup page.strong
    IN  IF strong # {} \/ (page.redirected /\ Cardinality(page.weak) >= 2)
        THEN strong \cup page.weak ELSE {}

Hints == {"text-consent-hint", "title-consent-hint"}
WeakConsent == {"text-cookies", "text-gdpr", "text-privacy", "title-cookies", "title-privacy"}

ClassifyAccessWallKind(signals) ==
    LET seen(expected) == signals \cap expected # {}
        count(expected) == Cardinality(signals \cap expected)
    IN  CASE seen({"url-trap"}) -> "access-wall-trap"
          [] seen({"text-challenge", "title-challenge", "url-challenge"}) /\ ~seen({"url-trap"})
               -> "access-wall-challenge"
          [] OTHER ->
               IF seen({"status-429"}) THEN "access-wall-rate-limit"
               ELSE IF \/ seen({"text-consent", "title-consent", "url-consent"})
                       \/ count(Hints) >= 1 /\ count(WeakConsent) >= 2
                       \/ count(Hints) >= 1 /\ count(WeakConsent) + count(Hints) >= 3
                    THEN "access-wall-consent"
               ELSE IF seen({"status-401", "status-403"})
                       /\ ~seen(WeakConsent \cup Hints \cup {"title-challenge-hint"})
                    THEN "access-wall-forbidden"
               ELSE "access-wall"

-----------------------------------------------------------------------------
(* Failure categories. *)

\* The first of these whose words are all in the text of an error decides.
ErrorSigns ==
    << <<{"closed"}, "browser-closed">>,
       <<{"crash"}, "browser-crash">>,
       <<{"timeout", "navigation"}, "browser-navigation-timeout">>,
       <<{"timeout", "dom-read"}, "browser-dom-read-timeout">>,
       <<{"timeout", "title-read"}, "browser-title-read-timeout">>,
       <<{"timeout"}, "timeout">>,
       <<{"launch"}, "browser-launch">>,
       <<{"context-allocation"}, "browser-context-allocation">>,
       <<{"page-allocation"}, "browser-page-allocation">>,
       <<{"route-registration"}, "browser-route-registration">>,
       <<{"title-read"}, "browser-title-read-failed">>,
       <<{"header-read"}, "browser-header-read-failed">>,
       <<{"dom-read"}, "browser-dom-read-failed">>,
       <<{"no-response"}, "browser-navigation-response-missing">>,
       <<{"connection"}, "browser-navigation-connection">>,
       <<{"aborted"}, "browser-navigation-aborted">>,
       <<{"http-status"}, "browser-navigation-http-error">>,
       <<{"selection"}, "local-selection">>,
       <<{"quarantined"}, "local-access-health-quarantine">>,
       <<{"egress-config"}, "local-egress-config">>,
       <<{"identity-config"}, "local-identity-config">>,
       <<{"navigation"}, "browser-navigation-failed">>,
       <<{"network"}, "network-error">> >>

ErrorCategory(words) ==
    LET hits == {n \in DOMAIN ErrorSigns : ErrorSigns[n][1] \subseteq words}
    IN  IF hits = {} THEN "unknown-error"
        ELSE ErrorSigns[CHOOSE n \in hits : \A m \in hits : n <= m][2]

Succeeds(result) ==
    /\ result.error = NoError /\ result.status = "ok"
    /\ result.signals = {} /\ result.content

\* classifyAttemptFailureCategory
FailureCategory(result) ==
    CASE Succeeds(result) -> "none"
      [] ~Succeeds(result) /\ result.signals # {} -> ClassifyAccessWallKind(result.signals)
      [] OTHER ->
           IF result.status \notin {"none", "ok"} THEN "http-error"
           ELSE IF result.error # NoError THEN ErrorCategory(result.error)
           ELSE IF result.content THEN "unknown-error" ELSE "empty-content"

PassingCategories ==
    {"timeout", "browser-navigation-timeout", "browser-navigation-connection",
     "browser-navigation-response-missing", "browser-navigation-aborted",
     "browser-navigation-http-error", "browser-header-read-failed"}

\* retryableRotationOutcome of analyzeAttemptResult
WorthAnotherExit(result) ==
    \/ result.signals # {}
    \/ result.status \in {"unauthorized", "forbidden", "limited"}
    \/ FailureCategory(result) \in PassingCategories

LocalCategories ==
    {"local-access-health-quarantine", "local-selection", "local-egress-config",
     "local-identity-config", "browser-launch", "browser-context-allocation",
     "browser-page-allocation", "browser-route-registration", "browser-closed", "browser-crash"}

-----------------------------------------------------------------------------
(* Results of the runners. *)

Answered(page, mode, warnings) ==
    [status |-> page.status, signals |-> WallSignals(page), content |-> page.content,
     error |-> NoError, mode |-> mode,
     warnings |-> IF mode = "none" THEN {} ELSE warnings \cup page.warnings]

FailedResult(words, mode, warnings) ==
    [status |-> "none", signals |-> {}, content |-> FALSE,
     error |-> words, mode |-> mode, warnings |-> warnings]

BeginPage(profile, domain, variants) ==
    /\ lane = "idle" /\ Len(reported) < MaxReported
    /\ InLaneOrder(profile)
    /\ lane' = profile /\ site' = domain /\ exits' = variants
    /\ atStage' = CASE profile = "effect-browser" -> "browser"
                    [] profile = "patchright-browser" -> "context-allocation"
                    [] OTHER -> "http"
    /\ UNCHANGED <<planned, fromHttp, opened, outcomes, reported>>

ResultIs(result) == outcomes' = Append(outcomes, result) /\ atStage' = "result"

\* resolveBenchmarkExecutionPlan: a plan comes with its warnings.
ResolvePlan(warnings) ==
    /\ lane \in PlannedLanes /\ atStage \in {"http", "browser"} /\ planned = NoPlanYet
    /\ planned' = warnings
    /\ UNCHANGED <<lane, site, atStage, exits, fromHttp, opened, outcomes, reported>>

\* Without a plan there is no metadata; the single-stage runners then drop the
\* warnings as well.
FailWithoutPlan(error) ==
    /\ lane \in PlannedLanes /\ atStage \in {"http", "browser"} /\ planned = NoPlanYet
    /\ IF lane = "effect-hybrid-stealth" /\ atStage = "http"
       THEN atStage' = "browser" /\ fromHttp' = error.warnings /\ UNCHANGED outcomes
       ELSE /\ ResultIs(FailedResult(error.words, "none",
                           IF lane = "effect-hybrid-stealth" THEN fromHttp \cup error.warnings ELSE {}))
            /\ UNCHANGED fromHttp
    /\ UNCHANGED <<lane, site, exits, planned, opened, reported>>

\* effect-http: the preview answers or fails.
PreviewOverHttp(page) ==
    /\ lane = "effect-http" /\ atStage = "http" /\ planned # NoPlanYet
    /\ ResultIs(Answered(page, "http", planned))
    /\ UNCHANGED <<lane, site, exits, planned, fromHttp, opened, reported>>

FetchNatively(page) ==
    /\ lane = "native-fetch" /\ atStage = "http"
    /\ ResultIs(Answered(page, "none", {}))
    /\ UNCHANGED <<lane, site, exits, planned, fromHttp, opened, reported>>

RenderInBrowser(page) ==
    /\ lane = "effect-browser" /\ atStage = "browser" /\ planned # NoPlanYet
    /\ ResultIs(Answered(page, "browser", planned))
    /\ UNCHANGED <<lane, site, exits, planned, fromHttp, opened, reported>>

\* A bug for the checks to find: whatever HTTP answers is the result.
StageHttpAlways(page) ==
    /\ lane = "effect-hybrid-stealth" /\ atStage = "http" /\ planned # NoPlanYet
    /\ ResultIs(Answered(page, "either", planned))
    /\ UNCHANGED <<lane, site, exits, planned, fromHttp, opened, reported>>

\* effect-hybrid-stealth: a page that is neither a wall nor an error is the result;
\* after any other the browser stage begins, with the warnings so far.
StageHttp(page) ==
    /\ lane = "effect-hybrid-stealth" /\ atStage = "http" /\ planned # NoPlanYet
    /\ IF page.status = "ok" /\ WallSignals(page) = {}
       THEN ResultIs(Answered(page, "http", planned)) /\ UNCHANGED <<planned, fromHttp>>
       ELSE /\ atStage' = "browser" /\ planned' = NoPlanYet
            /\ fromHttp' = planned \cup page.warnings
            /\ UNCHANGED outcomes
    /\ UNCHANGED <<lane, site, exits, opened, reported>>

StageBrowser(page) ==
    /\ lane = "effect-hybrid-stealth" /\ atStage = "browser" /\ planned # NoPlanYet
    /\ ResultIs(Answered(page, "browser", fromHttp \cup planned))
    /\ UNCHANGED <<lane, site, exits, planned, fromHttp, opened, reported>>

\* The access of a stage fails; the HTTP stage of the hybrid runner goes on with the
\* browser, and forgets the warnings of its plan.
FailAccess(error) ==
    /\ atStage \in {"http", "browser"} /\ lane \in PlannedLanes /\ planned # NoPlanYet
    /\ IF lane = "effect-hybrid-stealth" /\ atStage = "http"
       THEN atStage' = "browser" /\ planned' = NoPlanYet /\ fromHttp' = error.warnings /\ UNCHANGED outcomes
       ELSE /\ ResultIs(FailedResult(error.words, atStage, fromHttp \cup planned \cup error.warnings))
            /\ UNCHANGED <<planned, fromHttp>>
    /\ UNCHANGED <<lane, site, exits, opened, reported>>

FailFetch(error) ==
    /\ lane = "native-fetch" /\ atStage = "http"
    /\ ResultIs(FailedResult(error.words, "none", {}))
    /\ UNCHANGED <<lane, site, exits, planned, fromHttp, opened, reported>>

\* patchright-browser: the stages of one page, each of which may fail.
NextStage == [x \in {"context-allocation", "page-allocation", "navigation", "dom-read"} |->
                CASE x = "context-allocation" -> "page-allocation"
                  [] x = "page-allocation" -> "navigation"
                  [] x = "navigation" -> "dom-read"
                  [] OTHER -> "title-read"]

PassStage ==
    /\ lane = "patchright-browser" /\ atStage \in DOMAIN NextStage
    /\ atStage' = NextStage[atStage]
    /\ opened' = opened \cup (CASE atStage = "context-allocation" -> {"context"}
                                [] atStage = "page-allocation" -> {"page"}
                                [] OTHER -> {})
    /\ UNCHANGED <<lane, site, exits, planned, fromHttp, outcomes, reported>>

\* The finally block closes what was opened, whatever happened.
ReadTitle(page) ==
    /\ lane = "patchright-browser" /\ atStage = "title-read"
    /\ ResultIs(Answered(page, "none", {}))
    /\ opened' = {}
    /\ UNCHANGED <<lane, site, exits, planned, fromHttp, reported>>

FailStage(error) ==
    /\ lane = "patchright-browser" /\ atStage \in DOMAIN NextStage \cup {"title-read"}
    /\ ResultIs(FailedResult(error.words \cup {atStage}, "none", {}))
    /\ opened' = {}
    /\ UNCHANGED <<lane, site, exits, planned, fromHttp, reported>>

-----------------------------------------------------------------------------
\* runPageWithExecutionRotation: another exit, if one is left and may help.
TryAnotherExit ==
    /\ atStage = "result" /\ exits > 1 /\ WorthAnotherExit(Last(outcomes))
    /\ exits' = exits - 1
    /\ atStage' = (IF lane = "effect-browser" THEN "browser" ELSE "http")
    /\ planned' = NoPlanYet /\ fromHttp' = {}
    /\ UNCHANGED <<lane, site, opened, outcomes, reported>>

\* mergeRotatedAttemptResults: the last result, with the warnings of all.
Merged == [Last(outcomes) EXCEPT !.warnings = UNION {outcomes[i].warnings : i \in DOMAIN outcomes}]

\* buildAttempt
AttemptOf(result) ==
    [profile |-> lane, domain |-> site,
     success |-> Succeeds(result), challenge |-> result.signals # {},
     blocked |-> \/ result.signals # {} \/ result.error # NoError
                 \/ result.status \in {"forbidden", "limited"},
     category |-> FailureCategory(result), mode |-> result.mode, warnings |-> result.warnings]

EndAttempt ==
    /\ atStage = "result" /\ (exits = 1 \/ ~WorthAnotherExit(Last(outcomes)))
    /\ reported' = Append(reported, AttemptOf(Merged))
    /\ lane' = "idle" /\ site' = "none" /\ atStage' = "none" /\ exits' = 0
    /\ planned' = NoPlanYet /\ fromHttp' = {} /\ outcomes' = <<>>
    /\ UNCHANGED opened

AttemptNext ==
    \/ \E profile \in HttpLanes \cup BrowserLanes, domain \in ToSet(SiteNames) :
          \E variants \in VariantsOf[profile] : BeginPage(profile, domain, variants)
    \/ \E warnings \in PlanWarnings : ResolvePlan(warnings)
    \/ \E error \in PlanErrors : FailWithoutPlan(error)
    \/ \E error \in Errors :
          FailAccess(error) \/ FailFetch(error) \/ FailStage(error)
    \/ \E page \in SentPages :
          \/ PreviewOverHttp(page) \/ FetchNatively(page) \/ RenderInBrowser(page)
          \/ StageHttp(page) \/ StageBrowser(page) \/ ReadTitle(page)
    \/ PassStage
    \/ TryAnotherExit
    \/ EndAttempt

AttemptSpec == AttemptInit /\ [][AttemptNext]_attemptVars
=============================================================================
