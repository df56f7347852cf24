--------------------------- MODULE ServicesProofs ---------------------------
(***************************************************************************)
(* Proofs about the services between a capture and the network.            *)
(*                                                                         *)
(* HTTP fetches, for any number of retries and redirects: no request       *)
(* runs on beside the one that replaced it, except the bodies that a       *)
(* capture gave up.  Captures and their challenge solver, for any delays   *)
(* and looks of a page: what is reported as cleared was seen so last and   *)
(* shows no wall, and no part of a result is older than the last           *)
(* navigation, wherever the page moves by itself.                          *)
(*                                                                         *)
(* The selection of provider, egress and identity, for any offers, tastes  *)
(* and healths: a path in quarantine is taken only if asked for or when no *)
(* other is left, and no fallback makes an access refuse, but for a        *)
(* default that a caller insists on and nobody registered.  The planning   *)
(* of crawls, for any targets, policies, pools and captures: those of one  *)
(* policy that were registered with equal limits keep these together.      *)
(***************************************************************************)
EXTENDS HttpAccess, ProviderCapture, AccessSelection, CrawlPlanning,
        FiniteSetTheorems, WellFoundedInduction, TLAPS

-----------------------------------------------------------------------------
(* HTTP fetches.                                                            *)

HttpSpec == HttpInit /\ [][HttpNext]_httpVars

HttpRequests == [request : Nat, part : {"response", "body"}]

HttpTypeOK ==
  /\ client \in {"idle", "capture", "provider"}
  /\ fetchAt \in {"fetch", "body", "delay", "answered"}
  /\ sent \in Nat /\ open \subseteq HttpRequests
  /\ \E S : verdicts \in Seq(S)

\* Requests are numbered in the order they are sent; each is open once, for its
\* response before its body.
RequestsInOrder ==
  /\ \A r \in open : r.request \in 1..sent
  /\ \A r, s \in open : r.request = s.request => r = s
  /\ \A r \in open : r.part = "response" => r.request = sent /\ fetchAt = "fetch"
  /\ \A r \in open : r.part = "body" /\ r.request = sent => fetchAt # "fetch"

\* A capture sends one request, and one more for each retry it decided.
RequestsOfCapture ==
  /\ client = "idle" => sent = 0 /\ fetchAt = "fetch" /\ Len(verdicts) = 0
  /\ client # "idle" => sent >= 1
  /\ client = "capture" => sent <= Len(verdicts) + 1
  /\ client = "capture" /\ fetchAt = "delay" => sent <= Len(verdicts)

\* A provider has no request open but the one it waits for.
RequestOfProvider ==
  client = "provider" =>
    /\ fetchAt # "delay"
    /\ fetchAt = "fetch" => open \subseteq {Current("response")}
    /\ fetchAt = "body" => open \subseteq {Current("body")}
    /\ fetchAt = "answered" => open = {}

HttpIInv == HttpTypeOK /\ RequestsInOrder /\ RequestsOfCapture /\ RequestOfProvider

-----------------------------------------------------------------------------
LEMMA AppendIsLonger ==
  ASSUME NEW S, NEW s \in Seq(S), NEW x
  PROVE  /\ Append(s, x) \in Seq(S \cup {x})
         /\ Len(Append(s, x)) = Len(s) + 1
<1>1. s \in Seq(S \cup {x})
  OBVIOUS
<1> QED BY <1>1

\* What a failed attempt of either client comes to: an answer, or a longer list of
\* retries and a delay, which only a capture has.
LEMMA FailureOfAttempt ==
  ASSUME HttpTypeOK, AttemptFails
  PROVE  /\ \E S : verdicts' \in Seq(S)
         /\ Len(verdicts) \in Nat
         /\ \/ fetchAt' = "answered" /\ verdicts' = verdicts
            \/ fetchAt' = "delay" /\ client # "provider" /\ Len(verdicts') = Len(verdicts) + 1
<1> PICK S : verdicts \in Seq(S)
  BY DEF HttpTypeOK
<1>1. Len(verdicts) \in Nat
  OBVIOUS
<1>2. CASE verdicts' = verdicts /\ fetchAt' = "answered"
  BY <1>1, <1>2
<1>3. CASE /\ verdicts' = Append(verdicts, DelayAfter(Len(verdicts) + 1))
           /\ fetchAt' = "delay" /\ client # "provider"
  <2>1. verdicts' \in Seq(S \cup {DelayAfter(Len(verdicts) + 1)})
    BY <1>3, AppendIsLonger
  <2>2. Len(verdicts') = Len(verdicts) + 1
    BY <1>3, AppendIsLonger
  <2> QED BY <1>1, <1>3, <2>1, <2>2
<1>4. CASE client = "provider"
  BY <1>2, <1>4 DEF AttemptFails, AnswerHttp
<1>5. CASE client # "provider" /\ Len(verdicts) + 1 >= RetryAttempts
  BY <1>2, <1>5 DEF AttemptFails, AnswerHttp
<1>6. CASE client # "provider" /\ ~(Len(verdicts) + 1 >= RetryAttempts)
  BY <1>3, <1>6 DEF AttemptFails
<1> QED BY <1>4, <1>5, <1>6

LEMMA HttpInitiallyHolds == HttpInit => HttpIInv
<1> SUFFICES ASSUME HttpInit PROVE HttpIInv
  OBVIOUS
<1>1. verdicts \in Seq({})
  BY DEF HttpInit
<1> QED
  BY <1>1 DEF HttpInit, HttpIInv, HttpTypeOK, RequestsInOrder, RequestsOfCapture,
              RequestOfProvider

LEMMA HttpStepHolds == HttpIInv /\ [HttpNext]_httpVars => HttpIInv'
<1> SUFFICES ASSUME HttpIInv, [HttpNext]_httpVars PROVE HttpIInv'
  OBVIOUS
<1> USE DEF HttpIInv, HttpTypeOK, RequestsInOrder, RequestsOfCapture, RequestOfProvider,
            HttpRequests, Current, Calling
<1>0. Len(verdicts) \in Nat
  OBVIOUS
<1>1. CASE UNCHANGED httpVars
  BY <1>1 DEF httpVars
<1>2. ASSUME NEW who \in {"capture", "provider"}, CallHttp(who) PROVE HttpIInv'
  BY <1>0, <1>2 DEF CallHttp, Send
<1>3. CASE Delayed
  BY <1>0, <1>3 DEF Delayed, Send
<1>4. CASE Respond
  <2> DEFINE body == [request |-> sent, part |-> "body"]
  <2>1. body \in HttpRequests
    OBVIOUS
  <2>2. /\ fetchAt = "fetch" /\ client # "idle" /\ fetchAt' = "body"
        /\ open' = (open \ {Current("response")}) \cup {body}
        /\ UNCHANGED <<client, sent, verdicts>>
    BY <1>4 DEF Respond
  <2>3. HttpTypeOK'
    BY <2>1, <2>2
  <2>4. \A r \in open \ {Current("response")} : r.part = "body" /\ r.request # sent
    BY <2>2
  <2>5. RequestsInOrder'
    <3>1. \A r \in open' : r = body \/ (r \in open /\ r.part = "body" /\ r.request # sent)
      BY <2>2, <2>4
    <3>2. sent \in 1..sent
      BY <2>2
    <3> QED BY <2>1, <2>2, <3>1, <3>2
  <2>6. RequestsOfCapture' /\ RequestOfProvider'
    BY <1>0, <2>2
  <2> QED BY <2>3, <2>5, <2>6
<1>5. ASSUME NEW flag \in BOOLEAN, Redirect(flag) PROVE HttpIInv'
  BY <1>0, <1>5 DEF Redirect, AnswerHttp
<1>6. ASSUME NEW flag \in BOOLEAN, BodyRead(flag) PROVE HttpIInv'
  BY <1>0, <1>6 DEF BodyRead, AnswerHttp
<1>7. ASSUME NEW part \in {"response", "body"}, RequestFails(part) PROVE HttpIInv'
  BY <1>0, <1>7, FailureOfAttempt DEF RequestFails
<1>8. ASSUME NEW part \in {"response", "body"}, TimeoutHttp(part) PROVE HttpIInv'
  BY <1>0, <1>8, FailureOfAttempt DEF TimeoutHttp
<1>9. CASE AbandonedBodyEnds
  BY <1>0, <1>9 DEF AbandonedBodyEnds
<1> QED BY <1>1, <1>2, <1>3, <1>4, <1>5, <1>6, <1>7, <1>8, <1>9 DEF HttpNext

\* The inductive invariant: requests are numbered in order and each is open once, so
\* that their numbers tell how many can be open.
THEOREM HttpInvariant == HttpSpec => []HttpIInv
BY HttpInitiallyHolds, HttpStepHolds, PTL DEF HttpSpec

-----------------------------------------------------------------------------
\* A set of requests with different numbers up to n has at most n members.
LEMMA NumberedRequests ==
  ASSUME NEW R \in SUBSET HttpRequests, NEW n \in Nat,
         \A r \in R : r.request \in 1..n,
         \A r, s \in R : r.request = s.request => r = s
  PROVE  IsFiniteSet(R) /\ Cardinality(R) <= n
<1> DEFINE number == [r \in R |-> r.request]
<1>1. number \in Injection(R, 1..n)
  BY DEF Injection, IsInjective
<1>2. IsFiniteSet(1..n) /\ Cardinality(1..n) = n
  BY FS_Interval
<1> QED BY <1>1, <1>2, FS_Injection

\* A retry never races the attempt it replaces, for any number of retries and
\* redirects: what stays open are the bodies a capture gave up, one for each retry.
THEOREM OneRequestAlways == HttpSpec => []OneRequestAtATime
<1>1. HttpIInv => OneRequestAtATime
  <2> SUFFICES ASSUME HttpIInv PROVE OneRequestAtATime
    OBVIOUS
  <2> USE DEF HttpIInv, HttpTypeOK, RequestsInOrder, RequestsOfCapture, RequestOfProvider,
              HttpRequests, Current
  <2>0. Len(verdicts) \in Nat
    OBVIOUS
  <2>1. Cardinality({r \in open : r.part = "response"}) <= 1
    <3> DEFINE R == {r \in open : r.part = "response"}
    <3>1. R \subseteq {[request |-> sent, part |-> "response"]}
      OBVIOUS
    <3>2. R = {} \/ R = {[request |-> sent, part |-> "response"]}
      BY <3>1
    <3>3. Cardinality(R) \in {0, 1}
      BY <3>2, FS_EmptySet, FS_Singleton
    <3> QED BY <3>3
  <2>2. client = "provider" /\ fetchAt = "answered" => open = {}
    OBVIOUS
  <2>3. Cardinality(open) <= Len(verdicts) + 1
    <3>1. CASE client # "provider"
      <4>1. Cardinality(open) <= sent /\ Cardinality(open) \in Nat
        BY NumberedRequests, FS_CardinalityType
      <4> QED BY <2>0, <3>1, <4>1
    <3>2. CASE client = "provider"
      <4>1. PICK x : open \subseteq {x}
        BY <3>2
      <4>2. open = {} \/ open = {x}
        BY <4>1
      <4>3. Cardinality(open) \in {0, 1}
        BY <4>2, FS_EmptySet, FS_Singleton
      <4> QED BY <2>0, <4>3
    <3> QED BY <3>1, <3>2
  <2> QED BY <2>1, <2>2, <2>3 DEF OneRequestAtATime
<1> QED BY <1>1, HttpInvariant, PTL

-----------------------------------------------------------------------------
(* Captures of a browser provider.                                          *)

CaptureSpec == CaptureInit /\ [][CaptureNext]_captureVars

Contents == [of : Nat, sight : Sights]
Responses == [of : Nat, ok : BOOLEAN]
Mediations == {"none", "cleared", "unresolved"}
Results == [kind : {"result"}, html : Contents, response : Responses, headersOf : Nat,
            urlOf : Nat, mediation : Mediations]
Outcomes == Results \cup {NoAnswer, Failure}

\* What the capture keeps of its documents is well typed.
CaptureTypeOK ==
  /\ stage \in CaptureStages
  /\ documents \in Nat /\ navigatedTo \in Nat /\ html \in Contents /\ response \in Responses /\ headersOf \in Nat
  /\ mediation \in Mediations /\ reused \in BOOLEAN
  /\ outcome \in Outcomes /\ answer \in Outcomes

\* The parts are read one after the other: which of them are of the last navigation,
\* and how old the content may be, depends on the stage.
ContentRead == {"headers", "solve", "settle", "settledRead", "wait", "conclude"}
PartsFollowStage ==
  /\ navigatedTo <= documents
  /\ stage \in {"read"} \cup ContentRead => response.of = navigatedTo
  /\ stage \in ContentRead => navigatedTo <= html.of /\ html.of <= documents
  /\ stage \in ContentRead \ {"headers"} => headersOf = navigatedTo

\* A result is what its capture held when it ended, and nothing changes after.
Sound(result) ==
  result.kind = "result" =>
    /\ stage \in {"close", "ended"}
    /\ result.response.of = navigatedTo /\ result.headersOf = navigatedTo
    /\ navigatedTo <= result.html.of /\ result.html.of <= result.urlOf
    /\ result.mediation = "cleared" => result.html.sight # "wall"

CaptureIInv == CaptureTypeOK /\ PartsFollowStage /\ Sound(outcome) /\ Sound(answer)

-----------------------------------------------------------------------------
\* The initial state holds no result and no document.
LEMMA CaptureInitiallyHolds == CaptureInit => CaptureIInv
<1> SUFFICES ASSUME CaptureInit PROVE CaptureIInv
  OBVIOUS
<1>1. CaptureTypeOK
  BY DEF CaptureInit, CaptureTypeOK, CaptureStages, Contents, Responses, Mediations, Outcomes,
         Sights
<1>2. PartsFollowStage /\ Sound(outcome) /\ Sound(answer)
  BY DEF CaptureInit, PartsFollowStage, ContentRead, Sound, NoAnswer
<1> QED BY <1>1, <1>2 DEF CaptureIInv

\* A result of well-typed parts is well typed.
LEMMA ResultTyped ==
  \A h \in Contents, r \in Responses, n, u \in Nat, m \in Mediations :
    CaptureResult(h, r, n, u, m) \in Results
BY DEF CaptureResult, Results

\* Every step of the capture, of its page and of its hard timer keeps the invariant.
LEMMA CaptureStepHolds == CaptureIInv /\ [CaptureNext]_captureVars => CaptureIInv'
<1> SUFFICES ASSUME CaptureIInv, [CaptureNext]_captureVars PROVE CaptureIInv'
  OBVIOUS
<1> USE DEF CaptureIInv, CaptureTypeOK, PartsFollowStage, ContentRead, Sound, CaptureStages,
            Contents, Responses, Outcomes, NoAnswer, Failure, page, shown, course, ending, AfterReads
<1>1. CASE UNCHANGED captureVars
  BY <1>1 DEF captureVars
<1>2. ASSUME NEW solve \in BOOLEAN, NEW waits \in BOOLEAN, StartCapture(solve, waits) PROVE CaptureIInv'
  BY <1>2 DEF StartCapture, Enter, Working
<1>3. CASE PageAllocated
  BY <1>3 DEF PageAllocated, Enter, Working
<1>4. CASE NoPageAllocated
  BY <1>4 DEF NoPageAllocated, Answer, Enter, Working
<1>5. CASE GuardRegistered
  BY <1>5 DEF GuardRegistered, Enter, Working
<1>6. ASSUME NEW ok \in BOOLEAN, Navigated(ok) PROVE CaptureIInv'
  BY <1>6 DEF Navigated, Enter, Working
<1>7. ASSUME NEW sight \in Sights, Read(sight) PROVE CaptureIInv'
  BY <1>7 DEF Read, Enter, Working
<1>8. ASSUME NEW sight \in Sights, Conclude(sight) PROVE CaptureIInv'
  <2>1. html' = [html EXCEPT !.sight = sight] /\ html' \in Contents /\ html'.of = html.of
        /\ html'.sight = sight
    BY <1>8 DEF Conclude, Contents
  <2>2. CASE outcome' = Failure /\ stage' = "close"
    BY <1>8, <2>1, <2>2 DEF Conclude, Working
  <2>3. CASE stage' = "confirmWait" /\ UNCHANGED outcome
    BY <1>8, <2>1, <2>3 DEF Conclude, Working
  <2>4. CASE outcome' = CaptureResult(html', response, headersOf, documents, FinalMediation(sight))
             /\ stage' = "close"
    <3>1. /\ FinalMediation(sight) \in Mediations
          /\ FinalMediation(sight) = "cleared" => sight # "wall"
      BY DEF FinalMediation, Mediations
    <3>2. /\ stage = "conclude"
          /\ UNCHANGED <<documents, navigatedTo, response, headersOf, reused, mediation, answer>>
      BY <1>8 DEF Conclude
    <3>3. outcome' = [kind |-> "result", html |-> html', response |-> response,
                      headersOf |-> headersOf, urlOf |-> documents,
                      mediation |-> FinalMediation(sight)]
      BY <2>4 DEF CaptureResult
    <3>4. outcome' \in Results
      BY <2>1, <2>4, <3>1, ResultTyped
    <3>5. /\ outcome'.response.of = navigatedTo' /\ outcome'.headersOf = navigatedTo'
          /\ navigatedTo' <= outcome'.html.of /\ outcome'.html.of <= outcome'.urlOf
          /\ outcome'.mediation = "cleared" => outcome'.html.sight # "wall"
      BY <2>1, <3>1, <3>2, <3>3
    <3>6. Sound(outcome)' /\ Sound(answer)'
      BY <2>4, <3>2, <3>5
    <3>7. CaptureTypeOK' /\ PartsFollowStage'
      <4> HIDE DEF Contents, Responses
      <4> QED BY <2>1, <2>4, <3>2, <3>4
    <3> QED BY <3>6, <3>7
  <2> QED BY <1>8, <2>2, <2>3, <2>4 DEF Conclude, EndWith, Enter
<1>9. CASE HeadersRead
  BY <1>9 DEF HeadersRead, Enter, Working
<1>10. CASE NoMediation
  BY <1>10 DEF NoMediation, Enter, Working
<1>11. CASE SolveStep
  BY <1>11 DEF SolveStep, Enter, Working
<1>12. CASE Mediated
  <2>1. stage' \in {"wait", "conclude", "settle", "guard", "navigate"} /\ mediation' \in Mediations
    BY <1>12 DEF Mediated, Enter, NavigateAgain, Mediations
  <2> QED BY <1>12, <2>1 DEF Mediated, Working
<1>13. CASE SettledByItself
  BY <1>13 DEF SettledByItself, Enter, Working
<1>14. CASE StillBlocked
  BY <1>14 DEF StillBlocked, NavigateAgain, Enter, Working
<1>15. ASSUME NEW sight \in Sights, NEW progress \in BOOLEAN, SettledRead(sight, progress) PROVE CaptureIInv'
  <2>1. /\ html' = [of |-> documents, sight |-> sight] /\ reused' \in BOOLEAN
        /\ stage = "settledRead" /\ stage' \in {"wait", "conclude", "guard", "navigate"}
        /\ UNCHANGED <<documents, navigatedTo, response, headersOf, mediation, outcome, answer>>
    BY <1>15 DEF SettledRead, NavigateAgain, Enter
  <2> QED BY <2>1
<1>16. CASE ConfirmationWaited
  BY <1>16 DEF ConfirmationWaited, Enter, Working
<1>17. CASE StageFails
  BY <1>17 DEF StageFails, EndWith, Enter, Working
<1>18. CASE PageClosed
  BY <1>18 DEF PageClosed, Answer, Enter, Working
<1>19. CASE HardTimeout
  BY <1>19 DEF HardTimeout, Enter, Working
<1>20. CASE PageMoves
  BY <1>20 DEF PageMoves
<1>21. ASSUME NEW sight \in Sights, ReadAfterWait(sight) PROVE CaptureIInv'
  BY <1>21 DEF ReadAfterWait, Enter, Working
<1> QED BY <1>1, <1>2, <1>3, <1>4, <1>5, <1>6, <1>7, <1>8, <1>9, <1>10, <1>11, <1>12, <1>13, <1>14, <1>15, <1>16, <1>17, <1>18, <1>19, <1>20, <1>21 DEF CaptureNext

\* The inductive invariant holds for ever.
THEOREM CaptureInvariant == CaptureSpec => []CaptureIInv
BY CaptureInitiallyHolds, CaptureStepHolds, PTL DEF CaptureSpec

-----------------------------------------------------------------------------
\* What is reported as cleared shows no wall, whatever the page did while the
\* provider looked at it (executeBrowserProvider).
THEOREM ClearedNeverShowsWall == CaptureSpec => []ClearedPagesShowNoWall
<1>1. CaptureIInv => ClearedPagesShowNoWall
  BY DEF CaptureIInv, Sound, ClearedPagesShowNoWall
<1> QED BY <1>1, CaptureInvariant, PTL

\* Status and headers of a result are of the document that the last navigation led to,
\* content and final URL are read no earlier and in this order, wherever the page moves
\* by itself and however often (executeBrowserProvider).
THEOREM PartsAlwaysFollowTheNavigation == CaptureSpec => []PartsFollowTheNavigation
<1>1. CaptureIInv => PartsFollowTheNavigation
  BY DEF CaptureIInv, Sound, PartsFollowTheNavigation
<1> QED BY <1>1, CaptureInvariant, PTL

\* A challenge is reported as cleared only when the last read of the page showed it
\* cleared (resolveBrowserChallenges).
THEOREM ClearanceAlwaysSeenLast == CaptureSpec => []ClearanceWasSeenLast
<1>1. CaptureInit => ClearanceWasSeenLast
  BY DEF CaptureInit, SolverInit, ClearanceWasSeenLast
<1>2. ClearanceWasSeenLast /\ [CaptureNext]_captureVars => ClearanceWasSeenLast'
  <2> SUFFICES ASSUME ClearanceWasSeenLast, [CaptureNext]_captureVars
               PROVE  ClearanceWasSeenLast'
    OBVIOUS
  <2>1. CASE UNCHANGED solverVars
    BY <2>1 DEF solverVars, ClearanceWasSeenLast, IsCleared
  <2>2. CASE SolverForgotten
    BY <2>2 DEF SolverForgotten, ClearanceWasSeenLast
  <2>3. CASE Solve
    BY <2>3 DEF Solve, Inspect, Emerge, BeginAttempt, Wait, SettleChallenge, TargetMissed,
                ClickClears, Confirm, ClickChanges, TargetFound, Click, ClickFails,
                RunOutOfTime, Expire, Report, RetryOrReport, SolverGoes,
                ClearanceWasSeenLast, IsCleared
  <2> QED BY <2>1, <2>2, <2>3
          DEF CaptureNext, captureVars, StartCapture, PageAllocated, NoPageAllocated,
              GuardRegistered, Navigated, PageMoves, Read, ReadAfterWait, Conclude, HeadersRead, NoMediation, SolveStep,
              Mediated, SettledByItself, StillBlocked, SettledRead, ConfirmationWaited,
              StageFails, PageClosed, HardTimeout
<1> QED BY <1>1, <1>2, PTL DEF CaptureSpec

-----------------------------------------------------------------------------
(* The selection of provider, egress and identity.                          *)

\* The mode's first provider by priority is one of those offered for the mode.
LEMMA SomeProviderIsFirst ==
  ASSUME NEW mode, Offered(mode) # {}
  PROVE  DefaultProvider(mode) \in Offered(mode)
<1> DEFINE Ranks == {ProviderRank[p] : p \in Offered(mode)}
<1>1. \A p \in Offered(mode) : ProviderRank[p] \in Nat
  BY SelectionAssumption DEF Offered, Providers
<1>2. Ranks \subseteq Nat /\ Ranks # {}
  BY <1>1
<1>3. PICK least \in Ranks : \A rank \in Ranks : ~(<<rank, least>> \in OpToRel(<, Nat))
  <2> HIDE DEF Ranks
  <2> QED BY <1>2, NatLessThanWellFounded, WFMin
<1>4. \A rank \in Ranks : least <= rank
  <2> HIDE DEF Ranks
  <2>1. \A rank \in Ranks : rank \in Nat /\ least \in Nat
    BY <1>2
  <2>2. \A rank \in Ranks : ~(rank < least)
    BY <1>3, <2>1 DEF OpToRel
  <2> QED BY <2>1, <2>2
<1>5. PICK p \in Offered(mode) : ProviderRank[p] = least
  OBVIOUS
<1>6. \A q \in Offered(mode) : ProviderRank[p] <= ProviderRank[q]
  BY <1>4, <1>5
<1> QED BY <1>6 DEF DefaultProvider

\* A preferred provider of a mode that has some is registered.
LEMMA PreferredIsRegistered ==
  ASSUME NEW mode, NEW default, Offered(mode) # {}
  PROVE  PreferredProvider(mode, default) \in Providers
<1>1. DefaultProvider(mode) \in Providers
  BY SomeProviderIsFirst DEF Offered
<1> QED BY <1>1 DEF PreferredProvider, CandidateProviders, Serves

\* The request for the fallback fits a browser, whatever the request was.
LEMMA FallbackFitsBrowsers ==
  ASSUME NEW r \in Requests, branch = "fallback"
  PROVE  /\ ~Contradictory(BrowserRequest(r))
         /\ TargetMode(BrowserRequest(r)) = "browser"
         /\ BrowserRequest(r).provider # Unset => Serves(BrowserRequest(r).provider, "browser")
         /\ BrowserRequest(r).default = r.default
         /\ BrowserRequest(r).lenient = r.lenient
<1>1. /\ BrowserRequest(r).mode = "browser" /\ BrowserRequest(r).http = Unset
      /\ BrowserRequest(r).default = r.default /\ BrowserRequest(r).lenient = r.lenient
      /\ BrowserRequest(r).provider = IF Serves(r.provider, "browser") THEN r.provider ELSE Unset
  BY SelectionAssumption DEF BrowserRequest
<1>2. Unset # "browser" /\ "http" # "browser"
  BY SelectionAssumption
<1>3. ~Contradictory(BrowserRequest(r))
  BY <1>1, <1>2 DEF Contradictory
<1>4. TargetMode(BrowserRequest(r)) = "browser"
  BY <1>1, <1>2 DEF TargetMode, RequestedMode
<1> QED BY <1>1, <1>3, <1>4

-----------------------------------------------------------------------------
\* A fallback is resolved for a request of the instance whose own path found its profiles,
\* and only where browsers are offered.
PathsInOrder ==
  /\ resolving = "idle" => branch = "base"
  /\ resolving # "idle" => asked \in Requests
  /\ resolving \in {"identity", "done"} \/ branch = "fallback" => ~ProfilesRefused(asked)
  /\ branch = "fallback" => Offered("browser") # {}

\* Signals are of a choice that was just made.
SignalsOfChoice ==
  /\ resolving \in {"idle", "provider", "planned", "refused"} => signals = NoSignals
  /\ DOMAIN chosen = {"provider", "egress", "identity", "warnings", "settings"}

SelectionIInv == PathsInOrder /\ SignalsOfChoice /\ FallbackNeverRefuses /\ QuarantineIsAvoided

LEMMA SelectionInitially == SelectionInit => SelectionIInv
BY SelectionAssumption
   DEF SelectionInit, SelectionIInv, PathsInOrder, SignalsOfChoice, FallbackNeverRefuses,
       QuarantineIsAvoided, Nothing

\* The commands have programs, and those that fall back need browsers.
LEMMA FallbackNeedsBrowsers ==
  ASSUME NEW r \in Requests, Programs[InferredCommand(r)].fallback
  PROVE  Offered("browser") # {}
<1>1. InferredCommand(r) \in {"access", "render", "extract"}
  <2>1. CASE r.command # Unset
    BY <2>1, SelectionAssumption DEF InferredCommand
  <2>2. CASE r.command = Unset /\ (r.mode = "browser" \/ r.browser # Unset)
    BY <2>2 DEF InferredCommand
  <2>3. CASE r.command = Unset /\ r.mode # "browser" /\ r.browser = Unset
    BY <2>3 DEF InferredCommand
  <2> QED BY <2>1, <2>2, <2>3
<1> QED BY <1>1 DEF Programs

LEMMA PathsStayInOrder == PathsInOrder /\ [SelectionNext]_selectionVars => PathsInOrder'
<1> SUFFICES ASSUME PathsInOrder, [SelectionNext]_selectionVars PROVE PathsInOrder'
  OBVIOUS
<1> USE DEF PathsInOrder
<1>1. CASE UNCHANGED selectionVars
  BY <1>1 DEF selectionVars, ProfilesRefused, DuplicateProfileIds, NotHttp
<1>2. CASE Ask
  BY <1>2 DEF Ask
<1>3. CASE RefuseSelection
  BY <1>3 DEF RefuseSelection
<1>4. CASE ResolveSelection
  BY <1>4 DEF ResolveSelection
<1>5. CASE RefuseProfiles
  BY <1>5 DEF RefuseProfiles
<1>6. CASE SelectEgress
  BY <1>6 DEF SelectEgress
<1>7. CASE SelectIdentity
  BY <1>7 DEF SelectIdentity
<1>8. CASE FinishPath
  <2>1. asked \in Requests /\ ~ProfilesRefused(asked) /\ asked' = asked
    BY <1>8 DEF FinishPath
  <2>2. CASE WantsFallback
    <3>1. Offered("browser") # {}
      BY <2>1, <2>2, FallbackNeedsBrowsers DEF WantsFallback
    <3> QED BY <1>8, <2>1, <2>2, <3>1 DEF FinishPath
  <2>3. CASE ~WantsFallback
    BY <1>8, <2>1, <2>3 DEF FinishPath
  <2> QED BY <2>2, <2>3
<1> QED BY <1>1, <1>2, <1>3, <1>4, <1>5, <1>6, <1>7, <1>8 DEF SelectionNext, ResolveIntent

\* No step refuses an access because of its fallback, but for the strict default.
LEMMA FallbackStillNeverRefuses ==
  ASSUME PathsInOrder, FallbackNeverRefuses, [SelectionNext]_selectionVars
  PROVE  FallbackNeverRefuses'
<1> USE DEF FallbackNeverRefuses
<1>1. CASE UNCHANGED selectionVars
  BY <1>1 DEF selectionVars
<1>2. CASE Ask
  BY <1>2 DEF Ask
<1>3. CASE RefuseSelection
  <2>1. CASE branch = "fallback"
    <3>1. asked \in Requests /\ Offered("browser") # {}
      BY <1>3, <2>1 DEF RefuseSelection, PathsInOrder
    <3>2. PathRequest = BrowserRequest(asked)
      BY <2>1 DEF PathRequest
    <3>3. /\ ~Contradictory(PathRequest)
          /\ TargetMode(PathRequest) = "browser"
          /\ PathRequest.provider # Unset => Serves(PathRequest.provider, "browser")
          /\ PathRequest.default = asked.default
          /\ PathRequest.lenient = asked.lenient
      BY <2>1, <3>1, <3>2, FallbackFitsBrowsers
    <3>4. PreferredProvider("browser", asked.default) \in Providers
      BY <3>1, PreferredIsRegistered
    <3>5. PathRequest.default \notin Providers /\ ~PathRequest.lenient
      BY <1>3, <3>3, <3>4 DEF RefuseSelection, ProviderRefused
    <3> QED BY <1>3, <3>3, <3>5 DEF RefuseSelection
  <2>2. CASE branch # "fallback"
    BY <1>3, <2>2 DEF RefuseSelection
  <2> QED BY <2>1, <2>2
<1>4. CASE ResolveSelection
  BY <1>4 DEF ResolveSelection
<1>5. CASE RefuseProfiles
  BY <1>5 DEF RefuseProfiles, PathsInOrder
<1>6. CASE SelectEgress
  BY <1>6 DEF SelectEgress
<1>7. CASE SelectIdentity
  BY <1>7 DEF SelectIdentity
<1>8. CASE FinishPath
  BY <1>8 DEF FinishPath
<1> QED BY <1>1, <1>2, <1>3, <1>4, <1>5, <1>6, <1>7, <1>8 DEF SelectionNext, ResolveIntent

-----------------------------------------------------------------------------
\* What is sorted first is in quarantine only when everything is: those that are not in
\* quarantine are a group that nobody outside beats.
LEMMA EgressOutOfQuarantine ==
  ASSUME NEW h \in ProfileHealth,
         NEW p \in SortedFirst(DOMAIN h, LAMBDA x, y : EgressBeats(h, x, y)),
         h[p].quarantined
  PROVE  \A q \in DOMAIN h : h[q].quarantined
<1> DEFINE free == {q \in DOMAIN h : ~h[q].quarantined}
<1>1. \A x \in free, y \in DOMAIN h \ free : ~EgressBeats(h, y, x)
  BY SelectionAssumption DEF EgressBeats
<1>2. \A T \in SUBSET DOMAIN h \ {{}} :
        (\A x \in T, y \in DOMAIN h \ T : ~EgressBeats(h, y, x)) => p \in T
  BY DEF SortedFirst
<1>3. free # {} => p \in free
  <2>1. free \subseteq DOMAIN h
    OBVIOUS
  <2> HIDE DEF free
  <2> QED BY <1>1, <1>2, <2>1
<1> QED BY <1>3

LEMMA IdentityOutOfQuarantine ==
  ASSUME NEW h \in ProfileHealth, NEW order, NEW p \in DOMAIN h, h[p].quarantined,
         \A T \in SUBSET DOMAIN h \ {{}} :
           (\A x \in T, y \in DOMAIN h \ T : ~IdentityBeats(h, order, y, x)) => p \in T
  PROVE  \A q \in DOMAIN h : h[q].quarantined
<1> DEFINE free == {q \in DOMAIN h : ~h[q].quarantined}
<1>1. \A x \in free, y \in DOMAIN h \ free : ~IdentityBeats(h, order, y, x)
  BY SelectionAssumption DEF IdentityBeats
<1>2. free # {} => p \in free
  <2>1. free \subseteq DOMAIN h
    OBVIOUS
  <2> HIDE DEF free
  <2> QED BY <1>1, <2>1
<1> QED BY <1>2

\* A preferred profile that is in quarantine and was left is told of.
LEMMA LeftProfileIsTold ==
  ASSUME NEW kind, NEW h, NEW preferred, NEW selected, NEW beaten,
         h[preferred].quarantined, ~h[selected].quarantined, beaten
  PROVE  <<kind, "overridden">> \in ProfileWarnings(kind, h, preferred, selected, beaten)
<1>1. selected # preferred
  OBVIOUS
<1> QED BY <1>1 DEF ProfileWarnings, PreferredProfileLessHealthy

LEMMA QuarantinedProfileIsTold ==
  ASSUME NEW kind, NEW h, NEW preferred, NEW selected, NEW beaten, h[selected].quarantined
  PROVE  <<kind, "quarantined">> \in ProfileWarnings(kind, h, preferred, selected, beaten)
BY DEF ProfileWarnings, QuarantineWarnings

\* The first of two values is the one asked for, or else the preferred one.
LEMMA FirstOfTwo ==
  ASSUME NEW value
  PROVE  FirstOf(<<Unset, value>>) = value
<1> DEFINE values == <<Unset, value>>
<1>1. DOMAIN values = {1, 2} /\ values[1] = Unset /\ values[2] = value
  OBVIOUS
<1>2. CASE value = Unset
  BY <1>1, <1>2 DEF FirstOf
<1>3. CASE value # Unset
  <2> HIDE DEF values
  <2>1. \A i \in DOMAIN values :
          (values[i] # Unset /\ \A j \in 1..(i - 1) : values[j] = Unset) <=> i = 2
    <3>1. \A j \in 1..(2 - 1) : j = 1
      OBVIOUS
    <3> QED BY <1>1, <1>3, <3>1
  <2>2. (CHOOSE i \in DOMAIN values :
           values[i] # Unset /\ \A j \in 1..(i - 1) : values[j] = Unset) = 2
    BY <1>1, <2>1
  <2>3. ~\A i \in DOMAIN values : values[i] = Unset
    BY <1>1, <1>3
  <2>4. FirstOf(values) = value
    BY <1>1, <2>2, <2>3 DEF FirstOf
  <2> QED BY <2>4 DEF values
<1> QED BY <1>2, <1>3

\* Each choice out of quarantine if anything is, and what it says about it.
LEMMA ResolvedOutOfQuarantine ==
  ASSUME PathsInOrder, SignalsOfChoice, ResolveSelection
  PROVE  QuarantineIsAvoided'
<1> DEFINE r == PathRequest
           mode == TargetMode(r)
           candidates == IF r.provider # Unset THEN {r.provider}
                         ELSE CandidateProviders(mode, r.default)
           preferred == PreferredProvider(mode, r.default)
<1>1. PICK h \in [candidates -> ProviderHealth], p \in candidates, domain \in BOOLEAN :
        /\ \A q \in candidates \ {p} : ProviderBeats(h, p, q, preferred)
        /\ signals' = h
        /\ chosen' = [chosen EXCEPT !.provider = p,
                        !.warnings = ProviderWarnings(h, FirstOf(<<r.provider, preferred>>),
                                                      p, domain)]
  BY DEF ResolveSelection
<1>2. /\ resolving' = "profiles"
      /\ asked' = asked /\ branch' = branch
      /\ chosen'.provider = p
      /\ chosen'.warnings = ProviderWarnings(h, FirstOf(<<r.provider, preferred>>), p, domain)
      /\ DOMAIN h = candidates
  BY <1>1 DEF ResolveSelection, SignalsOfChoice
<1>3. \A q \in candidates : h[q].quarantined \in BOOLEAN
  BY <1>1, SelectionAssumption
<1>4. PathRequest.default = asked.default
  <2>1. asked \in Requests
    BY DEF ResolveSelection, PathsInOrder
  <2> QED BY <2>1, SelectionAssumption DEF PathRequest, BrowserRequest
<1>5. /\ Choice'.kind = "provider" /\ Choice'.picked = p
      /\ Choice'.preferred = preferred
  <2>1. (PathRequest)' = PathRequest
    BY <1>2 DEF PathRequest
  <2>2. TargetMode(PathRequest)' = mode
    BY <1>2, <2>1 DEF TargetMode
  <2> QED BY <1>2, <1>4, <2>1, <2>2 DEF Choice
<1> HIDE DEF r, mode, candidates, preferred
<1>6. h[p].quarantined => \A q \in candidates : h[q].quarantined
  <2> SUFFICES ASSUME h[p].quarantined, NEW q \in candidates, q # p PROVE h[q].quarantined
    OBVIOUS
  <2>1. ProviderBeats(h, p, q, preferred)
    BY <1>1
  <2> QED BY <1>3, <2>1 DEF ProviderBeats
<1>7. h[p].quarantined => <<"provider", "quarantined">> \in chosen'.warnings
  BY <1>2 DEF ProviderWarnings, QuarantineWarnings
<1>8. ASSUME preferred \in candidates, h[preferred].quarantined, ~h[p].quarantined
      PROVE  <<"provider", "overridden">> \in chosen'.warnings
  <2>1. p # preferred
    BY <1>8
  <2>2. r.provider = Unset
    BY <1>1, <1>8, <2>1 DEF candidates
  <2>3. FirstOf(<<r.provider, preferred>>) = preferred
    BY <2>2, FirstOfTwo
  <2>4. ProviderBeats(h, p, preferred, preferred)
    BY <1>3, <1>8 DEF ProviderBeats
  <2>5. PreferredProviderLessHealthy(h, preferred, p)
    BY <1>3, <1>8 DEF PreferredProviderLessHealthy
  <2> QED BY <1>2, <2>1, <2>3, <2>4, <2>5 DEF ProviderWarnings
<1>9. signals' = h
  BY <1>1
<1> QED BY <1>2, <1>5, <1>6, <1>7, <1>8, <1>9 DEF QuarantineIsAvoided

LEMMA EgressChosenOutOfQuarantine ==
  ASSUME SignalsOfChoice, SelectEgress
  PROVE  QuarantineIsAvoided'
<1>1. PICK h \in HealthOf(asked.egress, Egresses) :
        \E p \in SortedFirst(DOMAIN h, LAMBDA x, y : EgressBeats(h, x, y)) :
          LET preferred == IF asked.egress = Unset THEN Direct ELSE p
          IN  /\ signals' = h
              /\ chosen' = [chosen EXCEPT !.egress = p,
                   !.warnings = @ \cup ProfileWarnings("egress", h, preferred, p,
                                         ~EgressBeats(h, preferred, p))]
  BY DEF SelectEgress
<1>2. PICK p \in SortedFirst(DOMAIN h, LAMBDA x, y : EgressBeats(h, x, y)) :
        LET preferred == IF asked.egress = Unset THEN Direct ELSE p
        IN  /\ signals' = h
            /\ chosen' = [chosen EXCEPT !.egress = p,
                 !.warnings = @ \cup ProfileWarnings("egress", h, preferred, p,
                                       ~EgressBeats(h, preferred, p))]
  BY <1>1
<1> DEFINE preferred == IF asked.egress = Unset THEN Direct ELSE p
           told == ProfileWarnings("egress", h, preferred, p, ~EgressBeats(h, preferred, p))
<1>3. /\ signals' = h
      /\ chosen'.egress = p
      /\ told \subseteq chosen'.warnings
      /\ resolving' = "identity"
  BY <1>2 DEF SelectEgress, SignalsOfChoice
<1>4. /\ h \in ProfileHealth /\ p \in DOMAIN h
      /\ asked.egress # Unset => \A q \in DOMAIN h : q = asked.egress
  BY DEF HealthOf, SortedFirst
<1>5. Choice'.kind = "egress" /\ Choice'.picked = p /\ Choice'.preferred = Direct
  BY <1>3 DEF Choice
<1>6. h[p].quarantined => \A q \in DOMAIN h : h[q].quarantined
  BY <1>4, EgressOutOfQuarantine
<1>7. h[p].quarantined => <<"egress", "quarantined">> \in chosen'.warnings
  BY <1>3, QuarantinedProfileIsTold
<1>8. ASSUME Direct \in DOMAIN h, h[Direct].quarantined, ~h[p].quarantined
      PROVE  <<"egress", "overridden">> \in chosen'.warnings
  <2>1. preferred = Direct
    <3>1. Direct # p /\ Direct \in DOMAIN h
      BY <1>8
    <3>2. asked.egress = Unset
      <4> HIDE DEF preferred, told
      <4> QED BY <1>4, <3>1
    <3> QED BY <3>2
  <2>2. ~EgressBeats(h, Direct, p)
    BY <1>4, <1>8, SelectionAssumption DEF EgressBeats
  <2>3. <<"egress", "overridden">> \in told
    BY <1>8, <2>1, <2>2, LeftProfileIsTold
  <2> QED BY <1>3, <2>3
<1> QED BY <1>3, <1>5, <1>6, <1>7, <1>8 DEF QuarantineIsAvoided

LEMMA IdentityChosenOutOfQuarantine ==
  ASSUME SignalsOfChoice, SelectIdentity
  PROVE  QuarantineIsAvoided'
<1> DEFINE order == IdentityOrder[chosen.provider]
<1>1. PICK h \in HealthOf(asked.identity, DOMAIN order) :
        \E p \in SortedFirst(DOMAIN h, LAMBDA x, y : IdentityBeats(h, order, x, y)) :
          LET preferred == IF asked.identity = Unset THEN PreferredIdentity(order) ELSE p
          IN  /\ signals' = h
              /\ chosen' = [chosen EXCEPT !.identity = p,
                   !.warnings = @ \cup ProfileWarnings("identity", h, preferred, p,
                                         ~IdentityBeats(h, order, preferred, p))]
  BY DEF SelectIdentity
<1>2. PICK p \in SortedFirst(DOMAIN h, LAMBDA x, y : IdentityBeats(h, order, x, y)) :
        LET preferred == IF asked.identity = Unset THEN PreferredIdentity(order) ELSE p
        IN  /\ signals' = h
            /\ chosen' = [chosen EXCEPT !.identity = p,
                 !.warnings = @ \cup ProfileWarnings("identity", h, preferred, p,
                                       ~IdentityBeats(h, order, preferred, p))]
  BY <1>1
<1> DEFINE preferred == IF asked.identity = Unset THEN PreferredIdentity(order) ELSE p
           told == ProfileWarnings("identity", h, preferred, p,
                                   ~IdentityBeats(h, order, preferred, p))
<1>3. /\ signals' = h
      /\ chosen'.identity = p /\ chosen'.provider = chosen.provider
      /\ told \subseteq chosen'.warnings
      /\ resolving' = "done"
  BY <1>2 DEF SelectIdentity, SignalsOfChoice
<1>4. /\ h \in ProfileHealth /\ p \in DOMAIN h
      /\ asked.identity # Unset => \A q \in DOMAIN h : q = asked.identity
  BY DEF HealthOf, SortedFirst
<1>5. /\ Choice'.kind = "identity" /\ Choice'.picked = p
      /\ Choice'.preferred = PreferredIdentity(order)
  BY <1>3 DEF Choice
<1>6. h[p].quarantined => \A q \in DOMAIN h : h[q].quarantined
  <2>1. \A T \in SUBSET DOMAIN h \ {{}} :
          (\A x \in T, y \in DOMAIN h \ T : ~IdentityBeats(h, order, y, x)) => p \in T
    BY DEF SortedFirst
  <2> HIDE DEF order
  <2> QED BY <1>4, <2>1, IdentityOutOfQuarantine
<1>7. h[p].quarantined => <<"identity", "quarantined">> \in chosen'.warnings
  BY <1>3, QuarantinedProfileIsTold
<1> DEFINE first == PreferredIdentity(order)
<1>8. ASSUME first \in DOMAIN h, h[first].quarantined, ~h[p].quarantined
      PROVE  <<"identity", "overridden">> \in chosen'.warnings
  <2>1. preferred = first
    <3>1. first # p /\ first \in DOMAIN h
      BY <1>8
    <3>2. asked.identity = Unset
      <4> HIDE DEF preferred, told
      <4> QED BY <1>4, <3>1
    <3> QED BY <3>2
  <2>2. ~IdentityBeats(h, order, first, p)
    BY <1>4, <1>8, SelectionAssumption DEF IdentityBeats
  <2>3. <<"identity", "overridden">> \in told
    BY <1>8, <2>1, <2>2, LeftProfileIsTold
  <2> QED BY <1>3, <2>3
<1> QED BY <1>3, <1>5, <1>6, <1>7, <1>8 DEF QuarantineIsAvoided

-----------------------------------------------------------------------------
LEMMA SignalsStayOfChoice ==
  ASSUME SignalsOfChoice, [SelectionNext]_selectionVars
  PROVE  SignalsOfChoice'
<1> USE DEF SignalsOfChoice
<1>1. CASE UNCHANGED selectionVars
  BY <1>1 DEF selectionVars
<1>2. CASE Ask
  BY <1>2 DEF Ask
<1>3. CASE RefuseSelection
  BY <1>3 DEF RefuseSelection
<1>4. CASE ResolveSelection
  BY <1>4 DEF ResolveSelection
<1>5. CASE RefuseProfiles
  BY <1>5 DEF RefuseProfiles
<1>6. CASE SelectEgress
  BY <1>6 DEF SelectEgress
<1>7. CASE SelectIdentity
  BY <1>7 DEF SelectIdentity
<1>8. CASE FinishPath
  BY <1>8 DEF FinishPath, Nothing
<1> QED BY <1>1, <1>2, <1>3, <1>4, <1>5, <1>6, <1>7, <1>8 DEF SelectionNext, ResolveIntent

LEMMA QuarantineStaysAvoided ==
  ASSUME PathsInOrder, SignalsOfChoice, QuarantineIsAvoided, [SelectionNext]_selectionVars
  PROVE  QuarantineIsAvoided'
<1>1. CASE UNCHANGED selectionVars
  <2>1. Choice' = Choice
    BY <1>1 DEF selectionVars, Choice, PathRequest, TargetMode
  <2> QED BY <1>1, <2>1 DEF selectionVars, QuarantineIsAvoided
<1>2. CASE Ask
  BY <1>2 DEF Ask, SignalsOfChoice, QuarantineIsAvoided
<1>3. CASE RefuseSelection
  BY <1>3 DEF RefuseSelection, QuarantineIsAvoided
<1>4. CASE ResolveSelection
  BY <1>4, ResolvedOutOfQuarantine
<1>5. CASE RefuseProfiles
  BY <1>5 DEF RefuseProfiles, QuarantineIsAvoided
<1>6. CASE SelectEgress
  BY <1>6, EgressChosenOutOfQuarantine
<1>7. CASE SelectIdentity
  BY <1>7, IdentityChosenOutOfQuarantine
<1>8. CASE FinishPath
  BY <1>8 DEF FinishPath, QuarantineIsAvoided
<1> QED BY <1>1, <1>2, <1>3, <1>4, <1>5, <1>6, <1>7, <1>8 DEF SelectionNext, ResolveIntent

\* The inductive invariant of a selection: requests, paths, signals and choices go together.
THEOREM SelectionInvariant == SelectionSpec => []SelectionIInv
<1>1. SelectionIInv /\ [SelectionNext]_selectionVars => SelectionIInv'
  BY PathsStayInOrder, SignalsStayOfChoice, FallbackStillNeverRefuses, QuarantineStaysAvoided
     DEF SelectionIInv
<1> QED BY <1>1, SelectionInitially, PTL DEF SelectionSpec

\* What is chosen without a name is in quarantine only if everything is, and says so
\* (QuarantineIsAvoided), for any profiles, healths and comparisons with tolerance.
THEOREM QuarantineIsAlwaysAvoided == SelectionSpec => []QuarantineIsAvoided
<1>1. SelectionIInv => QuarantineIsAvoided
  BY DEF SelectionIInv
<1> QED BY <1>1, SelectionInvariant, PTL

\* No fallback makes an access be refused but a strict default that is not registered
\* (FallbackNeverRefuses), whatever providers there are and whatever is asked for.
THEOREM FallbackNeverMakesRefuse == SelectionSpec => []FallbackNeverRefuses
<1>1. SelectionIInv => FallbackNeverRefuses
  BY DEF SelectionIInv
<1> QED BY <1>1, SelectionInvariant, PTL

-----------------------------------------------------------------------------
(* From crawl targets to permits.                                           *)

\* What a compiled plan keeps to: its host is in the domain of its target, plain http
\* leaves browsers alone, and its limits are numbers.
WellCompiled(compiled) ==
  /\ compiled.plan.host \in Below[compiled.config.domain]
  /\ compiled.config.mode = "http" => ~compiled.plan.browser
  /\ compiled.budget.global \in Nat
  /\ compiled.budget.perDomain \in Nat

CompilationsFit ==
  /\ \E S : known \in Seq(S)
  /\ \A n \in DOMAIN known : \A i \in DOMAIN known[n] : WellCompiled(known[n][i])

SchedulerFits ==
  \A id \in DOMAIN scheduler :
    scheduler[id].budget.global \in Nat /\ scheduler[id].budget.perDomain \in Nat

\* A permit is of the pool and the domain that are registered for its plan.
PermitFits(permit) ==
  /\ WellCompiled(permit.compiled)
  /\ permit.compiled.plan.budget \in DOMAIN scheduler
  /\ LET registration == scheduler[permit.compiled.plan.budget]
     IN  /\ permit.pool = <<permit.compiled.plan.policy, registration.budget.global,
                            registration.budget.perDomain>>
         /\ permit.domain = registration.domain

PermitsFit ==
  /\ DOMAIN permits = Captures
  /\ Holding # {} => scheduler # <<>>
  /\ \A c \in Holding : PermitFits(permits[c])

InPoolOf(permit) == {d \in Holding : permits[d].pool = permit.pool}
InDomainOf(permit) == {d \in InPoolOf(permit) : permits[d].domain = permit.domain}

\* No pool has more captures than room, nor has a domain in it.
PoolsHaveRoom ==
  \A c \in Holding : /\ Cardinality(InPoolOf(permits[c])) <= LimitsOf(c).global
                     /\ Cardinality(InDomainOf(permits[c])) <= LimitsOf(c).perDomain

PlanningIInv == CompilationsFit /\ SchedulerFits /\ PermitsFit /\ PoolsHaveRoom

-----------------------------------------------------------------------------
\* An entry that no check refuses compiles to a plan that fits.
LEMMA AcceptedEntryFits ==
  ASSUME NEW batch \in Batches, NEW i \in DOMAIN batch.entries,
         ~ConfigRefused(ResolvedConfig(batch.defaults, batch.entries[i]), batch.entries[i])
  PROVE  WellCompiled(CompiledEntry(batch.defaults, batch.entries[i]))
<1> DEFINE entry == batch.entries[i]
<1>1. PICK config : config = ResolvedConfig(batch.defaults, entry)
  OBVIOUS
<1>2. /\ config.domain = entry.target.domain
      /\ config.host \in Below[entry.target.domain]
  BY <1>1 DEF ConfigRefused
<1>3. config.global \in Nat /\ config.perDomain \in Nat
  BY <1>1, LimitsAssumption
<1>4. config.mode = "http" => ~RequiresBrowser(config, entry.target.kind)
  BY DEF RequiresBrowser
<1> HIDE DEF entry
<1>5. CompiledEntry(batch.defaults, entry) =
        [config |-> config, budget |-> ConcurrencyBudget(entry, config),
         plan |-> RunPlan(entry, config),
         checkpoint |-> InitialCheckpoint(RunPlan(entry, config))]
  BY <1>1 DEF CompiledEntry
<1>6. /\ RunPlan(entry, config).host = config.host
      /\ RunPlan(entry, config).browser = RequiresBrowser(config, entry.target.kind)
      /\ ConcurrencyBudget(entry, config).global = config.global
      /\ ConcurrencyBudget(entry, config).perDomain = config.perDomain
  BY DEF RunPlan, ConcurrencyBudget
<1>7. WellCompiled(CompiledEntry(batch.defaults, entry))
  BY <1>2, <1>3, <1>4, <1>5, <1>6 DEF WellCompiled
<1> QED BY <1>7 DEF entry

\* Sorting rearranges the entries.
LEMMA SortedAreEntries ==
  ASSUME NEW entries, NEW sorted \in InOrder(entries)
  PROVE  /\ DOMAIN sorted = DOMAIN entries
         /\ \A i \in DOMAIN sorted : \E j \in DOMAIN entries : sorted[i] = entries[j]
BY DEF InOrder, Bijection, Injection, Surjection, IsInjective

LEMMA AppendedLast ==
  ASSUME NEW s, \E S : s \in Seq(S), NEW x
  PROVE  /\ \E S : Append(s, x) \in Seq(S)
         /\ \A n \in DOMAIN Append(s, x) :
              \/ n \in DOMAIN s /\ Append(s, x)[n] = s[n]
              \/ Append(s, x)[n] = x
<1>1. PICK S : s \in Seq(S)
  OBVIOUS
<1> DEFINE wider == S \cup {x}
<1>2. s \in Seq(wider) /\ x \in wider
  BY <1>1
<1> HIDE DEF wider
<1>3. Append(s, x) \in Seq(wider)
  BY <1>2
<1>4. \A n \in DOMAIN Append(s, x) :
        \/ n \in DOMAIN s /\ Append(s, x)[n] = s[n]
        \/ Append(s, x)[n] = x
  BY <1>2
<1> QED BY <1>3, <1>4

LEMMA CompileStep ==
  ASSUME CompilationsFit, NEW batch \in Batches, CompileCrawlPlans(batch)
  PROVE  CompilationsFit'
<1>1. PICK sorted \in InOrder(batch.entries) :
        IF \/ InputRefused(batch)
           \/ \E i \in DOMAIN sorted :
                \/ ConfigRefused(ResolvedConfig(batch.defaults, sorted[i]), sorted[i])
                \/ PlanRefused(sorted[i])
        THEN refusals' = refusals + 1 /\ UNCHANGED known
        ELSE /\ known' = Append(known, [i \in DOMAIN sorted |->
                           CompiledEntry(batch.defaults, sorted[i])])
             /\ UNCHANGED refusals
  BY DEF CompileCrawlPlans
<1>2. CASE UNCHANGED known
  BY <1>2 DEF CompilationsFit
<1>3. CASE ~UNCHANGED known
  <2> DEFINE compiled == [i \in DOMAIN sorted |-> CompiledEntry(batch.defaults, sorted[i])]
  <2>1. /\ known' = Append(known, compiled)
        /\ \A i \in DOMAIN sorted :
             ~ConfigRefused(ResolvedConfig(batch.defaults, sorted[i]), sorted[i])
    BY <1>1, <1>3
  <2>2. \A i \in DOMAIN compiled : WellCompiled(compiled[i])
    <3> SUFFICES ASSUME NEW i \in DOMAIN sorted
                 PROVE  WellCompiled(CompiledEntry(batch.defaults, sorted[i]))
      OBVIOUS
    <3>1. PICK j \in DOMAIN batch.entries : sorted[i] = batch.entries[j]
      BY SortedAreEntries
    <3> QED BY <2>1, <3>1, AcceptedEntryFits
  <2> HIDE DEF compiled
  <2>3. /\ \E S : known' \in Seq(S)
        /\ \A n \in DOMAIN known' :
             \/ n \in DOMAIN known /\ known'[n] = known[n]
             \/ known'[n] = compiled
    BY <2>1, AppendedLast DEF CompilationsFit
  <2>4. \A n \in DOMAIN known' : \A i \in DOMAIN known'[n] : WellCompiled(known'[n][i])
    BY <2>2, <2>3 DEF CompilationsFit
  <2> QED BY <2>3, <2>4 DEF CompilationsFit
<1> QED BY <1>2, <1>3

\* The registrations of a compilation have the limits of its plans.
LEMMA RegistrationsFit ==
  ASSUME NEW compiled, \A i \in DOMAIN compiled : WellCompiled(compiled[i])
  PROVE  \A id \in DOMAIN WorkflowBudgetRegistrations(compiled) :
           LET registration == WorkflowBudgetRegistrations(compiled)[id]
           IN  registration.budget.global \in Nat /\ registration.budget.perDomain \in Nat
<1> DEFINE ids == {compiled[i].plan.budget : i \in DOMAIN compiled}
           of(id) == CHOOSE j \in DOMAIN compiled : compiled[j].plan.budget = id
<1>1. \A id \in ids : of(id) \in DOMAIN compiled
  OBVIOUS
<1>2. /\ DOMAIN WorkflowBudgetRegistrations(compiled) = ids
      /\ \A id \in ids : WorkflowBudgetRegistrations(compiled)[id].budget = compiled[of(id)].budget
  BY DEF WorkflowBudgetRegistrations
<1> HIDE DEF ids, of
<1> QED BY <1>1, <1>2 DEF WellCompiled

LEMMA HoldersAreFinite ==
  ASSUME NEW S, S \subseteq Captures
  PROVE  IsFiniteSet(S) /\ Cardinality(S) \in Nat
BY PlanningAssumption, FS_Subset, FS_CardinalityType

LEMMA PlanningInitially == PlanningInit => PlanningIInv
<1> SUFFICES ASSUME PlanningInit PROVE PlanningIInv
  OBVIOUS
<1>1. Holding = {}
  BY DEF PlanningInit, Holding
<1>2. known \in Seq({}) /\ DOMAIN known = {} /\ DOMAIN scheduler = {}
  BY DEF PlanningInit
<1> QED BY <1>1, <1>2
        DEF PlanningInit, PlanningIInv, CompilationsFit, SchedulerFits, PermitsFit, PoolsHaveRoom

\* While plans and permits stay as they are, so does what the permits keep to.
LEMMA PermitsUntouched ==
  ASSUME PermitsFit, PoolsHaveRoom, UNCHANGED <<scheduler, permits>>
  PROVE  PermitsFit' /\ PoolsHaveRoom'
BY DEF PermitsFit, PermitFits, PoolsHaveRoom, Holding, InPoolOf, InDomainOf, LimitsOf

LEMMA MakeSchedulerStep ==
  ASSUME PlanningIInv, NEW n \in DOMAIN known, MakeScheduler(n)
  PROVE  PlanningIInv'
<1>1. CompilationsFit'
  BY DEF PlanningIInv, CompilationsFit, MakeScheduler
<1>2. SchedulerFits'
  <2>1. \A i \in DOMAIN known[n] : WellCompiled(known[n][i])
    BY DEF PlanningIInv, CompilationsFit
  <2>2. \A id \in DOMAIN WorkflowBudgetRegistrations(known[n]) :
          LET registration == WorkflowBudgetRegistrations(known[n])[id]
          IN  registration.budget.global \in Nat /\ registration.budget.perDomain \in Nat
    BY <2>1, RegistrationsFit
  <2>3. scheduler' = WorkflowBudgetRegistrations(known[n])
    BY DEF MakeScheduler
  <2> QED BY <2>2, <2>3 DEF SchedulerFits
<1>3. Holding = {} /\ Holding' = {}
  BY DEF PlanningIInv, PermitsFit, MakeScheduler, Holding
<1>4. PermitsFit' /\ PoolsHaveRoom'
  BY <1>3 DEF PlanningIInv, PermitsFit, PoolsHaveRoom, MakeScheduler
<1> QED BY <1>1, <1>2, <1>4 DEF PlanningIInv

\* A permit fits what its plan was compiled to and what is registered for it.
LEMMA GivenPermitFits ==
  ASSUME PlanningIInv, NEW c \in Captures, NEW n \in DOMAIN known, NEW i \in DOMAIN known[n],
         WithPermit(c, known[n][i])
  PROVE  PermitsFit' /\ Holding' = Holding \cup {c}
<1> DEFINE compiled == known[n][i]
           registration == scheduler[compiled.plan.budget]
           permit == [compiled |-> compiled,
                      pool |-> <<compiled.plan.policy, registration.budget.global,
                                 registration.budget.perDomain>>,
                      domain |-> registration.domain]
<1>1. /\ permits' = [permits EXCEPT ![c] = permit]
      /\ scheduler' = scheduler /\ scheduler # <<>>
      /\ compiled.plan.budget \in DOMAIN scheduler
  BY DEF WithPermit, SharedWorkflowBudget
<1>2. WellCompiled(compiled)
  BY DEF PlanningIInv, CompilationsFit
<1>3. PermitFits(permit) /\ permit # <<>>
  BY <1>1, <1>2 DEF PermitFits
<1> HIDE DEF permit, compiled, registration
<1>4. DOMAIN permits' = Captures /\ \A d \in Captures : permits'[d] = IF d = c THEN permit ELSE permits[d]
  BY <1>1 DEF PlanningIInv, PermitsFit
<1>5. Holding' = Holding \cup {c}
  BY <1>3, <1>4 DEF Holding
<1>6. \A d \in Holding' : PermitFits(permits'[d])
  BY <1>3, <1>4, <1>5 DEF PlanningIInv, PermitsFit, Holding
<1>7. \A d \in Holding' : PermitFits(permits[d])'
  BY <1>1, <1>6 DEF PermitFits
<1> QED BY <1>1, <1>4, <1>5, <1>7 DEF PermitsFit

\* A capture that finds room in a pool and a domain leaves the others' limits as they are
\* and is one more in its own.
LEMMA RoomForOneMore ==
  ASSUME PlanningIInv, NEW c \in Captures, NEW n \in DOMAIN known, NEW i \in DOMAIN known[n],
         WithPermit(c, known[n][i])
  PROVE  PoolsHaveRoom'
<1>1. PICK compiled : compiled = known[n][i]
  OBVIOUS
<1>2. PICK registration : registration = scheduler[compiled.plan.budget]
  OBVIOUS
<1>3. PICK permit :
        permit = [compiled |-> compiled,
                  pool |-> <<compiled.plan.policy, registration.budget.global,
                             registration.budget.perDomain>>,
                  domain |-> registration.domain]
  OBVIOUS
<1> DEFINE pool == {d \in Holding : permits[d].pool = permit.pool}
           domain == {d \in pool : permits[d].domain = permit.domain}
<1>4. /\ permits' = [permits EXCEPT ![c] = permit]
      /\ permits[c] = <<>> /\ scheduler' = scheduler
      /\ Cardinality(pool) < registration.budget.global
      /\ Cardinality(domain) < registration.budget.perDomain
  BY <1>1, <1>2, <1>3 DEF WithPermit, SharedWorkflowBudget
<1>5. registration.budget.global \in Nat /\ registration.budget.perDomain \in Nat
  BY <1>1, <1>2 DEF PlanningIInv, SchedulerFits, WithPermit
<1>6. /\ Holding' = Holding \cup {c} /\ c \notin Holding /\ Holding \subseteq Captures
      /\ \A d \in Captures : permits'[d] = IF d = c THEN permit ELSE permits[d]
  BY <1>4, GivenPermitFits DEF PlanningIInv, PermitsFit, Holding
<1>7. permit.compiled = compiled
  BY <1>3
<1>8. \A d \in Holding' :
        /\ LimitsOf(d)' = scheduler[permits'[d].compiled.plan.budget].budget
        /\ InPoolOf(permits[d])' = {e \in Holding' : permits'[e].pool = permits'[d].pool}
        /\ InDomainOf(permits[d])' = {e \in Holding' : /\ permits'[e].pool = permits'[d].pool
                                                       /\ permits'[e].domain = permits'[d].domain}
  BY <1>4 DEF LimitsOf, InPoolOf, InDomainOf
<1> SUFFICES ASSUME NEW d \in Holding'
             PROVE  /\ Cardinality(InPoolOf(permits[d])') <= LimitsOf(d)'.global
                    /\ Cardinality(InDomainOf(permits[d])') <= LimitsOf(d)'.perDomain
  BY DEF PoolsHaveRoom
<1>9. PICK p : p = permits'[d]
  OBVIOUS
<1>10. PICK limits : limits = scheduler[p.compiled.plan.budget].budget
  OBVIOUS
<1>11. p.pool = permit.pool =>
         /\ limits.global = registration.budget.global
         /\ limits.perDomain = registration.budget.perDomain
  <2>1. CASE d = c
    BY <1>2, <1>6, <1>7, <1>9, <1>10, <2>1
  <2>2. CASE d # c
    <3>1. PermitFits(p)
      BY <1>6, <1>9, <2>2 DEF PlanningIInv, PermitsFit
    <3> QED BY <1>3, <1>10, <3>1 DEF PermitFits
  <2> QED BY <2>1, <2>2
<1>12. /\ IsFiniteSet(pool) /\ IsFiniteSet(domain)
       /\ Cardinality(pool) \in Nat /\ Cardinality(domain) \in Nat
  BY <1>6, HoldersAreFinite
<1> DEFINE alike == {e \in Holding' : permits'[e].pool = p.pool}
           near == {e \in alike : permits'[e].domain = p.domain}
<1>13. d # c => /\ Cardinality(InPoolOf(p)) <= limits.global
                /\ Cardinality(InDomainOf(p)) <= limits.perDomain
  BY <1>6, <1>9, <1>10 DEF PlanningIInv, PoolsHaveRoom, LimitsOf
<1>14. Cardinality(alike) <= limits.global
  <2>1. CASE p.pool = permit.pool
    <3>1. alike = pool \cup {c}
      BY <1>6, <2>1
    <3>2. Cardinality(pool \cup {c}) = Cardinality(pool) + 1
      BY <1>6, <1>12, FS_AddElement
    <3> HIDE DEF pool, alike
    <3> QED BY <1>4, <1>5, <1>11, <1>12, <2>1, <3>1, <3>2
  <2>2. CASE p.pool # permit.pool
    <3>1. d # c
      BY <1>6, <1>9, <2>2
    <3>2. alike = InPoolOf(p)
      BY <1>6, <2>2 DEF InPoolOf
    <3> QED BY <1>13, <3>1, <3>2
  <2> QED BY <2>1, <2>2
<1>15. Cardinality(near) <= limits.perDomain
  <2>1. CASE p.pool = permit.pool /\ p.domain = permit.domain
    <3>1. near = domain \cup {c}
      BY <1>6, <2>1
    <3>2. Cardinality(domain \cup {c}) = Cardinality(domain) + 1
      BY <1>6, <1>12, FS_AddElement
    <3> HIDE DEF pool, domain, alike, near
    <3> QED BY <1>4, <1>5, <1>11, <1>12, <2>1, <3>1, <3>2
  <2>2. CASE ~(p.pool = permit.pool /\ p.domain = permit.domain)
    <3>1. d # c
      BY <1>6, <1>9, <2>2
    <3>2. near = InDomainOf(p)
      BY <1>6, <2>2 DEF InPoolOf, InDomainOf
    <3> QED BY <1>13, <3>1, <3>2
  <2> QED BY <2>1, <2>2
<1>16. near = {e \in Holding' : permits'[e].pool = p.pool /\ permits'[e].domain = p.domain}
  OBVIOUS
<1> QED BY <1>8, <1>9, <1>10, <1>14, <1>15, <1>16

\* What is given back only makes room.
LEMMA ReleaseStep ==
  ASSUME PlanningIInv, NEW c \in Captures, ReleasePermit(c)
  PROVE  PlanningIInv'
<1>1. /\ \A d \in Captures : permits'[d] = IF d = c THEN <<>> ELSE permits[d]
      /\ DOMAIN permits' = Captures
      /\ scheduler' = scheduler /\ known' = known
  BY DEF ReleasePermit, PlanningIInv, PermitsFit
<1>2. Holding' = Holding \ {c} /\ Holding \subseteq Captures
  BY <1>1 DEF Holding
<1>3. CompilationsFit' /\ SchedulerFits'
  BY <1>1 DEF PlanningIInv, CompilationsFit, SchedulerFits
<1>4. PermitsFit'
  BY <1>1, <1>2 DEF PlanningIInv, PermitsFit, PermitFits
<1>5. PoolsHaveRoom'
  <2> SUFFICES ASSUME NEW d \in Holding'
               PROVE  /\ Cardinality(InPoolOf(permits[d])') <= LimitsOf(d)'.global
                      /\ Cardinality(InDomainOf(permits[d])') <= LimitsOf(d)'.perDomain
    BY DEF PoolsHaveRoom
  <2>1. d \in Holding /\ permits'[d] = permits[d]
    BY <1>1, <1>2
  <2>2. PICK p : p = permits[d]
    OBVIOUS
  <2>3. /\ InPoolOf(permits[d])' \subseteq InPoolOf(p)
        /\ InDomainOf(permits[d])' \subseteq InDomainOf(p)
        /\ LimitsOf(d)' = LimitsOf(d)
    BY <1>1, <1>2, <2>1, <2>2 DEF InPoolOf, InDomainOf, LimitsOf
  <2>4. InPoolOf(p) \subseteq Captures /\ InDomainOf(p) \subseteq Captures
    BY <1>2 DEF InPoolOf, InDomainOf
  <2>5. /\ Cardinality(InPoolOf(permits[d])') <= Cardinality(InPoolOf(p))
        /\ Cardinality(InDomainOf(permits[d])') <= Cardinality(InDomainOf(p))
    BY <2>3, <2>4, HoldersAreFinite, FS_Subset
  <2>6. /\ Cardinality(InPoolOf(p)) <= LimitsOf(d).global
        /\ Cardinality(InDomainOf(p)) <= LimitsOf(d).perDomain
    BY <2>1, <2>2 DEF PlanningIInv, PoolsHaveRoom
  <2>7. LimitsOf(d).global \in Nat /\ LimitsOf(d).perDomain \in Nat
    <3>1. PermitFits(permits[d])
      BY <2>1 DEF PlanningIInv, PermitsFit
    <3> QED BY <3>1 DEF PermitFits, PlanningIInv, SchedulerFits, LimitsOf
  <2>8. /\ Cardinality(InPoolOf(permits[d])') \in Nat
        /\ Cardinality(InDomainOf(permits[d])') \in Nat
        /\ Cardinality(InPoolOf(p)) \in Nat /\ Cardinality(InDomainOf(p)) \in Nat
    BY <2>3, <2>4, HoldersAreFinite
  <2> QED BY <2>3, <2>5, <2>6, <2>7, <2>8
<1> QED BY <1>3, <1>4, <1>5 DEF PlanningIInv

LEMMA PlanningStep == PlanningIInv /\ [PlanningNext]_planningVars => PlanningIInv'
<1> SUFFICES ASSUME PlanningIInv, [PlanningNext]_planningVars PROVE PlanningIInv'
  OBVIOUS
<1>1. CASE UNCHANGED planningVars
  BY <1>1, PermitsUntouched DEF PlanningIInv, CompilationsFit, SchedulerFits, planningVars
<1>2. ASSUME NEW batch \in Batches, CompileCrawlPlans(batch) PROVE PlanningIInv'
  <2>1. UNCHANGED <<scheduler, permits>>
    BY <1>2 DEF CompileCrawlPlans
  <2>2. CompilationsFit'
    BY <1>2, CompileStep DEF PlanningIInv
  <2> QED BY <2>1, <2>2, PermitsUntouched DEF PlanningIInv, SchedulerFits
<1>3. ASSUME NEW n \in DOMAIN known, MakeScheduler(n) PROVE PlanningIInv'
  BY <1>3, MakeSchedulerStep
<1>4. ASSUME NEW c \in Captures, NEW n \in DOMAIN known, NEW i \in DOMAIN known[n],
             WithPermit(c, known[n][i])
      PROVE  PlanningIInv'
  <2>1. UNCHANGED <<known, scheduler>>
    BY <1>4 DEF WithPermit
  <2>2. PermitsFit' /\ PoolsHaveRoom'
    BY <1>4, GivenPermitFits, RoomForOneMore
  <2> QED BY <2>1, <2>2 DEF PlanningIInv, CompilationsFit, SchedulerFits
<1>5. ASSUME NEW c \in Captures, ReleasePermit(c) PROVE PlanningIInv'
  BY <1>5, ReleaseStep
<1> QED BY <1>1, <1>2, <1>3, <1>4, <1>5 DEF PlanningNext

\* The inductive invariant of planning: plans fit their checks, and permits their plans and
\* the registrations, for any batches, targets, policies and captures.
THEOREM PlanningInvariant == PlanningSpec => []PlanningIInv
BY PlanningInitially, PlanningStep, PTL DEF PlanningSpec

\* Captures of one access policy and equal registered limits never exceed these together, and
\* keep to the domain of their target and to plain http (RegisteredLimitsAreShared).
THEOREM RegisteredLimitsAreAlwaysShared == PlanningSpec => []RegisteredLimitsAreShared
<1>1. PlanningIInv => RegisteredLimitsAreShared
  <2> SUFFICES ASSUME PlanningIInv, NEW c \in Holding
               PROVE  LET alike == {d \in Holding :
                                      /\ PolicyOf(d) = PolicyOf(c)
                                      /\ LimitsOf(d).global = LimitsOf(c).global
                                      /\ LimitsOf(d).perDomain = LimitsOf(c).perDomain}
                          compiled == permits[c].compiled
                      IN  /\ Cardinality(alike) <= LimitsOf(c).global
                          /\ Cardinality({d \in alike : permits[d].domain = permits[c].domain})
                               <= LimitsOf(c).perDomain
                          /\ compiled.plan.host \in Below[compiled.config.domain]
                          /\ compiled.config.mode = "http" => ~compiled.plan.browser
    BY DEF RegisteredLimitsAreShared
  <2> DEFINE alike == {d \in Holding : /\ PolicyOf(d) = PolicyOf(c)
                                       /\ LimitsOf(d).global = LimitsOf(c).global
                                       /\ LimitsOf(d).perDomain = LimitsOf(c).perDomain}
             near == {d \in alike : permits[d].domain = permits[c].domain}
  <2>1. \A d \in Holding :
          permits[d].pool = <<PolicyOf(d), LimitsOf(d).global, LimitsOf(d).perDomain>>
    BY DEF PlanningIInv, PermitsFit, PermitFits, PolicyOf, LimitsOf
  <2>2. \A d \in Holding : d \in alike <=> permits[d].pool = permits[c].pool
    BY <2>1
  <2>3. alike = InPoolOf(permits[c])
    BY <2>2 DEF InPoolOf
  <2>4. near = InDomainOf(permits[c])
    BY <2>3 DEF InDomainOf
  <2>5. WellCompiled(permits[c].compiled)
    BY DEF PlanningIInv, PermitsFit, PermitFits
  <2> QED BY <2>3, <2>4, <2>5 DEF PlanningIInv, PoolsHaveRoom, WellCompiled
<1> QED BY <1>1, PlanningInvariant, PTL
=============================================================================
