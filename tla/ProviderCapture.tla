--------------------------- MODULE ProviderCapture ---------------------------
(***************************************************************************)
(* One capture by a browser provider of the SDK                            *)
(* (src/sdk/access-provider-runtime.ts, executeBrowserProvider): a page of *)
(* the pool is guarded, navigated, read, cleared of a challenge, navigated *)
(* again if it had one, and given back.  Each stage may fail or never end; *)
(* a hard timer, set anew by every stage, then answers in its place and    *)
(* only asks the capture's fiber to stop.                                  *)
(*                                                                         *)
(* A page shows one document after the other, those the capture navigates  *)
(* to and those it moves to by itself; what a result is made of is named   *)
(* by the number of the document it was read from.                         *)
(***************************************************************************)
EXTENDS ChallengeSolver

CONSTANT MaxDocuments   \* bound: the page moves by itself up to this document

ASSUME DocumentsAssumption == MaxDocuments \in Nat

Sights == {"content", "wall", "browserError"}

CaptureStages == {"allocate", "guard", "navigate", "read", "headers", "solve", "settle",
           "settledRead", "wait", "conclude", "confirmWait", "close", "ended", "idle"}

VARIABLES
    stage,      \* what the capture's fiber is doing
    options,    \* [solve, waits]: solveCloudflare, and whether a wait is configured
    pass,       \* "first", "followUp" or "confirmation" navigation
    guarded,    \* routeGuardRegistered
    documents,  \* documents the page has shown
    navigatedTo,\* the document that the capture's last navigation led to
    html,       \* [of, sight], the content that was read last and what is seen in it
    response,   \* [of, ok], the response that was read last
    headersOf,  \* the document the headers are of
    mediation,  \* the status of the mediation outcome
    reused,     \* reusedSettledCurrentPage
    outcome,    \* what the fiber will end with
    stopped,
    timer,      \* which hard timeout is set: "page", "mediation" or "off"
    answer      \* what the caller got, or NoAnswer

captureVars == <<stage, options, pass, guarded, documents, navigatedTo, html, response,
                 headersOf, mediation, reused, outcome, stopped, timer, answer, solverVars>>

NoAnswer == [kind |-> "none"]
Failure == [kind |-> "failure"]
CaptureResult(h, r, headers, url, status) ==
    [kind |-> "result", html |-> h, response |-> r, headersOf |-> headers, urlOf |-> url,
     mediation |-> status]

CaptureInit ==
    /\ stage = "idle" /\ options = [solve |-> FALSE, waits |-> FALSE]
    /\ pass = "first" /\ guarded = FALSE
    /\ documents = 0 /\ navigatedTo = 0
    /\ html = [of |-> 0, sight |-> "content"]
    /\ response = [of |-> 0, ok |-> TRUE] /\ headersOf = 0
    /\ mediation = "none" /\ reused = FALSE
    /\ outcome = NoAnswer /\ stopped = FALSE
    /\ timer = "off" /\ answer = NoAnswer
    /\ SolverInit

-----------------------------------------------------------------------------
shown == <<documents, navigatedTo>>
page == <<guarded, shown, html, response, headersOf>>
course == <<options, pass, mediation, reused>>
ending == <<outcome, stopped, answer>>

\* A stage sets the hard timer to its own time.
Enter(next) ==
    /\ stage' = next
    /\ timer' = IF answer # NoAnswer THEN "off" ELSE IF next = "solve" THEN "mediation" ELSE "page"

Working == stage \notin {"idle", "allocate", "close", "ended"} /\ ~stopped

StartCapture(solve, waits) ==
    /\ stage = "idle"
    /\ options' = [solve |-> solve, waits |-> waits]
    /\ Enter("allocate")
    /\ UNCHANGED <<page, pass, mediation, reused, ending, solverVars>>

\* withPage has a page for the capture, whose guard waits if there may be a
\* challenge.  An allocation is not interrupted: its page is given back at once.
PageAllocated ==
    /\ stage = "allocate"
    /\ Enter(IF stopped THEN "close" ELSE IF options.solve THEN "navigate" ELSE "guard")
    /\ UNCHANGED <<page, course, ending, solverVars>>

\* The fiber's end is the caller's answer, unless a timeout was it.
Answer(what) ==
    /\ stage' = "ended" /\ timer' = "off"
    /\ answer' = IF answer = NoAnswer THEN what ELSE answer

NoPageAllocated ==
    /\ stage = "allocate"
    /\ Answer(Failure)
    /\ UNCHANGED <<page, course, outcome, stopped, solverVars>>

EndWith(what) == stage' = "close" /\ outcome' = what /\ timer' = timer

GuardRegistered ==
    /\ stage = "guard" /\ Working
    /\ guarded' = TRUE
    /\ Enter("navigate")
    /\ UNCHANGED <<shown, html, response, headersOf, course, ending, solverVars>>

Navigated(ok) ==
    /\ stage = "navigate" /\ Working
    /\ documents' = documents + 1 /\ navigatedTo' = documents + 1
    /\ response' = [of |-> documents + 1, ok |-> ok]
    /\ Enter("read")
    /\ UNCHANGED <<guarded, html, headersOf, course, ending, solverVars>>

\* The page moves to another document by itself, whatever the capture awaits:
\* scripts, redirects of the page, a challenge that clears.
PageMoves ==
    /\ stage \notin {"idle", "allocate", "close", "ended"} /\ documents \in 1..(MaxDocuments - 1)
    /\ documents' = documents + 1
    /\ UNCHANGED <<stage, timer, guarded, navigatedTo, html, response, headersOf, course, ending,
                   solverVars>>

\* The configured wait, if there is one, reads the page once more.
AfterReads == IF options.waits THEN "wait" ELSE "conclude"

Read(sight) ==
    /\ stage = "read" /\ Working
    /\ html' = [of |-> documents, sight |-> sight]
    /\ Enter("headers")
    /\ UNCHANGED <<guarded, shown, response, headersOf, course, ending, solverVars>>

\* A bug for the checks to find: the headers of the first navigation are kept.
HeadersReadOnce ==
    /\ stage = "headers" /\ Working
    /\ headersOf' = IF pass = "first" THEN response.of ELSE headersOf
    /\ Enter(IF pass = "first" THEN "solve" ELSE AfterReads)
    /\ UNCHANGED <<guarded, shown, html, response, course, ending, solverVars>>

HeadersRead ==
    /\ stage = "headers" /\ Working
    /\ headersOf' = response.of
    /\ Enter(IF pass = "first" THEN "solve" ELSE AfterReads)
    /\ UNCHANGED <<guarded, shown, html, response, course, ending, solverVars>>

-----------------------------------------------------------------------------
(* Mediation. *)

NoMediation ==
    /\ stage = "solve" /\ Working /\ ~options.solve
    /\ Enter(AfterReads)
    /\ UNCHANGED <<page, course, ending, solverVars>>

SolveStep ==
    /\ stage = "solve" /\ Working /\ options.solve
    /\ Solve
    /\ UNCHANGED <<stage, timer, page, course, ending>>

NavigateAgain == Enter(IF options.solve /\ ~guarded THEN "guard" ELSE "navigate")

\* Both a cleared challenge and a page that merely changed are followed up, and
\* both count as cleared until the follow-up shows otherwise.
Mediated ==
    /\ stage = "solve" /\ Working /\ solverAt = "reported"
    /\ LET followUp == resolution.followUp \/ resolution.refresh
       IN  /\ mediation' = IF ~resolution.detected THEN "none"
                           ELSE IF followUp THEN "cleared" ELSE "unresolved"
           /\ pass' = IF followUp THEN "followUp" ELSE pass
           /\ IF ~followUp THEN Enter(AfterReads)
              ELSE IF resolution.followUp /\ resolution.type = "managed" THEN Enter("settle")
              ELSE NavigateAgain
    /\ SolverForgotten
    /\ UNCHANGED <<page, options, reused, ending>>

\* waitForCloudflarePostClearanceSettle: the challenge is gone from the page, or not.
SettledByItself ==
    /\ stage = "settle" /\ Working
    /\ Enter("settledRead")
    /\ UNCHANGED <<page, course, ending, solverVars>>

StillBlocked ==
    /\ stage = "settle" /\ Working
    /\ NavigateAgain
    /\ UNCHANGED <<page, course, ending, solverVars>>

\* The settled page is used as it is, with status 200, if it is neither an error
\* page (after some time to recover) nor a wall and shows something new.
SettledRead(sight, progress) ==
    /\ stage = "settledRead" /\ Working
    /\ html' = [of |-> documents, sight |-> sight]
    /\ IF sight = "content" /\ progress
       THEN reused' = TRUE /\ Enter(AfterReads)
       ELSE NavigateAgain /\ UNCHANGED reused
    /\ UNCHANGED <<guarded, shown, response, headersOf, options, pass, mediation, ending,
                   solverVars>>

-----------------------------------------------------------------------------
(* The end of a pass. *)

StatusIsOk == (reused /\ pass # "confirmation") \/ response.ok

\* A bug for the checks to find: the status is that of the mediation.
MediationStandsAsIs(sight) == mediation

\* A clearance after which the page is still a wall was none.
FinalMediation(sight) ==
    IF mediation = "cleared" /\ sight = "wall" THEN "unresolved" ELSE mediation

ReadAfterWait(sight) ==
    /\ stage = "wait" /\ Working
    /\ html' = [of |-> documents, sight |-> sight]
    /\ Enter("conclude")
    /\ UNCHANGED <<guarded, shown, response, headersOf, course, ending, solverVars>>

\* What is seen at the end: an error page is told by its content, a wall by the URL,
\* too, which is that of the document the page shows by then.
SeenAtTheEnd(sight) ==
    \/ sight = html.sight
    \/ documents > html.of /\ "browserError" \notin {sight, html.sight}

\* An error page fails, so does a bad status without a wall unless the navigation was
\* the confirmation; a wall after a clearance is navigated once more.
Conclude(sight) ==
    /\ stage = "conclude" /\ Working
    /\ SeenAtTheEnd(sight)
    /\ html' = [html EXCEPT !.sight = sight]
    /\ CASE sight = "browserError" -> EndWith(Failure)
         [] sight = "content" /\ ~StatusIsOk /\ pass # "confirmation" -> EndWith(Failure)
         [] sight = "wall" /\ mediation = "cleared" /\ pass = "followUp" ->
              Enter("confirmWait") /\ UNCHANGED outcome
         [] OTHER ->
              /\ outcome' = CaptureResult(html', response, headersOf, documents,
                                          FinalMediation(sight))
              /\ Enter("close")
    /\ UNCHANGED <<guarded, shown, response, headersOf, course, stopped, answer, solverVars>>

ConfirmationWaited ==
    /\ stage = "confirmWait" /\ Working
    /\ pass' = "confirmation"
    /\ Enter("navigate")
    /\ UNCHANGED <<page, options, mediation, reused, ending, solverVars>>

\* Any stage may fail: by its operation, by a blocked or missing response, or by
\* its own hard timer, which is as long as the one around it.
StageFails ==
    /\ Working
    /\ EndWith(Failure)
    /\ UNCHANGED <<page, course, stopped, answer, solverVars>>

PageClosed ==
    /\ stage = "close"
    /\ Answer(outcome)
    /\ UNCHANGED <<page, course, outcome, stopped, solverVars>>

\* The hard timer fires: the caller is answered, the fiber is asked to stop.
HardTimeout ==
    /\ timer # "off"
    /\ timer' = "off" /\ stopped' = TRUE
    /\ answer' = Failure
    /\ stage' = IF Working THEN "close" ELSE stage
    /\ outcome' = IF Working THEN Failure ELSE outcome
    /\ UNCHANGED <<page, course, solverVars>>

CaptureNext ==
    \/ \E solve, waits \in BOOLEAN : StartCapture(solve, waits)
    \/ PageAllocated \/ NoPageAllocated \/ GuardRegistered
    \/ \E ok \in BOOLEAN : Navigated(ok)
    \/ PageMoves
    \/ \E sight \in Sights : Read(sight) \/ ReadAfterWait(sight) \/ Conclude(sight)
    \/ HeadersRead
    \/ NoMediation \/ SolveStep \/ Mediated
    \/ SettledByItself \/ StillBlocked
    \/ \E sight \in Sights, progress \in BOOLEAN : SettledRead(sight, progress)
    \/ ConfirmationWaited
    \/ StageFails \/ PageClosed \/ HardTimeout

-----------------------------------------------------------------------------
\* What is reported as cleared shows no wall: neither a click that only changed the
\* page, nor a wait in which the wall came back, leaves the status "cleared".
ClearedPagesShowNoWall ==
    answer.kind = "result" /\ answer.mediation = "cleared" => answer.html.sight # "wall"

\* However often the capture navigates, and wherever the page moves meanwhile: the status
\* and the headers of a result are of one document, the one its last navigation led to;
\* the content is no older than they are, and the final URL no older than the content.
\* So they are of one document unless the page moved by itself after that navigation,
\* which the provider does not notice.
PartsFollowTheNavigation ==
    answer.kind = "result" =>
        /\ answer.response.of = navigatedTo /\ answer.headersOf = navigatedTo
        /\ navigatedTo <= answer.html.of /\ answer.html.of <= answer.urlOf
=============================================================================
