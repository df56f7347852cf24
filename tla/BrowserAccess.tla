---------------------------- MODULE BrowserAccess ----------------------------
(***************************************************************************)
(* Browser captures of libs/foundation/core (browser-access-runtime.ts):   *)
(* concurrent captures of one layer scope share a lazily loaded engine and *)
(* one browser process.  The first capture launches the process, the       *)
(* others wait for it; a capture that violates the policy or crashes       *)
(* closes the process it used, and a crashed one launches the next         *)
(* generation; closing the scope closes the process.  Every open and close *)
(* is reported to the leak detector.                                       *)
(*                                                                         *)
(* An action runs a fiber from one place where it may be suspended to the  *)
(* next.                                                                   *)
(***************************************************************************)
EXTENDS BrowserLeaks, FiniteSets

CONSTANTS Captures,     \* the capture calls of the scope
          CutShort      \* those an interruption may hit in a load, launch or reset

ASSUME BrowserAccessAssumption == CutShort \subseteq Captures /\ IsFiniteSet(Captures)

None == -1                      \* no generation

Stages == {"new", "loading", "awaitRuntime", "process", "launching", "awaitProcess",
           "closingLate", "context", "page", "use", "closingPage", "closingContext",
           "recycle", "resetting", "done"}
Endings == {"none", "artifacts", "timeout", "policy", "crash", "unavailable", "interrupted",
            "cutShort"}
Statuses == {"idle", "launching", "ready", "closed"}

VARIABLES
    scope,      \* the layer's scope: "open", "closing" its browser, "closed"
    runtime,    \* the scope's runtime handle: a status
    process,    \* [status, gen, next]: the browser process and its generation
    browsers,   \* the generations whose browser process runs
    abandoned,  \* the generations whose launch nobody waits for
    contexts,   \* <<capture, generation>>: the contexts open in running browsers
    at,         \* the stage of a capture
    handle,     \* the generation a capture uses
    ending,     \* how a capture ends
    detector,   \* the leak detector
    telemetry   \* [plan, from, to]: the crash reports; to is None if not recovered

sharedVars == <<scope, runtime, process>>
resourceVars == <<browsers, abandoned, contexts, detector>>
captureVars == <<at, handle, ending>>
vars == <<sharedVars, resourceVars, captureVars, telemetry>>

Generations == Nat \cup {None}

TypeOK ==
    /\ scope \in {"open", "closing", "closed"}
    /\ runtime \in Statuses
    /\ process \in [status: Statuses, gen: Generations, next: Nat]
    /\ browsers \subseteq Nat /\ abandoned \subseteq Nat
    /\ contexts \subseteq Captures \X Nat
    /\ at \in [Captures -> Stages]
    /\ handle \in [Captures -> Generations]
    /\ ending \in [Captures -> Endings]
    /\ detector \in Detectors
    /\ telemetry \subseteq [plan: Captures, from: Nat, to: Generations]

Init ==
    /\ scope = "open"
    /\ runtime = "idle"
    /\ process = [status |-> "idle", gen |-> None, next |-> 0]
    /\ browsers = {} /\ abandoned = {} /\ contexts = {}
    /\ at = [c \in Captures |-> "new"]
    /\ handle = [c \in Captures |-> None]
    /\ ending = [c \in Captures |-> "none"]
    /\ detector = Unused
    /\ telemetry = {}

-----------------------------------------------------------------------------
Goes(c, stage) == at' = [at EXCEPT ![c] = stage]

Ends(c, how) == ending' = [ending EXCEPT ![c] = how]

\* A capture that crashed asks for a process a second time, to recover.
Recovering(c) == ending[c] = "crash"

Waiting(stage) == {c \in Captures : at[c] = stage}

Crashed(S) == {c \in S : Recovering(c)}

\* The captures of S are given a generation: a crashed one reports that it
\* recovered and fails, the others go on to open a context.
Receive(S, gen) ==
    /\ handle' = [c \in Captures |-> IF c \in S \ Crashed(S) THEN gen ELSE handle[c]]
    /\ telemetry' = telemetry \cup {[plan |-> c, from |-> handle[c], to |-> gen] : c \in Crashed(S)}

StageWith(c) == IF Recovering(c) THEN "done" ELSE "context"

\* The captures of S get no process: a crashed one reports that and fails.
Refuse(S) ==
    /\ at' = [c \in Captures |-> IF c \in S THEN "done" ELSE at[c]]
    /\ ending' = [c \in Captures |-> IF c \in S \ Crashed(S) THEN "unavailable" ELSE ending[c]]
    /\ telemetry' = telemetry \cup {[plan |-> c, from |-> handle[c], to |-> None] : c \in Crashed(S)}
    /\ UNCHANGED handle

\* The browser of a generation closes, with the contexts in it.
CloseBrowser(gen) ==
    /\ browsers' = browsers \ {gen}
    /\ contexts' = {x \in contexts : x[2] # gen}
    /\ detector' = Closed(detector, "browsers")
    /\ UNCHANGED abandoned

-----------------------------------------------------------------------------
\* A plan that does not begin with a browser capture reaches no runtime.
RejectPlan(c) ==
    /\ at[c] = "new"
    /\ Goes(c, "done") /\ Ends(c, "policy")
    /\ UNCHANGED <<sharedVars, resourceVars, handle, telemetry>>

AskRuntime(c) ==
    /\ at[c] = "new"
    /\ \/ runtime = "ready" /\ Goes(c, "process") /\ UNCHANGED <<runtime, ending>>
       \/ runtime = "launching" /\ Goes(c, "awaitRuntime") /\ UNCHANGED <<runtime, ending>>
       \/ runtime = "closed" /\ Goes(c, "done") /\ Ends(c, "unavailable") /\ UNCHANGED runtime
       \/ runtime = "idle" /\ runtime' = "launching" /\ Goes(c, "loading") /\ UNCHANGED ending
    /\ UNCHANGED <<scope, process, resourceVars, handle, telemetry>>

ClosedProcess == [process EXCEPT !.status = "closed", !.gen = None]

\* The engine is there: whoever waited has the runtime, which is shut down at
\* once if the scope was closed meanwhile.
EngineLoads(c) ==
    /\ at[c] = "loading"
    /\ IF runtime = "closed" THEN process' = ClosedProcess /\ UNCHANGED runtime
                             ELSE runtime' = "ready" /\ UNCHANGED process
    /\ at' = [d \in Captures |-> IF d = c \/ at[d] = "awaitRuntime" THEN "process" ELSE at[d]]
    /\ UNCHANGED <<scope, resourceVars, handle, ending, telemetry>>

\* The next capture loads the engine again.
EngineMissing(c) ==
    /\ at[c] = "loading"
    /\ runtime' = IF runtime = "closed" THEN "closed" ELSE "idle"
    /\ Refuse({c} \cup Waiting("awaitRuntime"))
    /\ UNCHANGED <<scope, process, resourceVars>>

AskProcess(c) ==
    /\ at[c] = "process"
    /\ \/ /\ process.status = "ready"
          /\ Receive({c}, process.gen) /\ Goes(c, StageWith(c))
          /\ UNCHANGED <<process, ending>>
       \/ /\ process.status = "launching"
          /\ Goes(c, "awaitProcess")
          /\ UNCHANGED <<process, handle, ending, telemetry>>
       \/ /\ process.status = "closed"
          /\ Refuse({c})
          /\ UNCHANGED process
       \/ /\ process.status = "idle"
          /\ process' = [process EXCEPT !.status = "launching", !.gen = process.next]
          /\ Goes(c, "launching")
          /\ UNCHANGED <<handle, ending, telemetry>>
    /\ UNCHANGED <<scope, runtime, resourceVars>>

\* The generation a launching capture launches, which the state keeps as the
\* next one until the launch succeeds, even when the scope is closed.
Launched == process.next

\* The browser is up.  Everyone who waited gets its handle, even when the scope
\* was closed meanwhile; then the launching capture closes it again.
LaunchSucceeds(c) ==
    /\ at[c] = "launching"
    /\ browsers' = browsers \cup {Launched}
    /\ detector' = Opened(detector, "browsers")
    /\ LET closed == process.status = "closed"
           served == Waiting("awaitProcess") \cup (IF closed THEN {} ELSE {c})
       IN  /\ process' = IF closed THEN process
                         ELSE [status |-> "ready", gen |-> Launched, next |-> Launched + 1]
           /\ Receive(served, Launched)
           /\ at' = [d \in Captures |-> IF d \in served THEN StageWith(d)
                                        ELSE IF d = c THEN "closingLate" ELSE at[d]]
    /\ UNCHANGED <<scope, runtime, abandoned, contexts, ending>>

CloseAfterLaunch(c) ==
    /\ at[c] = "closingLate"
    /\ CloseBrowser(Launched)
    /\ Receive({c}, Launched) /\ Goes(c, StageWith(c))
    /\ UNCHANGED <<sharedVars, ending>>

\* A bug for the checks to find: a failed launch is not taken back.
LaunchFailsForGood(c) ==
    /\ at[c] = "launching"
    /\ Refuse({c} \cup Waiting("awaitProcess"))
    /\ UNCHANGED <<scope, runtime, process, resourceVars>>

\* The next launch will have the number of the failed one.
LaunchFails(c) ==
    /\ at[c] = "launching"
    /\ process' = IF process.status = "closed" THEN process
                  ELSE [status |-> "idle", gen |-> None, next |-> Launched]
    /\ Refuse({c} \cup Waiting("awaitProcess"))
    /\ UNCHANGED <<scope, runtime, resourceVars>>

-----------------------------------------------------------------------------
\* What a call to the browser may come to: only a running browser answers.
Failures(c) == {"crash", "timeout"} \cup (IF handle[c] \in browsers THEN {"policy"} ELSE {})

\* A failure that recycles the process does so once the capture's own
\* resources are closed.
StageAfter(how) == IF how \in {"policy", "crash"} THEN "recycle" ELSE "done"

\* Opening a context cannot be interrupted: an interruption shows afterwards.
NewContext(c) ==
    /\ at[c] = "context" /\ handle[c] \in browsers
    /\ contexts' = contexts \cup {<<c, handle[c]>>}
    /\ detector' = Opened(detector, "contexts")
    /\ \/ Goes(c, "page") /\ UNCHANGED ending
       \/ Goes(c, "closingContext") /\ Ends(c, "interrupted")
    /\ UNCHANGED <<sharedVars, browsers, abandoned, handle, telemetry>>

\* No context: the call failed, or its context belongs to another session and
\* was closed again, or the deadline passed.  After the deadline the browser may
\* still open the context, which then belongs to nobody.
NoContext(c) ==
    /\ at[c] = "context"
    /\ \E how \in Failures(c) :
        /\ Ends(c, how) /\ Goes(c, StageAfter(how))
        /\ \/ UNCHANGED contexts
           \/ how = "timeout" /\ handle[c] \in browsers
              /\ contexts' = contexts \cup {<<c, handle[c]>>}
    /\ UNCHANGED <<sharedVars, browsers, abandoned, detector, handle, telemetry>>

NewPage(c) ==
    /\ at[c] = "page" /\ handle[c] \in browsers
    /\ detector' = Opened(detector, "pages")
    /\ Goes(c, "use")
    /\ UNCHANGED <<sharedVars, browsers, abandoned, contexts, handle, ending, telemetry>>

NoPage(c) ==
    /\ at[c] = "page"
    /\ \E how \in Failures(c) : Ends(c, how)
    /\ Goes(c, "closingContext")
    /\ UNCHANGED <<sharedVars, resourceVars, handle, telemetry>>

\* Navigation, the check of the origin, and what is read of the page.
Use(c) ==
    /\ at[c] = "use"
    /\ \E how \in Failures(c) \cup (IF handle[c] \in browsers THEN {"artifacts"} ELSE {}) : Ends(c, how)
    /\ Goes(c, "closingPage")
    /\ UNCHANGED <<sharedVars, resourceVars, handle, telemetry>>

ClosePage(c) ==
    /\ at[c] = "closingPage"
    /\ detector' = Closed(detector, "pages")
    /\ Goes(c, "closingContext")
    /\ UNCHANGED <<sharedVars, browsers, abandoned, contexts, handle, ending, telemetry>>

CloseContext(c) ==
    /\ at[c] = "closingContext"
    /\ contexts' = contexts \ {<<c, handle[c]>>}
    /\ detector' = Closed(detector, "contexts")
    /\ Goes(c, StageAfter(ending[c]))
    /\ UNCHANGED <<sharedVars, browsers, abandoned, handle, ending, telemetry>>

\* What a capture does once its process is out of the way.
AfterReset(c) == IF Recovering(c) THEN "process" ELSE "done"

\* A bug for the checks to find: any generation that is ready is reset.
RecycleAny(c) ==
    /\ at[c] = "recycle"
    /\ IF process.status = "ready"
       THEN process' = [process EXCEPT !.status = "idle", !.gen = None] /\ Goes(c, "resetting")
       ELSE Goes(c, AfterReset(c)) /\ UNCHANGED process
    /\ UNCHANGED <<scope, runtime, resourceVars, handle, ending, telemetry>>

\* The capture takes its generation out of the state, unless somebody did, and
\* closes it afterwards.
Recycle(c) ==
    /\ at[c] = "recycle"
    /\ IF process.status = "ready" /\ process.gen = handle[c]
       THEN process' = [process EXCEPT !.status = "idle", !.gen = None] /\ Goes(c, "resetting")
       ELSE Goes(c, AfterReset(c)) /\ UNCHANGED process
    /\ UNCHANGED <<scope, runtime, resourceVars, handle, ending, telemetry>>

FinishReset(c) ==
    /\ at[c] = "resetting"
    /\ CloseBrowser(handle[c])
    /\ Goes(c, AfterReset(c))
    /\ UNCHANGED <<sharedVars, handle, ending, telemetry>>

-----------------------------------------------------------------------------
\* The scope closes: its runtime shuts down, and a ready process is closed.
CloseScope ==
    /\ scope = "open"
    /\ runtime' = "closed"
    /\ process' = IF runtime # "ready" THEN process
                  ELSE [process EXCEPT !.status = "closed",
                                       !.gen = IF process.status = "ready" THEN @ ELSE None]
    /\ scope' = IF runtime = "ready" /\ process.status = "ready" THEN "closing" ELSE "closed"
    /\ UNCHANGED <<resourceVars, captureVars, telemetry>>

FinishShutdown ==
    /\ scope = "closing"
    /\ CloseBrowser(process.gen)
    /\ scope' = "closed"
    /\ process' = ClosedProcess
    /\ UNCHANGED <<runtime, captureVars, telemetry>>

\* Interrupting a waiting capture ends it; one that uses its page closes it
\* first.
Interrupt(c) ==
    /\ \/ at[c] \in {"awaitRuntime", "awaitProcess"} /\ Goes(c, "done")
       \/ at[c] = "use" /\ Goes(c, "closingPage")
    /\ Ends(c, "interrupted")
    /\ UNCHANGED <<sharedVars, resourceVars, handle, telemetry>>

\* Only failures of a load or a launch are handled, so an interrupted one stays
\* in the state; the browser still comes up.
InterruptLaunch(c) ==
    /\ c \in CutShort
    /\ at[c] \in {"loading", "launching"}
    /\ abandoned' = IF at[c] = "launching" THEN abandoned \cup {Launched} ELSE abandoned
    /\ Goes(c, "done") /\ Ends(c, "cutShort")
    /\ UNCHANGED <<sharedVars, browsers, contexts, detector, handle, telemetry>>

\* A close that was asked for goes on, but the detector is not told of it.
InterruptClose(c) ==
    /\ c \in CutShort
    /\ at[c] \in {"resetting", "closingLate"}
    /\ LET gen == IF at[c] = "resetting" THEN handle[c] ELSE Launched
       IN  browsers' = browsers \ {gen} /\ contexts' = {x \in contexts : x[2] # gen}
    /\ Goes(c, "done") /\ Ends(c, "cutShort")
    /\ UNCHANGED <<sharedVars, abandoned, detector, handle, telemetry>>

AbandonedOpens ==
    \E gen \in abandoned :
        /\ abandoned' = abandoned \ {gen}
        /\ browsers' = browsers \cup {gen}
        /\ UNCHANGED <<sharedVars, contexts, detector, captureVars, telemetry>>

AllDone ==
    /\ \A c \in Captures : at[c] = "done"
    /\ scope = "closed"
    /\ UNCHANGED vars

\* Answers of the engine and the browser, and what a fiber does with them.
Answered(c) ==
    \/ EngineLoads(c) \/ EngineMissing(c)
    \/ LaunchSucceeds(c) \/ LaunchFails(c)
    \/ NewContext(c) \/ NoContext(c)
    \/ NewPage(c) \/ NoPage(c)
    \/ Use(c) \/ ClosePage(c) \/ CloseContext(c)
    \/ FinishReset(c) \/ CloseAfterLaunch(c)

Decided(c) == AskProcess(c) \/ Recycle(c)

Next ==
    \/ \E c \in Captures :
        \/ RejectPlan(c) \/ AskRuntime(c)
        \/ Decided(c) \/ Answered(c)
        \/ Interrupt(c) \/ InterruptLaunch(c) \/ InterruptClose(c)
    \/ CloseScope \/ FinishShutdown \/ AbandonedOpens
    \/ AllDone

\* Every call to the engine or a browser is answered: a capture's calls have a
\* deadline, and a launch has the engine's own.  Nobody must call, interrupt, or
\* close the scope.
Fairness ==
    /\ \A c \in Captures : WF_vars(Decided(c) \/ Answered(c))
    /\ WF_vars(FinishShutdown)

Spec == Init /\ [][Next]_vars /\ Fairness

-----------------------------------------------------------------------------
\* An interruption cut a load, a launch or a close short.
SomeCutShort == \E c \in Captures : ending[c] = "cutShort"

\* No capture that was called is under way; every capture is called once, so one
\* that never ends keeps this false.
Ended == \A c \in Captures : at[c] \in {"new", "done"}

\* Who closes a browser that is running: a capture the one it resets or
\* launched too late.
Closers(gen) ==
    {c \in Captures : \/ at[c] = "resetting" /\ handle[c] = gen
                      \/ at[c] = "closingLate" /\ Launched = gen}

\* Every browser process that runs is either the one in the state, which the
\* scope closes, or exactly one capture is about to close it: captures that fail
\* together close it once, and no reset forgets one
\* (resetBrowserProcess, releaseBrowserProcess, releaseAfterLaunch).
EachBrowserHasItsCloser ==
    ~SomeCutShort => \A gen \in browsers :
        Cardinality(Closers(gen)) + (IF process.gen = gen THEN 1 ELSE 0) = 1

\* When the scope is closed and its captures have ended no browser runs, and the
\* leak detector has seen as many closes as opens.
ClosedScopeIsClean ==
    scope = "closed" /\ Ended /\ ~SomeCutShort
        => browsers = {} /\ \A r \in Resources : detector.open[r] = 0

\* Every capture ends, unless an interruption cut a load or a launch short.
CapturesEnd == []<>(SomeCutShort \/ Ended)

\* Every capture ends, without exception: a startup that did not succeed leaves
\* the scope ready for the next attempt.
EveryCaptureEnds == []<>Ended
=============================================================================
