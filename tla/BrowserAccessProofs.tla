------------------------ MODULE BrowserAccessProofs ------------------------
(***************************************************************************)
(* Proofs about the browser process that captures share, for any finite    *)
(* set of captures, any interruptions and any limits of the leak detector: *)
(* the state is well typed, and as long as no interruption cuts a startup  *)
(* or a close short, every browser has exactly one closer and a closed     *)
(* scope leaves nothing open.                                              *)
(***************************************************************************)
EXTENDS BrowserAccess, FiniteSetTheorems, TLAPS

\* A capture that was cut short has no steps left.
CutShortIsOver == \A c \in Captures : ending[c] = "cutShort" => at[c] = "done"

HandleStages == {"context", "page", "use", "closingPage", "closingContext", "recycle", "resetting"}

\* Whoever got a handle keeps one, and a crash is a crash of a generation.
HandlesGiven ==
    /\ process.status = "ready" => process.gen \in Nat
    /\ \A c \in Captures :
         at[c] \in HandleStages => handle[c] \in Nat
    /\ \A c \in Captures : ending[c] = "crash" => handle[c] \in Nat

TypeIInv == TypeOK /\ HandlesGiven /\ CutShortIsOver

-----------------------------------------------------------------------------
\* The leak detector stays a detector, whatever it is told.
LEMMA SampledTyped ==
    ASSUME NEW d \in Detectors, NEW r \in Resources
    PROVE  Opened(d, r) \in Detectors /\ Closed(d, r) \in Detectors
<1>1. ASSUME NEW delta \in {1, -1} PROVE Sampled(d, r, delta) \in Detectors
    <2>1. AdjustCount(d, r, delta) \in [Resources -> Nat]
        BY DEF AdjustCount, BelowZero, Detectors
    <2> QED BY <2>1, LimitsAssumption DEF Sampled, Detectors
<1> QED BY <1>1 DEF Opened, Closed

LEMMA TypeInitiallyHolds == Init => TypeIInv
BY LimitsAssumption
   DEF Init, TypeIInv, TypeOK, HandlesGiven, HandleStages, CutShortIsOver, Statuses, Generations, Stages,
       Endings, Detectors, Unused, None

\* What one capture must keep.
CaptureKeeps(c) ==
    /\ at[c] \in HandleStages => handle[c] \in Nat
    /\ ending[c] = "crash" => handle[c] \in Nat
    /\ ending[c] = "cutShort" => at[c] = "done"

LEMMA ReportsTyped ==
    ASSUME TypeIInv, NEW S \in SUBSET Captures, NEW gen \in Generations
    PROVE  {[plan |-> c, from |-> handle[c], to |-> gen] : c \in Crashed(S)}
             \subseteq [plan: Captures, from: Nat, to: Generations]
BY DEF TypeIInv, HandlesGiven, Crashed, Recovering

\* Captures that are given a generation, of which the crashed ones have no use.
LEMMA ReceiveTyped ==
    ASSUME TypeIInv, NEW S \in SUBSET Captures, NEW gen \in Nat, Receive(S, gen),
           at' \in [Captures -> Stages], UNCHANGED ending,
           \A d \in S : at'[d] = StageWith(d) /\ at[d] # "done",
           \A d \in Captures \ S :
             at'[d] = at[d] \/ (at'[d] = "closingLate" /\ at[d] # "done")
    PROVE  /\ handle' \in [Captures -> Generations]
           /\ \A d \in S : ~Recovering(d) => handle'[d] = gen
           /\ \A d \in Captures : d \notin S \/ Recovering(d) => handle'[d] = handle[d]
           /\ \A d \in Captures : CaptureKeeps(d)'
           /\ telemetry' \subseteq [plan: Captures, from: Nat, to: Generations]
<1>1. gen \in Generations
    BY DEF Generations
<1>2. telemetry' \subseteq [plan: Captures, from: Nat, to: Generations]
    BY <1>1, ReportsTyped DEF Receive, TypeIInv, TypeOK
<1>3. /\ handle' \in [Captures -> Generations]
      /\ \A d \in Captures : handle'[d] = IF d \in S /\ ~Recovering(d) THEN gen ELSE handle[d]
    BY <1>1 DEF Receive, TypeIInv, TypeOK, Crashed
<1>4. ASSUME NEW d \in Captures PROVE CaptureKeeps(d)'
    <2>1. CaptureKeeps(d)
        BY DEF TypeIInv, HandlesGiven, CutShortIsOver, CaptureKeeps
    <2>2. "done" \notin HandleStages /\ "closingLate" \notin HandleStages
        BY DEF HandleStages
    <2>3. CASE d \in S /\ ~Recovering(d)
        BY <1>3, <2>1, <2>3 DEF CaptureKeeps, Recovering
    <2>4. CASE d \in S /\ Recovering(d)
        BY <1>3, <2>1, <2>2, <2>4 DEF CaptureKeeps, Recovering, StageWith
    <2>5. CASE d \notin S
        BY <1>3, <2>1, <2>2, <2>5 DEF CaptureKeeps
    <2> QED BY <2>3, <2>4, <2>5
<1> QED BY <1>2, <1>3, <1>4

\* Captures that get no process end.
LEMMA RefuseTyped ==
    ASSUME TypeIInv, NEW S \in SUBSET Captures, Refuse(S)
    PROVE  /\ at' \in [Captures -> Stages] /\ ending' \in [Captures -> Endings]
           /\ handle' \in [Captures -> Generations]
           /\ \A d \in S : at'[d] = "done"
           /\ \A d \in Captures \ S : at'[d] = at[d]
           /\ \A d \in Captures : CaptureKeeps(d)'
           /\ telemetry' \subseteq [plan: Captures, from: Nat, to: Generations]
<1>1. None \in Generations
    BY DEF Generations, None
<1>2. telemetry' \subseteq [plan: Captures, from: Nat, to: Generations]
    BY <1>1, ReportsTyped DEF Refuse, TypeIInv, TypeOK
<1>3. "done" \in Stages \ HandleStages /\ "unavailable" \in Endings
    BY DEF Stages, HandleStages, Endings
<1>4. /\ at' \in [Captures -> Stages] /\ ending' \in [Captures -> Endings]
      /\ UNCHANGED handle
      /\ \A d \in Captures : at'[d] = IF d \in S THEN "done" ELSE at[d]
      /\ \A d \in Captures :
           ending'[d] = IF d \in S /\ ~Recovering(d) THEN "unavailable" ELSE ending[d]
    BY <1>3 DEF Refuse, TypeIInv, TypeOK, Crashed
<1>5. ASSUME NEW d \in Captures PROVE CaptureKeeps(d)'
    <2>1. CaptureKeeps(d)
        BY DEF TypeIInv, HandlesGiven, CutShortIsOver, CaptureKeeps
    <2> QED BY <1>3, <1>4, <2>1 DEF CaptureKeeps
<1> QED BY <1>2, <1>4, <1>5 DEF TypeIInv, TypeOK

\* A step of one capture that leaves the others alone keeps what concerns captures.
LEMMA OneCaptureMoves ==
    ASSUME TypeIInv, NEW c \in Captures,
           NEW stage \in Stages, NEW how \in Endings,
           Goes(c, stage) \/ (stage = at[c] /\ UNCHANGED at),
           Ends(c, how) \/ (how = ending[c] /\ UNCHANGED ending),
           UNCHANGED handle,
           stage \in HandleStages => handle[c] \in Nat,
           how = "crash" => handle[c] \in Nat,
           how = "cutShort" => stage = "done"
    PROVE  /\ at' \in [Captures -> Stages] /\ ending' \in [Captures -> Endings]
           /\ handle' \in [Captures -> Generations]
           /\ \A d \in Captures : CaptureKeeps(d)'
<1>1. /\ at' \in [Captures -> Stages] /\ at'[c] = stage
      /\ \A d \in Captures \ {c} : at'[d] = at[d]
    BY DEF TypeIInv, TypeOK, Goes
<1>2. /\ ending' \in [Captures -> Endings] /\ ending'[c] = how
      /\ \A d \in Captures \ {c} : ending'[d] = ending[d]
    BY DEF TypeIInv, TypeOK, Ends
<1> QED BY <1>1, <1>2 DEF TypeIInv, TypeOK, HandlesGiven, CutShortIsOver, CaptureKeeps

LEMMA TypeStepHolds == TypeIInv /\ [Next]_vars => TypeIInv'
<1> SUFFICES ASSUME TypeIInv, [Next]_vars PROVE TypeIInv'
    OBVIOUS
<1> USE DEF sharedVars, resourceVars, captureVars
<1> DEFINE Reports == [plan: Captures, from: Nat, to: Generations]
           SharedTyped == /\ scope \in {"open", "closing", "closed"} /\ runtime \in Statuses
                          /\ process \in [status: Statuses, gen: Generations, next: Nat]
                          /\ process.status = "ready" => process.gen \in Nat
           CapturesTyped == /\ at \in [Captures -> Stages] /\ ending \in [Captures -> Endings]
                            /\ handle \in [Captures -> Generations]
                            /\ \A d \in Captures : CaptureKeeps(d)
           BrowsersTyped == /\ browsers \subseteq Nat /\ abandoned \subseteq Nat
                            /\ contexts \subseteq Captures \X Nat
                            /\ detector \in Detectors /\ telemetry \subseteq Reports
<1>a. SharedTyped /\ CapturesTyped /\ BrowsersTyped
    BY DEF TypeIInv, TypeOK, HandlesGiven, CutShortIsOver, CaptureKeeps
<1>b. SharedTyped' /\ CapturesTyped' /\ BrowsersTyped' => TypeIInv'
    BY DEF TypeIInv, TypeOK, HandlesGiven, CutShortIsOver, CaptureKeeps
<1>s. /\ \A stage \in HandleStages : stage \in Stages
      /\ "done" \in Stages \ HandleStages /\ "process" \in Stages \ HandleStages
      /\ "loading" \in Stages \ HandleStages /\ "awaitRuntime" \in Stages \ HandleStages
      /\ "launching" \in Stages \ HandleStages /\ "awaitProcess" \in Stages \ HandleStages
      /\ "closingLate" \in Stages \ HandleStages
    BY DEF Stages, HandleStages
<1>t. {"artifacts", "timeout", "policy", "crash", "unavailable", "interrupted", "cutShort"}
        \subseteq Endings
    BY DEF Endings
<1>u. None \in Generations /\ Nat \subseteq Generations /\ None \notin Nat
    BY DEF None, Generations
<1>d. \A r \in Resources : Opened(detector, r) \in Detectors /\ Closed(detector, r) \in Detectors
    BY <1>a, SampledTyped
<1>0. CASE UNCHANGED vars
    BY <1>0, <1>a, <1>b DEF vars, CaptureKeeps
<1>1. ASSUME NEW c \in Captures, RejectPlan(c) \/ AskRuntime(c) PROVE TypeIInv'
    <2>1. SharedTyped' /\ BrowsersTyped'
        BY <1>1, <1>a DEF RejectPlan, AskRuntime, Statuses
    <2>2. CapturesTyped'
        <3>1. PICK stage \in {"done", "process", "loading", "awaitRuntime"},
                   how \in {"policy", "unavailable", ending[c]} :
                 /\ Goes(c, stage) /\ UNCHANGED handle
                 /\ Ends(c, how) \/ (how = ending[c] /\ UNCHANGED ending)
                 /\ how = ending[c] => at[c] # "done"
            BY <1>1 DEF RejectPlan, AskRuntime
        <3>2. ending[c] \in Endings \ {"cutShort"} \/ at[c] = "done"
            BY <1>a DEF CaptureKeeps
        <3> QED BY <3>1, <3>2, <1>a, <1>s, <1>t, OneCaptureMoves DEF CaptureKeeps
    <2> QED BY <1>b, <2>1, <2>2
<1>2. ASSUME NEW c \in Captures, EngineLoads(c) PROVE TypeIInv'
    <2>1. SharedTyped' /\ BrowsersTyped'
        BY <1>2, <1>a, <1>u DEF EngineLoads, ClosedProcess, Statuses
    <2>2. /\ at' \in [Captures -> Stages] /\ UNCHANGED <<ending, handle>>
          /\ \A d \in Captures : at'[d] = at[d] \/ (at'[d] = "process" /\ at[d] # "done")
        BY <1>2, <1>a, <1>s DEF EngineLoads
    <2>3. CapturesTyped'
        BY <2>2, <1>a, <1>s DEF CaptureKeeps
    <2> QED BY <1>b, <2>1, <2>3
<1>3. ASSUME NEW c \in Captures, EngineMissing(c) PROVE TypeIInv'
    <2> DEFINE S == {c} \cup Waiting("awaitRuntime")
    <2>1. S \in SUBSET Captures /\ Refuse(S)
        BY <1>3 DEF EngineMissing, Waiting
    <2>2. CapturesTyped' /\ telemetry' \subseteq Reports
        BY <2>1, RefuseTyped
    <2>3. SharedTyped' /\ BrowsersTyped'
        BY <1>3, <1>a, <1>u, <2>2 DEF EngineMissing, Statuses, Launched
    <2> QED BY <1>b, <2>2, <2>3
<1>4. ASSUME NEW c \in Captures, AskProcess(c) PROVE TypeIInv'
    <2>0. at[c] = "process" /\ UNCHANGED <<scope, runtime, resourceVars>>
        BY <1>4 DEF AskProcess
    <2>1. CASE process.status = "ready"
        <3>1. Receive({c}, process.gen) /\ Goes(c, StageWith(c)) /\ UNCHANGED <<process, ending>>
            BY <1>4, <2>1 DEF AskProcess
        <3>2. /\ at' \in [Captures -> Stages] /\ at'[c] = StageWith(c)
              /\ \A d \in Captures \ {c} : at'[d] = at[d]
            BY <1>a, <1>s, <3>1 DEF Goes, StageWith, HandleStages
        <3>0. {c} \in SUBSET Captures /\ process.gen \in Nat /\ at[c] # "done"
            BY <1>a, <2>0, <2>1
        <3>3. CapturesTyped' /\ telemetry' \subseteq Reports
            <4>1. /\ \A d \in {c} : at'[d] = StageWith(d) /\ at[d] # "done"
                  /\ \A d \in Captures \ {c} :
                       at'[d] = at[d] \/ (at'[d] = "closingLate" /\ at[d] # "done")
                BY <3>0, <3>2
            <4>2. ending' = ending
                BY <3>1
            <4>3. /\ handle' \in [Captures -> Generations]
                  /\ \A d \in Captures : CaptureKeeps(d)'
                  /\ telemetry' \subseteq Reports
                BY <3>0, <3>1, <3>2, <4>1, <4>2, ReceiveTyped
            <4> QED BY <1>a, <3>2, <4>2, <4>3
        <3>4. SharedTyped' /\ BrowsersTyped'
            BY <1>a, <2>0, <3>1, <3>3
        <3> QED BY <1>b, <3>3, <3>4
    <2>2. CASE process.status = "closed"
        <3>1. Refuse({c}) /\ UNCHANGED process
            BY <1>4, <2>2 DEF AskProcess
        <3>2. CapturesTyped' /\ telemetry' \subseteq Reports
            BY <3>1, RefuseTyped
        <3>3. SharedTyped' /\ BrowsersTyped'
            BY <1>a, <2>0, <3>1, <3>2
        <3> QED BY <1>b, <3>2, <3>3
    <2>3. CASE process.status \in {"launching", "idle"}
        <3>1. PICK stage \in {"launching", "awaitProcess"} :
                Goes(c, stage) /\ UNCHANGED <<handle, ending, telemetry>>
            BY <1>4, <2>3 DEF AskProcess
        <3>2. SharedTyped' /\ BrowsersTyped'
            BY <1>a, <1>4, <2>0, <2>3, <3>1, <1>u DEF AskProcess, Statuses
        <3>3. CapturesTyped'
            BY <1>a, <1>s, <2>0, <3>1, OneCaptureMoves DEF CaptureKeeps
        <3> QED BY <1>b, <3>2, <3>3
    <2> QED BY <1>a, <2>1, <2>2, <2>3 DEF Statuses
<1>5. ASSUME NEW c \in Captures, LaunchSucceeds(c) PROVE TypeIInv'
    <2> DEFINE S == Waiting("awaitProcess") \cup (IF process.status = "closed" THEN {} ELSE {c})
    <2>1. /\ S \in SUBSET Captures /\ Receive(S, Launched) /\ Launched \in Nat
          /\ \A d \in S : at[d] # "done"
        BY <1>5, <1>a DEF LaunchSucceeds, Launched, Waiting
    <2>2. /\ at' \in [Captures -> Stages] /\ UNCHANGED ending
          /\ \A d \in S : at'[d] = StageWith(d)
          /\ \A d \in Captures \ S : at'[d] = at[d] \/ (at'[d] = "closingLate" /\ at[d] # "done")
        <3>1. /\ at' = [d \in Captures |-> IF d \in S THEN StageWith(d)
                                          ELSE IF d = c THEN "closingLate" ELSE at[d]]
              /\ at[c] = "launching" /\ UNCHANGED ending
            BY <1>5 DEF LaunchSucceeds
        <3>2. \A d \in Captures : StageWith(d) \in Stages
            BY <1>s DEF StageWith, HandleStages
        <3> HIDE DEF S
        <3> QED BY <1>a, <1>s, <2>1, <3>1, <3>2
    <2>3. CapturesTyped' /\ telemetry' \subseteq Reports
        BY <1>a, <2>1, <2>2, ReceiveTyped
    <2>4. SharedTyped' /\ BrowsersTyped'
        <3>1. /\ UNCHANGED <<scope, runtime, abandoned, contexts>>
              /\ process' = process \/ process' = [status |-> "ready", gen |-> Launched, next |-> Launched + 1]
              /\ browsers' = browsers \cup {Launched} /\ detector' = Opened(detector, "browsers")
            BY <1>5 DEF LaunchSucceeds
        <3>2. Launched + 1 \in Nat /\ "ready" \in Statuses
            BY <2>1 DEF Statuses
        <3> QED BY <1>a, <1>d, <1>u, <2>1, <2>3, <3>1, <3>2 DEF Resources
    <2> QED BY <1>b, <2>3, <2>4
<1>6. ASSUME NEW c \in Captures, CloseAfterLaunch(c) PROVE TypeIInv'
    <2>1. Receive({c}, Launched) /\ Launched \in Nat /\ Goes(c, StageWith(c)) /\ UNCHANGED ending
        BY <1>6, <1>a DEF CloseAfterLaunch, Launched
    <2>2. /\ at' \in [Captures -> Stages] /\ at'[c] = StageWith(c) /\ at[c] # "done"
          /\ \A d \in Captures \ {c} : at'[d] = at[d]
        BY <1>6, <1>a, <1>s, <2>1 DEF CloseAfterLaunch, Goes, StageWith, HandleStages
    <2>3. CapturesTyped' /\ telemetry' \subseteq Reports
        <3>1. /\ \A d \in {c} : at'[d] = StageWith(d) /\ at[d] # "done"
              /\ \A d \in Captures \ {c} :
                   at'[d] = at[d] \/ (at'[d] = "closingLate" /\ at[d] # "done")
            BY <2>2
        <3>2. {c} \in SUBSET Captures /\ ending' = ending
            BY <2>1
        <3>3. /\ handle' \in [Captures -> Generations]
              /\ \A d \in Captures : CaptureKeeps(d)'
              /\ telemetry' \subseteq Reports
            BY <2>1, <2>2, <3>1, <3>2, ReceiveTyped
        <3> QED BY <1>a, <2>2, <3>2, <3>3
    <2>4. SharedTyped' /\ BrowsersTyped'
        BY <1>6, <1>a, <1>d, <2>3 DEF CloseAfterLaunch, CloseBrowser, Resources
    <2> QED BY <1>b, <2>3, <2>4
<1>7. ASSUME NEW c \in Captures, LaunchFails(c) PROVE TypeIInv'
    <2> DEFINE S == {c} \cup Waiting("awaitProcess")
    <2>1. S \in SUBSET Captures /\ Refuse(S)
        BY <1>7 DEF LaunchFails, Waiting
    <2>2. CapturesTyped' /\ telemetry' \subseteq Reports
        BY <2>1, RefuseTyped
    <2>3. SharedTyped' /\ BrowsersTyped'
        BY <1>7, <1>a, <1>u, <2>2 DEF LaunchFails, Statuses, Launched
    <2> QED BY <1>b, <2>2, <2>3
<1>8. ASSUME NEW c \in Captures, NewContext(c) \/ NoContext(c) PROVE TypeIInv'
    <2>1. SharedTyped' /\ BrowsersTyped'
        <3>1. \A gen \in browsers : contexts \cup {<<c, gen>>} \subseteq Captures \X Nat
            BY <1>a
        <3>2. contexts' \subseteq Captures \X Nat
            BY <1>8, <1>a, <3>1 DEF NewContext, NoContext
        <3> QED BY <1>8, <1>a, <1>d, <3>2 DEF NewContext, NoContext, Resources
    <2>2. CapturesTyped'
        <3>1. PICK stage \in {"page", "closingContext", "recycle", "done"},
                   how \in {ending[c], "interrupted", "timeout", "crash", "policy"} :
                 /\ Goes(c, stage) /\ UNCHANGED handle
                 /\ Ends(c, how) \/ (how = ending[c] /\ UNCHANGED ending)
                 /\ stage \in HandleStages => handle[c] \in Nat
                 /\ how = "crash" => handle[c] \in Nat
            BY <1>8, <1>a, <1>s DEF NewContext, NoContext, Failures, StageAfter, CaptureKeeps, HandleStages
        <3>2. at[c] # "done" /\ ending[c] \in Endings \ {"cutShort"}
            BY <1>8, <1>a DEF NewContext, NoContext, Failures, StageAfter, CaptureKeeps
        <3> QED BY <3>1, <3>2, <1>a, <1>s, <1>t, OneCaptureMoves DEF CaptureKeeps, HandleStages
    <2> QED BY <1>b, <2>1, <2>2
<1>9. ASSUME NEW c \in Captures, NewPage(c) \/ NoPage(c) \/ Use(c) PROVE TypeIInv'
    <2>1. SharedTyped' /\ BrowsersTyped'
        BY <1>9, <1>a, <1>d, <1>u DEF NewPage, NoPage, Use, Failures, Resources
    <2>2. CapturesTyped'
        <3>1. PICK stage \in {"use", "closingContext", "closingPage"},
                   how \in {ending[c], "timeout", "crash", "policy", "artifacts"} :
                 /\ Goes(c, stage) /\ UNCHANGED handle
                 /\ Ends(c, how) \/ (how = ending[c] /\ UNCHANGED ending)
                 /\ stage \in HandleStages => handle[c] \in Nat
                 /\ how = "crash" => handle[c] \in Nat
            BY <1>9, <1>a, <1>s DEF NewPage, NoPage, Use, Failures, CaptureKeeps, HandleStages
        <3>2. at[c] # "done" /\ ending[c] \in Endings \ {"cutShort"}
            BY <1>9, <1>a DEF NewPage, NoPage, Use, Failures, CaptureKeeps
        <3> QED BY <3>1, <3>2, <1>a, <1>s, <1>t, OneCaptureMoves DEF CaptureKeeps, HandleStages
    <2> QED BY <1>b, <2>1, <2>2
<1>10. ASSUME NEW c \in Captures, ClosePage(c) \/ CloseContext(c) PROVE TypeIInv'
    <2>1. SharedTyped' /\ BrowsersTyped'
        BY <1>10, <1>a, <1>d, <1>u DEF ClosePage, CloseContext, StageAfter, Resources
    <2>2. CapturesTyped'
        <3>1. PICK stage \in {"closingContext", "recycle", "done"},
                   how \in {ending[c]} :
                 /\ Goes(c, stage) /\ UNCHANGED handle
                 /\ Ends(c, how) \/ (how = ending[c] /\ UNCHANGED ending)
                 /\ stage \in HandleStages => handle[c] \in Nat
                 /\ how = "crash" => handle[c] \in Nat
            BY <1>10, <1>a, <1>s DEF ClosePage, CloseContext, StageAfter, CaptureKeeps, HandleStages
        <3>2. at[c] # "done" /\ ending[c] \in Endings \ {"cutShort"}
            BY <1>10, <1>a DEF ClosePage, CloseContext, StageAfter, CaptureKeeps
        <3> QED BY <3>1, <3>2, <1>a, <1>s, <1>t, OneCaptureMoves DEF CaptureKeeps, HandleStages
    <2> QED BY <1>b, <2>1, <2>2
<1>11. ASSUME NEW c \in Captures, Recycle(c) \/ FinishReset(c) PROVE TypeIInv'
    <2>1. SharedTyped' /\ BrowsersTyped'
        BY <1>11, <1>a, <1>d, <1>u DEF Recycle, FinishReset, CloseBrowser, AfterReset, Resources, Statuses
    <2>2. CapturesTyped'
        <3>1. PICK stage \in {"resetting", "process", "done"},
                   how \in {ending[c]} :
                 /\ Goes(c, stage) /\ UNCHANGED handle
                 /\ Ends(c, how) \/ (how = ending[c] /\ UNCHANGED ending)
                 /\ stage \in HandleStages => handle[c] \in Nat
                 /\ how = "crash" => handle[c] \in Nat
            BY <1>11, <1>a, <1>s DEF Recycle, FinishReset, CloseBrowser, AfterReset, CaptureKeeps, HandleStages
        <3>2. at[c] # "done" /\ ending[c] \in Endings \ {"cutShort"}
            BY <1>11, <1>a DEF Recycle, FinishReset, CloseBrowser, AfterReset, CaptureKeeps
        <3> QED BY <3>1, <3>2, <1>a, <1>s, <1>t, OneCaptureMoves DEF CaptureKeeps, HandleStages
    <2> QED BY <1>b, <2>1, <2>2
<1>12. CASE CloseScope \/ FinishShutdown
    <2>1. SharedTyped' /\ BrowsersTyped'
        BY <1>12, <1>a, <1>d, <1>u DEF CloseScope, FinishShutdown, CloseBrowser, ClosedProcess,
           Statuses, Resources
    <2>2. CapturesTyped'
        BY <1>12, <1>a DEF CloseScope, FinishShutdown, CaptureKeeps
    <2> QED BY <1>b, <2>1, <2>2
<1>13. ASSUME NEW c \in Captures, Interrupt(c) \/ InterruptLaunch(c) \/ InterruptClose(c) PROVE TypeIInv'
    <2>1. SharedTyped' /\ BrowsersTyped'
        BY <1>13, <1>a, <1>d, <1>u DEF Interrupt, InterruptLaunch, InterruptClose, Launched, Resources
    <2>2. CapturesTyped'
        <3>1. PICK stage \in {"done", "closingPage"},
                   how \in {"interrupted", "cutShort"} :
                 /\ Goes(c, stage) /\ UNCHANGED handle
                 /\ Ends(c, how) \/ (how = ending[c] /\ UNCHANGED ending)
                 /\ stage \in HandleStages => handle[c] \in Nat
                 /\ how = "crash" => handle[c] \in Nat
            BY <1>13, <1>a, <1>s DEF Interrupt, InterruptLaunch, InterruptClose, Launched, CaptureKeeps, HandleStages
        <3>3. stage = "done" \/ how = "interrupted"
            BY <1>13, <1>a, <3>1 DEF Interrupt, InterruptLaunch, InterruptClose, Goes, Ends, TypeIInv, TypeOK
        <3>2. at[c] # "done" /\ ending[c] \in Endings \ {"cutShort"}
            BY <1>13, <1>a DEF Interrupt, InterruptLaunch, InterruptClose, Launched, CaptureKeeps
        <3> QED BY <3>1, <3>2, <3>3, <1>a, <1>s, <1>t, OneCaptureMoves DEF CaptureKeeps, HandleStages
    <2> QED BY <1>b, <2>1, <2>2
<1>14. CASE AbandonedOpens
    <2>1. SharedTyped' /\ BrowsersTyped'
        BY <1>14, <1>a DEF AbandonedOpens
    <2>2. CapturesTyped'
        BY <1>14, <1>a DEF AbandonedOpens, CaptureKeeps
    <2> QED BY <1>b, <2>1, <2>2
<1>15. CASE AllDone
    BY <1>15, <1>0 DEF AllDone
<1> QED
    BY <1>0, <1>1, <1>2, <1>3, <1>4, <1>5, <1>6, <1>7, <1>8, <1>9, <1>10, <1>11, <1>12, <1>13,
       <1>14, <1>15 DEF Next, Decided, Answered

\* Every state of the captures, the process and the detector is well typed.
THEOREM BrowserTyping == Spec => []TypeOK
<1>1. TypeIInv => TypeOK
    BY DEF TypeIInv
<1> QED BY <1>1, TypeInitiallyHolds, TypeStepHolds, PTL DEF Spec

-----------------------------------------------------------------------------
(* The life of the processes.                                               *)

\* Stages of a capture that never had a runtime, or is over.
Early == {"new", "loading", "awaitRuntime", "done"}

\* Stages of a capture that has something in hand on behalf of the scope.
Busy == {"loading", "launching", "closingLate", "resetting"}

\* The runtime comes before the process: nobody asks for a browser without it, and
\* the scope closes both.
StartupOrder ==
    /\ runtime = "closed" <=> scope # "open"
    /\ process.status = "closed" => scope # "open"
    /\ scope = "closing" => process.status = "closed" /\ process.gen \in browsers
    /\ scope = "closed" => process.gen = None
    /\ \A c, d \in Captures : at[c] = "loading" /\ at[d] = "loading" => c = d
    /\ \A c \in Captures :
         at[c] = "loading" => runtime \in {"launching", "closed"} /\ process.status # "closed"
    /\ runtime # "ready" /\ process.status # "closed" =>
         process.status = "idle" /\ \A c \in Captures : at[c] \in Early

\* At most one capture launches, and generations are numbered in order.
LaunchOrder ==
    /\ abandoned = {}
    /\ process.status = "idle" => process.gen = None
    /\ process.status = "launching" => process.gen = process.next
    /\ process.status = "ready" => process.gen \in browsers
    /\ process.status # "launching" /\ process.gen # None => process.gen < process.next
    /\ \A c, d \in Captures :
         at[c] \in {"launching", "closingLate"} /\ at[d] \in {"launching", "closingLate"} => c = d
    /\ \A c \in Captures : at[c] = "launching" => process.status \in {"launching", "closed"}
    /\ \A c \in Captures :
         at[c] = "closingLate" => process.status = "closed" /\ process.next \in browsers
    /\ \A gen \in browsers :
         /\ gen <= process.next
         /\ gen = process.next => \E c \in Captures : at[c] = "closingLate"

\* A capture that resets a generation took it out of the state, alone.
ResetOrder ==
    /\ \A c \in Captures : at[c] = "resetting" =>
         handle[c] \in browsers /\ handle[c] < process.next /\ handle[c] # process.gen
    /\ \A c, d \in Captures :
         at[c] = "resetting" /\ at[d] = "resetting" /\ handle[c] = handle[d] => c = d
    /\ \A gen \in browsers :
         \/ process.gen = gen \/ process.next = gen
         \/ \E c \in Captures : at[c] = "resetting" /\ handle[c] = gen

Order == StartupOrder /\ LaunchOrder /\ ResetOrder

LifeIInv == TypeIInv /\ (~SomeCutShort => Order)

-----------------------------------------------------------------------------
\* What the steps need of the types.
LEMMA LifeTypes ==
    ASSUME TypeIInv
    PROVE  /\ scope \in {"open", "closing", "closed"} /\ runtime \in Statuses
           /\ process \in [status: Statuses, gen: Generations, next: Nat]
           /\ process.status \in Statuses /\ process.gen \in Generations /\ process.next \in Nat
           /\ browsers \subseteq Nat /\ None \notin Nat
           /\ at \in [Captures -> Stages]
           /\ handle \in [Captures -> Generations]
           /\ \A c \in Captures : at[c] = "resetting" => handle[c] \in Nat
           /\ \A c \in Captures : at[c] = "recycle" => handle[c] \in Nat
BY DEF TypeIInv, TypeOK, HandlesGiven, HandleStages, None

LEMMA OrderInitially == Init => LifeIInv
BY TypeInitiallyHolds DEF Init, LifeIInv, Order, StartupOrder, LaunchOrder, ResetOrder, Early, None

\* A capture that does not have anything in hand, before and after its step, and
\* leaves the scope and its browsers alone.
LEMMA QuietStep ==
    ASSUME TypeIInv, Order, NEW c \in Captures,
           UNCHANGED <<sharedVars, browsers, abandoned, handle>>,
           \A d \in Captures \ {c} : at'[d] = at[d],
           at[c] \notin Busy, at'[c] \notin Busy,
           runtime = "ready" \/ at'[c] \in Early \/ at[c] \notin Early
    PROVE  Order'
<1>0. /\ UNCHANGED <<scope, runtime, process, browsers, abandoned, handle>>
      /\ \A d \in Captures : at'[d] = at[d] \/ (d = c /\ at[c] \notin Busy /\ at'[c] \notin Busy)
    BY DEF sharedVars
<1>1. \A d \in Captures : \A stage \in Busy : at'[d] = stage <=> at[d] = stage
    BY <1>0
<1>2. /\ \A d \in Captures : at'[d] = "loading" <=> at[d] = "loading"
      /\ \A d \in Captures : at'[d] = "launching" <=> at[d] = "launching"
      /\ \A d \in Captures : at'[d] = "closingLate" <=> at[d] = "closingLate"
      /\ \A d \in Captures : at'[d] = "resetting" <=> at[d] = "resetting"
    BY <1>1 DEF Busy
<1>3. StartupOrder'
    BY <1>0, <1>2 DEF Order, StartupOrder
<1>4. LaunchOrder'
    BY <1>0, <1>2 DEF Order, LaunchOrder
<1>5. ResetOrder'
    BY <1>0, <1>2 DEF Order, ResetOrder
<1> QED BY <1>3, <1>4, <1>5 DEF Order

LEMMA AskRuntimeKeepsOrder ==
    ASSUME TypeIInv, Order, NEW c \in Captures, AskRuntime(c)
    PROVE  Order'
<1>1. CASE runtime # "idle"
    <2>1. UNCHANGED <<sharedVars, browsers, abandoned, handle>>
        BY <1>1 DEF AskRuntime, sharedVars, resourceVars
    <2>2. PICK stage \in {"process", "awaitRuntime", "done"} :
            Goes(c, stage) /\ (stage = "process" => runtime = "ready")
        BY <1>1 DEF AskRuntime
    <2>3. at'[c] = stage /\ \A d \in Captures \ {c} : at'[d] = at[d]
        BY <2>2, LifeTypes DEF Goes
    <2>4. at[c] \notin Busy /\ at'[c] \notin Busy
        BY <2>3 DEF AskRuntime, Busy
    <2>5. runtime = "ready" \/ at'[c] \in Early
        BY <2>2, <2>3 DEF Early
    <2> QED BY <2>1, <2>3, <2>4, <2>5, QuietStep
<1>2. CASE runtime = "idle"
    <2>1. /\ UNCHANGED <<scope, process, browsers, abandoned, handle>>
          /\ runtime' = "launching"
          /\ at[c] = "new" /\ at'[c] = "loading"
          /\ \A d \in Captures \ {c} : at'[d] = at[d]
        BY <1>2, LifeTypes DEF AskRuntime, Goes, resourceVars
    <2>2. scope = "open" /\ process.status = "idle" /\ \A d \in Captures : at[d] \in Early
        BY <1>2, LifeTypes DEF Order, StartupOrder
    <2>3. \A d \in Captures : at'[d] \in Early
        BY <2>1, <2>2 DEF Early
    <2>4. \A d \in Captures : at[d] # "loading" /\ (at'[d] = "loading" => d = c)
        BY <1>2, <2>1 DEF Order, StartupOrder
    <2>5. \A d \in Captures :
            /\ at'[d] = "launching" <=> at[d] = "launching"
            /\ at'[d] = "closingLate" <=> at[d] = "closingLate"
            /\ at'[d] = "resetting" <=> at[d] = "resetting"
        BY <2>1
    <2>6. StartupOrder'
        BY <2>1, <2>2, <2>3, <2>4 DEF Order, StartupOrder
    <2>7. LaunchOrder'
        BY <2>1, <2>5 DEF Order, LaunchOrder
    <2>8. ResetOrder'
        BY <2>1, <2>5 DEF Order, ResetOrder
    <2> QED BY <2>6, <2>7, <2>8 DEF Order
<1> QED BY <1>1, <1>2

\* Before the runtime is ready no browser runs.
LEMMA NothingRunsYet ==
    ASSUME TypeIInv, Order, runtime # "ready", process.status # "closed"
    PROVE  /\ process.status = "idle" /\ process.gen = None /\ browsers = {}
           /\ scope # "closing"
           /\ \A c \in Captures : at[c] \in Early
<1>1. /\ process.status = "idle" /\ process.gen = None /\ scope # "closing"
      /\ \A c \in Captures : at[c] \in Early
    BY DEF Order, StartupOrder, LaunchOrder
<1>2. \A c \in Captures : at[c] # "closingLate" /\ at[c] # "resetting"
    BY <1>1 DEF Early
<1>3. ASSUME NEW gen \in browsers PROVE FALSE
    <2>1. gen # process.next /\ gen # process.gen
        BY <1>1, <1>2, LifeTypes DEF Order, LaunchOrder
    <2> QED BY <1>2, <2>1 DEF Order, ResetOrder
<1> QED BY <1>1, <1>3

\* The end of a load of the engine, whichever it is.
LEMMA LoadKeepsOrder ==
    ASSUME TypeIInv, Order, NEW c \in Captures, EngineLoads(c) \/ EngineMissing(c)
    PROVE  Order'
<1>1. at[c] = "loading" /\ runtime \in {"launching", "closed"} /\ process.status # "closed"
    BY DEF EngineLoads, EngineMissing, Order, StartupOrder
<1>2. /\ process.status = "idle" /\ process.gen = None /\ browsers = {}
      /\ scope # "closing"
      /\ \A d \in Captures : at[d] \in Early
    BY <1>1, NothingRunsYet
<1>3. UNCHANGED <<scope, browsers, abandoned>> /\ abandoned = {}
    BY DEF EngineLoads, EngineMissing, resourceVars, Order, LaunchOrder
<1>4. \A d \in Captures : at'[d] \in Early \cup {"process"} /\ at'[d] # "loading"
    <2>1. \A d \in Captures : at[d] = "loading" => d = c
        BY <1>1 DEF Order, StartupOrder
    <2>2. \A d \in Captures : d # c => at[d] \in {"new", "awaitRuntime", "done"}
        BY <1>2, <2>1 DEF Early
    <2>3. CASE EngineLoads(c)
        <3>1. \A d \in Captures :
                at'[d] = IF d = c \/ at[d] = "awaitRuntime" THEN "process" ELSE at[d]
            BY <2>3 DEF EngineLoads
        <3> QED BY <2>2, <3>1 DEF Early
    <2>4. CASE EngineMissing(c)
        <3>1. \A d \in Captures :
                at'[d] = IF d = c \/ at[d] = "awaitRuntime" THEN "done" ELSE at[d]
            BY <2>4 DEF EngineMissing, Refuse, Waiting
        <3> QED BY <2>2, <3>1 DEF Early
    <2> QED BY <2>3, <2>4
<1>5. \A d \in Captures :
        at'[d] # "launching" /\ at'[d] # "closingLate" /\ at'[d] # "resetting"
    BY <1>4 DEF Early
<1>6. \/ process' = process /\ runtime' = "ready" /\ runtime # "closed"
      \/ process' = [process EXCEPT !.status = "closed", !.gen = None] /\ runtime' = "closed"
           /\ runtime = "closed"
      \/ process' = process /\ runtime' = "idle" /\ runtime # "closed" /\ EngineMissing(c)
      \/ process' = process /\ runtime' = "closed" /\ runtime = "closed" /\ EngineMissing(c)
    BY DEF EngineLoads, EngineMissing, ClosedProcess
<1>7. EngineMissing(c) => \A d \in Captures : at'[d] \in Early
    <2>1. EngineMissing(c) => \A d \in Captures : at'[d] = at[d] \/ at'[d] = "done"
        BY DEF EngineMissing, Refuse
    <2> QED BY <1>2, <2>1 DEF Early
<1>8. StartupOrder'
    BY <1>1, <1>2, <1>3, <1>4, <1>6, <1>7, LifeTypes DEF Order, StartupOrder
<1>9. LaunchOrder'
    BY <1>2, <1>3, <1>5, <1>6, LifeTypes DEF LaunchOrder
<1>10. ResetOrder'
    BY <1>2, <1>3, <1>5 DEF ResetOrder
<1> QED BY <1>8, <1>9, <1>10 DEF Order

LEMMA AskProcessKeepsOrder ==
    ASSUME TypeIInv, Order, NEW c \in Captures, AskProcess(c)
    PROVE  Order'
<1>0. at[c] = "process" /\ at[c] \notin Early /\ at[c] \notin Busy
    BY DEF AskProcess, Early, Busy
<1>1. CASE process.status # "idle"
    <2>1. UNCHANGED <<sharedVars, browsers, abandoned>>
        BY <1>1 DEF AskProcess, sharedVars, resourceVars
    <2>2. PICK stage \in {"context", "done", "awaitProcess"} :
            at'[c] = stage /\ \A d \in Captures \ {c} : at'[d] = at[d]
        BY <1>0, <1>1, LifeTypes DEF AskProcess, Goes, StageWith, Refuse
    <2>3. at'[c] \notin Busy
        BY <2>2 DEF Busy
    <2>4. /\ UNCHANGED <<scope, runtime, process>>
          /\ \A d \in Captures :
               /\ at'[d] = "loading" <=> at[d] = "loading"
               /\ at'[d] = "launching" <=> at[d] = "launching"
               /\ at'[d] = "closingLate" <=> at[d] = "closingLate"
               /\ at'[d] = "resetting" <=> at[d] = "resetting"
        BY <1>0, <2>1, <2>2 DEF sharedVars
    <2>5. \A d \in Captures : at[d] = "resetting" => handle'[d] = handle[d]
        BY <1>0, <1>1, LifeTypes DEF AskProcess, Receive, Refuse
    <2>6. StartupOrder'
        BY <1>0, <2>1, <2>2, <2>4 DEF Order, StartupOrder
    <2>7. LaunchOrder'
        BY <2>1, <2>4 DEF Order, LaunchOrder
    <2>8. ResetOrder'
        BY <2>1, <2>4, <2>5 DEF Order, ResetOrder
    <2> QED BY <2>6, <2>7, <2>8 DEF Order
<1>2. CASE process.status = "idle"
    <2>1. /\ UNCHANGED <<scope, runtime, browsers, abandoned, handle>>
          /\ process' = [process EXCEPT !.status = "launching", !.gen = process.next]
          /\ at'[c] = "launching"
          /\ \A d \in Captures \ {c} : at'[d] = at[d]
        BY <1>0, <1>2, LifeTypes DEF AskProcess, Goes, resourceVars
    <2>2. /\ process'.status = "launching" /\ process'.gen = process.next
          /\ process'.next = process.next
        BY <2>1, LifeTypes
    <2>3. runtime = "ready" /\ process.gen = None
        BY <1>0, <1>2 DEF Order, StartupOrder, LaunchOrder
    <2>4. \A d \in Captures : at[d] \notin {"loading", "launching", "closingLate"}
        BY <1>2, <2>3 DEF Order, StartupOrder, LaunchOrder
    <2>5. \A d \in Captures :
            /\ at'[d] # "loading" /\ at'[d] # "closingLate"
            /\ at'[d] = "launching" => d = c
            /\ at'[d] = "resetting" <=> at[d] = "resetting"
        BY <1>0, <2>1, <2>4
    <2>6. StartupOrder'
        BY <2>1, <2>2, <2>3, <2>5 DEF Order, StartupOrder
    <2>7. LaunchOrder'
        BY <2>1, <2>2, <2>4, <2>5, LifeTypes DEF Order, LaunchOrder
    <2>8. ResetOrder'
        BY <2>1, <2>2, <2>3, <2>5, LifeTypes DEF Order, ResetOrder
    <2> QED BY <2>6, <2>7, <2>8 DEF Order
<1> QED BY <1>1, <1>2

\* Who launches is alone with the next generation.
LEMMA LaunchIsAlone ==
    ASSUME TypeIInv, Order, NEW c \in Captures, at[c] \in {"launching", "closingLate"}
    PROVE  /\ runtime = "ready" \/ process.status = "closed"
           /\ process.status \in {"launching", "closed"}
           /\ \A d \in Captures : at[d] \notin {"launching", "closingLate"} \/ d = c
           /\ at[c] = "launching" =>
                process.next \notin browsers /\ \A gen \in browsers : gen < process.next
           /\ process.gen # None /\ process.status = "closed" => process.gen < process.next
           /\ \A d \in Captures : at[d] = "loading" => process.status # "closed" /\ d # c
<1>1. process.status \in {"launching", "closed"} /\ (runtime = "ready" \/ process.status = "closed")
    BY DEF Order, StartupOrder, LaunchOrder
<1>2. \A d \in Captures : at[d] \notin {"launching", "closingLate"} \/ d = c
    BY DEF Order, LaunchOrder
<1>3. ASSUME at[c] = "launching" PROVE \A gen \in browsers : gen < process.next
    <2>1. \A gen \in browsers : gen # process.next
        BY <1>2, <1>3 DEF Order, LaunchOrder
    <2> QED BY <2>1, LifeTypes DEF Order, LaunchOrder
<1>4. at[c] = "launching" => process.next \notin browsers
    BY <1>3, LifeTypes
<1> QED BY <1>1, <1>2, <1>3, <1>4 DEF Order, StartupOrder, LaunchOrder

LEMMA LaunchSucceedsKeepsOrder ==
    ASSUME TypeIInv, Order, NEW c \in Captures, LaunchSucceeds(c)
    PROVE  Order'
<1>0. /\ at[c] = "launching" /\ browsers' = browsers \cup {process.next}
      /\ UNCHANGED <<scope, runtime, abandoned>>
    BY DEF LaunchSucceeds, Launched
<1>1. /\ runtime = "ready" \/ process.status = "closed"
      /\ process.status \in {"launching", "closed"}
      /\ \A d \in Captures : at[d] \notin {"launching", "closingLate"} \/ d = c
      /\ process.next \notin browsers /\ \A gen \in browsers : gen < process.next
      /\ process.gen # None /\ process.status = "closed" => process.gen < process.next
    BY <1>0, LaunchIsAlone
<1>2. \A d \in Captures : at[d] = "resetting" => handle'[d] = handle[d] /\ at'[d] = "resetting"
    BY <1>0, LifeTypes DEF LaunchSucceeds, Receive, Waiting
<1>3. CASE process.status = "closed"
    <2>1. process' = process /\ at'[c] = "closingLate"
        BY <1>0, <1>3, LifeTypes DEF LaunchSucceeds, Waiting
    <2>2. \A d \in Captures \ {c} : at'[d] = at[d] \/ at'[d] \in {"done", "context"}
        BY <1>3 DEF LaunchSucceeds, StageWith
    <2>3. \A d \in Captures :
            /\ at'[d] = "loading" => at[d] = "loading"
            /\ at'[d] # "launching"
            /\ at'[d] = "closingLate" => d = c
            /\ at'[d] = "resetting" <=> at[d] = "resetting"
        BY <1>0, <1>1, <1>2, <2>1, <2>2
    <2>4. StartupOrder'
        BY <1>0, <1>3, <2>1, <2>3 DEF Order, StartupOrder
    <2>5. LaunchOrder'
        BY <1>0, <1>1, <1>3, <2>1, <2>3, LifeTypes DEF Order, LaunchOrder
    <2>6. ResetOrder'
        BY <1>0, <1>1, <1>2, <2>1, <2>3 DEF Order, ResetOrder
    <2> QED BY <2>4, <2>5, <2>6 DEF Order
<1>4. CASE process.status = "launching"
    <2>1. /\ process'.status = "ready" /\ process'.gen = process.next
          /\ process'.next = process.next + 1
        BY <1>4 DEF LaunchSucceeds, Launched
    <2>2. \A d \in Captures : (d # c /\ at'[d] = at[d]) \/ at'[d] \in {"done", "context"}
        BY <1>4 DEF LaunchSucceeds, StageWith
    <2>3. \A d \in Captures :
            /\ at'[d] = "loading" => at[d] = "loading"
            /\ at'[d] # "launching" /\ at'[d] # "closingLate"
            /\ at'[d] = "resetting" <=> at[d] = "resetting"
        BY <1>0, <1>1, <1>2, <2>2
    <2>4. StartupOrder'
        BY <1>0, <1>1, <1>4, <2>1, <2>3 DEF Order, StartupOrder
    <2>5. LaunchOrder'
        BY <1>0, <1>1, <2>1, <2>3, LifeTypes DEF Order, LaunchOrder
    <2>6. ResetOrder'
        <3>1. \A d \in Captures : at'[d] = "resetting" =>
                handle'[d] = handle[d] /\ handle[d] \in browsers /\ handle[d] < process.next
            BY <1>2, <2>3 DEF Order, ResetOrder
        <3>2. \A d \in Captures : at'[d] = "resetting" =>
                handle'[d] \in browsers' /\ handle'[d] < process'.next /\ handle'[d] # process'.gen
            BY <1>0, <2>1, <3>1, LifeTypes
        <3>3. \A gen \in browsers : gen # process.gen /\ gen # process.next
            BY <1>1, <1>4, LifeTypes DEF Order, LaunchOrder
        <3>4. \A gen \in browsers' :
                process'.gen = gen \/ \E d \in Captures : at'[d] = "resetting" /\ handle'[d] = gen
            BY <1>0, <1>2, <2>1, <3>3 DEF Order, ResetOrder
        <3> QED BY <1>2, <2>3, <3>2, <3>4 DEF Order, ResetOrder
    <2> QED BY <2>4, <2>5, <2>6 DEF Order
<1> QED BY <1>1, <1>3, <1>4

LEMMA LaunchFailsKeepsOrder ==
    ASSUME TypeIInv, Order, NEW c \in Captures, LaunchFails(c)
    PROVE  Order'
<1>0. /\ at[c] = "launching"
      /\ UNCHANGED <<scope, runtime, browsers, abandoned, handle>>
      /\ process'.next = process.next
      /\ IF process.status = "closed" THEN process' = process
                                      ELSE process'.status = "idle" /\ process'.gen = None
    BY LifeTypes DEF LaunchFails, Launched, Refuse, resourceVars
<1>1. /\ runtime = "ready" \/ process.status = "closed"
      /\ process.status \in {"launching", "closed"}
      /\ \A d \in Captures : at[d] \notin {"launching", "closingLate"} \/ d = c
      /\ \A gen \in browsers : gen < process.next
    BY <1>0, LaunchIsAlone
<1>2. \A d \in Captures :
        at'[d] = IF d = c \/ at[d] = "awaitProcess" THEN "done" ELSE at[d]
    BY DEF LaunchFails, Refuse, Waiting
<1>3. \A d \in Captures :
        /\ at'[d] = "loading" <=> at[d] = "loading"
        /\ at'[d] # "launching" /\ at'[d] # "closingLate"
        /\ at'[d] = "resetting" <=> at[d] = "resetting"
    BY <1>0, <1>1, <1>2
<1>4. StartupOrder'
    BY <1>0, <1>1, <1>3 DEF Order, StartupOrder
<1>5. LaunchOrder'
    BY <1>0, <1>1, <1>3, LifeTypes DEF Order, LaunchOrder
<1>6. ResetOrder'
    <2>1. \A gen \in browsers : gen # process.next
        BY <1>1, LifeTypes
    <2>2. \A d \in Captures : at[d] = "resetting" => handle[d] # None
        BY LifeTypes
    <2>3. process.status = "launching" => process.gen = process.next
        BY DEF Order, LaunchOrder
    <2> QED BY <1>0, <1>1, <1>3, <2>1, <2>2, <2>3 DEF Order, ResetOrder
<1> QED BY <1>4, <1>5, <1>6 DEF Order

LEMMA CloseAfterLaunchKeepsOrder ==
    ASSUME TypeIInv, Order, NEW c \in Captures, CloseAfterLaunch(c)
    PROVE  Order'
<1>0. /\ at[c] = "closingLate"
      /\ UNCHANGED <<scope, runtime, process, abandoned>>
      /\ browsers' = browsers \ {process.next}
    BY DEF CloseAfterLaunch, CloseBrowser, Launched, sharedVars
<1>1. /\ at'[c] \in {"done", "context"}
      /\ \A d \in Captures \ {c} : at'[d] = at[d] /\ handle'[d] = handle[d]
    BY LifeTypes DEF CloseAfterLaunch, Goes, StageWith, Receive
<1>2. /\ process.status = "closed"
      /\ process.gen # None => process.gen < process.next
      /\ \A d \in Captures : at[d] \notin {"launching", "closingLate"} \/ d = c
    BY <1>0, LaunchIsAlone DEF Order, LaunchOrder
<1>3. \A d \in Captures :
        /\ at'[d] = "loading" <=> at[d] = "loading"
        /\ at'[d] # "launching" /\ at'[d] # "closingLate"
        /\ at'[d] = "resetting" <=> at[d] = "resetting"
        /\ at'[d] = "resetting" => handle'[d] = handle[d]
    BY <1>0, <1>1, <1>2
<1>4. StartupOrder'
    BY <1>0, <1>2, <1>3, LifeTypes DEF Order, StartupOrder
<1>5. LaunchOrder'
    BY <1>0, <1>2, <1>3, LifeTypes DEF Order, LaunchOrder
<1>6. ResetOrder'
    BY <1>0, <1>3, LifeTypes DEF Order, ResetOrder
<1> QED BY <1>4, <1>5, <1>6 DEF Order

LEMMA RecycleKeepsOrder ==
    ASSUME TypeIInv, Order, NEW c \in Captures, Recycle(c)
    PROVE  Order'
<1>0. /\ at[c] = "recycle" /\ at[c] \notin Early /\ at[c] \notin Busy
      /\ UNCHANGED <<scope, runtime, browsers, abandoned, handle>>
    BY DEF Recycle, Early, Busy, resourceVars
<1>1. CASE ~(process.status = "ready" /\ process.gen = handle[c])
    <2>1. /\ process' = process /\ at'[c] \in {"process", "done"}
          /\ \A d \in Captures \ {c} : at'[d] = at[d]
        BY <1>1, LifeTypes DEF Recycle, Goes, AfterReset
    <2>2. at'[c] \notin Busy
        BY <2>1 DEF Busy
    <2> QED BY <1>0, <2>1, <2>2, QuietStep DEF sharedVars
<1>2. CASE process.status = "ready" /\ process.gen = handle[c]
    <2>1. /\ process'.status = "idle" /\ process'.gen = None /\ process'.next = process.next
          /\ at'[c] = "resetting"
          /\ \A d \in Captures \ {c} : at'[d] = at[d]
        BY <1>2, LifeTypes DEF Recycle, Goes
    <2>2. /\ runtime = "ready"
          /\ handle[c] \in browsers /\ handle[c] < process.next /\ handle[c] # None
        BY <1>0, <1>2, LifeTypes DEF Order, StartupOrder, LaunchOrder
    <2>3. \A d \in Captures :
            /\ at'[d] = "loading" <=> at[d] = "loading"
            /\ at'[d] # "launching" /\ at'[d] # "closingLate"
            /\ at[d] # "launching" /\ at[d] # "closingLate"
            /\ at'[d] = "resetting" <=> (at[d] = "resetting" \/ d = c)
        BY <1>0, <1>2, <2>1 DEF Order, LaunchOrder
    <2>4. StartupOrder'
        BY <1>0, <1>2, <2>1, <2>2, <2>3 DEF Order, StartupOrder
    <2>5. LaunchOrder'
        BY <1>0, <1>2, <2>1, <2>3 DEF Order, LaunchOrder
    <2>6. ResetOrder'
        <3>1. \A d \in Captures : at[d] = "resetting" => handle[d] # None /\ handle[d] # handle[c]
            BY <1>2, LifeTypes DEF Order, ResetOrder
        <3> QED BY <1>0, <1>2, <2>1, <2>2, <2>3, <3>1 DEF Order, ResetOrder
    <2> QED BY <2>4, <2>5, <2>6 DEF Order
<1> QED BY <1>1, <1>2

LEMMA FinishResetKeepsOrder ==
    ASSUME TypeIInv, Order, NEW c \in Captures, FinishReset(c)
    PROVE  Order'
<1>0. /\ at[c] = "resetting" /\ at[c] \notin Early
      /\ UNCHANGED <<scope, runtime, process, abandoned, handle>>
      /\ browsers' = browsers \ {handle[c]}
    BY DEF FinishReset, CloseBrowser, sharedVars, Early
<1>1. at'[c] \in {"process", "done"} /\ \A d \in Captures \ {c} : at'[d] = at[d]
    BY LifeTypes DEF FinishReset, Goes, AfterReset
<1>2. handle[c] \in browsers /\ handle[c] < process.next /\ handle[c] # process.gen
    BY <1>0 DEF Order, ResetOrder
<1>3. \A d \in Captures :
        /\ at'[d] = "loading" <=> at[d] = "loading"
        /\ at'[d] = "launching" <=> at[d] = "launching"
        /\ at'[d] = "closingLate" <=> at[d] = "closingLate"
        /\ at'[d] = "resetting" <=> (at[d] = "resetting" /\ d # c)
    BY <1>0, <1>1
<1>4. StartupOrder'
    BY <1>0, <1>2, <1>3 DEF Order, StartupOrder
<1>5. LaunchOrder'
    BY <1>0, <1>2, <1>3, LifeTypes DEF Order, LaunchOrder
<1>6. ResetOrder'
    BY <1>0, <1>3 DEF Order, ResetOrder
<1> QED BY <1>4, <1>5, <1>6 DEF Order

LEMMA ScopeStepsKeepOrder ==
    ASSUME TypeIInv, Order, CloseScope \/ FinishShutdown \/ AbandonedOpens
    PROVE  Order'
<1>1. CASE CloseScope
    <2>1. /\ UNCHANGED <<browsers, abandoned, at, handle>>
          /\ scope = "open" /\ runtime' = "closed" /\ process'.next = process.next
          /\ process.status # "closed"
        BY <1>1, LifeTypes DEF CloseScope, resourceVars, captureVars, Order, StartupOrder
    <2>2. CASE runtime # "ready"
        <3>1. process' = process /\ scope' = "closed"
            BY <1>1, <2>2 DEF CloseScope
        <3>2. process.status = "idle" /\ process.gen = None /\ \A c \in Captures : at[c] \in Early
            BY <2>1, <2>2, NothingRunsYet
        <3>3. StartupOrder' /\ LaunchOrder' /\ ResetOrder'
            BY <2>1, <3>1, <3>2 DEF Order, StartupOrder, LaunchOrder, ResetOrder
        <3> QED BY <3>3 DEF Order
    <2>3. CASE runtime = "ready" /\ process.status = "ready"
        <3>1. /\ process'.status = "closed" /\ process'.gen = process.gen /\ scope' = "closing"
            BY <1>1, <2>3, LifeTypes DEF CloseScope
        <3>2. StartupOrder'
            BY <2>1, <2>3, <3>1 DEF Order, StartupOrder, LaunchOrder
        <3>3. LaunchOrder'
            BY <2>1, <2>3, <3>1 DEF Order, LaunchOrder
        <3>4. ResetOrder'
            BY <2>1, <3>1 DEF Order, ResetOrder
        <3> QED BY <3>2, <3>3, <3>4 DEF Order
    <2>4. CASE runtime = "ready" /\ process.status \in {"idle", "launching"}
        <3>1. /\ process'.status = "closed" /\ process'.gen = None /\ scope' = "closed"
            BY <1>1, <2>4, LifeTypes DEF CloseScope
        <3>2. StartupOrder'
            BY <2>1, <2>4, <3>1 DEF Order, StartupOrder
        <3>3. LaunchOrder'
            BY <2>1, <2>4, <3>1 DEF Order, LaunchOrder
        <3>4. \A gen \in browsers : process.gen # gen \/ process.next = gen
            BY <2>4, LifeTypes DEF Order, LaunchOrder
        <3>5. \A c \in Captures : at[c] = "resetting" => handle[c] # None
            BY LifeTypes
        <3>6. ResetOrder'
            BY <2>1, <3>1, <3>4, <3>5 DEF Order, ResetOrder
        <3> QED BY <3>2, <3>3, <3>6 DEF Order
    <2> QED BY <2>1, <2>2, <2>3, <2>4, LifeTypes DEF Statuses
<1>2. CASE FinishShutdown
    <2>1. /\ UNCHANGED <<runtime, abandoned, at, handle>>
          /\ scope = "closing" /\ scope' = "closed"
          /\ process'.status = "closed" /\ process'.gen = None /\ process'.next = process.next
          /\ browsers' = browsers \ {process.gen}
        BY <1>2, LifeTypes DEF FinishShutdown, ClosedProcess, CloseBrowser, captureVars
    <2>2. process.status = "closed" /\ process.gen \in browsers /\ process.gen < process.next
        BY <2>1, LifeTypes DEF Order, StartupOrder, LaunchOrder
    <2>3. StartupOrder'
        BY <2>1, <2>2 DEF Order, StartupOrder
    <2>4. LaunchOrder'
        BY <2>1, <2>2, LifeTypes DEF Order, LaunchOrder
    <2>5. \A c \in Captures : at[c] = "resetting" => handle[c] # None
        BY LifeTypes
    <2>6. ResetOrder'
        BY <2>1, <2>5 DEF Order, ResetOrder
    <2> QED BY <2>3, <2>4, <2>6 DEF Order
<1>3. CASE AbandonedOpens
    BY <1>3 DEF AbandonedOpens, Order, LaunchOrder
<1> QED BY <1>1, <1>2, <1>3

\* The steps between a browser and the end of a capture.
LEMMA UseKeepsOrder ==
    ASSUME TypeIInv, Order, NEW c \in Captures,
           \/ RejectPlan(c) \/ NewContext(c) \/ NoContext(c) \/ NewPage(c) \/ NoPage(c)
           \/ Use(c) \/ ClosePage(c) \/ CloseContext(c) \/ Interrupt(c)
    PROVE  Order'
<1>1. UNCHANGED <<sharedVars, browsers, abandoned, handle>>
    BY DEF RejectPlan, NewContext, NoContext, NewPage, NoPage, Use, ClosePage, CloseContext,
           Interrupt, resourceVars
<1>2. PICK stage \in {"done", "page", "use", "closingPage", "closingContext", "recycle"} :
        /\ Goes(c, stage)
        /\ at[c] \in {"new", "awaitRuntime"} => stage = "done"
    BY DEF RejectPlan, NewContext, NoContext, NewPage, NoPage, Use, ClosePage, CloseContext,
           Interrupt, StageAfter
<1>3. /\ at[c] \in {"new", "awaitRuntime", "awaitProcess", "context", "page", "use",
                    "closingPage", "closingContext"}
    BY DEF RejectPlan, NewContext, NoContext, NewPage, NoPage, Use, ClosePage, CloseContext,
           Interrupt
<1>4. at'[c] = stage /\ \A d \in Captures \ {c} : at'[d] = at[d]
    BY <1>2, LifeTypes DEF Goes
<1>5. at[c] \notin Busy /\ at'[c] \notin Busy
    BY <1>3, <1>4 DEF Busy
<1>6. at'[c] \in Early \/ at[c] \notin Early
    BY <1>2, <1>3, <1>4 DEF Early
<1> QED BY <1>1, <1>4, <1>5, <1>6, QuietStep

-----------------------------------------------------------------------------
\* What was cut short stays cut short: the capture has no step left that could end
\* it differently.
LEMMA CutShortStays ==
    ASSUME TypeIInv, [Next]_vars, SomeCutShort
    PROVE  SomeCutShort'
<1>1. PICK e \in Captures : ending[e] = "cutShort" /\ at[e] = "done"
    BY DEF SomeCutShort, TypeIInv, CutShortIsOver
<1> SUFFICES ending'[e] = "cutShort"
    BY DEF SomeCutShort
<1>e. ending \in [Captures -> Endings]
    BY DEF TypeIInv, TypeOK
<1>2. ASSUME NEW c \in Captures, NEW how, Ends(c, how), at[c] # "done"
      PROVE  ending'[e] = "cutShort"
    BY <1>1, <1>2, <1>e DEF Ends
<1>3. ASSUME NEW S \in SUBSET Captures, Refuse(S), \A c \in S : at[c] # "done"
      PROVE  ending'[e] = "cutShort"
    BY <1>1, <1>3 DEF Refuse
<1>4. ASSUME NEW c \in Captures, RejectPlan(c) \/ AskRuntime(c) \/ EngineLoads(c) \/ EngineMissing(c)
      PROVE  ending'[e] = "cutShort"
    <2>1. CASE EngineMissing(c)
        <3>1. Refuse({c} \cup Waiting("awaitRuntime")) /\ at[c] = "loading"
            BY <2>1 DEF EngineMissing
        <3> QED BY <1>3, <3>1 DEF Waiting
    <2>2. CASE ~EngineMissing(c)
        BY <1>1, <1>2, <1>4, <2>2 DEF RejectPlan, AskRuntime, EngineLoads
    <2> QED BY <2>1, <2>2
<1>5. ASSUME NEW c \in Captures, Decided(c)
      PROVE  ending'[e] = "cutShort"
    BY <1>1, <1>3, <1>5 DEF Decided, AskProcess, Recycle
<1>6. ASSUME NEW c \in Captures, LaunchSucceeds(c) \/ LaunchFails(c) \/ CloseAfterLaunch(c)
      PROVE  ending'[e] = "cutShort"
    <2>1. CASE LaunchFails(c)
        <3>1. Refuse({c} \cup Waiting("awaitProcess")) /\ at[c] = "launching"
            BY <2>1 DEF LaunchFails
        <3> QED BY <1>3, <3>1 DEF Waiting
    <2>2. CASE ~LaunchFails(c)
        BY <1>1, <1>6, <2>2 DEF LaunchSucceeds, CloseAfterLaunch
    <2> QED BY <2>1, <2>2
<1>7. ASSUME NEW c \in Captures,
             NewContext(c) \/ NoContext(c) \/ NewPage(c) \/ NoPage(c) \/ Use(c) \/ ClosePage(c)
               \/ CloseContext(c) \/ FinishReset(c)
      PROVE  ending'[e] = "cutShort"
    BY <1>1, <1>2, <1>7
       DEF NewContext, NoContext, NewPage, NoPage, Use, ClosePage, CloseContext, FinishReset
<1>8. ASSUME NEW c \in Captures, Interrupt(c) \/ InterruptLaunch(c) \/ InterruptClose(c)
      PROVE  ending'[e] = "cutShort"
    BY <1>2, <1>8 DEF Interrupt, InterruptLaunch, InterruptClose
<1>9. CASE CloseScope \/ FinishShutdown \/ AbandonedOpens \/ AllDone \/ UNCHANGED vars
    BY <1>1, <1>9 DEF CloseScope, FinishShutdown, AbandonedOpens, AllDone, vars, captureVars
<1> QED BY <1>4, <1>5, <1>6, <1>7, <1>8, <1>9 DEF Next, Answered

LEMMA OrderStepHolds == LifeIInv /\ [Next]_vars => LifeIInv'
<1> SUFFICES ASSUME LifeIInv, [Next]_vars PROVE LifeIInv'
    OBVIOUS
<1>1. TypeIInv /\ TypeIInv'
    BY TypeStepHolds DEF LifeIInv
<1> SUFFICES ASSUME ~SomeCutShort' PROVE Order'
    BY <1>1 DEF LifeIInv
<1>2. Order
    BY <1>1, CutShortStays DEF LifeIInv
<1>3. ASSUME NEW c \in Captures, InterruptLaunch(c) \/ InterruptClose(c) PROVE FALSE
    <2>1. ending'[c] = "cutShort"
        BY <1>1, <1>3 DEF InterruptLaunch, InterruptClose, Ends, TypeIInv, TypeOK
    <2> QED BY <2>1 DEF SomeCutShort
<1>4. ASSUME NEW c \in Captures, Decided(c) PROVE Order'
    BY <1>1, <1>2, <1>4, AskProcessKeepsOrder, RecycleKeepsOrder DEF Decided
<1>5. ASSUME NEW c \in Captures,
             \/ RejectPlan(c) \/ NewContext(c) \/ NoContext(c) \/ NewPage(c) \/ NoPage(c)
             \/ Use(c) \/ ClosePage(c) \/ CloseContext(c) \/ Interrupt(c)
      PROVE  Order'
    BY <1>1, <1>2, <1>5, UseKeepsOrder
<1>6. ASSUME NEW c \in Captures, AskRuntime(c) \/ EngineLoads(c) \/ EngineMissing(c)
      PROVE  Order'
    BY <1>1, <1>2, <1>6, AskRuntimeKeepsOrder, LoadKeepsOrder
<1>7. ASSUME NEW c \in Captures, LaunchSucceeds(c) \/ LaunchFails(c) \/ CloseAfterLaunch(c)
      PROVE  Order'
    BY <1>1, <1>2, <1>7, LaunchSucceedsKeepsOrder, LaunchFailsKeepsOrder, CloseAfterLaunchKeepsOrder
<1>8. ASSUME NEW c \in Captures, FinishReset(c) PROVE Order'
    BY <1>1, <1>2, <1>8, FinishResetKeepsOrder
<1>9. CASE CloseScope \/ FinishShutdown \/ AbandonedOpens
    BY <1>1, <1>2, <1>9, ScopeStepsKeepOrder
<1>10. CASE AllDone \/ UNCHANGED vars
    BY <1>2, <1>10
       DEF AllDone, vars, sharedVars, resourceVars, captureVars, Order, StartupOrder, LaunchOrder, ResetOrder
<1> QED BY <1>3, <1>4, <1>5, <1>6, <1>7, <1>8, <1>9, <1>10 DEF Next, Answered

THEOREM BrowserLife == Spec => []LifeIInv
BY OrderInitially, OrderStepHolds, PTL DEF Spec

-----------------------------------------------------------------------------
\* Every browser that runs is closed by the scope or by exactly one capture, as long
\* as no interruption cut a startup or a close short.
THEOREM EachBrowserAlwaysHasItsCloser == Spec => []EachBrowserHasItsCloser
<1>1. ASSUME LifeIInv PROVE EachBrowserHasItsCloser
    <2> SUFFICES ASSUME ~SomeCutShort, NEW gen \in browsers
                 PROVE  Cardinality(Closers(gen)) + (IF process.gen = gen THEN 1 ELSE 0) = 1
        BY DEF EachBrowserHasItsCloser
    <2>1. TypeIInv /\ Order
        BY <1>1 DEF LifeIInv
    <2>2. \A c \in Captures : at[c] = "closingLate" =>
            /\ process.gen # process.next
            /\ \A d \in Captures : at[d] = "closingLate" => c = d
        BY <2>1, LifeTypes DEF Order, LaunchOrder
    <2>3. \A c \in Captures : at[c] = "resetting" =>
            /\ handle[c] # process.gen /\ handle[c] # process.next
            /\ \A d \in Captures : at[d] = "resetting" /\ handle[d] = handle[c] => c = d
        BY <2>1, LifeTypes DEF Order, ResetOrder
    <2>4. CASE process.gen = gen
        <3>1. Closers(gen) = {}
            BY <2>2, <2>3, <2>4 DEF Closers, Launched
        <3> QED BY <2>4, <3>1, FS_EmptySet
    <2>5. CASE process.gen # gen
        <3>1. PICK c \in Captures :
                \/ at[c] = "closingLate" /\ process.next = gen
                \/ at[c] = "resetting" /\ handle[c] = gen
            BY <2>1, <2>5 DEF Order, LaunchOrder, ResetOrder
        <3>2. Closers(gen) = {c}
            BY <2>2, <2>3, <3>1 DEF Closers, Launched
        <3>3. Cardinality({c}) = 1
            BY FS_Singleton, Zenon
        <3> QED BY <2>5, <3>2, <3>3
    <2> QED BY <2>4, <2>5
<1> QED BY <1>1, BrowserLife, PTL

-----------------------------------------------------------------------------
\* The captures that opened a context, and a page, and did not close it yet.
ContextStages == {"page", "use", "closingPage", "closingContext"}
PageStages == {"use", "closingPage"}
WithContext == {c \in Captures : at[c] \in ContextStages}
WithPage == {c \in Captures : at[c] \in PageStages}

\* The leak detector counts what is open.
DetectorCounts ==
    /\ IsFiniteSet(browsers)
    /\ detector.open["browsers"] = Cardinality(browsers)
    /\ detector.open["contexts"] = Cardinality(WithContext)
    /\ detector.open["pages"] = Cardinality(WithPage)

CountIInv == LifeIInv /\ (~SomeCutShort => DetectorCounts)

\* One sample changes one count.
LEMMA SampleCounts ==
    ASSUME NEW d \in Detectors, NEW r \in Resources
    PROVE  /\ Opened(d, r).open[r] = d.open[r] + 1
           /\ d.open[r] # 0 => Closed(d, r).open[r] = d.open[r] - 1
           /\ \A q \in Resources \ {r} :
                Opened(d, r).open[q] = d.open[q] /\ Closed(d, r).open[q] = d.open[q]
<1>1. d.open \in [Resources -> Nat]
    BY DEF Detectors
<1>2. Opened(d, r).open = [d.open EXCEPT ![r] = @ + 1]
    BY <1>1 DEF Opened, Sampled, AdjustCount, BelowZero
<1>3. d.open[r] # 0 => Closed(d, r).open = [d.open EXCEPT ![r] = @ + (-1)]
    BY <1>1 DEF Closed, Sampled, AdjustCount, BelowZero
<1>4. d.open[r] = 0 => Closed(d, r).open = d.open
    BY <1>1 DEF Closed, Sampled, AdjustCount, BelowZero
<1> QED BY <1>1, <1>2, <1>3, <1>4

\* An element joins or leaves a finite set.
LEMMA SizeChanges ==
    ASSUME NEW S, IsFiniteSet(S), NEW x
    PROVE  /\ Cardinality(S) \in Nat
           /\ IsFiniteSet(S \cup {x}) /\ IsFiniteSet(S \ {x})
           /\ x \notin S => Cardinality(S \cup {x}) = Cardinality(S) + 1
           /\ x \in S => Cardinality(S) # 0 /\ Cardinality(S \ {x}) = Cardinality(S) - 1
<1>1. Cardinality(S) \in Nat
    BY FS_CardinalityType
<1>2. IsFiniteSet(S \cup {x}) /\ (x \notin S => Cardinality(S \cup {x}) = Cardinality(S) + 1)
    BY FS_AddElement
<1>3. IsFiniteSet(S \ {x}) /\ (x \in S => Cardinality(S \ {x}) = Cardinality(S) - 1)
    BY FS_RemoveElement
<1>4. x \in S => Cardinality(S) # 0
    <2>1. IsFiniteSet(S \ {x}) => Cardinality(S \ {x}) \in Nat
        BY FS_CardinalityType
    <2> QED BY <1>1, <1>3, <2>1
<1> QED BY <1>1, <1>2, <1>3, <1>4

LEMMA HoldersFinite == IsFiniteSet(WithContext) /\ IsFiniteSet(WithPage)
<1>1. WithContext \subseteq Captures /\ WithPage \subseteq Captures
    BY DEF WithContext, WithPage
<1> QED BY <1>1, BrowserAccessAssumption, FS_Subset

\* A step that opens and closes nothing the detector is told of.
LEMMA NothingOpened ==
    ASSUME DetectorCounts, UNCHANGED <<browsers, detector>>,
           \A c \in Captures : at'[c] \in ContextStages <=> at[c] \in ContextStages,
           \A c \in Captures : at'[c] \in PageStages <=> at[c] \in PageStages
    PROVE  DetectorCounts'
<1>1. WithContext' = WithContext /\ WithPage' = WithPage
    BY DEF WithContext, WithPage
<1> QED BY <1>1 DEF DetectorCounts

\* A browser opens or closes, and the captures that go on hold nothing before and after.
LEMMA BrowserCounted ==
    ASSUME TypeIInv, DetectorCounts, NEW gen,
           \A c \in Captures :
             at'[c] = at[c] \/ (at[c] \notin ContextStages /\ at'[c] \notin ContextStages),
           \/ /\ gen \notin browsers /\ browsers' = browsers \cup {gen}
              /\ detector' = Opened(detector, "browsers")
           \/ /\ gen \in browsers /\ browsers' = browsers \ {gen}
              /\ detector' = Closed(detector, "browsers")
    PROVE  DetectorCounts'
<1>1. WithContext' = WithContext /\ WithPage' = WithPage
    BY DEF WithContext, WithPage, ContextStages, PageStages
<1>2. detector \in Detectors /\ "browsers" \in Resources
      /\ {"contexts", "pages"} \subseteq Resources \ {"browsers"}
    BY DEF TypeIInv, TypeOK, Resources
<1>3. /\ Opened(detector, "browsers").open["browsers"] = detector.open["browsers"] + 1
      /\ detector.open["browsers"] # 0 =>
           Closed(detector, "browsers").open["browsers"] = detector.open["browsers"] - 1
      /\ \A q \in {"contexts", "pages"} :
           /\ Opened(detector, "browsers").open[q] = detector.open[q]
           /\ Closed(detector, "browsers").open[q] = detector.open[q]
    BY <1>2, SampleCounts
<1>4. IsFiniteSet(browsers)
    BY DEF DetectorCounts
<1>5. /\ Cardinality(browsers) \in Nat
      /\ IsFiniteSet(browsers \cup {gen}) /\ IsFiniteSet(browsers \ {gen})
      /\ gen \notin browsers => Cardinality(browsers \cup {gen}) = Cardinality(browsers) + 1
      /\ gen \in browsers =>
           Cardinality(browsers) # 0 /\ Cardinality(browsers \ {gen}) = Cardinality(browsers) - 1
    BY <1>4, SizeChanges
<1> QED BY <1>1, <1>3, <1>5 DEF DetectorCounts

\* A capture opens or closes its context or its page.
LEMMA CaptureCounted ==
    ASSUME TypeIInv, DetectorCounts, NEW c \in Captures, NEW stage \in Stages, Goes(c, stage),
           UNCHANGED browsers,
           \/ /\ at[c] \notin ContextStages /\ stage \in ContextStages \ PageStages
              /\ detector' = Opened(detector, "contexts")
           \/ /\ at[c] \in ContextStages \ PageStages /\ stage \notin ContextStages
              /\ detector' = Closed(detector, "contexts")
           \/ /\ at[c] \in ContextStages \ PageStages /\ stage \in PageStages
              /\ detector' = Opened(detector, "pages")
           \/ /\ at[c] \in PageStages /\ stage \in ContextStages \ PageStages
              /\ detector' = Closed(detector, "pages")
    PROVE  DetectorCounts'
<1>1. at'[c] = stage /\ \A d \in Captures \ {c} : at'[d] = at[d]
    BY LifeTypes DEF Goes
<1>2. PageStages \subseteq ContextStages
    BY DEF PageStages, ContextStages
<1>3. detector \in Detectors /\ Resources = {"browsers", "contexts", "pages"}
    BY DEF TypeIInv, TypeOK, Resources
<1>4. \A r \in Resources :
        /\ Opened(detector, r).open[r] = detector.open[r] + 1
        /\ detector.open[r] # 0 => Closed(detector, r).open[r] = detector.open[r] - 1
        /\ \A q \in Resources \ {r} :
             /\ Opened(detector, r).open[q] = detector.open[q]
             /\ Closed(detector, r).open[q] = detector.open[q]
    BY <1>3, SampleCounts
<1>5. /\ Cardinality(WithContext) \in Nat
      /\ c \notin WithContext => Cardinality(WithContext \cup {c}) = Cardinality(WithContext) + 1
      /\ c \in WithContext => /\ Cardinality(WithContext) # 0
                              /\ Cardinality(WithContext \ {c}) = Cardinality(WithContext) - 1
    BY HoldersFinite, SizeChanges
<1>6. /\ Cardinality(WithPage) \in Nat
      /\ c \notin WithPage => Cardinality(WithPage \cup {c}) = Cardinality(WithPage) + 1
      /\ c \in WithPage => /\ Cardinality(WithPage) # 0
                           /\ Cardinality(WithPage \ {c}) = Cardinality(WithPage) - 1
    BY HoldersFinite, SizeChanges
<1>7. CASE detector' = Opened(detector, "contexts") /\ at[c] \notin ContextStages
             /\ stage \in ContextStages \ PageStages
    <2>1. c \notin WithContext /\ WithContext' = WithContext \cup {c} /\ WithPage' = WithPage
        BY <1>1, <1>2, <1>7 DEF WithContext, WithPage
    <2> QED BY <1>3, <1>4, <1>5, <1>7, <2>1 DEF DetectorCounts
<1>8. CASE detector' = Closed(detector, "contexts") /\ at[c] \in ContextStages \ PageStages
             /\ stage \notin ContextStages
    <2>1. c \in WithContext /\ WithContext' = WithContext \ {c} /\ WithPage' = WithPage
        BY <1>1, <1>2, <1>8 DEF WithContext, WithPage
    <2> QED BY <1>3, <1>4, <1>5, <1>8, <2>1 DEF DetectorCounts
<1>9. CASE detector' = Opened(detector, "pages") /\ at[c] \in ContextStages \ PageStages
             /\ stage \in PageStages
    <2>1. c \notin WithPage /\ WithPage' = WithPage \cup {c} /\ WithContext' = WithContext
        BY <1>1, <1>2, <1>9 DEF WithContext, WithPage
    <2> QED BY <1>3, <1>4, <1>6, <1>9, <2>1 DEF DetectorCounts
<1>10. CASE detector' = Closed(detector, "pages") /\ at[c] \in PageStages
              /\ stage \in ContextStages \ PageStages
    <2>1. c \in WithPage /\ WithPage' = WithPage \ {c} /\ WithContext' = WithContext
        BY <1>1, <1>2, <1>10 DEF WithContext, WithPage
    <2> QED BY <1>3, <1>4, <1>6, <1>10, <2>1 DEF DetectorCounts
<1> QED BY <1>7, <1>8, <1>9, <1>10

\* Stages of a capture on either side of its context.
LEMMA StagesWithout ==
    /\ {"new", "loading", "awaitRuntime", "process", "launching", "awaitProcess", "closingLate",
        "context", "recycle", "resetting", "done"} \subseteq Stages \ ContextStages
    /\ {"page", "closingContext"} \subseteq ContextStages \ PageStages
    /\ PageStages = {"use", "closingPage"}
    /\ PageStages \subseteq ContextStages /\ ContextStages \subseteq Stages
BY DEF Stages, ContextStages, PageStages

LEMMA CountStepHolds == CountIInv /\ [Next]_vars => CountIInv'
<1> SUFFICES ASSUME CountIInv, [Next]_vars PROVE CountIInv'
    OBVIOUS
<1>1. LifeIInv /\ LifeIInv' /\ TypeIInv
    BY OrderStepHolds DEF CountIInv, LifeIInv
<1> SUFFICES ASSUME ~SomeCutShort' PROVE DetectorCounts'
    BY <1>1 DEF CountIInv
<1>2. Order /\ DetectorCounts
    BY <1>1, CutShortStays DEF CountIInv, LifeIInv
<1>s. \A c \in Captures : at[c] \in Stages
    BY <1>1, LifeTypes
<1>3. ASSUME NEW c \in Captures, InterruptLaunch(c) \/ InterruptClose(c) PROVE FALSE
    <2>1. ending'[c] = "cutShort"
        BY <1>1, <1>3 DEF InterruptLaunch, InterruptClose, Ends, TypeIInv, TypeOK
    <2> QED BY <2>1 DEF SomeCutShort
<1>4. ASSUME NEW c \in Captures, NEW stage, Goes(c, stage), UNCHANGED <<browsers, detector>>,
             \/ at[c] \notin ContextStages /\ stage \in Stages \ ContextStages
             \/ at[c] \in ContextStages \ PageStages /\ stage \in ContextStages \ PageStages
             \/ at[c] \in PageStages /\ stage \in PageStages
      PROVE  DetectorCounts'
    <2>1. at'[c] = stage /\ \A d \in Captures \ {c} : at'[d] = at[d]
        BY <1>1, <1>4, LifeTypes DEF Goes
    <2> QED BY <1>2, <1>4, <2>1, StagesWithout, NothingOpened
<1>5. ASSUME NEW S \in SUBSET Captures, NEW stage \in Stages \ ContextStages,
             UNCHANGED <<browsers, detector>>,
             \A c \in S : at[c] \notin ContextStages,
             \A c \in Captures : at'[c] = IF c \in S THEN stage ELSE at[c]
      PROVE  DetectorCounts'
    BY <1>2, <1>5, StagesWithout, NothingOpened
<1>6. ASSUME NEW c \in Captures, RejectPlan(c) \/ AskRuntime(c) PROVE DetectorCounts'
    <2>1. at[c] = "new" /\ UNCHANGED <<browsers, detector>>
        BY <1>6 DEF RejectPlan, AskRuntime, resourceVars
    <2>2. PICK stage \in {"done", "process", "awaitRuntime", "loading"} : Goes(c, stage)
        BY <1>6 DEF RejectPlan, AskRuntime
    <2> QED BY <1>4, <2>1, <2>2, StagesWithout
<1>7. ASSUME NEW c \in Captures, EngineLoads(c) \/ EngineMissing(c) \/ LaunchFails(c)
      PROVE  DetectorCounts'
    <2>1. UNCHANGED <<browsers, detector>>
        BY <1>7 DEF EngineLoads, EngineMissing, LaunchFails, resourceVars
    <2>2. PICK S \in SUBSET Captures, stage \in {"process", "done"} :
            /\ \A d \in S : at[d] \in {"loading", "launching", "awaitRuntime", "awaitProcess"}
            /\ \A d \in Captures : at'[d] = IF d \in S THEN stage ELSE at[d]
        <3>1. CASE EngineLoads(c)
            <4>1. /\ at[c] = "loading"
                  /\ \A d \in Captures :
                       at'[d] = IF d \in {c} \cup Waiting("awaitRuntime") THEN "process" ELSE at[d]
                BY <3>1 DEF EngineLoads, Waiting
            <4> QED BY <4>1 DEF Waiting
        <3>2. CASE EngineMissing(c)
            <4>1. /\ at[c] = "loading"
                  /\ \A d \in Captures :
                       at'[d] = IF d \in {c} \cup Waiting("awaitRuntime") THEN "done" ELSE at[d]
                BY <3>2 DEF EngineMissing, Refuse
            <4> QED BY <4>1 DEF Waiting
        <3>3. CASE LaunchFails(c)
            <4>1. /\ at[c] = "launching"
                  /\ \A d \in Captures :
                       at'[d] = IF d \in {c} \cup Waiting("awaitProcess") THEN "done" ELSE at[d]
                BY <3>3 DEF LaunchFails, Refuse
            <4> QED BY <4>1 DEF Waiting
        <3> QED BY <1>7, <3>1, <3>2, <3>3
    <2> QED BY <1>5, <2>1, <2>2, StagesWithout
<1>8. ASSUME NEW c \in Captures, Decided(c) PROVE DetectorCounts'
    <2>1. at[c] \in {"process", "recycle"} /\ UNCHANGED <<browsers, detector>>
        BY <1>8 DEF Decided, AskProcess, Recycle, resourceVars
    <2>2. PICK stage \in {"done", "context", "awaitProcess", "launching", "resetting", "process"} :
            /\ at'[c] = stage
            /\ \A d \in Captures \ {c} : at'[d] = at[d]
        BY <1>1, <1>8, LifeTypes
           DEF Decided, AskProcess, Recycle, Goes, StageWith, Refuse, AfterReset
    <2>3. \A d \in Captures : at'[d] = IF d \in {c} THEN stage ELSE at[d]
        BY <2>2
    <2>4. stage \in Stages \ ContextStages /\ \A d \in {c} : at[d] \notin ContextStages
        BY <2>1, StagesWithout
    <2>5. {c} \in SUBSET Captures
        BY <1>8
    <2> QED BY <1>5, <2>1, <2>3, <2>4, <2>5
<1>9. ASSUME NEW c \in Captures, NoContext(c) \/ NoPage(c) \/ Use(c) \/ Interrupt(c)
      PROVE  DetectorCounts'
    <2>1. UNCHANGED <<browsers, detector>>
        BY <1>9 DEF NoContext, NoPage, Use, Interrupt, resourceVars
    <2>2. PICK stage \in {"recycle", "done", "closingContext", "closingPage"} :
            /\ Goes(c, stage)
            /\ \/ at[c] \in {"context", "awaitRuntime", "awaitProcess"} /\ stage \in {"recycle", "done"}
               \/ at[c] = "page" /\ stage = "closingContext"
               \/ at[c] = "use" /\ stage = "closingPage"
        BY <1>9 DEF NoContext, NoPage, Use, Interrupt, StageAfter
    <2> QED BY <1>4, <2>1, <2>2, StagesWithout
<1>10. ASSUME NEW c \in Captures, NewContext(c) \/ NewPage(c) \/ ClosePage(c) \/ CloseContext(c)
       PROVE  DetectorCounts'
    <2>1. UNCHANGED browsers
        BY <1>10 DEF NewContext, NewPage, ClosePage, CloseContext
    <2>2. PICK stage \in {"page", "closingContext", "use", "recycle", "done"} :
            /\ Goes(c, stage)
            /\ \/ at[c] = "context" /\ stage \in {"page", "closingContext"}
                    /\ detector' = Opened(detector, "contexts")
               \/ at[c] = "closingContext" /\ stage \in {"recycle", "done"}
                    /\ detector' = Closed(detector, "contexts")
               \/ at[c] = "page" /\ stage = "use" /\ detector' = Opened(detector, "pages")
               \/ at[c] = "closingPage" /\ stage = "closingContext"
                    /\ detector' = Closed(detector, "pages")
        BY <1>10 DEF NewContext, NewPage, ClosePage, CloseContext, StageAfter
    <2>3. stage \in Stages
        BY StagesWithout
    <2> QED BY <1>1, <1>2, <2>1, <2>2, <2>3, StagesWithout, CaptureCounted
<1>11. ASSUME NEW c \in Captures, LaunchSucceeds(c) PROVE DetectorCounts'
    <2>1. /\ at[c] = "launching" /\ browsers' = browsers \cup {process.next}
          /\ detector' = Opened(detector, "browsers")
        BY <1>11 DEF LaunchSucceeds, Launched
    <2>2. process.next \notin browsers
        BY <1>1, <1>2, <2>1, LaunchIsAlone
    <2>3. \A d \in Captures :
            \/ at'[d] = at[d]
            \/ at[d] \in {"launching", "awaitProcess"} /\ at'[d] \in {"done", "context", "closingLate"}
        BY <2>1, <1>11 DEF LaunchSucceeds, Waiting, StageWith
    <2> QED BY <1>1, <1>2, <2>1, <2>2, <2>3, StagesWithout, BrowserCounted
<1>12. ASSUME NEW c \in Captures, FinishReset(c) \/ CloseAfterLaunch(c) PROVE DetectorCounts'
    <2>1. PICK gen \in browsers :
            browsers' = browsers \ {gen} /\ detector' = Closed(detector, "browsers")
        <3>1. FinishReset(c) => handle[c] \in browsers
            BY <1>2 DEF FinishReset, Order, ResetOrder
        <3>2. CloseAfterLaunch(c) => process.next \in browsers
            BY <1>2 DEF CloseAfterLaunch, Order, LaunchOrder
        <3> QED BY <1>12, <3>1, <3>2 DEF FinishReset, CloseAfterLaunch, CloseBrowser, Launched
    <2>2. /\ at[c] \in {"resetting", "closingLate"} /\ at'[c] \in {"process", "done", "context"}
          /\ \A d \in Captures \ {c} : at'[d] = at[d]
        BY <1>1, <1>12, LifeTypes DEF FinishReset, CloseAfterLaunch, Goes, AfterReset, StageWith
    <2> QED BY <1>1, <1>2, <2>1, <2>2, StagesWithout, BrowserCounted
<1>13. CASE FinishShutdown
    <2>1. /\ process.gen \in browsers /\ browsers' = browsers \ {process.gen}
          /\ detector' = Closed(detector, "browsers") /\ UNCHANGED at
        BY <1>2, <1>13 DEF FinishShutdown, CloseBrowser, captureVars, Order, StartupOrder
    <2> QED BY <1>1, <1>2, <2>1, BrowserCounted
<1>14. CASE CloseScope \/ AllDone \/ UNCHANGED vars
    BY <1>2, <1>14, NothingOpened DEF CloseScope, AllDone, vars, resourceVars, captureVars
<1>15. CASE AbandonedOpens
    BY <1>2, <1>15 DEF AbandonedOpens, Order, LaunchOrder
<1> QED
    BY <1>3, <1>6, <1>7, <1>8, <1>9, <1>10, <1>11, <1>12, <1>13, <1>14, <1>15 DEF Next, Answered

\* The leak detector counts the browsers, contexts and pages that are open, and the
\* order of startups, launches and resets is kept.
THEOREM DetectorInvariant == Spec => []CountIInv
<1>1. ASSUME Init PROVE CountIInv
    <2>1. WithContext = {} /\ WithPage = {}
        BY <1>1 DEF Init, WithContext, WithPage, ContextStages, PageStages
    <2>2. browsers = {} /\ \A r \in Resources : detector.open[r] = 0
        BY <1>1 DEF Init, Unused
    <2>3. DetectorCounts
        BY <2>1, <2>2, FS_EmptySet DEF DetectorCounts, Resources
    <2> QED BY <1>1, <2>3, OrderInitially DEF CountIInv
<1> QED BY <1>1, CountStepHolds, PTL DEF Spec

\* A closed scope whose captures have ended leaves no browser and an even detector, as
\* long as no interruption cut a startup or a close short.
THEOREM ClosedScopeAlwaysClean == Spec => []ClosedScopeIsClean
<1>1. ASSUME CountIInv PROVE ClosedScopeIsClean
    <2> SUFFICES ASSUME scope = "closed", Ended, ~SomeCutShort
                 PROVE  browsers = {} /\ \A r \in Resources : detector.open[r] = 0
        BY DEF ClosedScopeIsClean
    <2>1. TypeIInv /\ Order /\ DetectorCounts
        BY <1>1 DEF CountIInv, LifeIInv
    <2>2. \A c \in Captures : at[c] \in {"new", "done"}
        BY DEF Ended
    <2>3. browsers = {}
        BY <2>1, <2>2, LifeTypes DEF Order, StartupOrder, LaunchOrder, ResetOrder
    <2>4. WithContext = {} /\ WithPage = {}
        BY <2>2 DEF WithContext, WithPage, ContextStages, PageStages
    <2> QED BY <2>1, <2>3, <2>4, FS_EmptySet DEF DetectorCounts, Resources
<1> QED BY <1>1, DetectorInvariant, PTL
=============================================================================
