----------------------------- MODULE BrowserPool -----------------------------
(***************************************************************************)
(* One browser pool runtime: the requests (fibers) that ask it for a page, *)
(* and the shutdown that closes it.  A request takes a slot or queues for  *)
(* one, takes the allocation lock or queues for it, opens a context and a  *)
(* page on the shared browser, which it launches when there is none, uses  *)
(* the page, and gives the slot back.  An allocation that fails because    *)
(* its browser is gone retires that browser and is tried once more on a    *)
(* fresh one; retired browsers are closed when no slot is taken.           *)
(*                                                                         *)
(* Each action is one atomic modification of one of the pool's references  *)
(* (SynchronizedRef), or the outcome of one call of a browser.  Waiting    *)
(* for a slot and allocating a page happen inside acquireUseRelease's      *)
(* acquisition, where a request cannot be interrupted; interruption and    *)
(* timeouts only end the use of a page.                                    *)
(*                                                                         *)
(* Contexts and pages are counted in lockstep by the code: active is both. *)
(***************************************************************************)
EXTENDS Naturals, Sequences, FiniteSets, Functions

CONSTANTS Request,     \* requests; one that ended may come again
          Browser,     \* browser processes, numbers; a closed one may be reused
          MaxSlots,    \* the smaller of maxContexts and maxPages
          MaxQueue,    \* maxQueue
          NoBrowser,   \* browserRef is empty; a request without a page
          Yields,      \* fibers may switch between two synchronous effects
          MayClose,    \* the pool may be closed or reset
          MaxCrashes   \* a bound on the browsers that crash

ASSUME PoolAssumption ==
  /\ MaxSlots \in Nat \ {0} /\ MaxQueue \in Nat \ {0} /\ MaxCrashes \in Nat
  /\ Browser \subseteq Nat /\ NoBrowser \notin Browser
  /\ Yields \in BOOLEAN /\ MayClose \in BOOLEAN

VARIABLES slots,     \* stateRef
          lock,      \* allocationRef
          gates,     \* the waiters whose gate was opened
          shared,    \* browserRef
          retired,   \* retiredBrowsersRef
          open,      \* the browsers that run
          pc,        \* where each request is
          on,        \* the browser of each request's context and page
          retried,   \* the requests on their second allocation
          closing,   \* how far stopBrowserPoolRuntime is
          crashes    \* crashes so far

vars == <<slots, lock, gates, shared, retired, open, pc, on, retried, closing,
          crashes>>

\* Where a request awaits a gate, a browser or the end of its use.
Suspended == {"idle", "waiting", "lockWaiting", "launching", "opening", "using"}

\* Where it is between two synchronous effects.
Running == {"queueing", "locking", "lockQueueing", "allocating", "evicting",
            "opened", "unopened", "releasing", "checking", "sweeping"}

TypeOK ==
  /\ slots \in [accepting : BOOLEAN, active : 0..MaxSlots, waiters : Seq(Request)]
  /\ Len(slots.waiters) <= MaxQueue
  /\ lock \in [accepting : BOOLEAN, active : BOOLEAN, waiters : Seq(Request)]
  /\ gates \subseteq Request
  /\ shared \in Browser \cup {NoBrowser}
  /\ retired \subseteq Browser
  /\ open \subseteq Browser
  /\ pc \in [Request -> Suspended \cup Running]
  /\ on \in [Request -> Browser \cup {NoBrowser}]
  /\ retried \subseteq Request
  /\ closing \in {"no", "slots", "lock", "awaiting", "done"}
  /\ crashes \in 0..MaxCrashes

Init ==
  /\ slots = [accepting |-> TRUE, active |-> 0, waiters |-> <<>>]
  /\ lock = [accepting |-> TRUE, active |-> FALSE, waiters |-> <<>>]
  /\ gates = {}
  /\ shared = NoBrowser
  /\ retired = {}
  /\ open = {}
  /\ pc = [r \in Request |-> "idle"]
  /\ on = [r \in Request |-> NoBrowser]
  /\ retried = {}
  /\ closing = "no"
  /\ crashes = 0

-----------------------------------------------------------------------------
\* browserRef is held by a request that launches a browser into it.
Launching == \E r \in Request : pc[r] = "launching"

\* A fiber runs while no other is between two synchronous effects, unless the
\* scheduler makes fibers yield there.
MayRun(r) ==
  \/ Yields
  \/ /\ \A s \in Request \ {r} : pc[s] \in Suspended
     /\ closing \in {"no", "awaiting", "done"}

Goto(r, place) == pc' = [pc EXCEPT ![r] = place]

HasCapacity(state) == state.active < MaxSlots

\* A bug for the checks to find: a request that arrives overtakes the queue.
RequestSlotBarging(r) ==
  /\ pc[r] = "idle"
  /\ MayRun(r)
  /\ slots.accepting
  /\ slots' = [slots EXCEPT !.active = IF HasCapacity(slots) THEN @ + 1 ELSE @]
  /\ Goto(r, IF HasCapacity(slots) THEN "locking" ELSE "queueing")
  /\ UNCHANGED <<lock, gates, shared, retired, open, on, retried, closing, crashes>>

\* The first modification of acquireBrowserSlot.
RequestSlot(r) ==
  /\ pc[r] = "idle"
  /\ MayRun(r)
  /\ \/ /\ ~slots.accepting
        /\ UNCHANGED <<slots, pc>>
     \/ /\ slots.accepting
        /\ slots.waiters = <<>> /\ HasCapacity(slots)
        /\ slots' = [slots EXCEPT !.active = @ + 1]
        /\ Goto(r, "locking")
     \/ /\ slots.accepting
        /\ slots.waiters # <<>> \/ ~HasCapacity(slots)
        /\ Goto(r, "queueing")
        /\ UNCHANGED slots
  /\ UNCHANGED <<lock, gates, shared, retired, open, on, retried, closing, crashes>>

\* reserveQueuedSlot, which looks at the queue but not at the capacity.
Enqueue(r) ==
  /\ pc[r] = "queueing"
  /\ MayRun(r)
  /\ IF slots.accepting /\ Len(slots.waiters) < MaxQueue
     THEN /\ slots' = [slots EXCEPT !.waiters = Append(@, r)]
          /\ Goto(r, "waiting")
     ELSE /\ Goto(r, "idle")
          /\ UNCHANGED slots
  /\ UNCHANGED <<lock, gates, shared, retired, open, on, retried, closing, crashes>>

\* The gate of a queued request opens: it was granted a slot, or the pool closed.
WakeWithSlot(r) ==
  /\ pc[r] = "waiting"
  /\ r \in gates
  /\ MayRun(r)
  /\ gates' = gates \ {r}
  /\ Goto(r, IF slots.accepting THEN "locking" ELSE "idle")
  /\ UNCHANGED <<slots, lock, shared, retired, open, on, retried, closing, crashes>>

\* The first modification of acquireAllocationLock.
RequestLock(r) ==
  /\ pc[r] = "locking"
  /\ MayRun(r)
  /\ Goto(r, CASE ~lock.accepting -> "releasing"
               [] lock.accepting /\ ~lock.active -> "allocating"
               [] OTHER -> "lockQueueing")
  /\ lock' = [lock EXCEPT !.active = IF lock.accepting THEN TRUE ELSE @]
  /\ UNCHANGED <<slots, gates, shared, retired, open, on, retried, closing, crashes>>

\* Its second modification, which does not look at the lock again.
EnqueueForLock(r) ==
  /\ pc[r] = "lockQueueing"
  /\ MayRun(r)
  /\ IF lock.accepting
     THEN /\ lock' = [lock EXCEPT !.waiters = Append(@, r)]
          /\ Goto(r, "lockWaiting")
     ELSE /\ Goto(r, "releasing")
          /\ UNCHANGED lock
  /\ UNCHANGED <<slots, gates, shared, retired, open, on, retried, closing, crashes>>

WakeWithLock(r) ==
  /\ pc[r] = "lockWaiting"
  /\ r \in gates
  /\ MayRun(r)
  /\ gates' = gates \ {r}
  /\ Goto(r, IF lock.accepting THEN "allocating" ELSE "releasing")
  /\ UNCHANGED <<slots, lock, shared, retired, open, on, retried, closing, crashes>>

-----------------------------------------------------------------------------
(* Under the allocation lock: a browser, a context and a page.              *)

\* acquireBrowser.
AcquireBrowser(r) ==
  /\ pc[r] = "allocating"
  /\ MayRun(r)
  /\ ~Launching
  /\ on' = [on EXCEPT ![r] = shared]
  /\ Goto(r, IF shared = NoBrowser THEN "launching" ELSE "opening")
  /\ UNCHANGED <<slots, lock, gates, shared, retired, open, retried, closing, crashes>>

\* launch resolves to a browser that runs.
Launched(r) ==
  /\ pc[r] = "launching"
  /\ MayRun(r)
  /\ LET used == open \cup retired \cup {on[s] : s \in Request}
         browser == CHOOSE b \in Browser \ used : TRUE
     IN /\ Browser \ used # {}
        /\ shared' = browser
        /\ open' = open \cup {browser}
        /\ on' = [on EXCEPT ![r] = browser]
  /\ Goto(r, "opening")
  /\ UNCHANGED <<slots, lock, gates, retired, retried, closing, crashes>>

\* newContext and newPage resolve: their browser runs.
PageOpened(r) ==
  /\ pc[r] = "opening"
  /\ MayRun(r)
  /\ on[r] \in open
  /\ Goto(r, "opened")
  /\ UNCHANGED <<slots, lock, gates, shared, retired, open, on, retried, closing, crashes>>

\* launch, newContext or newPage fails, of itself or because the browser is
\* gone; allocateBrowserPage tries once more if the error is retryable.
AllocationFailed(r, retryable) ==
  /\ pc[r] \in {"launching", "opening"}
  /\ MayRun(r)
  /\ (pc[r] = "opening" /\ on[r] \notin open) => retryable
  /\ on' = [on EXCEPT ![r] = NoBrowser]
  /\ IF retryable /\ r \notin retried
     THEN retried' = retried \cup {r} /\ Goto(r, "evicting")
     ELSE UNCHANGED retried /\ Goto(r, "unopened")
  /\ UNCHANGED <<slots, lock, gates, shared, retired, open, closing, crashes>>

\* A bug for the checks to find: the evicted browser is not remembered.
EvictForgetting(r) ==
  /\ pc[r] = "evicting"
  /\ MayRun(r)
  /\ shared' = NoBrowser
  /\ Goto(r, "allocating")
  /\ UNCHANGED <<slots, lock, gates, retired, open, on, retried, closing, crashes>>

\* evictSharedBrowser; then closeRetiredBrowsersIfIdle, which closes nothing as
\* long as the request's own slot is counted.
Evict(r) ==
  /\ pc[r] = "evicting"
  /\ MayRun(r)
  /\ LET evicted == retired \cup ({shared} \ {NoBrowser}) IN
     IF slots.active > 0
     THEN retired' = evicted /\ UNCHANGED open
     ELSE retired' = {} /\ open' = open \ evicted
  /\ shared' = NoBrowser
  /\ Goto(r, "allocating")
  /\ UNCHANGED <<slots, lock, gates, on, retried, closing, crashes>>

\* releaseAllocationLock: the lock passes to the first waiter or becomes free.
ReleaseLock(r) ==
  /\ pc[r] \in {"opened", "unopened"}
  /\ MayRun(r)
  /\ IF lock.waiters = <<>>
     THEN /\ lock' = [lock EXCEPT !.active = FALSE]
          /\ UNCHANGED gates
     ELSE /\ lock' = [lock EXCEPT !.active = TRUE, !.waiters = Tail(@)]
          /\ gates' = gates \cup {Head(lock.waiters)}
  /\ Goto(r, IF pc[r] = "opened" THEN "using" ELSE "releasing")
  /\ UNCHANGED <<slots, shared, retired, open, on, retried, closing, crashes>>

-----------------------------------------------------------------------------
\* The use of the page ends, by itself, by a failure or by an interruption; the
\* page and its context are closed.
EndUse(r) ==
  /\ pc[r] = "using"
  /\ MayRun(r)
  /\ on' = [on EXCEPT ![r] = NoBrowser]
  /\ Goto(r, "releasing")
  /\ UNCHANGED <<slots, lock, gates, shared, retired, open, retried, closing, crashes>>

\* grantBrowserSlots: as many of the first waiters as there is capacity for.
Grants(state) ==
  IF ~state.accepting THEN 0
  ELSE LET capacity == MaxSlots - state.active IN
       IF Len(state.waiters) < capacity THEN Len(state.waiters) ELSE capacity

\* A bug for the checks to find: granted slots are not counted.
ReleaseUncounted(r) ==
  /\ pc[r] = "releasing"
  /\ MayRun(r)
  /\ LET released == [slots EXCEPT !.active = IF @ = 0 THEN 0 ELSE @ - 1]
         n == Grants(released)
     IN /\ slots' = [released EXCEPT !.waiters = SubSeq(@, n + 1, Len(@))]
        /\ gates' = gates \cup {released.waiters[i] : i \in 1..n}
  /\ Goto(r, "checking")
  /\ UNCHANGED <<lock, shared, retired, open, on, retried, closing, crashes>>

\* releaseBrowserSlot; each granted waiter's gate is opened.
ReleaseSlot(r) ==
  /\ pc[r] = "releasing"
  /\ MayRun(r)
  /\ LET released == [slots EXCEPT !.active = IF @ = 0 THEN 0 ELSE @ - 1]
         n == Grants(released)
     IN /\ slots' = [released EXCEPT !.active = @ + n,
                                     !.waiters = SubSeq(@, n + 1, Len(@))]
        /\ gates' = gates \cup {released.waiters[i] : i \in 1..n}
  /\ Goto(r, "checking")
  /\ UNCHANGED <<lock, shared, retired, open, on, retried, closing, crashes>>

\* A bug for the checks to find: retired browsers are closed whoever uses them.
CheckNothing(r) ==
  /\ pc[r] = "checking"
  /\ MayRun(r)
  /\ Goto(r, "sweeping")
  /\ retried' = retried \ {r}
  /\ UNCHANGED <<slots, lock, gates, shared, retired, open, on, closing, crashes>>

\* closeRetiredBrowsersIfIdle, as the last thing a request does: read the
\* counters, then take and close the retired browsers.
CheckIdle(r) ==
  /\ pc[r] = "checking"
  /\ MayRun(r)
  /\ Goto(r, IF slots.active > 0 THEN "idle" ELSE "sweeping")
  /\ retried' = retried \ {r}
  /\ UNCHANGED <<slots, lock, gates, shared, retired, open, on, closing, crashes>>

Sweep(r) ==
  /\ pc[r] = "sweeping"
  /\ MayRun(r)
  /\ retired' = {}
  /\ open' = open \ retired
  /\ Goto(r, "idle")
  /\ UNCHANGED <<slots, lock, gates, shared, on, retried, closing, crashes>>

-----------------------------------------------------------------------------
(* stopBrowserPoolRuntime: nobody is served any more, everybody who waits is *)
(* woken, and the shared and retired browsers are closed.                    *)

MayStop == Yields \/ \A r \in Request : pc[r] \in Suspended

StopSlots ==
  /\ MayClose
  /\ closing = "no"
  /\ MayStop
  /\ closing' = "slots"
  /\ slots' = [slots EXCEPT !.accepting = FALSE, !.waiters = <<>>]
  /\ UNCHANGED <<lock, gates, shared, retired, open, pc, on, retried, crashes>>

\* A bug for the checks to find: the shutdown wakes nobody.
StopWakingNobody ==
  /\ closing = "slots"
  /\ MayStop
  /\ closing' = IF Launching THEN "awaiting" ELSE "lock"
  /\ lock' = [accepting |-> FALSE, active |-> FALSE, waiters |-> <<>>]
  /\ UNCHANGED <<slots, gates, shared, retired, open, pc, on, retried, crashes>>

\* Everybody who waits for a slot was granted one or was in the queue.
StopLock ==
  /\ closing = "slots"
  /\ MayStop
  /\ closing' = IF Launching THEN "awaiting" ELSE "lock"
  /\ lock' = [accepting |-> FALSE, active |-> FALSE, waiters |-> <<>>]
  /\ gates' = gates \cup {r \in Request : pc[r] = "waiting"} \cup Range(lock.waiters)
  /\ UNCHANGED <<slots, shared, retired, open, pc, on, retried, crashes>>

\* closeSharedBrowser waits for a launch under way.
StopBrowsers ==
  /\ closing \in {"lock", "awaiting"}
  /\ MayStop
  /\ ~Launching
  /\ closing' = "done"
  /\ shared' = NoBrowser
  /\ retired' = {}
  /\ open' = open \ (retired \cup {shared})
  /\ UNCHANGED <<slots, lock, gates, pc, on, retried, crashes>>

\* A browser process ends; the pool learns it when a call fails.
Crash(b) ==
  /\ b \in open
  /\ crashes < MaxCrashes
  /\ crashes' = crashes + 1
  /\ open' = open \ {b}
  /\ UNCHANGED <<slots, lock, gates, shared, retired, pc, on, retried, closing>>

Proceed(r) ==
  \/ Enqueue(r) \/ WakeWithSlot(r)
  \/ RequestLock(r) \/ EnqueueForLock(r) \/ WakeWithLock(r)
  \/ AcquireBrowser(r) \/ Launched(r) \/ PageOpened(r)
  \/ \E retryable \in BOOLEAN : AllocationFailed(r, retryable)
  \/ Evict(r) \/ ReleaseLock(r)
  \/ EndUse(r) \/ ReleaseSlot(r) \/ CheckIdle(r) \/ Sweep(r)

Stop == StopSlots \/ StopLock \/ StopBrowsers

Next ==
  \/ \E r \in Request : RequestSlot(r) \/ Proceed(r)
  \/ Stop
  \/ \E b \in Browser : Crash(b)

Spec == Init /\ [][Next]_vars

\* The scheduler runs ready fibers in turn, so one that is ready again and again
\* runs although others run in between; and the calls of a browser settle.
FairSpec ==
  /\ Spec
  /\ \A r \in Request : SF_vars(Proceed(r))
  /\ SF_vars(StopLock \/ StopBrowsers)

-----------------------------------------------------------------------------
\* The requests between a grant of a slot and its release.
Granted(r) ==
  \/ pc[r] = "waiting" /\ r \in gates
  \/ pc[r] \notin {"idle", "queueing", "waiting", "checking", "sweeping"}

\* While the pool is open, the counters are exactly the granted requests: none
\* is lost to a failed allocation, a grant or a wake-up, and none is counted
\* twice, so the limits hold for the pages that are open.
SlotsAreCounted ==
  slots.accepting => slots.active = Cardinality({r \in Request : Granted(r)})

\* No request is granted a slot past one that was queued before it, whether it
\* just arrived or was queued behind it.
QueuedBefore(w, r) ==
  \E i \in DOMAIN slots.waiters :
    slots.waiters[i] = w /\ \A j \in 1..i : slots.waiters[j] # r

FirstQueuedFirstGranted ==
  [][\A w, r \in Request :
       QueuedBefore(w, r) /\ ~Granted(r) /\ Granted(r)' /\ slots'.accepting
         => Granted(w)']_vars

\* Only a crash or the shutdown takes a browser away from a page in use: a
\* retired browser is closed after its last page.
UsedBrowsersStayOpen ==
  [][\A r \in Request :
       pc[r] = "using" /\ pc'[r] = "using" /\ on[r] \in open
         => on[r] \in open' \/ crashes' # crashes \/ closing' # closing]_vars

Served(r) == pc[r] \notin {"idle", "waiting"}

\* When nobody is being served and nobody is about to be, nobody is queued.  Where a
\* fiber may yield between its look at the capacity and its place in the queue
\* (Yields = TRUE) the code does not keep this.
NoForgottenWaiter ==
  (\A r \in Request : ~Served(r)) /\ gates = {} => slots.waiters = <<>>

\* When nobody is being served, only the shared browser of an open pool runs.
NoForgottenBrowser ==
  (\A r \in Request : ~Served(r)) /\ gates = {} /\ closing = "no"
    => open \subseteq {shared} /\ retired = {}

\* After the pool was closed and its last request ended, no browser runs.  The code
\* does not keep this: an allocation under way launches another one.
ClosedPoolLeavesNoBrowser ==
  closing = "done" /\ (\A r \in Request : pc[r] = "idle") => open = {}

\* Every request ends, through the queue, the lock, failures and shutdown.
EveryRequestEnds ==
  \A r \in Request : pc[r] # "idle" ~> pc[r] = "idle"
=============================================================================
