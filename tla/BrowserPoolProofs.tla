-------------------------- MODULE BrowserPoolProofs --------------------------
(***************************************************************************)
(* Proofs about the browser pool for any requests, browsers, limits and    *)
(* crashes, whether or not the pool may be closed.  However its fibers are *)
(* scheduled, slots are counted, pages fit the limit, the queue is served  *)
(* in order and no browser is forgotten; where they switch only where they *)
(* suspend, no waiter is forgotten and no page loses its browser.          *)
(*                                                                         *)
(* The invariant has three layers: what is queued, what is counted, which  *)
(* browsers run.                                                           *)
(***************************************************************************)
EXTENDS BrowserPool, FiniteSetTheorems, SequenceTheorems, TLAPS

Places == Suspended \cup Running

\* Who is in a queue waits for its gate, which is closed, and is there once.
QueueIsOfWaiters ==
  /\ \A i \in DOMAIN slots.waiters :
       pc[slots.waiters[i]] = "waiting" /\ slots.waiters[i] \notin gates
  /\ \A i, j \in DOMAIN slots.waiters : slots.waiters[i] = slots.waiters[j] => i = j

LockQueueIsOfWaiters ==
  /\ \A i \in DOMAIN lock.waiters :
       pc[lock.waiters[i]] = "lockWaiting" /\ lock.waiters[i] \notin gates
  /\ \A i, j \in DOMAIN lock.waiters : lock.waiters[i] = lock.waiters[j] => i = j

\* Only gates that somebody waits for are open.
GatesAreOfWaiters == \A r \in gates : pc[r] \in {"waiting", "lockWaiting"}

\* Who is served no more finds its queue empty.
ClosingIsKnown ==
  /\ slots.accepting <=> closing = "no"
  /\ ~slots.accepting => slots.waiters = <<>>
  /\ lock.accepting <=> closing \in {"no", "slots"}
  /\ ~lock.accepting => lock.waiters = <<>>

QueuesIInv ==
  TypeOK /\ QueueIsOfWaiters /\ LockQueueIsOfWaiters /\ GatesAreOfWaiters /\ ClosingIsKnown

-----------------------------------------------------------------------------
(* What the steps have in common.                                           *)

\* A request goes to a place; the others stay where they are.
LEMMA Moves ==
  ASSUME TypeOK, NEW r \in Request, NEW place \in Places, Goto(r, place)
  PROVE  /\ pc' \in [Request -> Places] /\ pc'[r] = place
         /\ \A s \in Request \ {r} : pc'[s] = pc[s]
<1>1. pc \in [Request -> Places]
  BY DEF TypeOK, Places
<1> QED BY <1>1 DEF Goto

\* The parts of the typing.
LEMMA Typed ==
  ASSUME TypeOK
  PROVE  /\ slots.accepting \in BOOLEAN /\ slots.active \in 0..MaxSlots
         /\ slots.waiters \in Seq(Request) /\ Len(slots.waiters) <= MaxQueue
         /\ slots = [accepting |-> slots.accepting, active |-> slots.active,
                     waiters |-> slots.waiters]
         /\ lock.accepting \in BOOLEAN /\ lock.active \in BOOLEAN
         /\ lock.waiters \in Seq(Request)
         /\ lock = [accepting |-> lock.accepting, active |-> lock.active,
                    waiters |-> lock.waiters]
         /\ MaxSlots \in Nat \ {0} /\ MaxQueue \in Nat \ {0}
BY PoolAssumption DEF TypeOK

LEMMA TypedAgain ==
  ASSUME NEW active \in 0..MaxSlots, NEW waiters \in Seq(Request), Len(waiters) <= MaxQueue,
         NEW accepting \in BOOLEAN, NEW held \in BOOLEAN, NEW holders \in Seq(Request),
         NEW open2 \in BOOLEAN,
         slots' = [accepting |-> accepting, active |-> active, waiters |-> waiters],
         lock' = [accepting |-> open2, active |-> held, waiters |-> holders],
         gates' \subseteq Request, shared' \in Browser \cup {NoBrowser},
         retired' \subseteq Browser, open' \subseteq Browser, pc' \in [Request -> Places],
         on' \in [Request -> Browser \cup {NoBrowser}], retried' \subseteq Request,
         closing' \in {"no", "slots", "lock", "awaiting", "done"}, crashes' \in 0..MaxCrashes
  PROVE  /\ TypeOK'
         /\ slots.active' = active /\ slots.waiters' = waiters /\ slots.accepting' = accepting
         /\ lock.active' = held /\ lock.waiters' = holders /\ lock.accepting' = open2
BY DEF TypeOK, Places

\* A request that is in no queue moves to where it awaits no gate.
LEMMA QueuesStay ==
  ASSUME QueuesIInv, NEW r \in Request, NEW place \in Places, Goto(r, place),
         pc[r] \notin {"waiting", "lockWaiting"},
         place \notin {"waiting", "lockWaiting"},
         UNCHANGED <<slots, lock, gates, closing, crashes>>,
         shared' \in Browser \cup {NoBrowser}, retired' \subseteq Browser, open' \subseteq Browser,
         on' \in [Request -> Browser \cup {NoBrowser}], retried' \subseteq Request
  PROVE  QueuesIInv'
<1> USE DEF QueuesIInv
<1>1. TypeOK'
  BY Moves DEF TypeOK, Places
<1>2. /\ \A s \in gates : s \in Request /\ s # r /\ pc'[s] = pc[s]
      /\ \A i \in DOMAIN slots.waiters : slots.waiters[i] \in Request \ {r}
      /\ \A i \in DOMAIN lock.waiters : lock.waiters[i] \in Request \ {r}
  <2>1. gates \subseteq Request /\ slots.waiters \in Seq(Request) /\ lock.waiters \in Seq(Request)
    BY Typed DEF TypeOK
  <2> QED BY <2>1, Moves DEF GatesAreOfWaiters, QueueIsOfWaiters, LockQueueIsOfWaiters
<1>3. QueueIsOfWaiters' /\ LockQueueIsOfWaiters' /\ GatesAreOfWaiters'
  BY <1>2, Moves DEF GatesAreOfWaiters, QueueIsOfWaiters, LockQueueIsOfWaiters
<1>4. ClosingIsKnown'
  BY DEF ClosingIsKnown
<1> QED BY <1>1, <1>3, <1>4

\* The steps under the allocation lock, the end of a use and of a request.
LEMMA QuietSteps ==
  ASSUME QueuesIInv, NEW r \in Request,
         \/ AcquireBrowser(r) \/ Launched(r) \/ PageOpened(r)
         \/ \E retryable \in BOOLEAN : AllocationFailed(r, retryable)
         \/ Evict(r) \/ EndUse(r) \/ CheckIdle(r) \/ Sweep(r)
  PROVE  QueuesIInv'
<1> USE DEF QueuesIInv
<1>0. /\ NoBrowser \in Browser \cup {NoBrowser} /\ shared \in Browser \cup {NoBrowser}
      /\ retired \subseteq Browser /\ open \subseteq Browser /\ retried \subseteq Request
      /\ on \in [Request -> Browser \cup {NoBrowser}] /\ pc \in [Request -> Places]
      /\ {"launching", "opening", "opened", "evicting", "unopened", "allocating", "releasing",
          "sweeping", "idle"} \subseteq Places
  BY DEF TypeOK, Places, Suspended, Running
<1>1. CASE AcquireBrowser(r)
  <2>1. PICK place \in {"launching", "opening"} : Goto(r, place)
    BY <1>1 DEF AcquireBrowser
  <2> QED BY <1>0, <1>1, <2>1, QueuesStay DEF AcquireBrowser
<1>2. CASE Launched(r)
  <2>1. /\ Goto(r, "opening") /\ pc[r] = "launching"
        /\ UNCHANGED <<slots, lock, gates, retired, retried, closing, crashes>>
    BY <1>2 DEF Launched
  <2>2. PICK browser \in Browser :
          /\ shared' = browser /\ open' = open \cup {browser}
          /\ on' = [on EXCEPT ![r] = browser]
    <3> DEFINE free == Browser \ (open \cup retired \cup {on[s] : s \in Request})
    <3>1. free # {} /\ (CHOOSE b \in free : TRUE) \in free
      BY <1>2 DEF Launched
    <3>2. /\ shared' = (CHOOSE b \in free : TRUE) /\ open' = open \cup {CHOOSE b \in free : TRUE}
          /\ on' = [on EXCEPT ![r] = CHOOSE b \in free : TRUE]
      BY <1>2 DEF Launched
    <3>3. (CHOOSE b \in free : TRUE) \in Browser
      BY <3>1
    <3> QED BY <3>2, <3>3
  <2> QED BY <1>0, <2>1, <2>2, QueuesStay
<1>3. CASE PageOpened(r)
  BY <1>0, <1>3, QueuesStay DEF PageOpened
<1>4. ASSUME NEW retryable \in BOOLEAN, AllocationFailed(r, retryable) PROVE QueuesIInv'
  <2>1. PICK place \in {"evicting", "unopened"} : Goto(r, place)
    BY <1>4 DEF AllocationFailed
  <2>2. retried' \subseteq Request
    BY <1>0, <1>4 DEF AllocationFailed
  <2> QED BY <1>0, <1>4, <2>1, <2>2, QueuesStay DEF AllocationFailed
<1>5. CASE Evict(r)
  <2>1. retired' \subseteq Browser /\ open' \subseteq Browser
    BY <1>0, <1>5 DEF Evict
  <2> QED BY <1>0, <1>5, <2>1, QueuesStay DEF Evict
<1>6. CASE EndUse(r)
  BY <1>0, <1>6, QueuesStay DEF EndUse
<1>7. CASE CheckIdle(r)
  <2>1. PICK place \in {"idle", "sweeping"} : Goto(r, place)
    BY <1>7 DEF CheckIdle
  <2> QED BY <1>0, <1>7, <2>1, QueuesStay DEF CheckIdle
<1>8. CASE Sweep(r)
  BY <1>0, <1>8, QueuesStay DEF Sweep
<1> QED BY <1>1, <1>2, <1>3, <1>4, <1>5, <1>6, <1>7, <1>8

\* What a release does: it grants the first n waiters a slot each.
LEMMA ReleaseGrants ==
  ASSUME TypeOK, NEW r \in Request, ReleaseSlot(r)
  PROVE  \E n \in Nat, rest \in Nat :
           /\ n <= Len(slots.waiters) /\ (n > 0 => slots.accepting)
           /\ rest = IF slots.active = 0 THEN 0 ELSE slots.active - 1
           /\ rest + n <= MaxSlots
           /\ slots.accepting => n = Len(slots.waiters) \/ rest + n = MaxSlots
           /\ slots' = [accepting |-> slots.accepting, active |-> rest + n,
                        waiters |-> SubSeq(slots.waiters, n + 1, Len(slots.waiters))]
           /\ gates' = gates \cup {slots.waiters[i] : i \in 1..n}
<1> DEFINE rest == IF slots.active = 0 THEN 0 ELSE slots.active - 1
           released == [slots EXCEPT !.active = rest]
           n == Grants(released)
<1>1. /\ slots.active \in 0..MaxSlots /\ MaxSlots \in Nat /\ slots.waiters \in Seq(Request)
      /\ Len(slots.waiters) \in Nat /\ slots.accepting \in BOOLEAN
  BY Typed
<1>2. released = [accepting |-> slots.accepting, active |-> rest, waiters |-> slots.waiters]
  BY DEF TypeOK
<1>3. /\ released.accepting = slots.accepting /\ released.active = rest
      /\ released.waiters = slots.waiters
  BY <1>2
<1>4. rest \in Nat /\ rest <= MaxSlots
  BY <1>1
<1>5. slots' = [released EXCEPT !.active = @ + n, !.waiters = SubSeq(@, n + 1, Len(@))]
      /\ gates' = gates \cup {released.waiters[i] : i \in 1..n}
  BY DEF ReleaseSlot
<1> HIDE DEF released, rest
<1>6. /\ n \in Nat /\ n <= Len(slots.waiters) /\ (n > 0 => slots.accepting)
      /\ rest + n <= MaxSlots
      /\ slots.accepting => n = Len(slots.waiters) \/ rest + n = MaxSlots
  BY <1>1, <1>3, <1>4 DEF Grants
<1> HIDE DEF n
<1>7. slots' = [accepting |-> slots.accepting, active |-> rest + n,
                waiters |-> SubSeq(slots.waiters, n + 1, Len(slots.waiters))]
  BY <1>2, <1>5
<1>8. gates' = gates \cup {slots.waiters[i] : i \in 1..n}
  BY <1>3, <1>5
<1>9. rest = IF slots.active = 0 THEN 0 ELSE slots.active - 1
  BY DEF rest
<1> QED BY <1>4, <1>6, <1>7, <1>8, <1>9

\* The queue after a release: what is left of it, in the same order.
LEMMA RestOfQueue ==
  ASSUME NEW S, NEW q \in Seq(S), NEW n \in Nat, n <= Len(q)
  PROVE  LET left == SubSeq(q, n + 1, Len(q)) IN
           /\ left \in Seq(S) /\ Len(left) = Len(q) - n /\ Len(left) <= Len(q)
           /\ \A i \in DOMAIN left : i + n \in DOMAIN q /\ left[i] = q[i + n]
<1> DEFINE left == SubSeq(q, n + 1, Len(q))
<1>1. Len(q) \in Nat /\ DOMAIN q = 1..Len(q) /\ \A i \in 1..Len(q) : q[i] \in S
  OBVIOUS
<1>2. n + 1 \in Int /\ Len(q) \in Int /\ \A i \in (n + 1)..Len(q) : q[i] \in S
  BY <1>1
<1>3. /\ left \in Seq(S)
      /\ Len(left) = IF n + 1 <= Len(q) THEN Len(q) - (n + 1) + 1 ELSE 0
      /\ \A i \in 1..(Len(q) - (n + 1) + 1) : left[i] = q[n + 1 + i - 1]
  BY <1>2, SubSeqProperties
<1> HIDE DEF left
<1>4. Len(left) = Len(q) - n /\ Len(q) - n <= Len(q)
  <2>1. n \in Nat /\ n <= Len(q) /\ Len(q) \in Nat
    BY <1>1
  <2>2. CASE n + 1 <= Len(q)
    BY <1>1, <1>3, <2>1, <2>2
  <2>3. CASE ~(n + 1 <= Len(q))
    <3>1. n = Len(q)
      BY <2>1, <2>3
    <3> QED BY <1>3, <2>1, <2>3, <3>1
  <2> QED BY <2>2, <2>3
<1>5. DOMAIN left = 1..(Len(q) - n)
  BY <1>3, <1>4
<1>6. \A i \in 1..(Len(q) - n) : left[i] = q[i + n]
  <2>1. ASSUME NEW i \in 1..(Len(q) - n) PROVE n + 1 + i - 1 = i + n /\ i \in 1..(Len(q) - (n + 1) + 1)
    BY <1>1
  <2> QED BY <1>3, <2>1
<1>7. \A i \in 1..(Len(q) - n) : i + n \in 1..Len(q)
  BY <1>1
<1>8. /\ left \in Seq(S) /\ Len(left) = Len(q) - n /\ Len(left) <= Len(q)
      /\ \A i \in DOMAIN left : i + n \in DOMAIN q /\ left[i] = q[i + n]
  BY <1>1, <1>3, <1>4, <1>5, <1>6, <1>7
<1> QED BY <1>8 DEF left

\* The steps of the queue for a slot.
LEMMA SlotSteps ==
  ASSUME QueuesIInv, NEW r \in Request,
         RequestSlot(r) \/ Enqueue(r) \/ WakeWithSlot(r) \/ ReleaseSlot(r)
  PROVE  QueuesIInv'
<1> USE DEF QueuesIInv
<1>0. /\ NoBrowser \in Browser \cup {NoBrowser} /\ shared \in Browser \cup {NoBrowser}
      /\ retired \subseteq Browser /\ open \subseteq Browser /\ retried \subseteq Request
      /\ on \in [Request -> Browser \cup {NoBrowser}] /\ pc \in [Request -> Places]
      /\ {"queueing", "locking", "waiting", "checking", "idle"} \subseteq Places
      /\ gates \subseteq Request
      /\ closing \in {"no", "slots", "lock", "awaiting", "done"} /\ crashes \in 0..MaxCrashes
  BY DEF TypeOK, Places, Suspended, Running
<1>1. /\ \A s \in gates : pc[s] \in {"waiting", "lockWaiting"}
      /\ \A i \in DOMAIN slots.waiters :
           slots.waiters[i] \in Request /\ pc[slots.waiters[i]] = "waiting"
      /\ \A i \in DOMAIN lock.waiters :
           lock.waiters[i] \in Request /\ pc[lock.waiters[i]] = "lockWaiting"
  BY Typed DEF GatesAreOfWaiters, QueueIsOfWaiters, LockQueueIsOfWaiters
<1>2. CASE RequestSlot(r)
  <2>1. CASE UNCHANGED <<slots, pc>>
    BY <1>2, <2>1 DEF RequestSlot, TypeOK, QueueIsOfWaiters, LockQueueIsOfWaiters,
                      GatesAreOfWaiters, ClosingIsKnown
  <2>2. CASE Goto(r, "queueing") /\ UNCHANGED slots
    BY <1>0, <1>2, <2>2, QueuesStay DEF RequestSlot
  <2>3. CASE /\ slots.accepting /\ slots.waiters = <<>> /\ HasCapacity(slots)
             /\ slots' = [slots EXCEPT !.active = @ + 1] /\ Goto(r, "locking")
    <3>1. /\ slots' = [accepting |-> slots.accepting, active |-> slots.active + 1,
                       waiters |-> slots.waiters]
          /\ slots.active + 1 \in 0..MaxSlots
      <4>1. slots.active \in 0..MaxSlots /\ MaxSlots \in Nat /\ slots.active < MaxSlots
        BY <2>3, Typed DEF HasCapacity
      <4>2. slots' = [accepting |-> slots.accepting, active |-> slots.active + 1,
                      waiters |-> slots.waiters]
        BY <2>3 DEF TypeOK
      <4> QED BY <4>1, <4>2
    <3>2. pc' \in [Request -> Places] /\ \A s \in Request \ {r} : pc'[s] = pc[s]
      BY <1>0, <2>3, Moves
    <3>3. UNCHANGED <<lock, gates, shared, retired, open, on, retried, closing, crashes>>
          /\ pc[r] = "idle"
      BY <1>2 DEF RequestSlot
    <3>4. /\ TypeOK' /\ slots.waiters' = slots.waiters /\ slots.accepting' = slots.accepting
      BY <1>0, <3>1, <3>2, <3>3, Typed, TypedAgain
    <3>5. QueueIsOfWaiters' /\ LockQueueIsOfWaiters' /\ GatesAreOfWaiters' /\ ClosingIsKnown'
      BY <1>0, <1>1, <3>2, <3>3, <3>4
         DEF QueueIsOfWaiters, LockQueueIsOfWaiters, GatesAreOfWaiters, ClosingIsKnown
    <3> QED BY <3>4, <3>5
  <2> QED BY <1>2, <2>1, <2>2, <2>3 DEF RequestSlot
<1>3. CASE Enqueue(r)
  <2>1. CASE Goto(r, "idle") /\ UNCHANGED slots
    BY <1>0, <1>3, <2>1, QueuesStay DEF Enqueue
  <2>2. CASE /\ slots.accepting /\ Len(slots.waiters) < MaxQueue
             /\ slots' = [slots EXCEPT !.waiters = Append(@, r)] /\ Goto(r, "waiting")
    <3> DEFINE longer == Append(slots.waiters, r)
    <3>1. slots' = [accepting |-> slots.accepting, active |-> slots.active, waiters |-> longer]
      BY <2>2 DEF TypeOK
    <3>2. /\ longer \in Seq(Request) /\ Len(longer) = Len(slots.waiters) + 1
          /\ Len(longer) <= MaxQueue
          /\ DOMAIN longer = 1..(Len(slots.waiters) + 1)
          /\ DOMAIN slots.waiters = 1..Len(slots.waiters) /\ Len(slots.waiters) \in Nat
          /\ \A i \in DOMAIN slots.waiters : longer[i] = slots.waiters[i]
          /\ longer[Len(slots.waiters) + 1] = r
      BY <2>2, Typed
    <3>3. /\ pc' \in [Request -> Places] /\ pc'[r] = "waiting"
          /\ \A s \in Request \ {r} : pc'[s] = pc[s]
      BY <1>0, <2>2, Moves
    <3>4. UNCHANGED <<lock, gates, shared, retired, open, on, retried, closing, crashes>>
          /\ pc[r] = "queueing"
      BY <1>3 DEF Enqueue
    <3>5. r \notin gates /\ \A i \in DOMAIN slots.waiters : slots.waiters[i] # r
      BY <1>1, <3>4
    <3> HIDE DEF longer
    <3>6. TypeOK' /\ slots.waiters' = longer /\ slots.accepting' = slots.accepting
      BY <1>0, <3>1, <3>2, <3>3, <3>4, Typed, TypedAgain
    <3>7. QueueIsOfWaiters'
      <4>1. \A i \in DOMAIN longer : pc'[longer[i]] = "waiting" /\ longer[i] \notin gates
        BY <1>1, <3>2, <3>3, <3>5 DEF QueueIsOfWaiters
      <4>2. \A i, j \in DOMAIN longer : longer[i] = longer[j] => i = j
        BY <1>1, <3>2, <3>5 DEF QueueIsOfWaiters
      <4> QED BY <3>4, <3>6, <4>1, <4>2 DEF QueueIsOfWaiters
    <3>8. LockQueueIsOfWaiters' /\ GatesAreOfWaiters' /\ ClosingIsKnown'
      BY <1>0, <1>1, <2>2, <3>3, <3>4, <3>5, <3>6
         DEF LockQueueIsOfWaiters, GatesAreOfWaiters, ClosingIsKnown
    <3> QED BY <3>6, <3>7, <3>8
  <2> QED BY <1>3, <2>1, <2>2 DEF Enqueue
<1>4. CASE WakeWithSlot(r)
  <2>1. PICK place \in {"locking", "idle"} : Goto(r, place)
    BY <1>4 DEF WakeWithSlot
  <2>2. /\ pc' \in [Request -> Places] /\ pc'[r] = place
        /\ \A s \in Request \ {r} : pc'[s] = pc[s]
    BY <1>0, <2>1, Moves
  <2>3. /\ UNCHANGED <<slots, lock, shared, retired, open, on, retried, closing, crashes>>
        /\ gates' = gates \ {r} /\ r \in gates /\ pc[r] = "waiting"
    BY <1>4 DEF WakeWithSlot
  <2>4. TypeOK'
    BY <1>0, <2>2, <2>3 DEF TypeOK, Places
  <2>5. \A i \in DOMAIN slots.waiters : slots.waiters[i] # r
    BY <2>3 DEF QueueIsOfWaiters
  <2>6. QueueIsOfWaiters' /\ LockQueueIsOfWaiters' /\ GatesAreOfWaiters' /\ ClosingIsKnown'
    BY <1>0, <1>1, <2>2, <2>3, <2>5
       DEF QueueIsOfWaiters, LockQueueIsOfWaiters, GatesAreOfWaiters, ClosingIsKnown
  <2> QED BY <2>4, <2>6
<1>5. CASE ReleaseSlot(r)
  <2>1. PICK n \in Nat, rest \in Nat :
          /\ n <= Len(slots.waiters) /\ rest + n <= MaxSlots
          /\ slots' = [accepting |-> slots.accepting, active |-> rest + n,
                       waiters |-> SubSeq(slots.waiters, n + 1, Len(slots.waiters))]
          /\ gates' = gates \cup {slots.waiters[i] : i \in 1..n}
    BY <1>5, ReleaseGrants
  <2> DEFINE left == SubSeq(slots.waiters, n + 1, Len(slots.waiters))
  <2>2. /\ left \in Seq(Request) /\ Len(left) = Len(slots.waiters) - n
        /\ Len(left) <= Len(slots.waiters)
        /\ \A i \in DOMAIN left : i + n \in DOMAIN slots.waiters /\ left[i] = slots.waiters[i + n]
        /\ DOMAIN slots.waiters = 1..Len(slots.waiters) /\ Len(slots.waiters) \in Nat
    BY <2>1, Typed, RestOfQueue
  <2>3. /\ Goto(r, "checking") /\ pc[r] = "releasing"
        /\ UNCHANGED <<lock, shared, retired, open, on, retried, closing, crashes>>
    BY <1>5 DEF ReleaseSlot
  <2>4. /\ pc' \in [Request -> Places] /\ \A s \in Request \ {r} : pc'[s] = pc[s]
    BY <1>0, <2>3, Moves
  <2>5. \A i \in 1..n : i \in DOMAIN slots.waiters
    BY <2>1, <2>2
  <2>6. gates' \subseteq Request
    BY <1>0, <1>1, <2>1, <2>5
  <2>7. Len(left) <= MaxQueue /\ rest + n \in 0..MaxSlots
    BY <2>1, <2>2, Typed
  <2>a. slots' = [accepting |-> slots.accepting, active |-> rest + n, waiters |-> left]
    BY <2>1
  <2> HIDE DEF left
  <2>8. TypeOK' /\ slots.waiters' = left /\ slots.accepting' = slots.accepting
    BY <1>0, <2>a, <2>2, <2>3, <2>4, <2>6, <2>7, Typed, TypedAgain
  <2>9. QueueIsOfWaiters'
    <3>1. \A i \in DOMAIN left : i \in Nat \ {0}
      BY <2>2
    <3>2. \A i, j \in DOMAIN slots.waiters : slots.waiters[i] = slots.waiters[j] => i = j
      BY DEF QueueIsOfWaiters
    <3>3. ASSUME NEW i \in DOMAIN left, NEW j \in 1..n
          PROVE  left[i] # slots.waiters[j]
      <4>1. i + n # j /\ i + n \in DOMAIN slots.waiters /\ j \in DOMAIN slots.waiters
        BY <2>2, <2>5, <3>1
      <4> QED BY <2>2, <3>2, <4>1
    <3>4. ASSUME NEW i \in DOMAIN left
          PROVE  pc'[left[i]] = "waiting" /\ left[i] \notin gates'
      <4>1. i + n \in DOMAIN slots.waiters /\ left[i] = slots.waiters[i + n]
        BY <2>2
      <4>2. left[i] \in Request /\ pc[left[i]] = "waiting" /\ left[i] \notin gates
        BY <1>1, <4>1 DEF QueueIsOfWaiters
      <4>3. pc'[left[i]] = "waiting"
        BY <2>3, <2>4, <4>2
      <4> QED BY <2>1, <3>3, <4>2, <4>3
    <3>5. ASSUME NEW i \in DOMAIN left, NEW j \in DOMAIN left, left[i] = left[j]
          PROVE  i = j
      <4>1. i + n = j + n
        BY <2>2, <3>2, <3>5
      <4> QED BY <3>1, <4>1
    <3> QED BY <2>8, <3>4, <3>5 DEF QueueIsOfWaiters
  <2>10. GatesAreOfWaiters'
    <3>1. \A s \in gates' : s \in Request /\ pc[s] \in {"waiting", "lockWaiting"}
      BY <1>0, <1>1, <2>1, <2>5
    <3> QED BY <2>3, <2>4, <3>1 DEF GatesAreOfWaiters
  <2>11. LockQueueIsOfWaiters'
    <3>1. \A i \in DOMAIN lock.waiters : lock.waiters[i] \notin gates'
      BY <1>1, <2>1, <2>5 DEF LockQueueIsOfWaiters
    <3> QED BY <1>1, <2>3, <2>4, <3>1 DEF LockQueueIsOfWaiters
  <2>12. ClosingIsKnown'
    <3>1. ~slots.accepting => left = <<>>
      <4>1. ~slots.accepting => Len(left) = 0
        BY <2>1, <2>2 DEF ClosingIsKnown
      <4> QED BY <2>2, <4>1
    <3> QED BY <2>3, <2>8, <3>1 DEF ClosingIsKnown
  <2> QED BY <2>8, <2>9, <2>10, <2>11, <2>12
<1> QED BY <1>2, <1>3, <1>4, <1>5

\* The steps of the queue for the allocation lock.
LEMMA LockSteps ==
  ASSUME QueuesIInv, NEW r \in Request,
         RequestLock(r) \/ EnqueueForLock(r) \/ WakeWithLock(r) \/ ReleaseLock(r)
  PROVE  QueuesIInv'
<1> USE DEF QueuesIInv
<1>0. /\ NoBrowser \in Browser \cup {NoBrowser} /\ shared \in Browser \cup {NoBrowser}
      /\ retired \subseteq Browser /\ open \subseteq Browser /\ retried \subseteq Request
      /\ on \in [Request -> Browser \cup {NoBrowser}] /\ pc \in [Request -> Places]
      /\ {"releasing", "allocating", "lockQueueing", "lockWaiting", "using"} \subseteq Places
      /\ gates \subseteq Request
      /\ closing \in {"no", "slots", "lock", "awaiting", "done"} /\ crashes \in 0..MaxCrashes
  BY DEF TypeOK, Places, Suspended, Running
<1>1. /\ \A s \in gates : pc[s] \in {"waiting", "lockWaiting"}
      /\ \A i \in DOMAIN slots.waiters :
           slots.waiters[i] \in Request /\ pc[slots.waiters[i]] = "waiting"
      /\ \A i \in DOMAIN lock.waiters :
           lock.waiters[i] \in Request /\ pc[lock.waiters[i]] = "lockWaiting"
  BY Typed DEF GatesAreOfWaiters, QueueIsOfWaiters, LockQueueIsOfWaiters
<1>2. CASE RequestLock(r)
  <2>1. PICK place \in {"releasing", "allocating", "lockQueueing"} : Goto(r, place)
    BY <1>2, Typed DEF RequestLock
  <2>2. /\ UNCHANGED <<slots, gates, shared, retired, open, on, retried, closing, crashes>>
        /\ pc[r] = "locking"
    BY <1>2 DEF RequestLock
  <2>3. PICK held \in BOOLEAN :
          lock' = [accepting |-> lock.accepting, active |-> held, waiters |-> lock.waiters]
    <3>1. lock' = [accepting |-> lock.accepting,
                   active |-> IF lock.accepting THEN TRUE ELSE lock.active,
                   waiters |-> lock.waiters]
      BY <1>2 DEF RequestLock, TypeOK
    <3>2. (IF lock.accepting THEN TRUE ELSE lock.active) \in BOOLEAN
      BY Typed
    <3> QED BY <3>1, <3>2
  <2>4. /\ pc' \in [Request -> Places] /\ pc'[r] = place
        /\ \A s \in Request \ {r} : pc'[s] = pc[s]
    BY <1>0, <2>1, Moves
  <2>5. /\ TypeOK' /\ lock.waiters' = lock.waiters /\ lock.accepting' = lock.accepting
    BY <1>0, <2>2, <2>3, <2>4, Typed, TypedAgain
  <2>6. QueueIsOfWaiters' /\ LockQueueIsOfWaiters' /\ GatesAreOfWaiters' /\ ClosingIsKnown'
    BY <1>0, <1>1, <2>2, <2>4, <2>5
       DEF QueueIsOfWaiters, LockQueueIsOfWaiters, GatesAreOfWaiters, ClosingIsKnown
  <2> QED BY <2>5, <2>6
<1>3. CASE EnqueueForLock(r)
  <2>1. CASE Goto(r, "releasing") /\ UNCHANGED lock
    BY <1>0, <1>3, <2>1, QueuesStay DEF EnqueueForLock
  <2>2. CASE /\ lock.accepting /\ Goto(r, "lockWaiting")
             /\ lock' = [lock EXCEPT !.waiters = Append(@, r)]
    <3> DEFINE longer == Append(lock.waiters, r)
    <3>1. lock' = [accepting |-> lock.accepting, active |-> lock.active, waiters |-> longer]
      BY <2>2 DEF TypeOK
    <3>2. /\ longer \in Seq(Request)
          /\ DOMAIN longer = 1..(Len(lock.waiters) + 1)
          /\ DOMAIN lock.waiters = 1..Len(lock.waiters) /\ Len(lock.waiters) \in Nat
          /\ \A i \in DOMAIN lock.waiters : longer[i] = lock.waiters[i]
          /\ longer[Len(lock.waiters) + 1] = r
      BY <2>2, Typed
    <3>3. /\ pc' \in [Request -> Places] /\ pc'[r] = "lockWaiting"
          /\ \A s \in Request \ {r} : pc'[s] = pc[s]
      BY <1>0, <2>2, Moves
    <3>4. UNCHANGED <<slots, gates, shared, retired, open, on, retried, closing, crashes>>
          /\ pc[r] = "lockQueueing"
      BY <1>3 DEF EnqueueForLock
    <3>5. r \notin gates /\ \A i \in DOMAIN lock.waiters : lock.waiters[i] # r
      BY <1>1, <3>4
    <3> HIDE DEF longer
    <3>6. TypeOK' /\ lock.waiters' = longer /\ lock.accepting' = lock.accepting
      BY <1>0, <3>1, <3>2, <3>3, <3>4, Typed, TypedAgain
    <3>7. LockQueueIsOfWaiters'
      <4>1. \A i \in DOMAIN longer : pc'[longer[i]] = "lockWaiting" /\ longer[i] \notin gates
        BY <1>1, <3>2, <3>3, <3>5 DEF LockQueueIsOfWaiters
      <4>2. \A i, j \in DOMAIN longer : longer[i] = longer[j] => i = j
        BY <1>1, <3>2, <3>5 DEF LockQueueIsOfWaiters
      <4> QED BY <3>4, <3>6, <4>1, <4>2 DEF LockQueueIsOfWaiters
    <3>8. QueueIsOfWaiters' /\ GatesAreOfWaiters' /\ ClosingIsKnown'
      BY <1>0, <1>1, <2>2, <3>3, <3>4, <3>5, <3>6
         DEF QueueIsOfWaiters, GatesAreOfWaiters, ClosingIsKnown
    <3> QED BY <3>6, <3>7, <3>8
  <2> QED BY <1>3, <2>1, <2>2 DEF EnqueueForLock
<1>4. CASE WakeWithLock(r)
  <2>1. PICK place \in {"allocating", "releasing"} : Goto(r, place)
    BY <1>4 DEF WakeWithLock
  <2>2. /\ pc' \in [Request -> Places] /\ pc'[r] = place
        /\ \A s \in Request \ {r} : pc'[s] = pc[s]
    BY <1>0, <2>1, Moves
  <2>3. /\ UNCHANGED <<slots, lock, shared, retired, open, on, retried, closing, crashes>>
        /\ gates' = gates \ {r} /\ r \in gates /\ pc[r] = "lockWaiting"
    BY <1>4 DEF WakeWithLock
  <2>4. TypeOK'
    BY <1>0, <2>2, <2>3 DEF TypeOK, Places
  <2>5. \A i \in DOMAIN lock.waiters : lock.waiters[i] # r
    BY <2>3 DEF LockQueueIsOfWaiters
  <2>6. QueueIsOfWaiters' /\ LockQueueIsOfWaiters' /\ GatesAreOfWaiters' /\ ClosingIsKnown'
    BY <1>0, <1>1, <2>2, <2>3, <2>5
       DEF QueueIsOfWaiters, LockQueueIsOfWaiters, GatesAreOfWaiters, ClosingIsKnown
  <2> QED BY <2>4, <2>6
<1>5. CASE ReleaseLock(r)
  <2>1. PICK place \in {"using", "releasing"} : Goto(r, place)
    BY <1>5 DEF ReleaseLock
  <2>2. /\ pc' \in [Request -> Places] /\ pc'[r] = place
        /\ \A s \in Request \ {r} : pc'[s] = pc[s]
    BY <1>0, <2>1, Moves
  <2>3. /\ UNCHANGED <<slots, shared, retired, open, on, retried, closing, crashes>>
        /\ pc[r] \in {"opened", "unopened"}
    BY <1>5 DEF ReleaseLock
  <2>4. CASE lock.waiters = <<>>
    <3>1. /\ lock' = [accepting |-> lock.accepting, active |-> FALSE, waiters |-> lock.waiters]
          /\ gates' = gates /\ FALSE \in BOOLEAN
      BY <1>5, <2>4 DEF ReleaseLock, TypeOK
    <3>2. TypeOK' /\ lock.waiters' = lock.waiters /\ lock.accepting' = lock.accepting
      BY <1>0, <2>2, <2>3, <3>1, Typed, TypedAgain
    <3>3. QueueIsOfWaiters' /\ LockQueueIsOfWaiters' /\ GatesAreOfWaiters' /\ ClosingIsKnown'
      BY <1>0, <1>1, <2>2, <2>3, <3>1, <3>2
         DEF QueueIsOfWaiters, LockQueueIsOfWaiters, GatesAreOfWaiters, ClosingIsKnown
    <3> QED BY <3>2, <3>3
  <2>5. CASE lock.waiters # <<>>
    <3> DEFINE left == Tail(lock.waiters)
               first == Head(lock.waiters)
    <3>1. /\ lock' = [accepting |-> lock.accepting, active |-> TRUE, waiters |-> left]
          /\ gates' = gates \cup {first} /\ TRUE \in BOOLEAN
      BY <1>5, <2>5 DEF ReleaseLock, TypeOK
    <3>2. /\ left \in Seq(Request) /\ first = lock.waiters[1] /\ 1 \in DOMAIN lock.waiters
          /\ Len(left) = Len(lock.waiters) - 1
          /\ \A i \in 1..Len(left) : left[i] = lock.waiters[i + 1]
          /\ DOMAIN left = 1..Len(left) /\ DOMAIN lock.waiters = 1..Len(lock.waiters)
          /\ Len(lock.waiters) \in Nat \ {0}
      <4>1. lock.waiters \in Seq(Request)
        BY Typed
      <4>2. Len(lock.waiters) \in Nat \ {0} /\ DOMAIN lock.waiters = 1..Len(lock.waiters)
            /\ first = lock.waiters[1]
        BY <2>5, <4>1
      <4>3. /\ left \in Seq(Request) /\ Len(left) = Len(lock.waiters) - 1
            /\ \A i \in 1..Len(left) : left[i] = lock.waiters[i + 1]
        BY <2>5, <4>1, HeadTailProperties
      <4>4. DOMAIN left = 1..Len(left)
        BY <4>3
      <4> QED BY <4>2, <4>3, <4>4
    <3>3. /\ \A i \in DOMAIN left : i + 1 \in DOMAIN lock.waiters /\ i + 1 # 1
                                    /\ left[i] = lock.waiters[i + 1]
          /\ \A i, j \in DOMAIN left : i + 1 = j + 1 => i = j
      BY <3>2
    <3>4. first \in Request /\ pc[first] = "lockWaiting" /\ first # r
      BY <1>1, <2>3, <3>2
    <3> HIDE DEF left, first
    <3>5. TypeOK' /\ lock.waiters' = left /\ lock.accepting' = lock.accepting
      BY <1>0, <2>2, <2>3, <3>1, <3>2, <3>4, Typed, TypedAgain
    <3>6. LockQueueIsOfWaiters'
      <4>1. \A i, j \in DOMAIN lock.waiters : lock.waiters[i] = lock.waiters[j] => i = j
        BY DEF LockQueueIsOfWaiters
      <4>2. ASSUME NEW i \in DOMAIN left
            PROVE  pc'[left[i]] = "lockWaiting" /\ left[i] \notin gates'
        <5>1. left[i] # first
          BY <3>2, <3>3, <4>1
        <5>2. left[i] \in Request /\ pc[left[i]] = "lockWaiting" /\ left[i] \notin gates
          BY <1>1, <3>3 DEF LockQueueIsOfWaiters
        <5> QED BY <2>2, <2>3, <3>1, <5>1, <5>2
      <4>3. \A i, j \in DOMAIN left : left[i] = left[j] => i = j
        BY <3>3, <4>1
      <4> QED BY <3>5, <4>2, <4>3 DEF LockQueueIsOfWaiters
    <3>7. QueueIsOfWaiters'
      <4>1. \A i \in DOMAIN slots.waiters : slots.waiters[i] # first
        BY <1>1, <3>4
      <4> QED BY <1>1, <2>2, <2>3, <3>1, <4>1 DEF QueueIsOfWaiters
    <3>8. GatesAreOfWaiters' /\ ClosingIsKnown'
      BY <1>0, <1>1, <2>2, <2>3, <2>5, <3>1, <3>4, <3>5 DEF GatesAreOfWaiters, ClosingIsKnown
    <3> QED BY <3>5, <3>6, <3>7, <3>8
  <2> QED BY <2>4, <2>5
<1> QED BY <1>2, <1>3, <1>4, <1>5

\* The shutdown empties the queues and opens the gates.
LEMMA StopSteps ==
  ASSUME QueuesIInv, Stop \/ \E b \in Browser : Crash(b)
  PROVE  QueuesIInv'
<1> USE DEF QueuesIInv
<1>0. /\ NoBrowser \in Browser \cup {NoBrowser} /\ shared \in Browser \cup {NoBrowser}
      /\ retired \subseteq Browser /\ open \subseteq Browser /\ retried \subseteq Request
      /\ on \in [Request -> Browser \cup {NoBrowser}] /\ pc \in [Request -> Places]
      /\ gates \subseteq Request /\ crashes \in 0..MaxCrashes /\ <<>> \in Seq(Request)
      /\ Len(<<>>) <= MaxQueue /\ FALSE \in BOOLEAN /\ DOMAIN <<>> = {} /\ MaxCrashes \in Nat
      /\ closing \in {"no", "slots", "lock", "awaiting", "done"}
  <2>1. Len(<<>>) = 0 /\ 0 <= MaxQueue
    BY PoolAssumption
  <2> QED BY <2>1, PoolAssumption DEF TypeOK, Places
<1>1. /\ \A s \in gates : pc[s] \in {"waiting", "lockWaiting"}
      /\ \A i \in DOMAIN slots.waiters :
           slots.waiters[i] \in Request /\ pc[slots.waiters[i]] = "waiting"
      /\ \A i \in DOMAIN lock.waiters :
           lock.waiters[i] \in Request /\ pc[lock.waiters[i]] = "lockWaiting"
  BY Typed DEF GatesAreOfWaiters, QueueIsOfWaiters, LockQueueIsOfWaiters
<1>2. CASE StopSlots
  <2>1. slots' = [accepting |-> FALSE, active |-> slots.active, waiters |-> <<>>]
    BY <1>2 DEF StopSlots, TypeOK
  <2>2. /\ UNCHANGED <<lock, gates, shared, retired, open, pc, on, retried, crashes>>
        /\ closing = "no" /\ closing' = "slots"
    BY <1>2 DEF StopSlots
  <2>3. TypeOK' /\ slots.waiters' = <<>> /\ slots.accepting' = FALSE
    BY <1>0, <2>1, <2>2, Typed, TypedAgain
  <2>4. QueueIsOfWaiters' /\ LockQueueIsOfWaiters' /\ GatesAreOfWaiters' /\ ClosingIsKnown'
    BY <1>0, <1>1, <2>2, <2>3
       DEF QueueIsOfWaiters, LockQueueIsOfWaiters, GatesAreOfWaiters, ClosingIsKnown
  <2> QED BY <2>3, <2>4
<1>3. CASE StopLock
  <2>1. /\ lock' = [accepting |-> FALSE, active |-> FALSE, waiters |-> <<>>]
        /\ UNCHANGED <<slots, shared, retired, open, pc, on, retried, crashes>>
        /\ closing = "slots" /\ closing' \in {"awaiting", "lock"}
        /\ gates' = gates \cup {r \in Request : pc[r] = "waiting"} \cup Range(lock.waiters)
    BY <1>3 DEF StopLock
  <2>2. \A s \in gates' : s \in Request /\ pc[s] \in {"waiting", "lockWaiting"}
    BY <1>0, <1>1, <2>1 DEF Range
  <2>3. TypeOK' /\ lock.waiters' = <<>> /\ lock.accepting' = FALSE
    BY <1>0, <2>1, <2>2, Typed, TypedAgain
  <2>4. slots.waiters = <<>> /\ ~slots.accepting
    BY <2>1 DEF ClosingIsKnown
  <2>5. QueueIsOfWaiters' /\ LockQueueIsOfWaiters' /\ GatesAreOfWaiters' /\ ClosingIsKnown'
    BY <1>0, <2>1, <2>2, <2>3, <2>4
       DEF QueueIsOfWaiters, LockQueueIsOfWaiters, GatesAreOfWaiters, ClosingIsKnown
  <2> QED BY <2>3, <2>5
<1>4. CASE StopBrowsers
  <2>1. /\ UNCHANGED <<slots, lock, gates, pc, on, retried, crashes>>
        /\ closing \in {"lock", "awaiting"} /\ closing' = "done"
        /\ shared' = NoBrowser /\ retired' = {} /\ open' \subseteq open
    BY <1>4 DEF StopBrowsers
  <2>2. TypeOK'
    BY <1>0, <2>1 DEF TypeOK, Places
  <2> QED BY <2>1, <2>2
          DEF QueueIsOfWaiters, LockQueueIsOfWaiters, GatesAreOfWaiters, ClosingIsKnown
<1>5. CASE \E b \in Browser : Crash(b)
  <2>1. /\ UNCHANGED <<slots, lock, gates, shared, retired, pc, on, retried, closing>>
        /\ open' \subseteq open /\ crashes < MaxCrashes /\ crashes' = crashes + 1
    BY <1>5 DEF Crash
  <2>2. crashes' \in 0..MaxCrashes
    BY <1>0, <2>1
  <2>3. TypeOK'
    BY <1>0, <2>1, <2>2 DEF TypeOK, Places
  <2> QED BY <2>1, <2>3
          DEF QueueIsOfWaiters, LockQueueIsOfWaiters, GatesAreOfWaiters, ClosingIsKnown
<1> QED BY <1>2, <1>3, <1>4, <1>5 DEF Stop

\* Every step keeps the queues.
LEMMA QueuesStepHolds == QueuesIInv /\ [Next]_vars => QueuesIInv'
<1> SUFFICES ASSUME QueuesIInv, [Next]_vars PROVE QueuesIInv'
  OBVIOUS
<1>1. CASE UNCHANGED vars
  BY <1>1 DEF vars, QueuesIInv, TypeOK, QueueIsOfWaiters, LockQueueIsOfWaiters,
              GatesAreOfWaiters, ClosingIsKnown
<1>2. ASSUME NEW r \in Request, RequestSlot(r) \/ Proceed(r) PROVE QueuesIInv'
  BY <1>2, QuietSteps, SlotSteps, LockSteps DEF Proceed
<1> QED BY <1>1, <1>2, StopSteps DEF Next

LEMMA QueuesInitially == Init => QueuesIInv
<1> SUFFICES ASSUME Init PROVE QueuesIInv
  OBVIOUS
<1>1. 0 \in 0..MaxSlots /\ 0 \in 0..MaxCrashes /\ Len(<<>>) <= MaxQueue
      /\ <<>> \in Seq(Request) /\ DOMAIN <<>> = {} /\ "idle" \in Suspended
  BY PoolAssumption DEF Suspended
<1> QED BY <1>1 DEF Init, QueuesIInv, TypeOK, QueueIsOfWaiters, LockQueueIsOfWaiters,
                    GatesAreOfWaiters, ClosingIsKnown

\* The counters, queues, places and browsers have their types, within the limits of the
\* slots and of the queue, and a queue is one of requests that wait for their gate.
THEOREM PoolTyping == Spec => []QueuesIInv
<1> QED BY QueuesInitially, QueuesStepHolds, PTL DEF Spec

-----------------------------------------------------------------------------
(* The counters.                                                            *)

\* The requests between their slot and its release, those that wait left out.
InUse(r) == pc[r] \notin {"idle", "queueing", "waiting", "checking", "sweeping"}

Holders == {r \in Request : Granted(r)}
Users == {r \in Request : InUse(r)}

\* An open pool counts its holders.  A closed one forgets those it wakes with nothing,
\* and then its counter only bounds its users.
HoldersAreCounted ==
  /\ slots.accepting => IsFiniteSet(Holders) /\ slots.active = Cardinality(Holders)
  /\ ~slots.accepting => IsFiniteSet(Users) /\ Cardinality(Users) <= slots.active

\* Nobody gains or loses a slot.
HoldersStay ==
  /\ slots.active' = slots.active
  /\ slots.accepting' =>
       slots.accepting /\ \A s \in Request : Granted(s)' <=> Granted(s)
  /\ ~slots.accepting' => \A s \in Request : InUse(s)' => InUse(s)

\* Who has no slot and wants none yet takes one that is free, past an empty queue.
SlotIsTaken(r) ==
  /\ pc[r] = "idle" /\ slots.accepting /\ slots.accepting' /\ slots.waiters = <<>>
  /\ slots.active' = slots.active + 1
  /\ \A s \in Request : Granted(s)' <=> Granted(s) \/ s = r

LEMMA UsersAreHolders == \A r \in Request : InUse(r) => Granted(r)
BY DEF InUse, Granted

\* The counter bounds the users of any pool.
LEMMA UsersAreCounted ==
  ASSUME QueuesIInv, HoldersAreCounted
  PROVE  IsFiniteSet(Users) /\ Cardinality(Users) \in Nat /\ Cardinality(Users) <= slots.active
<1>1. CASE slots.accepting
  <2>1. Users \subseteq Holders
    BY UsersAreHolders DEF Users, Holders
  <2> QED BY <1>1, <2>1, FS_Subset, FS_CardinalityType DEF HoldersAreCounted
<1>2. CASE ~slots.accepting
  BY <1>2, FS_CardinalityType DEF HoldersAreCounted
<1> QED BY <1>1, <1>2

\* What most steps have in common: whoever moves goes on with or without a slot.
LEMMA SlotKept ==
  ASSUME QueuesIInv, NEW r \in Request, NEW place \in Places, Goto(r, place),
         UNCHANGED <<slots, closing>>, pc[r] # "waiting", place # "waiting",
         \A s \in Request : pc[s] = "waiting" => (s \in gates' <=> s \in gates),
         pc[r] \in {"idle", "queueing", "checking", "sweeping"}
           <=> place \in {"idle", "queueing", "checking", "sweeping"}
  PROVE  HoldersStay
<1>1. pc'[r] = place /\ \A s \in Request \ {r} : pc'[s] = pc[s]
  BY Moves DEF QueuesIInv
<1>2. \A s \in Request : (Granted(s)' <=> Granted(s)) /\ (InUse(s)' <=> InUse(s))
  <2> SUFFICES ASSUME NEW s \in Request
               PROVE (Granted(s)' <=> Granted(s)) /\ (InUse(s)' <=> InUse(s))
    OBVIOUS
  <2>1. CASE s = r
    BY <1>1, <2>1 DEF Granted, InUse
  <2>2. CASE s # r
    BY <1>1, <2>2 DEF Granted, InUse
  <2> QED BY <2>1, <2>2
<1> QED BY <1>2 DEF HoldersStay

\* A step takes a slot, releases one, or leaves the holders as they are.
LEMMA StepsOfHolders ==
  ASSUME QueuesIInv, Next
  PROVE  \/ HoldersStay
         \/ \E r \in Request : RequestSlot(r) /\ SlotIsTaken(r)
         \/ \E r \in Request : ReleaseSlot(r)
<1>0. /\ {"queueing", "locking", "lockQueueing", "lockWaiting", "launching", "opening", "opened",
          "evicting", "unopened", "allocating", "releasing", "sweeping", "idle", "using", "waiting"}
           \subseteq Places
      /\ lock.waiters \in Seq(Request)
      /\ slots = [accepting |-> slots.accepting, active |-> slots.active,
                  waiters |-> slots.waiters]
  BY Typed DEF Places, Suspended, Running, QueuesIInv
<1>1. ASSUME NEW r \in Request, RequestSlot(r) PROVE HoldersStay \/ SlotIsTaken(r)
  <2>1. CASE UNCHANGED <<slots, pc>>
    BY <1>1, <2>1 DEF RequestSlot, HoldersStay, Granted, InUse
  <2>2. CASE Goto(r, "queueing") /\ UNCHANGED slots
    BY <1>0, <1>1, <2>2, SlotKept DEF RequestSlot
  <2>3. CASE /\ slots.accepting /\ slots.waiters = <<>> /\ HasCapacity(slots)
             /\ slots' = [slots EXCEPT !.active = @ + 1] /\ Goto(r, "locking")
    <3>1. slots' = [accepting |-> slots.accepting, active |-> slots.active + 1,
                    waiters |-> slots.waiters]
      BY <1>0, <2>3
    <3>2. pc'[r] = "locking" /\ \A s \in Request \ {r} : pc'[s] = pc[s]
      BY <1>0, <2>3, Moves DEF QueuesIInv
    <3>3. pc[r] = "idle" /\ gates' = gates
      BY <1>1 DEF RequestSlot
    <3>4. ASSUME NEW s \in Request PROVE Granted(s)' <=> Granted(s) \/ s = r
      <4>1. CASE s = r
        BY <3>2, <4>1 DEF Granted
      <4>2. CASE s # r
        BY <3>2, <3>3, <4>2 DEF Granted
      <4> QED BY <4>1, <4>2
    <3> QED BY <2>3, <3>1, <3>3, <3>4 DEF SlotIsTaken
  <2> QED BY <1>1, <2>1, <2>2, <2>3 DEF RequestSlot
<1>2. ASSUME NEW r \in Request, Enqueue(r) PROVE HoldersStay
  <2>1. CASE Goto(r, "idle") /\ UNCHANGED slots
    BY <1>0, <1>2, <2>1, SlotKept DEF Enqueue
  <2>2. CASE slots' = [slots EXCEPT !.waiters = Append(@, r)] /\ Goto(r, "waiting")
    <3>1. slots' = [accepting |-> slots.accepting, active |-> slots.active,
                    waiters |-> Append(slots.waiters, r)]
      BY <1>0, <2>2
    <3>2. pc'[r] = "waiting" /\ \A s \in Request \ {r} : pc'[s] = pc[s]
      BY <1>0, <2>2, Moves DEF QueuesIInv
    <3>3. pc[r] = "queueing" /\ gates' = gates /\ r \notin gates
      BY <1>2 DEF Enqueue, QueuesIInv, GatesAreOfWaiters
    <3>4. ASSUME NEW s \in Request
          PROVE (Granted(s)' <=> Granted(s)) /\ (InUse(s)' <=> InUse(s))
      <4>1. CASE s = r
        BY <3>2, <3>3, <4>1 DEF Granted, InUse
      <4>2. CASE s # r
        BY <3>2, <3>3, <4>2 DEF Granted, InUse
      <4> QED BY <4>1, <4>2
    <3> QED BY <3>1, <3>4 DEF HoldersStay
  <2> QED BY <1>2, <2>1, <2>2 DEF Enqueue
<1>3. ASSUME NEW r \in Request, WakeWithSlot(r) PROVE HoldersStay
  <2>1. PICK place \in {"locking", "idle"} :
          Goto(r, place) /\ (place = IF slots.accepting THEN "locking" ELSE "idle")
    BY <1>3 DEF WakeWithSlot
  <2>2. pc'[r] = place /\ \A s \in Request \ {r} : pc'[s] = pc[s]
    BY <1>0, <2>1, Moves DEF QueuesIInv
  <2>3. pc[r] = "waiting" /\ r \in gates /\ gates' = gates \ {r} /\ slots' = slots
    BY <1>3 DEF WakeWithSlot
  <2>4. ASSUME NEW s \in Request
        PROVE  /\ slots.accepting => (Granted(s)' <=> Granted(s))
               /\ ~slots.accepting => (InUse(s)' => InUse(s))
    <3>1. CASE s = r
      BY <2>1, <2>2, <2>3, <3>1 DEF Granted, InUse
    <3>2. CASE s # r
      BY <2>2, <2>3, <3>2 DEF Granted, InUse
    <3> QED BY <3>1, <3>2
  <2> QED BY <2>3, <2>4 DEF HoldersStay
<1>4. ASSUME NEW r \in Request, RequestLock(r) \/ EnqueueForLock(r) \/ WakeWithLock(r)
      PROVE  HoldersStay
  <2>1. PICK place \in {"releasing", "allocating", "lockQueueing", "lockWaiting"} : Goto(r, place)
    BY <1>4 DEF RequestLock, EnqueueForLock, WakeWithLock
  <2>2. /\ pc[r] \in {"locking", "lockQueueing", "lockWaiting"} /\ UNCHANGED <<slots, closing>>
        /\ gates' = gates \/ (gates' = gates \ {r} /\ pc[r] = "lockWaiting")
    BY <1>4 DEF RequestLock, EnqueueForLock, WakeWithLock
  <2> QED BY <1>0, <2>1, <2>2, SlotKept
<1>5. ASSUME NEW r \in Request,
             \/ AcquireBrowser(r) \/ Launched(r) \/ PageOpened(r)
             \/ \E retryable \in BOOLEAN : AllocationFailed(r, retryable)
             \/ Evict(r) \/ EndUse(r)
      PROVE  HoldersStay
  <2>1. PICK place \in {"launching", "opening", "opened", "evicting", "unopened", "allocating",
                        "releasing"} : Goto(r, place)
    BY <1>5 DEF AcquireBrowser, Launched, PageOpened, AllocationFailed, Evict, EndUse
  <2>2. /\ pc[r] \in {"allocating", "launching", "opening", "evicting", "using"}
        /\ UNCHANGED <<slots, closing, gates>>
    BY <1>5 DEF AcquireBrowser, Launched, PageOpened, AllocationFailed, Evict, EndUse
  <2> QED BY <1>0, <2>1, <2>2, SlotKept
<1>6. ASSUME NEW r \in Request, ReleaseLock(r) PROVE HoldersStay
  <2>1. PICK place \in {"using", "releasing"} : Goto(r, place)
    BY <1>6 DEF ReleaseLock
  <2>2. pc[r] \in {"opened", "unopened"} /\ UNCHANGED <<slots, closing>>
    BY <1>6 DEF ReleaseLock
  <2>3. \A s \in Request : pc[s] = "waiting" => (s \in gates' <=> s \in gates)
    <3>1. CASE lock.waiters = <<>>
      BY <1>6, <3>1 DEF ReleaseLock
    <3>2. CASE lock.waiters # <<>>
      <4>1. gates' = gates \cup {lock.waiters[1]} /\ 1 \in DOMAIN lock.waiters
        BY <1>0, <1>6, <3>2 DEF ReleaseLock
      <4>2. pc[lock.waiters[1]] = "lockWaiting"
        BY <4>1 DEF QueuesIInv, LockQueueIsOfWaiters
      <4> QED BY <4>1, <4>2
    <3> QED BY <3>1, <3>2
  <2> QED BY <1>0, <2>1, <2>2, <2>3, SlotKept
<1>7. ASSUME NEW r \in Request, CheckIdle(r) \/ Sweep(r) PROVE HoldersStay
  <2>1. PICK place \in {"idle", "sweeping"} : Goto(r, place)
    BY <1>7 DEF CheckIdle, Sweep
  <2>2. pc[r] \in {"checking", "sweeping"} /\ UNCHANGED <<slots, closing, gates>>
    BY <1>7 DEF CheckIdle, Sweep
  <2> QED BY <1>0, <2>1, <2>2, SlotKept
<1>8. CASE StopSlots
  <2>1. slots' = [accepting |-> FALSE, active |-> slots.active, waiters |-> <<>>] /\ pc' = pc
    BY <1>0, <1>8 DEF StopSlots
  <2> QED BY <2>1 DEF HoldersStay, InUse
<1>9. CASE StopLock \/ StopBrowsers \/ \E b \in Browser : Crash(b)
  <2>1. slots' = slots /\ pc' = pc /\ (slots.accepting => gates' = gates)
    BY <1>9 DEF StopLock, StopBrowsers, Crash, QueuesIInv, ClosingIsKnown
  <2> QED BY <2>1 DEF HoldersStay, Granted, InUse
<1>10. ASSUME NEW r \in Request, Proceed(r) PROVE HoldersStay \/ ReleaseSlot(r)
  BY <1>2, <1>3, <1>4, <1>5, <1>6, <1>7, <1>10 DEF Proceed
<1> QED BY <1>1, <1>8, <1>9, <1>10 DEF Next, Stop

\* A release: its request loses its slot, and the first n of the queue gain one each.
LEMMA ReleaseMovesSlots ==
  ASSUME QueuesIInv, NEW r \in Request, ReleaseSlot(r)
  PROVE  \E n \in Nat, rest \in Nat :
           /\ n <= Len(slots.waiters) /\ (n > 0 => slots.accepting)
           /\ rest = IF slots.active = 0 THEN 0 ELSE slots.active - 1
           /\ slots.accepting' = slots.accepting /\ slots.active' = rest + n
           /\ InUse(r) /\ \A i \in 1..n : slots.waiters[i] \in Request \ Holders
           /\ \A i, j \in 1..n : slots.waiters[i] = slots.waiters[j] => i = j
           /\ \A s \in Request :
                Granted(s)' <=> (Granted(s) /\ s # r) \/ \E i \in 1..n : s = slots.waiters[i]
           /\ \A s \in Request : InUse(s)' <=> InUse(s) /\ s # r
<1>1. PICK n \in Nat, rest \in Nat :
        /\ n <= Len(slots.waiters) /\ (n > 0 => slots.accepting)
        /\ rest = IF slots.active = 0 THEN 0 ELSE slots.active - 1
        /\ slots' = [accepting |-> slots.accepting, active |-> rest + n,
                     waiters |-> SubSeq(slots.waiters, n + 1, Len(slots.waiters))]
        /\ gates' = gates \cup {slots.waiters[i] : i \in 1..n}
  BY ReleaseGrants DEF QueuesIInv
<1>2. slots.accepting' = slots.accepting /\ slots.active' = rest + n
  BY <1>1
<1>3. pc[r] = "releasing" /\ pc'[r] = "checking" /\ \A s \in Request \ {r} : pc'[s] = pc[s]
  <2>1. "checking" \in Places
    BY DEF Places, Running
  <2> QED BY <2>1, Moves DEF QueuesIInv, ReleaseSlot
<1>4. ASSUME NEW i \in 1..n
      PROVE  /\ slots.waiters[i] \in Request /\ pc[slots.waiters[i]] = "waiting"
             /\ slots.waiters[i] \notin gates /\ i \in DOMAIN slots.waiters
  <2>1. i \in DOMAIN slots.waiters /\ slots.waiters \in Seq(Request)
    BY <1>1, Typed DEF QueuesIInv
  <2> QED BY <2>1 DEF QueuesIInv, QueueIsOfWaiters
<1>5. \A i \in 1..n : slots.waiters[i] \in Request \ Holders
  BY <1>4 DEF Holders, Granted
<1>6. \A i, j \in 1..n : slots.waiters[i] = slots.waiters[j] => i = j
  BY <1>4 DEF QueuesIInv, QueueIsOfWaiters
<1>7. ASSUME NEW s \in Request
      PROVE  /\ Granted(s)' <=> (Granted(s) /\ s # r) \/ \E i \in 1..n : s = slots.waiters[i]
             /\ InUse(s)' <=> InUse(s) /\ s # r
  <2>1. s \in gates' <=> s \in gates \/ \E i \in 1..n : s = slots.waiters[i]
    BY <1>1
  <2>2. \A i \in 1..n : s = slots.waiters[i] => pc[s] = "waiting" /\ s # r
    BY <1>3, <1>4
  <2>3. CASE s = r
    BY <1>3, <2>2, <2>3 DEF Granted, InUse
  <2>4. CASE s # r
    BY <1>3, <2>1, <2>2, <2>4 DEF Granted, InUse
  <2> QED BY <2>3, <2>4
<1>8. InUse(r)
  BY <1>3 DEF InUse
<1> QED BY <1>1, <1>2, <1>5, <1>6, <1>7, <1>8

\* The elements of a list without repetition.
LEMMA ListedOnce ==
  ASSUME NEW n \in Nat, NEW f, \A i, j \in 1..n : f[i] = f[j] => i = j
  PROVE  IsFiniteSet({f[i] : i \in 1..n}) /\ Cardinality({f[i] : i \in 1..n}) = n
<1> DEFINE listed == {f[i] : i \in 1..n}
           g == [i \in 1..n |-> f[i]]
<1>1. g \in Bijection(1..n, listed)
  <2>1. g \in [1..n -> listed]
    OBVIOUS
  <2>2. \A a, b \in 1..n : g[a] = g[b] => a = b
    OBVIOUS
  <2>3. \A t \in listed : \E s \in 1..n : g[s] = t
    OBVIOUS
  <2> QED BY <2>1, <2>2, <2>3 DEF Bijection, Injection, Surjection, IsInjective
<1>2. IsFiniteSet(1..n) /\ Cardinality(1..n) = n
  BY FS_Interval
<1> HIDE DEF listed, g
<1>3. IsFiniteSet(listed) /\ Cardinality(listed) = n
  BY <1>1, <1>2, FS_Bijection DEF ExistsBijection
<1> QED BY <1>3 DEF listed

\* What a release leaves in an open pool.
LEMMA ReleaseIsCounted ==
  ASSUME QueuesIInv, HoldersAreCounted, NEW r \in Request, ReleaseSlot(r)
  PROVE  HoldersAreCounted'
<1>1. PICK n \in Nat, rest \in Nat :
        /\ n <= Len(slots.waiters) /\ (n > 0 => slots.accepting)
        /\ rest = IF slots.active = 0 THEN 0 ELSE slots.active - 1
        /\ slots.accepting' = slots.accepting /\ slots.active' = rest + n
        /\ InUse(r) /\ \A i \in 1..n : slots.waiters[i] \in Request \ Holders
        /\ \A i, j \in 1..n : slots.waiters[i] = slots.waiters[j] => i = j
        /\ \A s \in Request :
             Granted(s)' <=> (Granted(s) /\ s # r) \/ \E i \in 1..n : s = slots.waiters[i]
        /\ \A s \in Request : InUse(s)' <=> InUse(s) /\ s # r
  BY ReleaseMovesSlots
<1>2. slots.active \in Nat
  BY Typed DEF QueuesIInv
<1>3. /\ IsFiniteSet(Users) /\ Cardinality(Users) \in Nat
      /\ Cardinality(Users) <= slots.active
  BY UsersAreCounted
<1>4. /\ Users' = Users \ {r} /\ IsFiniteSet(Users \ {r})
      /\ Cardinality(Users \ {r}) = Cardinality(Users) - 1
  <2>1. r \in Users
    BY <1>1 DEF Users
  <2>2. \A s : s \in Users' <=> s \in Users \ {r}
    BY <1>1 DEF Users
  <2> QED BY <1>3, <2>1, <2>2, FS_RemoveElement
<1>5. CASE ~slots.accepting
  <2>1. n = 0 /\ slots.active # 0 /\ slots.active' = slots.active - 1
    <3>1. Cardinality(Users) # 0
      <4>1. r \in Users
        BY <1>1 DEF Users
      <4> QED BY <1>3, <4>1, FS_EmptySet
    <3> QED BY <1>1, <1>2, <1>3, <1>5, <3>1
  <2>2. IsFiniteSet(Users') /\ Cardinality(Users') <= slots.active'
    BY <1>2, <1>3, <1>4, <2>1
  <2> QED BY <1>1, <1>5, <2>2 DEF HoldersAreCounted
<1>6. CASE slots.accepting
  <2> DEFINE Kept == Holders \ {r}
             Listed == {slots.waiters[i] : i \in 1..n}
  <2>1. IsFiniteSet(Holders) /\ Cardinality(Holders) = slots.active /\ r \in Holders
    BY <1>1, <1>6, UsersAreHolders DEF HoldersAreCounted, Holders
  <2>2. IsFiniteSet(Kept) /\ Cardinality(Kept) = slots.active - 1 /\ slots.active # 0
    BY <2>1, FS_RemoveElement, FS_EmptySet
  <2>3. IsFiniteSet(Listed) /\ Cardinality(Listed) = n
    <3>1. \A i, j \in 1..n : slots.waiters[i] = slots.waiters[j] => i = j
      BY <1>1
    <3> QED BY <3>1, ListedOnce
  <2>4. Kept \cap Listed = {}
    BY <1>1
  <2>5. Holders' = Kept \cup Listed
    <3>1. \A s : s \in Holders' <=> s \in Kept \cup Listed
      BY <1>1 DEF Holders
    <3> QED BY <3>1
  <2> HIDE DEF Kept, Listed
  <2>6. /\ IsFiniteSet(Kept \cup Listed)
        /\ Cardinality(Kept \cup Listed) = slots.active - 1 + n - Cardinality({})
    BY <2>2, <2>3, <2>4, FS_Union
  <2>7. Cardinality({}) = 0
    BY FS_EmptySet
  <2>8. slots.active' = slots.active - 1 + n
    BY <1>1, <1>2, <2>2
  <2>9. IsFiniteSet(Holders') /\ slots.active' = Cardinality(Holders')
    BY <1>2, <2>5, <2>6, <2>7, <2>8
  <2> QED BY <1>1, <1>6, <2>9 DEF HoldersAreCounted
<1> QED BY <1>5, <1>6

LEMMA CountsStep == QueuesIInv /\ HoldersAreCounted /\ [Next]_vars => HoldersAreCounted'
<1> SUFFICES ASSUME QueuesIInv, HoldersAreCounted, [Next]_vars PROVE HoldersAreCounted'
  OBVIOUS
<1>1. CASE UNCHANGED vars
  <2>1. slots' = slots /\ gates' = gates /\ pc' = pc
    BY <1>1 DEF vars
  <2>2. \A s \in Request : (Granted(s)' <=> Granted(s)) /\ (InUse(s)' <=> InUse(s))
    BY <2>1 DEF Granted, InUse
  <2>3. Holders' = Holders /\ Users' = Users
    BY <2>2 DEF Holders, Users
  <2> QED BY <2>1, <2>3 DEF HoldersAreCounted
<1>2. CASE HoldersStay
  <2>1. CASE slots.accepting'
    <3>1. Holders' = Holders
      BY <1>2, <2>1 DEF HoldersStay, Holders
    <3> QED BY <1>2, <2>1, <3>1 DEF HoldersStay, HoldersAreCounted
  <2>2. CASE ~slots.accepting'
    <3>1. Users' \subseteq Users
      BY <1>2, <2>2 DEF HoldersStay, Users
    <3>2. /\ IsFiniteSet(Users) /\ Cardinality(Users) \in Nat
          /\ Cardinality(Users) <= slots.active
      BY UsersAreCounted
    <3>3. /\ IsFiniteSet(Users') /\ Cardinality(Users') \in Nat
          /\ Cardinality(Users') <= Cardinality(Users)
      BY <3>1, <3>2, FS_Subset, FS_CardinalityType
    <3>4. slots.active \in Nat /\ slots.active' = slots.active
      BY <1>2, Typed DEF HoldersStay, QueuesIInv
    <3>5. Cardinality(Users') <= slots.active'
      BY <3>2, <3>3, <3>4
    <3> QED BY <2>2, <3>3, <3>5 DEF HoldersAreCounted
  <2> QED BY <2>1, <2>2
<1>3. ASSUME NEW r \in Request, SlotIsTaken(r) PROVE HoldersAreCounted'
  <2>1. Holders' = Holders \cup {r} /\ r \notin Holders
    <3>1. \A s : s \in Holders' <=> s \in Holders \cup {r}
      BY <1>3 DEF SlotIsTaken, Holders
    <3> QED BY <1>3, <3>1 DEF SlotIsTaken, Holders, Granted
  <2>2. /\ IsFiniteSet(Holders \cup {r})
        /\ Cardinality(Holders \cup {r}) = Cardinality(Holders) + 1
    BY <1>3, <2>1, FS_AddElement DEF SlotIsTaken, HoldersAreCounted
  <2> QED BY <1>3, <2>1, <2>2 DEF SlotIsTaken, HoldersAreCounted
<1> QED BY <1>1, <1>2, <1>3, StepsOfHolders, ReleaseIsCounted

LEMMA CountsInitially == Init => HoldersAreCounted
<1> SUFFICES ASSUME Init PROVE HoldersAreCounted
  OBVIOUS
<1>1. slots.accepting = TRUE /\ slots.active = 0 /\ Holders = {}
  BY DEF Init, Holders, Granted
<1> QED BY <1>1, FS_EmptySet DEF HoldersAreCounted

\* While the pool is open its counter is the number of its holders: no slot is lost to a
\* failed allocation, a grant or a wake-up, and none is counted twice.
THEOREM SlotsAreAlwaysCounted == Spec => []SlotsAreCounted
<1>1. HoldersAreCounted => SlotsAreCounted
  BY DEF HoldersAreCounted, SlotsAreCounted, Holders
<1> QED BY <1>1, QueuesInitially, QueuesStepHolds, CountsInitially, CountsStep, PTL DEF Spec

\* No request is granted a slot past one queued before it.
THEOREM FirstQueuedIsFirstGranted == Spec => FirstQueuedFirstGranted
<1>1. ASSUME QueuesIInv, [Next]_vars, NEW w \in Request, NEW r \in Request,
             QueuedBefore(w, r), ~Granted(r), Granted(r)', slots.accepting'
      PROVE  Granted(w)'
  <2>1. PICK i \in DOMAIN slots.waiters :
          slots.waiters[i] = w /\ \A j \in 1..i : slots.waiters[j] # r
    BY <1>1 DEF QueuedBefore
  <2>2. i \in 1..Len(slots.waiters) /\ Len(slots.waiters) \in Nat
    <3>1. slots.waiters \in Seq(Request)
      BY <1>1, Typed DEF QueuesIInv
    <3>2. DOMAIN slots.waiters = 1..Len(slots.waiters) /\ Len(slots.waiters) \in Nat
      BY <3>1
    <3> QED BY <3>2
  <2>3. ~UNCHANGED vars
    BY <1>1 DEF vars, Granted
  <2>4. ~HoldersStay
    BY <1>1 DEF HoldersStay
  <2>5. ASSUME NEW s \in Request, SlotIsTaken(s) PROVE FALSE
    BY <2>2, <2>5 DEF SlotIsTaken
  <2>6. PICK s \in Request : ReleaseSlot(s)
    BY <1>1, <2>3, <2>4, <2>5, StepsOfHolders
  <2>7. PICK n \in Nat :
          \A t \in Request :
            Granted(t)' <=> (Granted(t) /\ t # s) \/ \E j \in 1..n : t = slots.waiters[j]
    <3>1. PICK n \in Nat, rest \in Nat :
            /\ n <= Len(slots.waiters) /\ (n > 0 => slots.accepting)
            /\ rest = IF slots.active = 0 THEN 0 ELSE slots.active - 1
            /\ slots.accepting' = slots.accepting /\ slots.active' = rest + n
            /\ InUse(s) /\ \A j \in 1..n : slots.waiters[j] \in Request \ Holders
            /\ \A j, k \in 1..n : slots.waiters[j] = slots.waiters[k] => j = k
            /\ \A t \in Request :
                 Granted(t)' <=> (Granted(t) /\ t # s) \/ \E j \in 1..n : t = slots.waiters[j]
            /\ \A t \in Request : InUse(t)' <=> InUse(t) /\ t # s
      BY <1>1, <2>6, ReleaseMovesSlots
    <3> QED BY <3>1, Zenon
  <2>8. PICK j \in 1..n : r = slots.waiters[j]
    BY <1>1, <2>7
  <2>9. i \in 1..n
    BY <2>1, <2>2, <2>8
  <2> QED BY <2>1, <2>7, <2>9
<1>2. QueuesIInv /\ [Next]_vars =>
        [\A w, r \in Request :
           QueuedBefore(w, r) /\ ~Granted(r) /\ Granted(r)' /\ slots'.accepting
             => Granted(w)']_vars
  BY <1>1
<1> QED BY <1>2, QueuesInitially, QueuesStepHolds, PTL DEF Spec, FirstQueuedFirstGranted

-----------------------------------------------------------------------------
(* The browsers.                                                            *)

\* A request has a page between its allocation and the end of its use.
PagesAreInUse ==
  \A r \in Request : on[r] # NoBrowser => pc[r] \in {"opening", "opened", "using"}

\* One browser is launched at a time, into an empty place.
LaunchIsAlone ==
  \A r \in Request :
    pc[r] = "launching" => shared = NoBrowser /\ \A s \in Request : pc[s] = "launching" => s = r

\* The pool knows every browser that runs.
OpenIsKnown == open \subseteq {shared} \cup retired

\* Somebody is left to sweep the retired browsers of an open pool.
Remains(r) == Granted(r) \/ pc[r] \in {"checking", "sweeping"}

RetiredAreSwept == closing = "no" /\ retired # {} => \E r \in Request : Remains(r)

\* Where fibers do not yield, nobody takes a slot before the sweep decided upon.
SweepIsSafe == ~Yields => \A r \in Request : pc[r] = "sweeping" => slots.active = 0

BrowsersIInv ==
  /\ QueuesIInv /\ HoldersAreCounted
  /\ PagesAreInUse /\ LaunchIsAlone /\ OpenIsKnown /\ RetiredAreSwept /\ SweepIsSafe

\* What a step of a request may touch.
StepsWithin(r) ==
  /\ MayRun(r) /\ closing' = closing
  /\ \A s \in Request \ {r} : pc'[s] = pc[s] /\ on'[s] = on[s]
  /\ pc'[r] = "sweeping" => CheckIdle(r)
  /\ pc'[r] = "launching" => AcquireBrowser(r)
  /\ pc[r] = "checking" => CheckIdle(r)
  /\ pc[r] = "sweeping" => Sweep(r)
  /\ on'[r] # NoBrowser => pc'[r] \in {"opening", "opened", "using"}
  /\ UNCHANGED <<shared, retired, open>> \/ Launched(r) \/ Evict(r) \/ Sweep(r)

LEMMA StepsOfRequests ==
  ASSUME QueuesIInv, PagesAreInUse, NEW r \in Request, RequestSlot(r) \/ Proceed(r)
  PROVE  StepsWithin(r)
<1>0. /\ pc \in [Request -> Places] /\ on \in [Request -> Browser \cup {NoBrowser}]
      /\ on[r] # NoBrowser => pc[r] \in {"opening", "opened", "using"}
  BY DEF QueuesIInv, TypeOK, Places, PagesAreInUse
<1>1. CASE RequestSlot(r)
  BY <1>0, <1>1 DEF RequestSlot, Goto, StepsWithin
<1>2. CASE Enqueue(r) \/ WakeWithSlot(r)
  BY <1>0, <1>2 DEF Enqueue, WakeWithSlot, Goto, StepsWithin
<1>3. CASE RequestLock(r)
  <2>1. PICK place \in {"releasing", "allocating", "lockQueueing"} : Goto(r, place)
    BY <1>3 DEF RequestLock
  <2> QED BY <1>0, <1>3, <2>1 DEF RequestLock, Goto, StepsWithin
<1>4. CASE EnqueueForLock(r) \/ WakeWithLock(r)
  BY <1>0, <1>4 DEF EnqueueForLock, WakeWithLock, Goto, StepsWithin
<1>5. CASE AcquireBrowser(r)
  BY <1>0, <1>5 DEF AcquireBrowser, Goto, StepsWithin
<1>6. CASE Launched(r)
  <2>1. /\ Goto(r, "opening") /\ pc[r] = "launching" /\ MayRun(r)
        /\ UNCHANGED <<slots, lock, gates, retired, retried, closing, crashes>>
    BY <1>6 DEF Launched
  <2>2. \A s \in Request \ {r} : on'[s] = on[s]
    <3>1. PICK browser : on' = [on EXCEPT ![r] = browser]
      BY <1>6 DEF Launched
    <3> QED BY <1>0, <3>1
  <2> QED BY <1>0, <1>6, <2>1, <2>2 DEF Goto, StepsWithin
<1>7. CASE PageOpened(r)
  BY <1>0, <1>7 DEF PageOpened, Goto, StepsWithin
<1>8. ASSUME NEW retryable \in BOOLEAN, AllocationFailed(r, retryable) PROVE StepsWithin(r)
  BY <1>0, <1>8 DEF AllocationFailed, Goto, StepsWithin
<1>9. CASE Evict(r)
  BY <1>0, <1>9 DEF Evict, Goto, StepsWithin
<1>10. CASE ReleaseLock(r)
  BY <1>0, <1>10 DEF ReleaseLock, Goto, StepsWithin
<1>11. CASE EndUse(r)
  BY <1>0, <1>11 DEF EndUse, Goto, StepsWithin
<1>12. CASE ReleaseSlot(r)
  <2>1. /\ Goto(r, "checking") /\ pc[r] = "releasing" /\ MayRun(r)
        /\ UNCHANGED <<lock, shared, retired, open, on, retried, closing, crashes>>
    BY <1>12 DEF ReleaseSlot
  <2> QED BY <1>0, <2>1 DEF Goto, StepsWithin
<1>13. CASE CheckIdle(r) \/ Sweep(r)
  BY <1>0, <1>13 DEF CheckIdle, Sweep, Goto, StepsWithin
<1> QED BY <1>1, <1>2, <1>3, <1>4, <1>5, <1>6, <1>7, <1>8, <1>9, <1>10, <1>11, <1>12, <1>13
        DEF Proceed

\* What a shutdown or a crash may touch.
LEMMA StepsOfOthers ==
  ASSUME QueuesIInv, Stop \/ \E b \in Browser : Crash(b)
  PROVE  /\ pc' = pc /\ on' = on /\ slots.active' = slots.active
         /\ closing' = "no" => closing = "no"
         /\ \/ UNCHANGED <<shared, retired>> /\ open' \subseteq open
            \/ shared' = NoBrowser /\ retired' = {} /\ open' = open \ (retired \cup {shared})
<1>1. CASE StopSlots
  <2>1. slots' = [accepting |-> FALSE, active |-> slots.active, waiters |-> <<>>]
    BY <1>1 DEF StopSlots, QueuesIInv, TypeOK
  <2> QED BY <1>1, <2>1 DEF StopSlots
<1>2. CASE StopLock
  BY <1>2 DEF StopLock
<1>3. CASE StopBrowsers
  BY <1>3 DEF StopBrowsers
<1>4. CASE \E b \in Browser : Crash(b)
  BY <1>4 DEF Crash
<1> QED BY <1>1, <1>2, <1>3, <1>4 DEF Stop

LEMMA PagesStep ==
  ASSUME BrowsersIInv, [Next]_vars
  PROVE  PagesAreInUse'
<1>1. CASE pc' = pc /\ on' = on
  BY <1>1 DEF BrowsersIInv, PagesAreInUse
<1>2. ASSUME NEW r \in Request, RequestSlot(r) \/ Proceed(r) PROVE PagesAreInUse'
  <2>1. /\ \A s \in Request \ {r} : pc'[s] = pc[s] /\ on'[s] = on[s]
        /\ on'[r] # NoBrowser => pc'[r] \in {"opening", "opened", "using"}
    BY <1>2, StepsOfRequests DEF BrowsersIInv, StepsWithin
  <2> QED BY <2>1 DEF BrowsersIInv, PagesAreInUse
<1> QED BY <1>1, <1>2, StepsOfOthers DEF Next, vars, BrowsersIInv

\* A launch keeps its place for its browser, and what runs is known.
LEMMA LaunchStep ==
  ASSUME BrowsersIInv, [Next]_vars
  PROVE  LaunchIsAlone' /\ OpenIsKnown'
<1>0. /\ open \subseteq Browser /\ retired \subseteq Browser /\ NoBrowser \notin Browser
      /\ shared \in Browser \cup {NoBrowser}
      /\ LaunchIsAlone /\ OpenIsKnown
  BY PoolAssumption DEF BrowsersIInv, QueuesIInv, TypeOK
<1>1. CASE UNCHANGED vars
  BY <1>0, <1>1 DEF vars, LaunchIsAlone, OpenIsKnown
<1>2. CASE Stop \/ \E b \in Browser : Crash(b)
  <2>1. /\ pc' = pc
        /\ \/ UNCHANGED <<shared, retired>> /\ open' \subseteq open
           \/ shared' = NoBrowser /\ retired' = {} /\ open' = open \ (retired \cup {shared})
    BY <1>2, StepsOfOthers DEF BrowsersIInv
  <2>2. LaunchIsAlone'
    BY <1>0, <2>1 DEF LaunchIsAlone
  <2>3. OpenIsKnown'
    BY <1>0, <2>1 DEF OpenIsKnown
  <2> QED BY <2>2, <2>3
<1>3. ASSUME NEW r \in Request, RequestSlot(r) \/ Proceed(r)
      PROVE  LaunchIsAlone' /\ OpenIsKnown'
  <2>1. /\ \A s \in Request \ {r} : pc'[s] = pc[s]
        /\ pc'[r] = "launching" => AcquireBrowser(r)
        /\ UNCHANGED <<shared, retired, open>> \/ Launched(r) \/ Evict(r) \/ Sweep(r)
    BY <1>3, StepsOfRequests DEF BrowsersIInv, StepsWithin
  <2>2. CASE pc'[r] = "launching"
    <3>1. /\ ~Launching /\ shared = NoBrowser /\ UNCHANGED <<shared, retired, open>>
      <4>1. AcquireBrowser(r) /\ pc \in [Request -> Places]
        BY <2>1, <2>2 DEF BrowsersIInv, QueuesIInv, TypeOK, Places
      <4> QED BY <2>2, <4>1 DEF AcquireBrowser, Goto
    <3> QED BY <1>0, <2>1, <3>1 DEF Launching, LaunchIsAlone, OpenIsKnown
  <2>3. CASE pc'[r] # "launching"
    <3>1. CASE UNCHANGED <<shared, retired, open>>
      BY <1>0, <2>1, <2>3, <3>1 DEF LaunchIsAlone, OpenIsKnown
    <3>2. CASE Launched(r)
      <4>1. PICK browser : shared' = browser /\ open' = open \cup {browser}
        BY <3>2 DEF Launched
      <4>2. pc[r] = "launching" /\ retired' = retired
        BY <3>2 DEF Launched
      <4>3. shared = NoBrowser /\ \A s \in Request : pc[s] = "launching" => s = r
        BY <1>0, <4>2 DEF LaunchIsAlone
      <4> QED BY <1>0, <2>1, <2>3, <4>1, <4>2, <4>3 DEF LaunchIsAlone, OpenIsKnown
    <3>3. CASE Evict(r)
      <4>1. /\ shared' = NoBrowser
            /\ \/ retired' = retired \cup ({shared} \ {NoBrowser}) /\ open' = open
               \/ retired' = {} /\ open' = open \ (retired \cup ({shared} \ {NoBrowser}))
        BY <3>3 DEF Evict
      <4>2. LaunchIsAlone'
        BY <1>0, <2>1, <2>3, <4>1 DEF LaunchIsAlone
      <4>3. OpenIsKnown'
        BY <1>0, <4>1 DEF OpenIsKnown
      <4> QED BY <4>2, <4>3
    <3>4. CASE Sweep(r)
      <4>1. retired' = {} /\ open' = open \ retired /\ shared' = shared
        BY <3>4 DEF Sweep
      <4> QED BY <1>0, <2>1, <2>3, <4>1 DEF LaunchIsAlone, OpenIsKnown
    <3> QED BY <2>1, <3>1, <3>2, <3>3, <3>4
  <2> QED BY <2>2, <2>3
<1> QED BY <1>1, <1>2, <1>3 DEF Next

\* Who is left to sweep stays until there is nothing to sweep.
LEMMA SweepersStep ==
  ASSUME BrowsersIInv, [Next]_vars
  PROVE  RetiredAreSwept'
<1> SUFFICES ASSUME closing' = "no", retired' # {} PROVE \E s \in Request : Remains(s)'
  BY DEF RetiredAreSwept
<1>0. QueuesIInv /\ HoldersAreCounted /\ RetiredAreSwept
  BY DEF BrowsersIInv
<1>1. CASE UNCHANGED vars
  <2>1. closing = "no" /\ retired # {}
    BY <1>1 DEF vars
  <2>2. PICK s \in Request : Remains(s)
    BY <1>0, <2>1 DEF RetiredAreSwept
  <2> QED BY <1>1, <2>2 DEF vars, Remains, Granted
<1>2. CASE Stop \/ \E b \in Browser : Crash(b)
  <2>1. closing = "no" /\ retired # {} /\ pc' = pc
    BY <1>2, <1>0, StepsOfOthers
  <2>2. PICK s \in Request : Remains(s)
    BY <1>0, <2>1 DEF RetiredAreSwept
  <2>3. gates' = gates
    BY <1>2, <2>1 DEF Stop, StopSlots, StopLock, StopBrowsers, Crash
  <2> QED BY <2>1, <2>2, <2>3 DEF Remains, Granted
<1>3. ASSUME NEW r \in Request, RequestSlot(r) \/ Proceed(r)
      PROVE  \E s \in Request : Remains(s)'
  <2>1. StepsWithin(r)
    BY <1>3, StepsOfRequests DEF BrowsersIInv
  <2>2. CASE Evict(r)
    <3>1. pc'[r] = "allocating"
      BY <1>0, <2>2 DEF Evict, Goto, QueuesIInv, TypeOK
    <3> QED BY <3>1 DEF Remains, Granted
  <2>3. CASE ReleaseSlot(r)
    <3>1. pc'[r] = "checking"
      BY <1>0, <2>3 DEF ReleaseSlot, Goto, QueuesIInv, TypeOK
    <3> QED BY <3>1 DEF Remains
  <2>4. CASE CheckIdle(r)
    <3>1. CASE slots.active > 0
      <4>1. slots.accepting /\ slots' = slots /\ gates' = gates
        BY <1>0, <2>4 DEF CheckIdle, QueuesIInv, ClosingIsKnown
      <4>2. Holders # {}
        BY <1>0, <3>1, <4>1, FS_EmptySet DEF HoldersAreCounted
      <4>3. PICK s \in Request : Granted(s)
        BY <4>2 DEF Holders
      <4>4. s # r /\ pc'[s] = pc[s]
        BY <2>1, <2>4, <4>3 DEF StepsWithin, CheckIdle, Granted
      <4> QED BY <4>1, <4>3, <4>4 DEF Remains, Granted
    <3>2. CASE ~(slots.active > 0)
      <4>1. pc'[r] = "sweeping"
        BY <1>0, <2>4, <3>2 DEF CheckIdle, Goto, QueuesIInv, TypeOK
      <4> QED BY <4>1 DEF Remains
    <3> QED BY <3>1, <3>2
  <2>5. CASE ~Evict(r) /\ ~ReleaseSlot(r) /\ ~CheckIdle(r)
    <3>1. closing = "no" /\ ~Sweep(r)
      BY <2>1 DEF StepsWithin, Sweep
    <3>2. retired' = retired
      BY <2>1, <2>5, <3>1 DEF StepsWithin, Launched
    <3>3. PICK s \in Request : Remains(s)
      BY <1>0, <3>1, <3>2 DEF RetiredAreSwept
    <3>4. CASE pc[s] \in {"checking", "sweeping"}
      <4>1. s # r
        BY <2>1, <2>5, <3>1, <3>4 DEF StepsWithin
      <4> QED BY <2>1, <3>4, <4>1 DEF StepsWithin, Remains
    <3>5. CASE Granted(s)
      <4>1. slots.accepting' /\ ~\E t \in Request : ReleaseSlot(t)
        <5>1. slots.accepting'
          BY <1>0, QueuesStepHolds DEF QueuesIInv, ClosingIsKnown
        <5>2. ASSUME NEW t \in Request, ReleaseSlot(t) PROVE FALSE
          <6>1. pc[t] = "releasing" /\ pc'[t] = "checking"
            BY <1>0, <5>2 DEF ReleaseSlot, Goto, QueuesIInv, TypeOK
          <6>2. t = r
            BY <2>1, <6>1 DEF StepsWithin
          <6> QED BY <2>5, <5>2, <6>2
        <5> QED BY <5>1, <5>2
      <4>2. Granted(s)'
        BY <1>0, <1>3, <3>5, <4>1, StepsOfHolders DEF HoldersStay, SlotIsTaken, Next
      <4> QED BY <4>2 DEF Remains
    <3> QED BY <3>3, <3>4, <3>5 DEF Remains
  <2> QED BY <2>2, <2>3, <2>4, <2>5
<1> QED BY <1>1, <1>2, <1>3 DEF Next

LEMMA SweepStep ==
  ASSUME BrowsersIInv, [Next]_vars
  PROVE  SweepIsSafe'
<1>0. QueuesIInv /\ SweepIsSafe
  BY DEF BrowsersIInv
<1>1. CASE UNCHANGED vars
  BY <1>0, <1>1 DEF vars, SweepIsSafe
<1>2. CASE Stop \/ \E b \in Browser : Crash(b)
  <2>1. pc' = pc /\ slots.active' = slots.active
    BY <1>0, <1>2, StepsOfOthers
  <2> QED BY <1>0, <2>1 DEF SweepIsSafe
<1>3. ASSUME NEW r \in Request, RequestSlot(r) \/ Proceed(r) PROVE SweepIsSafe'
  <2>1. StepsWithin(r)
    BY <1>3, StepsOfRequests DEF BrowsersIInv
  <2> SUFFICES ASSUME ~Yields, NEW t \in Request, pc'[t] = "sweeping" PROVE slots.active' = 0
    BY DEF SweepIsSafe
  <2>2. t = r
    BY <2>1 DEF StepsWithin, MayRun, Suspended
  <2>3. CheckIdle(r)
    BY <2>1, <2>2 DEF StepsWithin
  <2>4. slots' = slots /\ ~(slots.active > 0) /\ slots.active \in Nat
    <3>1. slots.active \in Nat
      BY <1>0, Typed DEF QueuesIInv
    <3>2. pc'[r] = IF slots.active > 0 THEN "idle" ELSE "sweeping"
      BY <1>0, <2>3 DEF CheckIdle, Goto, QueuesIInv, TypeOK
    <3> QED BY <2>2, <2>3, <3>1, <3>2 DEF CheckIdle
  <2> QED BY <2>4
<1> QED BY <1>1, <1>2, <1>3 DEF Next

LEMMA BrowsersStep == BrowsersIInv /\ [Next]_vars => BrowsersIInv'
BY QueuesStepHolds, CountsStep, PagesStep, LaunchStep, SweepersStep, SweepStep DEF BrowsersIInv

LEMMA BrowsersInitially == Init => BrowsersIInv
<1> SUFFICES ASSUME Init PROVE BrowsersIInv
  OBVIOUS
<1>1. PagesAreInUse /\ LaunchIsAlone /\ OpenIsKnown /\ RetiredAreSwept /\ SweepIsSafe
  BY DEF Init, PagesAreInUse, LaunchIsAlone, OpenIsKnown, RetiredAreSwept, SweepIsSafe
<1> QED BY <1>1, QueuesInitially, CountsInitially DEF BrowsersIInv

LEMMA BrowsersAlways == Spec => []BrowsersIInv
BY BrowsersInitially, BrowsersStep, PTL DEF Spec

\* When nobody is being served, only the shared browser of an open pool runs: a retired
\* browser is left open only while somebody is about to sweep it.
THEOREM NoBrowserIsForgotten == Spec => []NoForgottenBrowser
<1>1. BrowsersIInv => NoForgottenBrowser
  BY DEF BrowsersIInv, OpenIsKnown, RetiredAreSwept, Remains, Granted,
         NoForgottenBrowser, Served
<1> QED BY <1>1, BrowsersAlways, PTL

\* The limits of contexts and pages hold at any time, also while the pool closes: an
\* allocation, a grant or a shutdown never leaves more pages than there are slots.
PagesFitTheLimit == Cardinality({r \in Request : on[r] # NoBrowser}) <= MaxSlots

THEOREM PagesAlwaysFitTheLimit == Spec => []PagesFitTheLimit
<1>1. ASSUME BrowsersIInv PROVE PagesFitTheLimit
  <2> DEFINE Pages == {r \in Request : on[r] # NoBrowser}
  <2>1. Pages \subseteq Users
    BY <1>1 DEF BrowsersIInv, PagesAreInUse, Users, InUse
  <2>2. /\ IsFiniteSet(Users) /\ Cardinality(Users) \in Nat
        /\ Cardinality(Users) <= slots.active
    BY <1>1, UsersAreCounted DEF BrowsersIInv
  <2>3. Cardinality(Pages) \in Nat /\ Cardinality(Pages) <= Cardinality(Users)
    BY <2>1, <2>2, FS_Subset, FS_CardinalityType
  <2>4. slots.active \in 0..MaxSlots /\ MaxSlots \in Nat
    BY <1>1, Typed DEF BrowsersIInv, QueuesIInv
  <2> HIDE DEF Pages
  <2>5. Cardinality(Pages) <= MaxSlots
    BY <2>2, <2>3, <2>4
  <2> QED BY <2>5 DEF Pages, PagesFitTheLimit
<1> QED BY <1>1, BrowsersAlways, PTL

\* Where fibers switch only where they suspend, only a crash or the shutdown takes a
\* browser away from a page in use.
THEOREM UsedBrowsersAreKept ==
  ASSUME ~Yields
  PROVE  Spec => UsedBrowsersStayOpen
<1>1. ASSUME BrowsersIInv, [Next]_vars, NEW r \in Request,
             pc[r] = "using", pc'[r] = "using", on[r] \in open
      PROVE  on[r] \in open' \/ crashes' # crashes \/ closing' # closing
  <2>1. slots.active > 0
    <3>1. IsFiniteSet(Users) /\ Cardinality(Users) \in Nat /\ Cardinality(Users) <= slots.active
      BY <1>1, UsersAreCounted DEF BrowsersIInv
    <3>2. r \in Users
      BY <1>1 DEF Users, InUse
    <3>3. Cardinality(Users) # 0
      BY <3>1, <3>2, FS_EmptySet
    <3>4. slots.active \in Nat
      BY <1>1, Typed DEF BrowsersIInv, QueuesIInv
    <3> QED BY <3>1, <3>3, <3>4
  <2>2. CASE open' = open
    BY <1>1, <2>2
  <2>3. CASE Stop
    BY <1>1, <2>3 DEF Stop, StopSlots, StopLock, StopBrowsers
  <2>4. CASE \E b \in Browser : Crash(b)
    <3>1. crashes' = crashes + 1 /\ crashes \in Nat
      <4>1. crashes \in Nat
        BY <1>1, PoolAssumption DEF BrowsersIInv, QueuesIInv, TypeOK
      <4> QED BY <2>4, <4>1 DEF Crash
    <3> QED BY <3>1
  <2>5. ASSUME NEW s \in Request, RequestSlot(s) \/ Proceed(s) PROVE on[r] \in open'
    <3>1. open' = open \/ Launched(s) \/ Evict(s) \/ Sweep(s)
      BY <1>1, <2>5, StepsOfRequests DEF BrowsersIInv, StepsWithin
    <3>2. CASE Launched(s)
      <4>1. PICK browser : open' = open \cup {browser}
        BY <3>2 DEF Launched
      <4> QED BY <1>1, <4>1
    <3>3. CASE Evict(s)
      BY <1>1, <2>1, <3>3 DEF Evict
    <3>4. ~Sweep(s)
      BY <2>1, <1>1 DEF Sweep, BrowsersIInv, SweepIsSafe
    <3> QED BY <1>1, <3>1, <3>2, <3>3, <3>4
  <2> QED BY <1>1, <2>2, <2>3, <2>4, <2>5 DEF Next, vars
<1>2. BrowsersIInv /\ [Next]_vars =>
        [\A r \in Request :
           pc[r] = "using" /\ pc'[r] = "using" /\ on[r] \in open
             => on[r] \in open' \/ crashes' # crashes \/ closing' # closing]_vars
  BY <1>1
<1> QED BY <1>2, BrowsersAlways, PTL DEF Spec, UsedBrowsersStayOpen

\* Where fibers do not yield, whoever queues or is queued found every slot taken.
QueuedMeansFull ==
  ~Yields =>
    /\ slots.waiters # <<>> => slots.active = MaxSlots
    /\ \A r \in Request : pc[r] = "queueing" /\ slots.accepting => slots.active = MaxSlots

LEMMA FullStep ==
  ASSUME BrowsersIInv, QueuedMeansFull, [Next]_vars
  PROVE  QueuedMeansFull'
<1> SUFFICES ASSUME ~Yields
             PROVE  /\ slots'.waiters # <<>> => slots'.active = MaxSlots
                    /\ \A r \in Request :
                         pc'[r] = "queueing" /\ slots'.accepting => slots'.active = MaxSlots
  BY DEF QueuedMeansFull
<1>0. /\ QueuesIInv /\ slots.active \in 0..MaxSlots /\ MaxSlots \in Nat \ {0}
      /\ slots.waiters \in Seq(Request) /\ pc \in [Request -> Places]
      /\ slots = [accepting |-> slots.accepting, active |-> slots.active,
                  waiters |-> slots.waiters]
      /\ slots.waiters # <<>> => slots.active = MaxSlots
      /\ \A r \in Request : pc[r] = "queueing" /\ slots.accepting => slots.active = MaxSlots
  BY Typed DEF BrowsersIInv, QueuesIInv, TypeOK, Places, QueuedMeansFull
<1>1. CASE UNCHANGED <<slots, pc>>
  BY <1>0, <1>1
<1>2. CASE StopSlots
  <2>1. slots' = [accepting |-> FALSE, active |-> slots.active, waiters |-> <<>>]
    BY <1>0, <1>2 DEF StopSlots
  <2> QED BY <2>1
<1>3. CASE StopLock \/ StopBrowsers \/ \E b \in Browser : Crash(b)
  BY <1>1, <1>3 DEF StopLock, StopBrowsers, Crash
<1>4. ASSUME NEW r \in Request, RequestSlot(r) \/ Proceed(r)
      PROVE  /\ slots'.waiters # <<>> => slots'.active = MaxSlots
             /\ \A s \in Request :
                  pc'[s] = "queueing" /\ slots'.accepting => slots'.active = MaxSlots
  <2>1. StepsWithin(r)
    BY <1>4, StepsOfRequests DEF BrowsersIInv
  <2>2. \A s \in Request \ {r} : pc'[s] # "queueing"
    BY <2>1 DEF StepsWithin, MayRun, Suspended
  <2>3. CASE RequestSlot(r)
    <3>1. CASE /\ slots.accepting /\ slots.waiters = <<>> /\ HasCapacity(slots)
               /\ slots' = [slots EXCEPT !.active = @ + 1] /\ Goto(r, "locking")
      <4>1. /\ pc'[r] = "locking"
            /\ slots' = [accepting |-> slots.accepting, active |-> slots.active + 1,
                         waiters |-> slots.waiters]
        BY <1>0, <3>1 DEF Goto
      <4> QED BY <2>2, <3>1, <4>1
    <3>2. CASE /\ slots.waiters # <<>> \/ ~HasCapacity(slots)
               /\ Goto(r, "queueing") /\ UNCHANGED slots
      <4>1. slots.active = MaxSlots
        BY <1>0, <3>2 DEF HasCapacity
      <4> QED BY <3>2, <4>1
    <3>3. CASE UNCHANGED <<slots, pc>>
      BY <1>1, <3>3
    <3> QED BY <2>3, <3>1, <3>2, <3>3 DEF RequestSlot
  <2>4. CASE Enqueue(r)
    <3>1. pc'[r] # "queueing"
      BY <1>0, <2>4 DEF Enqueue, Goto
    <3>2. CASE slots.accepting
      <4>1. slots.active = MaxSlots
        BY <1>0, <2>4, <3>2 DEF Enqueue
      <4>2. slots'.active = slots.active
        BY <1>0, <2>4 DEF Enqueue
      <4> QED BY <4>1, <4>2
    <3>3. CASE ~slots.accepting
      BY <1>0, <2>2, <2>4, <3>1, <3>3 DEF Enqueue
    <3> QED BY <3>2, <3>3
  <2>5. CASE ReleaseSlot(r)
    <3>1. PICK n \in Nat, rest \in Nat :
            /\ n <= Len(slots.waiters) /\ (n > 0 => slots.accepting)
            /\ slots.accepting => n = Len(slots.waiters) \/ rest + n = MaxSlots
            /\ slots' = [accepting |-> slots.accepting, active |-> rest + n,
                         waiters |-> SubSeq(slots.waiters, n + 1, Len(slots.waiters))]
      BY <1>0, <2>5, ReleaseGrants DEF QueuesIInv
    <3>2. pc'[r] = "checking"
      BY <1>0, <2>5 DEF ReleaseSlot, Goto
    <3>3. slots'.waiters # <<>> => slots'.active = MaxSlots
      <4>1. CASE n = Len(slots.waiters)
        <5>1. slots'.waiters = <<>>
          BY <1>0, <3>1, <4>1
        <5> QED BY <5>1
      <4>2. CASE slots.accepting /\ rest + n = MaxSlots
        BY <3>1, <4>2
      <4>3. CASE ~slots.accepting
        <5>1. n = Len(slots.waiters)
          BY <1>0, <3>1, <4>3 DEF QueuesIInv, ClosingIsKnown
        <5> QED BY <4>1, <5>1
      <4> QED BY <3>1, <4>1, <4>2, <4>3
    <3> QED BY <2>2, <3>2, <3>3
  <2>6. CASE ~RequestSlot(r) /\ ~Enqueue(r) /\ ~ReleaseSlot(r)
    <3>1. slots' = slots /\ pc'[r] # "queueing"
      BY <1>0, <1>4, <2>6
         DEF Proceed, WakeWithSlot, RequestLock, EnqueueForLock, WakeWithLock, AcquireBrowser,
             Launched, PageOpened, AllocationFailed, Evict, ReleaseLock, EndUse, CheckIdle,
             Sweep, Goto
    <3> QED BY <1>0, <2>2, <3>1
  <2> QED BY <2>3, <2>4, <2>5, <2>6
<1> QED BY <1>1, <1>2, <1>3, <1>4 DEF Next, Stop, vars

\* Where fibers switch only where they suspend, nobody is queued in a pool that serves
\* nobody: the look at the capacity and the place in the queue cannot be separated.
THEOREM NoWaiterIsForgotten ==
  ASSUME ~Yields
  PROVE  Spec => []NoForgottenWaiter
<1>1. Init => QueuedMeansFull
  BY DEF Init, QueuedMeansFull
<1>2. ASSUME BrowsersIInv, QueuedMeansFull PROVE NoForgottenWaiter
  <2> SUFFICES ASSUME \A r \in Request : ~Served(r), gates = {}, slots.waiters # <<>>
               PROVE FALSE
    BY DEF NoForgottenWaiter
  <2>1. slots.accepting /\ slots.active = MaxSlots /\ MaxSlots \in Nat \ {0}
    BY <1>2, Typed DEF QueuedMeansFull, BrowsersIInv, QueuesIInv, ClosingIsKnown
  <2>2. Holders = {}
    BY DEF Holders, Granted, Served
  <2> QED BY <1>2, <2>1, <2>2, FS_EmptySet DEF BrowsersIInv, HoldersAreCounted
<1> QED BY <1>1, <1>2, BrowsersAlways, FullStep, PTL DEF Spec
=============================================================================
