--------------------------- MODULE WorkClaimStore ---------------------------
(***************************************************************************)
(* A workflow work-claim store shared by several claimants.  Each action   *)
(* is one call of the store: claim, renew, complete and release read and   *)
(* rewrite one record atomically.  The SQLite store commits before it      *)
(* reads the record back, so a call may take effect and still fail for its *)
(* caller: every call has an outcome "answered" or "lost".  A claimant     *)
(* whose call fails abandons the work.                                     *)
(*                                                                         *)
(* belief and finisher are history variables for what the answers let the  *)
(* claimants conclude: how long each may still work undisturbed, and who   *)
(* has been told that its completion was stored.                           *)
(***************************************************************************)
EXTENDS WorkClaims

CONSTANTS Key,       \* run id and dedupe key of a piece of work
          Sequence,  \* the checkpoint sequences claims are made for
          TTL        \* the lease durations claims and renewals ask for

ASSUME SequenceAssumption == Sequence \subseteq Nat
ASSUME TTLAssumption == TTL \subseteq Nat \ {0}

Reply == {"answered", "lost"}

VARIABLES claims,    \* [Key -> WorkClaimRecord], the Map or the table
          belief,    \* [ClaimId -> [Key -> Nat]], lease a claimant counts on
          finisher   \* [Key -> SUBSET ClaimId], told that they completed it

vars == <<claims, belief, finisher>>

TypeOK ==
  /\ claims \in [Key -> WorkClaimRecord]
  /\ belief \in [ClaimId -> [Key -> Nat]]
  /\ finisher \in [Key -> SUBSET ClaimId]

Init ==
  /\ claims = [k \in Key |-> AbsentRecord]
  /\ belief = [id \in ClaimId |-> [k \in Key |-> 0]]
  /\ finisher = [k \in Key |-> {}]

\* The claimant of k counts on its lease for n more instants.
Believe(id, k, n) == belief' = [belief EXCEPT ![id][k] = n]

-----------------------------------------------------------------------------
\* claim, answered "acquired".
Acquire(id, k, sequence, ttl, reply) ==
  /\ ClaimDecision(claims[k], id, sequence) = "acquired"
  /\ claims' = [claims EXCEPT ![k] = GrantedRecord(@, id, sequence, ttl)]
  /\ Believe(id, k, IF reply = "answered" THEN ttl ELSE 0)
  /\ UNCHANGED finisher

\* claim, with any other decision: the record stands, the claimant stops.
Refuse(id, k, sequence) ==
  /\ ClaimDecision(claims[k], id, sequence) # "acquired"
  /\ Believe(id, k, 0)
  /\ UNCHANGED <<claims, finisher>>

\* renew; None tells the claimant that it lost the work.
Renew(id, k, ttl, reply) ==
  /\ claims' = IF CanRenew(claims[k], id)
               THEN [claims EXCEPT ![k] = RenewedRecord(@, ttl)]
               ELSE claims
  /\ Believe(id, k, IF CanRenew(claims[k], id) /\ reply = "answered"
                    THEN ttl ELSE 0)
  /\ UNCHANGED finisher

\* complete; Some tells the claimant that the work is finished as its own.
Complete(id, k, output, reply) ==
  /\ claims' = IF CanComplete(claims[k], id)
               THEN [claims EXCEPT ![k] = CompletedRecord(@, output)]
               ELSE claims
  /\ finisher' = IF CanComplete(claims[k], id) /\ reply = "answered"
                 THEN [finisher EXCEPT ![k] = @ \cup {id}]
                 ELSE finisher
  /\ Believe(id, k, 0)

\* release; the claimant stops whatever the answer.
Release(id, k) ==
  /\ claims' = IF CanRelease(claims[k], id)
               THEN [claims EXCEPT ![k] = ReleasedRecord(@)]
               ELSE claims
  /\ Believe(id, k, 0)
  /\ UNCHANGED finisher

\* One instant passes, for the records and for what the claimants count on.
Tick ==
  /\ claims' = [k \in Key |-> Aged(claims[k])]
  /\ belief' = [id \in ClaimId |->
                 [k \in Key |-> IF belief[id][k] = 0 THEN 0
                                ELSE belief[id][k] - 1]]
  /\ UNCHANGED finisher

Next ==
  \/ \E id \in ClaimId, k \in Key, sequence \in Sequence :
       \/ \E ttl \in TTL, reply \in Reply : Acquire(id, k, sequence, ttl, reply)
       \/ Refuse(id, k, sequence)
  \/ \E id \in ClaimId, k \in Key :
       \/ \E ttl \in TTL, reply \in Reply : Renew(id, k, ttl, reply)
       \/ \E output \in Output, reply \in Reply : Complete(id, k, output, reply)
       \/ Release(id, k)
  \/ Tick

Spec == Init /\ [][Next]_vars

-----------------------------------------------------------------------------
\* Two claimants that both count on their lease never hold the same work:
\* the expiry test of claim and of renew is the only thing that keeps a
\* takeover from overlapping the holder it replaces.
LeaseExclusion ==
  \A k \in Key : \A a, b \in ClaimId :
    belief[a][k] > 0 /\ belief[b][k] > 0 => a = b

\* At most one claimant is ever told that its completion was stored, even
\* when it completed after its lease expired or when an answer was lost.
SingleFinisher ==
  \A k \in Key : \A a, b \in finisher[k] : a = b

\* A claimant was told that it finished the work only if the record is
\* completed, under its id and with an output; only completed records have one.
FinishedIsStored ==
  \A k \in Key :
    /\ \A id \in finisher[k] :
         claims[k].status = "completed" /\ claims[k].claimId = id
    /\ claims[k].status = "completed" <=> claims[k].output # NoOutput

\* A completed record is final but for the remains of its lease: no claim,
\* late completion or release changes its owner or its output.
CompletedForever ==
  [][\A k \in Key :
       claims[k].status = "completed" =>
         claims'[k] = [claims[k] EXCEPT !.lease = claims'[k].lease]]_vars

\* Work claimed for a later checkpoint is never handed to a claimant that
\* still works from an earlier one, through releases and takeovers alike.
SequenceNeverDecreases ==
  [][\A k \in Key : claims[k].sequence <= claims'[k].sequence]_vars

\* The store implements the abstract lease: an unexpired claimed record is a
\* holder, a completion's output is the result.
Holding(rec) == rec.status = "claimed" /\ ~IsExpired(rec)

Abstract == INSTANCE LeaseOnce WITH
  Work       <- Key,
  Worker     <- ClaimId,
  Free       <- NoClaim,
  Unfinished <- NoOutput,
  holder     <- [k \in Key |-> IF Holding(claims[k]) THEN claims[k].claimId
                               ELSE NoClaim],
  result     <- [k \in Key |-> claims[k].output]

\* Every behaviour of the store is one of the abstract lease.
ImplementsLeaseOnce == Abstract!Spec
=============================================================================
