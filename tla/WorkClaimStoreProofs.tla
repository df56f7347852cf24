------------------------ MODULE WorkClaimStoreProofs ------------------------
(***************************************************************************)
(* Proofs about the work-claim store for any set of claims, keys, outputs, *)
(* sequences and lease durations: its type invariant, the exclusion of     *)
(* overlapping leases, the single finisher, the permanence of completions, *)
(* and that it implements LeaseOnce.                                       *)
(***************************************************************************)
EXTENDS WorkClaimStore, TLAPS

\* What a claimant counts on is backed by a record that is still its own and
\* that lives at least as long.  This is what makes LeaseExclusion inductive.
BeliefBacked ==
  \A k \in Key, id \in ClaimId :
    belief[id][k] > 0 =>
      /\ claims[k].status = "claimed"
      /\ claims[k].claimId = id
      /\ belief[id][k] <= claims[k].lease

\* A record that does not exist yet has no history.
AbsentIsBlank ==
  \A k \in Key : claims[k].status = "absent" => claims[k] = AbsentRecord

IInv == TypeOK /\ BeliefBacked /\ FinishedIsStored /\ AbsentIsBlank

-----------------------------------------------------------------------------
\* The records that the operations build are records of the store.
LEMMA RecordsTyped ==
  ASSUME NEW rec \in WorkClaimRecord, NEW id \in ClaimId, NEW sequence \in Nat,
         NEW ttl \in Nat, NEW output \in Output
  PROVE  /\ AbsentRecord \in WorkClaimRecord
         /\ Aged(rec) \in WorkClaimRecord
         /\ GrantedRecord(rec, id, sequence, ttl) \in WorkClaimRecord
         /\ RenewedRecord(rec, ttl) \in WorkClaimRecord
         /\ CompletedRecord(rec, output) \in WorkClaimRecord
         /\ ReleasedRecord(rec) \in WorkClaimRecord
<1> USE DEF WorkClaimRecord, Status
<1>1. AbsentRecord \in WorkClaimRecord
  BY DEF AbsentRecord
<1>2. Aged(rec) \in WorkClaimRecord
  BY DEF Aged
<1>3. GrantedRecord(rec, id, sequence, ttl) \in WorkClaimRecord
  BY DEF GrantedRecord, RefreshedRecord, ClaimedRecord
<1>4. RenewedRecord(rec, ttl) \in WorkClaimRecord
  BY DEF RenewedRecord
<1>5. CompletedRecord(rec, output) \in WorkClaimRecord
  BY DEF CompletedRecord
<1>6. ReleasedRecord(rec) \in WorkClaimRecord
  BY DEF ReleasedRecord
<1> QED BY <1>1, <1>2, <1>3, <1>4, <1>5, <1>6

\* The initial state is well typed.
LEMMA InitTyped == Init => TypeOK
<1> SUFFICES ASSUME Init PROVE TypeOK
  OBVIOUS
<1>1. AbsentRecord \in WorkClaimRecord
  BY DEF AbsentRecord, WorkClaimRecord, Status
<1> QED BY <1>1 DEF Init, TypeOK

\* Every call and the passing of time keep the state well typed.
LEMMA NextTyped == TypeOK /\ [Next]_vars => TypeOK'
<1> SUFFICES ASSUME TypeOK, [Next]_vars PROVE TypeOK'
  OBVIOUS
<1> USE DEF TypeOK, Believe
<1>1. ASSUME NEW id \in ClaimId, NEW k \in Key, NEW sequence \in Sequence,
             NEW ttl \in TTL, NEW reply \in Reply,
             Acquire(id, k, sequence, ttl, reply)
      PROVE  TypeOK'
  <2>1. sequence \in Nat /\ ttl \in Nat
    BY SequenceAssumption, TTLAssumption
  <2>2. claims[k] \in WorkClaimRecord
    OBVIOUS
  <2>3. GrantedRecord(claims[k], id, sequence, ttl) \in WorkClaimRecord
    BY <2>1, <2>2 DEF WorkClaimRecord, Status, GrantedRecord, RefreshedRecord,
                      ClaimedRecord
  <2> QED BY <1>1, <2>1, <2>3 DEF Acquire
<1>2. ASSUME NEW id \in ClaimId, NEW k \in Key, NEW sequence \in Sequence,
             Refuse(id, k, sequence)
      PROVE  TypeOK'
  BY <1>2 DEF Refuse
<1>3. ASSUME NEW id \in ClaimId, NEW k \in Key, NEW ttl \in TTL,
             NEW reply \in Reply, Renew(id, k, ttl, reply)
      PROVE  TypeOK'
  <2>1. ttl \in Nat
    BY TTLAssumption
  <2>2. RenewedRecord(claims[k], ttl) \in WorkClaimRecord
    BY <2>1 DEF WorkClaimRecord, RenewedRecord
  <2> QED BY <1>3, <2>1, <2>2 DEF Renew
<1>4. ASSUME NEW id \in ClaimId, NEW k \in Key, NEW output \in Output,
             NEW reply \in Reply, Complete(id, k, output, reply)
      PROVE  TypeOK'
  <2>1. CompletedRecord(claims[k], output) \in WorkClaimRecord
    BY DEF WorkClaimRecord, Status, CompletedRecord
  <2>2. claims' \in [Key -> WorkClaimRecord]
    BY <1>4, <2>1 DEF Complete
  <2>3. finisher' \in [Key -> SUBSET ClaimId]
    BY <1>4 DEF Complete
  <2>4. belief' \in [ClaimId -> [Key -> Nat]]
    BY <1>4 DEF Complete
  <2> QED BY <2>2, <2>3, <2>4
<1>5. ASSUME NEW id \in ClaimId, NEW k \in Key, Release(id, k)
      PROVE  TypeOK'
  <2>1. ReleasedRecord(claims[k]) \in WorkClaimRecord
    BY DEF WorkClaimRecord, Status, ReleasedRecord
  <2> QED BY <1>5, <2>1 DEF Release
<1>6. CASE Tick
  <2>1. \A k \in Key : Aged(claims[k]) \in WorkClaimRecord
    BY DEF WorkClaimRecord, Aged
  <2>2. claims' \in [Key -> WorkClaimRecord]
    BY <1>6, <2>1 DEF Tick
  <2>3. \A id \in ClaimId, k \in Key :
          (IF belief[id][k] = 0 THEN 0 ELSE belief[id][k] - 1) \in Nat
    OBVIOUS
  <2>4. belief' \in [ClaimId -> [Key -> Nat]]
    BY ONLY <1>6, <2>3 DEF Tick
  <2> QED BY <1>6, <2>2, <2>4 DEF Tick
<1>7. CASE UNCHANGED vars
  BY <1>7 DEF vars
<1> QED BY <1>1, <1>2, <1>3, <1>4, <1>5, <1>6, <1>7 DEF Next

\* The store's variables always have their types.
THEOREM Typing == Spec => []TypeOK
  BY InitTyped, NextTyped, PTL DEF Spec

-----------------------------------------------------------------------------
\* The initial state satisfies the inductive invariant.
LEMMA InitInvariant == Init => IInv
<1> SUFFICES ASSUME Init PROVE IInv
  OBVIOUS
<1>1. TypeOK
  BY InitTyped
<1>2. BeliefBacked /\ FinishedIsStored /\ AbsentIsBlank
  BY DEF Init, BeliefBacked, FinishedIsStored, AbsentIsBlank, AbsentRecord
<1> QED BY <1>1, <1>2 DEF IInv

\* Every step preserves it.  A call touches one record and the belief of one
\* claimant about it, so each part is argued at that key; elsewhere nothing
\* changes.
LEMMA NextInvariant == IInv /\ [Next]_vars => IInv'
<1> SUFFICES ASSUME IInv, [Next]_vars PROVE IInv'
  OBVIOUS
<1>1. TypeOK /\ TypeOK'
  BY NextTyped DEF IInv
<1>2. ASSUME NEW k \in Key PROVE claims[k] \in WorkClaimRecord
  BY <1>1 DEF TypeOK
<1>3. ASSUME NEW k \in Key, NEW id \in ClaimId PROVE belief[id][k] \in Nat
  BY <1>1 DEF TypeOK
<1>4. ASSUME NEW id \in ClaimId, NEW k \in Key, NEW sequence \in Sequence,
             NEW ttl \in TTL, NEW reply \in Reply,
             Acquire(id, k, sequence, ttl, reply)
      PROVE  IInv'
  <2>1. ttl \in Nat /\ ttl > 0
    BY TTLAssumption
  <2>2. /\ claims'[k].status = "claimed"
        /\ claims'[k].claimId = id
        /\ claims'[k].lease = ttl
        /\ claims'[k].output = claims[k].output
        /\ \A j \in Key : j # k => claims'[j] = claims[j]
    BY <1>1, <1>2, <1>4 DEF Acquire, GrantedRecord, RefreshedRecord,
       ClaimedRecord, TypeOK, WorkClaimRecord
  <2>3. claims[k].status # "completed"
    BY <1>4 DEF Acquire, ClaimDecision
  <2>4. \A other \in ClaimId : belief[other][k] > 0 => other = id
    <3>1. CASE claims[k].status = "claimed" /\ claims[k].claimId # id
      <4>1. claims[k].lease = 0
        BY <1>2, <1>4, <2>1, <3>1, SequenceAssumption
        DEF Acquire, ClaimDecision, IsExpired, WorkClaimRecord
      <4> QED BY <4>1, <1>3 DEF IInv, BeliefBacked
    <3> QED BY <3>1 DEF IInv, BeliefBacked
  <2>5. BeliefBacked'
    BY <1>1, <1>3, <1>4, <2>1, <2>2, <2>4
    DEF IInv, BeliefBacked, Acquire, Believe, TypeOK
  <2>6. FinishedIsStored'
    BY <1>4, <2>2, <2>3 DEF IInv, FinishedIsStored, Acquire
  <2>7. AbsentIsBlank'
    BY <2>2 DEF IInv, AbsentIsBlank
  <2> QED BY <1>1, <2>5, <2>6, <2>7 DEF IInv
<1>5. ASSUME NEW id \in ClaimId, NEW k \in Key, NEW sequence \in Sequence,
             Refuse(id, k, sequence)
      PROVE  IInv'
  BY <1>1, <1>5 DEF Refuse, Believe, IInv, TypeOK, BeliefBacked,
     FinishedIsStored, AbsentIsBlank
<1>6. ASSUME NEW id \in ClaimId, NEW k \in Key, NEW ttl \in TTL,
             NEW reply \in Reply, Renew(id, k, ttl, reply)
      PROVE  IInv'
  <2>1. ttl \in Nat /\ ttl > 0
    BY TTLAssumption
  <2>2. CASE CanRenew(claims[k], id)
    <3>1. /\ claims'[k] = [claims[k] EXCEPT !.lease = ttl]
          /\ \A j \in Key : j # k => claims'[j] = claims[j]
      BY <1>1, <1>6, <2>2 DEF Renew, RenewedRecord, TypeOK
    <3>2. /\ claims'[k].status = claims[k].status
          /\ claims'[k].claimId = claims[k].claimId
          /\ claims'[k].output = claims[k].output
          /\ claims'[k].lease = ttl
      BY <1>2, <3>1 DEF WorkClaimRecord
    <3>3. BeliefBacked'
      BY <1>1, <1>3, <1>6, <2>1, <2>2, <3>1, <3>2
      DEF IInv, BeliefBacked, Renew, CanRenew, Believe, TypeOK
    <3>4. FinishedIsStored' /\ AbsentIsBlank'
      BY <1>6, <2>2, <3>1, <3>2
      DEF IInv, FinishedIsStored, AbsentIsBlank, Renew, CanRenew
    <3> QED BY <1>1, <3>3, <3>4 DEF IInv
  <2>3. CASE ~CanRenew(claims[k], id)
    BY <1>1, <1>6, <2>3 DEF Renew, Believe, IInv, TypeOK, BeliefBacked,
       FinishedIsStored, AbsentIsBlank
  <2> QED BY <2>2, <2>3
<1>7. ASSUME NEW id \in ClaimId, NEW k \in Key, NEW output \in Output,
             NEW reply \in Reply, Complete(id, k, output, reply)
      PROVE  IInv'
  <2>1. CASE CanComplete(claims[k], id)
    <3>1. /\ claims'[k].status = "completed"
          /\ claims'[k].claimId = id
          /\ claims'[k].output # NoOutput
          /\ \A j \in Key : j # k => claims'[j] = claims[j]
      BY <1>1, <1>2, <1>7, <2>1, NoValues
      DEF Complete, CompletedRecord, CanComplete, TypeOK, WorkClaimRecord,
          IInv, FinishedIsStored
    <3>2. \A other \in ClaimId : belief[other][k] > 0 => other = id
      BY <2>1 DEF IInv, BeliefBacked, CanComplete
    <3>3. BeliefBacked'
      BY <1>1, <1>7, <3>1, <3>2 DEF IInv, BeliefBacked, Complete, Believe, TypeOK
    <3>4. finisher[k] \subseteq {id}
      BY <1>1, <2>1 DEF IInv, FinishedIsStored, CanComplete, TypeOK
    <3>5. FinishedIsStored'
      BY <1>1, <1>7, <3>1, <3>4 DEF IInv, FinishedIsStored, Complete, TypeOK
    <3>6. AbsentIsBlank'
      BY <3>1 DEF IInv, AbsentIsBlank
    <3> QED BY <1>1, <3>3, <3>5, <3>6 DEF IInv
  <2>2. CASE ~CanComplete(claims[k], id)
    BY <1>1, <1>7, <2>2 DEF Complete, Believe, IInv, TypeOK, BeliefBacked,
       FinishedIsStored, AbsentIsBlank
  <2> QED BY <2>1, <2>2
<1>8. ASSUME NEW id \in ClaimId, NEW k \in Key, Release(id, k)
      PROVE  IInv'
  <2>1. CASE CanRelease(claims[k], id) /\ claims[k].status = "claimed"
    <3>1. /\ claims'[k].status = "released"
          /\ claims'[k].output = claims[k].output
          /\ \A j \in Key : j # k => claims'[j] = claims[j]
      BY <1>1, <1>2, <1>8, <2>1
      DEF Release, ReleasedRecord, TypeOK, WorkClaimRecord
    <3>2. \A other \in ClaimId : belief[other][k] > 0 => other = id
      BY <2>1 DEF IInv, BeliefBacked, CanRelease
    <3>3. BeliefBacked'
      BY <1>1, <1>8, <3>1, <3>2 DEF IInv, BeliefBacked, Release, Believe, TypeOK
    <3>4. FinishedIsStored' /\ AbsentIsBlank'
      BY <1>8, <2>1, <3>1 DEF IInv, FinishedIsStored, AbsentIsBlank, Release
    <3> QED BY <1>1, <3>3, <3>4 DEF IInv
  <2>2. CASE ~(CanRelease(claims[k], id) /\ claims[k].status = "claimed")
    <3>1. claims' = claims
      BY <1>1, <1>2, <1>8, <2>2
      DEF Release, ReleasedRecord, CanRelease, TypeOK, WorkClaimRecord, Status
    <3> QED BY <1>1, <1>8, <3>1 DEF Release, Believe, IInv, TypeOK,
            BeliefBacked, FinishedIsStored, AbsentIsBlank
  <2> QED BY <2>1, <2>2
<1>9. CASE Tick
  <2>1. ASSUME NEW k \in Key
        PROVE  /\ claims'[k].status = claims[k].status
               /\ claims'[k].claimId = claims[k].claimId
               /\ claims'[k].output = claims[k].output
               /\ claims'[k].lease = IF claims[k].lease = 0 THEN 0
                                     ELSE claims[k].lease - 1
    BY <1>2, <1>9 DEF Tick, Aged, WorkClaimRecord
  <2>2. ASSUME NEW k \in Key, NEW id \in ClaimId
        PROVE  belief'[id][k] = IF belief[id][k] = 0 THEN 0
                                ELSE belief[id][k] - 1
    BY <1>9 DEF Tick
  <2>3. \A k \in Key : claims[k].lease \in Nat
    BY <1>2 DEF WorkClaimRecord
  <2>4. BeliefBacked'
    BY <1>3, <2>1, <2>2, <2>3 DEF IInv, BeliefBacked
  <2>5. FinishedIsStored'
    BY <1>9, <2>1 DEF IInv, FinishedIsStored, Tick
  <2>6. AbsentIsBlank'
    <3>1. Aged(AbsentRecord) = AbsentRecord
      BY DEF Aged, AbsentRecord
    <3>2. ASSUME NEW k \in Key, claims'[k].status = "absent"
          PROVE  claims'[k] = AbsentRecord
      <4>1. claims[k] = AbsentRecord
        BY <2>1, <3>2 DEF IInv, AbsentIsBlank
      <4> QED BY <1>9, <3>1, <4>1 DEF Tick
    <3> QED BY <3>2 DEF AbsentIsBlank
  <2> QED BY <1>1, <2>4, <2>5, <2>6 DEF IInv
<1>10. CASE UNCHANGED vars
  BY <1>1, <1>10 DEF vars, IInv, BeliefBacked, FinishedIsStored, AbsentIsBlank
<1> QED BY <1>4, <1>5, <1>6, <1>7, <1>8, <1>9, <1>10 DEF Next

\* The inductive invariant holds in every reachable state.
THEOREM Invariance == Spec => []IInv
  BY InitInvariant, NextInvariant, PTL DEF Spec

\* Two claimants never both count on a live lease of the same work.
THEOREM LeaseExclusionHolds == Spec => []LeaseExclusion
<1>1. IInv => LeaseExclusion
  BY DEF IInv, BeliefBacked, LeaseExclusion
<1> QED BY Invariance, <1>1, PTL

\* At most one claimant is ever told that its completion was stored, and then
\* the record is completed as its own.
THEOREM SingleFinisherHolds == Spec => [](SingleFinisher /\ FinishedIsStored)
<1>1. IInv => SingleFinisher /\ FinishedIsStored
  BY DEF IInv, FinishedIsStored, SingleFinisher
<1> QED BY Invariance, <1>1, PTL

-----------------------------------------------------------------------------
\* What one step may do to one record: keep it, age it, or replace it by what
\* a call of the store builds from it.
LEMMA RecordStep ==
  ASSUME TypeOK, [Next]_vars, NEW k \in Key
  PROVE  \/ claims'[k] = claims[k]
         \/ claims'[k] = Aged(claims[k])
         \/ \E id \in ClaimId, sequence \in Sequence, ttl \in TTL :
              /\ ClaimDecision(claims[k], id, sequence) = "acquired"
              /\ claims'[k] = GrantedRecord(claims[k], id, sequence, ttl)
         \/ \E id \in ClaimId, ttl \in TTL :
              /\ CanRenew(claims[k], id)
              /\ claims'[k] = RenewedRecord(claims[k], ttl)
         \/ \E id \in ClaimId, output \in Output :
              /\ CanComplete(claims[k], id)
              /\ claims'[k] = CompletedRecord(claims[k], output)
         \/ \E id \in ClaimId :
              /\ CanRelease(claims[k], id)
              /\ claims'[k] = ReleasedRecord(claims[k])
<1>1. ASSUME NEW id \in ClaimId, NEW j \in Key, NEW sequence \in Sequence,
             NEW ttl \in TTL, NEW reply \in Reply,
             Acquire(id, j, sequence, ttl, reply), claims'[k] # claims[k]
      PROVE  /\ ClaimDecision(claims[k], id, sequence) = "acquired"
             /\ claims'[k] = GrantedRecord(claims[k], id, sequence, ttl)
  BY <1>1 DEF Acquire, TypeOK
<1>2. ASSUME NEW id \in ClaimId, NEW j \in Key, NEW ttl \in TTL,
             NEW reply \in Reply, Renew(id, j, ttl, reply),
             claims'[k] # claims[k]
      PROVE  CanRenew(claims[k], id) /\ claims'[k] = RenewedRecord(claims[k], ttl)
  BY <1>2 DEF Renew, TypeOK
<1>3. ASSUME NEW id \in ClaimId, NEW j \in Key, NEW output \in Output,
             NEW reply \in Reply, Complete(id, j, output, reply),
             claims'[k] # claims[k]
      PROVE  /\ CanComplete(claims[k], id)
             /\ claims'[k] = CompletedRecord(claims[k], output)
  BY <1>3 DEF Complete, TypeOK
<1>4. ASSUME NEW id \in ClaimId, NEW j \in Key, Release(id, j),
             claims'[k] # claims[k]
      PROVE  CanRelease(claims[k], id) /\ claims'[k] = ReleasedRecord(claims[k])
  BY <1>4 DEF Release, TypeOK
<1>5. ASSUME NEW id \in ClaimId, NEW j \in Key, NEW sequence \in Sequence,
             Refuse(id, j, sequence)
      PROVE  claims'[k] = claims[k]
  BY <1>5 DEF Refuse
<1>6. CASE Tick
  BY <1>6 DEF Tick
<1>7. CASE UNCHANGED vars
  BY <1>7 DEF vars
<1> QED BY <1>1, <1>2, <1>3, <1>4, <1>5, <1>6, <1>7 DEF Next

\* A completed record keeps its owner and its output for ever.
THEOREM CompletedForeverHolds == Spec => CompletedForever
<1>1. ASSUME TypeOK, [Next]_vars, NEW k \in Key,
             claims[k].status = "completed"
      PROVE  claims'[k] = [claims[k] EXCEPT !.lease = claims'[k].lease]
  <2>1. claims[k] \in WorkClaimRecord
    BY <1>1 DEF TypeOK
  <2>2. CASE claims'[k] = claims[k]
    BY <2>1, <2>2 DEF WorkClaimRecord
  <2>3. CASE claims'[k] = Aged(claims[k])
    BY <2>1, <2>3 DEF WorkClaimRecord, Aged
  <2>4. \A id \in ClaimId, sequence \in Sequence :
          ClaimDecision(claims[k], id, sequence) # "acquired"
    BY <1>1 DEF ClaimDecision
  <2>5. \A id \in ClaimId : ~CanRenew(claims[k], id)
    BY <1>1 DEF CanRenew
  <2>6. \A output \in Output : CompletedRecord(claims[k], output) = claims[k]
    BY <1>1 DEF CompletedRecord
  <2>7. ReleasedRecord(claims[k]) = claims[k]
    BY <1>1 DEF ReleasedRecord
  <2> QED BY <1>1, <2>2, <2>3, <2>4, <2>5, <2>6, <2>7, RecordStep
<1>2. TypeOK /\ [Next]_vars =>
        [\A k \in Key :
           claims[k].status = "completed" =>
             claims'[k] = [claims[k] EXCEPT !.lease = claims'[k].lease]]_vars
  BY <1>1
<1> QED BY <1>2, Typing, PTL DEF Spec, CompletedForever

\* The sequence a record was claimed for never decreases.
THEOREM SequenceNeverDecreasesHolds == Spec => SequenceNeverDecreases
<1>1. ASSUME IInv, [Next]_vars, NEW k \in Key
      PROVE  claims[k].sequence <= claims'[k].sequence
  <2>1. TypeOK /\ claims[k] \in WorkClaimRecord
    BY <1>1 DEF IInv, TypeOK
  <2>2. claims[k].sequence \in Nat
    BY <2>1 DEF WorkClaimRecord
  <2>3. ASSUME NEW id \in ClaimId, NEW sequence \in Sequence, NEW ttl \in TTL,
               ClaimDecision(claims[k], id, sequence) = "acquired"
        PROVE  claims[k].sequence <=
                 GrantedRecord(claims[k], id, sequence, ttl).sequence
    <3>1. sequence \in Nat
      BY SequenceAssumption
    <3>2. claims[k].sequence <= sequence
      <4>1. CASE claims[k].status = "absent"
        BY <1>1, <3>1, <4>1 DEF IInv, AbsentIsBlank, AbsentRecord
      <4>2. CASE claims[k].status # "absent"
        BY <2>1, <2>2, <2>3, <3>1, <4>2
        DEF ClaimDecision, WorkClaimRecord, Status
      <4> QED BY <4>1, <4>2
    <3> QED BY <2>1, <2>2, <3>2
        DEF GrantedRecord, RefreshedRecord, ClaimedRecord, WorkClaimRecord
  <2>4. Aged(claims[k]).sequence = claims[k].sequence
    BY <2>1 DEF Aged, WorkClaimRecord
  <2>5. \A ttl \in TTL :
          RenewedRecord(claims[k], ttl).sequence = claims[k].sequence
    BY <2>1 DEF RenewedRecord, WorkClaimRecord
  <2>6. \A output \in Output :
          CompletedRecord(claims[k], output).sequence = claims[k].sequence
    BY <2>1 DEF CompletedRecord, WorkClaimRecord
  <2>7. ReleasedRecord(claims[k]).sequence = claims[k].sequence
    BY <2>1 DEF ReleasedRecord, WorkClaimRecord
  <2> QED BY <1>1, <2>1, <2>2, <2>3, <2>4, <2>5, <2>6, <2>7, RecordStep
<1>2. IInv /\ [Next]_vars =>
        [\A k \in Key : claims[k].sequence <= claims'[k].sequence]_vars
  BY <1>1
<1> QED BY <1>2, Invariance, PTL DEF Spec, SequenceNeverDecreases

-----------------------------------------------------------------------------
\* The holder and the result that a record stands for.
HolderOf(rec) == IF Holding(rec) THEN rec.claimId ELSE NoClaim

\* The store implements the abstract lease for every value of the constants.
THEOREM Implementation == Spec => ImplementsLeaseOnce
<1>1. Init => Abstract!Init
  BY DEF Init, Abstract!Init, AbsentRecord, Holding
<1>2. IInv /\ [Next]_vars => [Abstract!Next]_(Abstract!vars)
  <2> SUFFICES ASSUME IInv, [Next]_vars
               PROVE  [Abstract!Next]_(Abstract!vars)
    OBVIOUS
  <2>1. TypeOK /\ \A k \in Key : claims[k] \in WorkClaimRecord
    BY DEF IInv, TypeOK
  <2>2. ASSUME NEW k \in Key, NEW id \in ClaimId,
               \A j \in Key : j # k => claims'[j] = claims[j],
               HolderOf(claims[k]) \in {id, NoClaim}, claims[k].output = NoOutput,
               claims'[k].output = NoOutput, HolderOf(claims'[k]) \in {id, NoClaim}
        PROVE  [Abstract!Next]_(Abstract!vars)
    <3>1. CASE HolderOf(claims'[k]) = HolderOf(claims[k])
      <4>1. UNCHANGED Abstract!vars
        BY <2>2, <3>1 DEF Abstract!vars, HolderOf
      <4> QED BY <4>1
    <3>2. CASE HolderOf(claims[k]) = NoClaim /\ HolderOf(claims'[k]) = id
      <4>1. Abstract!Acquire(k, id)
        BY <2>2, <3>2 DEF Abstract!Acquire, HolderOf
      <4> QED BY <4>1 DEF Abstract!Next
    <3>3. CASE HolderOf(claims'[k]) = NoClaim
      <4>1. Abstract!Lapse({k})
        BY <2>2, <3>3 DEF Abstract!Lapse, HolderOf
      <4> QED BY <4>1 DEF Abstract!Next
    <3> QED BY <2>2, <3>1, <3>2, <3>3
  <2>3. ASSUME claims' = claims PROVE UNCHANGED Abstract!vars
    BY <2>3 DEF Abstract!vars, Holding
  <2>4. ASSUME NEW k \in Key, claims[k].status # "completed"
        PROVE  claims[k].output = NoOutput
    BY <2>4 DEF IInv, FinishedIsStored
  <2>5. ASSUME NEW id \in ClaimId, NEW k \in Key, NEW sequence \in Sequence,
               NEW ttl \in TTL, NEW reply \in Reply,
               Acquire(id, k, sequence, ttl, reply)
        PROVE  [Abstract!Next]_(Abstract!vars)
    <3>1. claims[k].status # "completed"
      BY <2>5 DEF Acquire, ClaimDecision
    <3>2. /\ claims'[k].status = "claimed"
          /\ claims'[k].claimId = id
          /\ claims'[k].output = claims[k].output
          /\ \A j \in Key : j # k => claims'[j] = claims[j]
      BY <2>1, <2>5 DEF Acquire, GrantedRecord, RefreshedRecord,
         ClaimedRecord, TypeOK, WorkClaimRecord
    <3>3. HolderOf(claims[k]) \in {id, NoClaim}
      BY <2>1, <2>5, SequenceAssumption
      DEF Acquire, ClaimDecision, HolderOf, Holding, WorkClaimRecord
    <3>4. HolderOf(claims'[k]) \in {id, NoClaim}
      BY <3>2 DEF HolderOf
    <3> QED BY <2>2, <2>4, <3>1, <3>2, <3>3, <3>4
  <2>6. ASSUME NEW id \in ClaimId, NEW k \in Key, NEW ttl \in TTL,
               NEW reply \in Reply, Renew(id, k, ttl, reply)
        PROVE  [Abstract!Next]_(Abstract!vars)
    <3>1. CASE CanRenew(claims[k], id)
      <4>1. /\ claims'[k].status = claims[k].status
            /\ claims'[k].claimId = id
            /\ claims'[k].output = claims[k].output
            /\ \A j \in Key : j # k => claims'[j] = claims[j]
        BY <2>1, <2>6, <3>1
        DEF Renew, RenewedRecord, CanRenew, TypeOK, WorkClaimRecord
      <4>2. claims[k].claimId = id /\ claims[k].status # "completed"
        BY <3>1 DEF CanRenew
      <4> QED BY <2>2, <2>4, <4>1, <4>2 DEF HolderOf
    <3>2. CASE ~CanRenew(claims[k], id)
      BY <2>3, <2>6, <3>2 DEF Renew
    <3> QED BY <3>1, <3>2
  <2>7. ASSUME NEW id \in ClaimId, NEW k \in Key, NEW output \in Output,
               NEW reply \in Reply, Complete(id, k, output, reply)
        PROVE  [Abstract!Next]_(Abstract!vars)
    <3>1. CASE CanComplete(claims[k], id) /\ claims[k].status = "claimed"
      <4>1. /\ claims'[k].status = "completed"
            /\ claims'[k].output = output
            /\ \A j \in Key : j # k => claims'[j] = claims[j]
        BY <2>1, <2>7, <3>1
        DEF Complete, CompletedRecord, TypeOK, WorkClaimRecord
      <4>2. claims[k].output = NoOutput /\ claims[k].claimId = id
        BY <2>4, <3>1 DEF CanComplete
      <4>3. Abstract!Finish(k, id, output)
        BY <4>1, <4>2 DEF Abstract!Finish, Holding
      <4> QED BY <4>3 DEF Abstract!Next
    <3>2. CASE ~(CanComplete(claims[k], id) /\ claims[k].status = "claimed")
      <4>1. claims' = claims
        BY <2>1, <2>7, <3>2 DEF Complete, CompletedRecord, CanComplete, TypeOK
      <4> QED BY <2>3, <4>1
    <3> QED BY <3>1, <3>2
  <2>8. ASSUME NEW id \in ClaimId, NEW k \in Key, Release(id, k)
        PROVE  [Abstract!Next]_(Abstract!vars)
    <3>1. CASE CanRelease(claims[k], id) /\ claims[k].status = "claimed"
      <4>1. /\ claims'[k].status = "released"
            /\ claims'[k].output = claims[k].output
            /\ \A j \in Key : j # k => claims'[j] = claims[j]
        BY <2>1, <2>8, <3>1
        DEF Release, ReleasedRecord, TypeOK, WorkClaimRecord
      <4>2. claims[k].output = NoOutput /\ claims[k].claimId = id
        BY <2>4, <3>1 DEF CanRelease
      <4> QED BY <2>2, <4>1, <4>2 DEF HolderOf, Holding
    <3>2. CASE ~(CanRelease(claims[k], id) /\ claims[k].status = "claimed")
      <4>1. claims' = claims
        BY <2>1, <2>8, <3>2
        DEF Release, ReleasedRecord, CanRelease, TypeOK, WorkClaimRecord, Status
      <4> QED BY <2>3, <4>1
    <3> QED BY <3>1, <3>2
  <2>9. CASE Tick
    <3>1. \A k \in Key :
            /\ claims'[k].status = claims[k].status
            /\ claims'[k].claimId = claims[k].claimId
            /\ claims'[k].output = claims[k].output
            /\ claims[k].lease = 0 => claims'[k].lease = 0
      BY <2>1, <2>9 DEF Tick, Aged, WorkClaimRecord
    <3>2. \A k \in Key : HolderOf(claims'[k]) \in {HolderOf(claims[k]), NoClaim}
      BY <3>1 DEF HolderOf, Holding, IsExpired
    <3>3. PICK lapsed \in SUBSET Key :
            lapsed = {k \in Key : HolderOf(claims'[k]) = NoClaim}
      OBVIOUS
    <3>4. Abstract!Lapse(lapsed)
      BY <3>1, <3>2, <3>3 DEF Abstract!Lapse, HolderOf
    <3> QED BY <3>4 DEF Abstract!Next
  <2>10. ASSUME NEW id \in ClaimId, NEW k \in Key, NEW sequence \in Sequence,
                Refuse(id, k, sequence)
         PROVE  [Abstract!Next]_(Abstract!vars)
    BY <2>3, <2>10 DEF Refuse
  <2>11. CASE UNCHANGED vars
    BY <2>3, <2>11 DEF vars
  <2> QED BY <2>5, <2>6, <2>7, <2>8, <2>9, <2>10, <2>11 DEF Next
<1> QED BY <1>1, <1>2, Invariance, PTL DEF Spec, ImplementsLeaseOnce, Abstract!Spec
=============================================================================
