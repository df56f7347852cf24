--------------------------- MODULE SharingProofs ----------------------------
(***************************************************************************)
(* Proofs about what accesses share, for any accesses, domains, paths,     *)
(* lease times, capacities and health policies.                            *)
(*                                                                         *)
(* The concurrency budgets: no permit is lost or invented, no interleaving *)
(* overruns a budget, and an access is refused only while another one has  *)
(* a permit.  The execution of accesses: every lease is returned, none is  *)
(* taken from an access that uses it, a quarantine runs its time whatever  *)
(* the accesses record, and every outcome that is recorded is counted.     *)
(***************************************************************************)
EXTENDS AccessBudget, AccessExecution, FiniteSetTheorems, TLAPS

-----------------------------------------------------------------------------
(* The concurrency budgets.                                                *)

\* Nobody makes the semaphore of a domain before there is a budget.
DomainsFollowBudget == budget = Absent => \A d \in Domains : domainFree[d] = Absent

\* The inductive invariant: permits are conserved by accesses that find the
\* semaphores they go to.
BudgetIInv ==
  BudgetTypeOK /\ SemaphoresAreThere /\ DomainsFollowBudget /\ PermitsAreConserved

-----------------------------------------------------------------------------
\* The sets of holders are finite, so that their sizes are numbers.
LEMMA HoldersAreFinite ==
  /\ IsFiniteSet(GlobalHolders) /\ Cardinality(GlobalHolders) \in Nat
  /\ \A d \in Domains : IsFiniteSet(HoldersOf(d)) /\ Cardinality(HoldersOf(d)) \in Nat
<1>1. GlobalHolders \subseteq Accesses /\ \A d \in Domains : HoldersOf(d) \subseteq Accesses
  BY DEF GlobalHolders, HoldersOf, Holders
<1>2. IsFiniteSet(GlobalHolders) /\ \A d \in Domains : IsFiniteSet(HoldersOf(d))
  BY <1>1, BudgetAssumption, FS_Subset
<1> QED BY <1>2, FS_CardinalityType

\* An access that changes its stage joins or leaves the sets its stages name.
LEMMA HoldersChange ==
  ASSUME NEW a \in Accesses, NEW stage \in Stages, BudgetTypeOK, Goes(a, stage)
  PROVE  LET global == {"findDomain", "makeDomain", "domain", "backOut", "holding"}
         IN  /\ at' \in [Accesses -> Stages]
             /\ GlobalHolders' = IF stage \in global THEN GlobalHolders \cup {a}
                                                     ELSE GlobalHolders \ {a}
             /\ \A d \in Domains :
                  HoldersOf(d)' = IF stage = "holding" /\ HostOf[a] = d
                                  THEN HoldersOf(d) \cup {a} ELSE HoldersOf(d) \ {a}
BY DEF Goes, GlobalHolders, HoldersOf, Holders, BudgetTypeOK

\* The size of a finite set that an element joins or leaves.
LEMMA SizeOfChanged ==
  ASSUME NEW S, IsFiniteSet(S), NEW a
  PROVE  /\ Cardinality(S) \in Nat
         /\ Cardinality(S \cup {a}) = Cardinality(S) + (IF a \in S THEN 0 ELSE 1)
         /\ Cardinality(S \ {a}) = Cardinality(S) - (IF a \in S THEN 1 ELSE 0)
<1>0. Cardinality(S) \in Nat
  BY FS_CardinalityType
<1>1. CASE a \in S
  <2>1. S \cup {a} = S /\ Cardinality(S \ {a}) = Cardinality(S) - 1
    BY <1>1, FS_RemoveElement
  <2>2. Cardinality(S \cup {a}) = Cardinality(S)
    BY <2>1
  <2> QED BY <1>0, <1>1, <2>1, <2>2
<1>2. CASE a \notin S
  <2>1. S \ {a} = S /\ Cardinality(S \cup {a}) = Cardinality(S) + 1
    BY <1>2, FS_AddElement
  <2>2. Cardinality(S \ {a}) = Cardinality(S)
    BY <2>1
  <2> QED BY <1>0, <1>2, <2>1, <2>2
<1> QED BY <1>1, <1>2

\* The stages in which an access has a global permit.
GlobalStages == {"findDomain", "makeDomain", "domain", "backOut", "holding"}

\* The sizes of the sets of holders after an access changed its stage.
LEMMA HoldersCount ==
  ASSUME NEW a \in Accesses, NEW stage \in Stages, BudgetTypeOK, Goes(a, stage)
  PROVE  /\ Cardinality(GlobalHolders') = Cardinality(GlobalHolders)
              + (IF stage \in GlobalStages THEN 1 ELSE 0)
              - (IF at[a] \in GlobalStages THEN 1 ELSE 0)
         /\ \A d \in Domains : Cardinality(HoldersOf(d)') = Cardinality(HoldersOf(d))
              + (IF stage = "holding" /\ HostOf[a] = d THEN 1 ELSE 0)
              - (IF at[a] = "holding" /\ HostOf[a] = d THEN 1 ELSE 0)
<1>1. Cardinality(GlobalHolders') = Cardinality(GlobalHolders)
        + (IF stage \in GlobalStages THEN 1 ELSE 0)
        - (IF at[a] \in GlobalStages THEN 1 ELSE 0)
  <2>1. GlobalHolders' = IF stage \in GlobalStages THEN GlobalHolders \cup {a}
                                                  ELSE GlobalHolders \ {a}
    BY HoldersChange DEF GlobalStages
  <2>2. a \in GlobalHolders <=> at[a] \in GlobalStages
    BY DEF GlobalHolders, GlobalStages
  <2>3. /\ Cardinality(GlobalHolders) \in Nat
        /\ Cardinality(GlobalHolders \cup {a}) =
             Cardinality(GlobalHolders) + (IF a \in GlobalHolders THEN 0 ELSE 1)
        /\ Cardinality(GlobalHolders \ {a}) =
             Cardinality(GlobalHolders) - (IF a \in GlobalHolders THEN 1 ELSE 0)
    BY HoldersAreFinite, SizeOfChanged
  <2> QED BY <2>1, <2>2, <2>3
<1>2. ASSUME NEW d \in Domains
      PROVE  Cardinality(HoldersOf(d)') = Cardinality(HoldersOf(d))
               + (IF stage = "holding" /\ HostOf[a] = d THEN 1 ELSE 0)
               - (IF at[a] = "holding" /\ HostOf[a] = d THEN 1 ELSE 0)
  <2>1. HoldersOf(d)' = IF stage = "holding" /\ HostOf[a] = d
                        THEN HoldersOf(d) \cup {a} ELSE HoldersOf(d) \ {a}
    BY <1>2, HoldersChange
  <2>2. a \in HoldersOf(d) <=> (at[a] = "holding" /\ HostOf[a] = d)
    BY DEF HoldersOf, Holders
  <2>3. /\ Cardinality(HoldersOf(d)) \in Nat
        /\ Cardinality(HoldersOf(d) \cup {a}) =
             Cardinality(HoldersOf(d)) + (IF a \in HoldersOf(d) THEN 0 ELSE 1)
        /\ Cardinality(HoldersOf(d) \ {a}) =
             Cardinality(HoldersOf(d)) - (IF a \in HoldersOf(d) THEN 1 ELSE 0)
    BY <1>2, HoldersAreFinite, SizeOfChanged
  <2> QED BY <2>1, <2>2, <2>3
<1> QED BY <1>1, <1>2

-----------------------------------------------------------------------------
\* Initially there is no budget, and everything about permits is vacuous.
LEMMA BudgetInitiallyHolds == BudgetInit => BudgetIInv
<1> SUFFICES ASSUME BudgetInit PROVE BudgetIInv
  OBVIOUS
<1>1. BudgetTypeOK
  BY DEF BudgetInit, BudgetTypeOK, Stages
<1>2. SemaphoresAreThere /\ DomainsFollowBudget /\ PermitsAreConserved
  BY DEF BudgetInit, SemaphoresAreThere, DomainsFollowBudget, PermitsAreConserved
<1> QED BY <1>1, <1>2 DEF BudgetIInv

\* Every step of every access keeps the invariant.
LEMMA BudgetStepHolds == BudgetIInv /\ [BudgetNext]_budgetVars => BudgetIInv'
<1> SUFFICES ASSUME BudgetIInv, [BudgetNext]_budgetVars PROVE BudgetIInv'
  OBVIOUS
<1> USE DEF BudgetIInv
<1>1. CASE UNCHANGED budgetVars
  BY <1>1 DEF budgetVars, BudgetTypeOK, SemaphoresAreThere, DomainsFollowBudget,
              PermitsAreConserved, GlobalHolders, HoldersOf, Holders
<1>2. ASSUME NEW a \in Accesses, Step(a) \/ Again(a) PROVE BudgetIInv'
  <2> DEFINE d == HostOf[a]
             asked == Asked[a]
  <2> USE DEF Stages
  <2>0. /\ d \in Domains /\ asked \in Capacities
        /\ asked.global \in Nat /\ asked.perDomain \in Nat
        /\ budget # Absent => budget.global \in Nat /\ budget.perDomain \in Nat
        /\ Absent \notin Nat /\ Absent \notin Capacities
    BY BudgetAssumption DEF BudgetTypeOK, Capacities
  <2>1. CASE FindBudget(a)
    <3>1. Cardinality(GlobalHolders') = Cardinality(GlobalHolders)
          /\ \A e \in Domains : Cardinality(HoldersOf(e)') = Cardinality(HoldersOf(e))
      BY <2>1, HoldersCount, HoldersAreFinite DEF GlobalStages, FindBudget
    <3>2. BudgetTypeOK' /\ SemaphoresAreThere' /\ DomainsFollowBudget'
      BY <2>1, <2>0 DEF FindBudget, Goes, BudgetTypeOK, SemaphoresAreThere, DomainsFollowBudget
    <3> QED BY <2>1, <3>1, <3>2 DEF FindBudget, PermitsAreConserved
  <2>2. CASE MakeBudget(a)
    <3>1. Cardinality(GlobalHolders') = Cardinality(GlobalHolders)
          /\ \A e \in Domains : Cardinality(HoldersOf(e)') = Cardinality(HoldersOf(e))
      BY <2>2, HoldersCount, HoldersAreFinite DEF GlobalStages, MakeBudget
    <3>2. BudgetTypeOK' /\ SemaphoresAreThere' /\ DomainsFollowBudget'
      BY <2>2, <2>0 DEF MakeBudget, Goes, BudgetTypeOK, SemaphoresAreThere, DomainsFollowBudget
    <3>3. CASE budget = Absent
      <4>1. GlobalHolders = {} /\ \A e \in Domains : domainFree[e] = Absent
        BY <3>3 DEF SemaphoresAreThere, GlobalHolders, DomainsFollowBudget
      <4> QED BY <2>2, <2>0, <3>1, <3>2, <3>3, <4>1, FS_EmptySet DEF MakeBudget, PermitsAreConserved
    <3> QED BY <2>2, <3>1, <3>2, <3>3 DEF MakeBudget, PermitsAreConserved
  <2>3. CASE TakeGlobal(a)
    <3>1. Cardinality(GlobalHolders') = Cardinality(GlobalHolders) + (IF globalFree > 0 THEN 1 ELSE 0)
          /\ \A e \in Domains : Cardinality(HoldersOf(e)') = Cardinality(HoldersOf(e))
      BY <2>3, HoldersCount, HoldersAreFinite DEF GlobalStages, TakeGlobal
    <3>2. BudgetTypeOK' /\ SemaphoresAreThere' /\ DomainsFollowBudget'
      BY <2>3, <2>0 DEF TakeGlobal, Goes, BudgetTypeOK, SemaphoresAreThere, DomainsFollowBudget
    <3> QED BY <2>3, <2>0, <3>1, <3>2, HoldersAreFinite
            DEF TakeGlobal, PermitsAreConserved, BudgetTypeOK
  <2>4. CASE FindDomain(a)
    <3>1. Cardinality(GlobalHolders') = Cardinality(GlobalHolders)
          /\ \A e \in Domains : Cardinality(HoldersOf(e)') = Cardinality(HoldersOf(e))
      BY <2>4, HoldersCount, HoldersAreFinite DEF GlobalStages, FindDomain
    <3>2. BudgetTypeOK' /\ SemaphoresAreThere' /\ DomainsFollowBudget'
      BY <2>4, <2>0 DEF FindDomain, Goes, BudgetTypeOK, SemaphoresAreThere, DomainsFollowBudget
    <3> QED BY <2>4, <3>1, <3>2 DEF FindDomain, PermitsAreConserved
  <2>5. CASE MakeDomain(a)
    <3>1. Cardinality(GlobalHolders') = Cardinality(GlobalHolders)
          /\ \A e \in Domains : Cardinality(HoldersOf(e)') = Cardinality(HoldersOf(e))
      BY <2>5, HoldersCount, HoldersAreFinite DEF GlobalStages, MakeDomain
    <3>0. budget # Absent
      BY <2>5 DEF MakeDomain, SemaphoresAreThere
    <3>2. BudgetTypeOK' /\ SemaphoresAreThere' /\ DomainsFollowBudget'
      <4>1. domainFree' \in [Domains -> Nat \cup {Absent}] /\ domainFree'[d] # Absent
        BY <2>5, <2>0, <3>0 DEF MakeDomain, BudgetTypeOK
      <4>2. \A e \in Domains : domainFree[e] # Absent => domainFree'[e] # Absent
        BY <2>5, <4>1 DEF MakeDomain, BudgetTypeOK
      <4> QED BY <2>5, <2>0, <3>0, <4>1, <4>2
              DEF MakeDomain, Goes, BudgetTypeOK, SemaphoresAreThere, DomainsFollowBudget
    <3>3. domainFree[d] = Absent => HoldersOf(d) = {}
      BY DEF SemaphoresAreThere, HoldersOf, Holders
    <3>4. domainFree' = [domainFree EXCEPT ![d] = IF @ = Absent THEN budget.perDomain ELSE @]
      BY <2>5 DEF MakeDomain
    <3>5. ASSUME NEW e \in Domains, budget # Absent, domainFree'[e] # Absent
          PROVE  domainFree'[e] + Cardinality(HoldersOf(e)') = budget.perDomain
      <4>1. CASE e = d /\ domainFree[d] = Absent
        <5>1. Cardinality(HoldersOf(e)') = 0
          BY <3>1, <3>3, <4>1, FS_EmptySet
        <5> QED BY <2>0, <3>4, <3>5, <4>1, <5>1 DEF BudgetTypeOK
      <4>2. CASE ~(e = d /\ domainFree[d] = Absent)
        BY <3>1, <3>4, <3>5, <4>2 DEF PermitsAreConserved, BudgetTypeOK
      <4> QED BY <4>1, <4>2
    <3> QED BY <2>5, <3>1, <3>2, <3>5 DEF MakeDomain, PermitsAreConserved
  <2>6. CASE TakeDomain(a)
    <3>1. domainFree[d] \in Nat /\ domainFree[d] # Absent
      BY <2>6, <2>0 DEF TakeDomain, SemaphoresAreThere, BudgetTypeOK
    <3>2. Cardinality(GlobalHolders') = Cardinality(GlobalHolders)
          /\ \A e \in Domains : Cardinality(HoldersOf(e)') =
               Cardinality(HoldersOf(e)) + (IF domainFree[d] > 0 /\ e = d THEN 1 ELSE 0)
      BY <2>6, HoldersCount, HoldersAreFinite DEF GlobalStages, TakeDomain
    <3>3. BudgetTypeOK' /\ SemaphoresAreThere' /\ DomainsFollowBudget'
      <4>1. CASE domainFree[d] > 0
        <5>1. domainFree' \in [Domains -> Nat \cup {Absent}]
          BY <2>6, <2>0, <3>1, <4>1 DEF TakeDomain, BudgetTypeOK
        <5>2. \A e \in Domains : domainFree[e] # Absent <=> domainFree'[e] # Absent
          BY <2>6, <2>0, <3>1, <4>1 DEF TakeDomain, BudgetTypeOK
        <5> QED BY <2>6, <2>0, <3>1, <4>1, <5>1, <5>2, BudgetAssumption
                DEF TakeDomain, Goes, BudgetTypeOK, SemaphoresAreThere, DomainsFollowBudget
      <4>2. CASE ~(domainFree[d] > 0)
        BY <2>6, <2>0, <3>1, <4>2
           DEF TakeDomain, Goes, BudgetTypeOK, SemaphoresAreThere, DomainsFollowBudget
      <4> QED BY <4>1, <4>2
    <3>4. domainFree' = IF domainFree[d] > 0 THEN [domainFree EXCEPT ![d] = @ - 1] ELSE domainFree
      BY <2>6 DEF TakeDomain
    <3>5. ASSUME NEW e \in Domains, budget # Absent, domainFree'[e] # Absent
          PROVE  domainFree'[e] + Cardinality(HoldersOf(e)') = budget.perDomain
      BY <2>0, <3>1, <3>2, <3>4, <3>5, HoldersAreFinite DEF PermitsAreConserved, BudgetTypeOK
    <3> QED BY <2>6, <3>2, <3>3, <3>5 DEF TakeDomain, PermitsAreConserved
  <2>7. CASE BackOut(a)
    <3>1. Cardinality(GlobalHolders') = Cardinality(GlobalHolders) - 1
          /\ \A e \in Domains : Cardinality(HoldersOf(e)') = Cardinality(HoldersOf(e))
      BY <2>7, HoldersCount, HoldersAreFinite DEF GlobalStages, BackOut
    <3>2. BudgetTypeOK' /\ SemaphoresAreThere' /\ DomainsFollowBudget'
      BY <2>7, <2>0 DEF BackOut, Goes, BudgetTypeOK, SemaphoresAreThere, DomainsFollowBudget
    <3> QED BY <2>7, <2>0, <3>1, <3>2, HoldersAreFinite
            DEF BackOut, PermitsAreConserved, BudgetTypeOK
  <2>8. CASE GiveBack(a)
    <3>1. domainFree[d] \in Nat /\ domainFree[d] # Absent
      BY <2>8, <2>0 DEF GiveBack, SemaphoresAreThere, BudgetTypeOK
    <3>2. Cardinality(GlobalHolders') = Cardinality(GlobalHolders) - 1
          /\ \A e \in Domains : Cardinality(HoldersOf(e)') =
               Cardinality(HoldersOf(e)) - (IF e = d THEN 1 ELSE 0)
      BY <2>8, HoldersCount, HoldersAreFinite DEF GlobalStages, GiveBack
    <3>3. BudgetTypeOK' /\ SemaphoresAreThere' /\ DomainsFollowBudget'
      BY <2>8, <2>0, <3>1 DEF GiveBack, Goes, BudgetTypeOK, SemaphoresAreThere, DomainsFollowBudget
    <3>4. domainFree' = [domainFree EXCEPT ![d] = @ + 1]
      BY <2>8 DEF GiveBack
    <3>5. ASSUME NEW e \in Domains, budget # Absent, domainFree'[e] # Absent
          PROVE  domainFree'[e] + Cardinality(HoldersOf(e)') = budget.perDomain
      BY <2>0, <3>1, <3>2, <3>4, <3>5, HoldersAreFinite DEF PermitsAreConserved, BudgetTypeOK
    <3>6. budget # Absent => globalFree' + Cardinality(GlobalHolders') = budget.global
      BY <2>8, <2>0, <3>2, HoldersAreFinite DEF GiveBack, PermitsAreConserved, BudgetTypeOK
    <3> QED BY <2>8, <3>3, <3>5, <3>6 DEF GiveBack, PermitsAreConserved
  <2>9. CASE Again(a)
    <3>1. Cardinality(GlobalHolders') = Cardinality(GlobalHolders)
          /\ \A e \in Domains : Cardinality(HoldersOf(e)') = Cardinality(HoldersOf(e))
      BY <2>9, HoldersCount, HoldersAreFinite DEF GlobalStages, Again
    <3>2. BudgetTypeOK' /\ SemaphoresAreThere' /\ DomainsFollowBudget'
      BY <2>9, <2>0 DEF Again, Goes, BudgetTypeOK, SemaphoresAreThere, DomainsFollowBudget
    <3> QED BY <2>9, <3>1, <3>2 DEF Again, PermitsAreConserved
  <2> QED BY <1>2, <2>1, <2>2, <2>3, <2>4, <2>5, <2>6, <2>7, <2>8, <2>9 DEF Step
<1> QED BY <1>1, <1>2 DEF BudgetNext

\* The strengthened invariant holds for ever, with its parts.
THEOREM BudgetInvariant == BudgetSpec => []BudgetIInv
<1> QED BY BudgetInitiallyHolds, BudgetStepHolds, PTL DEF BudgetSpec

-----------------------------------------------------------------------------
\* No permit is lost or invented on any path of withPermit, whatever the
\* accesses and capacities: what is not held is free.
THEOREM PermitsStayConserved == BudgetSpec => []PermitsAreConserved
<1>1. BudgetIInv => PermitsAreConserved
  BY DEF BudgetIInv
<1> QED BY <1>1, BudgetInvariant, PTL

\* No interleaving of withPermit lets more accesses run than the budget allows,
\* in all or in one domain.
THEOREM BudgetIsNeverOverrun == BudgetSpec => []NeverOverrun
<1>1. BudgetIInv => NeverOverrun
  <2> SUFFICES ASSUME BudgetIInv, budget # Absent
               PROVE  /\ Cardinality(Holders) <= budget.global
                      /\ \A d \in Domains : Cardinality(HoldersOf(d)) <= budget.perDomain
    BY DEF NeverOverrun
  <2>1. Holders \subseteq GlobalHolders
    BY DEF Holders, GlobalHolders
  <2>2. Cardinality(Holders) <= Cardinality(GlobalHolders) /\ Cardinality(Holders) \in Nat
    BY <2>1, HoldersAreFinite, FS_Subset, FS_CardinalityType
  <2>3. budget.global \in Nat /\ budget.perDomain \in Nat /\ globalFree \in Nat
    BY DEF BudgetIInv, BudgetTypeOK, Capacities
  <2>4. ASSUME NEW d \in Domains PROVE Cardinality(HoldersOf(d)) <= budget.perDomain
    <3>1. CASE domainFree[d] = Absent
      <4>1. HoldersOf(d) = {}
        BY <3>1 DEF BudgetIInv, SemaphoresAreThere, HoldersOf, Holders
      <4> QED BY <4>1, <2>3, FS_EmptySet
    <3>2. CASE domainFree[d] # Absent
      <4>1. domainFree[d] \in Nat
            /\ domainFree[d] + Cardinality(HoldersOf(d)) = budget.perDomain
        BY <3>2 DEF BudgetIInv, BudgetTypeOK, PermitsAreConserved
      <4> QED BY <4>1, <2>3, HoldersAreFinite
    <3> QED BY <3>1, <3>2
  <2>5. Cardinality(Holders) <= budget.global
    BY <2>2, <2>3, HoldersAreFinite DEF BudgetIInv, PermitsAreConserved
  <2> QED BY <2>4, <2>5
<1> QED BY <1>1, BudgetInvariant, PTL

\* Whoever is refused, at either semaphore, is refused while others have every permit of it:
\* no free permit is ever withheld.
THEOREM RefusalsAreUnderLoad == BudgetSpec => RefusedUnderLoad
<1> DEFINE Refusal(a) ==
      /\ at[a] = "global" /\ at'[a] = "rejected" =>
            Cardinality(GlobalHolders \ {a}) = budget.global
      /\ at[a] = "domain" /\ at'[a] = "backOut" =>
            Cardinality(HoldersOf(HostOf[a]) \ {a}) = budget.perDomain
    Refusals == \A a \in Accesses : Refusal(a)
<1>1. BudgetIInv /\ [BudgetNext]_budgetVars => [Refusals]_budgetVars
  <2> SUFFICES ASSUME BudgetIInv, BudgetNext, NEW a \in Accesses PROVE Refusal(a)
    OBVIOUS
  <2>1. PICK c \in Accesses : Step(c) \/ Again(c)
    BY DEF BudgetNext
  <2>2. ASSUME at[a] = "global", at'[a] = "rejected"
        PROVE  Cardinality(GlobalHolders \ {a}) = budget.global
    <3>1. TakeGlobal(a)
      BY <2>1, <2>2 DEF Step, Again, FindBudget, MakeBudget, TakeGlobal, FindDomain, MakeDomain,
                        TakeDomain, BackOut, GiveBack, Goes, BudgetIInv, BudgetTypeOK
    <3>2. budget # Absent /\ budget.global \in Nat /\ globalFree \in Nat
      BY <2>2 DEF BudgetIInv, SemaphoresAreThere, BudgetTypeOK, Capacities
    <3>3. globalFree = 0 /\ a \notin GlobalHolders
      BY <2>2, <3>1, <3>2 DEF TakeGlobal, Goes, GlobalHolders, BudgetIInv, BudgetTypeOK
    <3>4. Cardinality(GlobalHolders) = budget.global
      BY <3>2, <3>3, HoldersAreFinite DEF BudgetIInv, PermitsAreConserved
    <3>5. GlobalHolders \ {a} = GlobalHolders
      BY <3>3
    <3> QED BY <3>4, <3>5
  <2>3. ASSUME at[a] = "domain", at'[a] = "backOut"
        PROVE  Cardinality(HoldersOf(HostOf[a]) \ {a}) = budget.perDomain
    <3> DEFINE d == HostOf[a]
    <3>1. TakeDomain(a)
      BY <2>1, <2>3 DEF Step, Again, FindBudget, MakeBudget, TakeGlobal, FindDomain, MakeDomain,
                        TakeDomain, BackOut, GiveBack, Goes, BudgetIInv, BudgetTypeOK
    <3>2. /\ budget # Absent /\ budget.perDomain \in Nat /\ d \in Domains
          /\ domainFree[d] \in Nat /\ domainFree[d] # Absent
      BY <2>3, BudgetAssumption DEF BudgetIInv, SemaphoresAreThere, BudgetTypeOK, Capacities
    <3>3. domainFree[d] = 0
      BY <2>3, <3>1, <3>2 DEF TakeDomain, Goes, BudgetIInv, BudgetTypeOK
    <3>4. Cardinality(HoldersOf(d)) = budget.perDomain
      BY <3>2, <3>3, HoldersAreFinite DEF BudgetIInv, PermitsAreConserved
    <3>5. HoldersOf(d) \ {a} = HoldersOf(d)
      BY <2>3 DEF HoldersOf, Holders
    <3> QED BY <3>4, <3>5
  <2> QED BY <2>2, <2>3
<1> QED BY <1>1, BudgetInvariant, PTL DEF BudgetSpec, RefusedUnderLoad

-----------------------------------------------------------------------------
(* The execution of accesses.                                              *)

Places == PathHeld \cup {"idle", "sweepingEgress", "leasingEgress",
                         "settling", "concluding", "done"}

EgressLease == Lease([pool : {Pool}, route : Path])

IdentityLease == Lease(Domain)

\* Each subject has a health, and only subjects have one.
HealthIsKept == DOMAIN health = Subject

\* Where an access may be that has an egress lease, or an identity lease.
HoldsEgress == PathHeld \ {"releasingIdentity"}

HoldsIdentity == {"checking", "executing", "recording", "releasing", "releasingIdentity"}

\* An access goes to a fallback only when there is one.
FallbackIsThere == \A a \in Access : attempt[a] = "fallback" => FallbackOf[a] # NoPath

\* The inductive invariant: that leases are returned is inductive once a lease is
\* known to name an access, and a record to name a subject.
AccessIInv == AccessTypeOK /\ HealthIsKept /\ FallbackIsThere /\ LeasesAreReturned

\* What an access does.
Does(a) ==
  \/ Begin(a) \/ SweepEgress(a) \/ LeaseEgress(a)
  \/ SweepIdentity(a) \/ LeaseIdentity(a) \/ AbandonEgress(a)
  \/ CheckHealth(a)
  \/ \E result \in {"success", "wall", "failure", "guardrail"} : Execute(a, result)
  \/ Record(a) \/ Interrupt(a)
  \/ ReleaseEgress(a) \/ ReleaseIdentity(a) \/ Settle(a)

-----------------------------------------------------------------------------
(* The map of a lease manager.                                              *)

\* A lease is made of what the access asked for.
LEMMA LeaseIsMade ==
  ASSUME NEW a \in Access, AccessTypeOK, FallbackIsThere
  PROVE  /\ KeyOf(a) \in AccessKey /\ KeyOf(a)[1] = a
         /\ PathOf(a) \in Path /\ DomainOf[a] \in Domain
         /\ [key |-> KeyOf(a), scope |-> EgressScope(a), left |-> LeaseTime] \in EgressLease
         /\ [key |-> KeyOf(a), scope |-> DomainOf[a], left |-> LeaseTime] \in IdentityLease
BY AccessAssumption
   DEF AccessTypeOK, FallbackIsThere, KeyOf, AccessKey, PathOf, EgressScope, EgressLease, IdentityLease, Lease, Attempt

\* Sweeping, releasing and aging add no lease; aging keeps keys and scopes.
LEMMA MapsShrink ==
  ASSUME NEW leases, NEW key
  PROVE  /\ Unexpired(leases) \subseteq leases
         /\ Released(leases, key) \subseteq leases
         /\ \A lease \in Released(leases, key) : lease.key # key
BY DEF Unexpired, Released

LEMMA AgingKeepsLeases ==
  ASSUME NEW scopes, NEW leases, leases \subseteq Lease(scopes)
  PROVE  /\ AgedLeases(leases) \subseteq Lease(scopes)
         /\ \A lease \in AgedLeases(leases) :
              \E old \in leases : old.key = lease.key /\ old.scope = lease.scope
         /\ \A old \in leases :
              \E lease \in AgedLeases(leases) : old.key = lease.key /\ old.scope = lease.scope
<1> DEFINE Aged(lease) == [lease EXCEPT !.left = IF @ = 0 THEN 0 ELSE @ - 1]
<1>1. ASSUME NEW lease \in leases
      PROVE  Aged(lease) \in Lease(scopes) /\ Aged(lease).key = lease.key /\ Aged(lease).scope = lease.scope
  <2>1. lease \in Lease(scopes) /\ LeaseTime \in Nat
    BY <1>1, AccessAssumption
  <2> QED BY <2>1 DEF Lease
<1>2. AgedLeases(leases) = {Aged(lease) : lease \in leases}
  BY DEF AgedLeases
<1> HIDE DEF Aged
<1> QED BY <1>1, <1>2

\* The health of a subject stays a health under everything that is recorded.
LEMMA HealthStaysTyped ==
  ASSUME NEW s \in Subject, NEW h \in Health(Policy[s].quarantineTime)
  PROVE  /\ Older(h) \in Health(Policy[s].quarantineTime)
         /\ SuccessRecorded(h, Policy[s]) \in Health(Policy[s].quarantineTime)
         /\ FailureRecorded(h, Policy[s]) \in Health(Policy[s].quarantineTime)
<1> DEFINE time == Policy[s].quarantineTime
<1>1. time \in Nat \ {0} /\ time \in 0..time
  BY AccessAssumption
<1>2. /\ h.successes \in Nat /\ h.failures \in Nat
      /\ h.successStreak \in Nat /\ h.failureStreak \in Nat
      /\ h.quarantine \in 0..time \cup {NoQuarantine}
  BY DEF Health
<1>3. Older(h) \in Health(time)
  <2>1. (IF IsQuarantined(h) THEN h.quarantine - 1 ELSE h.quarantine)
           \in 0..time \cup {NoQuarantine}
    BY <1>1, <1>2 DEF IsQuarantined
  <2> HIDE DEF time
  <2> QED BY <2>1 DEF Older, Health
<1>4. SuccessRecorded(h, Policy[s]) \in Health(time)
  <2> DEFINE left == IF QuarantineEnded(h) /\ h.successStreak + 1 >= Policy[s].recoveryThreshold
                     THEN NoQuarantine ELSE h.quarantine
  <2>1. left \in 0..time \cup {NoQuarantine}
    BY <1>2
  <2>2. h.successes + 1 \in Nat /\ h.successStreak + 1 \in Nat
    BY <1>2
  <2>3. SuccessRecorded(h, Policy[s]) =
          [h EXCEPT !.successes = h.successes + 1, !.successStreak = h.successStreak + 1,
                    !.failureStreak = 0, !.quarantine = left]
    BY DEF SuccessRecorded
  <2>4. \A n, m \in Nat, q \in 0..time \cup {NoQuarantine} :
          [h EXCEPT !.successes = n, !.successStreak = m, !.failureStreak = 0,
                    !.quarantine = q] \in Health(time)
    BY DEF Health
  <2> HIDE DEF left, time
  <2>5. [h EXCEPT !.successes = h.successes + 1, !.successStreak = h.successStreak + 1,
                  !.failureStreak = 0, !.quarantine = left] \in Health(time)
    BY <2>1, <2>2, <2>4
  <2> QED BY <2>3, <2>5
<1>5. FailureRecorded(h, Policy[s]) \in Health(time)
  <2> DEFINE left == IF ~IsQuarantined(h) /\ h.failureStreak + 1 >= Policy[s].failureThreshold
                     THEN time ELSE h.quarantine
  <2>1. left \in 0..time \cup {NoQuarantine}
    BY <1>1, <1>2
  <2>2. h.failures + 1 \in Nat /\ h.failureStreak + 1 \in Nat
    BY <1>2
  <2>3. FailureRecorded(h, Policy[s]) =
          [h EXCEPT !.failures = h.failures + 1, !.failureStreak = h.failureStreak + 1,
                    !.successStreak = 0, !.quarantine = left]
    BY DEF FailureRecorded
  <2>4. \A n, m \in Nat, q \in 0..time \cup {NoQuarantine} :
          [h EXCEPT !.failures = n, !.failureStreak = m, !.successStreak = 0,
                    !.quarantine = q] \in Health(time)
    BY DEF Health
  <2> HIDE DEF left, time
  <2>5. [h EXCEPT !.failures = h.failures + 1, !.failureStreak = h.failureStreak + 1,
                  !.successStreak = 0, !.quarantine = left] \in Health(time)
    BY <2>1, <2>2, <2>4
  <2> QED BY <2>3, <2>5
<1> QED BY <1>3, <1>4, <1>5

-----------------------------------------------------------------------------
(* Typing.                                                                  *)

LEMMA AccessInitiallyHolds == AccessInit => AccessIInv
<1> SUFFICES ASSUME AccessInit PROVE AccessIInv
  OBVIOUS
<1>1. \A s \in Subject : Unseen \in Health(Policy[s].quarantineTime)
  BY DEF Unseen, Health
<1>2. AccessTypeOK
  BY <1>1 DEF AccessInit, AccessTypeOK, Attempt, Result
<1> QED BY <1>2 DEF AccessIInv, AccessInit, HealthIsKept, FallbackIsThere, LeasesAreReturned

-----------------------------------------------------------------------------
(* What the steps have in common.                                           *)

\* An access goes to a place; the others stay where they are.
LEMMA GoesTo ==
  ASSUME AccessTypeOK, NEW a \in Access, NEW place \in Places, Goto(a, place)
  PROVE  /\ pc' \in [Access -> Places] /\ pc'[a] = place
         /\ \A b \in Access \ {a} : pc'[b] = pc[b]
<1>1. pc \in [Access -> Places]
  BY DEF AccessTypeOK, Places
<1> QED BY <1>1 DEF Goto

LEMMA FinishesWith ==
  ASSUME AccessTypeOK, NEW a \in Access, NEW result \in Result, Finish(a, result)
  PROVE  results' \in [Access -> [Attempt -> Result]]
BY DEF AccessTypeOK, Finish

\* The subjects of a path are subjects; the first of those left is one.
LEMMA SubjectsAreSubjects ==
  ASSUME AccessTypeOK, FallbackIsThere, NEW a \in Access
  PROVE  /\ SubjectsFor(a) \in Seq(Subject)
         /\ [subjects EXCEPT ![a] = SubjectsFor(a)] \in [Access -> Seq(Subject)]
         /\ subjects[a] # <<>> =>
              /\ Head(subjects[a]) \in Subject
              /\ [subjects EXCEPT ![a] = Tail(subjects[a])] \in [Access -> Seq(Subject)]
<1>1. DomainOf[a] \in Subject /\ PathOf(a) \in Subject
  BY LeaseIsMade DEF Subject
<1>2. SubjectsFor(a) \in Seq(Subject)
  BY <1>1 DEF SubjectsFor
<1>3. subjects \in [Access -> Seq(Subject)] /\ subjects[a] \in Seq(Subject)
  BY DEF AccessTypeOK
<1>4. subjects[a] # <<>> =>
        Head(subjects[a]) \in Subject /\ Tail(subjects[a]) \in Seq(Subject)
  BY <1>3
<1> QED BY <1>2, <1>3, <1>4

\* The leases of the other accesses are where they were.
LEMMA OthersKeepTheirs ==
  ASSUME AccessTypeOK, LeasesAreReturned, NEW a \in Access,
         NEW place \in Places, Goto(a, place),
         \A b \in Access \ {a} : attempt'[b] = attempt[b]
  PROVE  /\ \A lease \in egress : lease.key[1] # a =>
              /\ lease.key[1] \in Access
              /\ lease.key = KeyOf(lease.key[1])' /\ pc'[lease.key[1]] \in HoldsEgress
         /\ \A lease \in identity : lease.key[1] # a =>
              /\ lease.key[1] \in Access
              /\ lease.key = KeyOf(lease.key[1])' /\ pc'[lease.key[1]] \in HoldsIdentity
<1>1. /\ \A lease \in egress : lease.key[1] \in Access
      /\ \A lease \in identity : lease.key[1] \in Access
  BY DEF AccessTypeOK, Lease, AccessKey
<1>2. \A b \in Access \ {a} : pc'[b] = pc[b] /\ KeyOf(b)' = KeyOf(b)
  BY GoesTo DEF KeyOf
<1> QED BY <1>1, <1>2 DEF LeasesAreReturned, HoldsEgress, HoldsIdentity

\* What a lease of an access says about the access.
LEMMA LeaseNamesItsHolder ==
  ASSUME AccessTypeOK, LeasesAreReturned, NEW a \in Access
  PROVE  /\ \A lease \in egress : lease.key[1] = a =>
              lease.key = KeyOf(a) /\ pc[a] \in HoldsEgress
         /\ \A lease \in identity : lease.key[1] = a =>
              lease.key = KeyOf(a) /\ pc[a] \in HoldsIdentity
BY DEF LeasesAreReturned, HoldsEgress, HoldsIdentity

\* Leases are typed and returned after a step of an access that adds at most the
\* lease it asked for, and ends where its leases allow it to be.
LEMMA LeasesStayReturned ==
  ASSUME AccessTypeOK, FallbackIsThere, LeasesAreReturned, NEW a \in Access,
         NEW place \in Places, Goto(a, place), attempt' = attempt,
         \A lease \in egress' :
           \/ lease \in egress
           \/ lease = [key |-> KeyOf(a), scope |-> EgressScope(a), left |-> LeaseTime],
         \A lease \in identity' :
           \/ lease \in identity
           \/ lease = [key |-> KeyOf(a), scope |-> DomainOf[a], left |-> LeaseTime],
         place \in HoldsEgress \/ \A lease \in egress' : lease.key # KeyOf(a),
         place \in HoldsIdentity \/ \A lease \in identity' : lease.key # KeyOf(a)
  PROVE  egress' \subseteq EgressLease /\ identity' \subseteq IdentityLease /\ LeasesAreReturned'
<1>1. egress' \subseteq EgressLease /\ identity' \subseteq IdentityLease
  BY LeaseIsMade DEF AccessTypeOK, EgressLease, IdentityLease
<1>2. pc'[a] = place /\ KeyOf(a)' = KeyOf(a) /\ KeyOf(a)[1] = a
  BY GoesTo, LeaseIsMade DEF KeyOf
<1>3. ASSUME NEW lease \in egress'
      PROVE  lease.key = KeyOf(lease.key[1])' /\ pc'[lease.key[1]] \in HoldsEgress
  <2>1. CASE lease.key[1] # a
    <3>1. lease \in egress
      BY <1>2, <1>3, <2>1
    <3> QED BY <2>1, <3>1, OthersKeepTheirs
  <2>2. CASE lease.key[1] = a
    <3>1. lease.key = KeyOf(a)
      BY <1>3, <2>2, LeaseNamesItsHolder
    <3> QED BY <1>2, <1>3, <2>2, <3>1
  <2> QED BY <2>1, <2>2
<1>4. ASSUME NEW lease \in identity'
      PROVE  lease.key = KeyOf(lease.key[1])' /\ pc'[lease.key[1]] \in HoldsIdentity
  <2>1. CASE lease.key[1] # a
    <3>1. lease \in identity
      BY <1>2, <1>4, <2>1
    <3> QED BY <2>1, <3>1, OthersKeepTheirs
  <2>2. CASE lease.key[1] = a
    <3>1. lease.key = KeyOf(a)
      BY <1>4, <2>2, LeaseNamesItsHolder
    <3> QED BY <1>2, <1>4, <2>2, <3>1
  <2> QED BY <2>1, <2>2
<1> QED BY <1>1, <1>3, <1>4 DEF LeasesAreReturned, HoldsEgress, HoldsIdentity

-----------------------------------------------------------------------------
(* The steps of an access.                                                  *)

\* The parts of the invariant that a step establishes one by one.
LEMMA PartsMakeInvariant ==
  ASSUME egress' \subseteq EgressLease, identity' \subseteq IdentityLease, LeasesAreReturned',
         \A s \in Subject : health'[s] \in Health(Policy[s].quarantineTime),
         DOMAIN health' = Subject,
         pc' \in [Access -> Places], attempt' \in [Access -> Attempt],
         subjects' \in [Access -> Seq(Subject)],
         results' \in [Access -> [Attempt -> Result]], interrupted' \subseteq Access,
         FallbackIsThere'
  PROVE  AccessIInv'
BY DEF AccessIInv, AccessTypeOK, HealthIsKept, EgressLease, IdentityLease, Places

\* An access that leaves everything but the leases and its own place alone.
LEMMA LeasingSteps ==
  ASSUME AccessIInv, NEW a \in Access,
         Begin(a) \/ SweepEgress(a) \/ LeaseEgress(a) \/ SweepIdentity(a)
           \/ LeaseIdentity(a) \/ AbandonEgress(a)
  PROVE  AccessIInv'
<1> USE DEF AccessIInv
<1>0. /\ pc[a] \in Places /\ KeyOf(a)[1] = a
      /\ {"none", "unavailable"} \subseteq Result
      /\ \A lease \in egress : lease.key = KeyOf(a) => pc[a] \in HoldsEgress
      /\ \A lease \in identity : lease.key = KeyOf(a) => pc[a] \in HoldsIdentity
  BY LeaseIsMade, LeaseNamesItsHolder DEF AccessTypeOK, Places, Result
<1>1. CASE Begin(a)
  <2>1. Goto(a, "sweepingEgress") /\ "sweepingEgress" \in Places
    BY <1>1 DEF Begin, Places
  <2>2. egress' \subseteq EgressLease /\ identity' \subseteq IdentityLease /\ LeasesAreReturned'
    BY <1>0, <1>1, <2>1, LeasesStayReturned DEF Begin, HoldsEgress, HoldsIdentity, PathHeld
  <2> QED BY <1>1, <2>1, <2>2, GoesTo, PartsMakeInvariant
          DEF Begin, AccessTypeOK, HealthIsKept, FallbackIsThere
<1>2. CASE SweepEgress(a)
  <2>1. Goto(a, "leasingEgress") /\ "leasingEgress" \in Places
    BY <1>2 DEF SweepEgress, Places
  <2>2. egress' \subseteq EgressLease /\ identity' \subseteq IdentityLease /\ LeasesAreReturned'
    BY <1>0, <1>2, <2>1, MapsShrink, LeasesStayReturned
       DEF SweepEgress, HoldsEgress, HoldsIdentity, PathHeld
  <2> QED BY <1>2, <2>1, <2>2, GoesTo, PartsMakeInvariant
          DEF SweepEgress, AccessTypeOK, HealthIsKept, FallbackIsThere
<1>3. CASE LeaseEgress(a)
  <2>1. CASE Goto(a, "sweepingIdentity") /\ UNCHANGED results
             /\ egress' = Allocated(egress, EgressScope(a), KeyOf(a), LeaseTime)
    <3>1. "sweepingIdentity" \in Places /\ "sweepingIdentity" \in HoldsEgress
      BY DEF Places, PathHeld, HoldsEgress
    <3>2. egress' \subseteq EgressLease /\ identity' \subseteq IdentityLease /\ LeasesAreReturned'
      BY <1>0, <1>3, <2>1, <3>1, LeasesStayReturned DEF LeaseEgress, Allocated, HoldsIdentity
    <3> QED BY <1>3, <2>1, <3>1, <3>2, GoesTo, PartsMakeInvariant
            DEF LeaseEgress, AccessTypeOK, HealthIsKept, FallbackIsThere
  <2>2. CASE Goto(a, "done") /\ Finish(a, "unavailable") /\ UNCHANGED egress
    <3>1. "done" \in Places
      BY DEF Places
    <3>2. egress' \subseteq EgressLease /\ identity' \subseteq IdentityLease /\ LeasesAreReturned'
      BY <1>0, <1>3, <2>2, <3>1, LeasesStayReturned
         DEF LeaseEgress, HoldsEgress, HoldsIdentity, PathHeld
    <3> QED BY <1>0, <1>3, <2>2, <3>1, <3>2, GoesTo, FinishesWith, PartsMakeInvariant
            DEF LeaseEgress, AccessTypeOK, HealthIsKept, FallbackIsThere
  <2> QED BY <1>3, <2>1, <2>2 DEF LeaseEgress
<1>4. CASE SweepIdentity(a)
  <2>1. Goto(a, "leasingIdentity") /\ "leasingIdentity" \in Places
        /\ "leasingIdentity" \in HoldsEgress
    BY <1>4 DEF SweepIdentity, Places, PathHeld, HoldsEgress
  <2>2. egress' \subseteq EgressLease /\ identity' \subseteq IdentityLease /\ LeasesAreReturned'
    BY <1>0, <1>4, <2>1, MapsShrink, LeasesStayReturned DEF SweepIdentity, HoldsIdentity
  <2> QED BY <1>4, <2>1, <2>2, GoesTo, PartsMakeInvariant
          DEF SweepIdentity, AccessTypeOK, HealthIsKept, FallbackIsThere
<1>5. CASE LeaseIdentity(a)
  <2>1. ASSUME NEW place \in {"checking", "executing"}, Goto(a, place),
               identity' = Allocated(identity, DomainOf[a], KeyOf(a), LeaseTime),
               subjects' = [subjects EXCEPT ![a] = SubjectsFor(a)]
        PROVE  AccessIInv'
    <3>1. place \in Places /\ place \in HoldsEgress /\ place \in HoldsIdentity
      BY DEF Places, PathHeld, HoldsEgress, HoldsIdentity
    <3>2. egress' \subseteq EgressLease /\ identity' \subseteq IdentityLease /\ LeasesAreReturned'
      BY <1>5, <2>1, <3>1, LeasesStayReturned DEF LeaseIdentity, Allocated
    <3> QED BY <1>5, <2>1, <3>1, <3>2, GoesTo, SubjectsAreSubjects, PartsMakeInvariant
            DEF LeaseIdentity, AccessTypeOK, HealthIsKept, FallbackIsThere
  <2>2. CASE Goto(a, "abandoning") /\ UNCHANGED <<identity, subjects>>
    <3>1. "abandoning" \in Places /\ "abandoning" \in HoldsEgress
      BY DEF Places, PathHeld, HoldsEgress
    <3>2. egress' \subseteq EgressLease /\ identity' \subseteq IdentityLease /\ LeasesAreReturned'
      BY <1>0, <1>5, <2>2, <3>1, LeasesStayReturned DEF LeaseIdentity, HoldsIdentity
    <3> QED BY <1>5, <2>2, <3>1, <3>2, GoesTo, PartsMakeInvariant
            DEF LeaseIdentity, AccessTypeOK, HealthIsKept, FallbackIsThere
  <2> QED BY <1>5, <2>1, <2>2 DEF LeaseIdentity
<1>6. CASE AbandonEgress(a)
  <2>1. Goto(a, "done") /\ Finish(a, "unavailable") /\ "done" \in Places
    BY <1>6 DEF AbandonEgress, Places
  <2>2. egress' \subseteq EgressLease /\ identity' \subseteq IdentityLease /\ LeasesAreReturned'
    BY <1>0, <1>6, <2>1, MapsShrink, LeasesStayReturned DEF AbandonEgress, HoldsIdentity
  <2> QED BY <1>0, <1>6, <2>1, <2>2, GoesTo, FinishesWith, PartsMakeInvariant
          DEF AbandonEgress, AccessTypeOK, HealthIsKept, FallbackIsThere
<1> QED BY <1>1, <1>2, <1>3, <1>4, <1>5, <1>6

\* An access that uses its path, is interrupted, or has released it.
LEMMA UsingSteps ==
  ASSUME AccessIInv, NEW a \in Access,
         CheckHealth(a) \/ Interrupt(a) \/ Settle(a)
           \/ \E result \in {"success", "wall", "failure", "guardrail"} : Execute(a, result)
  PROVE  AccessIInv'
<1> USE DEF AccessIInv
<1>0. /\ pc[a] \in Places /\ KeyOf(a)[1] = a
      /\ {"success", "wall", "failure", "guardrail", "quarantined"} \subseteq Result
      /\ {"executing", "releasing", "recording"} \subseteq Places \cap HoldsEgress \cap HoldsIdentity
      /\ {"done", "concluding"} \subseteq Places
      /\ \A lease \in egress : lease.key = KeyOf(a) => pc[a] \in HoldsEgress
      /\ \A lease \in identity : lease.key = KeyOf(a) => pc[a] \in HoldsIdentity
  <2>1. /\ {"success", "wall", "failure", "guardrail", "quarantined"} \subseteq Result
        /\ {"executing", "releasing", "recording"} \subseteq Places \cap HoldsEgress \cap HoldsIdentity
        /\ {"done", "concluding"} \subseteq Places
    BY DEF Places, Result, PathHeld, HoldsEgress, HoldsIdentity
  <2>2. pc[a] \in Places /\ KeyOf(a)[1] = a
    BY LeaseIsMade DEF AccessTypeOK, Places
  <2> QED BY <2>1, <2>2, LeaseNamesItsHolder
<1>1. CASE CheckHealth(a)
  <2>1. PICK place \in {"executing", "releasing", "checking"} : Goto(a, place)
    BY <1>1 DEF CheckHealth, Goto, AccessTypeOK
  <2>2. place \in Places /\ place \in HoldsEgress /\ place \in HoldsIdentity
    BY <1>0, <2>1 DEF Places, PathHeld, HoldsEgress, HoldsIdentity
  <2>3. egress' \subseteq EgressLease /\ identity' \subseteq IdentityLease /\ LeasesAreReturned'
    BY <1>1, <2>1, <2>2, LeasesStayReturned DEF CheckHealth
  <2>4. subjects' \in [Access -> Seq(Subject)] /\ results' \in [Access -> [Attempt -> Result]]
    BY <1>0, <1>1, SubjectsAreSubjects, FinishesWith DEF CheckHealth, AccessTypeOK
  <2> QED BY <1>1, <2>1, <2>2, <2>3, <2>4, GoesTo, PartsMakeInvariant
          DEF CheckHealth, AccessTypeOK, HealthIsKept, FallbackIsThere
<1>2. ASSUME NEW result \in {"success", "wall", "failure", "guardrail"}, Execute(a, result)
      PROVE  AccessIInv'
  <2>1. PICK place \in {"recording", "releasing"} : Goto(a, place)
    BY <1>2 DEF Execute
  <2>2. place \in Places /\ place \in HoldsEgress /\ place \in HoldsIdentity
    BY <1>0, <2>1
  <2>3. egress' \subseteq EgressLease /\ identity' \subseteq IdentityLease /\ LeasesAreReturned'
    BY <1>2, <2>1, <2>2, LeasesStayReturned DEF Execute
  <2>4. results' \in [Access -> [Attempt -> Result]]
    BY <1>0, <1>2, FinishesWith DEF Execute
  <2> QED BY <1>2, <2>1, <2>2, <2>3, <2>4, GoesTo, PartsMakeInvariant
          DEF Execute, AccessTypeOK, HealthIsKept, FallbackIsThere
<1>3. CASE Interrupt(a)
  <2>1. CASE pc[a] \in PathHeld
    <3>1. Goto(a, "releasing")
      BY <1>3, <2>1 DEF Interrupt
    <3>2. egress' \subseteq EgressLease /\ identity' \subseteq IdentityLease /\ LeasesAreReturned'
      BY <1>0, <1>3, <3>1, LeasesStayReturned DEF Interrupt
    <3> QED BY <1>0, <1>3, <3>1, <3>2, GoesTo, PartsMakeInvariant
            DEF Interrupt, AccessTypeOK, HealthIsKept, FallbackIsThere
  <2>2. CASE pc[a] \notin PathHeld
    <3>1. Goto(a, "done") /\ pc[a] \notin HoldsEgress /\ pc[a] \notin HoldsIdentity
      BY <1>3, <2>2 DEF Interrupt, HoldsEgress, HoldsIdentity, PathHeld
    <3>2. egress' \subseteq EgressLease /\ identity' \subseteq IdentityLease /\ LeasesAreReturned'
      BY <1>0, <1>3, <3>1, LeasesStayReturned DEF Interrupt
    <3> QED BY <1>0, <1>3, <3>1, <3>2, GoesTo, PartsMakeInvariant
            DEF Interrupt, AccessTypeOK, HealthIsKept, FallbackIsThere
  <2> QED BY <2>1, <2>2
<1>4. CASE Settle(a)
  <2>1. PICK place \in {"concluding", "done"} : Goto(a, place)
    BY <1>4 DEF Settle
  <2>2. place \in Places /\ pc[a] \notin HoldsEgress /\ pc[a] \notin HoldsIdentity
    BY <1>0, <1>4, <2>1 DEF Settle, HoldsEgress, HoldsIdentity, PathHeld
  <2>3. egress' \subseteq EgressLease /\ identity' \subseteq IdentityLease /\ LeasesAreReturned'
    BY <1>0, <1>4, <2>1, <2>2, LeasesStayReturned DEF Settle
  <2>4. subjects' \in [Access -> Seq(Subject)]
    BY <1>4, SubjectsAreSubjects DEF Settle, AccessTypeOK
  <2> QED BY <1>4, <2>1, <2>2, <2>3, <2>4, GoesTo, PartsMakeInvariant
          DEF Settle, AccessTypeOK, HealthIsKept, FallbackIsThere
<1> QED BY <1>1, <1>2, <1>3, <1>4

\* An access that records an outcome with one subject, or is through with them:
\* only one that has returned its leases starts over, and then on its fallback.
LEMMA RecordingStep ==
  ASSUME AccessIInv, NEW a \in Access, Record(a)
  PROVE  AccessIInv'
<1> USE DEF AccessIInv
<1>0. /\ KeyOf(a)[1] = a
      /\ \A lease \in egress : lease.key[1] = a => pc[a] \in HoldsEgress
      /\ \A lease \in identity : lease.key[1] = a => pc[a] \in HoldsIdentity
      /\ {"releasing", "recording"} \subseteq Places \cap HoldsEgress \cap HoldsIdentity
      /\ {"sweepingEgress", "concluding", "done"} \subseteq Places
      /\ "concluding" \notin HoldsEgress /\ "concluding" \notin HoldsIdentity
  BY LeaseIsMade, LeaseNamesItsHolder DEF Places, PathHeld, HoldsEgress, HoldsIdentity
<1>1. CASE subjects[a] # <<>>
  <2>1. Goto(a, pc[a]) /\ pc[a] \in Places
    BY <1>0, <1>1 DEF Record, Goto, AccessTypeOK
  <2>2. egress' \subseteq EgressLease /\ identity' \subseteq IdentityLease /\ LeasesAreReturned'
    BY <1>0, <1>1, <2>1, LeasesStayReturned DEF Record
  <2>3. subjects' \in [Access -> Seq(Subject)]
    BY <1>1, SubjectsAreSubjects DEF Record
  <2>4. /\ \A s \in Subject : health'[s] \in Health(Policy[s].quarantineTime)
        /\ DOMAIN health' = Subject
    <3>1. Head(subjects[a]) \in Subject
      BY <1>1, SubjectsAreSubjects
    <3>2. /\ DOMAIN health' = Subject
          /\ \A s \in Subject : health'[s] \in {health[s],
               SuccessRecorded(health[s], Policy[s]), FailureRecorded(health[s], Policy[s])}
      BY <1>1, <3>1 DEF Record, HealthIsKept
    <3> QED BY <3>2, HealthStaysTyped DEF AccessTypeOK
  <2> QED BY <1>1, <2>1, <2>2, <2>3, <2>4, GoesTo, PartsMakeInvariant
          DEF Record, AccessTypeOK, FallbackIsThere
<1>2. CASE subjects[a] = <<>> /\ pc[a] = "recording"
  <2>1. Goto(a, "releasing") /\ attempt' = attempt
    BY <1>2 DEF Record, AccessTypeOK
  <2>2. egress' \subseteq EgressLease /\ identity' \subseteq IdentityLease /\ LeasesAreReturned'
    BY <1>0, <1>2, <2>1, LeasesStayReturned DEF Record
  <2> QED BY <1>0, <1>2, <2>1, <2>2, GoesTo, PartsMakeInvariant
          DEF Record, AccessTypeOK, HealthIsKept, FallbackIsThere
<1>3. CASE subjects[a] = <<>> /\ pc[a] = "concluding"
  <2>1. PICK place \in {"sweepingEgress", "done"} : Goto(a, place)
    BY <1>3 DEF Record
  <2>2. /\ attempt' \in [Access -> Attempt]
        /\ \A b \in Access \ {a} : attempt'[b] = attempt[b]
        /\ attempt'[a] = "fallback" => NeedsFallback(a) \/ attempt[a] = "fallback"
    BY <1>3 DEF Record, AccessTypeOK, Attempt
  <2>3. FallbackIsThere'
    BY <2>2 DEF FallbackIsThere, NeedsFallback
  <2>4. LeasesAreReturned'
    <3>1. /\ \A lease \in egress : lease.key[1] # a
          /\ \A lease \in identity : lease.key[1] # a
      BY <1>0, <1>3
    <3>2. egress' = egress /\ identity' = identity
      BY <1>3 DEF Record
    <3>3. /\ \A lease \in egress : lease.key = KeyOf(lease.key[1])'
                                 /\ pc'[lease.key[1]] \in HoldsEgress
          /\ \A lease \in identity : lease.key = KeyOf(lease.key[1])'
                                   /\ pc'[lease.key[1]] \in HoldsIdentity
      BY <1>0, <2>1, <2>2, <3>1, OthersKeepTheirs
    <3> QED BY <3>2, <3>3 DEF LeasesAreReturned, HoldsEgress, HoldsIdentity
  <2>5. egress' \subseteq EgressLease /\ identity' \subseteq IdentityLease
    BY <1>3 DEF Record, AccessTypeOK, EgressLease, IdentityLease
  <2> QED BY <1>0, <1>3, <2>1, <2>2, <2>3, <2>4, <2>5, GoesTo, PartsMakeInvariant
          DEF Record, AccessTypeOK, HealthIsKept
<1> QED BY <1>1, <1>2, <1>3 DEF Record

\* An access that returns its leases, in any order.
LEMMA ReleasingSteps ==
  ASSUME AccessIInv, NEW a \in Access, ReleaseEgress(a) \/ ReleaseIdentity(a)
  PROVE  AccessIInv'
<1> USE DEF AccessIInv
<1>0. /\ {"releasingIdentity", "releasingEgress", "settling"} \subseteq Places
      /\ "releasingIdentity" \in HoldsIdentity /\ "releasingEgress" \in HoldsEgress
      /\ "releasingIdentity" \notin HoldsEgress /\ "releasingEgress" \notin HoldsIdentity
      /\ KeyOf(a)[1] = a
      /\ \A lease \in egress : lease.key = KeyOf(a) => pc[a] \in HoldsEgress
      /\ \A lease \in identity : lease.key = KeyOf(a) => pc[a] \in HoldsIdentity
  BY LeaseIsMade, LeaseNamesItsHolder DEF Places, PathHeld, HoldsEgress, HoldsIdentity
<1>1. CASE ReleaseEgress(a)
  <2>1. \E place \in {"releasingIdentity", "settling"} :
          /\ Goto(a, place)
          /\ place = "settling" => pc[a] = "releasingEgress"
    BY <1>1 DEF ReleaseEgress
  <2>2. PICK place \in {"releasingIdentity", "settling"} :
          /\ Goto(a, place)
          /\ place = "settling" => pc[a] = "releasingEgress"
    BY <2>1
  <2>3. place \in HoldsIdentity \/ \A lease \in identity' : lease.key # KeyOf(a)
    BY <1>0, <1>1, <2>2 DEF ReleaseEgress
  <2>4. egress' \subseteq EgressLease /\ identity' \subseteq IdentityLease /\ LeasesAreReturned'
    BY <1>0, <1>1, <2>2, <2>3, MapsShrink, LeasesStayReturned DEF ReleaseEgress
  <2> QED BY <1>0, <1>1, <2>2, <2>4, GoesTo, PartsMakeInvariant
          DEF ReleaseEgress, AccessTypeOK, HealthIsKept, FallbackIsThere
<1>2. CASE ReleaseIdentity(a)
  <2>1. \E place \in {"releasingEgress", "settling"} :
          /\ Goto(a, place)
          /\ place = "settling" => pc[a] = "releasingIdentity"
    BY <1>2 DEF ReleaseIdentity
  <2>2. PICK place \in {"releasingEgress", "settling"} :
          /\ Goto(a, place)
          /\ place = "settling" => pc[a] = "releasingIdentity"
    BY <2>1
  <2>3. place \in HoldsEgress \/ \A lease \in egress' : lease.key # KeyOf(a)
    BY <1>0, <1>2, <2>2 DEF ReleaseIdentity
  <2>4. egress' \subseteq EgressLease /\ identity' \subseteq IdentityLease /\ LeasesAreReturned'
    BY <1>0, <1>2, <2>2, <2>3, MapsShrink, LeasesStayReturned DEF ReleaseIdentity
  <2> QED BY <1>0, <1>2, <2>2, <2>4, GoesTo, PartsMakeInvariant
          DEF ReleaseIdentity, AccessTypeOK, HealthIsKept, FallbackIsThere
<1> QED BY <1>1, <1>2

\* An instant passes: leases age, and stay with their holders.
LEMMA TickStep == ASSUME AccessIInv, AccessTick PROVE AccessIInv'
<1> USE DEF AccessIInv
<1>1. egress' \subseteq EgressLease /\ identity' \subseteq IdentityLease
  BY AgingKeepsLeases DEF AccessTick, AccessTypeOK, EgressLease, IdentityLease
<1>2. LeasesAreReturned'
  <2>1. /\ \A lease \in egress' : \E old \in egress : old.key = lease.key
        /\ \A lease \in identity' : \E old \in identity : old.key = lease.key
    <3>1. egress \subseteq EgressLease /\ identity \subseteq IdentityLease
      BY DEF AccessTypeOK, EgressLease, IdentityLease
    <3>2. \A lease \in AgedLeases(egress) : \E old \in egress : old.key = lease.key
      BY <3>1, AgingKeepsLeases DEF EgressLease
    <3>3. \A lease \in AgedLeases(identity) : \E old \in identity : old.key = lease.key
      BY <3>1, AgingKeepsLeases DEF IdentityLease
    <3> QED BY <3>2, <3>3 DEF AccessTick
  <2>2. pc' = pc /\ \A b : KeyOf(b)' = KeyOf(b)
    BY DEF AccessTick, KeyOf
  <2> QED BY <2>1, <2>2 DEF LeasesAreReturned
<1>3. /\ \A s \in Subject : health'[s] \in Health(Policy[s].quarantineTime)
      /\ DOMAIN health' = Subject
  BY HealthStaysTyped DEF AccessTick, AccessTypeOK
<1> QED BY <1>1, <1>2, <1>3, PartsMakeInvariant DEF AccessTick, AccessTypeOK, Places, FallbackIsThere

\* Every step keeps the invariant.
LEMMA AccessStepHolds == AccessIInv /\ [AccessNext]_accessVars => AccessIInv'
<1> SUFFICES ASSUME AccessIInv, [AccessNext]_accessVars PROVE AccessIInv'
  OBVIOUS
<1>1. CASE UNCHANGED accessVars
  BY <1>1 DEF accessVars, AccessIInv, AccessTypeOK, HealthIsKept, FallbackIsThere,
              LeasesAreReturned, KeyOf
<1>2. ASSUME NEW a \in Access, Does(a) PROVE AccessIInv'
  BY <1>2, LeasingSteps, UsingSteps, RecordingStep, ReleasingSteps DEF Does
<1>3. CASE AccessTick
  BY <1>3, TickStep
<1> QED BY <1>1, <1>2, <1>3 DEF AccessNext, Does

\* The strengthened invariant holds for ever.
THEOREM AccessInvariant == AccessSpec => []AccessIInv
<1> QED BY AccessInitiallyHolds, AccessStepHolds, PTL DEF AccessSpec

\* Leases, places, subjects and healths have their types.
THEOREM AccessTyping == AccessSpec => []AccessTypeOK
<1>1. AccessIInv => AccessTypeOK
  BY DEF AccessIInv
<1> QED BY <1>1, AccessInvariant, PTL

\* No way through provision, use, failure, interruption and fallback leaves a lease
\* behind, for any number of accesses, capacities and lease times.
THEOREM LeasesAreAlwaysReturned == AccessSpec => []LeasesAreReturned
<1>1. AccessIInv => LeasesAreReturned
  BY DEF AccessIInv
<1> QED BY <1>1, AccessInvariant, PTL

-----------------------------------------------------------------------------
(* What a step may never do.                                                *)

\* Nothing an access records lifts, shortens or extends a quarantine that has
\* time left: only the time that passes does.
THEOREM QuarantineAlwaysRunsItsTime == AccessSpec => QuarantineRunsItsTime
<1> DEFINE Kept ==
      \A s \in Subject :
        IsQuarantined(health[s]) =>
          \/ health'[s].quarantine = health[s].quarantine
          \/ pc' = pc /\ subjects' = subjects /\ health'[s] = Older(health[s])
<1>1. AccessIInv /\ [AccessNext]_accessVars => [Kept]_accessVars
  <2> SUFFICES ASSUME AccessIInv, AccessNext, NEW s \in Subject, IsQuarantined(health[s])
               PROVE  \/ health'[s].quarantine = health[s].quarantine
                      \/ pc' = pc /\ subjects' = subjects /\ health'[s] = Older(health[s])
    OBVIOUS
  <2>1. ASSUME NEW a \in Access, Does(a)
        PROVE  health'[s].quarantine = health[s].quarantine
    <3>1. CASE health' = health
      BY <3>1
    <3>2. CASE Record(a) /\ health' # health
      <4>1. health'[s] \in {health[s], SuccessRecorded(health[s], Policy[s]),
                                       FailureRecorded(health[s], Policy[s])}
        BY <3>2 DEF Record, AccessIInv, HealthIsKept
      <4>2. health[s] \in Health(Policy[s].quarantineTime)
        BY DEF AccessIInv, AccessTypeOK
      <4>3. SuccessRecorded(health[s], Policy[s]).quarantine = health[s].quarantine
        BY <4>2 DEF SuccessRecorded, Health, IsQuarantined, QuarantineEnded
      <4>4. FailureRecorded(health[s], Policy[s]).quarantine = health[s].quarantine
        BY <4>2 DEF FailureRecorded, Health
      <4> QED BY <4>1, <4>3, <4>4
    <3> QED BY <2>1, <3>1, <3>2
            DEF Does, Begin, SweepEgress, LeaseEgress, SweepIdentity, LeaseIdentity, AbandonEgress,
                CheckHealth, Execute, Interrupt, ReleaseEgress, ReleaseIdentity, Settle
  <2>2. CASE AccessTick
    BY <2>2 DEF AccessTick
  <2> QED BY <2>1, <2>2 DEF AccessNext, Does
<1> QED BY <1>1, AccessInvariant, PTL DEF AccessSpec, QuarantineRunsItsTime

\* A lease with time left leaves the map of its manager only when its own access
\* moves: neither a sweep nor another access's release or acquisition takes it.
THEOREM LeasesAreAlwaysKept == AccessSpec => LeasesAreKept
<1> DEFINE Kept ==
      \A lease \in egress \cup identity :
        lease.left > 0 /\ pc'[lease.key[1]] = pc[lease.key[1]] =>
          \E kept \in egress' \cup identity' :
            kept.key = lease.key /\ kept.scope = lease.scope
<1>1. AccessIInv /\ [AccessNext]_accessVars => [Kept]_accessVars
  <2> SUFFICES ASSUME AccessIInv, AccessNext, NEW lease \in egress \cup identity,
                      lease.left > 0, pc'[lease.key[1]] = pc[lease.key[1]]
               PROVE  \E kept \in egress' \cup identity' :
                        kept.key = lease.key /\ kept.scope = lease.scope
    OBVIOUS
  <2>1. ASSUME NEW a \in Access, Does(a)
        PROVE  lease \in egress' \cup identity'
    <3>1. CASE egress' = egress /\ identity' = identity
      BY <3>1
    <3>2. pc \in [Access -> Places] /\ KeyOf(a)[1] = a
      BY LeaseIsMade DEF AccessIInv, AccessTypeOK, Places
    <3>3. CASE SweepEgress(a) \/ SweepIdentity(a)
      BY <3>3 DEF SweepEgress, SweepIdentity, Unexpired
    <3>4. CASE LeaseEgress(a) \/ AbandonEgress(a) \/ ReleaseEgress(a)
                 \/ LeaseIdentity(a) \/ ReleaseIdentity(a)
      <4>1. pc'[a] # pc[a]
        BY <3>2, <3>4 DEF LeaseEgress, AbandonEgress, ReleaseEgress, LeaseIdentity,
                          ReleaseIdentity, Goto
      <4>2. lease.key # KeyOf(a)
        BY <3>2, <4>1
      <4> QED BY <3>4, <4>2 DEF LeaseEgress, AbandonEgress, ReleaseEgress, LeaseIdentity,
                                ReleaseIdentity, Allocated, Released, Unexpired
    <3> QED BY <2>1, <3>1, <3>3, <3>4
            DEF Does, Begin, CheckHealth, Execute, Record, Interrupt, Settle
  <2>2. CASE AccessTick
    <3>1. egress \subseteq EgressLease /\ identity \subseteq IdentityLease
      BY DEF AccessIInv, AccessTypeOK, EgressLease, IdentityLease
    <3>2. lease \in egress =>
            \E kept \in AgedLeases(egress) : lease.key = kept.key /\ lease.scope = kept.scope
      BY <3>1, AgingKeepsLeases DEF EgressLease
    <3>3. lease \in identity =>
            \E kept \in AgedLeases(identity) : lease.key = kept.key /\ lease.scope = kept.scope
      BY <3>1, AgingKeepsLeases DEF IdentityLease
    <3> QED BY <2>2, <3>2, <3>3 DEF AccessTick
  <2> QED BY <2>1, <2>2 DEF AccessNext, Does
<1> QED BY <1>1, AccessInvariant, PTL DEF AccessSpec, LeasesAreKept

-----------------------------------------------------------------------------
(* The capacities of the lease managers.                                    *)

\* No pool, route or domain is leased to more accesses than it has room for,
\* however sweeps, acquisitions and releases of the accesses interleave.
CapacitiesHold ==
  /\ Cardinality(egress) <= MaxPool
  /\ \A p \in Path : Cardinality(InScope(egress, [pool |-> Pool, route |-> p])) <= MaxRoute
  /\ \A d \in Domain : Cardinality(InScope(identity, d)) <= MaxIdentity

MapsAreFinite == IsFiniteSet(egress) /\ IsFiniteSet(identity)

RoomIInv == AccessIInv /\ MapsAreFinite /\ CapacitiesHold

\* The number of leases in a map, and in a scope of it, is a number.
LEMMA SizesAreNumbers ==
  ASSUME NEW leases, IsFiniteSet(leases), NEW scope
  PROVE  /\ Cardinality(leases) \in Nat
         /\ IsFiniteSet(InScope(leases, scope)) /\ Cardinality(InScope(leases, scope)) \in Nat
<1>1. InScope(leases, scope) \subseteq leases
  BY DEF InScope
<1>2. IsFiniteSet(InScope(leases, scope))
  BY <1>1, FS_Subset
<1> QED BY <1>2, FS_CardinalityType

\* A map that lost leases has no more of them in any scope.
LEMMA FewerLeases ==
  ASSUME NEW leases, IsFiniteSet(leases), NEW fewer, fewer \subseteq leases, NEW scope
  PROVE  /\ IsFiniteSet(fewer) /\ Cardinality(fewer) <= Cardinality(leases)
         /\ Cardinality(InScope(fewer, scope)) <= Cardinality(InScope(leases, scope))
<1>1. InScope(fewer, scope) \subseteq InScope(leases, scope)
  BY DEF InScope
<1>2. IsFiniteSet(InScope(leases, scope))
  BY SizesAreNumbers
<1> QED BY <1>1, <1>2, FS_Subset

\* An allocation adds at most one lease, in its own scope.
LEMMA OneMoreLease ==
  ASSUME NEW leases, IsFiniteSet(leases), NEW scope, NEW key, NEW ttl, NEW other
  PROVE  LET more == Allocated(leases, scope, key, ttl)
         IN  /\ IsFiniteSet(more) /\ Cardinality(more) <= Cardinality(leases) + 1
             /\ Cardinality(InScope(more, other)) <=
                  Cardinality(InScope(leases, other)) + (IF other = scope THEN 1 ELSE 0)
<1> DEFINE rest == {lease \in leases : lease.key # key}
           new  == [key |-> key, scope |-> scope, left |-> ttl]
           more == rest \cup {new}
<1>1. /\ IsFiniteSet(rest) /\ Cardinality(rest) <= Cardinality(leases)
      /\ Cardinality(InScope(rest, other)) <= Cardinality(InScope(leases, other))
  <2>1. rest \subseteq leases
    OBVIOUS
  <2> HIDE DEF rest
  <2> QED BY <2>1, FewerLeases
<1>2. /\ Cardinality(rest) \in Nat /\ Cardinality(leases) \in Nat
      /\ IsFiniteSet(InScope(rest, other)) /\ Cardinality(InScope(rest, other)) \in Nat
      /\ Cardinality(InScope(leases, other)) \in Nat
  BY <1>1, SizesAreNumbers
<1>3. InScope(more, other) = IF other = scope THEN InScope(rest, other) \cup {new}
                                              ELSE InScope(rest, other)
  BY DEF InScope
<1>4. Allocated(leases, scope, key, ttl) = more
  BY DEF Allocated
<1> HIDE DEF rest, new
<1>5. IsFiniteSet(more) /\ Cardinality(more) <= Cardinality(rest) + 1
  BY <1>1, <1>2, FS_AddElement
<1>6. Cardinality(InScope(rest, other) \cup {new}) <= Cardinality(InScope(rest, other)) + 1
  <2> DEFINE S == InScope(rest, other)
  <2>1. IsFiniteSet(S) /\ Cardinality(S) \in Nat
    BY <1>2
  <2> HIDE DEF S
  <2>2. Cardinality(S \cup {new}) = IF new \in S THEN Cardinality(S) ELSE Cardinality(S) + 1
    BY <2>1, FS_AddElement
  <2>3. Cardinality(S \cup {new}) <= Cardinality(S) + 1
    BY <2>1, <2>2
  <2> QED BY <2>3 DEF S
<1>7. Cardinality(InScope(more, other)) <=
        Cardinality(InScope(leases, other)) + (IF other = scope THEN 1 ELSE 0)
  <2>1. CASE other = scope
    <3>1. InScope(more, other) = InScope(rest, other) \cup {new}
      BY <1>3, <2>1
    <3>2. Cardinality(InScope(more, other)) \in Nat
      BY <1>2, <3>1, FS_AddElement, FS_CardinalityType
    <3> QED BY <1>1, <1>2, <1>6, <2>1, <3>1, <3>2
  <2>2. CASE other # scope
    BY <1>1, <1>2, <1>3, <2>2
  <2> QED BY <2>1, <2>2
<1>8. Cardinality(more) <= Cardinality(leases) + 1
  BY <1>1, <1>2, <1>5, FS_CardinalityType
<1> QED BY <1>4, <1>5, <1>7, <1>8

\* Aging makes no leases.
LEMMA NoMoreAged ==
  ASSUME NEW scopes, NEW leases, leases \subseteq Lease(scopes), IsFiniteSet(leases), NEW scope
  PROVE  /\ IsFiniteSet(AgedLeases(leases)) /\ Cardinality(AgedLeases(leases)) <= Cardinality(leases)
         /\ Cardinality(InScope(AgedLeases(leases), scope)) <= Cardinality(InScope(leases, scope))
<1> DEFINE Aged(lease) == [lease EXCEPT !.left = IF @ = 0 THEN 0 ELSE @ - 1]
<1>1. /\ AgedLeases(leases) = {Aged(lease) : lease \in leases}
      /\ InScope(AgedLeases(leases), scope) = {Aged(lease) : lease \in InScope(leases, scope)}
  <2>1. \A lease \in leases : Aged(lease).scope = lease.scope
    BY DEF Lease
  <2>2. AgedLeases(leases) = {Aged(lease) : lease \in leases}
    BY DEF AgedLeases
  <2> HIDE DEF Aged
  <2> QED BY <2>1, <2>2 DEF InScope
<1>2. IsFiniteSet(InScope(leases, scope))
  BY SizesAreNumbers
<1> DEFINE step == [lease \in leases |-> Aged(lease)]
           here == [lease \in InScope(leases, scope) |-> Aged(lease)]
<1> HIDE DEF Aged
<1>3. step \in Surjection(leases, AgedLeases(leases))
  BY <1>1 DEF Surjection
<1>4. here \in Surjection(InScope(leases, scope), InScope(AgedLeases(leases), scope))
  BY <1>1 DEF Surjection
<1> QED BY <1>2, <1>3, <1>4, FS_Surjection

\* Whatever an access does to the maps, they stay within their capacities.
LEMMA RoomStepHolds == RoomIInv /\ [AccessNext]_accessVars => RoomIInv'
<1> SUFFICES ASSUME RoomIInv, [AccessNext]_accessVars PROVE RoomIInv'
  OBVIOUS
<1> USE DEF RoomIInv, MapsAreFinite
<1> DEFINE routeScope(p) == [pool |-> Pool, route |-> p]
<1>0. /\ AccessIInv' /\ {MaxPool, MaxRoute, MaxIdentity} \subseteq Nat
      /\ egress \subseteq EgressLease /\ identity \subseteq IdentityLease
  BY AccessStepHolds, AccessAssumption DEF AccessIInv, AccessTypeOK, EgressLease, IdentityLease
<1>1. ASSUME egress' = egress \/ egress' \subseteq egress \/ egress' = AgedLeases(egress),
             identity' = identity \/ identity' \subseteq identity \/ identity' = AgedLeases(identity)
      PROVE  RoomIInv'
  <2>1. /\ IsFiniteSet(egress') /\ Cardinality(egress') <= Cardinality(egress)
        /\ \A scope : Cardinality(InScope(egress', scope)) <= Cardinality(InScope(egress, scope))
    BY <1>0, <1>1, FewerLeases, NoMoreAged DEF EgressLease
  <2>2. /\ IsFiniteSet(identity')
        /\ \A scope : Cardinality(InScope(identity', scope)) <= Cardinality(InScope(identity, scope))
    BY <1>0, <1>1, FewerLeases, NoMoreAged DEF IdentityLease
  <2>3. /\ Cardinality(egress) \in Nat /\ Cardinality(egress') \in Nat
        /\ \A scope : /\ Cardinality(InScope(egress, scope)) \in Nat
                      /\ Cardinality(InScope(egress', scope)) \in Nat
                      /\ Cardinality(InScope(identity, scope)) \in Nat
                      /\ Cardinality(InScope(identity', scope)) \in Nat
    BY <2>1, <2>2, SizesAreNumbers
  <2>4. CapacitiesHold'
    BY <1>0, <2>1, <2>2, <2>3 DEF CapacitiesHold
  <2> QED BY <1>0, <2>1, <2>2, <2>4
<1>2. ASSUME NEW a \in Access, LeaseEgress(a), egress' # egress PROVE RoomIInv'
  <2>0. /\ HasRoomInPool(egress, EgressScope(a), KeyOf(a), MaxPool, MaxRoute)
        /\ egress' = Allocated(egress, EgressScope(a), KeyOf(a), LeaseTime)
    BY <1>2 DEF LeaseEgress
  <2>1. /\ Cardinality(egress) < MaxPool
        /\ Cardinality(InScope(egress, EgressScope(a))) < MaxRoute
    <3>1. InPool(egress, EgressScope(a).pool) = egress
      BY <1>0 DEF InPool, EgressScope, EgressLease, Lease
    <3> QED BY <2>0, <3>1 DEF HasRoomInPool, HasRoom
  <2>2. /\ IsFiniteSet(egress') /\ Cardinality(egress') <= Cardinality(egress) + 1
        /\ \A other : Cardinality(InScope(egress', other)) <=
              Cardinality(InScope(egress, other)) + (IF other = EgressScope(a) THEN 1 ELSE 0)
    BY <2>0, OneMoreLease
  <2>3. /\ Cardinality(egress) \in Nat /\ Cardinality(egress') \in Nat
        /\ \A scope : /\ Cardinality(InScope(egress, scope)) \in Nat
                      /\ Cardinality(InScope(egress', scope)) \in Nat
    BY <2>2, SizesAreNumbers
  <2>4. identity' = identity
    BY <1>2 DEF LeaseEgress
  <2>5. Cardinality(egress') <= MaxPool
    BY <1>0, <2>1, <2>2, <2>3
  <2>6. ASSUME NEW p \in Path PROVE Cardinality(InScope(egress', routeScope(p))) <= MaxRoute
    <3>1. Cardinality(InScope(egress, routeScope(p))) <= MaxRoute
      BY DEF CapacitiesHold
    <3> HIDE DEF routeScope
    <3>2. CASE routeScope(p) = EgressScope(a)
      BY <1>0, <2>1, <2>2, <2>3, <3>1, <3>2
    <3>3. CASE routeScope(p) # EgressScope(a)
      BY <1>0, <2>2, <2>3, <3>1, <3>3
    <3> QED BY <3>2, <3>3
  <2>7. CapacitiesHold'
    BY <2>4, <2>5, <2>6 DEF CapacitiesHold
  <2> QED BY <1>0, <2>2, <2>4, <2>7
<1>3. ASSUME NEW a \in Access, LeaseIdentity(a), identity' # identity PROVE RoomIInv'
  <2>1. /\ HasRoom(identity, DomainOf[a], KeyOf(a), MaxIdentity)
        /\ identity' = Allocated(identity, DomainOf[a], KeyOf(a), LeaseTime)
    BY <1>3 DEF LeaseIdentity
  <2>2. /\ IsFiniteSet(identity')
        /\ \A other : Cardinality(InScope(identity', other)) <=
              Cardinality(InScope(identity, other)) + (IF other = DomainOf[a] THEN 1 ELSE 0)
    BY <2>1, OneMoreLease
  <2>3. \A scope : /\ Cardinality(InScope(identity, scope)) \in Nat
                   /\ Cardinality(InScope(identity', scope)) \in Nat
    BY <2>2, SizesAreNumbers
  <2>4. egress' = egress
    BY <1>3 DEF LeaseIdentity
  <2>5. \A d \in Domain : Cardinality(InScope(identity', d)) <= MaxIdentity
    <3>1. Cardinality(InScope(identity, DomainOf[a])) < MaxIdentity
      BY <2>1 DEF HasRoom
    <3> QED BY <1>0, <2>2, <2>3, <3>1 DEF CapacitiesHold
  <2>6. CapacitiesHold'
    BY <2>4, <2>5 DEF CapacitiesHold
  <2> QED BY <1>0, <2>2, <2>4, <2>6
<1>4. CASE UNCHANGED accessVars
  BY <1>1, <1>4 DEF accessVars
<1>5. ASSUME NEW a \in Access, Does(a) PROVE RoomIInv'
  <2>1. CASE egress' \subseteq egress /\ identity' \subseteq identity
    BY <1>1, <2>1
  <2>2. CASE LeaseEgress(a) /\ egress' # egress
    BY <1>2, <2>2
  <2>3. CASE LeaseIdentity(a) /\ identity' # identity
    BY <1>3, <2>3
  <2> QED BY <1>5, <2>1, <2>2, <2>3, MapsShrink
          DEF Does, Begin, SweepEgress, LeaseEgress, SweepIdentity, LeaseIdentity, AbandonEgress,
              CheckHealth, Execute, Record, Interrupt, ReleaseEgress, ReleaseIdentity, Settle
<1>6. CASE AccessTick
  BY <1>1, <1>6 DEF AccessTick
<1> QED BY <1>4, <1>5, <1>6 DEF AccessNext, Does

\* The capacities of the egress pool, of every route and of every domain hold, for
\* any number of accesses and any capacities.
THEOREM CapacitiesAlwaysHold == AccessSpec => []CapacitiesHold
<1>1. AccessInit => RoomIInv
  <2> SUFFICES ASSUME AccessInit PROVE RoomIInv
    OBVIOUS
  <2>1. egress = {} /\ identity = {} /\ \A scope : InScope({}, scope) = {}
    BY DEF AccessInit, InScope
  <2>2. IsFiniteSet({}) /\ Cardinality({}) = 0
    BY FS_EmptySet
  <2>3. 0 <= MaxPool /\ 0 <= MaxRoute /\ 0 <= MaxIdentity
    BY AccessAssumption
  <2>4. MapsAreFinite /\ CapacitiesHold
    BY <2>1, <2>2, <2>3 DEF MapsAreFinite, CapacitiesHold
  <2> QED BY <2>4, AccessInitiallyHolds DEF RoomIInv
<1>2. RoomIInv => CapacitiesHold
  BY DEF RoomIInv
<1> QED BY <1>1, <1>2, RoomStepHolds, PTL DEF AccessSpec
-----------------------------------------------------------------------------
(* Every outcome is counted once.                                           *)

\* The subjects an attempt has still to be checked or recorded with.
Owed(a) == {subjects[a][i] : i \in DOMAIN subjects[a]}

\* The subjects of an attempt.
Concerns(a, t, s) ==
  s \in {DomainOf[a], IF t = "primary" THEN PrimaryOf[a] ELSE FallbackOf[a]}

\* The executions a subject has counted so far, on each side: those of attempts
\* that are over, and of the attempt under way if it is not among those it owes.
SuccessCounted(a, t, s) ==
  Succeeded(a, t) /\ Concerns(a, t, s) /\ (t = attempt[a] => s \notin Owed(a))

FailureCounted(a, t, s) ==
  Failed(a, t) /\ Concerns(a, t, s) /\ (t = attempt[a] => s \notin Owed(a))

SuccessesCounted(s) == {e \in AccessKey : SuccessCounted(e[1], e[2], s)}

FailuresCounted(s) == {e \in AccessKey : FailureCounted(e[1], e[2], s)}

\* The counters of a subject are the executions it has counted.
HealthIsTheCount ==
  \A s \in Subject :
    /\ health[s].successes = Cardinality(SuccessesCounted(s))
    /\ health[s].failures = Cardinality(FailuresCounted(s))

Before == {"sweepingEgress", "leasingEgress", "sweepingIdentity", "leasingIdentity",
           "abandoning", "checking"}

Returning == {"releasing", "releasingEgress", "releasingIdentity", "settling"}

\* The outcomes that are recorded before the path is released, and after.
RecordsInUse(a) ==
  \/ results[a][attempt[a]] = "failure"
  \/ attempt[a] = "fallback" /\ results[a]["fallback"] \in {"success", "wall"}

RecordsAfter(a) == attempt[a] = "primary" /\ results[a]["primary"] \in {"success", "wall"}

\* The books of an access: what its place says about its outcome and what it owes.
Books(a) ==
  /\ subjects[a] \in {SubjectsFor(a), <<PathOf(a)>>, <<>>}
  /\ attempt[a] = "primary" => results[a]["fallback"] = "none"
  /\ attempt[a] = "fallback" => NeedsFallback(a) /\ pc[a] # "idle"
  /\ pc[a] \in Before \cup {"idle", "executing"} => results[a][attempt[a]] = "none"
  /\ pc[a] = "executing" => subjects[a] = SubjectsFor(a)
  /\ pc[a] = "recording" => RecordsInUse(a)
  /\ pc[a] = "concluding" => RecordsAfter(a)
  /\ pc[a] \in Returning /\ RecordsAfter(a) => subjects[a] = SubjectsFor(a)
  /\ pc[a] \in Returning \cup {"done"} /\ RecordsInUse(a) =>
       subjects[a] = <<>> \/ a \in interrupted
  /\ pc[a] = "done" /\ RecordsAfter(a) => subjects[a] = <<>> \/ a \in interrupted

BooksAreKept == \A a \in Access : Books(a)

\* Only finitely many accesses have begun.
BegunAreFinite == IsFiniteSet({a \in Access : pc[a] # "idle"})

BooksIInv == AccessIInv /\ BooksAreKept /\ BegunAreFinite /\ HealthIsTheCount

\* What a step leaves alone of an access.
Untouched(b) ==
  /\ pc'[b] = pc[b] /\ attempt'[b] = attempt[b] /\ subjects'[b] = subjects[b]
  /\ results'[b] = results[b] /\ (b \in interrupted' <=> b \in interrupted)

LEMMA OthersAreUntouched ==
  ASSUME AccessIInv, NEW a \in Access, Does(a), NEW b \in Access \ {a}
  PROVE  Untouched(b)
<1>1. /\ pc \in [Access -> Places] /\ attempt \in [Access -> Attempt]
      /\ subjects \in [Access -> Seq(Subject)]
      /\ results \in [Access -> [Attempt -> Result]] /\ interrupted \subseteq Access
  BY DEF AccessIInv, AccessTypeOK, Places
<1>2. CASE Record(a)
  BY <1>1, <1>2 DEF Record, Goto, Untouched
<1>3. CASE CheckHealth(a)
  BY <1>1, <1>3 DEF CheckHealth, Goto, Finish, Untouched
<1> QED BY <1>1, <1>2, <1>3
    DEF Does, Begin, SweepEgress, LeaseEgress, SweepIdentity, LeaseIdentity, AbandonEgress,
        Execute, Interrupt, ReleaseEgress, ReleaseIdentity, Settle, Goto, Finish, Untouched

\* Its books and what it counts are then as they were.
LEMMA UntouchedBooks ==
  ASSUME NEW b \in Access, Untouched(b)
  PROVE  /\ Books(b) => Books(b)'
         /\ \A t \in Attempt, s \in Subject :
              /\ SuccessCounted(b, t, s)' <=> SuccessCounted(b, t, s)
              /\ FailureCounted(b, t, s)' <=> FailureCounted(b, t, s)
<1>1. /\ SubjectsFor(b)' = SubjectsFor(b) /\ PathOf(b)' = PathOf(b) /\ Owed(b)' = Owed(b)
      /\ NeedsFallback(b)' <=> NeedsFallback(b)
      /\ RecordsInUse(b)' <=> RecordsInUse(b)
      /\ RecordsAfter(b)' <=> RecordsAfter(b)
  BY DEF Untouched, SubjectsFor, PathOf, Owed, NeedsFallback, RecordsInUse, RecordsAfter
<1>2. Books(b) => Books(b)'
  BY <1>1 DEF Untouched, Books
<1>3. \A t \in Attempt : /\ Succeeded(b, t)' <=> Succeeded(b, t)
                         /\ Failed(b, t)' <=> Failed(b, t)
  BY <1>1 DEF Untouched, Succeeded, Failed
<1>4. \A t \in Attempt, s \in Subject : Concerns(b, t, s)' <=> Concerns(b, t, s)
  BY DEF Concerns
<1>5. attempt'[b] = attempt[b]
  BY DEF Untouched
<1>6. \A t \in Attempt, s \in Subject :
              /\ SuccessCounted(b, t, s)' <=> SuccessCounted(b, t, s)
              /\ FailureCounted(b, t, s)' <=> FailureCounted(b, t, s)
  BY <1>1, <1>3, <1>4, <1>5 DEF SuccessCounted, FailureCounted
<1> QED BY <1>2, <1>6

\* What an access owes, in each of the three states of its subjects.
LEMMA OwedInFull ==
  ASSUME AccessIInv, NEW a \in Access
  PROVE  /\ subjects[a] = SubjectsFor(a) => Owed(a) = {DomainOf[a], PathOf(a)}
         /\ subjects[a] = <<PathOf(a)>> => Owed(a) = {PathOf(a)}
         /\ subjects[a] = <<>> => Owed(a) = {}
         /\ DomainOf[a] # PathOf(a)
         /\ DomainOf[a] \in Subject /\ PathOf(a) \in Subject
<1>1. DomainOf[a] \in Domain /\ PathOf(a) \in Path
  BY LeaseIsMade DEF AccessIInv
<1>2. subjects[a] = SubjectsFor(a) => Owed(a) = {DomainOf[a], PathOf(a)}
  BY DEF Owed, SubjectsFor
<1>3. subjects[a] = <<PathOf(a)>> => Owed(a) = {PathOf(a)}
  BY DEF Owed
<1>4. subjects[a] = <<>> => Owed(a) = {}
  BY DEF Owed
<1> QED BY <1>1, <1>2, <1>3, <1>4, AccessAssumption DEF Subject

\* The subjects an attempt concerns are those of its path.
LEMMA AttemptConcerns ==
  ASSUME AccessIInv, NEW a \in Access, NEW s
  PROVE  Concerns(a, attempt[a], s) <=> s \in {DomainOf[a], PathOf(a)}
BY DEF AccessIInv, AccessTypeOK, Attempt, Concerns, PathOf

\* An access of which nothing is counted before nor after the step.
SameCounts(a) ==
  \A t \in Attempt, s \in Subject :
    /\ SuccessCounted(a, t, s)' <=> SuccessCounted(a, t, s)
    /\ FailureCounted(a, t, s)' <=> FailureCounted(a, t, s)

\* No step changes a count that leaves the outcome of the attempt as it is and
\* what it owes if it has one, or that gives it one that is not recorded.
LEMMA CountsStay ==
  ASSUME AccessIInv, NEW a \in Access, attempt'[a] = attempt[a],
         \/ /\ results'[a] = results[a]
            /\ \/ Owed(a)' = Owed(a)
               \/ results[a][attempt[a]] \notin {"success", "wall", "failure"}
         \/ /\ \A t \in Attempt \ {attempt[a]} : results'[a][t] = results[a][t]
            /\ results[a][attempt[a]] \notin {"success", "wall", "failure"}
            /\ results'[a][attempt[a]] \notin {"success", "wall", "failure"}
  PROVE  SameCounts(a)
<1>0. attempt[a] \in Attempt /\ "primary" \in Attempt
  BY DEF AccessIInv, AccessTypeOK, Attempt
<1>1. \A t \in Attempt, s \in Subject : Concerns(a, t, s)' <=> Concerns(a, t, s)
  BY DEF Concerns
<1>2. \A t \in Attempt : /\ results'[a][t] = results[a][t] \/ t = attempt[a]
  OBVIOUS
<1>3. CASE results'[a] = results[a] /\ Owed(a)' = Owed(a)
  BY <1>1, <1>3 DEF SameCounts, SuccessCounted, FailureCounted, Succeeded, Failed, NeedsFallback
<1>4. CASE /\ results[a][attempt[a]] \notin {"success", "wall", "failure"}
           /\ results'[a][attempt[a]] \notin {"success", "wall", "failure"}
  <2>1. /\ ~Succeeded(a, attempt[a]) /\ ~Failed(a, attempt[a])
        /\ ~Succeeded(a, attempt[a])' /\ ~Failed(a, attempt[a])'
    BY <1>4 DEF Succeeded, Failed, NeedsFallback
  <2>2. \A t \in Attempt \ {attempt[a]} :
          /\ Succeeded(a, t)' <=> Succeeded(a, t)
          /\ Failed(a, t)' <=> Failed(a, t)
    <3>1. ASSUME NEW t \in Attempt \ {attempt[a]}
          PROVE  /\ results'[a][t] = results[a][t]
                 /\ t = "primary" => (NeedsFallback(a)' <=> NeedsFallback(a))
      BY <1>2, <3>1 DEF NeedsFallback
    <3> QED BY <3>1 DEF Succeeded, Failed
  <2> QED BY <1>1, <2>1, <2>2 DEF SameCounts, SuccessCounted, FailureCounted
<1> QED BY <1>3, <1>4

\* The steps up to the use of a path: nothing is counted yet.
LEMMA BooksOnTheWay ==
  ASSUME AccessIInv, NEW a \in Access, Books(a),
         \/ Begin(a) \/ SweepEgress(a) \/ LeaseEgress(a) \/ SweepIdentity(a)
         \/ LeaseIdentity(a) \/ AbandonEgress(a) \/ CheckHealth(a)
  PROVE  Books(a)' /\ SameCounts(a)
<1>0. /\ pc \in [Access -> Places] /\ attempt \in [Access -> Attempt]
      /\ subjects \in [Access -> Seq(Subject)]
      /\ results \in [Access -> [Attempt -> Result]] /\ interrupted \subseteq Access
      /\ attempt[a] \in {"primary", "fallback"} /\ {"primary", "fallback"} = Attempt
  BY DEF AccessIInv, AccessTypeOK, Places, Attempt
<1>1. /\ pc[a] \in Before \cup {"idle"} /\ results[a][attempt[a]] = "none"
      /\ attempt'[a] = attempt[a] /\ interrupted' = interrupted
  BY DEF Begin, SweepEgress, LeaseEgress, SweepIdentity, LeaseIdentity, AbandonEgress,
         CheckHealth, Before, Books
<1>2. \/ results' = results
      \/ \E result \in {"unavailable", "quarantined"} : Finish(a, result)
  BY DEF Begin, SweepEgress, LeaseEgress, SweepIdentity, LeaseIdentity, AbandonEgress, CheckHealth
<1>3. /\ \A t \in Attempt \ {attempt[a]} : results'[a][t] = results[a][t]
      /\ results'[a][attempt[a]] \in {"none", "unavailable", "quarantined"}
      /\ results'[a][attempt[a]] = "none" <=> results' = results
  BY <1>0, <1>1, <1>2 DEF Finish
<1>4. SameCounts(a)
  BY <1>1, <1>3, CountsStay
<1>5. /\ SubjectsFor(a)' = SubjectsFor(a) /\ PathOf(a)' = PathOf(a)
  BY <1>1 DEF SubjectsFor, PathOf
<1>6. subjects'[a] \in {SubjectsFor(a), <<PathOf(a)>>, <<>>}
  <2>1. SubjectsFor(a) # <<>> /\ Tail(SubjectsFor(a)) = <<PathOf(a)>> /\ Tail(<<PathOf(a)>>) = <<>>
    BY DEF SubjectsFor
  <2>2. \/ subjects'[a] = subjects[a]
        \/ subjects'[a] = SubjectsFor(a)
        \/ subjects[a] # <<>> /\ subjects'[a] = Tail(subjects[a])
    BY <1>0 DEF Begin, SweepEgress, LeaseEgress, SweepIdentity, LeaseIdentity, AbandonEgress, CheckHealth
  <2> QED BY <2>1, <2>2 DEF Books
<1>7. /\ pc'[a] \in Before \cup {"executing"} => results' = results
      /\ pc'[a] = "executing" => subjects'[a] = SubjectsFor(a)
      /\ pc'[a] \in Before \cup {"executing", "releasing", "done"}
  BY <1>0 DEF Begin, SweepEgress, LeaseEgress, SweepIdentity, LeaseIdentity, AbandonEgress,
              CheckHealth, Goto, Before, Places
<1>8. /\ ~RecordsInUse(a)' /\ ~RecordsAfter(a)'
      /\ attempt[a] = "fallback" => NeedsFallback(a) /\ NeedsFallback(a)'
      /\ attempt[a] = "primary" => results'[a]["fallback"] = "none"
  <2>1. results'[a][attempt'[a]] \notin {"failure", "success", "wall"}
    BY <1>1, <1>3
  <2>2. "primary" # "fallback" /\ attempt'[a] = attempt[a]
    BY <1>1
  <2> QED BY <1>0, <1>3, <2>1, <2>2 DEF Books, RecordsInUse, RecordsAfter, NeedsFallback
<1>9. Books(a)'
  <2>1. pc'[a] \notin {"idle", "recording", "concluding"}
    BY <1>7 DEF Before
  <2>2. pc'[a] \in Before \cup {"idle", "executing"} => results'[a][attempt'[a]] = "none"
    BY <1>1, <1>7, <2>1
  <2> QED BY <1>1, <1>5, <1>6, <1>7, <1>8, <2>1, <2>2 DEF Books
<1> QED BY <1>4, <1>9

\* The engine settles: the outcome is still owed to every subject.
LEMMA BooksOfExecution ==
  ASSUME AccessIInv, NEW a \in Access, Books(a),
         NEW result \in {"success", "wall", "failure", "guardrail"}, Execute(a, result)
  PROVE  Books(a)' /\ SameCounts(a)
<1>0. /\ pc \in [Access -> Places] /\ attempt[a] \in {"primary", "fallback"}
      /\ results \in [Access -> [Attempt -> Result]] /\ {"primary", "fallback"} = Attempt
  BY DEF AccessIInv, AccessTypeOK, Places, Attempt
<1>1. /\ pc[a] = "executing" /\ attempt' = attempt /\ subjects' = subjects
      /\ interrupted' = interrupted /\ results[a][attempt[a]] = "none"
      /\ subjects[a] = SubjectsFor(a)
  BY DEF Execute, Books
<1>2. /\ \A t \in Attempt \ {attempt[a]} : results'[a][t] = results[a][t]
      /\ results'[a][attempt[a]] = result
  BY <1>0 DEF Execute, Finish
<1>3. pc'[a] = IF \/ result = "failure"
                  \/ result \in {"success", "wall"} /\ attempt[a] = "fallback"
               THEN "recording" ELSE "releasing"
  BY <1>0 DEF Execute, Goto
<1>4. SubjectsFor(a)' = SubjectsFor(a) /\ PathOf(a)' = PathOf(a)
  BY <1>1 DEF SubjectsFor, PathOf
<1>5. RecordsInUse(a)' <=> pc'[a] = "recording"
  BY <1>0, <1>1, <1>2, <1>3 DEF RecordsInUse
<1>6. /\ attempt[a] = "fallback" => NeedsFallback(a)'
      /\ attempt[a] = "primary" => results'[a]["fallback"] = "none"
  BY <1>0, <1>2 DEF Books, NeedsFallback
<1>7. Books(a)'
  <2>1. pc'[a] \in {"recording", "releasing"}
    BY <1>3
  <2>2. pc'[a] \notin Before \cup {"idle", "executing", "concluding", "done"}
    BY <2>1 DEF Before
  <2> QED BY <1>1, <1>4, <1>5, <1>6, <2>1, <2>2 DEF Books, Returning
<1>8. SameCounts(a)
  <2>1. Owed(a)' = {DomainOf[a], PathOf(a)} /\ Owed(a) = {DomainOf[a], PathOf(a)}
    BY <1>1, OwedInFull DEF Owed
  <2>2. \A s \in Subject : (Concerns(a, attempt[a], s) => s \in Owed(a))
                           /\ (Concerns(a, attempt[a], s)' => s \in Owed(a)')
    <3>1. \A s : Concerns(a, attempt[a], s)' <=> Concerns(a, attempt[a], s)
      BY <1>1 DEF Concerns
    <3> QED BY <2>1, <3>1, AttemptConcerns
  <2>3. \A t \in Attempt \ {attempt[a]} :
          /\ Succeeded(a, t)' <=> Succeeded(a, t)
          /\ Failed(a, t)' <=> Failed(a, t)
    <3>1. ASSUME NEW t \in Attempt \ {attempt[a]}
          PROVE  /\ results'[a][t] = results[a][t]
                 /\ t = "primary" => (NeedsFallback(a)' <=> NeedsFallback(a))
      BY <1>2, <3>1 DEF NeedsFallback
    <3> QED BY <3>1 DEF Succeeded, Failed
  <2>4. \A t, s : Concerns(a, t, s)' <=> Concerns(a, t, s)
    BY DEF Concerns
  <2>5. ASSUME NEW t \in Attempt, NEW s \in Subject
        PROVE  /\ SuccessCounted(a, t, s)' <=> SuccessCounted(a, t, s)
               /\ FailureCounted(a, t, s)' <=> FailureCounted(a, t, s)
    <3>1. CASE t = attempt[a]
      BY <1>1, <2>2, <3>1 DEF SuccessCounted, FailureCounted
    <3>2. CASE t # attempt[a]
      BY <1>1, <2>3, <2>4, <3>2 DEF SuccessCounted, FailureCounted
    <3> QED BY <3>1, <3>2
  <2> QED BY <2>5 DEF SameCounts
<1> QED BY <1>7, <1>8

\* An interruption, the release and the end of a path: what is owed stays owed.
LEMMA BooksOnTheWayBack ==
  ASSUME AccessIInv, NEW a \in Access, Books(a),
         Interrupt(a) \/ ReleaseEgress(a) \/ ReleaseIdentity(a) \/ Settle(a)
  PROVE  Books(a)' /\ SameCounts(a)
<1>0. /\ pc \in [Access -> Places] /\ attempt[a] \in {"primary", "fallback"}
      /\ subjects \in [Access -> Seq(Subject)]
  BY DEF AccessIInv, AccessTypeOK, Places, Attempt
<1>1. /\ attempt' = attempt /\ results' = results
      /\ a \in interrupted => a \in interrupted'
      /\ interrupted' = interrupted \/ a \in interrupted'
  BY DEF Interrupt, ReleaseEgress, ReleaseIdentity, Settle
<1>2. /\ SubjectsFor(a)' = SubjectsFor(a) /\ PathOf(a)' = PathOf(a)
      /\ NeedsFallback(a)' <=> NeedsFallback(a)
      /\ RecordsInUse(a)' <=> RecordsInUse(a)
      /\ RecordsAfter(a)' <=> RecordsAfter(a)
  BY <1>1 DEF SubjectsFor, PathOf, NeedsFallback, RecordsInUse, RecordsAfter
<1>3. subjects'[a] = subjects[a]
  <2>1. CASE subjects' = subjects
    BY <2>1
  <2>2. CASE subjects' # subjects
    <3>1. Settle(a) /\ RecordsAfter(a) /\ subjects'[a] = SubjectsFor(a)
      BY <1>0, <2>2 DEF Interrupt, ReleaseEgress, ReleaseIdentity, Settle, RecordsAfter
    <3> QED BY <3>1 DEF Settle, Books, Returning
  <2> QED BY <2>1, <2>2
<1>4. SameCounts(a)
  <2>1. Owed(a)' = Owed(a)
    BY <1>3 DEF Owed
  <2> QED BY <1>1, <2>1, CountsStay
<1>5. CASE Interrupt(a)
  <2>1. /\ a \in interrupted'
        /\ \/ /\ pc[a] \in {"checking", "executing", "recording"}
              /\ pc'[a] = "releasing"
           \/ /\ pc[a] \in {"settling", "concluding"}
              /\ pc'[a] = "done"
    BY <1>0, <1>5 DEF Interrupt, Goto, PathHeld
  <2>2. /\ pc'[a] \notin Before \cup {"idle", "executing", "recording", "concluding"}
        /\ pc'[a] \in Returning => ~RecordsAfter(a)
    BY <2>1 DEF Before, Books, Returning, RecordsAfter, RecordsInUse
  <2> QED BY <1>1, <1>2, <1>3, <1>4, <2>1, <2>2 DEF Books
<1>6. CASE ReleaseEgress(a) \/ ReleaseIdentity(a)
  <2>1. pc[a] \in Returning /\ pc'[a] \in Returning /\ interrupted' = interrupted
    BY <1>0, <1>6 DEF ReleaseEgress, ReleaseIdentity, Goto, Returning
  <2>2. pc'[a] \notin Before \cup {"idle", "executing", "recording", "concluding", "done"}
    BY <2>1 DEF Before, Returning
  <2> QED BY <1>1, <1>2, <1>3, <1>4, <2>1, <2>2 DEF Books
<1>7. CASE Settle(a)
  <2>1. /\ pc[a] \in Returning /\ interrupted' = interrupted
        /\ pc'[a] \in {"concluding", "done"}
        /\ pc'[a] = "concluding" <=> RecordsAfter(a) /\ a \notin interrupted
    BY <1>0, <1>7 DEF Settle, Goto, Returning, RecordsAfter
  <2>2. pc'[a] \notin Before \cup Returning \cup {"idle", "executing", "recording"}
    BY <2>1 DEF Before, Returning
  <2> QED BY <1>1, <1>2, <1>3, <1>4, <2>1, <2>2 DEF Books
<1> QED BY <1>5, <1>6, <1>7

\* An access that has recorded with all its subjects goes on.
LEMMA BooksOfRecordsEnd ==
  ASSUME AccessIInv, NEW a \in Access, Books(a), Record(a), subjects[a] = <<>>
  PROVE  Books(a)' /\ SameCounts(a)
<1>0. /\ pc \in [Access -> Places] /\ attempt \in [Access -> Attempt]
      /\ attempt[a] \in {"primary", "fallback"} /\ {"primary", "fallback"} = Attempt
  BY DEF AccessIInv, AccessTypeOK, Places, Attempt
<1>1. /\ results' = results /\ subjects' = subjects /\ interrupted' = interrupted
      /\ Owed(a)' = Owed(a) /\ Owed(a) = {} /\ (NeedsFallback(a)' <=> NeedsFallback(a))
  BY OwedInFull DEF Record, Owed, NeedsFallback
<1>2. CASE attempt'[a] = attempt[a]
  <2>1. SameCounts(a)
    BY <1>1, <1>2, CountsStay
  <2>2. /\ SubjectsFor(a)' = SubjectsFor(a) /\ PathOf(a)' = PathOf(a)
        /\ RecordsInUse(a)' <=> RecordsInUse(a)
        /\ RecordsAfter(a)' <=> RecordsAfter(a)
    BY <1>1, <1>2 DEF SubjectsFor, PathOf, RecordsInUse, RecordsAfter
  <2>3. \/ pc[a] = "recording" /\ pc'[a] = "releasing"
        \/ pc[a] = "concluding" /\ pc'[a] = "done"
    BY <1>0, <1>2 DEF Record, Goto, Books, RecordsAfter
  <2>4. /\ pc'[a] \notin Before \cup {"idle", "executing", "recording", "concluding"}
        /\ pc'[a] \in Returning => ~RecordsAfter(a)
    BY <2>3 DEF Before, Books, Returning, RecordsAfter, RecordsInUse
  <2>5. Books(a)'
    BY <1>1, <1>2, <2>2, <2>3, <2>4 DEF Books
  <2> QED BY <2>1, <2>5
<1>3. CASE attempt'[a] # attempt[a]
  <2>1. /\ pc[a] = "concluding" /\ pc'[a] = "sweepingEgress" /\ NeedsFallback(a)
        /\ attempt[a] = "primary" /\ attempt'[a] = "fallback"
        /\ results[a]["fallback"] = "none"
    BY <1>0, <1>3 DEF Record, Goto, Books, RecordsAfter
  <2>2. Books(a)'
    BY <1>1, <2>1 DEF Books, Before, Returning, RecordsInUse, RecordsAfter
  <2>3. /\ \A t \in Attempt : /\ Succeeded(a, t)' <=> Succeeded(a, t)
                              /\ Failed(a, t)' <=> Failed(a, t)
        /\ \A t, s : Concerns(a, t, s)' <=> Concerns(a, t, s)
    BY <1>1 DEF Succeeded, Failed, Concerns
  <2>4. SameCounts(a)
    BY <1>1, <2>3 DEF SameCounts, SuccessCounted, FailureCounted
  <2> QED BY <2>2, <2>4
<1> QED BY <1>2, <1>3

\* An access that records with a subject: that one counts it now, on one side.
LEMMA BooksOfRecord ==
  ASSUME AccessIInv, NEW a \in Access, Books(a), Record(a), subjects[a] # <<>>
  PROVE  /\ Books(a)'
         /\ Head(subjects[a]) \in Owed(a) /\ Owed(a)' = Owed(a) \ {Head(subjects[a])}
         /\ Concerns(a, attempt[a], Head(subjects[a]))
         /\ Succeeded(a, attempt[a]) <=> ~Failed(a, attempt[a])
<1>0. /\ pc \in [Access -> Places] /\ attempt[a] \in {"primary", "fallback"}
      /\ subjects \in [Access -> Seq(Subject)]
  BY DEF AccessIInv, AccessTypeOK, Places, Attempt
<1>1. /\ results' = results /\ interrupted' = interrupted /\ pc' = pc /\ attempt' = attempt
      /\ subjects'[a] = Tail(subjects[a])
      /\ pc[a] \in {"recording", "concluding"}
  BY <1>0 DEF Record
<1>2. /\ SubjectsFor(a)' = SubjectsFor(a) /\ PathOf(a)' = PathOf(a)
      /\ NeedsFallback(a)' <=> NeedsFallback(a)
      /\ RecordsInUse(a)' <=> RecordsInUse(a)
      /\ RecordsAfter(a)' <=> RecordsAfter(a)
  BY <1>1 DEF SubjectsFor, PathOf, NeedsFallback, RecordsInUse, RecordsAfter
<1>3. Head(SubjectsFor(a)) = DomainOf[a] /\ Tail(SubjectsFor(a)) = <<PathOf(a)>>
      /\ Head(<<PathOf(a)>>) = PathOf(a) /\ Tail(<<PathOf(a)>>) = <<>>
  BY DEF SubjectsFor
<1>4. \/ subjects[a] = SubjectsFor(a) /\ subjects'[a] = <<PathOf(a)>>
         /\ Owed(a) = {DomainOf[a], PathOf(a)} /\ Owed(a)' = {PathOf(a)}
      \/ subjects[a] = <<PathOf(a)>> /\ subjects'[a] = <<>>
         /\ Owed(a) = {PathOf(a)} /\ Owed(a)' = {}
  <2>1. \/ subjects[a] = SubjectsFor(a) /\ subjects'[a] = <<PathOf(a)>>
        \/ subjects[a] = <<PathOf(a)>> /\ subjects'[a] = <<>>
    BY <1>1, <1>3 DEF Books
  <2>2. /\ subjects'[a] = <<PathOf(a)>> => Owed(a)' = {PathOf(a)}
        /\ subjects'[a] = <<>> => Owed(a)' = {}
    BY DEF Owed
  <2> QED BY <2>1, <2>2, OwedInFull
<1>5. Books(a)'
  <2>1. pc'[a] \notin Before \cup Returning \cup {"idle", "executing", "done"}
    BY <1>1 DEF Before, Returning
  <2> QED BY <1>1, <1>2, <1>4, <2>1 DEF Books
<1>6. Head(subjects[a]) \in Owed(a) /\ Owed(a)' = Owed(a) \ {Head(subjects[a])}
  BY <1>3, <1>4, OwedInFull
<1>7. Succeeded(a, attempt[a]) <=> ~Failed(a, attempt[a])
  <2>1. RecordsInUse(a) \/ RecordsAfter(a)
    BY <1>1 DEF Books
  <2> QED BY <1>0, <2>1 DEF RecordsInUse, RecordsAfter, Succeeded, Failed, NeedsFallback
<1>8. Concerns(a, attempt[a], Head(subjects[a]))
  BY <1>3, <1>4, AttemptConcerns
<1> QED BY <1>5, <1>6, <1>7, <1>8

\* The steps other than that of a subject that is told of an outcome.
LEMMA BooksOfAStep ==
  ASSUME AccessIInv, NEW a \in Access, Books(a), Does(a),
         Record(a) => subjects[a] = <<>>
  PROVE  Books(a)' /\ SameCounts(a) /\ health' = health
<1>1. CASE \E result \in {"success", "wall", "failure", "guardrail"} : Execute(a, result)
  BY <1>1, BooksOfExecution DEF Execute
<1>2. CASE Record(a)
  BY <1>2, BooksOfRecordsEnd DEF Record
<1>3. CASE Interrupt(a) \/ ReleaseEgress(a) \/ ReleaseIdentity(a) \/ Settle(a)
  BY <1>3, BooksOnTheWayBack DEF Interrupt, ReleaseEgress, ReleaseIdentity, Settle
<1>4. CASE \/ Begin(a) \/ SweepEgress(a) \/ LeaseEgress(a) \/ SweepIdentity(a)
           \/ LeaseIdentity(a) \/ AbandonEgress(a) \/ CheckHealth(a)
  BY <1>4, BooksOnTheWay
     DEF Begin, SweepEgress, LeaseEgress, SweepIdentity, LeaseIdentity, AbandonEgress, CheckHealth
<1> QED BY <1>1, <1>2, <1>3, <1>4 DEF Does

\* What is counted is counted of accesses that have begun.
LEMMA CountsAreFinite ==
  ASSUME AccessIInv, BooksAreKept, BegunAreFinite, NEW s
  PROVE  /\ IsFiniteSet(Executions(s, Succeeded)) /\ IsFiniteSet(Executions(s, Failed))
         /\ IsFiniteSet(SuccessesCounted(s)) /\ IsFiniteSet(FailuresCounted(s))
         /\ SuccessesCounted(s) \subseteq Executions(s, Succeeded)
         /\ FailuresCounted(s) \subseteq Executions(s, Failed)
<1> DEFINE begun == {a \in Access : pc[a] # "idle"}
           all   == begun \X Attempt
<1>1. IsFiniteSet(all)
  <2>1. IsFiniteSet(begun) /\ IsFiniteSet(Attempt)
    <3>1. Attempt = {"primary"} \cup {"fallback"}
      BY DEF Attempt
    <3>2. IsFiniteSet({"primary"})
      BY FS_Singleton
    <3> QED BY <3>1, <3>2, FS_AddElement DEF BegunAreFinite
  <2> HIDE DEF begun
  <2> QED BY <2>1, FS_Product
<1>2. ASSUME NEW e \in AccessKey, Succeeded(e[1], e[2]) \/ Failed(e[1], e[2])
      PROVE  e \in all
  <2>1. e[1] \in Access /\ e[2] \in {"primary", "fallback"} /\ e = <<e[1], e[2]>>
    BY <1>2 DEF AccessKey, Attempt
  <2>2. pc[e[1]] # "idle"
    <3>1. SUFFICES ASSUME pc[e[1]] = "idle" PROVE FALSE
      OBVIOUS
    <3>2. /\ attempt[e[1]] = "primary" /\ results[e[1]]["primary"] = "none"
          /\ results[e[1]]["fallback"] = "none"
      BY <2>1, <3>1 DEF BooksAreKept, Books, AccessIInv, AccessTypeOK, Attempt
    <3> QED BY <1>2, <2>1, <3>2 DEF Succeeded, Failed, NeedsFallback
  <2> QED BY <2>1, <2>2 DEF Attempt
<1>3. /\ SuccessesCounted(s) \subseteq Executions(s, Succeeded)
      /\ FailuresCounted(s) \subseteq Executions(s, Failed)
  BY DEF SuccessesCounted, FailuresCounted, SuccessCounted, FailureCounted, Concerns, Executions
<1>4. Executions(s, Succeeded) \subseteq all /\ Executions(s, Failed) \subseteq all
  BY <1>2 DEF Executions
<1> HIDE DEF all
<1>5. IsFiniteSet(Executions(s, Succeeded)) /\ IsFiniteSet(Executions(s, Failed))
  BY <1>1, <1>4, FS_Subset
<1> QED BY <1>3, <1>5, FS_Subset

\* If the count of no access changes, no set of counted executions does.
LEMMA CountsStayTheSame ==
  ASSUME \A b \in Access : SameCounts(b), NEW s \in Subject
  PROVE  SuccessesCounted(s)' = SuccessesCounted(s) /\ FailuresCounted(s)' = FailuresCounted(s)
<1>1. \A e \in AccessKey : /\ SuccessCounted(e[1], e[2], s)' <=> SuccessCounted(e[1], e[2], s)
                           /\ FailureCounted(e[1], e[2], s)' <=> FailureCounted(e[1], e[2], s)
  <2>1. \A e \in AccessKey : e[1] \in Access /\ e[2] \in Attempt
    BY DEF AccessKey
  <2> QED BY <2>1 DEF SameCounts
<1>2. SuccessesCounted(s)' = {e \in AccessKey : SuccessCounted(e[1], e[2], s)'}
      /\ FailuresCounted(s)' = {e \in AccessKey : FailureCounted(e[1], e[2], s)'}
  BY DEF SuccessesCounted, FailuresCounted
<1> QED BY <1>1, <1>2 DEF SuccessesCounted, FailuresCounted

\* A subject that is told of an outcome counts it on its side, once.
LEMMA RecordCountsOnce ==
  ASSUME BooksIInv, NEW a \in Access, Record(a), subjects[a] # <<>>,
         NEW told \in Subject, told = Head(subjects[a]),
         NEW t \in Attempt, t = attempt[a]
  PROVE  HealthIsTheCount'
<1> USE DEF BooksIInv
<1> DEFINE this == <<a, t>>
<1>0. /\ Books(a) /\ Does(a) /\ this \in AccessKey /\ this[1] = a /\ this[2] = t
      /\ attempt' = attempt /\ results' = results /\ attempt[a] = t
  BY SubjectsAreSubjects DEF BooksAreKept, Does, AccessKey, AccessIInv, AccessTypeOK, Record
<1>1. /\ told \in Owed(a) /\ Owed(a)' = Owed(a) \ {told} /\ Concerns(a, t, told)
      /\ Succeeded(a, t) <=> ~Failed(a, t)
  BY <1>0, BooksOfRecord
<1>2. \A b \in Access \ {a} : SameCounts(b)
  BY <1>0, OthersAreUntouched, UntouchedBooks DEF SameCounts
<1>3. /\ \A b, u : /\ Succeeded(b, u)' <=> Succeeded(b, u)
                   /\ Failed(b, u)' <=> Failed(b, u)
      /\ \A b, u, s : Concerns(b, u, s)' <=> Concerns(b, u, s)
  BY <1>0 DEF Succeeded, Failed, NeedsFallback, Concerns
<1>4. ASSUME NEW s \in Subject, NEW e \in AccessKey, s # told \/ e # this
      PROVE  /\ SuccessCounted(e[1], e[2], s)' <=> SuccessCounted(e[1], e[2], s)
             /\ FailureCounted(e[1], e[2], s)' <=> FailureCounted(e[1], e[2], s)
  <2>1. e[1] \in Access /\ e[2] \in Attempt /\ e = <<e[1], e[2]>>
    BY DEF AccessKey
  <2>2. CASE e[1] # a
    BY <1>2, <2>1, <2>2 DEF SameCounts
  <2>3. CASE e[1] = a
    <3>1. e[2] = t => s # told
      BY <1>4, <2>1, <2>3
    <3>2. e[2] = t => (s \in Owed(a)' <=> s \in Owed(a))
      BY <1>1, <3>1
    <3>3. \/ e[2] # t
          \/ s \in Owed(a)' <=> s \in Owed(a)
      BY <3>2
    <3> QED BY <1>0, <1>3, <2>3, <3>3 DEF SuccessCounted, FailureCounted
  <2> QED BY <2>2, <2>3
<1>5. \A s \in Subject : /\ SuccessesCounted(s)' = {e \in AccessKey : SuccessCounted(e[1], e[2], s)'}
                         /\ FailuresCounted(s)' = {e \in AccessKey : FailureCounted(e[1], e[2], s)'}
  BY DEF SuccessesCounted, FailuresCounted
<1>6. \A s \in Subject \ {told} :
        /\ SuccessesCounted(s)' = SuccessesCounted(s) /\ FailuresCounted(s)' = FailuresCounted(s)
  BY <1>4, <1>5 DEF SuccessesCounted, FailuresCounted
<1>7. /\ this \notin SuccessesCounted(told) /\ this \notin FailuresCounted(told)
      /\ SuccessesCounted(told)' =
           IF Succeeded(a, t) THEN SuccessesCounted(told) \cup {this}
           ELSE SuccessesCounted(told)
      /\ FailuresCounted(told)' =
           IF Succeeded(a, t) THEN FailuresCounted(told)
           ELSE FailuresCounted(told) \cup {this}
  <2>1. ~SuccessCounted(a, t, told) /\ ~FailureCounted(a, t, told)
    BY <1>1 DEF SuccessCounted, FailureCounted
  <2>2. /\ SuccessCounted(a, t, told)' <=> Succeeded(a, t)
        /\ FailureCounted(a, t, told)' <=> ~Succeeded(a, t)
    <3>1. /\ told \notin Owed(a)' /\ Concerns(a, t, told)'
      BY <1>1, <1>3
    <3>2. /\ (Succeeded(a, t))' <=> Succeeded(a, t)
          /\ (Failed(a, t))' <=> Failed(a, t)
      BY <1>0, <1>3
    <3>3. (Concerns(a, t, told))'
      <4>1. Concerns(a, t, told)' <=> Concerns(a, t, told)
        BY <1>3
      <4> QED BY <1>1, <4>1
    <3> QED BY <1>0, <1>1, <3>1, <3>2, <3>3 DEF SuccessCounted, FailureCounted
  <2> HIDE DEF this
  <2>3. /\ this \notin SuccessesCounted(told) /\ this \notin FailuresCounted(told)
    BY <1>0, <2>1 DEF SuccessesCounted, FailuresCounted
  <2>4. \A e \in AccessKey \ {this} :
          /\ e \in SuccessesCounted(told)' <=> e \in SuccessesCounted(told)
          /\ e \in FailuresCounted(told)' <=> e \in FailuresCounted(told)
    BY <1>0, <1>4, <1>5 DEF SuccessesCounted, FailuresCounted
  <2>5. /\ this \in SuccessesCounted(told)' <=> Succeeded(a, t)
        /\ this \in FailuresCounted(told)' <=> ~Succeeded(a, t)
    BY <1>0, <1>5, <2>2
  <2>6. /\ SuccessesCounted(told)' \subseteq AccessKey /\ FailuresCounted(told)' \subseteq AccessKey
        /\ SuccessesCounted(told) \subseteq AccessKey /\ FailuresCounted(told) \subseteq AccessKey
    BY <1>0, <1>5 DEF SuccessesCounted, FailuresCounted
  <2>7. CASE Succeeded(a, t)
    <3>1. SuccessesCounted(told)' = SuccessesCounted(told) \cup {this}
      <4>1. \A e : e \in SuccessesCounted(told)' <=> e \in SuccessesCounted(told) \cup {this}
        BY <1>0, <2>4, <2>5, <2>6, <2>7
      <4> QED BY <4>1
    <3>2. FailuresCounted(told)' = FailuresCounted(told)
      <4>1. \A e : e \in FailuresCounted(told)' <=> e \in FailuresCounted(told)
        BY <1>0, <2>3, <2>4, <2>5, <2>6, <2>7
      <4> QED BY <4>1
    <3> QED BY <2>3, <2>7, <3>1, <3>2
  <2>8. CASE ~Succeeded(a, t)
    <3>1. SuccessesCounted(told)' = SuccessesCounted(told)
      <4>1. \A e : e \in SuccessesCounted(told)' <=> e \in SuccessesCounted(told)
        BY <1>0, <2>3, <2>4, <2>5, <2>6, <2>8
      <4> QED BY <4>1
    <3>2. FailuresCounted(told)' = FailuresCounted(told) \cup {this}
      <4>1. \A e : e \in FailuresCounted(told)' <=> e \in FailuresCounted(told) \cup {this}
        BY <1>0, <2>4, <2>5, <2>6, <2>8
      <4> QED BY <4>1
    <3> QED BY <2>3, <2>8, <3>1, <3>2
  <2> QED BY <2>3, <2>7, <2>8
<1>8. /\ \A s \in Subject \ {told} : health'[s] = health[s]
      /\ health'[told] = IF Succeeded(a, t)
                         THEN SuccessRecorded(health[told], Policy[told])
                         ELSE FailureRecorded(health[told], Policy[told])
  BY <1>0 DEF Record, AccessIInv, HealthIsKept
<1>9. /\ health'[told].successes =
           IF Succeeded(a, t) THEN health[told].successes + 1 ELSE health[told].successes
      /\ health'[told].failures =
           IF Succeeded(a, t) THEN health[told].failures ELSE health[told].failures + 1
  <2>1. health[told] \in Health(Policy[told].quarantineTime)
    BY <1>0 DEF AccessIInv, AccessTypeOK
  <2> QED BY <1>8, <2>1 DEF SuccessRecorded, FailureRecorded, Health
<1> HIDE DEF this
<1>10. /\ health'[told].successes = Cardinality(SuccessesCounted(told)')
       /\ health'[told].failures = Cardinality(FailuresCounted(told)')
  <2>1. IsFiniteSet(SuccessesCounted(told)) /\ IsFiniteSet(FailuresCounted(told))
    BY CountsAreFinite
  <2>2. /\ Cardinality(SuccessesCounted(told) \cup {this}) = Cardinality(SuccessesCounted(told)) + 1
        /\ Cardinality(FailuresCounted(told) \cup {this}) = Cardinality(FailuresCounted(told)) + 1
    BY <1>7, <2>1, FS_AddElement
  <2>3. /\ health[told].successes = Cardinality(SuccessesCounted(told))
        /\ health[told].failures = Cardinality(FailuresCounted(told))
    BY <1>0 DEF HealthIsTheCount
  <2> QED BY <1>7, <1>9, <2>2, <2>3
<1> QED BY <1>6, <1>8, <1>10 DEF HealthIsTheCount

\* Every step keeps the books, and the health of each subject in step with them.
LEMMA BooksStepHolds == BooksIInv /\ [AccessNext]_accessVars => BooksIInv'
<1> SUFFICES ASSUME BooksIInv, [AccessNext]_accessVars PROVE BooksIInv'
  OBVIOUS
<1> USE DEF BooksIInv
<1>1. AccessIInv'
  BY AccessStepHolds
<1>2. ASSUME \A b \in Access : Books(b)' /\ SameCounts(b),
             \A s \in Subject : /\ health'[s].successes = health[s].successes
                                /\ health'[s].failures = health[s].failures
      PROVE  BooksAreKept' /\ HealthIsTheCount'
  BY <1>2, CountsStayTheSame DEF BooksAreKept, HealthIsTheCount
<1>3. ASSUME NEW a \in Access, Does(a)
      PROVE  BooksIInv'
  <2>1. \A b \in Access \ {a} : Books(b)' /\ SameCounts(b)
    BY <1>3, OthersAreUntouched, UntouchedBooks DEF BooksAreKept, SameCounts
  <2>2. BegunAreFinite'
    <3>1. {b \in Access : pc'[b] # "idle"} \subseteq {b \in Access : pc[b] # "idle"} \cup {a}
      BY <1>3, OthersAreUntouched DEF Untouched
    <3>2. IsFiniteSet({b \in Access : pc[b] # "idle"} \cup {a})
      BY FS_AddElement DEF BegunAreFinite
    <3> QED BY <3>1, <3>2, FS_Subset DEF BegunAreFinite
  <2>3. Books(a)
    BY DEF BooksAreKept
  <2>4. CASE Record(a) => subjects[a] = <<>>
    <3>1. Books(a)' /\ SameCounts(a) /\ health' = health
      BY <1>3, <2>3, <2>4, BooksOfAStep
    <3> QED BY <1>1, <1>2, <2>1, <2>2, <3>1
  <2>5. CASE Record(a) /\ subjects[a] # <<>>
    <3>1. Books(a)'
      BY <2>3, <2>5, BooksOfRecord
    <3>2. HealthIsTheCount'
      <4>1. Head(subjects[a]) \in Subject /\ attempt[a] \in Attempt
        BY <2>5, SubjectsAreSubjects DEF AccessIInv, AccessTypeOK
      <4> QED BY <2>5, <4>1, RecordCountsOnce
    <3> QED BY <1>1, <2>1, <2>2, <3>1, <3>2 DEF BooksAreKept
  <2> QED BY <2>4, <2>5
<1>4. ASSUME UNCHANGED <<pc, attempt, subjects, results, interrupted>>,
             \A s \in Subject : /\ health'[s].successes = health[s].successes
                                /\ health'[s].failures = health[s].failures
      PROVE  BooksIInv'
  <2>1. \A b \in Access : Untouched(b)
    BY <1>4 DEF Untouched
  <2>2. \A b \in Access : Books(b)' /\ SameCounts(b)
    BY <2>1, UntouchedBooks DEF BooksAreKept, SameCounts
  <2>3. BegunAreFinite'
    BY <1>4 DEF BegunAreFinite
  <2> QED BY <1>1, <1>2, <1>4, <2>2, <2>3
<1>5. CASE AccessTick
  <2>1. \A s \in Subject : /\ health'[s].successes = health[s].successes
                           /\ health'[s].failures = health[s].failures
    <3>1. ASSUME NEW s \in Subject
          PROVE  /\ Older(health[s]).successes = health[s].successes
                 /\ Older(health[s]).failures = health[s].failures
      <4>1. health[s] \in Health(Policy[s].quarantineTime)
        BY DEF AccessIInv, AccessTypeOK
      <4> QED BY <4>1 DEF Older, Health
    <3> QED BY <1>5, <3>1 DEF AccessTick
  <2> QED BY <1>4, <1>5, <2>1 DEF AccessTick
<1>6. CASE UNCHANGED accessVars
  BY <1>4, <1>6 DEF accessVars
<1> QED BY <1>3, <1>5, <1>6 DEF AccessNext, Does

\* When no access is under way, every subject has counted each execution on it exactly
\* once and on the right side, but for those of interrupted accesses: for any number
\* of accesses and subjects, with and without a fallback.
THEOREM OutcomesAreAlwaysCounted == AccessSpec => []OutcomesAreCounted
<1>1. AccessInit => BooksIInv
  <2> SUFFICES ASSUME AccessInit PROVE BooksIInv
    OBVIOUS
  <2>1. BooksAreKept
    BY DEF AccessInit, BooksAreKept, Books, Before, Returning, RecordsInUse, RecordsAfter, Attempt
  <2>2. {a \in Access : pc[a] # "idle"} = {}
    BY DEF AccessInit
  <2>3. \A s : SuccessesCounted(s) = {} /\ FailuresCounted(s) = {}
    <3>1. \A a \in Access, t \in Attempt : ~Succeeded(a, t) /\ ~Failed(a, t)
      BY DEF AccessInit, Succeeded, Failed, NeedsFallback, Attempt
    <3> QED BY <3>1 DEF SuccessesCounted, FailuresCounted, SuccessCounted, FailureCounted, AccessKey
  <2>4. \A s \in Subject : health[s].successes = 0 /\ health[s].failures = 0
    BY DEF AccessInit, Unseen
  <2> QED BY <2>1, <2>2, <2>3, <2>4, FS_EmptySet, AccessInitiallyHolds
          DEF BooksIInv, BegunAreFinite, HealthIsTheCount
<1>2. BooksIInv => OutcomesAreCounted
  <2> SUFFICES ASSUME BooksIInv, \A a \in Access : pc[a] \in {"idle", "done"},
                      NEW s \in Subject
               PROVE  /\ Counts(health[s].successes, Executions(s, Succeeded))
                      /\ Counts(health[s].failures, Executions(s, Failed))
    BY DEF OutcomesAreCounted
  <2> USE DEF BooksIInv
  <2>1. /\ SuccessesCounted(s) \subseteq Executions(s, Succeeded)
        /\ FailuresCounted(s) \subseteq Executions(s, Failed)
        /\ IsFiniteSet(Executions(s, Succeeded)) /\ IsFiniteSet(Executions(s, Failed))
        /\ IsFiniteSet(SuccessesCounted(s)) /\ IsFiniteSet(FailuresCounted(s))
    BY CountsAreFinite
  <2>2. ASSUME NEW a \in Access, NEW t \in Attempt, a \notin interrupted,
               Succeeded(a, t) \/ Failed(a, t)
        PROVE  t = attempt[a] => Owed(a) = {}
    <3>1. SUFFICES ASSUME t = attempt[a] PROVE subjects[a] = <<>>
      BY OwedInFull
    <3>2. RecordsInUse(a) \/ RecordsAfter(a)
      BY <2>2, <3>1 DEF RecordsInUse, RecordsAfter, Succeeded, Failed, NeedsFallback, Attempt
    <3>3. pc[a] = "done"
      <4>1. pc[a] = "idle" => results[a][attempt[a]] = "none" /\ attempt[a] # "fallback"
        BY DEF BooksAreKept, Books
      <4> QED BY <3>2, <4>1 DEF RecordsInUse, RecordsAfter
    <3> QED BY <2>2, <3>2, <3>3 DEF BooksAreKept, Books
  <2>3. /\ Uninterrupted(Executions(s, Succeeded)) \subseteq SuccessesCounted(s)
        /\ Uninterrupted(Executions(s, Failed)) \subseteq FailuresCounted(s)
    <3>1. ASSUME NEW e \in AccessKey, e[1] \notin interrupted,
                 Succeeded(e[1], e[2]) \/ Failed(e[1], e[2])
          PROVE  e[2] = attempt[e[1]] => s \notin Owed(e[1])
      <4>1. e[1] \in Access /\ e[2] \in Attempt
        BY DEF AccessKey
      <4> QED BY <2>2, <3>1, <4>1
    <3> QED BY <3>1 DEF Uninterrupted, Executions, SuccessesCounted, FailuresCounted,
                        SuccessCounted, FailureCounted, Concerns
  <2>4. /\ health[s].successes = Cardinality(SuccessesCounted(s))
        /\ health[s].failures = Cardinality(FailuresCounted(s))
    BY DEF HealthIsTheCount
  <2>5. /\ Cardinality(SuccessesCounted(s)) <= Cardinality(Executions(s, Succeeded))
        /\ Cardinality(FailuresCounted(s)) <= Cardinality(Executions(s, Failed))
        /\ Cardinality(Uninterrupted(Executions(s, Succeeded))) <= Cardinality(SuccessesCounted(s))
        /\ Cardinality(Uninterrupted(Executions(s, Failed))) <= Cardinality(FailuresCounted(s))
    BY <2>1, <2>3, FS_Subset
  <2> QED BY <2>4, <2>5 DEF Counts
<1> QED BY <1>1, <1>2, BooksStepHolds, PTL DEF AccessSpec
=============================================================================
