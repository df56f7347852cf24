---------------------------- MODULE AccessBudget ----------------------------
(***************************************************************************)
(* The concurrency budgets of libs/foundation/core                         *)
(* (access-budget-runtime.ts): accesses under one budget id share a global *)
(* semaphore and one semaphore per domain.  An access takes a global       *)
(* permit, then one of its domain, and gives the first one back if the     *)
(* second is refused; nobody queues.  The budget and the semaphores of its *)
(* domains are made on first use, by whoever comes first.                  *)
(*                                                                         *)
(* Fibers may switch between any two operations on shared state.           *)
(***************************************************************************)
EXTENDS Integers, FiniteSets

CONSTANTS Accesses,     \* calls of withPermit with one budget id
          Domains,
          HostOf,     \* [Accesses -> Domains]
          Asked,        \* the capacities an access's budget names: [global, perDomain]
          Absent        \* a semaphore nobody has made

Capacities == {c \in [global : Nat \ {0}, perDomain : Nat \ {0}] : c.perDomain <= c.global}

ASSUME BudgetAssumption ==
    /\ IsFiniteSet(Accesses)
    /\ HostOf \in [Accesses -> Domains]
    /\ Asked \in [Accesses -> Capacities]
    /\ Absent \notin Nat /\ Absent \notin Capacities

Stages == {"new", "makeBudget", "global", "findDomain", "makeDomain", "domain",
           "backOut", "holding", "rejected", "done"}

VARIABLES
    budget,       \* the capacities of the budget state, Absent until it is made
    globalFree,   \* permits of the global semaphore
    domainFree,   \* permits of a domain's semaphore, Absent until it is made
    at            \* the stage of an access

budgetVars == <<budget, globalFree, domainFree, at>>

BudgetTypeOK ==
    /\ budget \in Capacities \cup {Absent}
    /\ globalFree \in Nat
    /\ domainFree \in [Domains -> Nat \cup {Absent}]
    /\ at \in [Accesses -> Stages]

BudgetInit ==
    /\ budget = Absent
    /\ globalFree = 0
    /\ domainFree = [d \in Domains |-> Absent]
    /\ at = [a \in Accesses |-> "new"]

Goes(a, stage) == at' = [at EXCEPT ![a] = stage]

-----------------------------------------------------------------------------
\* An access looks the budget's state up, and makes one if there is none.
FindBudget(a) ==
    /\ at[a] = "new"
    /\ Goes(a, IF budget = Absent THEN "makeBudget" ELSE "global")
    /\ UNCHANGED <<budget, globalFree, domainFree>>

\* Of several accesses that made a state the first one's stays, with its
\* capacities, whatever the others' budgets name.
MakeBudget(a) ==
    /\ at[a] = "makeBudget"
    /\ IF budget = Absent
       THEN budget' = Asked[a] /\ globalFree' = Asked[a].global
       ELSE UNCHANGED <<budget, globalFree>>
    /\ Goes(a, "global")
    /\ UNCHANGED domainFree

TakeGlobal(a) ==
    /\ at[a] = "global"
    /\ IF globalFree > 0
       THEN globalFree' = globalFree - 1 /\ Goes(a, "findDomain")
       ELSE Goes(a, "rejected") /\ UNCHANGED globalFree
    /\ UNCHANGED <<budget, domainFree>>

FindDomain(a) ==
    /\ at[a] = "findDomain"
    /\ Goes(a, IF domainFree[HostOf[a]] = Absent THEN "makeDomain" ELSE "domain")
    /\ UNCHANGED <<budget, globalFree, domainFree>>

\* A bug for the checks to find: the semaphore somebody else made is replaced.
ReplaceDomain(a) ==
    /\ at[a] = "makeDomain"
    /\ domainFree' = [domainFree EXCEPT ![HostOf[a]] = budget.perDomain]
    /\ Goes(a, "domain")
    /\ UNCHANGED <<budget, globalFree>>

MakeDomain(a) ==
    /\ at[a] = "makeDomain"
    /\ domainFree' = [domainFree EXCEPT ![HostOf[a]] = IF @ = Absent THEN budget.perDomain ELSE @]
    /\ Goes(a, "domain")
    /\ UNCHANGED <<budget, globalFree>>

TakeDomain(a) ==
    /\ at[a] = "domain"
    /\ LET d == HostOf[a]
       IN  IF domainFree[d] > 0
           THEN domainFree' = [domainFree EXCEPT ![d] = @ - 1] /\ Goes(a, "holding")
           ELSE Goes(a, "backOut") /\ UNCHANGED domainFree
    /\ UNCHANGED <<budget, globalFree>>

BackOut(a) ==
    /\ at[a] = "backOut"
    /\ globalFree' = globalFree + 1
    /\ Goes(a, "rejected")
    /\ UNCHANGED <<budget, domainFree>>

\* The effect ends, fails or is interrupted: both permits are given back in one
\* transaction.
GiveBack(a) ==
    /\ at[a] = "holding"
    /\ domainFree' = [domainFree EXCEPT ![HostOf[a]] = @ + 1]
    /\ globalFree' = globalFree + 1
    /\ Goes(a, "done")
    /\ UNCHANGED budget

\* The same caller may come again.
Again(a) ==
    /\ at[a] \in {"rejected", "done"}
    /\ Goes(a, "new")
    /\ UNCHANGED <<budget, globalFree, domainFree>>

Step(a) ==
    \/ FindBudget(a) \/ MakeBudget(a)
    \/ TakeGlobal(a)
    \/ FindDomain(a) \/ MakeDomain(a)
    \/ TakeDomain(a) \/ BackOut(a)
    \/ GiveBack(a)

BudgetNext == \E a \in Accesses : Step(a) \/ Again(a)

\* Fibers are scheduled and what runs under a permit ends.
Fairness == \A a \in Accesses : WF_budgetVars(Step(a))

BudgetSpec == BudgetInit /\ [][BudgetNext]_budgetVars /\ Fairness

-----------------------------------------------------------------------------
Holders == {a \in Accesses : at[a] = "holding"}

\* Accesses with a global permit: the holders, and those on their way to the
\* permit of their domain or back from it.
GlobalHolders == {a \in Accesses : at[a] \in {"findDomain", "makeDomain", "domain", "backOut", "holding"}}

HoldersOf(d) == {a \in Holders : HostOf[a] = d}

\* No interleaving lets more accesses run than the budget allows, in all or in
\* one domain (withPermit, "prevents overrun under stress").
NeverOverrun ==
    budget # Absent =>
        /\ Cardinality(Holders) <= budget.global
        /\ \A d \in Domains : Cardinality(HoldersOf(d)) <= budget.perDomain

\* No permit is lost or invented, on any path: whatever is not held is free.
PermitsAreConserved ==
    budget # Absent =>
        /\ globalFree + Cardinality(GlobalHolders) = budget.global
        /\ \A d \in Domains : domainFree[d] # Absent =>
              domainFree[d] + Cardinality(HoldersOf(d)) = budget.perDomain

\* Accesses at a semaphore find the one that was made for them.
SemaphoresAreThere ==
    /\ \A a \in Accesses : at[a] \notin {"new", "makeBudget"} => budget # Absent
    /\ \A a \in Accesses : at[a] \in {"domain", "holding"} => domainFree[HostOf[a]] # Absent

\* An access is refused only at a moment when others have every permit of the semaphore that
\* refuses it.  The global permits may be with accesses that their own domain is refusing:
\* such a refusal is under load that is about to go.
RefusedUnderLoad ==
    [][\A a \in Accesses :
        /\ at[a] = "global" /\ at'[a] = "rejected" =>
              Cardinality(GlobalHolders \ {a}) = budget.global
        /\ at[a] = "domain" /\ at'[a] = "backOut" =>
              Cardinality(HoldersOf(HostOf[a]) \ {a}) = budget.perDomain]_budgetVars
=============================================================================
