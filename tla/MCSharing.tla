----------------------------- MODULE MCSharing -----------------------------
(***************************************************************************)
(* Small instances of the components whose callers compete for something:  *)
(* work claims, leases of access paths, permits of the budget.  They share *)
(* no state, so one exploration takes one of them, its subject, and        *)
(* follows it; every property is about one of them.                        *)
(***************************************************************************)
EXTENDS MCWorkClaimStore, MCAccessExecution, MCAccessBudget

VARIABLE subject    \* the component under way, or "none"

sharingVars == <<subject, vars, accessVars, budgetVars>>

SharingInit ==
  /\ subject = "none"
  /\ Init /\ AccessInit /\ BudgetInit

Takes(component) == subject \in {"none", component} /\ subject' = component

SharingNext ==
  \/ Takes("claims") /\ Next
     /\ UNCHANGED <<accessVars, budgetVars>>
  \/ Takes("access") /\ AccessNext
     /\ UNCHANGED <<vars, budgetVars>>
  \/ Takes("budget") /\ BudgetNext
     /\ UNCHANGED <<vars, accessVars>>

SharingSpec == SharingInit /\ [][SharingNext]_sharingVars
=============================================================================
