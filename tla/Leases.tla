-------------------------------- MODULE Leases --------------------------------
(***************************************************************************)
(* The map of a lease manager, as egress-lease-runtime.ts and              *)
(* identity-lease-runtime.ts keep it for one owner: a set of leases, each  *)
(* with its key, its scope and the time that is left to it.  An egress     *)
(* scope is a pool and a route policy, an identity scope a tenant and a    *)
(* domain.  The id of a lease is made of the owner, the key and the        *)
(* instant; callers of the SDK never use a key twice, so the key is the id.*)
(***************************************************************************)
EXTENDS Naturals, FiniteSets

InScope(leases, scope) == {lease \in leases : lease.scope = scope}

InPool(leases, pool) == {lease \in leases : lease.scope.pool = pool}

\* A bug for the checks to find: a lease is swept an instant too early.
UnexpiredLongEnough(leases) == {lease \in leases : lease.left > 1}

\* sweepExpired: expiresAt <= now.
Unexpired(leases) == {lease \in leases : lease.left > 0}

\* identity acquire, and what egress acquire asks of the route.
HasRoom(leases, scope, key, max) ==
  /\ Cardinality(InScope(leases, scope)) < max
  /\ \A lease \in InScope(leases, scope) : lease.key # key

\* egress acquire asks for room in the pool first.
HasRoomInPool(leases, scope, key, maxPool, maxRoute) ==
  /\ Cardinality(InPool(leases, scope.pool)) < maxPool
  /\ HasRoom(leases, scope, key, maxRoute)

Allocated(leases, scope, key, ttl) ==
  {lease \in leases : lease.key # key}
    \cup {[key |-> key, scope |-> scope, left |-> ttl]}

\* release sweeps, too; a lease that is gone is no error.
Released(leases, key) == {lease \in Unexpired(leases) : lease.key # key}

\* One instant passes.
AgedLeases(leases) ==
  {[lease EXCEPT !.left = IF @ = 0 THEN 0 ELSE @ - 1] : lease \in leases}
=============================================================================
