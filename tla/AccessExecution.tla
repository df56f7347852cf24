--------------------------- MODULE AccessExecution ---------------------------
(***************************************************************************)
(* The execution of accesses by the SDK: each access leases an egress and  *)
(* an identity, checks the health of the subjects on its path, executes,   *)
(* records the outcome with the health runtime and returns its leases.  A  *)
(* primary path that meets an access wall is recorded as failed and, when  *)
(* the intent has one, followed by a fallback path in the browser, which   *)
(* is executed without a health check.                                     *)
(*                                                                         *)
(* Accesses are fibers that share two lease managers and one health        *)
(* runtime; each modification of one of their references is one action,    *)
(* so that fibers may switch between any two.  A path is acquired and      *)
(* released without interruption (acquireUseRelease).  Nothing renews a    *)
(* lease: a path that is used longer than its leases last loses them.      *)
(*                                                                         *)
(* All accesses have one owner and one tenant.  The egress and identity    *)
(* keys of a leased path are used once, so nobody reads the health of the  *)
(* two subjects that are named after them; the model keeps the health of   *)
(* domains and of paths (provider, profiles and plugins as one).           *)
(***************************************************************************)
EXTENDS AccessHealth, Leases, Sequences

CONSTANTS Access,         \* accesses, each made once
          Domain,         \* target domains
          Path,           \* a provider with its egress and identity profiles
          DomainOf,       \* [Access -> Domain]
          PrimaryOf,      \* [Access -> Path], the path of the intent
          FallbackOf,     \* [Access -> Path or NoPath], browserOnAccessWall
          NoPath,
          Pool,           \* the egress pool of all paths
          LeaseTime,      \* ttlMs of both leases
          MaxPool,        \* maxPoolLeases
          MaxRoute,       \* maxRouteLeases
          MaxIdentity,    \* maxActiveLeases of a domain
          Policy          \* [Domain or Path -> AccessHealthPolicy]

Subject == Domain \cup Path

\* A subject has a kind: none is both a domain and a path.
ASSUME AccessAssumption ==
  /\ Domain \cap Path = {}
  /\ DomainOf \in [Access -> Domain]
  /\ PrimaryOf \in [Access -> Path]
  /\ FallbackOf \in [Access -> Path \cup {NoPath}] /\ NoPath \notin Path
  /\ LeaseTime \in Nat \ {0}
  /\ {MaxPool, MaxRoute, MaxIdentity} \subseteq Nat \ {0}
  /\ \A s \in Subject :
       /\ Policy[s].failureThreshold \in Nat \ {0}
       /\ Policy[s].recoveryThreshold \in Nat \ {0}
       /\ Policy[s].quarantineTime \in Nat \ {0}

Attempt == {"primary", "fallback"}

AccessKey == Access \X Attempt

VARIABLES egress,      \* the records of the egress lease manager
          identity,    \* the records of the identity lease manager
          health,      \* [Subject -> Health]
          pc,          \* where each access is
          attempt,     \* whether it is on its primary or its fallback path
          subjects,    \* the subjects it has still to check or to record
          results,     \* what became of each access's attempts
          interrupted  \* the accesses that were interrupted

accessVars == <<egress, identity, health, pc, attempt, subjects, results, interrupted>>

\* Inside acquireUseRelease, where the path is held.
PathHeld == {"sweepingIdentity", "leasingIdentity", "abandoning", "checking",
            "executing", "recording", "releasing", "releasingEgress",
            "releasingIdentity"}

Result == {"none", "success", "wall", "failure", "guardrail", "quarantined",
           "unavailable"}

Lease(scopes) == [key : AccessKey, scope : scopes, left : 0..LeaseTime]

AccessTypeOK ==
  /\ egress \subseteq Lease([pool : {Pool}, route : Path])
  /\ identity \subseteq Lease(Domain)
  /\ \A s \in Subject : health[s] \in Health(Policy[s].quarantineTime)
  /\ pc \in [Access -> PathHeld \cup {"idle", "sweepingEgress", "leasingEgress",
                                     "settling", "concluding", "done"}]
  /\ attempt \in [Access -> Attempt]
  /\ subjects \in [Access -> Seq(Subject)]
  /\ results \in [Access -> [Attempt -> Result]]
  /\ interrupted \subseteq Access

AccessInit ==
  /\ egress = {}
  /\ identity = {}
  /\ health = [s \in Subject |-> Unseen]
  /\ pc = [a \in Access |-> "idle"]
  /\ attempt = [a \in Access |-> "primary"]
  /\ subjects = [a \in Access |-> <<>>]
  /\ results = [a \in Access |-> [t \in Attempt |-> "none"]]
  /\ interrupted = {}

-----------------------------------------------------------------------------
Goto(a, place) == pc' = [pc EXCEPT ![a] = place]

KeyOf(a) == <<a, attempt[a]>>

PathOf(a) == IF attempt[a] = "primary" THEN PrimaryOf[a] ELSE FallbackOf[a]

EgressScope(a) == [pool |-> Pool, route |-> PathOf(a)]

\* subjectsFor: in this order.
SubjectsFor(a) == <<DomainOf[a], PathOf(a)>>

Finish(a, result) == results' = [results EXCEPT ![a][attempt[a]] = result]

Begin(a) ==
  /\ pc[a] = "idle"
  /\ Goto(a, "sweepingEgress")
  /\ UNCHANGED <<egress, identity, health, attempt, subjects, results, interrupted>>

SweepEgress(a) ==
  /\ pc[a] = "sweepingEgress"
  /\ egress' = Unexpired(egress)
  /\ Goto(a, "leasingEgress")
  /\ UNCHANGED <<identity, health, attempt, subjects, results, interrupted>>

\* A path that cannot be leased ends the access: with its error, or with the
\* primary result when it is the fallback's.
LeaseEgress(a) ==
  /\ pc[a] = "leasingEgress"
  /\ IF HasRoomInPool(egress, EgressScope(a), KeyOf(a), MaxPool, MaxRoute)
     THEN /\ egress' = Allocated(egress, EgressScope(a), KeyOf(a), LeaseTime)
          /\ Goto(a, "sweepingIdentity")
          /\ UNCHANGED results
     ELSE /\ Finish(a, "unavailable")
          /\ Goto(a, "done")
          /\ UNCHANGED egress
  /\ UNCHANGED <<identity, health, attempt, subjects, interrupted>>

SweepIdentity(a) ==
  /\ pc[a] = "sweepingIdentity"
  /\ identity' = Unexpired(identity)
  /\ Goto(a, "leasingIdentity")
  /\ UNCHANGED <<egress, health, attempt, subjects, results, interrupted>>

\* A fallback path is executed without a health check.
LeaseIdentity(a) ==
  /\ pc[a] = "leasingIdentity"
  /\ IF HasRoom(identity, DomainOf[a], KeyOf(a), MaxIdentity)
     THEN /\ identity' = Allocated(identity, DomainOf[a], KeyOf(a), LeaseTime)
          /\ Goto(a, IF attempt[a] = "primary" THEN "checking" ELSE "executing")
          /\ subjects' = [subjects EXCEPT ![a] = SubjectsFor(a)]
     ELSE /\ Goto(a, "abandoning")
          /\ UNCHANGED <<identity, subjects>>
  /\ UNCHANGED <<egress, health, attempt, results, interrupted>>

\* A bug for the checks to find: the egress lease is forgotten when there is no identity.
AbandonNothing(a) ==
  /\ pc[a] = "abandoning"
  /\ Finish(a, "unavailable")
  /\ Goto(a, "done")
  /\ UNCHANGED <<egress, identity, health, attempt, subjects, interrupted>>

\* provision returns the egress lease when there is no identity.
AbandonEgress(a) ==
  /\ pc[a] = "abandoning"
  /\ egress' = Released(egress, KeyOf(a))
  /\ Finish(a, "unavailable")
  /\ Goto(a, "done")
  /\ UNCHANGED <<identity, health, attempt, subjects, interrupted>>

-----------------------------------------------------------------------------
(* The use of the path.                                                     *)

\* assertHealthy, one subject after the other.
CheckHealth(a) ==
  /\ pc[a] = "checking"
  /\ IF subjects[a] = <<>>
     THEN /\ Goto(a, "executing")
          /\ subjects' = [subjects EXCEPT ![a] = SubjectsFor(a)]
          /\ UNCHANGED results
     ELSE IF IsQuarantined(health[Head(subjects[a])])
     THEN /\ Finish(a, "quarantined")
          /\ Goto(a, "releasing")
          /\ UNCHANGED subjects
     ELSE /\ subjects' = [subjects EXCEPT ![a] = Tail(@)]
          /\ UNCHANGED <<pc, results>>
  /\ UNCHANGED <<egress, identity, health, attempt, interrupted>>

\* A bug for the checks to find: the success of a primary
\* path is recorded before its release as well.
ExecuteRecordingAll(a, result) ==
  /\ pc[a] = "executing"
  /\ Finish(a, result)
  /\ Goto(a, IF result = "guardrail" THEN "releasing" ELSE "recording")
  /\ UNCHANGED <<egress, identity, health, attempt, subjects, interrupted>>

\* The engine resolves or fails.  Failures of a policy's guardrails are not
\* recorded, the success of a primary path is recorded when it was released.
Execute(a, result) ==
  /\ pc[a] = "executing"
  /\ Finish(a, result)
  /\ Goto(a, IF \/ result = "failure"
                \/ result \in {"success", "wall"} /\ attempt[a] = "fallback"
             THEN "recording" ELSE "releasing")
  /\ UNCHANGED <<egress, identity, health, attempt, subjects, interrupted>>

\* The primary result that sends an access to its fallback.
NeedsFallback(a) == results[a]["primary"] = "wall" /\ FallbackOf[a] # NoPath

\* Whether an attempt counts as a success for the health of its path.
Succeeded(a, t) ==
  results[a][t] \in {"success", "wall"} /\ ~(t = "primary" /\ NeedsFallback(a))

Failed(a, t) ==
  \/ results[a][t] = "failure"
  \/ t = "primary" /\ NeedsFallback(a)

\* recordSuccess or recordFailure, one subject after the other: inside the use
\* of the path, or for a primary path that was released.
Record(a) ==
  /\ pc[a] \in {"recording", "concluding"}
  /\ IF subjects[a] = <<>>
     THEN /\ Goto(a, CASE pc[a] = "recording" -> "releasing"
                       [] pc[a] = "concluding" /\ NeedsFallback(a) -> "sweepingEgress"
                       [] OTHER -> "done")
          /\ attempt' = [attempt EXCEPT ![a] =
                           IF pc[a] = "concluding" /\ NeedsFallback(a)
                           THEN "fallback" ELSE @]
          /\ UNCHANGED <<health, subjects>>
     ELSE LET s == Head(subjects[a]) IN
          /\ health' = [health EXCEPT ![s] =
                          IF Succeeded(a, attempt[a])
                          THEN SuccessRecorded(@, Policy[s])
                          ELSE FailureRecorded(@, Policy[s])]
          /\ subjects' = [subjects EXCEPT ![a] = Tail(@)]
          /\ UNCHANGED <<pc, attempt>>
  /\ UNCHANGED <<egress, identity, results, interrupted>>

\* The fiber of an access is interrupted while it uses its path, or after.
Interrupt(a) ==
  /\ pc[a] \in {"checking", "executing", "recording", "settling", "concluding"}
  /\ interrupted' = interrupted \cup {a}
  /\ Goto(a, IF pc[a] \in PathHeld THEN "releasing" ELSE "done")
  /\ UNCHANGED <<egress, identity, health, attempt, subjects, results>>

-----------------------------------------------------------------------------
(* The release of the path: both leases, in any order.                      *)

ReleaseEgress(a) ==
  /\ pc[a] \in {"releasing", "releasingEgress"}
  /\ egress' = Released(egress, KeyOf(a))
  /\ Goto(a, IF pc[a] = "releasing" THEN "releasingIdentity" ELSE "settling")
  /\ UNCHANGED <<identity, health, attempt, subjects, results, interrupted>>

ReleaseIdentity(a) ==
  /\ pc[a] \in {"releasing", "releasingIdentity"}
  /\ identity' = Released(identity, KeyOf(a))
  /\ Goto(a, IF pc[a] = "releasing" THEN "releasingEgress" ELSE "settling")
  /\ UNCHANGED <<egress, health, attempt, subjects, results, interrupted>>

\* Whether the outcome of a released path is still to be recorded: the success
\* of a primary path, or its access wall when there is a fallback.
Settle(a) ==
  /\ pc[a] = "settling"
  /\ IF /\ attempt[a] = "primary" /\ a \notin interrupted
        /\ results[a]["primary"] \in {"success", "wall"}
     THEN /\ Goto(a, "concluding")
          /\ subjects' = [subjects EXCEPT ![a] = SubjectsFor(a)]
     ELSE /\ Goto(a, "done")
          /\ UNCHANGED subjects
  /\ UNCHANGED <<egress, identity, health, attempt, results, interrupted>>

\* An instant passes for the leases and the quarantines.
AccessTick ==
  /\ egress' = AgedLeases(egress)
  /\ identity' = AgedLeases(identity)
  /\ health' = [s \in Subject |-> Older(health[s])]
  /\ UNCHANGED <<pc, attempt, subjects, results, interrupted>>

AccessNext ==
  \/ \E a \in Access :
       \/ Begin(a) \/ SweepEgress(a) \/ LeaseEgress(a)
       \/ SweepIdentity(a) \/ LeaseIdentity(a) \/ AbandonEgress(a)
       \/ CheckHealth(a)
       \/ \E result \in {"success", "wall", "failure", "guardrail"} : Execute(a, result)
       \/ Record(a) \/ Interrupt(a)
       \/ ReleaseEgress(a) \/ ReleaseIdentity(a) \/ Settle(a)
  \/ AccessTick

AccessSpec == AccessInit /\ [][AccessNext]_accessVars

-----------------------------------------------------------------------------
\* Every lease belongs to an access that is on the path it was leased for: no way
\* through provision, use, failure, interruption and fallback leaves one behind
\* for the rest of its time.
LeasesAreReturned ==
  /\ \A lease \in egress :
       lease.key = KeyOf(lease.key[1]) /\ pc[lease.key[1]] \in PathHeld \ {"releasingIdentity"}
  /\ \A lease \in identity :
       /\ lease.key = KeyOf(lease.key[1])
       /\ pc[lease.key[1]] \in {"checking", "executing", "recording", "releasing",
                               "releasingIdentity"}

\* A lease with time left is given up by nobody but the access that holds it.
LeasesAreKept ==
  [][\A lease \in egress \cup identity :
       lease.left > 0 /\ pc'[lease.key[1]] = pc[lease.key[1]] =>
         \E kept \in egress' \cup identity' :
           kept.key = lease.key /\ kept.scope = lease.scope]_accessVars

\* Nothing that accesses record lifts, shortens or extends a quarantine that has
\* time left: not the success of a fallback, which needs no health check, and not
\* the failures of executions that were under way when it began.
QuarantineRunsItsTime ==
  [][\A s \in Subject :
       IsQuarantined(health[s]) =>
         \/ health'[s].quarantine = health[s].quarantine
         \/ pc' = pc /\ subjects' = subjects /\ health'[s] = Older(health[s])]_accessVars

\* When no access is under way, the health of a subject counts each execution on
\* it exactly once and on the right side, except that those of interrupted
\* accesses may be missing.
Executions(s, Outcome(_, _)) ==
  {e \in AccessKey :
     /\ Outcome(e[1], e[2])
     /\ s \in {DomainOf[e[1]],
              IF e[2] = "primary" THEN PrimaryOf[e[1]] ELSE FallbackOf[e[1]]}}

Uninterrupted(executions) == {e \in executions : e[1] \notin interrupted}

Counts(n, executions) ==
  Cardinality(Uninterrupted(executions)) <= n /\ n <= Cardinality(executions)

OutcomesAreCounted ==
  (\A a \in Access : pc[a] \in {"idle", "done"}) =>
    \A s \in Subject :
      /\ Counts(health[s].successes, Executions(s, Succeeded))
      /\ Counts(health[s].failures, Executions(s, Failed))
=============================================================================
