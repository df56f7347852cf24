----------------------------- MODULE WorkClaims -----------------------------
(***************************************************************************)
(* The record a workflow work-claim store keeps for one piece of work, and *)
(* what claim, renew, complete and release make of it.  The in-memory and  *)
(* the SQLite store run the same decision procedure on one record under a  *)
(* single atomic access (Effect.sync, one SQLite transaction), so both are *)
(* modelled by these operators.                                            *)
(*                                                                         *)
(* A record carries the claim id that owns it, the checkpoint sequence it  *)
(* was claimed for, and the output (artifact ids and resume token) stored  *)
(* by its completion.  Instants are kept relative to the present: lease is *)
(* expiresAt - now, floored at 0, so that the passing of time is Aged and  *)
(* the state space stays finite.  Plan, stage and step ids follow from the *)
(* key and are left out; so are the claim and takeover counters and the    *)
(* other timestamps, which no decision reads.                              *)
(***************************************************************************)
EXTENDS Naturals

CONSTANTS ClaimId,   \* claim ids, one per attempt at a piece of work
          Output,    \* what a completed piece of work may have produced
          NoClaim,   \* the claim id of a record that does not exist yet
          NoOutput   \* artifactIds and resumeToken are undefined

ASSUME NoValues == NoClaim \notin ClaimId /\ NoOutput \notin Output

Status == {"absent", "claimed", "released", "completed"}

WorkClaimRecord ==
  [status    : Status,
   claimId   : ClaimId \cup {NoClaim},
   sequence  : Nat,
   lease     : Nat,
   output    : Output \cup {NoOutput}]

\* Map.get returned undefined, or the select found no row.
AbsentRecord ==
  [status |-> "absent", claimId |-> NoClaim, sequence |-> 0, lease |-> 0,
   output |-> NoOutput]

-----------------------------------------------------------------------------
\* A bug for the checks to find: abandoned claims stay live.
NeverExpired(rec) == FALSE

\* isExpired: expiresAt <= now.
IsExpired(rec) == rec.lease = 0

\* The record as it looks one instant later.
Aged(rec) == [rec EXCEPT !.lease = IF @ = 0 THEN 0 ELSE @ - 1]

\* A bug for the checks to find: claim does not compare sequences.
DecisionWithoutSupersession(rec, id, sequence) ==
  CASE rec.status = "absent"    -> "acquired"
    [] rec.status = "completed" -> "alreadyCompleted"
    [] rec.status = "claimed" /\ rec.claimId # id /\ ~IsExpired(rec)
                                -> "alreadyClaimed"
    [] OTHER                    -> "acquired"

\* A bug for the checks to find: claim takes over whatever the lease says.
DecisionIgnoringLeases(rec, id, sequence) ==
  CASE rec.status = "absent"    -> "acquired"
    [] rec.status = "completed" -> "alreadyCompleted"
    [] rec.status \in {"claimed", "released"} /\ rec.sequence > sequence
                                -> "superseded"
    [] OTHER                    -> "acquired"

\* The decision of claim, in the order of its early returns.
ClaimDecision(rec, id, sequence) ==
  CASE rec.status = "absent"    -> "acquired"
    [] rec.status = "completed" -> "alreadyCompleted"
    [] rec.status \in {"claimed", "released"} /\ rec.sequence > sequence
                                -> "superseded"
    [] rec.status = "claimed" /\ rec.sequence <= sequence
         /\ rec.claimId # id /\ ~IsExpired(rec)
                                -> "alreadyClaimed"
    [] OTHER                    -> "acquired"

\* buildClaimedRecord: a new claim, a claim after a release, or a takeover.
ClaimedRecord(rec, id, sequence, ttl) ==
  [rec EXCEPT !.status    = "claimed",
              !.claimId   = id,
              !.sequence  = sequence,
              !.lease     = ttl]

\* refreshClaimRecord: the holder claims again and keeps its checkpoint.
RefreshedRecord(rec, ttl) == [rec EXCEPT !.lease = ttl]

\* What claim stores when its decision is "acquired".
GrantedRecord(rec, id, sequence, ttl) ==
  IF rec.status = "claimed" /\ rec.claimId = id
  THEN RefreshedRecord(rec, ttl)
  ELSE ClaimedRecord(rec, id, sequence, ttl)

\* A bug for the checks to find: renew asks for a live claim, but not for whose.
RenewsAnyHolder(rec, id) == rec.status = "claimed" /\ ~IsExpired(rec)

\* renew answers Some only for a live claim of the same id.
CanRenew(rec, id) ==
  /\ rec.status = "claimed"
  /\ rec.claimId = id
  /\ ~IsExpired(rec)

RenewedRecord(rec, ttl) == [rec EXCEPT !.lease = ttl]

\* complete answers Some to the owner of a claimed or completed record; an
\* expired claim that nobody took over may still complete.
CanComplete(rec, id) ==
  /\ rec.claimId = id
  /\ rec.status \in {"claimed", "completed"}

\* A bug for the checks to find: a second completion replaces the output.
OverwritingCompletion(rec, output) ==
  [rec EXCEPT !.status = "completed", !.output = output]

\* completeClaimRecord; a record already completed is returned unchanged.
CompletedRecord(rec, output) ==
  IF rec.status = "completed" THEN rec
  ELSE [rec EXCEPT !.status = "completed", !.output = output]

\* release answers Some to the owner of a record.
CanRelease(rec, id) == rec.status # "absent" /\ rec.claimId = id

\* releaseClaimRecord; completed and released records are left as they are.
ReleasedRecord(rec) ==
  IF rec.status \in {"completed", "released"} THEN rec
  ELSE [rec EXCEPT !.status = "released", !.lease = 0]
=============================================================================
