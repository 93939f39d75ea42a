----------------------------- MODULE OutboxRows -----------------------------
(***************************************************************************)
(* The table sync_outbox of one device, as the pure functions that the     *)
(* statements of sync-outbox.repository.ts and                             *)
(* enqueue-sync-outbox-mutation.util.ts compute on it.                     *)
(*                                                                         *)
(* A table is a function from primary keys (mutation_id) to rows.  Only    *)
(* the columns some statement reads back are kept: attempt_count,          *)
(* coalesced_count, intent, last_failure_classification, claimed_by and    *)
(* the timestamps that only order or document a row are left out.  Two     *)
(* clocks remain, as counters that run down to 0:                          *)
(*   lease  ticks until claim_expires_at of a claimed row                  *)
(*   wait   ticks until next_attempt_at of a pending row                   *)
(***************************************************************************)
EXTENDS Naturals

CONSTANTS Mutations,   \* mutation ids
          Keys,        \* logical keys of one workspace
          Targets,     \* values of target_hash
          Tokens,      \* claim tokens
          NoToken,     \* NULL in column claim_token
          LeaseTicks,  \* lease duration of a claim
          RetryTicks   \* longest delay before a failed row is due again

ASSUME OutboxAssumption ==
    /\ NoToken \notin Tokens
    /\ LeaseTicks \in Nat \ {0}
    /\ RetryTicks \in Nat

Status == {"pending", "claimed", "completed", "superseded"}

Row == [key: Keys, latest: Mutations, target: Targets, status: Status,
        token: Tokens \cup {NoToken}, lease: 0..LeaseTicks, wait: 0..RetryTicks]

IsOpen(row) == row.status \in {"pending", "claimed"}

\* Mutant: coalesces into a row whose document is already in flight.
MutantPendingOrClaimedFor(rows, key) ==
    {m \in DOMAIN rows : rows[m].key = key /\ IsOpen(rows[m])}

PendingFor(rows, key) ==
    {m \in DOMAIN rows : rows[m].key = key /\ rows[m].status = "pending"}

OpenFor(rows, key) == {m \in DOMAIN rows : rows[m].key = key /\ IsOpen(rows[m])}

-----------------------------------------------------------------------------
(* enqueueSyncOutboxMutation *)

IsDuplicate(rows, key, mutation, target) ==
    \E m \in DOMAIN rows : /\ rows[m].key = key
                           /\ rows[m].latest = mutation
                           /\ rows[m].target = target

NewRow(key, mutation, target) ==
    [key |-> key, latest |-> mutation, target |-> target, status |-> "pending",
     token |-> NoToken, lease |-> 0, wait |-> 0]

\* The INSERT is rejected by the primary key: an earlier row has this id.
InsertCollides(rows, key, mutation, target) ==
    /\ ~IsDuplicate(rows, key, mutation, target)
    /\ PendingFor(rows, key) = {}
    /\ mutation \in DOMAIN rows

Coalesce(rows, key, mutation, target) ==
    [m \in DOMAIN rows |->
        IF m \in PendingFor(rows, key)
        THEN [rows[m] EXCEPT !.latest = mutation, !.target = target, !.wait = 0]
        ELSE rows[m]]

Insert(rows, key, mutation, target) ==
    [m \in DOMAIN rows \cup {mutation} |->
        IF m = mutation THEN NewRow(key, mutation, target) ELSE rows[m]]

EnqueueRows(rows, key, mutation, target) ==
    IF IsDuplicate(rows, key, mutation, target) THEN rows
    ELSE IF PendingFor(rows, key) # {} THEN Coalesce(rows, key, mutation, target)
    ELSE Insert(rows, key, mutation, target)

-----------------------------------------------------------------------------
(* claimAvailable *)

IsExpired(row) == row.status = "claimed" /\ row.lease = 0

IsDue(row) == row.status = "pending" /\ row.wait = 0

\* Mutant: forgets the claims of passes that died.
MutantClaimableDueOnly(rows) == {m \in DOMAIN rows : IsDue(rows[m])}

Claimable(rows) == {m \in DOMAIN rows : IsDue(rows[m]) \/ IsExpired(rows[m])}

Release(row, status) == [row EXCEPT !.status = status, !.token = NoToken, !.lease = 0]

\* Mutant: supersedes an expired claim although nothing newer is pending.
MutantSupersedeAllExpired(rows) ==
    [m \in DOMAIN rows |->
        IF IsExpired(rows[m]) THEN Release(rows[m], "superseded") ELSE rows[m]]

\* The first UPDATE of the transaction: an expired claim gives way to newer
\* pending work on the same key.
SupersedeExpired(rows) ==
    [m \in DOMAIN rows |->
        IF IsExpired(rows[m]) /\ PendingFor(rows, rows[m].key) # {}
        THEN Release(rows[m], "superseded")
        ELSE rows[m]]

\* Each claimed row gets a token of its own in the code.  A token is only ever
\* compared together with the row's mutation id, so one per call says the same.
ClaimRows(rows, batch, token) ==
    [m \in DOMAIN rows |->
        IF m \in batch
        THEN [rows[m] EXCEPT !.status = "claimed", !.token = token,
                             !.lease = LeaseTicks]
        ELSE rows[m]]

-----------------------------------------------------------------------------
(* renewClaim, complete, fail *)

\* Mutant: trusts the mutation id alone, whoever claimed the row since.
MutantHoldsAnyClaim(rows, mutation, token) ==
    /\ mutation \in DOMAIN rows
    /\ rows[mutation].status = "claimed"

HoldsClaim(rows, mutation, token) ==
    /\ mutation \in DOMAIN rows
    /\ rows[mutation].status = "claimed"
    /\ rows[mutation].token = token

RenewRows(rows, mutation, token) ==
    IF HoldsClaim(rows, mutation, token) /\ ~IsExpired(rows[mutation])
    THEN [rows EXCEPT ![mutation].lease = LeaseTicks]
    ELSE rows

CompleteRows(rows, mutation, token) ==
    IF HoldsClaim(rows, mutation, token)
    THEN [rows EXCEPT ![mutation] = Release(@, "completed")]
    ELSE rows

\* Mutant: returns the row to pending next to newer pending work.
MutantFailKeepsBoth(rows, mutation, token, delay) ==
    IF HoldsClaim(rows, mutation, token)
    THEN [rows EXCEPT ![mutation] = [Release(@, "pending") EXCEPT !.wait = delay]]
    ELSE rows

\* Mutant: backs off once more than the delay it was given.
MutantFailBacksOffTwice(rows, mutation, token, delay) ==
    IF HoldsClaim(rows, mutation, token)
    THEN [rows EXCEPT ![mutation] = [Release(@, "pending") EXCEPT !.wait = delay + 1]]
    ELSE rows

FailRows(rows, mutation, token, delay) ==
    IF ~HoldsClaim(rows, mutation, token) THEN rows
    ELSE IF PendingFor(rows, rows[mutation].key) # {}
    THEN [rows EXCEPT ![mutation] = [Release(@, "superseded") EXCEPT !.wait = 0]]
    ELSE [rows EXCEPT ![mutation] = [Release(@, "pending") EXCEPT !.wait = delay]]

-----------------------------------------------------------------------------
(* The UPDATE at the end of SyncReconciliationRepository.applyPull: a pulled *)
(* document that equals the local one settles the mutation it carries.       *)

AcknowledgeRows(rows, key, mutation) ==
    [m \in DOMAIN rows |->
        IF /\ rows[m].key = key
           /\ rows[m].latest = mutation
           /\ IsOpen(rows[m])
        THEN Release(rows[m], "completed")
        ELSE rows[m]]

=============================================================================
