----------------------------- MODULE SyncOutbox -----------------------------
(***************************************************************************)
(* The durable outbox of one bound workspace, the domain repositories that *)
(* journal into it and the reconciliation passes ("workers") that drain    *)
(* it: claim a batch, snapshot the local documents, push them one by one,  *)
(* complete or fail the claims.  A pass may die or give up at any await    *)
(* and leave its claims behind; their leases then run out.                 *)
(*                                                                         *)
(* Every action is one SQLite transaction or one provider write, with the  *)
(* synchronous code around it.                                             *)
(***************************************************************************)
EXTENDS OutboxRows, FiniteSets

CONSTANTS Workers,      \* reconciliation passes that may hold claims
          MaxMutations, \* bound on the local mutations of a behaviour
          ClaimLimit    \* rows one claimAvailable call may take

\* A mutation id is its position in the order in which mutations are made, so
\* the order of ids is ORDER BY created_at, mutation_id.
ASSUME SyncOutboxAssumption ==
    /\ MaxMutations \in Nat
    /\ Mutations = 1..MaxMutations
    /\ Targets = Mutations
    /\ ClaimLimit \in Nat \ {0}

VARIABLES rows,      \* the table sync_outbox
          held,      \* held[w]: the claimed entries pass w works on, in memory
          content,   \* content[k]: mutation that made k's local content, 0 if none
          delivered, \* delivered[k]: newest content of k the provider stored
          minted     \* mutation ids handed out

vars == <<rows, held, content, delivered, minted>>

\* seen is the content a pass put in the document it will push, 0 before its
\* snapshot; sent is set once the provider stored that document.
Claim == [mutation: Mutations, token: Tokens, seen: 0..MaxMutations, sent: BOOLEAN]

\* The columns of the table, the entries passes keep in memory and the contents
\* have values their statements can write; a failed row waits RetryTicks at most.
TypeOK ==
    /\ DOMAIN rows \subseteq Mutations
    /\ rows \in [DOMAIN rows -> Row]
    /\ held \in [Workers -> SUBSET Claim]
    /\ content \in [Keys -> 0..MaxMutations]
    /\ delivered \in [Keys -> 0..MaxMutations]
    /\ minted \in 0..MaxMutations

Init ==
    /\ rows = [m \in {} |-> NewRow(m, m, m)]
    /\ held = [w \in Workers |-> {}]
    /\ content = [k \in Keys |-> 0]
    /\ delivered = [k \in Keys |-> 0]
    /\ minted = 0

HeldClaims == UNION {held[w] : w \in Workers}

\* The code draws a random UUID.  A token no pass holds is as good as a new one:
\* nobody can present it.
FreshToken(token) == \A c \in HeldClaims : c.token # token

IsLive(c) == HoldsClaim(rows, c.mutation, c.token)

\* At most ClaimLimit claimable rows, the oldest first.
Batch(table) ==
    {m \in Claimable(table) :
        Cardinality({n \in Claimable(table) : n < m}) < ClaimLimit}

-----------------------------------------------------------------------------
(* The domain repositories: a local mutation and its journal entry commit   *)
(* together.                                                                *)

Mutate(k) ==
    /\ minted < MaxMutations
    /\ minted' = minted + 1
    /\ content' = [content EXCEPT ![k] = minted + 1]
    /\ rows' = EnqueueRows(rows, k, minted + 1, minted + 1)
    /\ UNCHANGED <<held, delivered>>

(* A reconciliation pass.                                                   *)

ClaimAvailable(w) ==
    /\ held[w] = {}
    /\ \E token \in Tokens :
        LET swept == SupersedeExpired(rows)
            batch == Batch(swept)
        IN  /\ FreshToken(token)
            /\ rows' = ClaimRows(swept, batch, token)
            /\ held' = [held EXCEPT ![w] =
                            [mutation: batch, token: {token}, seen: {0}, sent: {FALSE}]]
    /\ UNCHANGED <<content, delivered, minted>>

\* listClaimedDocuments: every document is built from the current local state.
Snapshot(w) ==
    /\ held[w] # {}
    /\ \A c \in held[w] : c.seen = 0
    /\ held' = [held EXCEPT ![w] =
                    {[c EXCEPT !.seen = content[rows[c.mutation].key]] : c \in @}]
    /\ UNCHANGED <<rows, content, delivered, minted>>

\* The provider stores the document.  Its write is conditional on the version
\* the pass knows, so an older document never replaces a newer one.
Push(w, c) ==
    /\ c \in held[w]
    /\ c.seen # 0
    /\ ~c.sent
    /\ held' = [held EXCEPT ![w] = (@ \ {c}) \cup {[c EXCEPT !.sent = TRUE]}]
    /\ delivered' = [delivered EXCEPT ![rows[c.mutation].key] =
                        IF c.seen > @ THEN c.seen ELSE @]
    /\ UNCHANGED <<rows, content, minted>>

Complete(w, c) ==
    /\ c \in held[w]
    /\ c.sent
    /\ rows' = CompleteRows(rows, c.mutation, c.token)
    /\ held' = [held EXCEPT ![w] = @ \ {c}]
    /\ UNCHANGED <<content, delivered, minted>>

\* failClaims, for one entry: the write was refused, or its result never came.
Fail(w, c) ==
    /\ c \in held[w]
    /\ \E delay \in 0..RetryTicks :
        rows' = FailRows(rows, c.mutation, c.token, delay)
    /\ held' = [held EXCEPT ![w] = @ \ {c}]
    /\ UNCHANGED <<content, delivered, minted>>

Renew(w, c) ==
    /\ c \in held[w]
    /\ rows' = RenewRows(rows, c.mutation, c.token)
    /\ UNCHANGED <<held, content, delivered, minted>>

\* The process dies, or the verification pull throws: the claims stay in the
\* table and nobody holds their tokens any more.
Abandon(w) ==
    /\ held[w] # {}
    /\ held' = [held EXCEPT ![w] = {}]
    /\ UNCHANGED <<rows, content, delivered, minted>>

\* A pull met the remote document and found it equal to the local one.  The
\* comparison and the UPDATE are one step here: passes are serialised, so only
\* local mutations come between them, and those give the key another latest
\* mutation (a pending row) or a row of its own (a claimed one).
Acknowledge(k) ==
    /\ delivered[k] = content[k]
    /\ OpenFor(rows, k) # {}
    /\ rows' = AcknowledgeRows(rows, k, content[k])
    /\ UNCHANGED <<held, content, delivered, minted>>

\* Time passes: leases and retry delays run down.
Tick ==
    /\ \E m \in DOMAIN rows : rows[m].lease > 0 \/ rows[m].wait > 0
    /\ rows' = [m \in DOMAIN rows |->
                    [rows[m] EXCEPT !.lease = IF @ > 0 THEN @ - 1 ELSE 0,
                                    !.wait = IF @ > 0 THEN @ - 1 ELSE 0]]
    /\ UNCHANGED <<held, content, delivered, minted>>

Next ==
    \/ \E k \in Keys : Mutate(k) \/ Acknowledge(k)
    \/ \E w \in Workers : ClaimAvailable(w) \/ Snapshot(w) \/ Abandon(w)
    \/ \E w \in Workers : \E c \in held[w] :
          Push(w, c) \/ Complete(w, c) \/ Fail(w, c) \/ Renew(w, c)
    \/ Tick

Spec == Init /\ [][Next]_vars

\* The orchestration keeps starting passes (its watchdog) and time advances.  A
\* pass may be killed, or its write refused, any number of times, but not every
\* pass before it builds its documents, not every write and not every pass
\* between its writes and their completion: strong fairness.
Fairness ==
    /\ WF_vars(Tick)
    /\ \A w \in Workers :
        /\ WF_vars(ClaimAvailable(w))
        /\ SF_vars(Snapshot(w))
        /\ SF_vars(\E c \in held[w] : Push(w, c))
        /\ SF_vars(\E c \in held[w] : Complete(w, c))

FairSpec == Spec /\ Fairness

-----------------------------------------------------------------------------
(* Properties *)

\* idx_sync_outbox_pending_target: one pending row per logical key, however
\* claims are failed, expired, superseded and coalesced around it.
OnePendingPerKey ==
    \A m, n \in DOMAIN rows :
        (/\ rows[m].status = "pending"
         /\ rows[n].status = "pending"
         /\ rows[m].key = rows[n].key) => m = n

\* A row that is worked on is worked on by one pass: no two entries in memory
\* carry a claim on the same row that complete or fail would accept.
ClaimsExclusive ==
    \A v, w \in Workers : \A b \in held[v], c \in held[w] :
        (b.mutation = c.mutation /\ IsLive(b) /\ IsLive(c)) => v = w /\ b = c

\* A row will carry its key's newest content to the provider: nobody works on
\* it, or whoever does has not built the document yet, or built the newest.
IsCurrent(m) ==
    /\ IsOpen(rows[m])
    /\ \A w \in Workers : \A c \in held[w] :
          (c.mutation = m /\ c.token = rows[m].token) =>
              c.seen \in {0, content[rows[m].key]}

\* No local change is forgotten: either the provider has the key's newest
\* content or a row is left that will bring it there.  An edit made while an
\* older document of the key is in flight is the case that matters.
NoChangeForgotten ==
    \A k \in Keys :
        \/ delivered[k] = content[k]
        \/ \E m \in OpenFor(rows, k) : IsCurrent(m)

\* A row carries a token exactly while it is claimed (CHECK of the table).
TokenIffClaimed ==
    \A m \in DOMAIN rows : (rows[m].token = NoToken) <=> (rows[m].status # "claimed")

\* Ids are never used twice, and the provider never runs ahead of the device.
IdsMinted ==
    /\ \A m \in DOMAIN rows : m <= minted /\ rows[m].latest <= minted
    /\ \A k \in Keys : delivered[k] <= content[k] /\ content[k] <= minted

\* An entry in memory names a row, and no other entry carries its claim.
EntriesUnique ==
    /\ \A w \in Workers : \A c \in held[w] : c.mutation \in DOMAIN rows
    /\ \A v, w \in Workers : \A b \in held[v], c \in held[w] :
          (b.mutation = c.mutation /\ b.token = c.token) => v = w /\ b = c

\* A pass carries content the device had; what it sent is with the provider.
EntriesInStep ==
    \A w \in Workers : \A c \in held[w] :
        /\ c.seen <= content[rows[c.mutation].key]
        /\ c.sent => c.seen # 0 /\ c.seen <= delivered[rows[c.mutation].key]

\* The strengthening that makes NoChangeForgotten inductive.
IInv == /\ TypeOK
        /\ OnePendingPerKey
        /\ TokenIffClaimed
        /\ IdsMinted
        /\ EntriesUnique
        /\ EntriesInStep
        /\ NoChangeForgotten

\* What the journal owes is a key with an open row.
Promise == INSTANCE OutboxPromise
    WITH owed <- {k \in Keys : OpenFor(rows, k) # {}}

\* The outbox implements its promise: enqueueing, superseding, coalescing,
\* completing and acknowledging end the work for a key only when the provider
\* has the key's newest content.
ImplementsPromise == Promise!Spec

\* Every journaled change is worked off, also when passes keep dying and
\* leaving claims behind.
EveryChangeSettles ==
    \A k \in Keys : []<>(OpenFor(rows, k) = {})

=============================================================================
