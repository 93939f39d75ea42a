-------------------------- MODULE SyncOutboxProofs --------------------------
(***************************************************************************)
(* Proofs about SyncOutbox for every number of keys, passes, mutations and *)
(* tokens, every lease and every retry delay.                              *)
(***************************************************************************)
EXTENDS SyncOutbox, TLAPS

-----------------------------------------------------------------------------
(* What the statements on the table do to its type.                        *)

\* A table is well typed when its keys are mutation ids and its rows are rows.
WellTyped(t) == DOMAIN t \subseteq Mutations /\ t \in [DOMAIN t -> Row]

\* The clocks of a row may be reset and a lease may be full.
LEMMA TickBounds == /\ 0 \in 0..RetryTicks
                    /\ 0 \in 0..LeaseTicks
                    /\ LeaseTicks \in 0..LeaseTicks
BY OutboxAssumption

\* Every column update of the repository keeps a row a row.
LEMMA RowUpdates ==
    ASSUME NEW r \in Row
    PROVE  /\ \A m \in Mutations, h \in Targets :
                [r EXCEPT !.latest = m, !.target = h, !.wait = 0] \in Row
           /\ \A tok \in Tokens :
                [r EXCEPT !.status = "claimed", !.token = tok, !.lease = LeaseTicks] \in Row
           /\ \A s \in Status : Release(r, s) \in Row
           /\ \A n \in 0..RetryTicks : [r EXCEPT !.wait = n] \in Row
           /\ \A n \in 0..LeaseTicks : [r EXCEPT !.lease = n] \in Row
<1> USE TickBounds DEF Row
<1>1. \A m \in Mutations, h \in Targets :
        [r EXCEPT !.latest = m, !.target = h, !.wait = 0] \in Row
  OBVIOUS
<1>2. \A tok \in Tokens :
        [r EXCEPT !.status = "claimed", !.token = tok, !.lease = LeaseTicks] \in Row
  BY DEF Status
<1>3. \A s \in Status : Release(r, s) \in Row
  BY DEF Release
<1>4. \A n \in 0..RetryTicks : [r EXCEPT !.wait = n] \in Row
  OBVIOUS
<1>5. \A n \in 0..LeaseTicks : [r EXCEPT !.lease = n] \in Row
  OBVIOUS
<1>6. QED
  BY <1>1, <1>2, <1>3, <1>4, <1>5

\* Journaling a mutation keeps the table well typed.
LEMMA EnqueueTyped ==
    ASSUME NEW t, WellTyped(t), NEW k \in Keys, NEW m \in Mutations, NEW h \in Targets
    PROVE  WellTyped(EnqueueRows(t, k, m, h))
<1>1. NewRow(k, m, h) \in Row
  BY TickBounds DEF NewRow, Row, Status
<1>2. WellTyped(Insert(t, k, m, h))
  BY <1>1 DEF WellTyped, Insert
<1>3. WellTyped(Coalesce(t, k, m, h))
  <2>1. ASSUME NEW n \in DOMAIN t
        PROVE  Coalesce(t, k, m, h)[n] \in Row
    BY RowUpdates DEF WellTyped, Coalesce
  <2>2. QED
    BY <2>1 DEF WellTyped, Coalesce
<1>4. QED
  BY <1>2, <1>3 DEF EnqueueRows

\* Superseding expired claims keeps the table well typed and deletes no row.
LEMMA SupersedeTyped ==
    ASSUME NEW t, WellTyped(t)
    PROVE  WellTyped(SupersedeExpired(t)) /\ DOMAIN SupersedeExpired(t) = DOMAIN t
<1>1. ASSUME NEW n \in DOMAIN t
      PROVE  SupersedeExpired(t)[n] \in Row
  <2>1. Release(t[n], "superseded") \in Row
    BY RowUpdates DEF WellTyped, Status
  <2>2. QED
    BY <2>1 DEF WellTyped, SupersedeExpired
<1>2. QED
  BY <1>1 DEF WellTyped, SupersedeExpired

\* Claiming a batch keeps the table well typed and deletes no row.
LEMMA ClaimTyped ==
    ASSUME NEW t, WellTyped(t), NEW B, NEW tok \in Tokens
    PROVE  WellTyped(ClaimRows(t, B, tok)) /\ DOMAIN ClaimRows(t, B, tok) = DOMAIN t
<1>1. ASSUME NEW n \in DOMAIN t
      PROVE  ClaimRows(t, B, tok)[n] \in Row
  BY RowUpdates DEF WellTyped, ClaimRows
<1>2. QED
  BY <1>1 DEF WellTyped, ClaimRows

\* Completing and renewing a claim keep the table well typed and delete no row.
LEMMA SettleTyped ==
    ASSUME NEW t, WellTyped(t), NEW m, NEW tok
    PROVE  /\ WellTyped(CompleteRows(t, m, tok))
           /\ DOMAIN CompleteRows(t, m, tok) = DOMAIN t
           /\ WellTyped(RenewRows(t, m, tok))
           /\ DOMAIN RenewRows(t, m, tok) = DOMAIN t
<1>1. CASE m \in DOMAIN t
  <2>1. t[m] \in Row
    BY <1>1 DEF WellTyped
  <2>2. \A s \in Status : Release(t[m], s) \in Row
    BY <2>1, RowUpdates
  <2>3. [t[m] EXCEPT !.lease = LeaseTicks] \in Row
    BY <2>1, RowUpdates, TickBounds
  <2>4. WellTyped(CompleteRows(t, m, tok)) /\ DOMAIN CompleteRows(t, m, tok) = DOMAIN t
    BY <1>1, <2>2 DEF WellTyped, CompleteRows, Status
  <2>5. WellTyped(RenewRows(t, m, tok)) /\ DOMAIN RenewRows(t, m, tok) = DOMAIN t
    BY <1>1, <2>3 DEF WellTyped, RenewRows
  <2>6. QED
    BY <2>4, <2>5
<1>2. CASE m \notin DOMAIN t
  BY <1>2 DEF CompleteRows, RenewRows, HoldsClaim
<1>3. QED
  BY <1>1, <1>2

\* Failing a claim keeps the table well typed and deletes no row.
LEMMA FailTyped ==
    ASSUME NEW t, WellTyped(t), NEW m, NEW tok, NEW delay \in 0..RetryTicks
    PROVE  WellTyped(FailRows(t, m, tok, delay)) /\ DOMAIN FailRows(t, m, tok, delay) = DOMAIN t
<1>1. CASE m \in DOMAIN t
  <2>1. t[m] \in Row
    BY <1>1 DEF WellTyped
  <2>2. \A s \in Status : Release(t[m], s) \in Row
    BY <2>1, RowUpdates
  <2>3. \A s \in Status, n \in 0..RetryTicks : [Release(t[m], s) EXCEPT !.wait = n] \in Row
    BY <2>2, RowUpdates
  <2>4. QED
    BY <1>1, <2>2, <2>3, TickBounds DEF WellTyped, FailRows, Status
<1>2. CASE m \notin DOMAIN t
  BY <1>2 DEF FailRows, HoldsClaim
<1>3. QED
  BY <1>1, <1>2

\* Acknowledging a pulled mutation keeps the table well typed and deletes no row.
LEMMA AcknowledgeTyped ==
    ASSUME NEW t, WellTyped(t), NEW k, NEW m
    PROVE  WellTyped(AcknowledgeRows(t, k, m)) /\ DOMAIN AcknowledgeRows(t, k, m) = DOMAIN t
<1>1. ASSUME NEW n \in DOMAIN t
      PROVE  AcknowledgeRows(t, k, m)[n] \in Row
  <2>1. Release(t[n], "completed") \in Row
    BY RowUpdates DEF WellTyped, Status
  <2>2. QED
    BY <2>1 DEF WellTyped, AcknowledgeRows
<1>2. QED
  BY <1>1 DEF WellTyped, AcknowledgeRows

-----------------------------------------------------------------------------
(* What the statements on the table keep and change of each row.           *)

\* enqueueSyncOutboxMutation of a new mutation leaves keys, statuses and tokens
\* alone, adds at most one row, and leaves the key with a pending row.
LEMMA EnqueueFacts ==
    ASSUME NEW t, NEW k, NEW m, NEW h, m \notin DOMAIN t,
           ~IsDuplicate(t, k, m, h)
    PROVE  LET u == EnqueueRows(t, k, m, h)
           IN  /\ DOMAIN t \subseteq DOMAIN u
               /\ DOMAIN u \subseteq DOMAIN t \cup {m}
               /\ \A n \in DOMAIN t : /\ u[n].key = t[n].key
                                      /\ u[n].status = t[n].status
                                      /\ u[n].token = t[n].token
                                      /\ u[n].latest \in {t[n].latest, m}
               /\ m \in DOMAIN u => u[m] = NewRow(k, m, h) /\ PendingFor(t, k) = {}
               /\ PendingFor(u, k) # {}
<1>1. CASE PendingFor(t, k) # {}
  <2>1. EnqueueRows(t, k, m, h) = Coalesce(t, k, m, h)
    BY <1>1 DEF EnqueueRows
  <2> DEFINE u == Coalesce(t, k, m, h)
  <2>2. ASSUME NEW n \in DOMAIN t
        PROVE  /\ u[n].key = t[n].key
               /\ u[n].status = t[n].status
               /\ u[n].token = t[n].token
               /\ u[n].latest \in {t[n].latest, m}
    BY DEF Coalesce
  <2>3. DOMAIN u = DOMAIN t
    BY DEF Coalesce
  <2>4. PendingFor(u, k) # {}
    BY <1>1, <2>2, <2>3 DEF PendingFor
  <2>5. QED
    BY <2>1, <2>2, <2>3, <2>4
<1>2. CASE PendingFor(t, k) = {}
  <2>1. EnqueueRows(t, k, m, h) = Insert(t, k, m, h)
    BY <1>2 DEF EnqueueRows
  <2> DEFINE u == Insert(t, k, m, h)
  <2>2. DOMAIN u = DOMAIN t \cup {m} /\ u[m] = NewRow(k, m, h)
    BY DEF Insert
  <2>3. \A n \in DOMAIN t : u[n] = t[n]
    BY DEF Insert
  <2>4. m \in PendingFor(u, k)
    BY <2>2 DEF PendingFor, NewRow
  <2>5. QED
    BY <1>2, <2>1, <2>2, <2>3, <2>4
<1>3. QED
  BY <1>1, <1>2

\* A claim is superseded only beside pending work on its key.
LEMMA SupersedeFacts ==
    ASSUME NEW t
    PROVE  LET u == SupersedeExpired(t)
           IN  /\ DOMAIN u = DOMAIN t
               /\ \A n \in DOMAIN t :
                    \/ u[n] = t[n]
                    \/ /\ t[n].status = "claimed"
                       /\ PendingFor(t, t[n].key) # {}
                       /\ u[n] = Release(t[n], "superseded")
BY DEF SupersedeExpired, IsExpired

\* Claiming changes the batch and nothing else.
LEMMA ClaimFacts ==
    ASSUME NEW t, NEW B, NEW tok
    PROVE  LET u == ClaimRows(t, B, tok)
           IN  /\ DOMAIN u = DOMAIN t
               /\ \A n \in DOMAIN t \ B : u[n] = t[n]
               /\ \A n \in DOMAIN t \cap B :
                    u[n] = [t[n] EXCEPT !.status = "claimed", !.token = tok,
                                        !.lease = LeaseTicks]
BY DEF ClaimRows

\* Releasing a row keeps its key and its mutation and drops its token.
LEMMA ReleaseFacts ==
    ASSUME NEW r \in Row, NEW s
    PROVE  /\ Release(r, s).key = r.key
           /\ Release(r, s).latest = r.latest
           /\ Release(r, s).status = s
           /\ Release(r, s).token = NoToken
BY DEF Release, Row

-----------------------------------------------------------------------------
(* The inductive invariant.                                                *)

\* An empty table and idle passes satisfy the strengthened invariant.
THEOREM InitIInv == Init => IInv
<1> SUFFICES ASSUME Init PROVE IInv
  OBVIOUS
<1> USE DEF Init
<1>1. DOMAIN rows = {}
  OBVIOUS
<1>2. 0 \in 0..MaxMutations
  BY SyncOutboxAssumption
<1>3. TypeOK
  BY <1>1, <1>2 DEF TypeOK
<1>4. \A w \in Workers : held[w] = {}
  OBVIOUS
<1>5. OnePendingPerKey /\ TokenIffClaimed /\ EntriesUnique /\ EntriesInStep
  BY <1>1, <1>4 DEF OnePendingPerKey, TokenIffClaimed, EntriesUnique, EntriesInStep
<1>6. IdsMinted /\ NoChangeForgotten
  BY <1>1 DEF IdsMinted, NoChangeForgotten
<1>7. QED
  BY <1>3, <1>5, <1>6 DEF IInv

\* A pending row is current after a step: no entry carries NULL for a token.
LEMMA PendingIsCurrent ==
    ASSUME TypeOK', TokenIffClaimed',
           NEW m \in DOMAIN rows', rows'[m].status = "pending"
    PROVE  IsCurrent(m)'
<1>1. rows'[m].token = NoToken
  BY DEF TokenIffClaimed
<1>2. \A w \in Workers : \A c \in held'[w] : c.token # NoToken
  BY OutboxAssumption DEF TypeOK, Claim
<1>3. QED
  BY <1>1, <1>2 DEF IsCurrent, IsOpen

\* Steps that keep every row's identity, keep or release its claim, and keep or
\* drop entries: all of the passes' steps except claiming, snapshot and push.
KeepsRows ==
    /\ DOMAIN rows' = DOMAIN rows
    /\ \A n \in DOMAIN rows :
          /\ rows'[n].key = rows[n].key
          /\ rows'[n].latest = rows[n].latest
          /\ \/ rows'[n].status = rows[n].status /\ rows'[n].token = rows[n].token
             \/ rows'[n].status # "claimed" /\ rows'[n].token = NoToken
    /\ \A w \in Workers : held'[w] \subseteq held[w]
    /\ UNCHANGED <<content, delivered, minted>>

\* Such steps keep the strengthened invariant if they keep its two parts about
\* pending work.
LEMMA KeepsRowsKeepsIInv ==
    ASSUME IInv, KeepsRows, WellTyped(rows)', held' \in [Workers -> SUBSET Claim],
           OnePendingPerKey', NoChangeForgotten'
    PROVE  IInv'
<1> USE DEF IInv, KeepsRows
<1>1. TypeOK'
  BY DEF TypeOK, WellTyped
<1>2. TokenIffClaimed'
  BY DEF TokenIffClaimed
<1>3. IdsMinted'
  BY DEF IdsMinted
<1>4. EntriesUnique'
  BY DEF EntriesUnique
<1>5. EntriesInStep'
  BY DEF EntriesInStep, EntriesUnique
<1>6. QED
  BY <1>1, <1>2, <1>3, <1>4, <1>5

\* The witness of NoChangeForgotten survives such a step when its row keeps its
\* status and token.
LEMMA CurrentKept ==
    ASSUME IInv, KeepsRows, NEW m \in DOMAIN rows, IsCurrent(m),
           rows'[m].status = rows[m].status, rows'[m].token = rows[m].token
    PROVE  IsCurrent(m)'
BY DEF KeepsRows, IsCurrent, IsOpen

\* Steps that touch no claim and no entry.
LEMMA SameClaims ==
    ASSUME IInv, WellTyped(rows)', DOMAIN rows' = DOMAIN rows,
           UNCHANGED <<held, content, delivered, minted>>,
           \A n \in DOMAIN rows : /\ rows'[n].key = rows[n].key
                                  /\ rows'[n].latest = rows[n].latest
                                  /\ rows'[n].status = rows[n].status
                                  /\ rows'[n].token = rows[n].token
    PROVE  IInv'
<1> USE DEF IInv
<1>1. KeepsRows
  BY DEF KeepsRows
<1>2. OnePendingPerKey'
  BY DEF OnePendingPerKey
<1>3. NoChangeForgotten'
  BY <1>1, CurrentKept DEF NoChangeForgotten, OpenFor, IsOpen
<1>4. QED
  BY <1>1, <1>2, <1>3, KeepsRowsKeepsIInv DEF TypeOK

-----------------------------------------------------------------------------
(* One lemma per action.                                                   *)

\* Completing a claim keeps the invariant: what it sent is with the provider, and
\* a newer edit has a row of its own.
LEMMA CompleteKeeps ==
    ASSUME IInv, NEW w \in Workers, NEW c \in held[w], Complete(w, c)
    PROVE  IInv'
<1> USE DEF IInv
<1>1. c \in Claim /\ c.mutation \in DOMAIN rows /\ held \in [Workers -> SUBSET Claim]
  BY DEF TypeOK, EntriesUnique
<1>2. /\ rows' = CompleteRows(rows, c.mutation, c.token)
      /\ held' = [held EXCEPT ![w] = @ \ {c}]
      /\ c.sent
      /\ UNCHANGED <<content, delivered, minted>>
  BY DEF Complete
<1>3. WellTyped(rows)' /\ DOMAIN rows' = DOMAIN rows
  BY <1>2, SettleTyped DEF TypeOK, WellTyped
<1>4. \A n \in DOMAIN rows :
        \/ rows'[n] = rows[n]
        \/ n = c.mutation /\ HoldsClaim(rows, n, c.token)
           /\ rows'[n] = Release(rows[n], "completed")
  BY <1>2 DEF CompleteRows
<1>5. \A n \in DOMAIN rows : rows[n] \in Row
  BY DEF TypeOK
<1>6. KeepsRows
  BY <1>1, <1>2, <1>3, <1>4, <1>5, ReleaseFacts DEF KeepsRows
<1>7. OnePendingPerKey'
  BY <1>3, <1>4, <1>5, ReleaseFacts DEF OnePendingPerKey
<1>8. NoChangeForgotten'
  <2> SUFFICES ASSUME NEW k \in Keys, delivered[k] # content[k]
               PROVE  \E m \in OpenFor(rows, k)' : IsCurrent(m)'
    BY <1>2 DEF NoChangeForgotten
  <2>1. PICK m \in OpenFor(rows, k) : IsCurrent(m)
    BY DEF NoChangeForgotten
  <2>2. ~(m = c.mutation /\ HoldsClaim(rows, m, c.token))
    <3> SUFFICES ASSUME m = c.mutation, HoldsClaim(rows, m, c.token)
                 PROVE  FALSE
      OBVIOUS
    <3>1. c.seen \in {0, content[k]}
      BY <2>1 DEF IsCurrent, HoldsClaim, OpenFor
    <3>2. c.seen # 0 /\ c.seen <= delivered[k]
      BY <1>2, <2>1 DEF EntriesInStep, OpenFor
    <3>3. delivered[k] <= content[k] /\ delivered[k] \in Nat /\ content[k] \in Nat
      BY DEF IdsMinted, TypeOK
    <3>4. QED
      BY <3>1, <3>2, <3>3
  <2>3. rows'[m] = rows[m]
    BY <1>4, <2>1, <2>2 DEF OpenFor
  <2>4. IsCurrent(m)'
    BY <1>6, <2>1, <2>3, CurrentKept DEF OpenFor
  <2>5. QED
    BY <1>3, <2>1, <2>3, <2>4 DEF OpenFor
<1>9. held' \in [Workers -> SUBSET Claim]
  BY <1>1, <1>2
<1>10. QED
  BY <1>3, <1>6, <1>7, <1>8, <1>9, KeepsRowsKeepsIInv

\* Failing a claim keeps the invariant: the row returns to pending or gives way to
\* newer pending work.
LEMMA FailKeeps ==
    ASSUME IInv, NEW w \in Workers, NEW c \in held[w], Fail(w, c)
    PROVE  IInv'
<1> USE DEF IInv
<1>1. c \in Claim /\ c.mutation \in DOMAIN rows /\ held \in [Workers -> SUBSET Claim]
  BY DEF TypeOK, EntriesUnique
<1>2. PICK delay \in 0..RetryTicks : rows' = FailRows(rows, c.mutation, c.token, delay)
  BY DEF Fail
<1>3. /\ held' = [held EXCEPT ![w] = @ \ {c}]
      /\ UNCHANGED <<content, delivered, minted>>
  BY DEF Fail
<1>4. WellTyped(rows)' /\ DOMAIN rows' = DOMAIN rows
  BY <1>2, FailTyped DEF TypeOK, WellTyped
<1>5. \A n \in DOMAIN rows : rows[n] \in Row
  BY DEF TypeOK
<1>6. \A n \in DOMAIN rows :
        \/ rows'[n] = rows[n]
        \/ /\ PendingFor(rows, rows[n].key) # {}
           /\ rows'[n] = [Release(rows[n], "superseded") EXCEPT !.wait = 0]
        \/ /\ PendingFor(rows, rows[n].key) = {}
           /\ n = c.mutation
           /\ rows'[n] = [Release(rows[n], "pending") EXCEPT !.wait = delay]
  BY <1>2 DEF FailRows
<1>7. \A n \in DOMAIN rows : rows'[n].key = rows[n].key /\ rows'[n].latest = rows[n].latest
  BY <1>5, <1>6 DEF Release, Row
<1>8. \A n \in DOMAIN rows :
        \/ rows'[n] = rows[n]
        \/ /\ PendingFor(rows, rows[n].key) # {}
           /\ rows'[n].status = "superseded"
           /\ rows'[n].token = NoToken
        \/ /\ PendingFor(rows, rows[n].key) = {}
           /\ n = c.mutation
           /\ rows'[n].status = "pending"
           /\ rows'[n].token = NoToken
  BY <1>5, <1>6 DEF Release, Row
<1>9. KeepsRows
  BY <1>1, <1>3, <1>4, <1>7, <1>8 DEF KeepsRows
<1>10. OnePendingPerKey'
  BY <1>4, <1>7, <1>8 DEF OnePendingPerKey, PendingFor
<1>11. NoChangeForgotten'
  <2> SUFFICES ASSUME NEW k \in Keys, delivered[k] # content[k]
               PROVE  \E m \in OpenFor(rows, k)' : IsCurrent(m)'
    BY <1>3 DEF NoChangeForgotten
  <2>1. PICK m \in OpenFor(rows, k) : IsCurrent(m)
    BY DEF NoChangeForgotten
  <2>2. TypeOK' /\ TokenIffClaimed'
    BY <1>1, <1>3, <1>4, <1>9 DEF TypeOK, WellTyped, KeepsRows, TokenIffClaimed
  <2>3. CASE rows'[m] = rows[m]
    <3>1. IsCurrent(m)'
      BY <1>9, <2>1, <2>3, CurrentKept DEF OpenFor
    <3>2. QED
      BY <1>4, <2>1, <2>3, <3>1 DEF OpenFor
  <2>4. CASE PendingFor(rows, k) # {}
    <3>1. PICK p \in DOMAIN rows : rows[p].key = k /\ rows[p].status = "pending"
      BY <2>4 DEF PendingFor
    <3>2. rows'[p] = rows[p]
      BY <1>1, <1>2, <3>1 DEF FailRows, HoldsClaim
    <3>3. IsCurrent(p)'
      BY <1>4, <2>2, <3>1, <3>2, PendingIsCurrent
    <3>4. QED
      BY <1>4, <3>1, <3>2, <3>3 DEF OpenFor, IsOpen
  <2>5. CASE rows'[m].status = "pending"
    <3>1. IsCurrent(m)'
      BY <1>4, <2>1, <2>2, <2>5, PendingIsCurrent DEF OpenFor
    <3>2. QED
      BY <1>4, <1>7, <2>1, <2>5, <3>1 DEF OpenFor, IsOpen
  <2>6. QED
    BY <1>8, <2>1, <2>3, <2>4, <2>5 DEF OpenFor
<1>12. held' \in [Workers -> SUBSET Claim]
  BY <1>1, <1>3
<1>13. QED
  BY <1>4, <1>9, <1>10, <1>11, <1>12, KeepsRowsKeepsIInv

\* Renewing a claim keeps the invariant.
LEMMA RenewKeeps ==
    ASSUME IInv, NEW w \in Workers, NEW c \in held[w], Renew(w, c)
    PROVE  IInv'
<1> USE DEF IInv
<1>1. /\ rows' = RenewRows(rows, c.mutation, c.token)
      /\ UNCHANGED <<held, content, delivered, minted>>
  BY DEF Renew
<1>2. WellTyped(rows)' /\ DOMAIN rows' = DOMAIN rows
  BY <1>1, SettleTyped DEF TypeOK, WellTyped
<1>3. \A n \in DOMAIN rows : rows[n] \in Row
  BY DEF TypeOK
<1>4. \A n \in DOMAIN rows : \/ rows'[n] = rows[n]
                             \/ rows'[n] = [rows[n] EXCEPT !.lease = LeaseTicks]
  BY <1>1 DEF RenewRows
<1>5. \A n \in DOMAIN rows : /\ rows'[n].key = rows[n].key
                             /\ rows'[n].latest = rows[n].latest
                             /\ rows'[n].status = rows[n].status
                             /\ rows'[n].token = rows[n].token
  BY <1>3, <1>4 DEF Row
<1>6. QED
  BY <1>1, <1>2, <1>5, SameClaims

\* The passing of time keeps the invariant: an expired claim is still a claim.
LEMMA TickKeeps ==
    ASSUME IInv, Tick
    PROVE  IInv'
<1> USE DEF IInv
<1>1. UNCHANGED <<held, content, delivered, minted>> /\ DOMAIN rows' = DOMAIN rows
  BY DEF Tick
<1>2. ASSUME NEW n \in DOMAIN rows
      PROVE  /\ rows'[n] \in Row
             /\ rows'[n].key = rows[n].key
             /\ rows'[n].latest = rows[n].latest
             /\ rows'[n].status = rows[n].status
             /\ rows'[n].token = rows[n].token
  <2>1. PICK l \in 0..LeaseTicks, q \in 0..RetryTicks :
          rows'[n] = [rows[n] EXCEPT !.lease = l, !.wait = q]
    <3>1. rows[n].lease \in 0..LeaseTicks /\ rows[n].wait \in 0..RetryTicks
      BY DEF TypeOK, Row
    <3> DEFINE l == IF rows[n].lease > 0 THEN rows[n].lease - 1 ELSE 0
               q == IF rows[n].wait > 0 THEN rows[n].wait - 1 ELSE 0
    <3>2. l \in 0..LeaseTicks /\ q \in 0..RetryTicks
      BY <3>1, OutboxAssumption
    <3>3. rows'[n] = [rows[n] EXCEPT !.lease = l, !.wait = q]
      BY DEF Tick
    <3>4. QED
      BY <3>2, <3>3
  <2>2. rows[n] \in Row
    BY DEF TypeOK
  <2>3. QED
    BY <2>1, <2>2 DEF Row
<1>3. WellTyped(rows)'
  <2>1. rows' = [n \in DOMAIN rows |-> rows'[n]]
    BY DEF Tick
  <2>2. QED
    BY <1>1, <1>2, <2>1 DEF WellTyped, TypeOK
<1>4. QED
  BY <1>1, <1>2, <1>3, SameClaims

\* A pass that dies keeps the invariant: its rows stay open.
LEMMA AbandonKeeps ==
    ASSUME IInv, NEW w \in Workers, Abandon(w)
    PROVE  IInv'
<1> USE DEF IInv
<1>1. UNCHANGED <<rows, content, delivered, minted>> /\ held' = [held EXCEPT ![w] = {}]
  BY DEF Abandon
<1>2. WellTyped(rows)' /\ held' \in [Workers -> SUBSET Claim]
  BY <1>1 DEF TypeOK, WellTyped
<1>3. KeepsRows
  BY <1>1 DEF KeepsRows, TypeOK
<1>4. OnePendingPerKey'
  BY <1>1 DEF OnePendingPerKey
<1>5. NoChangeForgotten'
  BY <1>1, <1>3, CurrentKept DEF NoChangeForgotten, OpenFor
<1>6. QED
  BY <1>2, <1>3, <1>4, <1>5, KeepsRowsKeepsIInv

\* Acknowledging a delivered mutation keeps the invariant.
LEMMA AcknowledgeKeeps ==
    ASSUME IInv, NEW k \in Keys, Acknowledge(k)
    PROVE  IInv'
<1> USE DEF IInv
<1>1. /\ delivered[k] = content[k]
      /\ rows' = AcknowledgeRows(rows, k, content[k])
      /\ UNCHANGED <<held, content, delivered, minted>>
  BY DEF Acknowledge
<1>2. WellTyped(rows)' /\ DOMAIN rows' = DOMAIN rows
  BY <1>1, AcknowledgeTyped DEF TypeOK, WellTyped
<1>3. \A n \in DOMAIN rows :
        \/ rows'[n] = rows[n]
        \/ rows[n].key = k /\ rows'[n] = Release(rows[n], "completed")
  BY <1>1 DEF AcknowledgeRows
<1>4. \A n \in DOMAIN rows : rows[n] \in Row
  BY DEF TypeOK
<1>5. KeepsRows
  BY <1>1, <1>2, <1>3, <1>4, ReleaseFacts DEF KeepsRows
<1>6. OnePendingPerKey'
  BY <1>2, <1>3, <1>4, ReleaseFacts DEF OnePendingPerKey
<1>7. NoChangeForgotten'
  <2> SUFFICES ASSUME NEW j \in Keys, delivered[j] # content[j]
               PROVE  \E m \in OpenFor(rows, j)' : IsCurrent(m)'
    BY <1>1 DEF NoChangeForgotten
  <2>1. PICK m \in OpenFor(rows, j) : IsCurrent(m)
    BY DEF NoChangeForgotten
  <2>2. rows'[m] = rows[m]
    BY <1>1, <1>3, <2>1 DEF OpenFor
  <2>3. IsCurrent(m)'
    BY <1>5, <2>1, <2>2, CurrentKept DEF OpenFor
  <2>4. QED
    BY <1>2, <2>1, <2>2, <2>3 DEF OpenFor
<1>8. QED
  BY <1>1, <1>2, <1>5, <1>6, <1>7, KeepsRowsKeepsIInv DEF TypeOK

\* A write of the provider keeps the invariant: the conditional write never takes
\* the provider back to older content.
LEMMA PushKeeps ==
    ASSUME IInv, NEW w \in Workers, NEW c \in held[w], Push(w, c)
    PROVE  IInv'
<1> USE DEF IInv
<1> DEFINE sent == [c EXCEPT !.sent = TRUE]
           key == rows[c.mutation].key
<1>1. c \in Claim /\ c.mutation \in DOMAIN rows /\ held \in [Workers -> SUBSET Claim]
  BY DEF TypeOK, EntriesUnique
<1>2. /\ held' = [held EXCEPT ![w] = (@ \ {c}) \cup {sent}]
      /\ delivered' = [delivered EXCEPT ![key] = IF c.seen > @ THEN c.seen ELSE @]
      /\ c.seen # 0
      /\ UNCHANGED <<rows, content, minted>>
  BY DEF Push
<1>3. /\ sent \in Claim
      /\ sent.mutation = c.mutation
      /\ sent.token = c.token
      /\ sent.seen = c.seen
  BY <1>1 DEF Claim
<1>4. key \in Keys
  BY <1>1 DEF TypeOK, Row
<1>5. /\ content \in [Keys -> Nat] /\ delivered \in [Keys -> Nat]
      /\ c.seen \in Nat /\ c.seen <= content[key] /\ delivered[key] <= content[key]
  BY <1>1, <1>4, SyncOutboxAssumption DEF TypeOK, Claim, EntriesInStep, IdsMinted
<1>6. /\ delivered' \in [Keys -> Nat]
      /\ \A k \in Keys : delivered[k] <= delivered'[k] /\ delivered'[k] <= content[k]
      /\ c.seen <= delivered'[key]
  BY <1>2, <1>4, <1>5 DEF IdsMinted
<1>7. TypeOK'
  <2>1. delivered' \in [Keys -> 0..MaxMutations]
    BY <1>1, <1>2 DEF TypeOK, Claim
  <2>2. held' \in [Workers -> SUBSET Claim]
    BY <1>1, <1>2, <1>3
  <2>3. QED
    BY <1>2, <2>1, <2>2 DEF TypeOK
<1>8. OnePendingPerKey' /\ TokenIffClaimed'
  BY <1>2 DEF OnePendingPerKey, TokenIffClaimed
<1>9. IdsMinted'
  BY <1>2, <1>6 DEF IdsMinted
<1>10. /\ \A v \in Workers : \A b \in held'[v] : b \in held[v] \/ (v = w /\ b = sent)
       /\ \A b \in held'[w] : b \in held[w] \ {c} \/ b = sent
  <2>1. held'[w] = (held[w] \ {c}) \cup {sent}
    BY <1>1, <1>2
  <2>2. \A v \in Workers \ {w} : held'[v] = held[v]
    BY <1>1, <1>2
  <2>3. QED
    BY <2>1, <2>2
<1>11. EntriesUnique'
  <2>1. \A v \in Workers : \A b \in held[v] :
          (b.mutation = c.mutation /\ b.token = c.token) => v = w /\ b = c
    BY DEF EntriesUnique
  <2>3. \A v \in Workers : \A b \in held'[v] :
          (b.mutation = c.mutation /\ b.token = c.token) => v = w /\ b = sent
    BY <1>10, <2>1
  <2>4. \A u, v \in Workers : \A a \in held'[u], b \in held'[v] :
          (a.mutation = b.mutation /\ a.token = b.token) => u = v /\ a = b
    <3> HIDE DEF sent
    <3>1. QED
      BY <1>3, <1>10, <2>3 DEF EntriesUnique
  <2>5. \A v \in Workers : \A b \in held'[v] : b.mutation \in DOMAIN rows
    BY <1>1, <1>3, <1>10 DEF EntriesUnique
  <2>6. QED
    BY <1>2, <2>4, <2>5 DEF EntriesUnique
<1>12. EntriesInStep'
  <2> SUFFICES ASSUME NEW v \in Workers, NEW b \in held'[v]
               PROVE  /\ b.seen <= content[rows[b.mutation].key]
                      /\ b.sent => b.seen # 0 /\ b.seen <= delivered'[rows[b.mutation].key]
    BY <1>2 DEF EntriesInStep
  <2>1. CASE b = sent
    BY <1>2, <1>3, <1>5, <1>6, <2>1
  <2>2. CASE b \in held[v]
    <3>1. b.mutation \in DOMAIN rows /\ b \in Claim
      BY <1>1, <2>2 DEF EntriesUnique
    <3>2. rows[b.mutation].key \in Keys /\ b.seen \in Nat
      BY <3>1, SyncOutboxAssumption DEF TypeOK, Row, Claim
    <3>3. /\ b.seen <= content[rows[b.mutation].key]
          /\ b.sent => b.seen # 0 /\ b.seen <= delivered[rows[b.mutation].key]
      BY <2>2 DEF EntriesInStep
    <3>4. QED
      BY <1>5, <1>6, <3>2, <3>3
  <2>3. QED
    BY <1>10, <2>1, <2>2
<1>13. NoChangeForgotten'
  <2> SUFFICES ASSUME NEW k \in Keys, delivered'[k] # content[k]
               PROVE  \E m \in OpenFor(rows, k) : IsCurrent(m)'
    BY <1>2 DEF NoChangeForgotten, OpenFor
  <2>1. delivered[k] # content[k]
    BY <1>5, <1>6
  <2>2. PICK m \in OpenFor(rows, k) : IsCurrent(m)
    BY <2>1 DEF NoChangeForgotten
  <2>3. \A v \in Workers : \A b \in held'[v] :
          (b.mutation = m /\ b.token = rows[m].token) => b.seen \in {0, content[rows[m].key]}
    <3> HIDE DEF sent
    <3>1. QED
      BY <1>3, <1>10, <2>2 DEF IsCurrent
  <2>4. IsCurrent(m)'
    BY <1>2, <2>2, <2>3 DEF IsCurrent
  <2>5. QED
    BY <2>2, <2>4
<1>14. QED
  BY <1>7, <1>8, <1>9, <1>11, <1>12, <1>13

\* Building the documents keeps the invariant: they hold the newest content.
LEMMA SnapshotKeeps ==
    ASSUME IInv, NEW w \in Workers, Snapshot(w)
    PROVE  IInv'
<1> USE DEF IInv
<1> DEFINE built(c) == [c EXCEPT !.seen = content[rows[c.mutation].key]]
<1>1. /\ held \in [Workers -> SUBSET Claim]
      /\ \A c \in held[w] : c \in Claim /\ c.mutation \in DOMAIN rows
  BY DEF TypeOK, EntriesUnique
<1>2. /\ held' = [held EXCEPT ![w] = {built(c) : c \in @}]
      /\ UNCHANGED <<rows, content, delivered, minted>>
      /\ \A c \in held[w] : c.seen = 0
  BY DEF Snapshot
<1>3. \A c \in held[w] :
        /\ rows[c.mutation].key \in Keys
        /\ built(c) \in Claim
        /\ built(c).mutation = c.mutation
        /\ built(c).token = c.token
        /\ built(c).sent = c.sent
        /\ built(c).seen = content[rows[c.mutation].key]
  BY <1>1 DEF TypeOK, Row, Claim
<1>4. \A v \in Workers : \A b \in held'[v] :
        \/ b \in held[v] /\ v # w
        \/ v = w /\ \E c \in held[w] : b = built(c)
  <2>1. held'[w] = {built(c) : c \in held[w]}
    BY <1>1, <1>2
  <2>2. \A v \in Workers \ {w} : held'[v] = held[v]
    BY <1>1, <1>2
  <2>3. QED
    BY <2>1, <2>2
<1>5. TypeOK'
  <2>1. held' \in [Workers -> SUBSET Claim]
    <3> DEFINE builts == {built(c) : c \in held[w]}
    <3>1. builts \in SUBSET Claim
      BY <1>3
    <3>2. held' = [held EXCEPT ![w] = builts]
      BY <1>2
    <3> HIDE DEF builts
    <3> QED
      BY <1>1, <3>1, <3>2
  <2>2. QED
    BY <1>2, <2>1 DEF TypeOK
<1>6. OnePendingPerKey' /\ TokenIffClaimed' /\ IdsMinted'
  BY <1>2 DEF OnePendingPerKey, TokenIffClaimed, IdsMinted
<1>7. EntriesUnique'
  <2>1. \A v \in Workers : \A b \in held'[v] :
          \E c \in held[v] : /\ b.mutation = c.mutation
                             /\ b.token = c.token
                             /\ (v = w /\ b = built(c)) \/ (v # w /\ b = c)
    <3> SUFFICES ASSUME NEW v \in Workers, NEW b \in held'[v]
                 PROVE  \E c \in held[v] :
                          /\ b.mutation = c.mutation
                          /\ b.token = c.token
                          /\ (v = w /\ b = built(c)) \/ (v # w /\ b = c)
      OBVIOUS
    <3>1. CASE v = w
      <4>1. PICK c \in held[w] : b = built(c)
        BY <1>4, <3>1
      <4>2. b.mutation = c.mutation /\ b.token = c.token
        BY <1>3, <4>1
      <4>3. QED
        BY <3>1, <4>1, <4>2
    <3>2. CASE v # w
      BY <1>4, <3>2
    <3>3. QED
      BY <3>1, <3>2
  <2>2. \A u, v \in Workers : \A a \in held'[u], b \in held'[v] :
          (a.mutation = b.mutation /\ a.token = b.token) => u = v /\ a = b
    <3> SUFFICES ASSUME NEW u \in Workers, NEW v \in Workers,
                        NEW a \in held'[u], NEW b \in held'[v],
                        a.mutation = b.mutation, a.token = b.token
                 PROVE  u = v /\ a = b
      OBVIOUS
    <3> HIDE DEF built
    <3>1. PICK c \in held[u] : /\ a.mutation = c.mutation
                               /\ a.token = c.token
                               /\ (u = w /\ a = built(c)) \/ (u # w /\ a = c)
      BY <2>1
    <3>2. PICK d \in held[v] : /\ b.mutation = d.mutation
                               /\ b.token = d.token
                               /\ (v = w /\ b = built(d)) \/ (v # w /\ b = d)
      BY <2>1
    <3>3. u = v /\ c = d
      BY <3>1, <3>2 DEF EntriesUnique
    <3>4. QED
      BY <3>1, <3>2, <3>3
  <2>3. \A v \in Workers : \A b \in held'[v] : b.mutation \in DOMAIN rows
    BY <2>1 DEF EntriesUnique
  <2>4. QED
    BY <1>2, <2>2, <2>3 DEF EntriesUnique
<1>8. EntriesInStep'
  <2> SUFFICES ASSUME NEW v \in Workers, NEW b \in held'[v]
               PROVE  /\ b.seen <= content[rows[b.mutation].key]
                      /\ b.sent => b.seen # 0 /\ b.seen <= delivered[rows[b.mutation].key]
    BY <1>2 DEF EntriesInStep
  <2>1. CASE b \in held[v]
    BY <2>1 DEF EntriesInStep
  <2>2. ASSUME v = w, NEW c \in held[w], b = built(c)
        PROVE  /\ b.seen <= content[rows[b.mutation].key]
               /\ b.sent => b.seen # 0 /\ b.seen <= delivered[rows[b.mutation].key]
    <3>1. ~c.sent
      BY <1>2 DEF EntriesInStep
    <3>2. content[rows[c.mutation].key] \in 0..MaxMutations
      BY <1>3, <2>2 DEF TypeOK
    <3>3. content[rows[c.mutation].key] \in Nat
      BY <3>2, SyncOutboxAssumption
    <3>4. QED
      BY <1>3, <2>2, <3>1, <3>3
  <2>3. QED
    BY <1>4, <2>1, <2>2
<1>9. NoChangeForgotten'
  <2>1. ASSUME NEW m \in DOMAIN rows, IsCurrent(m)
        PROVE  IsCurrent(m)'
    <3> SUFFICES ASSUME NEW v \in Workers, NEW b \in held'[v],
                        b.mutation = m, b.token = rows[m].token
                 PROVE  b.seen \in {0, content[rows[m].key]}
      BY <1>2, <2>1 DEF IsCurrent
    <3>1. CASE v = w
      <4>1. PICK c \in held[w] : b = built(c)
        BY <1>4, <3>1
      <4>2. QED
        BY <1>3, <4>1
    <3>2. CASE v # w
      BY <1>4, <2>1, <3>2 DEF IsCurrent
    <3>3. QED
      BY <3>1, <3>2
  <2>2. QED
    BY <1>2, <2>1 DEF NoChangeForgotten, OpenFor
<1>10. QED
  BY <1>5, <1>6, <1>7, <1>8, <1>9

\* A local mutation keeps the invariant: its key gets a pending row even when an
\* older document of the key is in flight.
LEMMA MutateKeeps ==
    ASSUME IInv, NEW k \in Keys, Mutate(k)
    PROVE  IInv'
<1> USE DEF IInv
<1> DEFINE id == minted + 1
<1>1. /\ rows' = EnqueueRows(rows, k, id, id)
      /\ content' = [content EXCEPT ![k] = id]
      /\ minted' = id
      /\ minted < MaxMutations
      /\ UNCHANGED <<held, delivered>>
  BY DEF Mutate
<1>2. minted \in Nat /\ id \in Mutations /\ id \in Targets /\ id \in 0..MaxMutations
  BY <1>1, SyncOutboxAssumption DEF TypeOK
<1>3. DOMAIN rows \subseteq Nat /\ content \in [Keys -> Nat] /\ delivered \in [Keys -> Nat]
  BY SyncOutboxAssumption DEF TypeOK
<1>4. \A n \in DOMAIN rows : rows[n] \in Row
  BY DEF TypeOK
<1>5. id \notin DOMAIN rows /\ ~IsDuplicate(rows, k, id, id)
  <2>1. \A n \in DOMAIN rows : n # id /\ rows[n].latest # id
    BY <1>2, <1>3, <1>4, SyncOutboxAssumption DEF IdsMinted, Row
  <2>2. QED
    BY <2>1 DEF IsDuplicate
<1> HIDE DEF id
<1>6. WellTyped(rows)'
  BY <1>1, <1>2, EnqueueTyped DEF TypeOK, WellTyped
<1>7. /\ DOMAIN rows \subseteq DOMAIN rows'
      /\ DOMAIN rows' \subseteq DOMAIN rows \cup {id}
      /\ \A n \in DOMAIN rows : /\ rows'[n].key = rows[n].key
                                /\ rows'[n].status = rows[n].status
                                /\ rows'[n].token = rows[n].token
                                /\ rows'[n].latest \in {rows[n].latest, id}
      /\ id \in DOMAIN rows' => rows'[id] = NewRow(k, id, id) /\ PendingFor(rows, k) = {}
      /\ PendingFor(rows', k) # {}
  BY <1>1, <1>5, EnqueueFacts
<1>8. /\ NewRow(k, id, id).key = k
      /\ NewRow(k, id, id).status = "pending"
      /\ NewRow(k, id, id).latest = id
      /\ NewRow(k, id, id).token = NoToken
  BY DEF NewRow
<1>9. TypeOK'
  BY <1>1, <1>2, <1>6 DEF TypeOK, WellTyped
<1>10. OnePendingPerKey'
  BY <1>7, <1>8 DEF OnePendingPerKey, PendingFor
<1>11. TokenIffClaimed'
  BY <1>7, <1>8 DEF TokenIffClaimed
<1>12. IdsMinted'
  <2>1. \A n \in DOMAIN rows' : n <= id /\ rows'[n].latest <= id
    <3> SUFFICES ASSUME NEW n \in DOMAIN rows'
                 PROVE  n <= id /\ rows'[n].latest <= id
      OBVIOUS
    <3>1. id \in Nat
      BY <1>2 DEF id
    <3>2. CASE n = id
      BY <1>7, <1>8, <3>1, <3>2
    <3>3. CASE n \in DOMAIN rows
      <4>1. n <= minted /\ rows[n].latest <= minted /\ n \in Nat /\ rows[n].latest \in Nat
        BY <1>3, <1>4, <3>3, SyncOutboxAssumption DEF IdsMinted, Row
      <4>2. QED
        BY <1>2, <1>7, <3>1, <3>3, <4>1 DEF id
    <3>4. QED
      BY <1>7, <3>2, <3>3
  <2>2. \A j \in Keys : delivered[j] <= content'[j] /\ content'[j] <= id
    BY <1>1, <1>2, <1>3 DEF IdsMinted, id
  <2>3. QED
    BY <1>1, <2>1, <2>2 DEF IdsMinted
<1>13. EntriesUnique'
  BY <1>1, <1>7 DEF EntriesUnique
<1>14. EntriesInStep'
  <2> SUFFICES ASSUME NEW w \in Workers, NEW c \in held[w]
               PROVE  /\ c.seen <= content'[rows'[c.mutation].key]
                      /\ c.sent => c.seen # 0 /\ c.seen <= delivered[rows'[c.mutation].key]
    BY <1>1 DEF EntriesInStep
  <2>1. c.mutation \in DOMAIN rows /\ c \in Claim
    BY DEF EntriesUnique, TypeOK
  <2>2. rows'[c.mutation].key = rows[c.mutation].key /\ rows[c.mutation].key \in Keys
    BY <1>4, <1>7, <2>1 DEF Row
  <2>3. content[rows[c.mutation].key] <= content'[rows[c.mutation].key]
    BY <1>1, <1>2, <1>3, <2>2 DEF IdsMinted, id
  <2>4. c.seen \in Nat /\ content'[rows[c.mutation].key] \in Nat
    BY <1>1, <1>2, <1>3, <2>1, <2>2, SyncOutboxAssumption DEF Claim, id
  <2>5. QED
    BY <1>3, <2>2, <2>3, <2>4 DEF EntriesInStep
<1>15. NoChangeForgotten'
  <2> SUFFICES ASSUME NEW j \in Keys, delivered[j] # content'[j]
               PROVE  \E m \in OpenFor(rows', j) : IsCurrent(m)'
    BY <1>1 DEF NoChangeForgotten, OpenFor
  <2>1. CASE j = k
    <3>1. PICK p \in DOMAIN rows' : rows'[p].key = k /\ rows'[p].status = "pending"
      BY <1>7 DEF PendingFor
    <3>2. IsCurrent(p)'
      BY <1>9, <1>11, <3>1, PendingIsCurrent
    <3>3. QED
      BY <2>1, <3>1, <3>2 DEF OpenFor, IsOpen
  <2>2. CASE j # k
    <3>1. content'[j] = content[j]
      BY <1>1, <2>2 DEF TypeOK
    <3>2. PICK m \in OpenFor(rows, j) : IsCurrent(m)
      BY <3>1 DEF NoChangeForgotten
    <3>3. IsCurrent(m)'
      BY <1>1, <1>7, <3>1, <3>2 DEF IsCurrent, OpenFor, IsOpen
    <3>4. QED
      BY <1>7, <3>2, <3>3 DEF OpenFor, IsOpen
  <2>3. QED
    BY <2>1, <2>2
<1>16. QED
  BY <1>9, <1>10, <1>11, <1>12, <1>13, <1>14, <1>15

\* Claiming keeps the invariant: the fresh token tells the new entries from those
\* of every pass that claimed the row before.
LEMMA ClaimAvailableKeeps ==
    ASSUME IInv, NEW w \in Workers, ClaimAvailable(w)
    PROVE  IInv'
<1> USE DEF IInv
<1> DEFINE swept == SupersedeExpired(rows)
           batch == Batch(swept)
           entries(token) == [mutation: batch, token: {token}, seen: {0}, sent: {FALSE}]
<1>1. PICK token \in Tokens :
        /\ FreshToken(token)
        /\ rows' = ClaimRows(swept, batch, token)
        /\ held' = [held EXCEPT ![w] = entries(token)]
  BY DEF ClaimAvailable
<1>2. held[w] = {} /\ UNCHANGED <<content, delivered, minted>>
  BY DEF ClaimAvailable
<1>3. WellTyped(swept) /\ DOMAIN swept = DOMAIN rows
  BY SupersedeTyped DEF TypeOK, WellTyped
<1>4. batch \subseteq DOMAIN swept
  BY DEF Batch, Claimable
<1>5. /\ \A n \in DOMAIN rows : rows[n] \in Row /\ swept[n] \in Row
      /\ held \in [Workers -> SUBSET Claim]
  BY <1>3 DEF TypeOK, WellTyped
<1>6. \A n \in DOMAIN rows :
        \/ swept[n] = rows[n]
        \/ /\ PendingFor(rows, rows[n].key) # {}
           /\ swept[n] = Release(rows[n], "superseded")
           /\ rows[n].status = "claimed"
  BY SupersedeFacts
<1>7. \A n \in DOMAIN rows :
        /\ swept[n].key = rows[n].key
        /\ swept[n].latest = rows[n].latest
        /\ \/ swept[n].status = rows[n].status /\ swept[n].token = rows[n].token
           \/ /\ PendingFor(rows, rows[n].key) # {}
              /\ rows[n].status = "claimed"
              /\ swept[n].status = "superseded" /\ swept[n].token = NoToken
  BY <1>5, <1>6, ReleaseFacts
<1> HIDE DEF swept
<1>8. WellTyped(rows)' /\ DOMAIN rows' = DOMAIN rows
  BY <1>1, <1>3, ClaimTyped DEF WellTyped
<1>9. \A n \in DOMAIN rows :
        /\ rows'[n].key = rows[n].key
        /\ rows'[n].latest = rows[n].latest
        /\ IF n \in batch
           THEN rows'[n].status = "claimed" /\ rows'[n].token = token
           ELSE rows'[n].status = swept[n].status /\ rows'[n].token = swept[n].token
  <2>1. \A n \in DOMAIN rows :
          rows'[n] = IF n \in batch
                     THEN [swept[n] EXCEPT !.status = "claimed", !.token = token,
                                           !.lease = LeaseTicks]
                     ELSE swept[n]
    BY <1>1, <1>3 DEF ClaimRows
  <2>2. \A n \in DOMAIN rows :
          LET r == [swept[n] EXCEPT !.status = "claimed", !.token = token,
                                    !.lease = LeaseTicks]
          IN  /\ r.key = swept[n].key /\ r.latest = swept[n].latest
              /\ r.status = "claimed" /\ r.token = token
    BY <1>5 DEF Row
  <2> HIDE DEF batch
  <2>3. QED
    BY <1>7, <2>1, <2>2
<1> HIDE DEF batch
<1>10. \A c \in entries(token) : /\ c.mutation \in batch
                                /\ c.token = token
                                /\ c.seen = 0
                                /\ c.sent = FALSE
                                /\ c \in Claim
  <2>1. batch \subseteq Mutations
    BY <1>3, <1>4 DEF WellTyped
  <2>2. 0 \in 0..MaxMutations
    BY SyncOutboxAssumption
  <2>3. QED
    BY <2>1, <2>2 DEF Claim
<1>11. \A b, c \in entries(token) : b.mutation = c.mutation => b = c
  <2> SUFFICES ASSUME NEW b \in entries(token), NEW c \in entries(token),
                      b.mutation = c.mutation
               PROVE  b = c
    OBVIOUS
  <2>1. /\ b = [mutation |-> b.mutation, token |-> token, seen |-> 0, sent |-> FALSE]
        /\ c = [mutation |-> c.mutation, token |-> token, seen |-> 0, sent |-> FALSE]
    OBVIOUS
  <2>2. QED
    BY <2>1
<1>12. /\ held'[w] = entries(token)
       /\ \A v \in Workers : v # w => held'[v] = held[v]
       /\ held' \in [Workers -> SUBSET Claim]
  BY <1>1, <1>5, <1>10
<1> HIDE DEF entries
<1>13. TypeOK'
  BY <1>2, <1>8, <1>12 DEF TypeOK, WellTyped
<1>14. OnePendingPerKey'
  BY <1>7, <1>8, <1>9 DEF OnePendingPerKey
<1>15. TokenIffClaimed'
  BY <1>7, <1>8, <1>9, OutboxAssumption DEF TokenIffClaimed
<1>16. IdsMinted'
  BY <1>2, <1>8, <1>9 DEF IdsMinted
<1>17. \A v \in Workers : \A c \in held[v] : c.token # token
  BY <1>1 DEF FreshToken, HeldClaims
<1>18. EntriesUnique'
  <2>1. \A v \in Workers : \A c \in held'[v] : c.mutation \in DOMAIN rows'
    BY <1>3, <1>4, <1>8, <1>10, <1>12 DEF EntriesUnique
  <2>2. \A u, v \in Workers : \A b \in held'[u], c \in held'[v] :
          (b.mutation = c.mutation /\ b.token = c.token) => u = v /\ b = c
    BY <1>10, <1>11, <1>12, <1>17 DEF EntriesUnique
  <2>3. QED
    BY <2>1, <2>2 DEF EntriesUnique
<1>19. EntriesInStep'
  <2> SUFFICES ASSUME NEW v \in Workers, NEW c \in held'[v]
               PROVE  /\ c.seen <= content[rows'[c.mutation].key]
                      /\ c.sent => c.seen # 0 /\ c.seen <= delivered[rows'[c.mutation].key]
    BY <1>2 DEF EntriesInStep
  <2>1. CASE v = w
    <3>1. c.seen = 0 /\ c.sent = FALSE /\ c.mutation \in DOMAIN rows
      BY <1>3, <1>4, <1>10, <1>12, <2>1
    <3>2. content[rows'[c.mutation].key] \in 0..MaxMutations
      BY <1>5, <1>9, <3>1 DEF TypeOK, Row
    <3>3. QED
      BY <3>1, <3>2, SyncOutboxAssumption
  <2>2. CASE v # w
    BY <1>9, <1>12, <2>2 DEF EntriesInStep, EntriesUnique
  <2>3. QED
    BY <2>1, <2>2
<1>20. NoChangeForgotten'
  <2> SUFFICES ASSUME NEW k \in Keys, delivered[k] # content[k]
               PROVE  \E m \in OpenFor(rows', k) : IsCurrent(m)'
    BY <1>2 DEF NoChangeForgotten, OpenFor
  <2>1. PICK m \in OpenFor(rows, k) : IsCurrent(m)
    BY DEF NoChangeForgotten
  <2>2. ASSUME NEW n \in batch
        PROVE  n \in DOMAIN rows' /\ IsOpen(rows'[n]) /\ IsCurrent(n)'
    <3>1. /\ n \in DOMAIN rows
          /\ rows'[n].status = "claimed"
          /\ rows'[n].token = token
      BY <1>3, <1>4, <1>9
    <3>2. \A v \in Workers : \A c \in held'[v] :
            (c.mutation = n /\ c.token = token) => c.seen = 0
      BY <1>10, <1>12, <1>17
    <3>3. QED
      BY <1>8, <3>1, <3>2 DEF IsCurrent, IsOpen
  <2>3. CASE PendingFor(rows, k) # {}
    <3>1. PICK p \in DOMAIN rows : rows[p].key = k /\ rows[p].status = "pending"
      BY <2>3 DEF PendingFor
    <3>2. CASE p \in batch
      BY <1>9, <2>2, <3>1, <3>2 DEF OpenFor
    <3>3. CASE p \notin batch
      <4>1. rows'[p].status = "pending" /\ rows'[p].key = k
        BY <1>7, <1>9, <3>1, <3>3
      <4>2. IsCurrent(p)'
        BY <1>8, <1>13, <1>15, <4>1, PendingIsCurrent
      <4>3. QED
        BY <1>8, <4>1, <4>2 DEF OpenFor, IsOpen
    <3>4. QED
      BY <3>2, <3>3
  <2>4. CASE PendingFor(rows, k) = {}
    <3>1. CASE m \in batch
      BY <1>9, <2>1, <2>2, <3>1 DEF OpenFor
    <3>2. CASE m \notin batch
      <4>1. /\ rows'[m].status = rows[m].status
            /\ rows'[m].token = rows[m].token
            /\ rows'[m].key = rows[m].key
        BY <1>7, <1>9, <2>1, <2>4, <3>2 DEF OpenFor
      <4>2. \A v \in Workers : \A c \in held'[v] : c.mutation = m => c \in held[v]
        BY <1>10, <1>12, <3>2
      <4>3. IsCurrent(m)'
        BY <1>2, <2>1, <4>1, <4>2 DEF IsCurrent, IsOpen
      <4>4. QED
        BY <1>8, <2>1, <4>1, <4>3 DEF OpenFor, IsOpen
    <3>3. QED
      BY <3>1, <3>2
  <2>5. QED
    BY <2>3, <2>4
<1>21. QED
  BY <1>13, <1>14, <1>15, <1>16, <1>18, <1>19, <1>20

\* Every step of the outbox keeps the strengthened invariant.
LEMMA NextKeeps == IInv /\ [Next]_vars => IInv'
<1> SUFFICES ASSUME IInv, [Next]_vars PROVE IInv'
  OBVIOUS
<1>1. ASSUME NEW k \in Keys, Mutate(k) PROVE IInv'
  BY <1>1, MutateKeeps
<1>2. ASSUME NEW k \in Keys, Acknowledge(k) PROVE IInv'
  BY <1>2, AcknowledgeKeeps
<1>3. ASSUME NEW w \in Workers, ClaimAvailable(w) PROVE IInv'
  BY <1>3, ClaimAvailableKeeps
<1>4. ASSUME NEW w \in Workers, Snapshot(w) PROVE IInv'
  BY <1>4, SnapshotKeeps
<1>5. ASSUME NEW w \in Workers, Abandon(w) PROVE IInv'
  BY <1>5, AbandonKeeps
<1>6. ASSUME NEW w \in Workers, NEW c \in held[w], Push(w, c) PROVE IInv'
  BY <1>6, PushKeeps
<1>7. ASSUME NEW w \in Workers, NEW c \in held[w], Complete(w, c) PROVE IInv'
  BY <1>7, CompleteKeeps
<1>8. ASSUME NEW w \in Workers, NEW c \in held[w], Fail(w, c) PROVE IInv'
  BY <1>8, FailKeeps
<1>9. ASSUME NEW w \in Workers, NEW c \in held[w], Renew(w, c) PROVE IInv'
  BY <1>9, RenewKeeps
<1>10. CASE Tick
  BY <1>10, TickKeeps
<1>11. CASE UNCHANGED vars
  BY <1>11, SameClaims DEF vars, IInv, TypeOK, WellTyped
<1>12. QED
  BY <1>1, <1>2, <1>3, <1>4, <1>5, <1>6, <1>7, <1>8, <1>9, <1>10, <1>11 DEF Next

\* The strengthened invariant holds in every reachable state of the outbox.
THEOREM Invariance == Spec => []IInv
BY InitIInv, NextKeeps, PTL DEF Spec

-----------------------------------------------------------------------------
(* The properties of the runs, for every value of the constants.           *)

\* Tables, entries and counters keep their types: no column leaves its range.
THEOREM TypeCorrect == Spec => []TypeOK
<1>1. IInv => TypeOK
  BY DEF IInv
<1>2. QED
  BY <1>1, Invariance, PTL

\* However enqueue, claim, fail and lease expiry interleave, no statement can
\* run into the unique index on pending rows.
THEOREM PendingUnique == Spec => []OnePendingPerKey
<1>1. IInv => OnePendingPerKey
  BY DEF IInv
<1>2. QED
  BY <1>1, Invariance, PTL

\* A claim that complete and fail would accept is held by one pass only, also
\* after leases expired and others claimed the rows again.
THEOREM ClaimsExclude == Spec => []ClaimsExclusive
<1>1. IInv => ClaimsExclusive
  BY DEF IInv, EntriesUnique, ClaimsExclusive, IsLive, HoldsClaim
<1>2. QED
  BY <1>1, Invariance, PTL

\* The newest content of every key is with the provider, or a row is left that
\* will bring it there.
THEOREM NothingForgotten == Spec => []NoChangeForgotten
<1>1. IInv => NoChangeForgotten
  BY DEF IInv
<1>2. QED
  BY <1>1, Invariance, PTL

-----------------------------------------------------------------------------
(* The outbox implements OutboxPromise.                                    *)

\* At first the promise owes nothing.
LEMMA InitPromise == Init => Promise!Init
BY DEF Init, Promise!Init, OpenFor

\* A step that leaves content and provider alone and can close rows of one key
\* only settles that key or stutters.
LEMMA SettleStep ==
    ASSUME IInv, IInv', NEW k \in Keys, UNCHANGED <<content, delivered>>,
           \A j \in Keys : (OpenFor(rows, j) # {}) => (j = k \/ OpenFor(rows', j) # {}),
           \A j \in Keys : (OpenFor(rows', j) # {}) => (OpenFor(rows, j) # {})
    PROVE  [Promise!Next]_(Promise!vars)
<1> DEFINE owed == {j \in Keys : OpenFor(rows, j) # {}}
           owedNext == {j \in Keys : OpenFor(rows', j) # {}}
<1>1. CASE owedNext = owed
  BY <1>1 DEF Promise!vars, OpenFor
<1>2. CASE owedNext # owed
  <2>1. k \in owed /\ k \notin owedNext /\ owedNext = owed \ {k}
    BY <1>2
  <2>2. delivered[k] = content[k]
    BY <2>1 DEF IInv, NoChangeForgotten, OpenFor
  <2>3. Promise!Settle(k)
    BY <2>1, <2>2 DEF Promise!Settle, OpenFor
  <2>4. QED
    BY <2>3 DEF Promise!Next
<1>3. QED
  BY <1>1, <1>2

\* A step that leaves content, provider and the set of open keys alone.
LEMMA StutterStep ==
    ASSUME UNCHANGED <<content, delivered>>,
           \A j \in Keys : (OpenFor(rows', j) # {}) <=> (OpenFor(rows, j) # {})
    PROVE  [Promise!Next]_(Promise!vars)
BY DEF Promise!vars, OpenFor

\* A local mutation is a Change of the promise.
LEMMA MutateStep ==
    ASSUME IInv, NEW k \in Keys, Mutate(k)
    PROVE  Promise!Change(k)
<1> DEFINE id == minted + 1
<1>1. /\ rows' = EnqueueRows(rows, k, id, id)
      /\ content' = [content EXCEPT ![k] = id]
      /\ UNCHANGED delivered
  BY DEF Mutate
<1>2. /\ minted \in Nat /\ DOMAIN rows \subseteq Nat
      /\ content \in [Keys -> Nat]
      /\ \A n \in DOMAIN rows : rows[n] \in Row
  BY SyncOutboxAssumption DEF IInv, TypeOK
<1>3. id \notin DOMAIN rows /\ ~IsDuplicate(rows, k, id, id)
  <2>1. \A n \in DOMAIN rows : n # id /\ rows[n].latest # id
    BY <1>2, SyncOutboxAssumption DEF IInv, IdsMinted, Row
  <2>2. QED
    BY <2>1 DEF IsDuplicate
<1>4. content[k] < id /\ id \in Nat
  BY <1>2 DEF IInv, IdsMinted
<1> HIDE DEF id
<1>5. /\ DOMAIN rows \subseteq DOMAIN rows'
      /\ DOMAIN rows' \subseteq DOMAIN rows \cup {id}
      /\ \A n \in DOMAIN rows : /\ rows'[n].key = rows[n].key
                                /\ rows'[n].status = rows[n].status
      /\ id \in DOMAIN rows' => rows'[id] = NewRow(k, id, id)
      /\ PendingFor(rows', k) # {}
  BY <1>1, <1>3, EnqueueFacts
<1>6. OpenFor(rows', k) # {}
  BY <1>5 DEF PendingFor, OpenFor, IsOpen
<1>7. \A j \in Keys \ {k} : OpenFor(rows', j) = OpenFor(rows, j)
  <2>1. NewRow(k, id, id).key = k
    BY DEF NewRow
  <2>2. QED
    BY <1>5, <2>1 DEF OpenFor, IsOpen
<1>8. {j \in Keys : OpenFor(rows', j) # {}} = {j \in Keys : OpenFor(rows, j) # {}} \cup {k}
  BY <1>6, <1>7
<1>9. content'[k] = id
  BY <1>1, <1>2
<1>10. QED
  BY <1>1, <1>4, <1>8, <1>9 DEF Promise!Change, OpenFor

\* A write of the provider is a Deliver of the promise, or a stutter.
LEMMA PushStep ==
    ASSUME IInv, NEW w \in Workers, NEW c \in held[w], Push(w, c)
    PROVE  [Promise!Next]_(Promise!vars)
<1> DEFINE key == rows[c.mutation].key
<1>1. /\ delivered' = [delivered EXCEPT ![key] = IF c.seen > @ THEN c.seen ELSE @]
      /\ UNCHANGED <<rows, content>>
  BY DEF Push
<1>2. c.mutation \in DOMAIN rows /\ c \in Claim
  BY DEF IInv, EntriesUnique, TypeOK
<1>3. key \in Keys
  BY <1>2 DEF IInv, TypeOK, Row
<1>4. /\ content \in [Keys -> Nat] /\ delivered \in [Keys -> Nat]
      /\ c.seen \in Nat /\ c.seen <= content[key]
  BY <1>2, SyncOutboxAssumption DEF IInv, TypeOK, Claim, EntriesInStep
<1>5. CASE c.seen <= delivered[key]
  <2>1. delivered' = delivered
    BY <1>1, <1>3, <1>4, <1>5
  <2>2. QED
    BY <1>1, <2>1, StutterStep
<1>6. CASE c.seen > delivered[key]
  <2>1. OpenFor(rows, key) # {}
    BY <1>3, <1>4, <1>6 DEF IInv, NoChangeForgotten
  <2>2. delivered'[key] = c.seen /\ delivered' = [delivered EXCEPT ![key] = c.seen]
    BY <1>1, <1>3, <1>4, <1>6
  <2>3. c.seen \in delivered[key] + 1 .. content[key]
    BY <1>3, <1>4, <1>6
  <2> HIDE DEF key
  <2>4. Promise!Deliver(key)
    BY <1>1, <1>3, <2>1, <2>2, <2>3 DEF Promise!Deliver, OpenFor
  <2>5. QED
    BY <1>3, <2>4 DEF Promise!Next
<1>7. QED
  BY <1>3, <1>4, <1>5, <1>6

\* Claiming stutters: a superseded claim leaves pending work for its key.
LEMMA ClaimStep ==
    ASSUME IInv, NEW w \in Workers, ClaimAvailable(w)
    PROVE  [Promise!Next]_(Promise!vars)
<1> DEFINE swept == SupersedeExpired(rows)
           batch == Batch(swept)
<1>1. PICK token \in Tokens : rows' = ClaimRows(swept, batch, token)
  BY DEF ClaimAvailable
<1>2. UNCHANGED <<content, delivered>>
  BY DEF ClaimAvailable
<1>3. DOMAIN swept = DOMAIN rows /\ \A n \in DOMAIN rows : rows[n] \in Row /\ swept[n] \in Row
  BY SupersedeTyped DEF IInv, TypeOK, WellTyped
<1>4. \A n \in DOMAIN rows :
        /\ swept[n].key = rows[n].key
        /\ \/ swept[n].status = rows[n].status
           \/ /\ PendingFor(rows, rows[n].key) # {}
              /\ rows[n].status = "claimed" /\ swept[n].status = "superseded"
  BY <1>3, SupersedeFacts, ReleaseFacts
<1>5. \A n \in batch : n \in DOMAIN rows /\ IsOpen(swept[n])
  BY <1>3 DEF Batch, Claimable, IsDue, IsExpired, IsOpen
<1> HIDE DEF swept, batch
<1>6. \A n \in DOMAIN rows :
        rows'[n] = IF n \in batch
                   THEN [swept[n] EXCEPT !.status = "claimed", !.token = token,
                                         !.lease = LeaseTicks]
                   ELSE swept[n]
  BY <1>1, <1>3 DEF ClaimRows
<1>7. \A n \in DOMAIN rows :
        LET r == [swept[n] EXCEPT !.status = "claimed", !.token = token,
                                  !.lease = LeaseTicks]
        IN  r.key = swept[n].key /\ r.status = "claimed"
  BY <1>3 DEF Row
<1>8. /\ DOMAIN rows' = DOMAIN rows
      /\ \A n \in DOMAIN rows : rows'[n].key = rows[n].key
      /\ \A n \in DOMAIN rows : IsOpen(rows'[n]) <=> IsOpen(swept[n])
  BY <1>1, <1>3, <1>4, <1>5, <1>6, <1>7 DEF ClaimRows, IsOpen
<1>9. \A j \in Keys : (OpenFor(rows', j) # {}) <=> (OpenFor(rows, j) # {})
  <2> SUFFICES ASSUME NEW j \in Keys
               PROVE  (OpenFor(rows', j) # {}) <=> (OpenFor(rows, j) # {})
    OBVIOUS
  <2>1. ASSUME NEW n \in OpenFor(rows', j) PROVE n \in OpenFor(rows, j)
    BY <1>4, <1>8, <2>1 DEF OpenFor, IsOpen
  <2>2. ASSUME NEW n \in OpenFor(rows, j) PROVE OpenFor(rows', j) # {}
    <3>1. CASE swept[n].status = rows[n].status
      BY <1>8, <2>2, <3>1 DEF OpenFor, IsOpen
    <3>2. CASE PendingFor(rows, j) # {}
      BY <1>4, <1>8, <3>2 DEF PendingFor, OpenFor, IsOpen
    <3>3. QED
      BY <1>4, <2>2, <3>1, <3>2 DEF OpenFor
  <2>3. QED
    BY <2>1, <2>2
<1>10. QED
  BY <1>2, <1>9, StutterStep

\* Completing a claim settles its key or stutters.
LEMMA CompleteStep ==
    ASSUME IInv, IInv', NEW w \in Workers, NEW c \in held[w], Complete(w, c)
    PROVE  [Promise!Next]_(Promise!vars)
<1>1. /\ rows' = CompleteRows(rows, c.mutation, c.token)
      /\ UNCHANGED <<content, delivered>>
  BY DEF Complete
<1>2. c.mutation \in DOMAIN rows /\ \A n \in DOMAIN rows : rows[n] \in Row
  BY DEF IInv, EntriesUnique, TypeOK
<1>3. DOMAIN rows' = DOMAIN rows
  BY <1>1, SettleTyped DEF IInv, TypeOK, WellTyped
<1>4. \A n \in DOMAIN rows :
        \/ rows'[n] = rows[n]
        \/ n = c.mutation /\ rows'[n] = Release(rows[n], "completed")
  BY <1>1 DEF CompleteRows
<1>5. rows[c.mutation].key \in Keys
  BY <1>2 DEF Row
<1>6. \A j \in Keys : (OpenFor(rows, j) # {}) =>
                        (j = rows[c.mutation].key \/ OpenFor(rows', j) # {})
  BY <1>3, <1>4 DEF OpenFor
<1>7. \A j \in Keys : (OpenFor(rows', j) # {}) => (OpenFor(rows, j) # {})
  BY <1>2, <1>3, <1>4, ReleaseFacts DEF OpenFor, IsOpen
<1>8. QED
  BY <1>1, <1>5, <1>6, <1>7, SettleStep

\* Acknowledging a pulled mutation settles its key or stutters.
LEMMA AcknowledgeStep ==
    ASSUME IInv, IInv', NEW k \in Keys, Acknowledge(k)
    PROVE  [Promise!Next]_(Promise!vars)
<1>1. /\ rows' = AcknowledgeRows(rows, k, content[k])
      /\ UNCHANGED <<content, delivered>>
  BY DEF Acknowledge
<1>2. \A n \in DOMAIN rows : rows[n] \in Row
  BY DEF IInv, TypeOK
<1>3. DOMAIN rows' = DOMAIN rows
  BY <1>1, AcknowledgeTyped DEF IInv, TypeOK, WellTyped
<1>4. \A n \in DOMAIN rows :
        \/ rows'[n] = rows[n]
        \/ rows[n].key = k /\ rows'[n] = Release(rows[n], "completed")
  BY <1>1 DEF AcknowledgeRows
<1>5. \A j \in Keys : (OpenFor(rows, j) # {}) => (j = k \/ OpenFor(rows', j) # {})
  BY <1>3, <1>4 DEF OpenFor
<1>6. \A j \in Keys : (OpenFor(rows', j) # {}) => (OpenFor(rows, j) # {})
  BY <1>2, <1>3, <1>4, ReleaseFacts DEF OpenFor, IsOpen
<1>7. QED
  BY <1>1, <1>5, <1>6, SettleStep

\* Failing a claim stutters: its key still has an open row.
LEMMA FailStep ==
    ASSUME IInv, NEW w \in Workers, NEW c \in held[w], Fail(w, c)
    PROVE  [Promise!Next]_(Promise!vars)
<1>1. PICK delay \in 0..RetryTicks : rows' = FailRows(rows, c.mutation, c.token, delay)
  BY DEF Fail
<1>2. UNCHANGED <<content, delivered>>
  BY DEF Fail
<1>3. \A n \in DOMAIN rows : rows[n] \in Row
  BY DEF IInv, TypeOK
<1>4. DOMAIN rows' = DOMAIN rows
  BY <1>1 DEF FailRows
<1>5. \A n \in DOMAIN rows :
        \/ rows'[n] = rows[n]
        \/ /\ rows[n].status = "claimed"
           /\ PendingFor(rows, rows[n].key) # {}
           /\ rows'[n] = [Release(rows[n], "superseded") EXCEPT !.wait = 0]
        \/ /\ rows[n].status = "claimed"
           /\ rows'[n] = [Release(rows[n], "pending") EXCEPT !.wait = delay]
  BY <1>1 DEF FailRows, HoldsClaim
<1>6. \A n \in DOMAIN rows :
        /\ rows'[n].key = rows[n].key
        /\ \/ rows'[n] = rows[n]
           \/ rows[n].status = "claimed" /\ rows'[n].status = "pending"
           \/ /\ rows[n].status = "claimed"
              /\ PendingFor(rows, rows[n].key) # {}
              /\ rows'[n].status = "superseded"
  BY <1>3, <1>5 DEF Release, Row
<1>7. \A j \in Keys : (OpenFor(rows', j) # {}) <=> (OpenFor(rows, j) # {})
  <2> SUFFICES ASSUME NEW j \in Keys
               PROVE  (OpenFor(rows', j) # {}) <=> (OpenFor(rows, j) # {})
    OBVIOUS
  <2>1. ASSUME NEW n \in OpenFor(rows', j) PROVE n \in OpenFor(rows, j)
    BY <1>4, <1>6, <2>1 DEF OpenFor, IsOpen
  <2>2. ASSUME NEW n \in OpenFor(rows, j) PROVE OpenFor(rows', j) # {}
    <3>1. CASE rows'[n] = rows[n] \/ rows'[n].status = "pending"
      BY <1>4, <1>6, <2>2, <3>1 DEF OpenFor, IsOpen
    <3>2. CASE PendingFor(rows, j) # {}
      <4>1. PICK p \in DOMAIN rows : rows[p].key = j /\ rows[p].status = "pending"
        BY <3>2 DEF PendingFor
      <4>2. rows'[p] = rows[p]
        BY <1>6, <4>1
      <4>3. QED
        BY <1>4, <4>1, <4>2 DEF OpenFor, IsOpen
    <3>3. QED
      BY <1>6, <2>2, <3>1, <3>2 DEF OpenFor
  <2>3. QED
    BY <2>1, <2>2
<1>8. QED
  BY <1>2, <1>7, StutterStep

\* The steps that leave statuses alone stutter.
LEMMA OtherStep ==
    ASSUME IInv,
           \/ Tick
           \/ \E w \in Workers : Snapshot(w) \/ Abandon(w) \/ \E c \in held[w] : Renew(w, c)
           \/ UNCHANGED vars
    PROVE  [Promise!Next]_(Promise!vars)
<1>1. UNCHANGED <<content, delivered>>
  BY DEF Tick, Snapshot, Abandon, Renew, vars
<1>2. \A n \in DOMAIN rows : rows[n] \in Row
  BY DEF IInv, TypeOK
<1>3. /\ DOMAIN rows' = DOMAIN rows
      /\ \A n \in DOMAIN rows : rows'[n].key = rows[n].key /\ rows'[n].status = rows[n].status
  <2>1. CASE Tick
    BY <1>2, <2>1 DEF Tick, Row
  <2>2. ASSUME NEW w \in Workers, NEW c \in held[w], Renew(w, c)
        PROVE  /\ DOMAIN rows' = DOMAIN rows
               /\ \A n \in DOMAIN rows : /\ rows'[n].key = rows[n].key
                                         /\ rows'[n].status = rows[n].status
    BY <1>2, <2>2 DEF Renew, RenewRows, Row
  <2>3. CASE UNCHANGED rows
    BY <2>3
  <2>4. QED
    BY <2>1, <2>2, <2>3 DEF Snapshot, Abandon, vars
<1>4. QED
  BY <1>1, <1>3, StutterStep DEF OpenFor, IsOpen

\* The outbox implements OutboxPromise: a step of the table, the passes or the
\* domain repositories changes, delivers or settles one key, and a key is
\* settled only when the provider has its newest content.
THEOREM OutboxImplementsPromise == Spec => ImplementsPromise
<1>1. IInv /\ IInv' /\ [Next]_vars => [Promise!Next]_(Promise!vars)
  <2> SUFFICES ASSUME IInv, IInv', [Next]_vars
               PROVE  [Promise!Next]_(Promise!vars)
    OBVIOUS
  <2>1. ASSUME NEW k \in Keys, Mutate(k) PROVE [Promise!Next]_(Promise!vars)
    BY <2>1, MutateStep DEF Promise!Next
  <2>2. ASSUME NEW k \in Keys, Acknowledge(k) PROVE [Promise!Next]_(Promise!vars)
    BY <2>2, AcknowledgeStep
  <2>3. ASSUME NEW w \in Workers, ClaimAvailable(w) PROVE [Promise!Next]_(Promise!vars)
    BY <2>3, ClaimStep
  <2>4. ASSUME NEW w \in Workers, NEW c \in held[w],
               Push(w, c) \/ Complete(w, c) \/ Fail(w, c)
        PROVE  [Promise!Next]_(Promise!vars)
    BY <2>4, PushStep, CompleteStep, FailStep
  <2>5. CASE \/ Tick
             \/ \E w \in Workers : Snapshot(w) \/ Abandon(w) \/ \E c \in held[w] : Renew(w, c)
             \/ UNCHANGED vars
    BY <2>5, OtherStep
  <2>6. QED
    BY <2>1, <2>2, <2>3, <2>4, <2>5 DEF Next
<1>2. QED
  BY <1>1, InitPromise, Invariance, PTL DEF Spec, ImplementsPromise, Promise!Spec

=============================================================================
