--------------------------- MODULE Reconciliation ---------------------------
(***************************************************************************)
(* The devices of one workspace, their local databases, and the provider   *)
(* folder they synchronise notes through.  Each device edits its notes and *)
(* runs reconciliation passes: pull the changes after its cursor, merge    *)
(* them with local edits, claim the outbox, push the claimed notes under   *)
(* a version precondition, pull again, complete the claims.                *)
(*                                                                         *)
(* The provider has no locks: its objects change between any two requests, *)
(* and the user edits a note between any two awaits of a pass.  An action  *)
(* is the code from one await to the next.  A pass may die at every await  *)
(* (a crash or a failing request) and a write may be stored without its    *)
(* response arriving.                                                      *)
(*                                                                         *)
(* A device runs one pass at a time (ReconciliationGate), so it needs one  *)
(* claim token, and a lease or retry delay is over or is not.              *)
(***************************************************************************)
EXTENDS NoteMerge, FiniteSetsExt

CONSTANTS Devices,
          Keys,          \* logical keys of notes
          Existing,      \* the keys all devices and the provider start with
          MaxMutations,  \* bound on the local mutations of a behaviour
          MaxDeletions,  \* bound on the deletions among them
          MaxFaults,     \* bound on dying passes and failing writes
          RetryLimit,    \* times a run starts over after a refused write (2 in the code)
          ClaimToken,    \* the token of the pass in progress
          NoToken        \* NULL in column claim_token

ASSUME ReconciliationAssumption ==
    /\ Existing \subseteq Keys
    /\ {MaxMutations, MaxDeletions, MaxFaults, RetryLimit} \subseteq Nat
    /\ ClaimToken # NoToken
    /\ NoPayload \notin [Fields -> 0..MaxMutations]

\* Mutation ids are random: mutations take them in any order.  Their order is
\* the order of authority.
Ids == 0..MaxMutations

\* A field's value is the id of the mutation that wrote it.
Payloads == [Fields -> Ids] \cup {NoPayload}

Notes == [mut: Ids, payload: Payloads]

Outbox == INSTANCE OutboxRows
    WITH Mutations <- Ids, Targets <- Notes, Tokens <- {ClaimToken},
         LeaseTicks <- 1, RetryTicks <- 1

VARIABLES db,      \* the database of each device
          pass,    \* the pass in progress on each device, in memory
          remote,  \* remote[k]: the document and version the provider has
          clock,   \* the provider's change counter
          made,    \* history: every local mutation, and the payload it replaced
          wedged,  \* history: devices whose pull was rejected by the journal
          faults   \* dying passes and failing writes so far

vars == <<db, pass, remote, clock, made, wedged, faults>>

\* What every device and the provider have of an existing note at first.
Baseline == [mut |-> 0, payload |-> [f \in Fields |-> 0], parent |-> NoDoc]

Content(doc) == [mut |-> doc.mut, payload |-> doc.payload]

\* createLocalNoteSyncDocument; NoDoc stands for a missing note.
Document(note, parent) ==
    IF note = NoDoc THEN NoDoc
    ELSE [mut |-> note.mut, payload |-> note.payload, parent |-> parent]

ParentOf(doc) == IF doc = NoDoc THEN NoDoc ELSE doc.parent

Absent == [doc |-> NoDoc, version |-> 0]

Resting == [at |-> "idle", phase |-> "initial", todo |-> {}, pulled |-> {}, cursor |-> 0,
            claimed |-> {}, unsent |-> {}, sent |-> {}, retries |-> 0]

Start(k) == IF k \in Existing THEN [doc |-> Baseline, version |-> 1] ELSE Absent

Init ==
    /\ db = [d \in Devices |->
                [notes  |-> [k \in Keys |-> IF k \in Existing THEN Content(Baseline) ELSE NoDoc],
                 base   |-> [k \in Keys |-> Start(k)],
                 rows   |-> [m \in {} |-> 0],
                 cursor |-> 1,
                 copies |-> {}]]
    /\ pass = [d \in Devices |-> Resting]
    /\ remote = [k \in Keys |-> Start(k)]
    /\ clock = 1
    /\ made = {}
    /\ wedged = {}
    /\ faults = 0

-----------------------------------------------------------------------------
(* Local mutations: the domain write and its journal entry are one          *)
(* transaction, which runs while no other code of the device does.          *)

AtAwait(d) == pass[d].at \in {"idle", "listing", "reading", "pushing"}

FreshIds == (1..MaxMutations) \ {e.mut : e \in made}

Commit(d, k, m, payload) ==
    LET note == [mut |-> m, payload |-> payload]
        old == db[d].notes[k]
    IN  /\ AtAwait(d)
        /\ db' = [db EXCEPT ![d].notes[k] = note,
                            ![d].rows = Outbox!EnqueueRows(@, k, m, note)]
        /\ made' = made \cup
              {[mut |-> m, key |-> k, after |-> payload,
                before |-> IF old = NoDoc THEN Baseline.payload ELSE old.payload]}
        /\ UNCHANGED <<pass, remote, clock, wedged, faults>>

IsLiveNote(d, k) == db[d].notes[k] # NoDoc /\ ~Deleted(db[d].notes[k])

\* Note ids are random as well: a note is created once.
Create(d, k) ==
    /\ k \notin Existing
    /\ \A e \in made : e.key # k
    /\ \E m \in FreshIds : Commit(d, k, m, [f \in Fields |-> m])

Edit(d, k) ==
    /\ IsLiveNote(d, k)
    /\ \E m \in FreshIds, f \in Fields :
          Commit(d, k, m, [db[d].notes[k].payload EXCEPT ![f] = m])

Delete(d, k) ==
    /\ IsLiveNote(d, k)
    /\ Cardinality({e \in made : e.after = NoPayload}) < MaxDeletions
    /\ \E m \in FreshIds : Commit(d, k, m, NoPayload)

-----------------------------------------------------------------------------
(* pull: what is to be done about one document, decided when it was read.   *)

Item(k, read, merged, apply, enqueue, acknowledge) ==
    [key |-> k, read |-> read, doc |-> merged.doc, copy |-> merged.copy,
     apply |-> apply, enqueue |-> enqueue, acknowledge |-> acknowledge]

\* The first pull of a run acknowledges the outbox, the one that verifies its
\* writes leaves that to the completion of the claims.
Decide(D, k, read, acknowledging, preferLocal) ==
    LET base == D.base[k].doc
        local == Document(D.notes[k], ParentOf(base))
        merged == MergeNote(base, local, read.doc, preferLocal)
        differs == merged.doc # read.doc
    IN  CASE base # NoDoc /\ read.doc = base ->
               Item(k, read, Clean(read.doc), FALSE, FALSE, FALSE)
          [] read.doc # base /\ local \in {base, NoDoc} ->
               Item(k, read, Clean(read.doc), TRUE, FALSE, FALSE)
          [] read.doc # base /\ local \notin {base, NoDoc} /\ local = read.doc ->
               Item(k, read, Clean(read.doc), FALSE, FALSE, acknowledging)
          [] OTHER ->
               Item(k, read, merged, TRUE, differs,
                    acknowledging /\ base # NoDoc /\ ~differs)

(* applyPull: one transaction.                                              *)

\* A conflict copy is a note of its own; a losing tombstone leaves none.
CopyOf(i) ==
    {[key |-> i.key, payload |-> c.payload] :
        c \in {c \in {i.copy} \ {NoDoc} : ~Deleted(c)}}

\* The tombstone of a note the device never had is not applied.
NoteAfter(D, i) ==
    IF i.apply /\ ~(Deleted(i.doc) /\ D.notes[i.key] = NoDoc)
    THEN Content(i.doc) ELSE D.notes[i.key]

\* The journal after one item, given what the device had before the pull.
RowsAfter(D, i, rows) ==
    LET queued == IF i.enqueue
                  THEN Outbox!EnqueueRows(rows, i.key, i.doc.mut, NoteAfter(D, i)) ELSE rows
    IN  IF i.acknowledge
        THEN Outbox!AcknowledgeRows(queued, i.key, i.read.doc.mut) ELSE queued

ApplyPull(D, items, cursor) ==
    LET pulled == {i.key : i \in items}
        Of(k) == CHOOSE i \in items : i.key = k
        Journal(i, rows) == RowsAfter(D, i, rows)
    IN  [D EXCEPT !.notes = [k \in Keys |-> IF k \in pulled THEN NoteAfter(D, Of(k)) ELSE @[k]],
                  !.base = [k \in Keys |-> IF k \in pulled THEN Of(k).read ELSE @[k]],
                  !.copies = @ \cup UNION {CopyOf(i) : i \in items},
                  !.rows = FoldSet(Journal, @, items),
                  !.cursor = cursor]

\* The journal's INSERT finds the id taken: the transaction is rolled back.
Rejected(D, i) ==
    i.enqueue /\ Outbox!InsertCollides(D.rows, i.key, i.doc.mut, Content(i.doc))

\* After the transaction the code runs on to its next await: the outbox after
\* the first pull, the completions after the verifying one.
AfterPull(p) ==
    CASE p.phase = "initial" -> [p EXCEPT !.at = "claiming", !.pulled = {}]
      [] p.phase = "verify"  -> [p EXCEPT !.at = "completing", !.pulled = {}]
      [] p.phase = "refresh" -> [p EXCEPT !.at = "listing", !.phase = "initial", !.pulled = {}]

\* Mutant: saves the provider's cursor of the moment, not that of the listing.
MutantFinishPull(d, p) ==
    /\ db' = [db EXCEPT ![d] = ApplyPull(@, p.pulled, clock)]
    /\ pass' = [pass EXCEPT ![d] = AfterPull(p)]
    /\ UNCHANGED wedged

FinishPull(d, p) ==
    IF \E i \in p.pulled : Rejected(db[d], i)
    THEN /\ pass' = [pass EXCEPT ![d] = Resting]
         /\ wedged' = wedged \cup {d}
         /\ UNCHANGED db
    ELSE /\ db' = [db EXCEPT ![d] = ApplyPull(@, p.pulled, p.cursor)]
         /\ pass' = [pass EXCEPT ![d] = AfterPull(p)]
         /\ UNCHANGED wedged

\* Goes on reading, or applies what was read.
Continue(d, p) ==
    IF p.todo = {} THEN FinishPull(d, p)
    ELSE /\ pass' = [pass EXCEPT ![d] = p]
         /\ UNCHANGED <<db, wedged>>

\* collectChanges: everything after the cursor or, when the provider no longer
\* knows the cursor, everything.
List(d) ==
    /\ pass[d].at \in {"idle", "listing"}
    /\ \E listed \in { {k \in Keys : remote[k].version > db[d].cursor},
                       {k \in Keys : remote[k] # Absent} } :
          Continue(d, [pass[d] EXCEPT !.at = "reading", !.todo = listed, !.cursor = clock])
    /\ UNCHANGED <<remote, clock, made, faults>>

Read(d, k) ==
    LET p == pass[d]
        local == Document(db[d].notes[k], ParentOf(db[d].base[k].doc))
    IN  /\ p.at = "reading"
        /\ k \in p.todo
        /\ \E preferLocal \in IF local = NoDoc THEN {FALSE}
                              ELSE LocalMayWin(local, remote[k].doc) :
              Continue(d, [p EXCEPT !.todo = @ \ {k},
                              !.pulled = @ \cup {Decide(db[d], k, remote[k],
                                                        p.phase # "verify", preferLocal)}])
        /\ UNCHANGED <<remote, clock, made, faults>>

-----------------------------------------------------------------------------
(* claimAvailable, recoverAcknowledgedClaims and listClaimedDocuments       *)

\* CompleteRows for each of some rows.
CompleteAll(rows, S) ==
    [m \in DOMAIN rows |->
        IF m \in S THEN Outbox!CompleteRows(rows, m, ClaimToken)[m] ELSE rows[m]]

\* The provider already has the mutation a row stands for.
IsAcknowledged(D, row) ==
    /\ D.base[row.key].doc # NoDoc
    /\ D.base[row.key].doc.mut = row.latest

Claim(d) ==
    LET D == db[d]
        swept == Outbox!SupersedeExpired(D.rows)
        batch == Outbox!Claimable(swept)
        rows == Outbox!ClaimRows(swept, batch, ClaimToken)
        known == {m \in batch : IsAcknowledged(D, rows[m])}
        unsent == {[row |-> m, key |-> rows[m].key,
                    doc |-> Document(D.notes[rows[m].key], D.base[rows[m].key].doc)] :
                       m \in batch \ known}
    IN  /\ pass[d].at = "claiming"
        /\ db' = [db EXCEPT ![d].rows = CompleteAll(rows, known)]
        /\ pass' = [pass EXCEPT ![d] =
              IF unsent = {}
              THEN [@ EXCEPT !.at = "listing", !.phase = "verify"]
              ELSE [@ EXCEPT !.at = "pushing", !.claimed = batch \ known, !.unsent = unsent]]
        /\ UNCHANGED <<remote, clock, made, wedged, faults>>

(* The writes.                                                              *)

Store(e) ==
    /\ remote' = [remote EXCEPT ![e.key] = [doc |-> e.doc, version |-> clock + 1]]
    /\ clock' = clock + 1

\* Mutant: writes without the version.
MutantPrecondition(d, e) == TRUE

\* The provider has the version the device knows, or neither has the object.
Precondition(d, e) == remote[e.key].version = db[d].base[e.key].version

Push(d, e) ==
    /\ pass[d].at = "pushing"
    /\ e \in pass[d].unsent
    /\ Precondition(d, e)
    /\ Store(e)
    /\ pass' = [pass EXCEPT ![d].unsent = @ \ {e},
                            ![d].sent = @ \cup {e.row},
                            ![d].at = IF pass[d].unsent = {e} THEN "listing" ELSE @,
                            ![d].phase = IF pass[d].unsent = {e} THEN "verify" ELSE @]
    /\ UNCHANGED <<db, made, wedged, faults>>

\* failClaims.  Of several rows of one key the first to fail becomes pending
\* again and the others give way to it.
FailClaims(d, delay) ==
    \E first \in SUBSET pass[d].claimed :
        LET rows == db[d].rows
            FailOne(t, m) == Outbox!FailRows(t, m, ClaimToken, delay)
            before == [m \in DOMAIN rows |-> IF m \in first THEN FailOne(rows, m)[m] ELSE rows[m]]
        IN  /\ \A m \in pass[d].claimed : \E n \in first : rows[n].key = rows[m].key
            /\ \A m, n \in first : rows[m].key = rows[n].key => m = n
            /\ db' = [db EXCEPT ![d].rows =
                  [m \in DOMAIN rows |->
                      IF m \in pass[d].claimed \ first
                      THEN FailOne(before, m)[m] ELSE before[m]]]

\* The object changed since the device read it: pull and start over, a few times.
PushRefused(d, e) ==
    /\ pass[d].at = "pushing"
    /\ e \in pass[d].unsent
    /\ ~Precondition(d, e)
    /\ IF pass[d].retries < RetryLimit
       THEN /\ FailClaims(d, 0)
            /\ pass' = [pass EXCEPT ![d] = [Resting EXCEPT !.at = "listing",
                                                           !.phase = "refresh",
                                                           !.retries = pass[d].retries + 1]]
       ELSE /\ FailClaims(d, 1)
            /\ pass' = [pass EXCEPT ![d] = Resting]
    /\ UNCHANGED <<remote, clock, made, wedged, faults>>

\* The request fails: before the provider stored the document or after.
PushFails(d, e) ==
    /\ pass[d].at = "pushing"
    /\ e \in pass[d].unsent
    /\ faults < MaxFaults
    /\ faults' = faults + 1
    /\ \/ Precondition(d, e) /\ Store(e)
       \/ UNCHANGED <<remote, clock>>
    /\ FailClaims(d, 1)
    /\ pass' = [pass EXCEPT ![d] = Resting]
    /\ UNCHANGED <<made, wedged>>

Complete(d) ==
    /\ pass[d].at = "completing"
    /\ IF pass[d].sent = {}
       THEN /\ pass' = [pass EXCEPT ![d] = Resting]
            /\ UNCHANGED db
       ELSE \E m \in pass[d].sent :
              /\ db' = [db EXCEPT ![d].rows = Outbox!CompleteRows(@, m, ClaimToken)]
              /\ pass' = [pass EXCEPT ![d].sent = @ \ {m}]
    /\ UNCHANGED <<remote, clock, made, wedged, faults>>

-----------------------------------------------------------------------------
\* The process dies, or a request of a pull fails: what was read is forgotten,
\* claims stay until their leases run out.
Die(d) ==
    /\ pass[d].at # "idle"
    /\ faults < MaxFaults
    /\ faults' = faults + 1
    /\ pass' = [pass EXCEPT ![d] = Resting]
    /\ UNCHANGED <<db, remote, clock, made, wedged>>

\* Leases and retry delays run out.
Wait(d) ==
    /\ pass[d].at = "idle"
    /\ \E m \in DOMAIN db[d].rows : db[d].rows[m].lease + db[d].rows[m].wait > 0
    /\ db' = [db EXCEPT ![d].rows =
                 [m \in DOMAIN @ |-> [@[m] EXCEPT !.lease = 0, !.wait = 0]]]
    /\ UNCHANGED <<pass, remote, clock, made, wedged, faults>>

\* What moves a pass on.
Step(d) ==
    \/ List(d) \/ Claim(d) \/ Complete(d)
    \/ \E k \in Keys : Read(d, k)
    \/ \E e \in pass[d].unsent : Push(d, e) \/ PushRefused(d, e)

Next ==
    \E d \in Devices :
        \/ \E k \in Keys : Create(d, k) \/ Edit(d, k) \/ Delete(d, k)
        \/ Step(d) \/ Die(d) \/ Wait(d)
        \/ \E e \in pass[d].unsent : PushFails(d, e)

Spec == Init /\ [][Next]_vars

\* The orchestration keeps starting passes, a pass that is not killed goes on,
\* and time goes by between passes.  Nobody is obliged to edit or to fail.
Fairness == \A d \in Devices : WF_vars(Step(d)) /\ SF_vars(Wait(d))

FairSpec == Spec /\ Fairness

-----------------------------------------------------------------------------
(* Properties *)

VersionedDoc(r) ==
    \/ r = Absent
    \/ /\ Content(r.doc) \in Notes
       /\ r.version \in 1..clock

\* The state of a device is made of what its tables and its pass may hold.
TypeOK ==
    /\ clock \in Nat
    /\ \A k \in Keys : VersionedDoc(remote[k])
    /\ \A d \in Devices :
          /\ db[d].notes \in [Keys -> Notes \cup {NoDoc}]
          /\ \A k \in Keys : VersionedDoc(db[d].base[k])
          /\ db[d].rows \in [DOMAIN db[d].rows -> Outbox!Row]
          /\ DOMAIN db[d].rows \subseteq Ids
          /\ db[d].cursor \in 1..clock
          /\ db[d].copies \subseteq [key: Keys, payload: Payloads \ {NoPayload}]
    /\ \A d \in Devices :
          /\ pass[d].at \in {"idle", "listing", "reading", "claiming", "pushing", "completing"}
          /\ pass[d].phase \in {"initial", "verify", "refresh"}
          /\ pass[d].retries \in 0..RetryLimit
          /\ pass[d].todo \subseteq Keys
          /\ pass[d].cursor \in 0..clock
          /\ pass[d].sent \subseteq pass[d].claimed
          /\ pass[d].claimed \subseteq DOMAIN db[d].rows
    /\ wedged \subseteq Devices
    /\ faults \in 0..MaxFaults

\* The cursor never passes a change that was not applied: what the provider
\* has from before a device's cursor, the device knows.
CursorSound ==
    \A d \in Devices, k \in Keys :
        remote[k].version <= db[d].cursor => db[d].base[k].doc = remote[k].doc

\* No write is blind: the device that writes (its pass goes on) has read and merged
\* with what it replaces.
NoBlindWrite ==
    [][\A k \in Keys : remote'[k] # remote[k]
          => \E d \in Devices : pass'[d] # pass[d] /\ remote[k] = db[d].base[k]]_vars

\* The value a mutation wrote is still somewhere, in a note, at the provider
\* or in a conflict copy, or a later mutation knowingly replaced it.
Preserved(e, f) ==
    \/ \E d \in Devices : LET note == db[d].notes[e.key]
                          IN  note # NoDoc /\ ~Deleted(note) /\ note.payload[f] = e.mut
    \/ LET doc == remote[e.key].doc
       IN  doc # NoDoc /\ ~Deleted(doc) /\ doc.payload[f] = e.mut
    \/ \E d \in Devices : \E c \in db[d].copies :
          c.key = e.key /\ c.payload[f] = e.mut
    \/ \E l \in made : l.key = e.key /\ l.before[f] = e.mut /\ l # e
          /\ (l.after = NoPayload \/ l.after[f] # e.mut)

\* Pulls, merges, refused writes and dying passes lose no value a local mutation
\* wrote.
NothingLost ==
    \A e \in made : e.after # NoPayload =>
        \A f \in Fields : e.after[f] = e.mut => Preserved(e, f)

\* Once the provider has a tombstone, no stale device brings the note back.
TombstonesStay ==
    [][\A k \in Keys : (remote[k].doc # NoDoc /\ Deleted(remote[k].doc))
                          => Deleted(remote'[k].doc)]_vars

\* Nothing is journaled on the device and nothing is left for it to pull.
SettledOn(d) ==
    /\ \A m \in DOMAIN db[d].rows : ~Outbox!IsOpen(db[d].rows[m])
    /\ \A k \in Keys : remote[k].version <= db[d].cursor

Settled == \A d \in Devices : SettledOn(d)

\* When edits and faults end, every device whose pulls were never rejected by its
\* journal (NeverWedged) runs out of work for good: none of its claims stays behind,
\* no two devices merge each other's merges for ever, and a device whose pulls are
\* rejected does not keep the others busy.
Settles == <>[](\A d \in Devices : d \in wedged \/ SettledOn(d))

\* ... and no pass is under way.
Quiet == Settled /\ \A d \in Devices : pass[d].at = "idle"

\* Devices with nothing left to do have the same notes as the provider.
Converged ==
    Quiet => \A d \in Devices, k \in Keys :
        remote[k].doc = NoDoc \/ db[d].notes[k].payload = remote[k].doc.payload

\* The journal takes every merged document.
NeverWedged == wedged = {}

=============================================================================
