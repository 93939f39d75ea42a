------------------------- MODULE ReconciliationProofs -------------------------
(***************************************************************************)
(* The devices of a workspace and their provider folder, for every number  *)
(* of devices, notes, fields, mutations and faults: no cursor passes a     *)
(* change that was not applied, and no write replaces a version the writer *)
(* has not seen; what mergeSyncNoteDocument guarantees for every pair of   *)
(* versions; and, of notes every device has had, that deletions are final  *)
(* and that no value a user wrote is lost, unless an edit overtakes a pull.*)
(***************************************************************************)
EXTENDS Reconciliation, TLAPS

Phases == {"initial", "verify", "refresh"}

\* The columns of a device's database, and the parts of a pass.
Shape ==
    /\ DOMAIN db = Devices /\ DOMAIN pass = Devices /\ DOMAIN remote = Keys
    /\ \A d \in Devices :
          /\ DOMAIN db[d] = {"notes", "base", "rows", "cursor", "copies"}
          /\ DOMAIN pass[d] = {"at", "phase", "todo", "pulled", "cursor",
                               "claimed", "unsent", "sent", "retries"}
          /\ pass[d].phase \in Phases

\* No version and no cursor is ahead of the provider's counter.
Counted ==
    /\ clock \in Nat
    /\ \A k \in Keys : remote[k].version \in 0..clock
    /\ \A d \in Devices : db[d].cursor \in 0..clock /\ pass[d].cursor \in 0..clock

\* A version names one state of an object: whoever holds the version the provider
\* has holds the document the provider has.
Genuine(seen, k) ==
    /\ seen.version \in 0..clock
    /\ seen.version = remote[k].version => seen = remote[k]

Known == \A d \in Devices, k \in Keys : Genuine(db[d].base[k], k)

\* What a pass has read: one listing's keys, each once, as they were read.
SoundItems(p) ==
    \A i \in p.pulled : i.key \in Keys \ p.todo /\ Genuine(i.read, i.key)

Pulled ==
    \A d \in Devices :
        /\ pass[d].at # "reading" => pass[d].pulled = {}
        /\ SoundItems(pass[d])

\* Applying what p has read leaves the device with the provider's document of k.
Catches(d, p, k) ==
    /\ \A i \in p.pulled : i.key = k => i.read.doc = remote[k].doc
    /\ \/ \E i \in p.pulled : i.key = k
       \/ db[d].base[k].doc = remote[k].doc

\* Up to the cursor of the listing in progress, what the provider has is still to
\* be read, was read as it is, or is known already.
CatchesUp(d, p) ==
    \A k \in Keys : remote[k].version <= p.cursor => k \in p.todo \/ Catches(d, p, k)

Covered == \A d \in Devices : pass[d].at = "reading" => CatchesUp(d, pass[d])

IInv == Shape /\ Counted /\ Known /\ Pulled /\ Covered /\ CursorSound

-----------------------------------------------------------------------------
(* The initial states *)

LEMMA InitEstablishes == Init => IInv
<1> SUFFICES ASSUME Init PROVE IInv
  OBVIOUS
<1> USE DEF Init
<1>1. Shape
  BY DEF Shape, Resting, Phases
<1>2. \A k \in Keys : Start(k).version \in {0, 1}
  BY DEF Start, Absent
<1>3. Counted
  BY <1>2 DEF Counted, Resting
<1>4. \A d \in Devices, k \in Keys : db[d].base[k] = remote[k]
  OBVIOUS
<1>5. Known
  BY <1>2, <1>4 DEF Known, Genuine
<1>6. \A d \in Devices : pass[d].at = "idle" /\ pass[d].pulled = {}
  BY DEF Resting
<1>7. Pulled /\ Covered
  BY <1>6 DEF Pulled, SoundItems, Covered
<1>8. CursorSound
  BY <1>4 DEF CursorSound
<1> QED
  BY <1>1, <1>3, <1>5, <1>7, <1>8 DEF IInv

-----------------------------------------------------------------------------
(* Steps that pull nothing *)

\* No device's knowledge of the provider changes.
KeepsKnowledge ==
    /\ DOMAIN db' = Devices
    /\ \A e \in Devices :
          /\ DOMAIN db'[e] = DOMAIN db[e]
          /\ db'[e].base = db[e].base
          /\ db'[e].cursor = db[e].cursor

\* A pass is as it was, or reads nothing and has nothing pulled.
ReadsNothing ==
    /\ DOMAIN pass' = Devices
    /\ \A e \in Devices :
          \/ pass'[e] = pass[e]
          \/ /\ DOMAIN pass'[e] = DOMAIN pass[e]
             /\ pass'[e].phase \in Phases
             /\ pass'[e].at # "reading"
             /\ pass'[e].pulled = {}
             /\ pass'[e].cursor \in {0, pass[e].cursor}

\* Somebody's document is stored under the next version.
Stores(k) ==
    /\ clock' = clock + 1
    /\ \E doc : remote' = [remote EXCEPT ![k] = [doc |-> doc, version |-> clock + 1]]

\* A new version is later than everything anybody has seen.
LEMMA StoreKeepsGenuine ==
    ASSUME Shape, Counted, NEW j, Stores(j) \/ UNCHANGED <<remote, clock>>,
           NEW k \in Keys, NEW seen, Genuine(seen, k)
    PROVE  Genuine(seen, k)'
<1>1. CASE UNCHANGED <<remote, clock>>
  BY <1>1 DEF Genuine
<1>2. CASE Stores(j)
  <2>1. PICK doc : remote' = [remote EXCEPT ![j] = [doc |-> doc, version |-> clock + 1]]
    BY <1>2 DEF Stores
  <2>2. clock' = clock + 1 /\ clock \in Nat
    BY <1>2 DEF Stores, Counted
  <2>3. CASE j = k
    <3>1. remote'[k].version = clock + 1
      BY <2>1, <2>3 DEF Shape
    <3> QED
      BY <2>2, <3>1 DEF Genuine
  <2>4. CASE j # k
    <3>1. remote'[k] = remote[k]
      BY <2>1, <2>4 DEF Shape
    <3> QED
      BY <2>2, <3>1 DEF Genuine
  <2> QED
    BY <2>3, <2>4
<1> QED
  BY <1>1, <1>2

\* ... so that an object with a version from before is the object from before.
LEMMA StoreIsLater ==
    ASSUME Shape, Counted, NEW j, Stores(j) \/ UNCHANGED <<remote, clock>>,
           NEW k \in Keys
    PROVE  /\ clock' \in Nat
           /\ clock <= clock'
           /\ remote'[k].version \in 0..clock'
           /\ remote'[k].version <= clock => remote'[k] = remote[k]
           /\ DOMAIN remote' = Keys
<1>1. clock \in Nat /\ remote[k].version \in 0..clock
  BY DEF Counted
<1>2. CASE UNCHANGED <<remote, clock>>
  BY <1>1, <1>2 DEF Shape
<1>3. CASE Stores(j)
  <2>1. PICK doc : remote' = [remote EXCEPT ![j] = [doc |-> doc, version |-> clock + 1]]
    BY <1>3 DEF Stores
  <2>2. clock' = clock + 1
    BY <1>3 DEF Stores
  <2>3. remote'[k] = IF j = k THEN [doc |-> doc, version |-> clock + 1] ELSE remote[k]
    BY <2>1 DEF Shape
  <2>4. DOMAIN remote' = Keys
    BY <2>1 DEF Shape
  <2> QED
    BY <1>1, <2>2, <2>3, <2>4
<1> QED
  BY <1>2, <1>3

\* A step that pulls nothing, whatever it stores, preserves the invariant.
LEMMA Frame ==
    ASSUME IInv, KeepsKnowledge, ReadsNothing,
           NEW j, Stores(j) \/ UNCHANGED <<remote, clock>>
    PROVE  IInv'
<1> USE DEF IInv
<1>1. Shape'
  <2>1. \A d \in Devices : DOMAIN pass'[d] = DOMAIN pass[d] /\ pass'[d].phase \in Phases
    BY DEF ReadsNothing, Shape
  <2>2. DOMAIN remote' = Keys
    <3>1. CASE UNCHANGED <<remote, clock>>
      BY <3>1 DEF Shape
    <3>2. CASE Stores(j)
      BY <3>2 DEF Stores, Shape
    <3> QED
      BY <3>1, <3>2
  <2> QED
    BY <2>1, <2>2 DEF Shape, KeepsKnowledge, ReadsNothing
<1>2. clock \in Nat /\ clock' \in Nat /\ clock <= clock'
  BY DEF Stores, Counted
<1>3. Counted'
  <2>1. \A k \in Keys : remote'[k].version \in 0..clock'
    BY StoreIsLater
  <2>2. \A d \in Devices : db'[d].cursor \in 0..clock /\ pass'[d].cursor \in 0..clock
    BY DEF KeepsKnowledge, ReadsNothing, Counted
  <2> QED
    BY <1>2, <2>1, <2>2 DEF Counted
<1>4. Known'
  <2> SUFFICES ASSUME NEW d \in Devices, NEW k \in Keys PROVE Genuine(db[d].base[k], k)'
    BY DEF Known
  <2>1. Genuine(db[d].base[k], k)
    BY DEF Known
  <2>2. db'[d].base[k] = db[d].base[k]
    BY DEF KeepsKnowledge
  <2> DEFINE seen == db[d].base[k]
  <2>3. \A s : Genuine(s, k) => Genuine(s, k)'
    BY StoreKeepsGenuine
  <2> QED
    BY <2>1, <2>2, <2>3 DEF Genuine
<1>5. Pulled'
  <2> SUFFICES ASSUME NEW d \in Devices
               PROVE  /\ pass'[d].at # "reading" => pass'[d].pulled = {}
                      /\ SoundItems(pass[d])'
    BY DEF Pulled
  <2>1. CASE pass'[d] = pass[d]
    <3>1. SoundItems(pass[d])
      BY DEF Pulled
    <3>2. \A s : \A k \in Keys : Genuine(s, k) => Genuine(s, k)'
      BY StoreKeepsGenuine
    <3>3. SoundItems(pass[d])'
      BY <2>1, <3>1, <3>2 DEF SoundItems
    <3> QED
      BY <2>1, <3>3 DEF Pulled
  <2>2. CASE pass'[d].at # "reading" /\ pass'[d].pulled = {}
    BY <2>2 DEF SoundItems
  <2> QED
    BY <2>1, <2>2 DEF ReadsNothing
<1>6. Covered'
  <2> SUFFICES ASSUME NEW d \in Devices, NEW k \in Keys,
                      pass'[d].at = "reading", remote'[k].version <= pass'[d].cursor
               PROVE  k \in pass'[d].todo \/ Catches(d, pass[d], k)'
    BY DEF Covered, CatchesUp
  <2>1. pass'[d] = pass[d]
    BY DEF ReadsNothing
  <2>2. pass[d].cursor \in 0..clock
    BY DEF Counted
  <2>3. remote'[k] = remote[k]
    BY <1>2, <2>1, <2>2, StoreIsLater
  <2>4. k \in pass[d].todo \/ Catches(d, pass[d], k)
    BY <2>1, <2>3 DEF Covered, CatchesUp
  <2>5. db'[d].base = db[d].base
    BY DEF KeepsKnowledge
  <2> QED
    BY <2>1, <2>3, <2>4, <2>5 DEF Catches
<1>7. CursorSound'
  <2> SUFFICES ASSUME NEW d \in Devices, NEW k \in Keys,
                      remote'[k].version <= db'[d].cursor
               PROVE  db'[d].base[k].doc = remote'[k].doc
    BY DEF CursorSound
  <2>1. db'[d].base = db[d].base /\ db'[d].cursor = db[d].cursor
    BY DEF KeepsKnowledge
  <2>2. db[d].cursor \in 0..clock
    BY DEF Counted
  <2>3. remote'[k] = remote[k]
    BY <1>2, <2>1, <2>2, StoreIsLater
  <2> QED
    BY <2>1, <2>3 DEF CursorSound
<1> QED
  BY <1>1, <1>3, <1>4, <1>5, <1>6, <1>7 DEF IInv

\* The local mutations, claims and their outcomes change notes and rows only.
LEMMA CommitFrames ==
    ASSUME IInv, NEW d \in Devices, NEW k, NEW m, NEW payload, Commit(d, k, m, payload)
    PROVE  IInv'
<1>1. KeepsKnowledge
  <2> DEFINE note == [mut |-> m, payload |-> payload]
             tables == [[db[d] EXCEPT !.notes[k] = note]
                           EXCEPT !.rows = Outbox!EnqueueRows(db[d].rows, k, m, note)]
  <2>1. db' = [db EXCEPT ![d] = tables]
    BY DEF Commit, IInv, Shape
  <2> QED
    BY <2>1 DEF KeepsKnowledge, IInv, Shape
<1>2. ReadsNothing /\ UNCHANGED <<remote, clock>>
  BY DEF ReadsNothing, Commit, IInv, Shape
<1> QED
  BY <1>1, <1>2, Frame

\* The rows of one device are written, whatever to.
RowsWritten(d) == \E rows : db' = [db EXCEPT ![d].rows = rows]

LEMMA RowsAreNotKnowledge ==
    ASSUME Shape, NEW d \in Devices, RowsWritten(d) \/ UNCHANGED db
    PROVE  KeepsKnowledge
<1>1. CASE RowsWritten(d)
  <2>1. PICK rows : db' = [db EXCEPT ![d].rows = rows]
    BY <1>1 DEF RowsWritten
  <2> QED
    BY <2>1 DEF Shape, KeepsKnowledge
<1>2. CASE UNCHANGED db
  BY <1>2 DEF Shape, KeepsKnowledge
<1> QED
  BY <1>1, <1>2

LEMMA FailWritesRows ==
    ASSUME NEW d \in Devices, NEW delay, FailClaims(d, delay)
    PROVE  RowsWritten(d)
  BY DEF FailClaims, RowsWritten

\* A pass of d goes on to p, which reads nothing.
LEMMA PassMovesOn ==
    ASSUME Shape, Counted, NEW d \in Devices, NEW p,
           pass' = [pass EXCEPT ![d] = p],
           DOMAIN p = DOMAIN pass[d], p.phase \in Phases,
           p.at # "reading", p.pulled = {}, p.cursor \in {0, pass[d].cursor}
    PROVE  ReadsNothing
  BY DEF Shape, ReadsNothing

LEMMA RestingReadsNothing ==
    ASSUME Shape, Counted, NEW d \in Devices,
           pass' = [pass EXCEPT ![d] = Resting]
    PROVE  ReadsNothing
<1>1. /\ DOMAIN Resting = DOMAIN pass[d] /\ Resting.phase \in Phases
      /\ Resting.at # "reading" /\ Resting.pulled = {} /\ Resting.cursor = 0
  BY DEF Resting, Phases, Shape
<1> QED
  BY <1>1, PassMovesOn

LEMMA ClaimFrames ==
    ASSUME IInv, NEW d \in Devices, Claim(d)
    PROVE  IInv'
<1>1. KeepsKnowledge
  <2>1. RowsWritten(d)
    BY DEF Claim, RowsWritten
  <2> QED
    BY <2>1, RowsAreNotKnowledge DEF IInv
<1>2. pass[d].at = "claiming" /\ pass[d].pulled = {}
  BY DEF Claim, IInv, Pulled
<1>3. ReadsNothing
  <2>1. PICK claimed, unsent :
          \/ pass' = [pass EXCEPT ![d] = [@ EXCEPT !.at = "listing", !.phase = "verify"]]
          \/ pass' = [pass EXCEPT ![d] = [@ EXCEPT !.at = "pushing", !.claimed = claimed,
                                                   !.unsent = unsent]]
    BY DEF Claim
  <2> DEFINE listing == [pass[d] EXCEPT !.at = "listing", !.phase = "verify"]
             pushing == [pass[d] EXCEPT !.at = "pushing", !.claimed = claimed,
                                        !.unsent = unsent]
  <2>2. /\ DOMAIN listing = DOMAIN pass[d] /\ listing.phase \in Phases
        /\ listing.at # "reading" /\ listing.pulled = {} /\ listing.cursor = pass[d].cursor
    BY <1>2 DEF IInv, Shape, Phases
  <2>3. /\ DOMAIN pushing = DOMAIN pass[d] /\ pushing.phase \in Phases
        /\ pushing.at # "reading" /\ pushing.pulled = {} /\ pushing.cursor = pass[d].cursor
    BY <1>2 DEF IInv, Shape, Phases
  <2>4. pass' = [pass EXCEPT ![d] = listing] \/ pass' = [pass EXCEPT ![d] = pushing]
    BY <2>1
  <2> HIDE DEF listing, pushing
  <2> QED
    BY <2>2, <2>3, <2>4, PassMovesOn DEF IInv
<1> QED
  BY <1>1, <1>3, Frame DEF Claim

LEMMA StoreStores ==
    ASSUME NEW e, Store(e)
    PROVE  Stores(e.key)
  BY DEF Store, Stores

LEMMA PushFrames ==
    ASSUME IInv, NEW d \in Devices, NEW e, Push(d, e)
    PROVE  IInv'
<1>1. KeepsKnowledge
  BY RowsAreNotKnowledge DEF Push, IInv
<1>2. pass[d].at = "pushing" /\ pass[d].pulled = {}
  BY DEF Push, IInv, Pulled
<1>3. ReadsNothing
  <2> DEFINE at == IF pass[d].unsent = {e} THEN "listing" ELSE pass[d].at
             phase == IF pass[d].unsent = {e} THEN "verify" ELSE pass[d].phase
             p == [pass[d] EXCEPT !.unsent = @ \ {e}, !.sent = @ \cup {e.row},
                                  !.at = at, !.phase = phase]
  <2>1. pass' = [pass EXCEPT ![d] = p]
    BY DEF Push, IInv, Shape
  <2>2. p.at # "reading" /\ p.phase \in Phases
    BY <1>2 DEF IInv, Shape, Phases
  <2>3. DOMAIN p = DOMAIN pass[d] /\ p.pulled = {} /\ p.cursor = pass[d].cursor
    BY <1>2 DEF IInv, Shape
  <2> HIDE DEF p
  <2> QED
    BY <2>1, <2>2, <2>3, PassMovesOn DEF IInv
<1> QED
  BY <1>1, <1>3, StoreStores, Frame DEF Push

LEMMA PushRefusedFrames ==
    ASSUME IInv, NEW d \in Devices, NEW e, PushRefused(d, e)
    PROVE  IInv'
<1>1. KeepsKnowledge
  BY FailWritesRows, RowsAreNotKnowledge DEF PushRefused, IInv
<1>2. ReadsNothing
  <2>1. CASE pass' = [pass EXCEPT ![d] = Resting]
    BY <2>1, RestingReadsNothing DEF IInv
  <2> DEFINE p == [Resting EXCEPT !.at = "listing", !.phase = "refresh",
                                  !.retries = pass[d].retries + 1]
  <2>2. CASE pass' = [pass EXCEPT ![d] = p]
    <3>1. /\ DOMAIN p = DOMAIN pass[d] /\ p.phase \in Phases
          /\ p.at # "reading" /\ p.pulled = {} /\ p.cursor = 0
      BY DEF IInv, Shape, Phases, Resting
    <3> HIDE DEF p
    <3> QED
      BY <2>2, <3>1, PassMovesOn DEF IInv
  <2> QED
    BY <2>1, <2>2 DEF PushRefused
<1> QED
  BY <1>1, <1>2, Frame DEF PushRefused

LEMMA PushFailsFrames ==
    ASSUME IInv, NEW d \in Devices, NEW e, PushFails(d, e)
    PROVE  IInv'
<1>1. KeepsKnowledge
  BY FailWritesRows, RowsAreNotKnowledge DEF PushFails, IInv
<1>2. ReadsNothing
  BY RestingReadsNothing DEF PushFails, IInv
<1>3. Stores(e.key) \/ UNCHANGED <<remote, clock>>
  BY StoreStores DEF PushFails
<1> QED
  BY <1>1, <1>2, <1>3, Frame

LEMMA CompleteFrames ==
    ASSUME IInv, NEW d \in Devices, Complete(d)
    PROVE  IInv'
<1>1. pass[d].at = "completing" /\ pass[d].pulled = {}
  BY DEF Complete, IInv, Pulled
<1>2. CASE pass' = [pass EXCEPT ![d] = Resting] /\ UNCHANGED db
  BY <1>2, RestingReadsNothing, RowsAreNotKnowledge, Frame DEF Complete, IInv
<1>3. ASSUME NEW m, db' = [db EXCEPT ![d].rows = Outbox!CompleteRows(@, m, ClaimToken)],
             pass' = [pass EXCEPT ![d].sent = @ \ {m}]
      PROVE  IInv'
  <2>1. KeepsKnowledge
    BY <1>3, RowsAreNotKnowledge DEF RowsWritten, IInv
  <2> DEFINE p == [pass[d] EXCEPT !.sent = @ \ {m}]
  <2>2. /\ DOMAIN p = DOMAIN pass[d] /\ p.phase \in Phases
        /\ p.at # "reading" /\ p.pulled = {} /\ p.cursor = pass[d].cursor
    BY <1>1 DEF IInv, Shape
  <2>3. pass' = [pass EXCEPT ![d] = p]
    BY <1>3 DEF IInv, Shape
  <2> HIDE DEF p
  <2>4. ReadsNothing
    BY <2>2, <2>3, PassMovesOn DEF IInv
  <2> QED
    BY <2>1, <2>4, Frame DEF Complete
<1> QED
  BY <1>2, <1>3 DEF Complete

LEMMA DieFrames ==
    ASSUME IInv, NEW d \in Devices, Die(d)
    PROVE  IInv'
  BY RestingReadsNothing, RowsAreNotKnowledge, Frame DEF Die, IInv

LEMMA WaitFrames ==
    ASSUME IInv, NEW d \in Devices, Wait(d)
    PROVE  IInv'
<1>1. RowsWritten(d)
  BY DEF Wait, RowsWritten
<1>2. ReadsNothing
  BY DEF Wait, ReadsNothing, IInv, Shape
<1> QED
  BY <1>1, <1>2, RowsAreNotKnowledge, Frame DEF Wait, IInv

-----------------------------------------------------------------------------
(* Pulls *)

\* A pass as it may be between two reads.
Ready(d, p) ==
    /\ DOMAIN p = DOMAIN pass[d]
    /\ p.phase \in Phases
    /\ p.at = "reading"
    /\ p.cursor \in 0..clock
    /\ SoundItems(p)
    /\ CatchesUp(d, p)

\* What a device knows after applyPull: each key as one of the items read it, or
\* as before.
LEMMA ApplyPullReplacesBases ==
    ASSUME NEW D, DOMAIN D = {"notes", "base", "rows", "cursor", "copies"},
           NEW items, NEW cursor
    PROVE  LET after == ApplyPull(D, items, cursor)
           IN  /\ DOMAIN after = DOMAIN D
               /\ after.cursor = cursor
               /\ \A k \in Keys :
                     \/ \E i \in items : i.key = k /\ after.base[k] = i.read
                     \/ (\A i \in items : i.key # k) /\ after.base[k] = D.base[k]
<1> DEFINE pulled == {i.key : i \in items}
           Of(k) == CHOOSE i \in items : i.key = k
           after == ApplyPull(D, items, cursor)
<1>1. \A k \in pulled : Of(k) \in items /\ Of(k).key = k
  OBVIOUS
<1>2. DOMAIN after = DOMAIN D /\ after.cursor = cursor
  BY DEF ApplyPull
<1>3. \A k \in Keys : after.base[k] = IF k \in pulled THEN Of(k).read ELSE D.base[k]
  BY DEF ApplyPull
<1> HIDE DEF after, Of
<1>4. \A k \in Keys :
        \/ \E i \in items : i.key = k /\ after.base[k] = i.read
        \/ (\A i \in items : i.key # k) /\ after.base[k] = D.base[k]
  <2> SUFFICES ASSUME NEW k \in Keys
               PROVE  \/ \E i \in items : i.key = k /\ after.base[k] = i.read
                      \/ (\A i \in items : i.key # k) /\ after.base[k] = D.base[k]
    OBVIOUS
  <2>1. CASE k \in pulled
    BY <1>1, <1>3, <2>1
  <2>2. CASE k \notin pulled
    BY <1>3, <2>2
  <2> QED
    BY <2>1, <2>2
<1> QED
  BY <1>2, <1>4 DEF after

LEMMA AfterPullReadsNothing ==
    ASSUME NEW p, p.phase \in Phases, NEW parts, DOMAIN p = parts,
           {"at", "phase", "pulled", "cursor"} \subseteq parts
    PROVE  LET next == AfterPull(p)
           IN  /\ DOMAIN next = parts
               /\ next.phase \in Phases
               /\ next.at # "reading"
               /\ next.pulled = {}
               /\ next.cursor = p.cursor
  BY DEF AfterPull, Phases

\* A pull that has read everything it listed moves the cursor to where everything
\* is known.
LEMMA ApplyKeeps ==
    ASSUME IInv, UNCHANGED <<remote, clock>>,
           NEW d \in Devices, NEW p, Ready(d, p), p.todo = {},
           db' = [db EXCEPT ![d] = ApplyPull(@, p.pulled, p.cursor)],
           pass' = [pass EXCEPT ![d] = AfterPull(p)]
    PROVE  IInv'
<1> USE DEF IInv
<1> DEFINE after == ApplyPull(db[d], p.pulled, p.cursor)
           next == AfterPull(p)
<1>1. /\ DOMAIN after = DOMAIN db[d]
      /\ after.cursor = p.cursor
      /\ \A k \in Keys :
            \/ \E i \in p.pulled : i.key = k /\ after.base[k] = i.read
            \/ (\A i \in p.pulled : i.key # k) /\ after.base[k] = db[d].base[k]
  <2>1. DOMAIN db[d] = {"notes", "base", "rows", "cursor", "copies"}
    BY DEF Shape
  <2> QED
    BY <2>1, ApplyPullReplacesBases
<1>2. /\ DOMAIN next = DOMAIN pass[d]
      /\ next.phase \in Phases
      /\ next.at # "reading"
      /\ next.pulled = {}
      /\ next.cursor = p.cursor
  BY AfterPullReadsNothing DEF Ready, Shape
<1> HIDE DEF after, next
<1>3. /\ DOMAIN db' = Devices /\ DOMAIN pass' = Devices
      /\ db'[d] = after /\ pass'[d] = next
      /\ \A e \in Devices \ {d} : db'[e] = db[e] /\ pass'[e] = pass[e]
  BY DEF Shape, after, next
<1>4. Shape'
  BY <1>1, <1>2, <1>3 DEF Shape
<1>5. Counted'
  BY <1>1, <1>2, <1>3 DEF Counted, Ready
<1>6. \A s : \A k \in Keys : Genuine(s, k)' <=> Genuine(s, k)
  BY DEF Genuine
<1>7. Known'
  <2> SUFFICES ASSUME NEW e \in Devices, NEW k \in Keys
               PROVE  Genuine(db'[e].base[k], k)
    BY <1>6 DEF Known, Genuine
  <2>1. CASE e # d
    BY <1>3, <2>1 DEF Known
  <2>2. CASE e = d
    BY <1>1, <1>3, <2>2 DEF Known, Ready, SoundItems
  <2> QED
    BY <2>1, <2>2
<1>8. Pulled'
  <2> SUFFICES ASSUME NEW e \in Devices
               PROVE  (pass'[e].at # "reading" => pass'[e].pulled = {}) /\ SoundItems(pass[e])'
    BY DEF Pulled
  <2>1. CASE e # d
    BY <1>3, <1>6, <2>1 DEF Pulled, SoundItems, Genuine
  <2>2. CASE e = d
    BY <1>2, <1>3, <2>2 DEF SoundItems
  <2> QED
    BY <2>1, <2>2
<1>9. Covered'
  BY <1>2, <1>3 DEF Covered, CatchesUp, Catches
<1>10. CursorSound'
  <2> SUFFICES ASSUME NEW e \in Devices, NEW k \in Keys, remote[k].version <= db'[e].cursor
               PROVE  db'[e].base[k].doc = remote[k].doc
    BY DEF CursorSound
  <2>1. CASE e # d
    BY <1>3, <2>1 DEF CursorSound
  <2>2. CASE e = d
    <3>1. Catches(d, p, k)
      BY <1>1, <1>3, <2>2 DEF Ready, CatchesUp
    <3> QED
      BY <1>1, <1>3, <2>2, <3>1 DEF Catches
  <2> QED
    BY <2>1, <2>2
<1> QED
  BY <1>4, <1>5, <1>7, <1>8, <1>9, <1>10

\* A pull goes on, is rejected or is applied.
LEMMA ContinueKeeps ==
    ASSUME IInv, UNCHANGED <<remote, clock>>,
           NEW d \in Devices, NEW p, Ready(d, p), Continue(d, p)
    PROVE  IInv'
<1>1. CASE p.todo = {}
  <2>1. CASE pass' = [pass EXCEPT ![d] = Resting] /\ UNCHANGED db
    BY <2>1, RestingReadsNothing, RowsAreNotKnowledge, Frame DEF IInv
  <2>2. CASE /\ db' = [db EXCEPT ![d] = ApplyPull(@, p.pulled, p.cursor)]
             /\ pass' = [pass EXCEPT ![d] = AfterPull(p)]
    BY <1>1, <2>2, ApplyKeeps
  <2> QED
    BY <1>1, <2>1, <2>2 DEF Continue, FinishPull
<1>2. CASE pass' = [pass EXCEPT ![d] = p] /\ UNCHANGED db
  <2> USE DEF IInv
  <2>1. /\ DOMAIN pass' = Devices /\ pass'[d] = p
        /\ \A e \in Devices \ {d} : pass'[e] = pass[e]
    BY <1>2 DEF Shape
  <2>2. Shape' /\ Counted'
    BY <1>2, <2>1 DEF Shape, Counted, Ready
  <2>3. \A s : \A k \in Keys : Genuine(s, k)' <=> Genuine(s, k)
    BY DEF Genuine
  <2>4. Known' /\ CursorSound'
    BY <1>2, <2>3 DEF Known, CursorSound, Genuine
  <2>5. \A e \in Devices : SoundItems(pass[e])'
    BY <2>1, <2>3 DEF Pulled, SoundItems, Ready, Genuine
  <2>6. Pulled'
    BY <2>1, <2>5 DEF Pulled, Ready
  <2>7. Covered'
    <3> SUFFICES ASSUME NEW e \in Devices, pass'[e].at = "reading"
                 PROVE  CatchesUp(e, pass[e])'
      BY DEF Covered
    <3>1. CatchesUp(e, pass'[e])
      BY <2>1 DEF Covered, Ready
    <3> QED
      BY <1>2, <3>1 DEF CatchesUp, Catches
  <2> QED
    BY <2>2, <2>4, <2>6, <2>7
<1> QED
  BY <1>1, <1>2 DEF Continue

\* A listing leaves out only what the device knows.
LEMMA ListKeeps ==
    ASSUME IInv, NEW d \in Devices, List(d)
    PROVE  IInv'
<1>1. PICK listed \in { {k \in Keys : remote[k].version > db[d].cursor},
                        {k \in Keys : remote[k] # Absent} } :
        Continue(d, [pass[d] EXCEPT !.at = "reading", !.todo = listed, !.cursor = clock])
  BY DEF List
<1> DEFINE p == [pass[d] EXCEPT !.at = "reading", !.todo = listed, !.cursor = clock]
<1>2. pass[d].pulled = {}
  BY DEF List, IInv, Pulled
<1>3. /\ DOMAIN p = DOMAIN pass[d] /\ p.phase \in Phases /\ p.at = "reading"
      /\ p.cursor = clock /\ p.pulled = {} /\ p.todo = listed
  BY <1>2 DEF IInv, Shape
<1> HIDE DEF p
<1>4. \A k \in Keys \ listed : db[d].base[k].doc = remote[k].doc
  <2> SUFFICES ASSUME NEW k \in Keys \ listed PROVE db[d].base[k].doc = remote[k].doc
    OBVIOUS
  <2>1. remote[k].version \in Nat /\ db[d].cursor \in Nat
    BY DEF IInv, Counted
  <2>2. remote[k].version <= db[d].cursor
    BY <1>1, <2>1 DEF Absent
  <2> QED
    BY <2>2 DEF IInv, CursorSound
<1>5. CatchesUp(d, p)
  BY <1>3, <1>4 DEF CatchesUp, Catches
<1>6. Ready(d, p)
  BY <1>3, <1>5 DEF Ready, SoundItems, IInv, Counted
<1>7. Continue(d, p) /\ UNCHANGED <<remote, clock>>
  BY <1>1 DEF p, List
<1> QED
  BY <1>6, <1>7, ContinueKeeps

\* Whatever is decided about a document, it is decided about the one read.
LEMMA DecideReads ==
    ASSUME NEW D, NEW k, NEW read, NEW acknowledging, NEW preferLocal
    PROVE  LET i == Decide(D, k, read, acknowledging, preferLocal)
           IN  i.key = k /\ i.read = read
<1>1. \A merged, apply, enqueue, acknowledge :
        LET i == Item(k, read, merged, apply, enqueue, acknowledge)
        IN  i.key = k /\ i.read = read
  BY DEF Item
<1> HIDE DEF Item
<1> QED
  BY <1>1 DEF Decide

LEMMA ReadKeeps ==
    ASSUME IInv, NEW d \in Devices, NEW k \in Keys, Read(d, k)
    PROVE  IInv'
<1>1. PICK preferLocal :
        Continue(d, [pass[d] EXCEPT !.todo = @ \ {k},
                        !.pulled = @ \cup {Decide(db[d], k, remote[k],
                                                  pass[d].phase # "verify", preferLocal)}])
  BY DEF Read
<1> DEFINE new == Decide(db[d], k, remote[k], pass[d].phase # "verify", preferLocal)
           p == [pass[d] EXCEPT !.todo = @ \ {k}, !.pulled = @ \cup {new}]
<1>2. new.key = k /\ new.read = remote[k]
  BY DecideReads
<1>3. Continue(d, p) /\ UNCHANGED <<remote, clock>>
  BY <1>1 DEF Read
<1> HIDE DEF new
<1>4. /\ pass[d].at = "reading" /\ k \in pass[d].todo
      /\ SoundItems(pass[d]) /\ CatchesUp(d, pass[d])
  BY DEF Read, IInv, Pulled, Covered
<1>5. /\ DOMAIN p = DOMAIN pass[d] /\ p.phase \in Phases /\ p.at = "reading"
      /\ p.cursor = pass[d].cursor
      /\ p.todo = pass[d].todo \ {k} /\ p.pulled = pass[d].pulled \cup {new}
  BY <1>4 DEF IInv, Shape
<1> HIDE DEF p
<1>6. Genuine(remote[k], k)
  BY DEF Genuine, IInv, Counted
<1>7. SoundItems(p)
  BY <1>2, <1>4, <1>5, <1>6 DEF SoundItems
<1>8. CatchesUp(d, p)
  <2> SUFFICES ASSUME NEW j \in Keys, remote[j].version <= p.cursor, j \notin p.todo
               PROVE  Catches(d, p, j)
    BY DEF CatchesUp
  <2>1. CASE j = k
    BY <1>2, <1>4, <1>5, <2>1 DEF Catches, SoundItems
  <2>2. CASE j # k
    <3>1. Catches(d, pass[d], j)
      BY <1>4, <1>5, <2>2 DEF CatchesUp
    <3> QED
      BY <1>2, <1>5, <2>2, <3>1 DEF Catches
  <2> QED
    BY <2>1, <2>2
<1>9. Ready(d, p)
  BY <1>5, <1>7, <1>8 DEF Ready, IInv, Counted
<1> QED
  BY <1>3, <1>9, ContinueKeeps

-----------------------------------------------------------------------------
(* The theorems *)

LEMMA NextKeeps == IInv /\ [Next]_vars => IInv'
<1> SUFFICES ASSUME IInv, [Next]_vars PROVE IInv'
  OBVIOUS
<1>1. CASE UNCHANGED vars
  BY <1>1 DEF vars, IInv, Shape, Counted, Known, Genuine, Pulled, SoundItems, Covered,
              CatchesUp, Catches, CursorSound
<1>2. CASE Next
  <2>1. PICK d \in Devices :
          \/ \E k \in Keys : Create(d, k) \/ Edit(d, k) \/ Delete(d, k)
          \/ Step(d) \/ Die(d) \/ Wait(d)
          \/ \E e \in pass[d].unsent : PushFails(d, e)
    BY <1>2 DEF Next
  <2>2. CASE \E k \in Keys : Create(d, k) \/ Edit(d, k) \/ Delete(d, k)
    BY <2>2, CommitFrames DEF Create, Edit, Delete
  <2>3. CASE List(d) \/ \E k \in Keys : Read(d, k)
    BY <2>3, ListKeeps, ReadKeeps
  <2>4. CASE Claim(d) \/ Complete(d)
    BY <2>4, ClaimFrames, CompleteFrames
  <2>5. CASE \E e \in pass[d].unsent : Push(d, e) \/ PushRefused(d, e) \/ PushFails(d, e)
    BY <2>5, PushFrames, PushRefusedFrames, PushFailsFrames
  <2>6. CASE Die(d) \/ Wait(d)
    BY <2>6, DieFrames, WaitFrames
  <2> QED
    BY <2>1, <2>2, <2>3, <2>4, <2>5, <2>6 DEF Step
<1> QED
  BY <1>1, <1>2

\* applyPull saves a cursor only together with every change up to it: what the
\* provider has from before a device's cursor is what the device knows, whatever
\* other devices write while the pass reads and wherever the pass dies.
THEOREM CursorsAreSound == Spec => []CursorSound
<1>1. IInv => CursorSound
  BY DEF IInv
<1> QED
  BY <1>1, InitEstablishes, NextKeeps, PTL DEF Spec

\* A write is stored only over the version the writing device has merged with.
LEMMA StepWritesKnown ==
    ASSUME IInv, NEW d \in Devices, NEW e, Precondition(d, e), Store(e)
    PROVE  \A k \in Keys : remote'[k] # remote[k] => remote[k] = db[d].base[k]
<1> SUFFICES ASSUME NEW k \in Keys, remote'[k] # remote[k]
             PROVE  remote[k] = db[d].base[k]
  OBVIOUS
<1>1. k = e.key
  BY DEF Store, IInv, Shape
<1>2. Genuine(db[d].base[k], k)
  BY DEF IInv, Known
<1> QED
  BY <1>1, <1>2 DEF Precondition, Genuine

\* The version precondition prevents lost updates: whatever document a write
\* replaces, it is the one the writing device read and merged with, in every
\* interleaving of the devices' passes and edits, with failing and dying passes.
THEOREM WritesReplaceKnown == Spec => NoBlindWrite
<1>1. IInv /\ [Next]_vars =>
        [\A k \in Keys : remote'[k] # remote[k]
            => \E d \in Devices : pass'[d] # pass[d] /\ remote[k] = db[d].base[k]]_vars
  <2> SUFFICES ASSUME IInv, Next
               PROVE  \A k \in Keys : remote'[k] # remote[k]
                         => \E d \in Devices : pass'[d] # pass[d] /\ remote[k] = db[d].base[k]
    OBVIOUS
  <2>1. CASE UNCHANGED remote
    BY <2>1
  <2>2. ASSUME NEW d \in Devices, NEW e \in pass[d].unsent, Push(d, e)
        PROVE  Precondition(d, e) /\ Store(e) /\ pass'[d] # pass[d]
    <3>1. pass'[d].unsent = pass[d].unsent \ {e}
      BY <2>2 DEF Push, IInv, Shape
    <3> QED
      BY <2>2, <3>1 DEF Push
  <2>3. ASSUME NEW d \in Devices, NEW e, PushFails(d, e)
        PROVE  pass'[d] # pass[d]
    <3>1. pass'[d].at = "idle" /\ pass[d].at = "pushing"
      BY <2>3 DEF PushFails, Resting, IInv, Shape
    <3> QED
      BY <3>1
  <2>4. ASSUME NEW d \in Devices, NEW e, PushFails(d, e)
        PROVE  UNCHANGED remote \/ (Precondition(d, e) /\ Store(e))
    BY <2>4 DEF PushFails
  <2>5. ASSUME NEW d \in Devices,
               \/ \E k \in Keys : Create(d, k) \/ Edit(d, k) \/ Delete(d, k)
               \/ List(d) \/ Claim(d) \/ Complete(d) \/ Die(d) \/ Wait(d)
               \/ \E k \in Keys : Read(d, k)
               \/ \E e \in pass[d].unsent : PushRefused(d, e)
        PROVE  UNCHANGED remote
    BY <2>5 DEF Create, Edit, Delete, Commit, List, Read, Claim, Complete, PushRefused, Die, Wait
  <2> QED
    BY <2>1, <2>2, <2>3, <2>4, <2>5, StepWritesKnown DEF Next, Step
<1> QED
  BY <1>1, InitEstablishes, NextKeeps, PTL DEF Spec, NoBlindWrite

-----------------------------------------------------------------------------
(* mergeSyncNoteDocument, for every base, every pair of versions and every  *)
(* set of fields                                                            *)

\* A field's merged value does not depend on which side does the merging.
LEMMA ThreeWayCommutes ==
    ASSUME NEW base, NEW mine, NEW theirs, NEW w \in BOOLEAN
    PROVE  ThreeWay(base, mine, theirs, w) = ThreeWay(base, theirs, mine, ~w)
<1>1. CASE mine = theirs
  BY <1>1 DEF ThreeWay
<1>2. CASE mine # theirs /\ mine = base
  BY <1>2 DEF ThreeWay
<1>3. CASE mine # theirs /\ mine # base /\ theirs = base
  BY <1>3 DEF ThreeWay
<1>4. CASE mine # theirs /\ mine # base /\ theirs # base
  BY <1>4 DEF ThreeWay
<1> QED
  BY <1>1, <1>2, <1>3, <1>4

\* The fields that need a conflict copy are the same seen from either side.
LEMMA ConflictsCommute ==
    ASSUME NEW base, NEW mine, NEW theirs
    PROVE  Conflicting(base, mine, theirs) = Conflicting(base, theirs, mine)
  BY DEF Conflicting

\* The documents merged field by field agree as well.
LEMMA FieldsCommute ==
    ASSUME NEW base, NEW mine, NEW theirs, NEW w \in BOOLEAN
    PROVE  MergeFields(base, mine, theirs, w) = MergeFields(base, theirs, mine, ~w)
<1>1. \A f \in Fields :
        ThreeWay(base.payload[f], mine.payload[f], theirs.payload[f], w)
          = ThreeWay(base.payload[f], theirs.payload[f], mine.payload[f], ~w)
  BY ThreeWayCommutes
<1>2. (IF w THEN mine.mut ELSE theirs.mut) = (IF ~w THEN theirs.mut ELSE mine.mut)
  OBVIOUS
<1> QED
  BY <1>1, <1>2 DEF MergeFields

\* Two devices that merge the same two versions over the same base get the same
\* document and keep the same conflict copy, whichever of the two is the local
\* one: mergeSyncNoteDocument is deterministic across devices.
THEOREM MergeCommutes ==
    ASSUME NEW base, NEW mine, NEW theirs, NEW w \in BOOLEAN
    PROVE  MergeNote(base, mine, theirs, w) = MergeNote(base, theirs, mine, ~w)
<1> DEFINE preferred == IF w THEN mine ELSE theirs
           mirrored == IF ~w THEN theirs ELSE mine
<1>1. /\ preferred = mirrored
      /\ (IF w THEN theirs ELSE mine) = (IF ~w THEN mine ELSE theirs)
  OBVIOUS
<1>2. CASE mine = theirs
  BY <1>1, <1>2 DEF MergeNote
<1>3. CASE mine # theirs /\ base = NoDoc
  BY <1>1, <1>3 DEF MergeNote
<1>4. CASE /\ mine # theirs /\ base # NoDoc
           /\ Deleted(base) /\ ~(Deleted(mine) /\ Deleted(theirs))
  BY <1>1, <1>4 DEF MergeNote
<1>5. CASE /\ mine # theirs /\ base # NoDoc
           /\ ~(Deleted(base) /\ ~(Deleted(mine) /\ Deleted(theirs)))
  <2>1. CASE Deleted(mine) \/ Deleted(theirs) \/ mine = base \/ theirs = base
    BY <1>1, <1>5, <2>1 DEF MergeNote, Clean
  <2>2. CASE /\ ~Deleted(mine) /\ ~Deleted(theirs)
             /\ mine # base /\ theirs # base
    BY <1>1, <1>5, <2>2, FieldsCommute, ConflictsCommute DEF MergeNote
  <2> QED
    BY <2>1, <2>2
<1> QED
  BY <1>2, <1>3, <1>4, <1>5

\* The value a device gave a field is in the merged note or, where the other
\* device changed the field too, in the conflict copy: the merge of two edited
\* notes silently replaces nothing.
THEOREM MergeKeepsEdits ==
    ASSUME NEW base, NEW mine, NEW theirs, NEW w \in BOOLEAN, NEW f \in Fields,
           base # NoDoc, mine # NoDoc, theirs # NoDoc,
           ~Deleted(base), ~Deleted(mine), ~Deleted(theirs),
           mine.payload[f] # base.payload[f]
    PROVE  LET merged == MergeNote(base, mine, theirs, w)
           IN  \/ merged.doc.payload[f] = mine.payload[f]
               \/ merged.copy # NoDoc /\ merged.copy.payload[f] = mine.payload[f]
<1> DEFINE merged == MergeNote(base, mine, theirs, w)
<1>1. mine # base
  OBVIOUS
<1>2. CASE mine = theirs \/ theirs = base
  BY <1>1, <1>2 DEF MergeNote, Clean
<1>3. CASE mine # theirs /\ theirs # base
  <2>1. merged = [doc  |-> MergeFields(base, mine, theirs, w),
                  copy |-> IF Conflicting(base, mine, theirs) = {} THEN NoDoc
                           ELSE IF w THEN theirs ELSE mine]
    BY <1>1, <1>3 DEF MergeNote
  <2>2. merged.doc.payload[f]
          = ThreeWay(base.payload[f], mine.payload[f], theirs.payload[f], w)
    BY <2>1 DEF MergeFields
  <2>3. CASE mine.payload[f] = theirs.payload[f] \/ theirs.payload[f] = base.payload[f]
    BY <2>2, <2>3 DEF ThreeWay
  <2>4. CASE mine.payload[f] # theirs.payload[f] /\ theirs.payload[f] # base.payload[f]
    <3>1. Conflicting(base, mine, theirs) # {}
      BY <2>4 DEF Conflicting
    <3>2. merged.doc.payload[f] = IF w THEN mine.payload[f] ELSE theirs.payload[f]
      BY <2>2, <2>4 DEF ThreeWay
    <3>3. merged.copy = IF w THEN theirs ELSE mine
      BY <2>1, <3>1
    <3> QED
      BY <3>2, <3>3
  <2> QED
    BY <2>3, <2>4
<1> QED
  BY <1>2, <1>3

\* A deletion on either side wins over an edit on the other, provided the device
\* knows a common base; the edit is kept in the conflict copy.
THEOREM DeletionWins ==
    ASSUME NEW base, NEW mine, NEW theirs, NEW w \in BOOLEAN,
           base # NoDoc, Deleted(mine), ~Deleted(theirs)
    PROVE  LET merged == MergeNote(base, mine, theirs, w)
           IN  /\ Deleted(merged.doc)
               /\ theirs # base => merged.copy = theirs
<1>1. mine # theirs
  BY DEF Deleted
<1>2. CASE Deleted(base)
  <2>1. MergeNote(base, mine, theirs, w) = [doc |-> mine, copy |-> theirs]
    BY <1>1, <1>2 DEF MergeNote
  <2> QED
    BY <2>1
<1>3. CASE ~Deleted(base)
  <2>1. mine # base
    BY <1>3 DEF Deleted
  <2>2. CASE theirs = base
    BY <1>1, <1>3, <2>1, <2>2 DEF MergeNote, Clean
  <2>3. CASE theirs # base
    BY <1>1, <1>3, <2>1, <2>3 DEF MergeNote
  <2> QED
    BY <2>2, <2>3
<1> QED
  BY <1>2, <1>3

-----------------------------------------------------------------------------
(* What becomes of a value a user wrote, and of a deleted note.  The notes in   *)
(* question are the existing ones: every device has had them.                   *)

\* null is neither a document nor a note.
NullIsNoDocument ==
    \A m, p, q : /\ [mut |-> m, payload |-> p, parent |-> q] # NoDoc
                 /\ [mut |-> m, payload |-> p] # NoDoc

\* The values and payloads there can be after the mutations in M.
Written(M) == {0} \cup {e.mut : e \in M}
Versions(M) == [Fields -> Written(M)] \cup {NoPayload}

\* A payload that has the value mutation e gave field f.
Gives(e, f) == e.after # NoPayload /\ e.after[f] = e.mut
Has(p, e, f) == p # NoPayload /\ p[f] = e.mut

\* The value is in one of the conflict copies C, or one of the mutations M
\* knowingly replaced it.
Accounted(M, C, e, f) ==
    \/ \E c \in C : c.key = e.key /\ c.payload[f] = e.mut
    \/ \E l \in M : l.key = e.key /\ l.before[f] = e.mut /\ l # e
          /\ (l.after = NoPayload \/ l.after[f] # e.mut)

\* Payload q has every value p has of note k, but for those accounted for.
Keeps(M, C, k, p, q) ==
    \A e \in M, f \in Fields :
        e.key = k /\ Gives(e, f) /\ Has(p, e, f) => Has(q, e, f) \/ Accounted(M, C, e, f)

Copies == UNION {db[d].copies : d \in Devices}

\* A payload keeps its own values.
LEMMA KeepsAll ==
    ASSUME NEW M, NEW C, NEW k, NEW p
    PROVE  Keeps(M, C, k, p, p)
  BY DEF Keeps

\* What two steps keep one after the other, both keep together.
LEMMA KeepsChains ==
    ASSUME NEW M, NEW C, NEW k, NEW p, NEW q, NEW r,
           Keeps(M, C, k, p, q), Keeps(M, C, k, q, r)
    PROVE  Keeps(M, C, k, p, r)
  BY DEF Keeps

\* Nothing that is accounted for is forgotten, and what a new mutation writes no
\* older payload has.
LEMMA KeepsLater ==
    ASSUME NEW M, NEW C, NEW k, NEW p, NEW q, Keeps(M, C, k, p, q),
           NEW N, NEW L, M \subseteq N, C \subseteq L,
           p \in Versions(M), \A e \in N \ M : e.mut \notin Written(M)
    PROVE  Keeps(N, L, k, p, q)
<1> SUFFICES ASSUME NEW e \in N, NEW f \in Fields, e.key = k, Gives(e, f), Has(p, e, f)
             PROVE  Has(q, e, f) \/ Accounted(N, L, e, f)
  BY DEF Keeps
<1>1. p[f] \in Written(M)
  BY DEF Versions, Has
<1>2. e \in M
  BY <1>1 DEF Has
<1>3. Has(q, e, f) \/ Accounted(M, C, e, f)
  BY <1>2 DEF Keeps
<1> QED
  BY <1>3 DEF Accounted

\* An edit replaces the value it overwrites, a deletion all of them, knowingly.
LEMMA MutationsAreKnown ==
    ASSUME NEW M, NEW C, NEW p \in Versions(M), p # NoPayload, NEW new, new.before = p,
           new.mut \notin Written(M),
           \/ new.after = NoPayload
           \/ \E f \in Fields : new.after = [p EXCEPT ![f] = new.mut]
    PROVE  Keeps(M \cup {new}, C, new.key, p, new.after)
<1> SUFFICES ASSUME NEW e \in M \cup {new}, NEW f \in Fields,
                    e.key = new.key, Gives(e, f), Has(p, e, f), ~Has(new.after, e, f)
             PROVE  Accounted(M \cup {new}, C, e, f)
  BY DEF Keeps
<1>1. p[f] \in Written(M) /\ p[f] = e.mut
  BY DEF Versions, Has
<1>2. e # new
  BY <1>1
<1>3. new.after = NoPayload \/ new.after[f] # e.mut
  BY DEF Has
<1> QED
  BY <1>1, <1>2, <1>3 DEF Accounted

-----------------------------------------------------------------------------
(* One merge *)

\* A document with values of some set V.
Plain(doc, V) == doc # NoDoc /\ doc.payload \in [Fields -> V] \cup {NoPayload}

Value(doc, f, v) == doc.payload # NoPayload /\ doc.payload[f] = v

\* What the merge m of two versions drops of one of them is in its conflict copy,
\* or the other side replaced the base's value.
MergesIn(m, base, one, other) ==
    \A f \in Fields : \A v :
        Value(one, f, v) =>
            \/ Value(m.doc, f, v)
            \/ m.copy # NoDoc /\ Value(m.copy, f, v)
            \/ Value(base, f, v) /\ ~Value(other, f, v)

\* Where two live versions differ from a live base and from each other, the merge of
\* their fields keeps what the first has: a field that loses is in the conflict copy.
LEMMA MergedFieldsKeep ==
    ASSUME NEW base, NEW mine, NEW theirs, NEW w \in BOOLEAN, NEW V,
           NoPayload \notin [Fields -> V], NullIsNoDocument,
           Plain(base, V), Plain(mine, V), Plain(theirs, V),
           ~Deleted(base), ~Deleted(mine), ~Deleted(theirs),
           mine # theirs, mine # base, theirs # base
    PROVE  LET m == MergeNote(base, mine, theirs, w)
           IN  /\ Plain(m.doc, V) /\ ~Deleted(m.doc)
               /\ MergesIn(m, base, mine, theirs)
<1> DEFINE m == MergeNote(base, mine, theirs, w)
           merged == MergeFields(base, mine, theirs, w)
<1>1. m = [doc |-> merged, copy |-> IF Conflicting(base, mine, theirs) = {} THEN NoDoc
                                    ELSE IF w THEN theirs ELSE mine]
  BY DEF MergeNote, Plain
<1>2. \A f \in Fields :
         merged.payload[f] = ThreeWay(base.payload[f], mine.payload[f], theirs.payload[f], w)
  BY DEF MergeFields
<1>3. merged.payload \in [Fields -> V] /\ merged # NoDoc
  <2>1. \A f \in Fields :
           ThreeWay(base.payload[f], mine.payload[f], theirs.payload[f], w) \in V
    BY DEF ThreeWay, Plain, Deleted
  <2> QED
    BY <2>1 DEF MergeFields, NullIsNoDocument
<1>4. Plain(m.doc, V) /\ ~Deleted(m.doc)
  BY <1>1, <1>3 DEF Plain, Deleted
<1>5. MergesIn(m, base, mine, theirs)
  <2> SUFFICES ASSUME NEW f \in Fields, NEW v, Value(mine, f, v), ~Value(m.doc, f, v)
               PROVE  \/ m.copy # NoDoc /\ Value(m.copy, f, v)
                      \/ Value(base, f, v) /\ ~Value(theirs, f, v)
    BY DEF MergesIn
  <2>1. merged.payload[f] # mine.payload[f] /\ mine.payload[f] = v
    BY <1>1, <1>4 DEF Value, Deleted
  <2>2. mine.payload[f] # theirs.payload[f]
    BY <1>2, <2>1 DEF ThreeWay
  <2>3. CASE mine.payload[f] = base.payload[f]
    BY <2>1, <2>2, <2>3 DEF Value, Deleted
  <2>4. CASE mine.payload[f] # base.payload[f]
    <3>1. theirs.payload[f] # base.payload[f] /\ ~w
      BY <1>2, <2>1, <2>2, <2>4 DEF ThreeWay
    <3>2. m.copy = mine
      BY <1>1, <2>2, <2>4, <3>1 DEF Conflicting
    <3> QED
      BY <2>1, <3>2 DEF Value, Plain, Deleted
  <2> QED
    BY <2>3, <2>4
<1> QED
  BY <1>4, <1>5

\* mergeSyncNoteDocument over a base both sides have had: unless the base is a
\* tombstone and the device's note is not, the merge keeps every value of either
\* side, in the document or in the copy, but for those the other side replaced;
\* and a tombstone at the provider stays one.
LEMMA MergeKeepsEverything ==
    ASSUME NEW base, NEW mine, NEW theirs, NEW w \in BOOLEAN, NEW V,
           NoPayload \notin [Fields -> V], NullIsNoDocument,
           Plain(base, V), Plain(mine, V), Plain(theirs, V),
           Deleted(base) => Deleted(mine)
    PROVE  LET m == MergeNote(base, mine, theirs, w)
           IN  /\ Plain(m.doc, V)
               /\ Deleted(theirs) => Deleted(m.doc)
               /\ MergesIn(m, base, mine, theirs)
               /\ MergesIn(m, base, theirs, mine)
<1> DEFINE m == MergeNote(base, mine, theirs, w)
<1> USE DEF Plain
<1>1. CASE mine = theirs
  <2>1. m = [doc |-> mine, copy |-> NoDoc]
    BY <1>1 DEF MergeNote, Clean
  <2> QED
    BY <1>1, <2>1 DEF MergesIn
<1>2. CASE mine # theirs /\ Deleted(base) /\ ~Deleted(theirs)
  <2>1. m = [doc |-> mine, copy |-> theirs]
    BY <1>2 DEF MergeNote
  <2> QED
    BY <1>2, <2>1 DEF MergesIn, Value, Deleted
<1>3. CASE mine # theirs /\ ~(Deleted(base) /\ ~Deleted(theirs)) /\ (mine = base \/ theirs = base)
  <2>1. CASE mine = base
    <3>1. m = [doc |-> theirs, copy |-> NoDoc]
      BY <1>3, <2>1 DEF MergeNote, Clean
    <3> QED
      BY <1>3, <2>1, <3>1 DEF MergesIn
  <2>2. CASE mine # base /\ theirs = base
    <3>1. m = [doc |-> mine, copy |-> NoDoc]
      BY <1>3, <2>2 DEF MergeNote, Clean
    <3> QED
      BY <1>3, <2>2, <3>1 DEF MergesIn
  <2> QED
    BY <1>3, <2>1, <2>2
<1>4. CASE /\ mine # theirs /\ ~(Deleted(base) /\ ~Deleted(theirs)) /\ mine # base /\ theirs # base
           /\ Deleted(mine) \/ Deleted(theirs)
  <2>1. CASE Deleted(mine) /\ Deleted(theirs)
    <3>1. m.doc \in {mine, theirs}
      BY <1>4, <2>1 DEF MergeNote, Clean
    <3> QED
      BY <2>1, <3>1 DEF MergesIn, Value, Deleted
  <2>2. CASE Deleted(mine) /\ ~Deleted(theirs)
    <3>1. m = [doc |-> mine, copy |-> theirs]
      BY <1>4, <2>2 DEF MergeNote
    <3> QED
      BY <2>2, <3>1 DEF MergesIn, Value, Deleted
  <2>3. CASE ~Deleted(mine) /\ Deleted(theirs)
    <3>1. m = [doc |-> theirs, copy |-> mine]
      BY <1>4, <2>3 DEF MergeNote
    <3> QED
      BY <2>3, <3>1 DEF MergesIn, Value, Deleted
  <2> QED
    BY <1>4, <2>1, <2>2, <2>3
<1>5. CASE /\ mine # theirs /\ mine # base /\ theirs # base
           /\ ~Deleted(mine) /\ ~Deleted(theirs)
  <2>1. ~Deleted(base)
    BY <1>5
  <2>2. Plain(m.doc, V) /\ ~Deleted(m.doc) /\ MergesIn(m, base, mine, theirs)
    BY <1>5, <2>1, MergedFieldsKeep
  <2> DEFINE mirrored == MergeNote(base, theirs, mine, ~w)
  <2>3. MergesIn(mirrored, base, theirs, mine)
    BY <1>5, <2>1, MergedFieldsKeep
  <2>4. mirrored = m
    BY MergeCommutes
  <2> QED
    BY <1>5, <2>2, <2>3, <2>4
<1> QED
  BY <1>1, <1>2, <1>3, <1>4, <1>5

-----------------------------------------------------------------------------
(* One document of a pull *)

\* The note of D once the item is applied.
After(D, i) == IF i.apply THEN i.doc.payload ELSE D.notes[i.key].payload

\* What applying the item drops of payload p was in q and is not in r, or is in
\* the conflict copy.
Accounts(D, i, p, q, r) ==
    \A f \in Fields : \A v :
        p # NoPayload /\ p[f] = v =>
            \/ After(D, i) # NoPayload /\ After(D, i)[f] = v
            \/ \E c \in CopyOf(i) : c.key = i.key /\ c.payload[f] = v
            \/ q # NoPayload /\ q[f] = v /\ ~(r # NoPayload /\ r[f] = v)

\* A conflict copy that has a value is a note of its own that has it.
LEMMA CopiesHold ==
    ASSUME NEW i, i.copy # NoDoc, NEW f, NEW v, Value(i.copy, f, v)
    PROVE  \E c \in CopyOf(i) : c.key = i.key /\ c.payload[f] = v
<1>1. [key |-> i.key, payload |-> i.copy.payload] \in CopyOf(i)
  BY DEF CopyOf, Value, Deleted
<1> QED
  BY <1>1 DEF Value

\* Whatever pull decides about a document both sides have had, applying it leaves the
\* values of the note and of the document read, but for those replaced knowingly.
LEMMA DecideKeeps ==
    ASSUME NEW D, NEW k, NEW read, NEW acknowledging, NEW w \in BOOLEAN, NEW V,
           NoPayload \notin [Fields -> V], NullIsNoDocument,
           Plain(D.notes[k], V), Plain(D.base[k].doc, V), Plain(read.doc, V),
           Deleted(D.base[k].doc) => Deleted(D.notes[k])
    PROVE  LET i == Decide(D, k, read, acknowledging, w)
               note == D.notes[k].payload
               base == D.base[k].doc.payload
           IN  /\ Plain(i.doc, V)
               /\ Deleted(read.doc) => After(D, i) = NoPayload
               /\ Accounts(D, i, note, base, read.doc.payload)
               /\ Accounts(D, i, read.doc.payload, base, note)
<1> DEFINE i == Decide(D, k, read, acknowledging, w)
           base == D.base[k].doc
           local == Document(D.notes[k], ParentOf(base))
           merged == MergeNote(base, local, read.doc, w)
<1>1. i.key = k /\ i.read = read
  BY DecideReads
<1>2. local.payload = D.notes[k].payload /\ Plain(local, V)
  BY DEF Document, Plain, NullIsNoDocument
<1>3. base # NoDoc /\ local # NoDoc
  BY <1>2 DEF Plain
<1>4. CASE read.doc = base
  <2>1. i = Item(k, read, Clean(read.doc), FALSE, FALSE, FALSE)
    BY <1>3, <1>4 DEF Decide
  <2>2. i.doc = read.doc /\ ~i.apply
    BY <2>1 DEF Item, Clean
  <2> QED
    BY <1>1, <1>4, <2>2 DEF Accounts, After, Deleted
<1>5. CASE read.doc # base /\ local = base
  <2>1. i = Item(k, read, Clean(read.doc), TRUE, FALSE, FALSE)
    BY <1>3, <1>5 DEF Decide
  <2>2. i.doc = read.doc /\ i.apply
    BY <2>1 DEF Item, Clean
  <2> QED
    BY <1>1, <1>2, <1>5, <2>2 DEF Accounts, After, Deleted
<1>6. CASE read.doc # base /\ local # base /\ local = read.doc
  <2>1. i = Item(k, read, Clean(read.doc), FALSE, FALSE, acknowledging)
    BY <1>3, <1>6 DEF Decide
  <2>2. i.doc = read.doc /\ ~i.apply
    BY <2>1 DEF Item, Clean
  <2> QED
    BY <1>1, <1>2, <1>6, <2>2 DEF Accounts, After, Deleted
<1>7. CASE read.doc # base /\ local # base /\ local # read.doc
  <2> DEFINE differs == merged.doc # read.doc
  <2>1. i = Item(k, read, merged, TRUE, differs, acknowledging /\ base # NoDoc /\ ~differs)
    BY <1>3, <1>7 DEF Decide
  <2>2. i.doc = merged.doc /\ i.copy = merged.copy /\ i.apply
    BY <2>1 DEF Item
  <2>3. /\ Plain(merged.doc, V)
        /\ Deleted(read.doc) => Deleted(merged.doc)
        /\ MergesIn(merged, base, local, read.doc)
        /\ MergesIn(merged, base, read.doc, local)
    <3>1. Deleted(base) => Deleted(local)
      BY <1>2 DEF Deleted
    <3> QED
      BY <1>2, <3>1, MergeKeepsEverything
  <2>4. After(D, i) = merged.doc.payload
    BY <2>2 DEF After
  <2> HIDE DEF i, merged, local
  <2>5. Accounts(D, i, local.payload, base.payload, read.doc.payload)
    BY <2>2, <2>3, <2>4, CopiesHold DEF Accounts, MergesIn, Value
  <2>6. Accounts(D, i, read.doc.payload, base.payload, local.payload)
    BY <2>2, <2>3, <2>4, CopiesHold DEF Accounts, MergesIn, Value
  <2> QED
    BY <1>2, <2>2, <2>3, <2>4, <2>5, <2>6 DEF Deleted, i
<1> QED
  BY <1>4, <1>5, <1>6, <1>7

\* ... and what the base had that is gone from one side is accounted for.
LEMMA DecideAccounts ==
    ASSUME NEW D, NEW i, NEW M, NEW C, NEW p, NEW q, NEW r,
           Accounts(D, i, p, q, r), Keeps(M, C, i.key, q, r)
    PROVE  Keeps(M, C \cup CopyOf(i), i.key, p, After(D, i))
<1> SUFFICES ASSUME NEW e \in M, NEW f \in Fields, e.key = i.key, Gives(e, f), Has(p, e, f)
             PROVE  Has(After(D, i), e, f) \/ Accounted(M, C \cup CopyOf(i), e, f)
  BY DEF Keeps
<1>1. \/ Has(After(D, i), e, f)
      \/ \E c \in CopyOf(i) : c.key = i.key /\ c.payload[f] = e.mut
      \/ Has(q, e, f) /\ ~Has(r, e, f)
  BY DEF Accounts, Has
<1>2. Has(q, e, f) => Has(r, e, f) \/ Accounted(M, C, e, f)
  BY DEF Keeps
<1> QED
  BY <1>1, <1>2 DEF Accounted

-----------------------------------------------------------------------------
(* The invariants: of documents and tombstones, and of values *)

Drafts == \A e \in made : e.mut \in 1..MaxMutations /\ e.key \in Keys

\* A note whose deletion the device has learned of is deleted there.
NoteSound(d, k) ==
    /\ Plain(db[d].notes[k], Written(made)) /\ Plain(db[d].base[k].doc, Written(made))
    /\ Deleted(db[d].base[k].doc) => Deleted(db[d].notes[k])

ItemSound(d, i) ==
    i.key \in Existing =>
        /\ Plain(i.read.doc, Written(made)) /\ Plain(i.doc, Written(made))
        /\ Deleted(i.read.doc) => After(db[d], i) = NoPayload

EntrySound(d, u) ==
    u.key \in Existing =>
        /\ Plain(u.doc, Written(made))
        /\ Deleted(db[d].base[u.key].doc) => Deleted(u.doc)

DeviceSound(d) ==
    /\ DOMAIN db[d].notes = Keys
    /\ \A k \in Existing : NoteSound(d, k)
    /\ \A i \in pass[d].pulled : ItemSound(d, i)
    /\ \A u \in pass[d].unsent : EntrySound(d, u)
    /\ pass[d].at # "pushing" => pass[d].unsent = {}
    /\ pass[d].todo \subseteq Keys

DocumentsInv ==
    /\ Drafts
    /\ \A k \in Existing : Plain(remote[k].doc, Written(made))
    /\ \A d \in Devices : DeviceSound(d)

\* What the device knows the provider had is at the provider and in the device's
\* own note, or accounted for.
NoteKept(d, k) ==
    LET base == db[d].base[k].doc.payload
    IN  /\ Keeps(made, Copies, k, base, remote[k].doc.payload)
        /\ Keeps(made, Copies, k, base, db[d].notes[k].payload)

ItemKept(d, i) ==
    LET read == i.read.doc.payload
        after == After(db[d], i)
    IN  i.key \in Existing =>
            /\ Keeps(made, Copies, i.key, read, remote[i.key].doc.payload)
            /\ Keeps(made, Copies \cup CopyOf(i), i.key, read, after)
            /\ Keeps(made, Copies \cup CopyOf(i), i.key, db[d].notes[i.key].payload, after)

EntryKept(d, u) ==
    u.key \in Existing =>
        Keeps(made, Copies, u.key, db[d].base[u.key].doc.payload, u.doc.payload)

DeviceKept(d) ==
    /\ \A k \in Existing : NoteKept(d, k)
    /\ \A i \in pass[d].pulled : ItemKept(d, i)
    /\ \A u \in pass[d].unsent : EntryKept(d, u)

ValueKept(e, f) ==
    \/ \E d \in Devices : Has(db[d].notes[e.key].payload, e, f)
    \/ Has(remote[e.key].doc.payload, e, f)
    \/ Accounted(made, Copies, e, f)

ExistingKept ==
    \A e \in made : e.key \in Existing => \A f \in Fields : Gives(e, f) => ValueKept(e, f)

KeptInv == ExistingKept /\ \A d \in Devices : DeviceKept(d)

-----------------------------------------------------------------------------
(* Steps that leave the notes and what the devices know *)

NotesStay ==
    /\ made' = made
    /\ \A d \in Devices : /\ db'[d].notes = db[d].notes
                          /\ db'[d].base = db[d].base
                          /\ db'[d].copies = db[d].copies

\* A pass reads nothing, and sends what it was sending or the notes as they are.
PassesGoOn ==
    \A d \in Devices :
        /\ pass'[d].pulled \subseteq pass[d].pulled
        /\ pass'[d].todo \subseteq pass[d].todo
        /\ pass'[d].at # "pushing" => pass'[d].unsent = {}
        /\ \A u \in pass'[d].unsent :
              \/ u \in pass[d].unsent
              \/ u.key \in Existing =>
                    u.doc = Document(db[d].notes[u.key], db[d].base[u.key].doc)

\* The provider's folder stays, or takes a document some pass was sending.
RemoteTakes ==
    \/ UNCHANGED remote
    \/ \E d \in Devices : \E u \in pass[d].unsent :
          /\ Precondition(d, u)
          /\ remote' = [remote EXCEPT ![u.key] = [doc |-> u.doc, version |-> clock + 1]]

\* What a push replaces is what the pushing device has as its base.
LEMMA RemoteAfter ==
    ASSUME IInv, DocumentsInv, RemoteTakes, NEW k \in Existing
    PROVE  \/ remote'[k] = remote[k]
           \/ \E d \in Devices : \E u \in pass[d].unsent :
                 /\ u.key = k /\ remote[k] = db[d].base[k] /\ remote'[k].doc = u.doc
<1>1. k \in Keys /\ k \in DOMAIN remote
  BY ReconciliationAssumption DEF IInv, Shape
<1>2. ASSUME NEW d \in Devices, NEW u \in pass[d].unsent, u.key = k, Precondition(d, u),
             remote' = [remote EXCEPT ![u.key] = [doc |-> u.doc, version |-> clock + 1]]
      PROVE  remote[k] = db[d].base[k] /\ remote'[k].doc = u.doc
  <2>1. Genuine(db[d].base[k], k)
    BY <1>1 DEF IInv, Known
  <2> QED
    BY <1>1, <1>2, <2>1 DEF Precondition, Genuine
<1>3. CASE UNCHANGED remote
  BY <1>3
<1>4. ASSUME NEW d \in Devices, NEW u \in pass[d].unsent, Precondition(d, u),
             remote' = [remote EXCEPT ![u.key] = [doc |-> u.doc, version |-> clock + 1]]
      PROVE  u.key = k \/ remote'[k] = remote[k]
  BY <1>4
<1> QED
  BY <1>2, <1>3, <1>4 DEF RemoteTakes

\* createLocalNoteSyncDocument sends the payload of the note.
LEMMA DocumentIsNote ==
    ASSUME NullIsNoDocument, NEW note, NEW parent, NEW V, Plain(note, V)
    PROVE  Plain(Document(note, parent), V) /\ Document(note, parent).payload = note.payload
  BY DEF NullIsNoDocument, Document, Plain

\* Claims, pushes, failures and deaths keep the invariant of documents and tombstones.
LEMMA FrameKeepsDocuments ==
    ASSUME NullIsNoDocument, IInv, DocumentsInv, NotesStay, PassesGoOn, RemoteTakes
    PROVE  DocumentsInv'
<1>1. Drafts'
  BY DEF DocumentsInv, Drafts, NotesStay
<1>2. ASSUME NEW k \in Existing PROVE Plain(remote'[k].doc, Written(made))
  BY <1>2, RemoteAfter DEF DocumentsInv, DeviceSound, EntrySound
<1>3. ASSUME NEW d \in Devices PROVE DeviceSound(d)'
  <2>1. DeviceSound(d)
    BY DEF DocumentsInv
  <2>2. \A k \in Existing : NoteSound(d, k)'
    BY <2>1 DEF DeviceSound, NoteSound, NotesStay
  <2>3. \A i \in pass'[d].pulled : ItemSound(d, i)'
    BY <2>1 DEF DeviceSound, ItemSound, After, NotesStay, PassesGoOn
  <2>4. ASSUME NEW u \in pass'[d].unsent PROVE EntrySound(d, u)'
    <3>1. CASE u \in pass[d].unsent
      BY <2>1, <3>1 DEF DeviceSound, EntrySound, NotesStay
    <3>2. CASE u.doc = Document(db[d].notes[u.key], db[d].base[u.key].doc)
               /\ u.key \in Existing
      <4>1. NoteSound(d, u.key)
        BY <2>1, <3>2 DEF DeviceSound
      <4>2. Plain(u.doc, Written(made)) /\ u.doc.payload = db[d].notes[u.key].payload
        BY <3>2, <4>1, DocumentIsNote DEF NoteSound
      <4> QED
        BY <4>1, <4>2 DEF EntrySound, NoteSound, NotesStay, Deleted
    <3>3. CASE u.key \notin Existing
      BY <3>3 DEF EntrySound
    <3> QED
      BY <3>1, <3>2, <3>3 DEF PassesGoOn
  <2>5. DOMAIN db'[d].notes = Keys
    BY <2>1 DEF DeviceSound, NotesStay
  <2>6. pass'[d].todo \subseteq Keys
    BY <2>1 DEF DeviceSound, PassesGoOn
  <2>7. pass'[d].at # "pushing" => pass'[d].unsent = {}
    BY DEF PassesGoOn
  <2> QED
    BY <2>2, <2>3, <2>4, <2>5, <2>6, <2>7 DEF DeviceSound
<1> QED
  BY <1>1, <1>2, <1>3 DEF DocumentsInv, NotesStay

\* ... and the invariant of values.
LEMMA FrameKeepsValues ==
    ASSUME NullIsNoDocument, IInv, DocumentsInv, KeptInv, NotesStay, PassesGoOn, RemoteTakes
    PROVE  KeptInv'
<1>1. made' = made /\ Copies' = Copies
  BY DEF NotesStay, Copies
<1>2. ASSUME NEW k \in Existing
      PROVE  Keeps(made, Copies, k, remote[k].doc.payload, remote'[k].doc.payload)
  <2>1. CASE remote'[k] = remote[k]
    BY <2>1, KeepsAll
  <2>2. ASSUME NEW d \in Devices, NEW u \in pass[d].unsent, u.key = k,
               remote[k] = db[d].base[k], remote'[k].doc = u.doc
        PROVE  Keeps(made, Copies, k, remote[k].doc.payload, remote'[k].doc.payload)
    BY <2>2 DEF KeptInv, DeviceKept, EntryKept
  <2> QED
    BY <2>1, <2>2, RemoteAfter
<1>3. ASSUME NEW d \in Devices PROVE DeviceKept(d)'
  <2>1. DeviceKept(d)
    BY DEF KeptInv
  <2>2. ASSUME NEW k \in Existing PROVE NoteKept(d, k)'
    <3>1. NoteKept(d, k) /\ db'[d].notes = db[d].notes /\ db'[d].base = db[d].base
      BY <2>1 DEF DeviceKept, NotesStay
    <3>2. Keeps(made, Copies, k, db[d].base[k].doc.payload, remote'[k].doc.payload)
      BY <1>2, <3>1, KeepsChains DEF NoteKept
    <3> QED
      BY <1>1, <3>1, <3>2 DEF NoteKept
  <2>3. ASSUME NEW i \in pass'[d].pulled PROVE ItemKept(d, i)'
    <3>1. ItemKept(d, i) /\ db'[d].notes = db[d].notes
      BY <2>1 DEF DeviceKept, PassesGoOn, NotesStay
    <3>2. After(db'[d], i) = After(db[d], i)
      BY <3>1 DEF After
    <3>3. i.key \in Existing =>
             Keeps(made, Copies, i.key, i.read.doc.payload, remote'[i.key].doc.payload)
      BY <1>2, <3>1, KeepsChains DEF ItemKept
    <3> QED
      BY <1>1, <3>1, <3>2, <3>3 DEF ItemKept
  <2>4. ASSUME NEW u \in pass'[d].unsent PROVE EntryKept(d, u)'
    <3>1. CASE u \in pass[d].unsent
      <4>1. EntryKept(d, u)
        BY <2>1, <3>1 DEF DeviceKept
      <4> QED
        BY <1>1, <4>1 DEF EntryKept, NotesStay
    <3>2. CASE u.doc = Document(db[d].notes[u.key], db[d].base[u.key].doc)
               /\ u.key \in Existing
      <4>1. NoteSound(d, u.key) /\ NoteKept(d, u.key)
        BY <2>1, <3>2 DEF DocumentsInv, DeviceSound, DeviceKept
      <4>2. u.doc.payload = db[d].notes[u.key].payload
        BY <3>2, <4>1, DocumentIsNote DEF NoteSound
      <4> QED
        BY <1>1, <4>1, <4>2 DEF EntryKept, NoteKept, NotesStay
    <3>3. CASE u.key \notin Existing
      BY <3>3 DEF EntryKept
    <3> QED
      BY <3>1, <3>2, <3>3 DEF PassesGoOn
  <2> QED
    BY <2>2, <2>3, <2>4 DEF DeviceKept
<1>4. ExistingKept'
  <2> SUFFICES ASSUME NEW e \in made, e.key \in Existing, NEW f \in Fields, Gives(e, f)
               PROVE  ValueKept(e, f)'
    BY <1>1 DEF ExistingKept
  <2>1. ValueKept(e, f)
    BY DEF KeptInv, ExistingKept
  <2>2. Has(remote[e.key].doc.payload, e, f) =>
           Has(remote'[e.key].doc.payload, e, f) \/ Accounted(made, Copies, e, f)
    BY <1>2 DEF Keeps
  <2> QED
    BY <1>1, <2>1, <2>2 DEF ValueKept, NotesStay
<1> QED
  BY <1>3, <1>4 DEF KeptInv

\* Writes to the journal leave the notes alone.
LEMMA RowsLeaveNotes ==
    ASSUME Shape, NEW d \in Devices, RowsWritten(d) \/ UNCHANGED db, UNCHANGED made
    PROVE  NotesStay
<1>1. CASE RowsWritten(d)
  <2>1. PICK rows : db' = [db EXCEPT ![d].rows = rows]
    BY <1>1 DEF RowsWritten
  <2> QED
    BY <2>1 DEF Shape, NotesStay
<1>2. CASE UNCHANGED db
  BY <1>2 DEF NotesStay
<1> QED
  BY <1>1, <1>2

\* It is enough to look at the pass of the device that moves.
LEMMA PassGoesOn ==
    ASSUME IInv, DocumentsInv, NEW d \in Devices, NEW p, pass' = [pass EXCEPT ![d] = p],
           p.pulled \subseteq pass[d].pulled, p.todo \subseteq pass[d].todo,
           p.at # "pushing" => p.unsent = {},
           \A u \in p.unsent :
              \/ u \in pass[d].unsent
              \/ u.key \in Existing =>
                    u.doc = Document(db[d].notes[u.key], db[d].base[u.key].doc)
    PROVE  PassesGoOn
<1> SUFFICES ASSUME NEW c \in Devices
             PROVE  /\ pass'[c].pulled \subseteq pass[c].pulled
                    /\ pass'[c].todo \subseteq pass[c].todo
                    /\ pass'[c].at # "pushing" => pass'[c].unsent = {}
                    /\ \A u \in pass'[c].unsent :
                          \/ u \in pass[c].unsent
                          \/ u.key \in Existing =>
                                u.doc = Document(db[c].notes[u.key], db[c].base[u.key].doc)
  BY DEF PassesGoOn
<1>1. CASE c = d
  BY <1>1 DEF IInv, Shape
<1>2. CASE c # d
  <2>1. pass'[c] = pass[c] /\ DeviceSound(c)
    BY <1>2 DEF IInv, Shape, DocumentsInv
  <2> QED
    BY <2>1 DEF DeviceSound
<1> QED
  BY <1>1, <1>2

\* A pass that ends sends nothing.
LEMMA RestingGoesOn ==
    ASSUME IInv, DocumentsInv, NEW d \in Devices, pass' = [pass EXCEPT ![d] = Resting]
    PROVE  PassesGoOn
<1>1. Resting.pulled = {} /\ Resting.unsent = {} /\ Resting.todo = {}
  BY DEF Resting
<1> QED
  BY <1>1, PassGoesOn

\* Passes that stay as they are go on.
LEMMA PassesStay ==
    ASSUME IInv, DocumentsInv, UNCHANGED pass
    PROVE  PassesGoOn
  BY DEF PassesGoOn, DocumentsInv, DeviceSound

\* claimAvailable and listClaimedDocuments leave the notes, and send them as they are.
LEMMA ClaimLeaves ==
    ASSUME IInv, DocumentsInv, NEW d \in Devices, Claim(d)
    PROVE  NotesStay /\ PassesGoOn /\ RemoteTakes
<1>1. NotesStay
  BY RowsLeaveNotes DEF Claim, RowsWritten, IInv
<1>2. PassesGoOn
  <2>1. pass[d].at = "claiming" /\ pass[d].unsent = {}
    BY DEF Claim, DocumentsInv, DeviceSound
  <2> DEFINE entries(rows, S) ==
          {[row |-> m, key |-> rows[m].key,
            doc |-> Document(db[d].notes[rows[m].key], db[d].base[rows[m].key].doc)] : m \in S}
  <2>2. PICK claimed, unsent :
          /\ \/ pass' = [pass EXCEPT ![d] = [@ EXCEPT !.at = "listing", !.phase = "verify"]]
             \/ pass' = [pass EXCEPT ![d] = [@ EXCEPT !.at = "pushing", !.claimed = claimed,
                                                      !.unsent = unsent]]
          /\ \A u \in unsent : u.doc = Document(db[d].notes[u.key], db[d].base[u.key].doc)
    <3> DEFINE swept == Outbox!SupersedeExpired(db[d].rows)
               batch == Outbox!Claimable(swept)
               rows == Outbox!ClaimRows(swept, batch, ClaimToken)
               known == {m \in batch : IsAcknowledged(db[d], rows[m])}
               claimed == batch \ known
               unsent == entries(rows, claimed)
    <3>1. \/ pass' = [pass EXCEPT ![d] = [@ EXCEPT !.at = "listing", !.phase = "verify"]]
          \/ pass' = [pass EXCEPT ![d] = [@ EXCEPT !.at = "pushing", !.claimed = claimed,
                                                   !.unsent = unsent]]
      BY DEF Claim
    <3>2. \A u \in unsent : u.doc = Document(db[d].notes[u.key], db[d].base[u.key].doc)
      OBVIOUS
    <3> HIDE DEF unsent, claimed
    <3> QED
      BY <3>1, <3>2
  <2> DEFINE listing == [pass[d] EXCEPT !.at = "listing", !.phase = "verify"]
             pushing == [pass[d] EXCEPT !.at = "pushing", !.claimed = claimed,
                                        !.unsent = unsent]
  <2>3. listing.pulled = pass[d].pulled /\ listing.unsent = {} /\ listing.todo = pass[d].todo
    BY <2>1 DEF IInv, Shape
  <2>4. /\ pushing.pulled = pass[d].pulled /\ pushing.todo = pass[d].todo
        /\ pushing.unsent = unsent /\ pushing.at = "pushing"
    BY DEF IInv, Shape
  <2>5. pass' = [pass EXCEPT ![d] = listing] \/ pass' = [pass EXCEPT ![d] = pushing]
    BY <2>2
  <2> HIDE DEF listing, pushing
  <2> QED
    BY <2>2, <2>3, <2>4, <2>5, PassGoesOn
<1> QED
  BY <1>1, <1>2 DEF Claim, RemoteTakes

\* A push, stored, refused or failing, leaves the notes.
LEMMA PushLeaves ==
    ASSUME IInv, DocumentsInv, NEW d \in Devices, NEW e \in pass[d].unsent,
           Push(d, e) \/ PushRefused(d, e) \/ PushFails(d, e)
    PROVE  NotesStay /\ PassesGoOn /\ RemoteTakes
<1>1. NotesStay
  <2>1. RowsWritten(d) \/ UNCHANGED db
    BY FailWritesRows DEF Push, PushRefused, PushFails
  <2> QED
    BY <2>1, RowsLeaveNotes DEF IInv, Push, PushRefused, PushFails
<1>2. RemoteTakes
  BY DEF RemoteTakes, Push, PushRefused, PushFails, Store
<1>3. CASE Push(d, e)
  <2> DEFINE at == IF pass[d].unsent = {e} THEN "listing" ELSE pass[d].at
             phase == IF pass[d].unsent = {e} THEN "verify" ELSE pass[d].phase
             p == [pass[d] EXCEPT !.unsent = @ \ {e}, !.sent = @ \cup {e.row},
                                  !.at = at, !.phase = phase]
  <2>1. pass' = [pass EXCEPT ![d] = p]
    BY <1>3 DEF Push, IInv, Shape
  <2>2. /\ p.at = at /\ p.unsent = pass[d].unsent \ {e}
        /\ p.pulled = pass[d].pulled /\ p.todo = pass[d].todo /\ pass[d].at = "pushing"
    BY <1>3 DEF Push, IInv, Shape
  <2>3. at # "pushing" => pass[d].unsent \ {e} = {}
    BY <2>2
  <2> HIDE DEF p, at
  <2>4. PassesGoOn
    BY <2>1, <2>2, <2>3, PassGoesOn
  <2> QED
    BY <1>1, <1>2, <2>4
<1>4. CASE pass' = [pass EXCEPT ![d] = Resting]
  BY <1>1, <1>2, <1>4, RestingGoesOn
<1>5. CASE PushRefused(d, e) /\ pass' # [pass EXCEPT ![d] = Resting]
  <2> DEFINE p == [Resting EXCEPT !.at = "listing", !.phase = "refresh",
                                  !.retries = pass[d].retries + 1]
  <2>1. pass' = [pass EXCEPT ![d] = p] /\ p.pulled = {} /\ p.unsent = {} /\ p.todo = {}
    BY <1>5 DEF PushRefused, Resting
  <2> QED
    BY <1>1, <1>2, <2>1, PassGoesOn
<1> QED
  BY <1>3, <1>4, <1>5 DEF PushFails

\* Completions, dying passes and time leave the notes.
LEMMA OthersLeave ==
    ASSUME IInv, DocumentsInv, NEW d \in Devices, Complete(d) \/ Die(d) \/ Wait(d)
    PROVE  NotesStay /\ PassesGoOn /\ RemoteTakes
<1>1. NotesStay
  <2>1. RowsWritten(d) \/ UNCHANGED db
    BY DEF Complete, Die, Wait, RowsWritten
  <2> QED
    BY <2>1, RowsLeaveNotes DEF IInv, Complete, Die, Wait
<1>2. RemoteTakes
  BY DEF RemoteTakes, Complete, Die, Wait
<1>3. CASE pass' = [pass EXCEPT ![d] = Resting]
  BY <1>1, <1>2, <1>3, RestingGoesOn
<1>4. CASE Wait(d)
  BY <1>1, <1>2, <1>4, PassesStay DEF Wait
<1>5. ASSUME NEW m, Complete(d), pass' = [pass EXCEPT ![d].sent = @ \ {m}]
      PROVE  PassesGoOn
  <2> DEFINE p == [pass[d] EXCEPT !.sent = @ \ {m}]
  <2>1. /\ pass' = [pass EXCEPT ![d] = p] /\ p.pulled = pass[d].pulled
        /\ p.todo = pass[d].todo /\ p.unsent = pass[d].unsent
    BY <1>5 DEF IInv, Shape
  <2>2. pass[d].unsent = {}
    BY <1>5 DEF Complete, DocumentsInv, DeviceSound
  <2> QED
    BY <2>1, <2>2, PassGoesOn
<1> QED
  BY <1>1, <1>2, <1>3, <1>4, <1>5 DEF Complete, Die

-----------------------------------------------------------------------------
(* The user's mutations *)

\* The device has a note of a new mutation, written over the one it had.
Mutated(d, k, new) ==
    /\ made' = made \cup {new} /\ UNCHANGED <<pass, remote>>
    /\ new.key = k /\ new.mut \in FreshIds
    /\ \A c \in Devices :
          /\ db'[c].base = db[c].base /\ db'[c].copies = db[c].copies
          /\ DOMAIN db'[c].notes = DOMAIN db[c].notes
          /\ \A j \in Keys : c # d \/ j # k => db'[c].notes[j] = db[c].notes[j]
    /\ db'[d].notes[k] = [mut |-> new.mut, payload |-> new.after]
    /\ k \in Existing =>
          /\ new.before = db[d].notes[k].payload /\ new.before # NoPayload
          /\ \/ new.after = NoPayload
             \/ \E f \in Fields : new.after = [new.before EXCEPT ![f] = new.mut]

\* One transaction replaces one note and journals it.
LEMMA CommitMutates ==
    ASSUME IInv, DocumentsInv, NEW d \in Devices, NEW k \in Keys, NEW m \in FreshIds, NEW payload,
           Commit(d, k, m, payload),
           k \in Existing =>
              /\ IsLiveNote(d, k)
              /\ \/ payload = NoPayload
                 \/ \E f \in Fields : payload = [db[d].notes[k].payload EXCEPT ![f] = m]
    PROVE  \E new : Mutated(d, k, new)
<1> DEFINE note == [mut |-> m, payload |-> payload]
           old == db[d].notes[k]
           new == [mut |-> m, key |-> k, after |-> payload,
                   before |-> IF old = NoDoc THEN Baseline.payload ELSE old.payload]
           tables == [[db[d] EXCEPT !.notes[k] = note]
                         EXCEPT !.rows = Outbox!EnqueueRows(db[d].rows, k, m, note)]
<1>1. db' = [db EXCEPT ![d] = tables]
  BY DEF Commit, IInv, Shape
<1>2. tables.base = db[d].base /\ tables.copies = db[d].copies
      /\ tables.notes = [db[d].notes EXCEPT ![k] = note]
  BY DEF IInv, Shape
<1>3. DOMAIN db[d].notes = Keys
  BY DEF DocumentsInv, DeviceSound
<1> HIDE DEF tables
<1>4. /\ db'[d] = tables /\ \A c \in Devices \ {d} : db'[c] = db[c]
  BY <1>1 DEF IInv, Shape
<1>5. \A c \in Devices :
          /\ db'[c].base = db[c].base /\ db'[c].copies = db[c].copies
          /\ DOMAIN db'[c].notes = DOMAIN db[c].notes
          /\ \A j \in Keys : c # d \/ j # k => db'[c].notes[j] = db[c].notes[j]
  BY <1>2, <1>3, <1>4
<1>6. db'[d].notes[k] = note
  BY <1>2, <1>3, <1>4
<1>7. /\ made' = made \cup {new} /\ UNCHANGED <<pass, remote>>
      /\ new.key = k /\ new.mut = m /\ new.after = payload
      /\ k \in Existing => new.before = db[d].notes[k].payload
  BY DEF Commit, IsLiveNote
<1>8. Mutated(d, k, new)
  <2> HIDE DEF new
  <2> QED
    BY <1>5, <1>6, <1>7 DEF Mutated, IsLiveNote, Deleted
<1> QED
  BY <1>8

\* Creations, edits and deletions are such mutations.
LEMMA UserMutates ==
    ASSUME IInv, DocumentsInv, NEW d \in Devices, NEW k \in Keys,
           Create(d, k) \/ Edit(d, k) \/ Delete(d, k)
    PROVE  \E new : Mutated(d, k, new)
<1>1. CASE Create(d, k)
  BY <1>1, CommitMutates DEF Create
<1>2. CASE Edit(d, k)
  BY <1>2, CommitMutates DEF Edit
<1>3. CASE Delete(d, k)
  BY <1>3, CommitMutates DEF Delete
<1> QED
  BY <1>1, <1>2, <1>3

\* The id of a new mutation is in no payload yet.
LEMMA FreshIsNew ==
    ASSUME NEW new, new.mut \in FreshIds, made' = made \cup {new}
    PROVE  /\ new.mut \notin Written(made) /\ new.mut \in 1..MaxMutations
           /\ new \notin made
           /\ Written(made') = Written(made) \cup {new.mut}
<1>1. MaxMutations \in Nat
  BY ReconciliationAssumption
<1>2. Written(made \cup {new}) = Written(made) \cup {new.mut}
  BY DEF Written
<1> QED
  BY <1>1, <1>2 DEF FreshIds, Written

\* A document stays one when there are more values.
LEMMA PlainLater ==
    ASSUME NEW doc, NEW V, NEW W, V \subseteq W, Plain(doc, V)
    PROVE  Plain(doc, W)
  BY DEF Plain

\* A mutation keeps the invariant of documents and tombstones: of a note whose
\* deletion the device knows there is no mutation.
LEMMA MutationKeepsDocuments ==
    ASSUME NullIsNoDocument, IInv, DocumentsInv, NEW d \in Devices, NEW k \in Keys,
           NEW new, Mutated(d, k, new)
    PROVE  DocumentsInv'
<1>1. /\ made' = made \cup {new} /\ UNCHANGED <<pass, remote>> /\ new.key = k
      /\ db'[d].notes[k] = [mut |-> new.mut, payload |-> new.after]
  BY DEF Mutated
<1>2. /\ new.mut \in 1..MaxMutations /\ Written(made') = Written(made) \cup {new.mut}
  BY FreshIsNew DEF Mutated
<1>3. Drafts'
  BY <1>1, <1>2 DEF DocumentsInv, Drafts
<1>4. \A doc : Plain(doc, Written(made)) => Plain(doc, Written(made'))
  BY <1>2, PlainLater
<1>5. ASSUME k \in Existing
      PROVE  /\ Plain(db'[d].notes[k], Written(made'))
             /\ ~Deleted(db[d].notes[k]) /\ ~Deleted(db[d].base[k].doc)
  <2>1. NoteSound(d, k)
    BY <1>5 DEF DocumentsInv, DeviceSound
  <2>2. /\ new.before = db[d].notes[k].payload /\ new.before # NoPayload
        /\ \/ new.after = NoPayload
           \/ \E f \in Fields : new.after = [new.before EXCEPT ![f] = new.mut]
    BY <1>5 DEF Mutated
  <2>3. new.after \in [Fields -> Written(made')] \cup {NoPayload}
    <3>1. new.before \in [Fields -> Written(made)]
      BY <2>1, <2>2 DEF NoteSound, Plain
    <3>2. new.before \in [Fields -> Written(made')] /\ new.mut \in Written(made')
      BY <1>2, <3>1
    <3>3. ASSUME NEW f \in Fields, new.after = [new.before EXCEPT ![f] = new.mut]
          PROVE  new.after \in [Fields -> Written(made')]
      BY <3>2, <3>3
    <3> QED
      BY <2>2, <3>3
  <2>4. db'[d].notes[k] # NoDoc /\ db'[d].notes[k].payload = new.after
    BY <1>1 DEF NullIsNoDocument
  <2>5. ~Deleted(db[d].notes[k]) /\ ~Deleted(db[d].base[k].doc)
    BY <2>1, <2>2 DEF NoteSound, Deleted
  <2>6. Plain(db'[d].notes[k], Written(made'))
    BY <2>3, <2>4, Zenon DEF Plain
  <2> QED
    BY <2>5, <2>6
<1>6. ASSUME NEW c \in Devices PROVE DeviceSound(c)'
  <2>1. DeviceSound(c) /\ pass'[c] = pass[c] /\ db'[c].base = db[c].base
        /\ DOMAIN db'[c].notes = Keys
    BY <1>1 DEF DocumentsInv, DeviceSound, Mutated
  <2>2. \A j \in Keys : c # d \/ j # k => db'[c].notes[j] = db[c].notes[j]
    BY DEF Mutated
  <2>3. ASSUME NEW j \in Existing PROVE NoteSound(c, j)'
    <3>1. NoteSound(c, j) /\ j \in Keys
      BY <2>1, ReconciliationAssumption DEF DeviceSound
    <3>2. CASE c # d \/ j # k
      BY <1>4, <2>1, <2>2, <3>1, <3>2 DEF NoteSound
    <3>3. CASE c = d /\ j = k
      BY <1>4, <1>5, <2>1, <3>1, <3>3 DEF NoteSound
    <3> QED
      BY <3>2, <3>3
  <2>4. ASSUME NEW i \in pass[c].pulled PROVE ItemSound(c, i)'
    <3> SUFFICES ASSUME i.key \in Existing
                 PROVE  /\ Plain(i.read.doc, Written(made')) /\ Plain(i.doc, Written(made'))
                        /\ Deleted(i.read.doc) => After(db'[c], i) = NoPayload
      BY DEF ItemSound
    <3>1. /\ Plain(i.read.doc, Written(made)) /\ Plain(i.doc, Written(made))
          /\ Deleted(i.read.doc) => After(db[c], i) = NoPayload
          /\ i.key \in Keys
      BY <2>1, ReconciliationAssumption DEF DeviceSound, ItemSound
    <3>2. CASE c # d \/ i.key # k
      BY <1>4, <2>2, <3>1, <3>2 DEF After
    <3>3. CASE c = d /\ i.key = k
      BY <1>4, <1>5, <3>1, <3>3 DEF After, Deleted
    <3> QED
      BY <3>2, <3>3
  <2>5. ASSUME NEW u \in pass[c].unsent PROVE EntrySound(c, u)'
    <3>1. EntrySound(c, u)
      BY <2>1 DEF DeviceSound
    <3> QED
      BY <1>4, <2>1, <3>1 DEF EntrySound
  <2> QED
    BY <2>1, <2>3, <2>4, <2>5 DEF DeviceSound
<1> QED
  BY <1>1, <1>3, <1>4, <1>6 DEF DocumentsInv

\* The user edits or deletes a note after the pull in progress decided about it.
EditOvertakesPull ==
    \E d \in Devices : \E i \in pass[d].pulled :
        made' # made /\ db'[d].notes[i.key] # db[d].notes[i.key]

\* A mutation that overtakes no pull keeps the invariant of values.
LEMMA MutationKeepsValues ==
    ASSUME NullIsNoDocument, IInv, DocumentsInv, KeptInv, ~EditOvertakesPull,
           NEW d \in Devices, NEW k \in Keys, NEW new, Mutated(d, k, new)
    PROVE  KeptInv'
<1>1. /\ made' = made \cup {new} /\ UNCHANGED <<pass, remote>> /\ new.key = k
      /\ db'[d].notes[k] = [mut |-> new.mut, payload |-> new.after]
      /\ Copies' = Copies
  BY DEF Mutated, Copies
<1>2. new.mut \notin Written(made) /\ made' # made
  BY FreshIsNew DEF Mutated
<1>3. ASSUME NEW C, NEW j, NEW p, NEW q, p \in Versions(made), Keeps(made, C, j, p, q)
      PROVE  Keeps(made', C, j, p, q)
  <2>1. \A e \in made' \ made : e.mut \notin Written(made)
    BY <1>1, <1>2
  <2> QED
    BY <1>1, <1>3, <2>1, KeepsLater
<1>4. ASSUME NEW doc, Plain(doc, Written(made)) PROVE doc.payload \in Versions(made)
  BY <1>4 DEF Plain, Versions
<1>5. ASSUME NEW c \in Devices, NEW j \in Existing
      PROVE  Keeps(made', Copies, j, db[c].notes[j].payload, db'[c].notes[j].payload)
  <2>1. j \in Keys
    BY ReconciliationAssumption
  <2>2. CASE c # d \/ j # k
    <3>1. db'[c].notes[j] = db[c].notes[j]
      BY <2>1, <2>2 DEF Mutated
    <3> QED
      BY <3>1, KeepsAll
  <2>3. CASE c = d /\ j = k
    <3>1. /\ new.before = db[d].notes[k].payload /\ new.before # NoPayload
          /\ \/ new.after = NoPayload
             \/ \E f \in Fields : new.after = [new.before EXCEPT ![f] = new.mut]
      BY <2>3 DEF Mutated
    <3>2. db[d].notes[k].payload \in Versions(made)
      BY <1>4, <2>3 DEF DocumentsInv, DeviceSound, NoteSound
    <3>3. Keeps(made \cup {new}, Copies, new.key, db[d].notes[k].payload, new.after)
      BY <1>2, <3>1, <3>2, MutationsAreKnown
    <3> QED
      BY <1>1, <2>3, <3>3
  <2> QED
    BY <2>2, <2>3
<1>6. ASSUME NEW c \in Devices PROVE DeviceKept(c)'
  <2>1. DeviceKept(c) /\ DeviceSound(c) /\ pass'[c] = pass[c] /\ db'[c].base = db[c].base
    BY <1>1 DEF KeptInv, DocumentsInv, Mutated
  <2>2. ASSUME NEW j \in Existing PROVE NoteKept(c, j)'
    <3>1. NoteKept(c, j) /\ NoteSound(c, j)
      BY <2>1 DEF DeviceKept, DeviceSound
    <3> DEFINE base == db[c].base[j].doc.payload
    <3>2. base \in Versions(made)
      BY <1>4, <3>1 DEF NoteSound
    <3>3. /\ Keeps(made', Copies, j, base, remote[j].doc.payload)
          /\ Keeps(made', Copies, j, base, db[c].notes[j].payload)
      BY <1>3, <3>1, <3>2 DEF NoteKept
    <3>4. Keeps(made', Copies, j, base, db'[c].notes[j].payload)
      BY <1>5, <3>3, KeepsChains
    <3> QED
      BY <1>1, <2>1, <3>3, <3>4 DEF NoteKept
  <2>3. ASSUME NEW i \in pass[c].pulled PROVE ItemKept(c, i)'
    <3> SUFFICES ASSUME i.key \in Existing PROVE ItemKept(c, i)'
      BY DEF ItemKept
    <3>1. db'[c].notes[i.key] = db[c].notes[i.key]
      BY <1>2 DEF EditOvertakesPull
    <3>2. After(db'[c], i) = After(db[c], i)
      BY <3>1 DEF After
    <3>3. i.read.doc.payload \in Versions(made) /\ db[c].notes[i.key].payload \in Versions(made)
      BY <1>4, <2>1 DEF DeviceSound, ItemSound, NoteSound
    <3>4. ItemKept(c, i)
      BY <2>1 DEF DeviceKept
    <3>5. /\ Keeps(made', Copies, i.key, i.read.doc.payload, remote[i.key].doc.payload)
          /\ Keeps(made', Copies \cup CopyOf(i), i.key, i.read.doc.payload, After(db[c], i))
          /\ Keeps(made', Copies \cup CopyOf(i), i.key, db[c].notes[i.key].payload,
                   After(db[c], i))
      BY <1>3, <3>3, <3>4 DEF ItemKept
    <3> QED
      BY <1>1, <3>1, <3>2, <3>5 DEF ItemKept
  <2>4. ASSUME NEW u \in pass[c].unsent PROVE EntryKept(c, u)'
    <3> SUFFICES ASSUME u.key \in Existing PROVE EntryKept(c, u)'
      BY DEF EntryKept
    <3>1. EntryKept(c, u) /\ NoteSound(c, u.key)
      BY <2>1 DEF DeviceKept, DeviceSound
    <3>2. db[c].base[u.key].doc.payload \in Versions(made)
      BY <1>4, <3>1 DEF NoteSound
    <3> QED
      BY <1>1, <1>3, <2>1, <3>1, <3>2 DEF EntryKept
  <2> QED
    BY <2>1, <2>2, <2>3, <2>4 DEF DeviceKept
<1>7. ExistingKept'
  <2> SUFFICES ASSUME NEW e \in made', e.key \in Existing, NEW f \in Fields, Gives(e, f)
               PROVE  ValueKept(e, f)'
    BY DEF ExistingKept
  <2>1. CASE e \in made
    <3>1. ValueKept(e, f)
      BY <2>1 DEF KeptInv, ExistingKept
    <3>2. Accounted(made, Copies, e, f) => Accounted(made', Copies, e, f)
      BY <1>1 DEF Accounted
    <3>3. \A c \in Devices : Has(db[c].notes[e.key].payload, e, f) =>
             Has(db'[c].notes[e.key].payload, e, f) \/ Accounted(made', Copies, e, f)
      BY <1>5 DEF Keeps
    <3> QED
      BY <1>1, <3>1, <3>2, <3>3 DEF ValueKept
  <2>2. CASE e = new
    <3>1. Has(db'[d].notes[e.key].payload, e, f)
      BY <1>1, <2>2 DEF Has, Gives
    <3> QED
      BY <3>1 DEF ValueKept
  <2> QED
    BY <1>1, <2>1, <2>2
<1> QED
  BY <1>6, <1>7 DEF KeptInv

-----------------------------------------------------------------------------
(* Pulls *)

\* applyPull gives every key read the decided note and the document read as base.
LEMMA ApplyPullTakes ==
    ASSUME NEW D, DOMAIN D = {"notes", "base", "rows", "cursor", "copies"},
           NEW items, NEW cursor
    PROVE  LET after == ApplyPull(D, items, cursor)
           IN  /\ DOMAIN after.notes = Keys
               /\ after.copies = D.copies \cup UNION {CopyOf(i) : i \in items}
               /\ \A k \in Keys :
                     \/ \E i \in items : /\ i.key = k /\ after.base[k] = i.read
                                         /\ after.notes[k] = NoteAfter(D, i)
                     \/ after.base[k] = D.base[k] /\ after.notes[k] = D.notes[k]
<1> DEFINE pulled == {i.key : i \in items}
           Of(k) == CHOOSE i \in items : i.key = k
           after == ApplyPull(D, items, cursor)
<1>1. \A k \in pulled : Of(k) \in items /\ Of(k).key = k
  OBVIOUS
<1>2. /\ after.notes = [k \in Keys |-> IF k \in pulled THEN NoteAfter(D, Of(k)) ELSE D.notes[k]]
      /\ after.base = [k \in Keys |-> IF k \in pulled THEN Of(k).read ELSE D.base[k]]
      /\ after.copies = D.copies \cup UNION {CopyOf(i) : i \in items}
  BY DEF ApplyPull
<1> HIDE DEF after, Of
<1>3. ASSUME NEW k \in Keys
      PROVE  \/ \E i \in items : /\ i.key = k /\ after.base[k] = i.read
                                 /\ after.notes[k] = NoteAfter(D, i)
             \/ after.base[k] = D.base[k] /\ after.notes[k] = D.notes[k]
  <2>1. CASE k \in pulled
    BY <1>1, <1>2, <2>1
  <2>2. CASE k \notin pulled
    BY <1>2, <2>2
  <2> QED
    BY <2>1, <2>2
<1> QED
  BY <1>2, <1>3 DEF after

\* The note an applied item leaves has the payload that was decided.
LEMMA NoteAfterApplies ==
    ASSUME NullIsNoDocument, NEW d \in Devices, NEW i, i.key \in Existing,
           DeviceSound(d), ItemSound(d, i)
    PROVE  /\ Plain(NoteAfter(db[d], i), Written(made))
           /\ NoteAfter(db[d], i).payload = After(db[d], i)
<1>1. Plain(db[d].notes[i.key], Written(made)) /\ Plain(i.doc, Written(made))
  BY DEF DeviceSound, NoteSound, ItemSound
<1>2. CASE i.apply
  <2>1. NoteAfter(db[d], i) = [mut |-> i.doc.mut, payload |-> i.doc.payload]
    BY <1>1, <1>2 DEF NoteAfter, Plain, Content
  <2> QED
    BY <1>1, <1>2, <2>1 DEF Plain, After, NullIsNoDocument
<1>3. CASE ~i.apply
  <2>1. NoteAfter(db[d], i) = db[d].notes[i.key]
    BY <1>3 DEF NoteAfter
  <2> QED
    BY <1>1, <1>3, <2>1 DEF After
<1> QED
  BY <1>2, <1>3

\* A pass as it may be between two reads.
Reads(d, p) ==
    /\ DOMAIN p = DOMAIN pass[d] /\ p.phase \in Phases
    /\ p.at = "reading" /\ p.unsent = {} /\ p.todo \subseteq Keys
    /\ \A i \in p.pulled : ItemSound(d, i)

\* applyPull, for the device d with the items p has read.
Applied(d, p) ==
    /\ \A c \in Devices \ {d} : db'[c] = db[c] /\ pass'[c] = pass[c]
    /\ pass'[d].pulled = {} /\ pass'[d].unsent = {} /\ pass'[d].todo = {}
    /\ DOMAIN db'[d].notes = Keys
    /\ db'[d].copies = db[d].copies \cup UNION {CopyOf(i) : i \in p.pulled}
    /\ \A k \in Keys :
          \/ \E i \in p.pulled : /\ i.key = k /\ db'[d].base[k] = i.read
                                 /\ db'[d].notes[k] = NoteAfter(db[d], i)
          \/ db'[d].base[k] = db[d].base[k] /\ db'[d].notes[k] = db[d].notes[k]

\* A pull is rejected, goes on reading, or is applied.
LEMMA ContinueTakes ==
    ASSUME IInv, NEW d \in Devices, NEW p, Reads(d, p), Continue(d, p)
    PROVE  \/ pass' = [pass EXCEPT ![d] = Resting] /\ UNCHANGED db
           \/ pass' = [pass EXCEPT ![d] = p] /\ p.todo # {} /\ UNCHANGED db
           \/ Applied(d, p)
<1>1. CASE /\ p.todo = {}
           /\ db' = [db EXCEPT ![d] = ApplyPull(@, p.pulled, p.cursor)]
           /\ pass' = [pass EXCEPT ![d] = AfterPull(p)]
  <2> DEFINE after == ApplyPull(db[d], p.pulled, p.cursor)
             next == AfterPull(p)
  <2>1. /\ DOMAIN after.notes = Keys
        /\ after.copies = db[d].copies \cup UNION {CopyOf(i) : i \in p.pulled}
        /\ \A k \in Keys :
              \/ \E i \in p.pulled : /\ i.key = k /\ after.base[k] = i.read
                                     /\ after.notes[k] = NoteAfter(db[d], i)
              \/ after.base[k] = db[d].base[k] /\ after.notes[k] = db[d].notes[k]
    <3>1. DOMAIN db[d] = {"notes", "base", "rows", "cursor", "copies"}
      BY DEF IInv, Shape
    <3> QED
      BY <3>1, ApplyPullTakes
  <2>2. next.pulled = {} /\ next.unsent = {} /\ next.todo = {}
    <3>1. {"pulled", "unsent", "todo"} \subseteq DOMAIN p /\ p.phase \in Phases
      BY DEF Reads, IInv, Shape
    <3> QED
      BY <1>1, <3>1 DEF AfterPull, Reads, Phases
  <2> HIDE DEF after, next
  <2>3. /\ db'[d] = after /\ pass'[d] = next
        /\ \A c \in Devices \ {d} : db'[c] = db[c] /\ pass'[c] = pass[c]
    BY <1>1 DEF IInv, Shape, after, next
  <2> QED
    BY <2>1, <2>2, <2>3 DEF Applied
<1> QED
  BY <1>1 DEF Continue, FinishPull

\* applyPull keeps the invariant of documents and tombstones.
LEMMA AppliedKeepsDocuments ==
    ASSUME NullIsNoDocument, IInv, DocumentsInv, UNCHANGED <<remote, made>>,
           NEW d \in Devices, NEW p, Reads(d, p), Applied(d, p)
    PROVE  DocumentsInv'
<1>1. ASSUME NEW c \in Devices PROVE DeviceSound(c)'
  <2>1. DeviceSound(c)
    BY DEF DocumentsInv
  <2>2. CASE c # d
    <3>1. db'[c] = db[c] /\ pass'[c] = pass[c]
      BY <2>2 DEF Applied
    <3> QED
      BY <2>1, <3>1 DEF DeviceSound, NoteSound, ItemSound, EntrySound, After
  <2>3. CASE c = d
    <3>1. ASSUME NEW k \in Existing PROVE NoteSound(d, k)'
      <4>1. k \in Keys /\ NoteSound(d, k)
        BY <2>1, <2>3, ReconciliationAssumption DEF DeviceSound
      <4>2. ASSUME NEW i \in p.pulled, i.key = k, db'[d].base[k] = i.read,
                   db'[d].notes[k] = NoteAfter(db[d], i)
            PROVE  NoteSound(d, k)'
        <5>1. ItemSound(d, i)
          BY DEF Reads
        <5>2. /\ Plain(db'[d].notes[k], Written(made))
              /\ db'[d].notes[k].payload = After(db[d], i)
          BY <2>1, <2>3, <4>2, <5>1, NoteAfterApplies
        <5> QED
          BY <4>2, <5>1, <5>2 DEF NoteSound, ItemSound, Deleted
      <4>3. CASE db'[d].base[k] = db[d].base[k] /\ db'[d].notes[k] = db[d].notes[k]
        BY <4>1, <4>3 DEF NoteSound
      <4> QED
        BY <4>1, <4>2, <4>3 DEF Applied
    <3> QED
      BY <2>3, <3>1 DEF DeviceSound, Applied
  <2> QED
    BY <2>2, <2>3
<1> QED
  BY <1>1 DEF DocumentsInv, Drafts

\* So does a pull that goes on.
LEMMA ContinueKeepsDocuments ==
    ASSUME NullIsNoDocument, IInv, DocumentsInv, UNCHANGED <<remote, made>>,
           NEW d \in Devices, NEW p, Reads(d, p), Continue(d, p)
    PROVE  DocumentsInv'
<1>1. CASE pass' = [pass EXCEPT ![d] = Resting] /\ UNCHANGED db
  BY <1>1, RestingGoesOn, FrameKeepsDocuments DEF NotesStay, RemoteTakes
<1>2. CASE pass' = [pass EXCEPT ![d] = p] /\ UNCHANGED db
  <2>1. ASSUME NEW c \in Devices PROVE DeviceSound(c)'
    <3>1. DeviceSound(c)
      BY DEF DocumentsInv
    <3>2. CASE c # d
      BY <1>2, <3>1, <3>2 DEF IInv, Shape, DeviceSound, NoteSound, ItemSound, EntrySound, After
    <3>3. CASE c = d
      <4>1. pass'[d] = p
        BY <1>2 DEF IInv, Shape
      <4> QED
        BY <1>2, <3>1, <3>3, <4>1 DEF Reads, DeviceSound, NoteSound, ItemSound, After
    <3> QED
      BY <3>2, <3>3
  <2> QED
    BY <2>1 DEF DocumentsInv, Drafts
<1>3. CASE Applied(d, p)
  BY <1>3, AppliedKeepsDocuments
<1> QED
  BY <1>1, <1>2, <1>3, ContinueTakes

\* With more conflict copies no less is kept.
LEMMA MoreCopies ==
    ASSUME NEW M, NEW C, NEW L, NEW k, NEW p, NEW q, C \subseteq L, Keeps(M, C, k, p, q)
    PROVE  Keeps(M, L, k, p, q)
  BY DEF Keeps, Accounted

\* applyPull keeps the invariant of values: what it overwrites it has merged.
LEMMA AppliedKeepsValues ==
    ASSUME NullIsNoDocument, IInv, DocumentsInv, KeptInv, UNCHANGED <<remote, made>>,
           NEW d \in Devices, NEW p, Reads(d, p), \A i \in p.pulled : ItemKept(d, i),
           Applied(d, p)
    PROVE  KeptInv'
<1>1. Copies \subseteq Copies' /\ \A i \in p.pulled : Copies \cup CopyOf(i) \subseteq Copies'
  <2>1. \A c \in Devices : db[c].copies \subseteq db'[c].copies
    BY DEF Applied
  <2>2. \A i \in p.pulled : CopyOf(i) \subseteq db'[d].copies
    BY DEF Applied
  <2> QED
    BY <2>1, <2>2 DEF Copies
<1>2. \A k, v, w : Keeps(made, Copies, k, v, w) => Keeps(made, Copies', k, v, w)
  BY <1>1, MoreCopies
<1>3. ASSUME NEW i \in p.pulled, i.key \in Existing
      PROVE  /\ Keeps(made, Copies', i.key, i.read.doc.payload, remote[i.key].doc.payload)
             /\ Keeps(made, Copies', i.key, i.read.doc.payload, After(db[d], i))
             /\ Keeps(made, Copies', i.key, db[d].notes[i.key].payload, After(db[d], i))
             /\ NoteAfter(db[d], i).payload = After(db[d], i)
  <2>1. ItemKept(d, i) /\ ItemSound(d, i) /\ DeviceSound(d)
    BY DEF Reads, DocumentsInv
  <2>2. NoteAfter(db[d], i).payload = After(db[d], i)
    BY <1>3, <2>1, NoteAfterApplies
  <2> QED
    BY <1>1, <1>2, <1>3, <2>1, <2>2, MoreCopies DEF ItemKept
<1>4. ASSUME NEW k \in Existing
      PROVE  NoteKept(d, k)'
             /\ Keeps(made, Copies', k, db[d].notes[k].payload, db'[d].notes[k].payload)
  <2>1. k \in Keys /\ NoteKept(d, k)
    BY ReconciliationAssumption DEF KeptInv, DeviceKept
  <2>2. ASSUME NEW i \in p.pulled, i.key = k, db'[d].base[k] = i.read,
               db'[d].notes[k] = NoteAfter(db[d], i)
        PROVE  NoteKept(d, k)'
               /\ Keeps(made, Copies', k, db[d].notes[k].payload, db'[d].notes[k].payload)
    BY <1>3, <2>2 DEF NoteKept
  <2>3. CASE db'[d].base[k] = db[d].base[k] /\ db'[d].notes[k] = db[d].notes[k]
    BY <1>2, <2>1, <2>3, KeepsAll DEF NoteKept
  <2> QED
    BY <2>1, <2>2, <2>3 DEF Applied
<1>5. ASSUME NEW c \in Devices PROVE DeviceKept(c)'
  <2>1. DeviceKept(c)
    BY DEF KeptInv
  <2>2. CASE c # d
    <3>1. db'[c] = db[c] /\ pass'[c] = pass[c]
      BY <2>2 DEF Applied
    <3>2. \A k \in Existing : NoteKept(c, k)'
      BY <1>2, <2>1, <3>1 DEF DeviceKept, NoteKept
    <3>3. ASSUME NEW i \in pass[c].pulled PROVE ItemKept(c, i)'
      <4>1. ItemKept(c, i) /\ Copies \cup CopyOf(i) \subseteq Copies' \cup CopyOf(i)
        BY <1>1, <2>1 DEF DeviceKept
      <4>2. \A k, v, w : Keeps(made, Copies \cup CopyOf(i), k, v, w)
                           => Keeps(made, Copies' \cup CopyOf(i), k, v, w)
        BY <4>1, MoreCopies
      <4> QED
        BY <1>2, <3>1, <4>1, <4>2 DEF ItemKept
    <3>4. \A u \in pass[c].unsent : EntryKept(c, u)'
      BY <1>2, <2>1, <3>1 DEF DeviceKept, EntryKept
    <3> QED
      BY <3>1, <3>2, <3>3, <3>4 DEF DeviceKept
  <2>3. CASE c = d
    BY <1>4, <2>3 DEF DeviceKept, Applied
  <2> QED
    BY <2>2, <2>3
<1>6. ExistingKept'
  <2> SUFFICES ASSUME NEW e \in made, e.key \in Existing, NEW f \in Fields, Gives(e, f)
               PROVE  ValueKept(e, f)'
    BY DEF ExistingKept
  <2>1. ValueKept(e, f)
    BY DEF KeptInv, ExistingKept
  <2>2. Accounted(made, Copies, e, f) => Accounted(made, Copies', e, f)
    BY <1>1 DEF Accounted
  <2>3. Has(db[d].notes[e.key].payload, e, f) =>
           Has(db'[d].notes[e.key].payload, e, f) \/ Accounted(made, Copies', e, f)
    BY <1>4 DEF Keeps
  <2>4. \A c \in Devices \ {d} : db'[c] = db[c]
    BY DEF Applied
  <2> QED
    BY <2>1, <2>2, <2>3, <2>4 DEF ValueKept
<1> QED
  BY <1>5, <1>6 DEF KeptInv

\* So does a pull that goes on.
LEMMA ContinueKeepsValues ==
    ASSUME NullIsNoDocument, IInv, DocumentsInv, KeptInv, UNCHANGED <<remote, made>>,
           NEW d \in Devices, NEW p, Reads(d, p), \A i \in p.pulled : ItemKept(d, i),
           Continue(d, p)
    PROVE  KeptInv'
<1>1. CASE pass' = [pass EXCEPT ![d] = Resting] /\ UNCHANGED db
  BY <1>1, RestingGoesOn, FrameKeepsValues DEF NotesStay, RemoteTakes
<1>2. CASE pass' = [pass EXCEPT ![d] = p] /\ UNCHANGED db
  <2>1. Copies' = Copies
    BY <1>2 DEF Copies
  <2>2. ASSUME NEW c \in Devices PROVE DeviceKept(c)'
    <3>1. DeviceKept(c)
      BY DEF KeptInv
    <3>2. CASE c # d
      <4>1. pass'[c] = pass[c] /\ db' = db
        BY <1>2, <3>2 DEF IInv, Shape
      <4> QED
        BY <2>1, <3>1, <4>1 DEF DeviceKept, NoteKept, ItemKept, EntryKept, After
    <3>3. CASE c = d
      <4>1. pass'[d] = p
        BY <1>2 DEF IInv, Shape
      <4> QED
        BY <1>2, <2>1, <3>1, <3>3, <4>1 DEF Reads, DeviceKept, NoteKept, ItemKept, After
    <3> QED
      BY <3>2, <3>3
  <2>3. ExistingKept'
    BY <1>2, <2>1 DEF KeptInv, ExistingKept, ValueKept
  <2> QED
    BY <2>2, <2>3 DEF KeptInv
<1>3. CASE Applied(d, p)
  BY <1>3, AppliedKeepsValues
<1> QED
  BY <1>1, <1>2, <1>3, ContinueTakes

\* A pull begins with nothing read, and each document is decided about with what
\* the device and the provider have.
LEMMA PullReads ==
    ASSUME NullIsNoDocument, IInv, DocumentsInv, NEW d \in Devices,
           List(d) \/ \E k \in Keys : Read(d, k)
    PROVE  /\ UNCHANGED <<remote, made>>
           /\ \E p : /\ Reads(d, p) /\ Continue(d, p)
                     /\ KeptInv => \A i \in p.pulled : ItemKept(d, i)
<1>1. DeviceSound(d) /\ pass[d].phase \in Phases
  BY DEF DocumentsInv, IInv, Shape
<1>2. CASE List(d)
  <2>1. PICK listed \in SUBSET Keys :
          Continue(d, [pass[d] EXCEPT !.at = "reading", !.todo = listed, !.cursor = clock])
    BY <1>2 DEF List
  <2> DEFINE p == [pass[d] EXCEPT !.at = "reading", !.todo = listed, !.cursor = clock]
  <2>2. pass[d].pulled = {} /\ pass[d].unsent = {}
    BY <1>1, <1>2 DEF List, IInv, Pulled, DeviceSound
  <2>3. /\ DOMAIN p = DOMAIN pass[d] /\ p.phase \in Phases
        /\ p.at = "reading" /\ p.unsent = {} /\ p.pulled = {} /\ p.todo = listed
    BY <1>1, <2>2 DEF IInv, Shape
  <2>4. Continue(d, p) /\ listed \subseteq Keys
    BY <2>1
  <2> HIDE DEF p
  <2> QED
    BY <1>2, <2>3, <2>4 DEF Reads, List
<1>3. ASSUME NEW k \in Keys, Read(d, k)
      PROVE  \E p : /\ Reads(d, p) /\ Continue(d, p)
                    /\ KeptInv => \A i \in p.pulled : ItemKept(d, i)
  <2> DEFINE local == Document(db[d].notes[k], ParentOf(db[d].base[k].doc))
             acknowledging == pass[d].phase # "verify"
  <2>1. PICK w \in BOOLEAN :
          Continue(d, [pass[d] EXCEPT !.todo = @ \ {k},
                          !.pulled = @ \cup {Decide(db[d], k, remote[k], acknowledging, w)}])
    BY <1>3 DEF Read, LocalMayWin
  <2> DEFINE new == Decide(db[d], k, remote[k], acknowledging, w)
             p == [pass[d] EXCEPT !.todo = @ \ {k}, !.pulled = @ \cup {new}]
  <2>2. new.key = k /\ new.read = remote[k]
    BY DecideReads
  <2>3. ASSUME k \in Existing
        PROVE  /\ Plain(new.doc, Written(made))
               /\ Deleted(remote[k].doc) => After(db[d], new) = NoPayload
               /\ Accounts(db[d], new, db[d].notes[k].payload, db[d].base[k].doc.payload,
                           remote[k].doc.payload)
               /\ Accounts(db[d], new, remote[k].doc.payload, db[d].base[k].doc.payload,
                           db[d].notes[k].payload)
    <3>1. NoPayload \notin [Fields -> Written(made)]
      <4>1. Written(made) \subseteq 0..MaxMutations
        BY ReconciliationAssumption DEF DocumentsInv, Drafts, Written
      <4>2. [Fields -> Written(made)] \subseteq [Fields -> 0..MaxMutations]
        BY <4>1
      <4> QED
        BY <4>2, ReconciliationAssumption
    <3>2. NoteSound(d, k) /\ Plain(remote[k].doc, Written(made))
      BY <1>1, <2>3 DEF DeviceSound, DocumentsInv
    <3> HIDE DEF new, acknowledging
    <3> QED
      BY <3>1, <3>2, DecideKeeps DEF NoteSound, new
  <2>4. Continue(d, p)
    BY <2>1
  <2> HIDE DEF new
  <2>5. ItemSound(d, new)
    BY <2>2, <2>3 DEF ItemSound, DocumentsInv
  <2>6. ASSUME KeptInv PROVE ItemKept(d, new)
    <3> SUFFICES ASSUME k \in Existing PROVE ItemKept(d, new)
      BY <2>2 DEF ItemKept
    <3>1. NoteKept(d, k)
      BY <2>6 DEF KeptInv, DeviceKept
    <3> DEFINE base == db[d].base[k].doc.payload
               note == db[d].notes[k].payload
               read == remote[k].doc.payload
    <3>2. Keeps(made, Copies \cup CopyOf(new), k, note, After(db[d], new))
      BY <2>2, <2>3, <3>1, DecideAccounts DEF NoteKept
    <3>3. Keeps(made, Copies \cup CopyOf(new), k, read, After(db[d], new))
      BY <2>2, <2>3, <3>1, DecideAccounts DEF NoteKept
    <3> QED
      BY <2>2, <3>2, <3>3, KeepsAll DEF ItemKept
  <2>7. /\ pass[d].at = "reading" /\ pass[d].unsent = {} /\ pass[d].todo \subseteq Keys
        /\ \A i \in pass[d].pulled : ItemSound(d, i)
        /\ KeptInv => \A i \in pass[d].pulled : ItemKept(d, i)
    BY <1>1, <1>3 DEF Read, DeviceSound, KeptInv, DeviceKept
  <2>8. /\ DOMAIN p = DOMAIN pass[d] /\ p.phase \in Phases /\ p.at = "reading"
        /\ p.unsent = {} /\ p.pulled = pass[d].pulled \cup {new} /\ p.todo \subseteq Keys
    BY <1>1, <2>7 DEF IInv, Shape
  <2> HIDE DEF p
  <2>9. Reads(d, p)
    BY <2>5, <2>7, <2>8 DEF Reads
  <2>10. KeptInv => \A i \in p.pulled : ItemKept(d, i)
    BY <2>6, <2>7, <2>8
  <2> QED
    BY <2>4, <2>9, <2>10
<1> QED
  BY <1>2, <1>3 DEF List, Read

-----------------------------------------------------------------------------
(* Every behaviour *)

\* At first no one has written anything.
LEMMA InitHasDocuments ==
    ASSUME NullIsNoDocument, Init
    PROVE  DocumentsInv /\ KeptInv
<1>1. made = {} /\ MaxMutations \in Nat
  BY ReconciliationAssumption DEF Init
<1>2. Plain(Baseline, Written(made)) /\ Plain(Content(Baseline), Written(made))
      /\ ~Deleted(Baseline) /\ ~Deleted(Content(Baseline))
  <2>1. Baseline.payload \in [Fields -> Written(made)]
        /\ Baseline.payload \in [Fields -> 0..MaxMutations]
    BY <1>1 DEF Baseline, Written
  <2>2. Baseline # NoDoc /\ Content(Baseline) # NoDoc
    BY DEF Baseline, Content, NullIsNoDocument
  <2>3. Content(Baseline).payload = Baseline.payload
    BY DEF Content
  <2> QED
    BY <2>1, <2>2, <2>3, ReconciliationAssumption DEF Plain, Deleted
<1>3. ASSUME NEW k \in Existing
      PROVE  /\ remote[k].doc = Baseline
             /\ \A d \in Devices : /\ db[d].notes[k] = Content(Baseline)
                                   /\ db[d].base[k].doc = Baseline
  BY ReconciliationAssumption DEF Init, Start
<1>4. ASSUME NEW d \in Devices
      PROVE  /\ pass[d].pulled = {} /\ pass[d].unsent = {} /\ pass[d].todo = {}
             /\ DOMAIN db[d].notes = Keys
  BY DEF Init, Resting
<1>5. DocumentsInv
  BY <1>1, <1>2, <1>3, <1>4 DEF DocumentsInv, Drafts, DeviceSound, NoteSound
<1>6. KeptInv
  <2>1. \A C, k, p, q : Keeps(made, C, k, p, q)
    BY <1>1 DEF Keeps
  <2>2. \A d \in Devices : DeviceKept(d)
    BY <1>4, <2>1 DEF DeviceKept, NoteKept
  <2> QED
    BY <1>1, <2>2 DEF KeptInv, ExistingKept
<1> QED
  BY <1>5, <1>6

\* A step is a mutation of the user's, a pull that goes on, or leaves the notes.
LEMMA StepIsOneOf ==
    ASSUME NullIsNoDocument, IInv, DocumentsInv, [Next]_vars
    PROVE  \/ \E d \in Devices, k \in Keys : \E new : Mutated(d, k, new)
           \/ /\ UNCHANGED <<remote, made>>
              /\ \E d \in Devices : \E p :
                    /\ Reads(d, p) /\ Continue(d, p)
                    /\ KeptInv => \A i \in p.pulled : ItemKept(d, i)
           \/ NotesStay /\ PassesGoOn /\ RemoteTakes
<1>1. CASE UNCHANGED vars
  BY <1>1, PassesStay DEF vars, NotesStay, RemoteTakes
<1>2. CASE Next
  <2>1. PICK d \in Devices :
          \/ \E k \in Keys : Create(d, k) \/ Edit(d, k) \/ Delete(d, k)
          \/ Step(d) \/ Die(d) \/ Wait(d)
          \/ \E e \in pass[d].unsent : PushFails(d, e)
    BY <1>2 DEF Next
  <2>2. CASE \E k \in Keys : Create(d, k) \/ Edit(d, k) \/ Delete(d, k)
    BY <2>2, UserMutates
  <2>3. CASE List(d) \/ \E k \in Keys : Read(d, k)
    BY <2>3, PullReads
  <2>4. CASE Claim(d)
    BY <2>4, ClaimLeaves
  <2>5. CASE \E e \in pass[d].unsent : Push(d, e) \/ PushRefused(d, e) \/ PushFails(d, e)
    BY <2>5, PushLeaves
  <2>6. CASE Complete(d) \/ Die(d) \/ Wait(d)
    BY <2>6, OthersLeave
  <2> QED
    BY <2>1, <2>2, <2>3, <2>4, <2>5, <2>6 DEF Step
<1> QED
  BY <1>1, <1>2

\* Every step keeps the invariant of documents and tombstones.
LEMMA NextKeepsDocuments ==
    ASSUME NullIsNoDocument, IInv, DocumentsInv, [Next]_vars
    PROVE  DocumentsInv'
  BY StepIsOneOf, MutationKeepsDocuments, ContinueKeepsDocuments, FrameKeepsDocuments

\* Every step that overtakes no pull keeps the invariant of values.
LEMMA NextKeepsValues ==
    ASSUME NullIsNoDocument, IInv, DocumentsInv, KeptInv, ~EditOvertakesPull, [Next]_vars
    PROVE  KeptInv'
  BY StepIsOneOf, MutationKeepsValues, ContinueKeepsValues, FrameKeepsValues

\* The invariant of values says of existing notes what NothingLost says.
LEMMA KeptIsNotLost ==
    ASSUME NullIsNoDocument, Existing = Keys, DocumentsInv, KeptInv
    PROVE  NothingLost
<1> SUFFICES ASSUME NEW e \in made, e.after # NoPayload, NEW f \in Fields, e.after[f] = e.mut
             PROVE  Preserved(e, f)
  BY DEF NothingLost
<1>1. e.key \in Existing /\ ValueKept(e, f)
  BY DEF KeptInv, ExistingKept, Gives, DocumentsInv, Drafts
<1>2. ASSUME NEW d \in Devices, Has(db[d].notes[e.key].payload, e, f)
      PROVE  Preserved(e, f)
  <2>1. Plain(db[d].notes[e.key], Written(made))
    BY <1>1 DEF DocumentsInv, DeviceSound, NoteSound
  <2> QED
    BY <1>2, <2>1 DEF Preserved, Has, Plain, Deleted
<1>3. CASE Has(remote[e.key].doc.payload, e, f)
  <2>1. Plain(remote[e.key].doc, Written(made))
    BY <1>1 DEF DocumentsInv
  <2> QED
    BY <1>3, <2>1 DEF Preserved, Has, Plain, Deleted
<1>4. CASE Accounted(made, Copies, e, f)
  BY <1>4 DEF Accounted, Copies, Preserved
<1> QED
  BY <1>1, <1>2, <1>3, <1>4 DEF ValueKept

\* A deleted note stays deleted: once the provider has the tombstone of a note
\* every device started with, no device, however stale, that merges, pushes or
\* retries brings the note back.  (Of a note created since, its creator may: it can
\* be without a base, and then the merge ignores deletedAt.)
THEOREM TombstonesAreFinal ==
    ASSUME NullIsNoDocument, Existing = Keys
    PROVE  Spec => TombstonesStay
<1>1. IInv /\ DocumentsInv /\ [Next]_vars =>
        [\A k \in Keys : (remote[k].doc # NoDoc /\ Deleted(remote[k].doc))
                            => Deleted(remote'[k].doc)]_vars
  <2> SUFFICES ASSUME IInv, DocumentsInv, [Next]_vars, NEW k \in Keys, Deleted(remote[k].doc)
               PROVE  Deleted(remote'[k].doc)
    OBVIOUS
  <2>1. CASE UNCHANGED remote
    BY <2>1
  <2>2. CASE RemoteTakes
    <3>1. CASE remote'[k] = remote[k]
      BY <3>1
    <3>2. ASSUME NEW d \in Devices, NEW u \in pass[d].unsent,
                 u.key = k, remote[k] = db[d].base[k], remote'[k].doc = u.doc
          PROVE  Deleted(remote'[k].doc)
      BY <3>2 DEF DocumentsInv, DeviceSound, EntrySound
    <3> QED
      BY <2>2, <3>1, <3>2, RemoteAfter
  <2> QED
    BY <2>1, <2>2, StepIsOneOf DEF Mutated
<1>2. Init => DocumentsInv
  BY InitHasDocuments
<1>3. DocumentsInv /\ IInv /\ [Next]_vars => DocumentsInv'
  BY NextKeepsDocuments
<1> QED
  BY <1>1, <1>2, <1>3, InitEstablishes, NextKeeps, PTL DEF Spec, TombstonesStay

\* Pulls, merges, conflict copies, refused writes and dying passes lose no value a
\* user wrote into an existing note, for every number of devices, notes, fields,
\* mutations and faults, provided no edit overtakes a pull: the one way to lose a
\* value is to edit a note after the pull in progress has decided about it.
THEOREM ValuesAreKept ==
    ASSUME NullIsNoDocument, Existing = Keys
    PROVE  Spec /\ [][~EditOvertakesPull]_vars => []NothingLost
<1> DEFINE Inv == IInv /\ DocumentsInv /\ KeptInv
<1>1. Init => Inv
  BY InitEstablishes, InitHasDocuments
<1>2. Inv /\ [Next]_vars /\ [~EditOvertakesPull]_vars => Inv'
  <2> SUFFICES ASSUME Inv, [Next]_vars, [~EditOvertakesPull]_vars PROVE Inv'
    OBVIOUS
  <2>1. ~EditOvertakesPull
    BY DEF EditOvertakesPull, vars
  <2> QED
    BY <2>1, NextKeeps, NextKeepsDocuments, NextKeepsValues
<1>3. Inv => NothingLost
  BY KeptIsNotLost
<1> QED
  BY <1>1, <1>2, <1>3, PTL DEF Spec

\* The pull of a workspace's only note reads it and applies it without an await
\* in between.
NothingRead == \A d \in Devices : pass[d].pulled = {}

\* The only key is read last, and what was read is applied at once.
LEMMA NextReadsNothing ==
    ASSUME NullIsNoDocument, IInv, DocumentsInv, NothingRead,
           \A j, k \in Keys : j = k, [Next]_vars
    PROVE  NothingRead'
<1>1. ASSUME NEW c \in Devices
      PROVE  pass'[c].pulled = {} \/ pass'[c].todo # {}
  <2>1. pass[c].pulled = {}
    BY DEF NothingRead
  <2>2. CASE \E d \in Devices, k \in Keys : \E new : Mutated(d, k, new)
    BY <2>1, <2>2 DEF Mutated
  <2>3. ASSUME NEW d \in Devices, NEW p, Reads(d, p), Continue(d, p)
        PROVE  pass'[c].pulled = {} \/ pass'[c].todo # {}
    <3>1. CASE pass' = [pass EXCEPT ![d] = Resting]
      BY <2>1, <3>1 DEF IInv, Shape, Resting
    <3>2. CASE pass' = [pass EXCEPT ![d] = p] /\ p.todo # {}
      BY <2>1, <3>2 DEF IInv, Shape
    <3>3. CASE Applied(d, p)
      BY <2>1, <3>3 DEF Applied
    <3> QED
      BY <2>3, <3>1, <3>2, <3>3, ContinueTakes
  <2>4. CASE PassesGoOn
    BY <2>1, <2>4 DEF PassesGoOn
  <2> QED
    BY <2>2, <2>3, <2>4, StepIsOneOf
<1>2. ASSUME NEW c \in Devices, NEW i \in pass'[c].pulled, NEW k \in pass'[c].todo
      PROVE  FALSE
  <2>1. i.key \in Keys \ pass'[c].todo
    BY NextKeeps DEF IInv, Pulled, SoundItems
  <2>2. k \in Keys
    BY NextKeepsDocuments DEF DocumentsInv, DeviceSound
  <2> QED
    BY <2>1, <2>2
<1> QED
  BY <1>1, <1>2 DEF NothingRead

\* Of a single note no edit can overtake the pull, so that nothing of it is lost,
\* whatever the devices, edits, deletions and faults.
THEOREM NothingOfOneNoteIsLost ==
    ASSUME NullIsNoDocument, Existing = Keys, \A j, k \in Keys : j = k
    PROVE  Spec => []NothingLost
<1> DEFINE Inv == IInv /\ DocumentsInv /\ KeptInv /\ NothingRead
<1>1. Init => Inv
  BY InitEstablishes, InitHasDocuments DEF NothingRead, Init, Resting
<1>2. Inv /\ [Next]_vars => Inv'
  <2> SUFFICES ASSUME Inv, [Next]_vars PROVE Inv'
    OBVIOUS
  <2>1. ~EditOvertakesPull
    BY DEF EditOvertakesPull, NothingRead
  <2> QED
    BY <2>1, NextKeeps, NextKeepsDocuments, NextKeepsValues, NextReadsNothing
<1>3. Inv => NothingLost
  BY KeptIsNotLost
<1> QED
  BY <1>1, <1>2, <1>3, PTL DEF Spec

=============================================================================
