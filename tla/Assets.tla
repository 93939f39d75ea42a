------------------------------- MODULE Assets -------------------------------
(* Images on their way to the provider: AssetsService and its repository, the   *)
(* migration of images from before managed assets, and the part of a            *)
(* reconciliation pass that is about asset files and about objects that are     *)
(* missing or damaged at the provider (recordRemoteRepairCondition).            *)
(*                                                                              *)
(* One device with one note that shows one image; the other device and whoever  *)
(* looks into the provider's folder belong to the environment. The journal is   *)
(* reduced to the keys that have work, and the requests of a pull are one step: *)
(* rows are in OutboxRows, edits during a pull in Reconciliation.               *)
EXTENDS Naturals, FiniteSets

CONSTANTS
  Images,       \* asset identifiers
  MaxDocuments, \* documents of the note that are ever written
  MaxFaults     \* damaged disk, lost processes, changes at the provider

ASSUME AssetsAssumption ==
  /\ MaxDocuments \in Nat \ {0} /\ MaxFaults \in Nat
  /\ Images \cap {"note", "path", "none"} = {}

VARIABLES
  disk,        \* the file of each asset in the managed directory
  rows,        \* its row: assets.integrity_state
  note,        \* the note as a document: image, mutation id
  work,        \* outbox: keys with a pending row, keys with a claim left behind
  pass,        \* the pass under way, in memory
  folder,      \* the provider's folder: the state of each object
  stored,      \* the note's document in it
  mapped,      \* sync_remote_objects: whether the version is the object's
  noteBase,    \* merge_base_json of the note
  unheard,     \* objects that changed after the cursor
  cursorValid, \* whether there is a cursor and the provider accepts it
  repairs,     \* unresolved conflicts of type remote-corruption
  written, faults, \* how many documents and faults there were
  slipped      \* history: assets deleted before the device had seen their version

assetVars == <<disk, rows, note, work, pass, folder, stored, mapped, noteBase, unheard,
               cursorValid, repairs, written, faults, slipped>>

Note == "note"
Keys == Images \cup {Note}

(* An image is an asset, a path on this device ("path", a value from before     *)
(* managed assets) or not there.                                                *)
Shown == Images \cup {"path", "none"}
NoNote == [image |-> "none", id |-> 0]
NoteDocuments == [image : Shown, id : 0..MaxDocuments]
Damages == {"missing", "damaged"}
NoPass == [step |-> "idle", claims |-> {}, sent |-> {}, document |-> NoNote]

AssetsTypeOK ==
  /\ disk \in [Images -> {"none", "good", "damaged"}]
  /\ rows \in [Images -> {"none", "available", "missing", "corrupt"}]
  /\ note \in NoteDocuments /\ noteBase \in NoteDocuments
  /\ work \in [pending : SUBSET Keys, left : SUBSET Keys, latest : 0..MaxDocuments]
  /\ pass \in [step : {"idle", "assets", "document", "verify"}, claims : SUBSET Keys,
               sent : SUBSET Keys, document : NoteDocuments]
  /\ folder \in [Keys -> {"none", "good", "damaged"}] /\ stored \in NoteDocuments
  /\ mapped \in [Keys -> {"none", "stale", "current"}]
  /\ unheard \subseteq Keys /\ cursorValid \in BOOLEAN
  /\ repairs \subseteq Keys \X Damages
  /\ written \in 0..MaxDocuments /\ faults \in 0..MaxFaults /\ slipped \subseteq Images

(* A note from before managed assets, or none. *)
AssetsInit ==
  /\ disk = [a \in Images |-> "none"] /\ rows = [a \in Images |-> "none"]
  /\ \/ note = NoNote /\ work = [pending |-> {}, left |-> {}, latest |-> 0] /\ written = 0
     \/ note = [image |-> "path", id |-> 1] /\ work = [pending |-> {Note}, left |-> {}, latest |-> 1]
        /\ written = 1
  /\ pass = NoPass
  /\ folder = [k \in Keys |-> "none"] /\ mapped = [k \in Keys |-> "none"]
  /\ stored = NoNote /\ noteBase = NoNote /\ unheard = {} /\ cursorValid = FALSE /\ repairs = {}
  /\ faults = 0 /\ slipped = {}

-----------------------------------------------------------------------------
(* The device *)

passVars == <<pass, folder, stored, mapped, noteBase, unheard, cursorValid, repairs, slipped>>

Enqueued(keys) == [work EXCEPT !.pending = @ \cup keys]

(* A change of the note and its entry in the journal. *)
WriteNote(image, keys) ==
  /\ written < MaxDocuments
  /\ written' = written + 1
  /\ note' = [image |-> image, id |-> written']
  /\ work' = [Enqueued(keys \cup {Note}) EXCEPT !.latest = written']

(* storeImage: the file, unless there is one (writeAtomically), then the row    *)
(* with its entry in the journal.                                               *)
Stores(a) ==
  /\ disk[a] # "damaged"
  /\ disk' = [disk EXCEPT ![a] = "good"]
  /\ rows' = [rows EXCEPT ![a] = "available"]
  /\ work' = Enqueued({a})

(* createNote and updateNote with a new image (manageImageValue): the note may  *)
(* be refused after the image was stored.                                       *)
StoreImage(a) ==
  /\ Stores(a)
  /\ UNCHANGED <<note, written, faults, passVars>>

ShowStored(a) ==
  /\ rows[a] = "available"
  /\ WriteNote(a, {})
  /\ UNCHANGED <<disk, rows, faults, passVars>>

(* Another change of the note, or one that takes the image away. *)
EditNote(image) ==
  /\ note # NoNote /\ image \in {note.image, "none"}
  /\ WriteNote(image, {})
  /\ UNCHANGED <<disk, rows, faults, passVars>>

(* readAsset for a view or an export, which finds out about a damaged file.     *)
Verified(a) == IF rows[a] = "available" /\ disk[a] # "good"
               THEN [rows EXCEPT ![a] = IF disk[a] = "none" THEN "missing" ELSE "corrupt"]
               ELSE rows
Readable(a) == rows[a] = "available" /\ disk[a] = "good"

ReadAsset(a) ==
  /\ Verified(a) # rows /\ rows' = Verified(a)
  /\ UNCHANGED <<disk, note, work, written, faults, passVars>>

DamageFile(a) ==
  /\ disk[a] = "good" /\ faults < MaxFaults
  /\ faults' = faults + 1
  /\ \E f \in {"none", "damaged"} : disk' = [disk EXCEPT ![a] = f]
  /\ UNCHANGED <<rows, note, work, written, passVars>>

-----------------------------------------------------------------------------
(* A pull *)

Exists(k) == folder[k] # "none"
Listed == IF cursorValid THEN unheard ELSE {k \in Keys : Exists(k)}

(* Objects the device knows and that are gone; bytes that do not validate, or   *)
(* an asset whose local file is damaged, which storeSynchronizedImage refuses   *)
(* to overwrite as well.                                                        *)
Missing == {k \in Keys : mapped[k] # "none" /\ ~Exists(k) /\ (cursorValid => k \in unheard)}
Damaged == {k \in Listed : \/ folder[k] = "damaged"
                           \/ k \in Images /\ Exists(k) /\ disk[k] = "damaged"}
Whole == {k \in Listed : Exists(k)} \ Damaged
Broken == Missing \cup Damaged

(* recordRemoteRepairCondition: what is not under repair already is journaled   *)
(* when the device has a copy of it.                                            *)
Condition(k) == IF k \in Missing THEN "missing" ELSE "damaged"
MutantUnderRepair(k) == <<k, Condition(k)>> \in repairs

UnderRepair(k) ==
  /\ <<k, Condition(k)>> \in repairs
  /\ k \in work.pending \cup work.left \cup pass.claims
HasCopy(k) == IF k = Note THEN note # NoNote ELSE rows[k] = "available"
ToRepair == {k \in Broken : ~UnderRepair(k) /\ HasCopy(k)}
Hopeless == {k \in Broken : ~UnderRepair(k) /\ ~HasCopy(k)}

RepairedNote(ks) == IF Note \in ks THEN [note EXCEPT !.id = written + 1] ELSE note

(* What is recorded of the broken keys ks and journaled to repair them. Each is *)
(* a transaction of its own, and so is every image downloaded. A key of which   *)
(* the device has no copy gets its conflict as well, and nothing to repair it.  *)
Repair(ks, downloads) ==
  LET repaired == ks \cap ToRepair IN
  /\ Note \in repaired => written < MaxDocuments
  /\ written' = IF Note \in repaired THEN written + 1 ELSE written
  /\ repairs' = repairs \cup {<<k, Condition(k)>> : k \in ks \cap (ToRepair \cup Hopeless)}
  /\ disk' = [a \in Images |-> IF a \in downloads THEN "good" ELSE disk[a]]
  /\ rows' = [a \in Images |-> IF a \in downloads THEN "available" ELSE rows[a]]

RepairedKnown(ks) ==
  [k \in Keys |-> IF k \in ks \cap ToRepair \cap Missing THEN "none"
                  ELSE IF k \in ks \cap Damaged /\ mapped[k] # "none" THEN "current"
                  ELSE mapped[k]]

(* The decision about the note (pull). Of two documents to be merged either may *)
(* be preferred: NoteMerge has which.                                           *)
Decision ==
  LET hasBase == mapped[Note] # "none"
  IN IF Note \notin Whole \/ (hasBase /\ stored = noteBase) THEN "nothing"
     ELSE IF note = NoNote \/ (hasBase /\ note = noteBase) THEN "apply"
     ELSE IF note = stored THEN "own"
     ELSE "merge"

PulledNotes ==
  CASE Decision = "apply" -> {stored}
    [] Decision = "merge" -> {note, stored}
    [] OTHER -> {RepairedNote(ToRepair)}

(* The journal after applyPull: repairs, a merge the provider does not have,    *)
(* and what the pulled document acknowledges.                                   *)
PulledWork(pulled, acknowledge) ==
  LET journaled == IF Decision = "merge" /\ pulled # stored THEN {Note} ELSE {}
      settled == IF /\ acknowledge /\ Decision \in {"own", "merge"} /\ journaled = {}
                    /\ work.latest = stored.id
                 THEN {Note} ELSE {}
  IN [pending |-> (work.pending \cup ToRepair \cup journaled) \ settled,
      left |-> work.left \ settled,
      latest |-> IF Note \in ToRepair \cup journaled THEN pulled.id ELSE work.latest]

(* A pull that comes to its end: applyPull commits mappings, note and cursor.   *)
Pulls(pulled) ==
  /\ Hopeless = {}
  /\ Repair(Broken, Images \cap Whole)
  /\ note' = pulled
  /\ mapped' = [k \in Keys |-> IF k \in Whole THEN "current" ELSE RepairedKnown(Broken)[k]]
  /\ noteBase' = IF Note \in Whole THEN stored ELSE noteBase
  /\ unheard' = {} /\ cursorValid' = TRUE

(* A pull that fails, by something it cannot repair or a request: what came     *)
(* before it in the listing is done (the broken keys ks, the downloads).        *)
PullFails(ks, downloads) ==
  LET repaired == ks \cap ToRepair IN
  /\ Cardinality(ks \cap Hopeless) < 2
  /\ Repair(ks, downloads)
  /\ note' = RepairedNote(repaired)
  /\ mapped' = RepairedKnown(ks)
  /\ work' = [work EXCEPT !.pending = @ \cup repaired,
                          !.latest = IF Note \in repaired THEN written' ELSE @,
                          !.left = @ \cup pass.claims]
  /\ pass' = NoPass
  /\ UNCHANGED <<noteBase, unheard, cursorValid>>

-----------------------------------------------------------------------------
(* A pass *)

world == <<folder, stored, faults, slipped>>
device == <<disk, rows, note, written, mapped, noteBase, unheard, cursorValid, repairs>>

(* listClaimedDocuments, when the last asset is written: the note as it is now. *)
NextStep(p, n) ==
  IF p.claims \cap Images \subseteq p.sent
  THEN [p EXCEPT !.step = IF Note \in p.claims /\ n # NoNote THEN "document" ELSE "verify",
                 !.document = n]
  ELSE p

(* The first pull, claimAvailable and recoverAcknowledgedClaims. The journal has *)
(* rows of other notes, so that any of these may be among the first it claims   *)
(* (DEFAULT_OUTBOX_LIMIT).                                                      *)
BeginPass ==
  /\ pass.step = "idle"
  /\ \E pulled \in PulledNotes :
       /\ Pulls(pulled)
       /\ LET after == PulledWork(pulled, TRUE)
              recovered == IF mapped'[Note] # "none" /\ noteBase'.id = after.latest THEN {Note} ELSE {}
          IN \E claims \in SUBSET after.pending :
               /\ work' = [after EXCEPT !.pending = @ \ claims]
               /\ pass' = NextStep([NoPass EXCEPT !.step = "assets",
                                                  !.claims = claims \ recovered], note')
  /\ UNCHANGED world

PullBreaks ==
  /\ pass.step \in {"idle", "verify"}
  /\ \E ks \in SUBSET Broken, downloads \in SUBSET (Images \cap Whole) : PullFails(ks, downloads)
  /\ UNCHANGED world

(* failClaims *)
FailClaims ==
  /\ work' = [work EXCEPT !.pending = @ \cup pass.claims]
  /\ pass' = NoPass

(* readAsset and the request: an asset the device does not know is created, or  *)
(* found; one it knows is overwritten when its version is still the known one.  *)
PushAsset(a) ==
  /\ pass.step = "assets" /\ a \in pass.claims \ pass.sent
  /\ Readable(a)
  /\ IF mapped[a] = "none" /\ Exists(a)
     THEN UNCHANGED <<folder, mapped, unheard>>
     ELSE /\ mapped[a] # "stale"
          /\ folder' = [folder EXCEPT ![a] = "good"]
          /\ mapped' = [mapped EXCEPT ![a] = IF @ = "none" THEN @ ELSE "stale"]
          /\ unheard' = unheard \cup {a}
  /\ slipped' = slipped \ {a}
  /\ pass' = NextStep([pass EXCEPT !.sent = @ \cup {a}], note)
  /\ UNCHANGED <<stored, disk, rows, note, written, noteBase, cursorValid, repairs, work, faults>>

PushDocument ==
  /\ pass.step = "document"
  /\ mapped[Note] = "current" \/ (mapped[Note] = "none" /\ ~Exists(Note))
  /\ folder' = [folder EXCEPT ![Note] = "good"] /\ stored' = pass.document
  /\ mapped' = [mapped EXCEPT ![Note] = IF @ = "none" THEN @ ELSE "stale"]
  /\ unheard' = unheard \cup {Note}
  /\ pass' = [pass EXCEPT !.step = "verify", !.sent = @ \cup {Note}]
  /\ UNCHANGED <<disk, rows, note, written, noteBase, cursorValid, repairs, work, faults, slipped>>

(* An asset that cannot be read, a write that is refused, or a request that     *)
(* fails. (The pull and the new claim after a refused one are a new pass here.) *)
PushFails ==
  /\ pass.step \in {"assets", "document"}
  /\ \/ UNCHANGED rows
     \/ pass.step = "assets"
        /\ \E a \in (pass.claims \cap Images) \ pass.sent : ~Readable(a) /\ rows' = Verified(a)
  /\ FailClaims
  /\ UNCHANGED <<disk, note, written, mapped, noteBase, unheard, cursorValid, repairs, world>>

(* The verifying pull, and the completion of what was written. *)
Verify ==
  /\ pass.step = "verify"
  /\ \E pulled \in PulledNotes :
       /\ Pulls(pulled)
       /\ work' = [PulledWork(pulled, FALSE) EXCEPT !.left = @ \cup (pass.claims \ pass.sent)]
  /\ pass' = NoPass
  /\ UNCHANGED world

(* The process dies, or claims are left behind and their lease ends. A start    *)
(* imports the image of a note from before managed assets, if it can.           *)
Restart ==
  /\ faults < MaxFaults /\ faults' = faults + 1
  /\ pass' = NoPass
  /\ \/ /\ work' = [work EXCEPT !.left = @ \cup pass.claims]
        /\ UNCHANGED <<disk, rows, note, written>>
     \/ /\ note.image = "path" /\ written < MaxDocuments
        /\ \E a \in Images :
             /\ disk[a] # "damaged"
             /\ disk' = [disk EXCEPT ![a] = "good"]
             /\ rows' = [rows EXCEPT ![a] = "available"]
             /\ note' = [image |-> a, id |-> written + 1]
        /\ written' = written + 1
        /\ work' = [pending |-> work.pending \cup {Note} \cup {note'.image},
                    left |-> work.left \cup pass.claims, latest |-> written']
  /\ UNCHANGED <<folder, stored, mapped, noteBase, unheard, cursorValid, repairs, slipped>>

LeaseEnds ==
  /\ work.left # {}
  /\ work' = [work EXCEPT !.pending = @ \cup work.left, !.left = {}]
  /\ UNCHANGED <<device, pass, world>>

-----------------------------------------------------------------------------
(* The other device, and whoever else has access to the folder *)

environment == <<disk, rows, note, written, work, pass, stored, noteBase, repairs>>

Touched(k) == [mapped EXCEPT ![k] = IF @ = "none" THEN @ ELSE "stale"]

(* The other device shows an image in the note, whose asset it has written. *)
OtherWrites(a) ==
  /\ written < MaxDocuments
  /\ folder' = [folder EXCEPT ![a] = IF @ = "none" THEN "good" ELSE @,
                              ![Note] = "good"]
  /\ stored' = [image |-> a, id |-> written + 1]
  /\ written' = written + 1
  /\ LET changed == {Note} \cup {k \in {a} : ~Exists(k)} IN
     /\ unheard' = unheard \cup changed
     /\ mapped' = [k \in Keys |-> IF k \in changed THEN Touched(k)[k] ELSE mapped[k]]
  /\ slipped' = slipped \ {a}
  /\ UNCHANGED <<disk, rows, note, work, pass, noteBase, repairs, cursorValid, faults>>

ChangeObject(k, content) ==
  /\ Exists(k) /\ faults < MaxFaults
  /\ faults' = faults + 1
  /\ folder' = [folder EXCEPT ![k] = content]
  /\ mapped' = Touched(k) /\ unheard' = unheard \cup {k}
  /\ slipped' = IF k \in Images /\ mapped[k] # "current" THEN slipped \cup {k} ELSE slipped
  /\ UNCHANGED <<environment, cursorValid>>

ForgetCursor ==
  /\ cursorValid /\ faults < MaxFaults
  /\ faults' = faults + 1
  /\ cursorValid' = FALSE
  /\ UNCHANGED <<environment, folder, mapped, unheard, slipped>>

AssetsNext ==
  \/ \E a \in Images :
       \/ StoreImage(a) \/ ShowStored(a) \/ ReadAsset(a) \/ DamageFile(a)
       \/ PushAsset(a) \/ OtherWrites(a)
  \/ \E image \in Shown : EditNote(image)
  \/ BeginPass \/ PullBreaks \/ PushDocument \/ PushFails \/ Verify \/ Restart \/ LeaseEnds
  \/ \E k \in Keys, content \in {"none", "damaged"} : ChangeObject(k, content)
  \/ ForgetCursor

AssetsSpec == AssetsInit /\ [][AssetsNext]_assetVars

-----------------------------------------------------------------------------
(* Properties *)

(* The image of the note at the provider does not get lost: it is there, or it  *)
(* will be, since its upload is journaled or the device has still to hear that  *)
(* it is gone. (An asset deleted before the device has seen the version it last *)
(* wrote is not missed: its deletion is taken for news about nothing known, or  *)
(* for one under repair.)                                                       *)
ImagesFollowNotes ==
  LET a == stored.image IN
  folder[Note] = "good" /\ a \in Images \ slipped
    => \/ Exists(a)
       \/ a \in work.pending \cup work.left \cup pass.claims
       \/ a \in unheard \/ ~cursorValid

=============================================================================
