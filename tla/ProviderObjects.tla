---------------------------- MODULE ProviderObjects ----------------------------
(* The objects of one logical key at a provider, as the adapters of several     *)
(* devices create, find, update and list them: GoogleDriveObjectService and     *)
(* OneDriveObjectService with the adapters around them. The drives are modelled *)
(* from the requests the adapters send: Google Drive takes any number of files  *)
(* with the same key, OneDrive one item of a name.                              *)
(*                                                                              *)
(* A step is a request that changes something, or the requests of a lookup (the *)
(* file that was listed is read again, and only its version can have changed).  *)
(* Documents and assets differ in the checks of their bytes only: an asset is   *)
(* downloaded after its upload, which may fail like any other request.          *)
EXTENDS Naturals, FiniteSetsExt

CONSTANTS
  Adapters,    \* devices, each with its adapter
  MaxFiles     \* files are numbered in the order of their identifiers

ASSUME ObjectsAssumption == MaxFiles \in Nat

Files == 1..MaxFiles

VARIABLES
  drive,    \* "google" or "onedrive"
  files,    \* "absent", "live", or deleted at the provider: "trashed" or "gone"
  feed,     \* files whose changes the device has not listed since its cursor
  cursor,   \* the device has a cursor
  cache,    \* metadataByLogicalKey: a file, 0 without an entry that is not deleted
  base,     \* the file whose present version is the one the device knows, or 0
  op        \* the write or enumeration under way

objVars == <<drive, files, feed, cursor, cache, base, op>>

NoOp == [step |-> "idle", file |-> 0]

ObjectsTypeOK ==
  /\ drive \in {"google", "onedrive"}
  /\ files \in [Files -> {"absent", "live", "trashed", "gone"}]
  /\ feed \in [Adapters -> SUBSET Files] /\ cursor \in [Adapters -> BOOLEAN]
  /\ cache \in [Adapters -> Files \cup {0}]
  /\ base \in [Adapters -> Files \cup {0}]
  /\ op \in [Adapters -> [step : {"idle", "post", "verify", "patch", "enumerate"},
                          file : Files \cup {0}]]

ObjectsInit ==
  /\ drive \in {"google", "onedrive"}
  /\ files = [f \in Files |-> "absent"]
  /\ feed = [d \in Adapters |-> {}] /\ cursor = [d \in Adapters |-> FALSE]
  /\ cache = [d \in Adapters |-> 0] /\ base = [d \in Adapters |-> 0]
  /\ op = [d \in Adapters |-> NoOp]

-----------------------------------------------------------------------------

IsLive(f) == f \in Files /\ files[f] = "live"

(* The listing of the key, sorted by identifier: its first file, or 0. *)
Canonical ==
  LET live == {f \in Files : IsLive(f)} IN IF live = {} THEN 0 ELSE Min(live)

(* findObject: the cached file when it is still there, else the canonical one.  *)
(* At Google Drive the request for a cached file that is gone fails (404), and  *)
(* with it the lookup; OneDriveObjectService goes on with the listing.          *)
LookupFails(d) == drive = "google" /\ cache[d] # 0 /\ files[cache[d]] = "gone"
FindObject(d) == IF cache[d] # 0 /\ IsLive(cache[d]) THEN cache[d] ELSE Canonical

(* cacheMetadata, for a file that was found. *)
Cached(d, f) == cache' = IF f = 0 THEN cache ELSE [cache EXCEPT ![d] = f]

(* readObject, as a pull calls it for what it lists: the bytes of one version.  *)
ReadObject(d, f) ==
  base' = IF f = 0 THEN base ELSE [base EXCEPT ![d] = f]

Changed(f) == feed' = [d \in Adapters |-> feed[d] \cup {f}]

Step(d, step, f) == op' = [op EXCEPT ![d] = [step |-> step, file |-> f]]
Done(d) == op' = [op EXCEPT ![d] = NoOp]

AtProvider == <<drive, files, feed>>

(* createDocument, createAsset up to the upload. What is there already is an    *)
(* error for a document and the result for an asset.                            *)
StartCreate(d) ==
  /\ op[d] = NoOp /\ ~LookupFails(d)
  /\ LET f == FindObject(d) IN
     /\ Cached(d, f)
     /\ IF f = 0 THEN Step(d, "post", 0) ELSE UNCHANGED op
  /\ UNCHANGED <<AtProvider, cursor, base>>

(* createFile at OneDrive, when there is an item of the name (If-None-Match,    *)
(* conflictBehavior fail).                                                      *)
RefusesCreate == drive = "onedrive" /\ Canonical # 0

(* The upload is carried out and accepted, or its answer is lost, or it fails.  *)
Post(d, outcome) ==
  /\ op[d].step = "post"
  /\ IF outcome = "failed" \/ RefusesCreate
     THEN Done(d) /\ UNCHANGED <<files, feed, cache>>
     ELSE \E f \in Files :
       /\ files[f] = "absent"
       /\ files' = [files EXCEPT ![f] = "live"]
       /\ Changed(f)
       /\ IF outcome = "ok" THEN Cached(d, f) /\ Step(d, "verify", f)
                            ELSE Done(d) /\ UNCHANGED cache
  /\ UNCHANGED <<drive, cursor, base>>

(* requireCanonicalWrite: the create failed unless its file is the canonical    *)
(* one. Nothing is done about the file.                                         *)
RequireCanonicalWrite(d, outcome) ==
  /\ op[d].step = "verify"
  /\ IF outcome = "ok" THEN Cached(d, Canonical) ELSE UNCHANGED cache
  /\ Done(d)
  /\ UNCHANGED <<AtProvider, cursor, base>>

(* The version of f is the one the device expects. *)
VersionMatches(d, f) == f # 0 /\ base[d] = f

(* updateDocument, updateAsset: the version is compared with the expected one,  *)
(* and again by the provider (If-Match) when it writes.                         *)
StartUpdate(d) ==
  /\ op[d] = NoOp /\ ~LookupFails(d)
  /\ LET f == FindObject(d) IN
     /\ Cached(d, f)
     /\ IF VersionMatches(d, f)
        THEN Step(d, "patch", f) ELSE UNCHANGED op
  /\ UNCHANGED <<AtProvider, cursor, base>>

NewVersion(f) == base' = [d \in Adapters |-> IF base[d] = f THEN 0 ELSE base[d]]

Patch(d, outcome) ==
  /\ op[d].step = "patch"
  /\ IF outcome # "failed" /\ VersionMatches(d, op[d].file)
     THEN Changed(op[d].file) /\ NewVersion(op[d].file)
     ELSE UNCHANGED <<feed, base>>
  /\ Done(d)
  /\ UNCHANGED <<drive, files, cursor, cache>>

(* Somebody deletes the file at the provider, or empties the trash. *)
IsDeleted(f) == files[f] \in {"trashed", "gone"}

Trash(f, how) ==
  /\ IsLive(f) \/ (files[f] = "trashed" /\ how = "gone")
  /\ files' = [files EXCEPT ![f] = how]
  /\ Changed(f) /\ NewVersion(f)
  /\ UNCHANGED <<drive, cursor, cache, op>>

-----------------------------------------------------------------------------
(* Enumeration and changes *)

(* discoverWorkspace or createWorkspace of a new adapter. *)
ActivateWorkspace(d) ==
  /\ op[d] = NoOp
  /\ cache' = [cache EXCEPT ![d] = 0]
  /\ UNCHANGED <<AtProvider, cursor, base, op>>

(* enumerateObjects: the candidate cursor is taken before the objects are read. *)
StartEnumeration(d) ==
  /\ op[d] = NoOp /\ ~cursor[d]
  /\ cache' = [cache EXCEPT ![d] = 0]
  /\ feed' = [feed EXCEPT ![d] = {}]
  /\ Step(d, "enumerate", 0)
  /\ UNCHANGED <<drive, files, cursor, base>>

EnumerateObjects(d, outcome) ==
  /\ op[d].step = "enumerate"
  /\ Done(d)
  /\ IF outcome = "ok"
     THEN /\ Cached(d, Canonical) /\ ReadObject(d, Canonical)
          /\ cursor' = [cursor EXCEPT ![d] = TRUE]
     ELSE UNCHANGED <<cache, cursor, base>>
  /\ UNCHANGED AtProvider

(* The provider does not accept the cursor any more. *)
InvalidateCursor(d) ==
  /\ op[d] = NoOp /\ cursor[d]
  /\ cursor' = [cursor EXCEPT ![d] = FALSE]
  /\ UNCHANGED <<AtProvider, cache, base, op>>

(* hydrateFile or hydrateItem of a changed file, and resolveCanonicalObject of  *)
(* its key. When that fails the change is listed again.                         *)
MutantListChange(d, f, outcome) ==
  /\ op[d] = NoOp /\ cursor[d]
  /\ f \in feed[d] /\ IsLive(f)
  /\ IF outcome = "ok"
     THEN /\ Cached(d, f) /\ ReadObject(d, f)
          /\ feed' = [feed EXCEPT ![d] = @ \ {f}]
     ELSE Cached(d, f) /\ UNCHANGED <<feed, base>>
  /\ UNCHANGED <<drive, files, cursor, op>>

ListChange(d, f, outcome) ==
  /\ op[d] = NoOp /\ cursor[d]
  /\ f \in feed[d] /\ IsLive(f)
  /\ IF outcome = "ok"
     THEN /\ Cached(d, Canonical) /\ ReadObject(d, Canonical)
          /\ feed' = [feed EXCEPT ![d] = @ \ {f}]
     ELSE Cached(d, f) /\ UNCHANGED <<feed, base>>
  /\ UNCHANGED <<drive, files, cursor, op>>

(* getDeletedMetadata: another file of the key replaces a deleted one. What the *)
(* device never knew may be passed over.                                        *)
ListDeletion(d, f) ==
  /\ op[d] = NoOp /\ cursor[d]
  /\ f \in feed[d] /\ IsDeleted(f)
  /\ feed' = [feed EXCEPT ![d] = @ \ {f}]
  /\ \/ /\ cache[d] # f
        /\ UNCHANGED cache
     \/ IF Canonical = 0 /\ cache[d] = f
        THEN cache' = [cache EXCEPT ![d] = 0] ELSE Cached(d, Canonical)
  /\ UNCHANGED <<drive, files, cursor, base, op>>

ObjectsNext ==
  \/ \E d \in Adapters, outcome \in {"ok", "lost", "failed"} :
       \/ Post(d, outcome) \/ RequireCanonicalWrite(d, outcome) \/ Patch(d, outcome)
       \/ EnumerateObjects(d, outcome)
       \/ \E f \in Files : ListChange(d, f, outcome)
  \/ \E d \in Adapters :
       \/ StartCreate(d) \/ StartUpdate(d)
       \/ ActivateWorkspace(d) \/ StartEnumeration(d) \/ InvalidateCursor(d)
       \/ \E f \in Files : ListDeletion(d, f)
  \/ \E f \in Files, how \in {"trashed", "gone"} : Trash(f, how)

ObjectsSpec == ObjectsInit /\ [][ObjectsNext]_objVars

-----------------------------------------------------------------------------
(* Properties *)

(* Devices that have listed all changes find the same file of a key, however    *)
(* many of them created one at the same time, lost the answer, or failed to     *)
(* check the result, and whatever was deleted. (Which creates were reported as done is another matter: on *)
(* Google Drive both of two can be, when the first to be checked has the larger *)
(* identifier.)                                                                 *)
DevicesUseOneFile ==
  \A d \in Adapters :
    cursor[d] /\ feed[d] = {} /\ op[d] = NoOp => ~LookupFails(d) /\ FindObject(d) = Canonical

=============================================================================
