------------------------------ MODULE Pairing ------------------------------
(* Pairing a device with a workspace at a provider: SyncPairingService, its     *)
(* repository, and the database backups it relies on. The database is one       *)
(* value, so that backup and restore are assignments; a transaction is a step.  *)
(*                                                                              *)
(* The statements between two requests run without interruption by other        *)
(* handlers, but the process may die after each of them: see Uninterrupted.     *)
EXTENDS Naturals, FiniteSets

CONSTANTS
  MaxOperations, \* pairing operations, numbered by created_at
  MaxPreparing,  \* calls of prepare that may wait for the provider at once
  MaxEdits,      \* the user's edits
  MaxCrashes

ASSUME PairingAssumption ==
  /\ MaxOperations \in Nat /\ MaxPreparing \in Nat
  /\ MaxEdits \in Nat /\ MaxCrashes \in Nat

Operations == 1..MaxOperations
Decisions == {"seed", "restore", "reconcile", "merge", "replace-local", "replace-remote"}
Modes == {"seed", "restore", "reconcile", "mismatch"}
Statuses == {"none", "prepared", "applying", "completed", "cancelled", "failed"}

(* resolveMode *)
Mode(localIsPopulated, remoteIsPopulated, isSameWorkspace) ==
  CASE ~remoteIsPopulated -> "seed"
    [] remoteIsPopulated /\ ~localIsPopulated -> "restore"
    [] remoteIsPopulated /\ localIsPopulated /\ isSameWorkspace -> "reconcile"
    [] OTHER -> "mismatch"

(* assertDecision *)
Allowed(mode) ==
  IF mode = "mismatch" THEN {"merge", "replace-local", "replace-remote"} ELSE {mode}

UsesRemoteWorkspace(decision) == decision \in {"restore", "merge", "replace-local"}
ClearsLocalData(decision) == decision \in {"restore", "replace-local"}

VARIABLES
  db,       \* the database file
  backups,  \* verified backup files, by the operation whose row names them
  torn,     \* the process died while a backup was copied over the database
  alive,    \* the process runs
  preparing,\* calls of prepare between their check and their insert
  enabling, \* a call of enable waits for the gate
  confirm,  \* the confirmation or recovery in progress
  crashes,  \* number of crashes so far
  kept      \* history: edits that no confirmation may have to undo

pairVars == <<db, backups, torn, alive, preparing, enabling, confirm, crashes, kept>>

(* confirm.step names what comes next. A step in Uninterrupted follows the one  *)
(* before without a request in between.                                         *)
Steps == {"none", "identity", "workspace", "adopt", "baseline", "pass", "verify",
          "complete", "restore", "setApplying", "fail"}
Uninterrupted == {"adopt", "baseline", "complete", "restore", "setApplying", "fail"}
NoConfirm == [op |-> 0, step |-> "none", decision |-> "seed"]
NoBackup == [edits |-> 0, workspace |-> "none", data |-> "none",
             enabled |-> FALSE, bound |-> "none", ops |-> <<>>, modes |-> <<>>]

(* data: whether the notes are a whole state, were cleared, or come from a pass  *)
(* that is not over; bound: the workspace of the account row; edits: the        *)
(* number of the latest edit the file has seen.                                 *)
InitialDatabase ==
  [edits |-> 0, workspace |-> "local", data |-> "settled",
   enabled |-> FALSE, bound |-> "none",
   ops |-> [o \in Operations |-> "none"], modes |-> [o \in Operations |-> "seed"]]

PairingTypeOK ==
  /\ \A d \in {db} \cup {backups[o] : o \in {o \in Operations : backups[o] # NoBackup}} :
       /\ d.edits \in 0..MaxEdits
       /\ d.workspace \in {"local", "remote"}
       /\ d.data \in {"settled", "cleared", "partial"}
       /\ d.enabled \in BOOLEAN
       /\ d.bound \in {"none", "local", "remote"}
       /\ d.ops \in [Operations -> Statuses]
       /\ d.modes \in [Operations -> Modes]
  /\ DOMAIN backups = Operations
  /\ torn \in BOOLEAN /\ alive \in BOOLEAN
  /\ preparing \in 0..MaxPreparing /\ enabling \in BOOLEAN
  /\ confirm \in [op : Operations \cup {0}, step : Steps, decision : Decisions]
  /\ crashes \in 0..MaxCrashes
  /\ kept \in 0..MaxEdits

PairingInit ==
  /\ db = InitialDatabase
  /\ backups = [o \in Operations |-> NoBackup]
  /\ torn = FALSE /\ alive = FALSE
  /\ preparing = 0 /\ enabling = FALSE /\ confirm = NoConfirm
  /\ crashes = 0 /\ kept = 0

-----------------------------------------------------------------------------

IsActive(status) == status \in {"prepared", "applying"}

(* findActive: the newest operation that is prepared or applying, or 0. *)
FindActive ==
  LET active == {o \in Operations : IsActive(db.ops[o])}
  IN IF active = {} THEN 0 ELSE CHOOSE o \in active : \A p \in active : p <= o

(* idx_sync_pairing_active: one row for each of the two active statuses. *)
Unused(status) == \A o \in Operations : db.ops[o] # status

(* A request handler can run: the process is up and not inside a stretch of     *)
(* statements; an exclusive one needs the gate as well.                         *)
MayRun == alive /\ confirm.step \notin Uninterrupted
MayRunExclusive == alive /\ confirm.step = "none"

SetStatus(o, status) == [db EXCEPT !.ops[o] = status]

-----------------------------------------------------------------------------
(* prepare, cancel *)

(* prepare up to its first request. *)
StartPrepare ==
  /\ MayRun
  /\ FindActive = 0
  /\ preparing < MaxPreparing
  /\ preparing' = preparing + 1
  /\ UNCHANGED <<db, backups, torn, alive, enabling, confirm, crashes, kept>>

(* The provider has answered: the row is inserted with the mode, unless a row   *)
(* is prepared already, or a request failed.                                    *)
Prepare(localIsPopulated, remoteIsPopulated, isSameWorkspace) ==
  /\ MayRun /\ preparing > 0
  /\ preparing' = preparing - 1
  /\ Unused("prepared")
  /\ \E o \in Operations :
       /\ db.ops[o] = "none" /\ \A p \in Operations : p < o => db.ops[p] # "none"
       /\ db' = [db EXCEPT !.ops[o] = "prepared",
                   !.modes[o] = Mode(localIsPopulated, remoteIsPopulated, isSameWorkspace)]
  /\ UNCHANGED <<backups, torn, alive, enabling, confirm, crashes, kept>>

PrepareFails ==
  /\ MayRun /\ preparing > 0
  /\ preparing' = preparing - 1
  /\ UNCHANGED <<db, backups, torn, alive, enabling, confirm, crashes, kept>>

Cancel(o) ==
  /\ MayRunExclusive
  /\ db.ops[o] = "prepared"
  /\ db' = SetStatus(o, "cancelled")
  /\ UNCHANGED <<backups, torn, alive, preparing, enabling, confirm, crashes, kept>>

-----------------------------------------------------------------------------
(* confirm and apply *)

ConfirmGoes(step) == confirm' = [confirm EXCEPT !.step = step]

(* Backup and setApplying, up to apply's first request. *)
Confirm(o, decision) ==
  /\ MayRunExclusive
  /\ db.ops[o] = "prepared" /\ decision \in Allowed(db.modes[o])
  /\ Unused("applying")
  /\ backups' = [backups EXCEPT ![o] = db]
  /\ db' = SetStatus(o, "applying")
  /\ confirm' = [op |-> o, step |-> "identity", decision |-> decision]
  /\ UNCHANGED <<torn, alive, preparing, enabling, crashes, kept>>

(* getIdentity has returned the account of the operation. *)
Identified ==
  /\ alive /\ confirm.step = "identity"
  /\ ConfirmGoes("workspace")
  /\ UNCHANGED <<db, backups, torn, alive, preparing, enabling, crashes, kept>>

(* discoverWorkspace, or createWorkspace and its document. *)
WorkspaceFound ==
  /\ alive /\ confirm.step = "workspace"
  /\ IF UsesRemoteWorkspace(confirm.decision)
     THEN /\ ConfirmGoes("adopt")
          /\ db' = IF ClearsLocalData(confirm.decision)
                   THEN [db EXCEPT !.data = "cleared"] ELSE db
     ELSE ConfirmGoes("baseline") /\ UNCHANGED db
  /\ UNCHANGED <<backups, torn, alive, preparing, enabling, crashes, kept>>

AdoptWorkspace ==
  /\ alive /\ confirm.step = "adopt"
  /\ db' = [db EXCEPT !.workspace = "remote"]
  /\ ConfirmGoes(IF ClearsLocalData(confirm.decision) THEN "pass" ELSE "baseline")
  /\ UNCHANGED <<backups, torn, alive, preparing, enabling, crashes, kept>>

(* The outbox is not modelled here. *)
CreateResolvedBaseline ==
  /\ alive /\ confirm.step = "baseline"
  /\ ConfirmGoes("pass")
  /\ UNCHANGED <<db, backups, torn, alive, preparing, enabling, crashes, kept>>

(* runWithinExclusive: the transactions of a pass. *)
Reconcile ==
  /\ alive /\ confirm.step = "pass"
  /\ \/ ConfirmGoes("verify") /\ db' = [db EXCEPT !.data = "settled"]
     \/ UNCHANGED confirm /\ db' = [db EXCEPT !.data = "partial"]
  /\ UNCHANGED <<backups, torn, alive, preparing, enabling, crashes, kept>>

(* The workspace is there: bind. *)
Bind ==
  /\ alive /\ confirm.step = "verify"
  /\ db' = [db EXCEPT !.enabled = TRUE, !.bound = db.workspace]
  /\ ConfirmGoes("complete")
  /\ UNCHANGED <<backups, torn, alive, preparing, enabling, crashes, kept>>

CompleteOperation ==
  /\ alive /\ confirm.step = "complete"
  /\ db' = SetStatus(confirm.op, "completed")
  /\ confirm' = NoConfirm
  /\ kept' = db.edits
  /\ UNCHANGED <<backups, torn, alive, preparing, enabling, crashes>>

(* A request of apply throws. *)
ApplyFails ==
  /\ alive /\ confirm.step \in {"identity", "workspace", "pass", "verify"}
  /\ ConfirmGoes("restore")
  /\ UNCHANGED <<db, backups, torn, alive, preparing, enabling, crashes, kept>>

(* The catch of confirm, and the recovery of onModuleInit. *)
Restore ==
  /\ alive /\ confirm.step = "restore"
  /\ db' = backups[confirm.op]
  /\ ConfirmGoes("setApplying")
  /\ UNCHANGED <<backups, torn, alive, preparing, enabling, crashes, kept>>

SetApplying ==
  /\ alive /\ confirm.step = "setApplying"
  /\ db' = SetStatus(confirm.op, "applying")
  /\ ConfirmGoes("fail")
  /\ UNCHANGED <<backups, torn, alive, preparing, enabling, crashes, kept>>

MutantFailOperation ==
  /\ alive /\ confirm.step = "fail"
  /\ confirm' = NoConfirm
  /\ UNCHANGED <<db, backups, torn, alive, preparing, enabling, crashes, kept>>

FailOperation ==
  /\ alive /\ confirm.step = "fail"
  /\ db' = SetStatus(confirm.op, "failed")
  /\ confirm' = NoConfirm
  /\ UNCHANGED <<backups, torn, alive, preparing, enabling, crashes, kept>>

-----------------------------------------------------------------------------
(* The other operations *)

(* enable looks at the account, and then waits for the gate. *)
StartEnable ==
  /\ MayRun /\ db.bound # "none"
  /\ enabling' = TRUE
  /\ UNCHANGED <<db, backups, torn, alive, preparing, confirm, crashes, kept>>

Enable ==
  /\ MayRunExclusive /\ enabling
  /\ enabling' = FALSE
  /\ db' = [db EXCEPT !.enabled = TRUE]
  /\ UNCHANGED <<backups, torn, alive, preparing, confirm, crashes, kept>>

Disable ==
  /\ MayRunExclusive
  /\ db' = [db EXCEPT !.enabled = FALSE]
  /\ UNCHANGED <<backups, torn, alive, preparing, enabling, confirm, crashes, kept>>

(* disconnect, and reset, which also empties the synchronization tables. *)
Disconnect ==
  /\ MayRunExclusive
  /\ db' = [db EXCEPT !.enabled = FALSE, !.bound = "none"]
  /\ UNCHANGED <<backups, torn, alive, preparing, enabling, confirm, crashes, kept>>

(* The user edits. Only what is edited outside of a confirmation is promised to *)
(* outlive it: its failure restores the backup.                                 *)
Edit ==
  /\ MayRun /\ db.edits < MaxEdits
  /\ db' = [db EXCEPT !.edits = @ + 1]
  /\ kept' = IF confirm.step = "none" THEN db.edits + 1 ELSE kept
  /\ UNCHANGED <<backups, torn, alive, preparing, enabling, confirm, crashes>>

Crash ==
  /\ alive /\ crashes < MaxCrashes
  /\ crashes' = crashes + 1
  /\ alive' = FALSE
  /\ torn' = (confirm.step = "restore")
  /\ preparing' = 0 /\ enabling' = FALSE /\ confirm' = NoConfirm
  /\ UNCHANGED <<db, backups, kept>>

(* onModuleInit: a confirmation that was interrupted is undone. *)
MutantStartUp ==
  /\ ~alive /\ ~torn
  /\ alive' = TRUE
  /\ UNCHANGED <<db, backups, torn, preparing, enabling, confirm, crashes, kept>>

StartUp ==
  /\ ~alive /\ ~torn
  /\ alive' = TRUE
  /\ LET o == FindActive IN
     confirm' = IF o # 0 /\ db.ops[o] = "applying"
                THEN [op |-> o, step |-> "restore", decision |-> "seed"]
                ELSE NoConfirm
  /\ UNCHANGED <<db, backups, torn, preparing, enabling, crashes, kept>>

(* The routes of SyncController for pairing, and its commands.                  *)
PairingRequests ==
  \/ StartPrepare \/ StartEnable \/ Disable \/ Disconnect
  \/ \E o \in Operations, d \in Decisions : Confirm(o, d)
  \/ \E o \in Operations : Cancel(o)

PairingNext ==
  \/ PairingRequests \/ Edit \/ Enable
  \/ PrepareFails \/ \E l, r, s \in BOOLEAN : Prepare(l, r, s)
  \/ Identified \/ WorkspaceFound \/ AdoptWorkspace \/ CreateResolvedBaseline
  \/ Reconcile \/ Bind \/ CompleteOperation
  \/ ApplyFails \/ Restore \/ SetApplying \/ FailOperation
  \/ Crash \/ StartUp

(* The process is started again, requests return or time out, statements run.   *)
PairingFairness ==
  /\ WF_pairVars(StartUp)
  /\ WF_pairVars(Identified) /\ WF_pairVars(WorkspaceFound)
  /\ WF_pairVars(Reconcile /\ confirm'.step = "verify") /\ WF_pairVars(Bind)
  /\ WF_pairVars(AdoptWorkspace \/ CreateResolvedBaseline \/ CompleteOperation
                   \/ Restore \/ SetApplying \/ FailOperation)

PairingSpec == PairingInit /\ [][PairingNext]_pairVars /\ PairingFairness

-----------------------------------------------------------------------------
(* Properties *)

(* Whenever no confirmation or recovery is at work the notes are a whole state, *)
(* and a bound account is bound to the device's workspace: confirmations that   *)
(* failed or were interrupted by a crash, at any statement, left nothing behind.*)
(* It fails when two calls of prepare overlap (MaxPreparing = 2): the row of    *)
(* the second hides the first from StartUp.                                     *)
NothingHalfApplied ==
  alive /\ confirm.step = "none" =>
    /\ db.data = "settled"
    /\ db.bound \in {"none", db.workspace}
    /\ \A o \in Operations : db.ops[o] # "applying"

(* Restoring a backup undoes no edit made outside of the confirmation it was    *)
(* taken for, also when a recovery is itself interrupted and repeated.          *)
EditsSurviveRecovery ==
  alive /\ confirm.step = "none" => db.edits >= kept

(* A confirmation ends, with crashes or without, unless a crash tore the        *)
(* database file itself.                                                        *)
ConfirmationsEnd ==
  \A o \in Operations : []<>(db.ops[o] = "applying" => torn)

=============================================================================
