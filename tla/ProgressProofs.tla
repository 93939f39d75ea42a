--------------------------- MODULE ProgressProofs ---------------------------
(* What begins comes to an end, and alone: the pairing, the uploads, and        *)
(* MCProgress, which has them side by side with the gate of                     *)
(* ReconciliationGateProofs.                                                    *)
EXTENDS MCProgress, ReconciliationGateProofs, WellFoundedInduction, TLAPS

-----------------------------------------------------------------------------
(* Confirmations that fail or are interrupted leave nothing behind, however     *)
(* many operations, edits and crashes there are, provided that calls of prepare *)
(* do not overlap. The proof shows what they must not overlap for: that there   *)
(* is one active operation (OneActive), so that the one StartUp finds is the    *)
(* interrupted one.                                                             *)

Databases ==
  [edits : 0..MaxEdits, workspace : {"local", "remote"},
   data : {"settled", "cleared", "partial"}, enabled : BOOLEAN,
   bound : {"none", "local", "remote"}, ops : [Operations -> Statuses],
   modes : [Operations -> Modes]]

(* The shape of the state the steps need.                                       *)
Shape ==
  /\ db \in Databases /\ backups \in [Operations -> Databases \cup {NoBackup}]
  /\ torn \in BOOLEAN /\ alive \in BOOLEAN /\ enabling \in BOOLEAN
  /\ preparing \in 0..MaxPreparing /\ crashes \in 0..MaxCrashes /\ kept \in 0..MaxEdits
  /\ confirm \in [op : Operations \cup {0}, step : Steps, decision : Decisions]

Whole(d) == d.data = "settled" /\ d.bound \in {"none", d.workspace}

(* The operation's backup is what to go back to: a whole state with all edits   *)
(* that are to be kept, in which the operation is prepared, and it alone.       *)
Restorable(o) ==
  /\ backups[o] \in Databases /\ Whole(backups[o]) /\ backups[o].edits >= kept
  /\ backups[o].ops[o] = "prepared"
  /\ \A p \in Operations : IsActive(backups[o].ops[p]) => p = o

(* At most one operation is prepared or applying, and none while prepare waits. *)
OneActive ==
  /\ \A o, p \in Operations : IsActive(db.ops[o]) /\ IsActive(db.ops[p]) => o = p
  /\ preparing > 0 => \A o \in Operations : ~IsActive(db.ops[o])

(* The confirmation or recovery in progress is the active operation's.          *)
InProgress ==
  /\ confirm.step # "none" =>
       /\ alive /\ confirm.op \in Operations /\ Restorable(confirm.op)
       /\ db.ops[confirm.op] = IF confirm.step = "setApplying" THEN "prepared" ELSE "applying"
  /\ confirm.step \in {"verify", "complete"} => db.data = "settled"
  /\ confirm.step = "complete" => db.bound = db.workspace
  /\ ~alive => confirm = NoConfirm /\ preparing = 0

(* An operation is applying while it is confirmed, or since a crash, and can be *)
(* undone.                                                                      *)
Interrupted ==
  \A o \in Operations :
    db.ops[o] = "applying" => Restorable(o) /\ (alive => confirm.step # "none")

(* When none is, or it has been undone, the database is whole.                  *)
Calm ==
  (\A o \in Operations : db.ops[o] # "applying") \/ confirm.step = "fail" =>
    Whole(db) /\ db.edits >= kept

PairingInv == Shape /\ OneActive /\ InProgress /\ Interrupted /\ Calm

-----------------------------------------------------------------------------
(* findActive, when there is one at most.                                       *)
LEMMA Finding ==
  ASSUME Shape, OneActive
  PROVE  /\ FindActive = 0 <=> \A o \in Operations : ~IsActive(db.ops[o])
         /\ \A o \in Operations : IsActive(db.ops[o]) => FindActive = o
<1> DEFINE active == {o \in Operations : IsActive(db.ops[o])}
<1>1. CASE active = {}
  BY <1>1 DEF FindActive
<1>2. ASSUME NEW o \in active PROVE FindActive = o /\ o # 0
  <2>1. active = {o} /\ o \in Nat /\ o # 0
    BY <1>2 DEF OneActive, Operations
  <2>2. FindActive = CHOOSE x \in {o} : \A p \in {o} : p <= x
    BY <2>1 DEF FindActive
  <2> QED
    BY <2>1, <2>2
<1> QED
  BY <1>1, <1>2

(* Steps that leave the operations and the confirmation as they are.            *)
LEMMA OtherwiseKeeps ==
  ASSUME PairingInv, Shape', alive, UNCHANGED <<db, backups, torn, alive, confirm, crashes, kept>>,
         preparing' > 0 => preparing > 0 \/ \A o \in Operations : ~IsActive(db.ops[o])
  PROVE  PairingInv'
<1>1. OneActive' /\ InProgress'
  BY DEF PairingInv, OneActive, InProgress, Restorable
<1>2. Interrupted' /\ Calm'
  BY DEF PairingInv, Interrupted, Calm, Restorable
<1> QED
  BY <1>1, <1>2 DEF PairingInv

-----------------------------------------------------------------------------
(* prepare, cancel *)

LEMMA StartPrepareKeeps ==
  ASSUME PairingInv, StartPrepare
  PROVE  PairingInv'
<1>1. Shape'
  BY PairingAssumption DEF StartPrepare, PairingInv, Shape
<1>2. \A o \in Operations : ~IsActive(db.ops[o])
  BY Finding DEF StartPrepare, PairingInv
<1> QED
  BY <1>1, <1>2, OtherwiseKeeps DEF StartPrepare, MayRun

LEMMA PrepareFailsKeeps ==
  ASSUME PairingInv, PrepareFails
  PROVE  PairingInv'
<1>1. Shape'
  BY PairingAssumption DEF PrepareFails, PairingInv, Shape
<1>2. preparing > 0
  BY DEF PrepareFails
<1> QED
  BY <1>1, <1>2, OtherwiseKeeps DEF PrepareFails, MayRun

(* The only call of prepare inserts the only active operation.                  *)
LEMMA PrepareKeeps ==
  ASSUME MaxPreparing <= 1, PairingInv,
         NEW l \in BOOLEAN, NEW r \in BOOLEAN, NEW s \in BOOLEAN, Prepare(l, r, s)
  PROVE  PairingInv'
<1> USE DEF PairingInv
<1>1. PICK n \in Operations :
        /\ db.ops[n] = "none"
        /\ db' = [db EXCEPT !.ops[n] = "prepared", !.modes[n] = Mode(l, r, s)]
  BY DEF Prepare
<1>2. /\ alive /\ preparing = 1 /\ preparing' = 0 /\ 0 \in 0..MaxPreparing
      /\ UNCHANGED <<backups, torn, alive, enabling, confirm, crashes, kept>>
  BY PairingAssumption DEF Prepare, MayRun, Shape
<1>3. Mode(l, r, s) \in Modes
  BY DEF Mode, Modes
<1>4. \A o \in Operations : ~IsActive(db.ops[o])
  BY <1>2 DEF OneActive
<1>5. /\ db' \in Databases /\ (Whole(db) => Whole(db')) /\ db'.edits = db.edits
      /\ \A o \in Operations : db'.ops[o] = IF o = n THEN "prepared" ELSE db.ops[o]
  BY <1>1, <1>3 DEF Shape, Databases, Whole, Statuses
<1>6. Shape'
  BY <1>2, <1>5 DEF Shape
<1>7. OneActive'
  BY <1>2, <1>4, <1>5 DEF OneActive
<1>8. confirm.step = "none"
  BY <1>4 DEF InProgress, IsActive
<1>9. InProgress' /\ Interrupted'
  BY <1>2, <1>4, <1>5, <1>8 DEF InProgress, Interrupted, IsActive
<1>10. Calm'
  BY <1>2, <1>4, <1>5 DEF Calm, IsActive, Whole
<1> QED
  BY <1>6, <1>7, <1>9, <1>10

(* An operation that is not in a confirmation, and leaves a whole database.     *)
LEMMA AloneKeeps ==
  ASSUME PairingInv, Shape', alive, confirm.step = "none",
         Whole(db'), db'.edits >= kept',
         \A o \in Operations : /\ db'.ops[o] # "applying"
                               /\ IsActive(db'.ops[o]) => IsActive(db.ops[o]),
         UNCHANGED <<alive, preparing, confirm>>
  PROVE  PairingInv'
<1>1. OneActive'
  BY DEF PairingInv, OneActive
<1>2. InProgress' /\ Interrupted' /\ Calm'
  BY DEF InProgress, Interrupted, Calm
<1> QED
  BY <1>1, <1>2 DEF PairingInv

(* Outside of a confirmation the database is whole.                             *)
LEMMA AloneIsCalm ==
  ASSUME PairingInv, alive, confirm.step = "none"
  PROVE  /\ \A o \in Operations : db.ops[o] # "applying"
         /\ Whole(db) /\ db.edits >= kept
BY DEF PairingInv, Interrupted, Calm

LEMMA CancelKeeps ==
  ASSUME PairingInv, NEW o \in Operations, Cancel(o)
  PROVE  PairingInv'
<1>1. alive /\ confirm.step = "none" /\ db.ops[o] = "prepared"
  BY DEF Cancel, MayRunExclusive
<1>2. /\ db' \in Databases /\ (Whole(db) => Whole(db')) /\ db'.edits = db.edits
      /\ \A p \in Operations : db'.ops[p] = IF p = o THEN "cancelled" ELSE db.ops[p]
  BY DEF Cancel, SetStatus, PairingInv, Shape, Databases, Whole, Statuses
<1>3. Shape'
  BY <1>2 DEF Cancel, PairingInv, Shape
<1> QED
  BY <1>1, <1>2, <1>3, AloneKeeps, AloneIsCalm DEF Cancel, IsActive

LEMMA AccountKeeps ==
  ASSUME PairingInv, Enable \/ Disable \/ Disconnect
  PROVE  PairingInv'
<1>1. /\ alive /\ confirm.step = "none"
      /\ UNCHANGED <<backups, torn, alive, preparing, confirm, crashes, kept>>
      /\ enabling' \in BOOLEAN
  BY DEF Enable, Disable, Disconnect, MayRunExclusive, PairingInv, Shape
<1>2. /\ db' \in Databases /\ (Whole(db) => Whole(db')) /\ db'.edits = db.edits
      /\ db'.ops = db.ops
  BY DEF Enable, Disable, Disconnect, PairingInv, Shape, Databases, Whole
<1>3. Shape'
  BY <1>1, <1>2 DEF PairingInv, Shape
<1> QED
  BY <1>1, <1>2, <1>3, AloneKeeps, AloneIsCalm

LEMMA StartEnableKeeps ==
  ASSUME PairingInv, StartEnable
  PROVE  PairingInv'
<1>1. Shape'
  BY DEF StartEnable, PairingInv, Shape
<1> QED
  BY <1>1, OtherwiseKeeps DEF StartEnable, MayRun

-----------------------------------------------------------------------------
(* confirm and apply *)

(* A confirmation begins; its backup is the whole database of that moment.      *)
LEMMA ConfirmKeeps ==
  ASSUME PairingInv, NEW o \in Operations, NEW d \in Decisions, Confirm(o, d)
  PROVE  PairingInv'
<1> USE DEF PairingInv
<1>1. /\ alive /\ confirm.step = "none" /\ db.ops[o] = "prepared" /\ db \in Databases
      /\ backups' = [backups EXCEPT ![o] = db]
      /\ confirm' = [op |-> o, step |-> "identity", decision |-> d]
      /\ UNCHANGED <<torn, alive, preparing, enabling, crashes, kept>>
  BY DEF Confirm, MayRunExclusive, Shape
<1>2. /\ db' \in Databases
      /\ \A p \in Operations : db'.ops[p] = IF p = o THEN "applying" ELSE db.ops[p]
  BY DEF Confirm, SetStatus, Shape, Databases, Statuses
<1>3. Whole(db) /\ db.edits >= kept /\ \A p \in Operations : IsActive(db.ops[p]) => p = o
  BY <1>1, AloneIsCalm DEF OneActive, IsActive
<1>4. Shape'
  BY <1>1, <1>2 DEF Shape, Steps
<1>5. Restorable(o)'
  BY <1>1, <1>3 DEF Restorable, Shape
<1>6. OneActive'
  BY <1>1, <1>2, <1>3 DEF OneActive, IsActive
<1>7. InProgress' /\ Interrupted' /\ Calm'
  BY <1>1, <1>2, <1>3, <1>5 DEF InProgress, Interrupted, Calm, IsActive
<1> QED
  BY <1>4, <1>6, <1>7

(* apply goes on, or the user edits meanwhile: the operation is applying still. *)
LEMMA ApplyGoesOn ==
  ASSUME PairingInv, alive, confirm.step \notin {"none", "setApplying", "fail"},
         NEW s \in Steps \ {"none", "setApplying", "fail"}, ConfirmGoes(s),
         db' \in Databases, db'.ops = db.ops,
         s \in {"verify", "complete"} => db'.data = "settled",
         s = "complete" => db'.bound = db'.workspace,
         UNCHANGED <<backups, torn, alive, preparing, enabling, crashes, kept>>
  PROVE  PairingInv'
<1> USE DEF PairingInv
<1>1. /\ confirm'.step = s /\ confirm'.op = confirm.op
      /\ confirm' \in [op : Operations \cup {0}, step : Steps, decision : Decisions]
  BY DEF ConfirmGoes, Shape
<1>2. Shape' /\ OneActive'
  BY <1>1 DEF Shape, OneActive
<1>3. InProgress' /\ Interrupted' /\ Calm'
  BY <1>1 DEF InProgress, Interrupted, Calm, Restorable
<1> QED
  BY <1>2, <1>3

LEMMA RequestsKeep ==
  ASSUME PairingInv, Identified \/ WorkspaceFound \/ ApplyFails
  PROVE  PairingInv'
<1>1. PICK s \in {"workspace", "adopt", "baseline", "restore"} : ConfirmGoes(s)
  BY DEF Identified, WorkspaceFound, ApplyFails
<1>2. db' \in Databases /\ db'.ops = db.ops
  BY DEF Identified, WorkspaceFound, ApplyFails, PairingInv, Shape, Databases
<1>3. /\ alive /\ confirm.step \notin {"none", "setApplying", "fail"}
      /\ UNCHANGED <<backups, torn, alive, preparing, enabling, crashes, kept>>
  BY DEF Identified, WorkspaceFound, ApplyFails
<1> QED
  BY <1>1, <1>2, <1>3, ApplyGoesOn DEF Steps

LEMMA WorkspaceKeeps ==
  ASSUME PairingInv, AdoptWorkspace \/ CreateResolvedBaseline
  PROVE  PairingInv'
<1>1. PICK s \in {"baseline", "pass"} : ConfirmGoes(s)
  BY DEF AdoptWorkspace, CreateResolvedBaseline
<1>2. db' \in Databases /\ db'.ops = db.ops
  BY DEF AdoptWorkspace, CreateResolvedBaseline, PairingInv, Shape, Databases
<1> QED
  BY <1>1, <1>2, ApplyGoesOn DEF AdoptWorkspace, CreateResolvedBaseline, Steps

LEMMA ReconcileKeeps ==
  ASSUME PairingInv, Reconcile
  PROVE  PairingInv'
<1>1. db' \in Databases /\ db'.ops = db.ops
  BY DEF Reconcile, PairingInv, Shape, Databases
<1>2. CASE ConfirmGoes("verify") /\ db' = [db EXCEPT !.data = "settled"]
  <2>1. db'.data = "settled"
    BY <1>2 DEF PairingInv, Shape, Databases
  <2> QED
    BY <1>1, <1>2, <2>1, ApplyGoesOn DEF Reconcile, Steps
<1>3. CASE UNCHANGED confirm
  <2>1. ConfirmGoes("pass")
    BY <1>3 DEF Reconcile, ConfirmGoes, PairingInv, Shape
  <2> QED
    BY <1>1, <2>1, ApplyGoesOn DEF Reconcile, Steps
<1> QED
  BY <1>2, <1>3 DEF Reconcile

LEMMA BindKeeps ==
  ASSUME PairingInv, Bind
  PROVE  PairingInv'
<1>1. /\ db' \in Databases /\ db'.ops = db.ops /\ db'.data = db.data
      /\ db'.bound = db'.workspace
  BY DEF Bind, PairingInv, Shape, Databases
<1>2. db.data = "settled"
  BY DEF Bind, PairingInv, InProgress
<1> QED
  BY <1>1, <1>2, ApplyGoesOn DEF Bind, Steps

(* The operation ends, completed or failed, with a whole database.              *)
LEMMA OperationEnds ==
  ASSUME PairingInv, alive, confirm.step \notin {"none", "setApplying"}, confirm' = NoConfirm,
         NEW status \in {"completed", "failed"}, db' = SetStatus(confirm.op, status),
         Whole(db), kept' \in 0..MaxEdits, db.edits >= kept',
         UNCHANGED <<backups, torn, alive, preparing, enabling, crashes>>
  PROVE  PairingInv'
<1> USE DEF PairingInv
<1>1. confirm.op \in Operations /\ db.ops[confirm.op] = "applying"
  BY DEF InProgress
<1>2. /\ db' \in Databases /\ Whole(db') /\ db'.edits = db.edits
      /\ \A p \in Operations : db'.ops[p] = IF p = confirm.op THEN status ELSE db.ops[p]
  BY <1>1 DEF SetStatus, Shape, Databases, Whole, Statuses
<1>3. \A p \in Operations : IsActive(db.ops[p]) => p = confirm.op
  BY <1>1 DEF OneActive, IsActive
<1>4. \A p \in Operations : ~IsActive(db'.ops[p])
  BY <1>2, <1>3 DEF IsActive
<1>5. confirm' \in [op : Operations \cup {0}, step : Steps, decision : Decisions]
      /\ confirm'.step = "none"
  BY DEF NoConfirm, Steps, Decisions
<1>6. Shape' /\ OneActive'
  BY <1>2, <1>4, <1>5 DEF Shape, OneActive
<1>7. InProgress' /\ Interrupted' /\ Calm'
  BY <1>2, <1>4, <1>5 DEF InProgress, Interrupted, Calm, IsActive
<1> QED
  BY <1>6, <1>7

LEMMA CompleteOperationKeeps ==
  ASSUME PairingInv, CompleteOperation
  PROVE  PairingInv'
<1>1. Whole(db) /\ db.edits \in 0..MaxEdits
  BY DEF CompleteOperation, PairingInv, InProgress, Shape, Databases, Whole
<1>2. db.edits >= db.edits
  BY <1>1
<1> QED
  BY <1>1, <1>2, OperationEnds DEF CompleteOperation

LEMMA FailOperationKeeps ==
  ASSUME PairingInv, FailOperation
  PROVE  PairingInv'
<1>1. Whole(db) /\ db.edits >= kept /\ kept' = kept /\ kept \in 0..MaxEdits
  BY DEF FailOperation, PairingInv, Calm, Shape
<1> QED
  BY <1>1, OperationEnds DEF FailOperation

(* The backup is copied over the database: the operation is prepared again.     *)
LEMMA RestoreKeeps ==
  ASSUME PairingInv, Restore
  PROVE  PairingInv'
<1> USE DEF PairingInv
<1>1. /\ alive /\ confirm.op \in Operations /\ Restorable(confirm.op)
      /\ db.ops[confirm.op] = "applying" /\ preparing = 0
  BY DEF Restore, InProgress, OneActive, IsActive, Shape
<1>2. /\ db' = backups[confirm.op] /\ confirm'.step = "setApplying" /\ confirm'.op = confirm.op
      /\ confirm' \in [op : Operations \cup {0}, step : Steps, decision : Decisions]
      /\ UNCHANGED <<backups, torn, alive, preparing, enabling, crashes, kept>>
  BY DEF Restore, ConfirmGoes, Shape, Steps
<1>3. Shape' /\ OneActive'
  BY <1>1, <1>2 DEF Shape, OneActive, Restorable
<1>4. \A o \in Operations : db'.ops[o] # "applying"
  BY <1>1, <1>2 DEF Restorable, IsActive
<1>5. InProgress' /\ Interrupted' /\ Calm'
  BY <1>1, <1>2, <1>4 DEF InProgress, Interrupted, Calm, Restorable
<1> QED
  BY <1>3, <1>5

LEMMA SetApplyingKeeps ==
  ASSUME PairingInv, SetApplying
  PROVE  PairingInv'
<1> USE DEF PairingInv
<1>1. /\ alive /\ confirm.op \in Operations /\ Restorable(confirm.op)
      /\ db.ops[confirm.op] = "prepared"
  BY DEF SetApplying, InProgress
<1>2. \A o \in Operations : IsActive(db.ops[o]) => o = confirm.op
  BY <1>1 DEF OneActive, IsActive
<1>3. Whole(db) /\ db.edits >= kept
  BY <1>1, <1>2 DEF Calm, IsActive
<1>4. /\ db' \in Databases /\ (Whole(db) => Whole(db')) /\ db'.edits = db.edits
      /\ \A o \in Operations : db'.ops[o] = IF o = confirm.op THEN "applying" ELSE db.ops[o]
  BY <1>1 DEF SetApplying, SetStatus, Shape, Databases, Whole, Statuses
<1>5. /\ confirm'.step = "fail" /\ confirm'.op = confirm.op
      /\ confirm' \in [op : Operations \cup {0}, step : Steps, decision : Decisions]
      /\ UNCHANGED <<backups, torn, alive, preparing, enabling, crashes, kept>>
  BY DEF SetApplying, ConfirmGoes, Shape, Steps
<1>6. Shape' /\ OneActive'
  BY <1>1, <1>2, <1>4, <1>5 DEF Shape, OneActive, IsActive
<1>7. InProgress' /\ Interrupted' /\ Calm'
  BY <1>1, <1>2, <1>3, <1>4, <1>5 DEF InProgress, Interrupted, Calm, Restorable, IsActive
<1> QED
  BY <1>6, <1>7

-----------------------------------------------------------------------------
(* The user, crashes and starts *)

LEMMA EditKeeps ==
  ASSUME PairingInv, Edit
  PROVE  PairingInv'
<1>1. /\ alive /\ db.edits \in 0..MaxEdits /\ db.edits < MaxEdits /\ kept \in 0..MaxEdits
      /\ UNCHANGED <<backups, torn, alive, preparing, enabling, confirm, crashes>>
  BY DEF Edit, MayRun, PairingInv, Shape, Databases
<1>2. db.edits + 1 \in 0..MaxEdits
  BY <1>1, PairingAssumption
<1>3. /\ db' \in Databases /\ db'.edits = db.edits + 1 /\ db'.ops = db.ops
      /\ db'.data = db.data /\ db'.bound = db.bound /\ db'.workspace = db.workspace
  BY <1>2 DEF Edit, PairingInv, Shape, Databases
<1>4. CASE confirm.step = "none"
  <2>1. kept' = db'.edits /\ kept' \in 0..MaxEdits /\ db'.edits >= kept'
    BY <1>1, <1>2, <1>3, <1>4 DEF Edit
  <2>2. Shape'
    BY <1>1, <1>3, <2>1 DEF PairingInv, Shape
  <2>3. Whole(db')
    BY <1>1, <1>3, <1>4, AloneIsCalm DEF Whole
  <2> QED
    BY <1>1, <1>3, <1>4, <2>1, <2>2, <2>3, AloneKeeps, AloneIsCalm
<1>5. CASE confirm.step # "none"
  <2>1. kept' = kept /\ confirm.step \notin Uninterrupted /\ confirm.step \in Steps
    BY <1>5 DEF Edit, MayRun, PairingInv, Shape
  <2>2. ConfirmGoes(confirm.step)
    BY <1>1 DEF ConfirmGoes, PairingInv, Shape
  <2>3. confirm.step = "verify" => db'.data = "settled"
    BY <1>3 DEF PairingInv, InProgress
  <2> QED
    BY <1>1, <1>3, <1>5, <2>1, <2>2, <2>3, ApplyGoesOn DEF Uninterrupted
<1> QED
  BY <1>4, <1>5

LEMMA CrashKeeps ==
  ASSUME PairingInv, Crash
  PROVE  PairingInv'
<1> USE DEF PairingInv
<1>1. /\ alive' = FALSE /\ confirm' = NoConfirm /\ preparing' = 0 /\ enabling' = FALSE
      /\ torn' \in BOOLEAN /\ crashes' \in 0..MaxCrashes /\ 0 \in 0..MaxPreparing
      /\ UNCHANGED <<db, backups, kept>>
  BY PairingAssumption DEF Crash, Shape
<1>2. confirm' \in [op : Operations \cup {0}, step : Steps, decision : Decisions]
      /\ confirm'.step = "none"
  BY <1>1 DEF NoConfirm, Steps, Decisions
<1>3. Shape'
  BY <1>1, <1>2 DEF Shape
<1>4. OneActive'
  BY <1>1 DEF OneActive
<1>5. InProgress'
  BY <1>1, <1>2 DEF InProgress
<1>6. Interrupted' /\ Calm'
  BY <1>1, <1>2 DEF Interrupted, Calm, Restorable
<1> QED
  BY <1>3, <1>4, <1>5, <1>6

(* The operation that was being confirmed is found, since it is the only one    *)
(* that is active.                                                              *)
LEMMA StartUpKeeps ==
  ASSUME PairingInv, StartUp
  PROVE  PairingInv'
<1> USE DEF PairingInv
<1>1. /\ ~alive /\ alive' = TRUE /\ confirm = NoConfirm /\ preparing = 0
      /\ UNCHANGED <<db, backups, torn, preparing, enabling, crashes, kept>>
  BY DEF StartUp, InProgress
<1>2. CASE \A o \in Operations : db.ops[o] # "applying"
  <2>1. FindActive # 0 => FindActive \in Operations
    BY Finding
  <2>2. confirm' = NoConfirm
    BY <1>2, <2>1 DEF StartUp
  <2> QED
    BY <1>1, <1>2, <2>2
    DEF Shape, OneActive, InProgress, Interrupted, Calm, Restorable, NoConfirm
<1>3. ASSUME NEW o \in Operations, db.ops[o] = "applying" PROVE PairingInv'
  <2>1. FindActive = o /\ o # 0
    BY <1>3, Finding DEF IsActive, Operations
  <2>2. confirm' = [op |-> o, step |-> "restore", decision |-> "seed"]
    BY <1>3, <2>1 DEF StartUp
  <2>3. Shape' /\ OneActive'
    BY <1>1, <2>2 DEF Shape, OneActive, Steps, Decisions
  <2>4. InProgress' /\ Interrupted' /\ Calm'
    BY <1>1, <1>3, <2>2 DEF InProgress, Interrupted, Calm, Restorable
  <2> QED
    BY <2>3, <2>4
<1> QED
  BY <1>2, <1>3

-----------------------------------------------------------------------------
(* The theorems *)

LEMMA PairingInitInv == PairingInit => PairingInv
<1> SUFFICES ASSUME PairingInit PROVE PairingInv
  OBVIOUS
<1>1. /\ 0 \in 0..MaxEdits /\ 0 \in 0..MaxPreparing /\ 0 \in 0..MaxCrashes
  BY PairingAssumption
<1>2. InitialDatabase \in Databases
  BY <1>1 DEF InitialDatabase, Databases, Statuses, Modes
<1>3. confirm \in [op : Operations \cup {0}, step : Steps, decision : Decisions]
  BY DEF PairingInit, NoConfirm, Steps, Decisions
<1>4. Shape
  BY <1>1, <1>2, <1>3 DEF PairingInit, Shape
<1>5. OneActive /\ InProgress /\ Interrupted
  BY DEF PairingInit, OneActive, InProgress, Interrupted, InitialDatabase, IsActive, NoConfirm
<1>6. Calm
  BY DEF PairingInit, Calm, Whole, InitialDatabase
<1> QED
  BY <1>4, <1>5, <1>6 DEF PairingInv

LEMMA PairingStepInv ==
  ASSUME MaxPreparing <= 1
  PROVE  PairingInv /\ [PairingNext]_pairVars => PairingInv'
<1> SUFFICES ASSUME PairingInv, [PairingNext]_pairVars PROVE PairingInv'
  OBVIOUS
<1>1. CASE PairingRequests
  BY <1>1, StartPrepareKeeps, StartEnableKeeps, AccountKeeps, ConfirmKeeps, CancelKeeps
  DEF PairingRequests
<1>2. CASE Edit \/ Enable
  BY <1>2, EditKeeps, AccountKeeps
<1>3. CASE PrepareFails \/ \E l, r, s \in BOOLEAN : Prepare(l, r, s)
  BY <1>3, PrepareFailsKeeps, PrepareKeeps
<1>4. CASE Identified \/ WorkspaceFound \/ AdoptWorkspace \/ CreateResolvedBaseline
  BY <1>4, RequestsKeep, WorkspaceKeeps
<1>5. CASE Reconcile \/ Bind \/ CompleteOperation
  BY <1>5, ReconcileKeeps, BindKeeps, CompleteOperationKeeps
<1>6. CASE ApplyFails \/ Restore \/ SetApplying \/ FailOperation
  BY <1>6, RequestsKeep, RestoreKeeps, SetApplyingKeeps, FailOperationKeeps
<1>7. CASE Crash \/ StartUp
  BY <1>7, CrashKeeps, StartUpKeeps
<1>8. CASE UNCHANGED pairVars
  BY <1>8 DEF pairVars, PairingInv, Shape, OneActive, InProgress, Interrupted, Calm, Restorable
<1> QED
  BY <1>1, <1>2, <1>3, <1>4, <1>5, <1>6, <1>7, <1>8 DEF PairingNext

(* One operation is active at most, and what is being confirmed can be undone,  *)
(* in every reachable state.                                                    *)
THEOREM PairingInvariance ==
  ASSUME MaxPreparing <= 1
  PROVE  PairingSpec => []PairingInv
BY PairingInitInv, PairingStepInv, PTL DEF PairingSpec

(* As long as calls of prepare do not overlap: when no confirmation or recovery *)
(* is at work, those that failed or were interrupted, at whatever statement and *)
(* however often, left nothing behind.                                          *)
THEOREM RecoveryIsComplete ==
  ASSUME MaxPreparing <= 1
  PROVE  PairingSpec => []NothingHalfApplied
<1>1. PairingInv => NothingHalfApplied
  BY AloneIsCalm DEF NothingHalfApplied, Whole
<1> QED
  BY <1>1, PairingInvariance, PTL

(* And no edit made outside of a confirmation is undone by its recovery.        *)
THEOREM RecoveryKeepsEdits ==
  ASSUME MaxPreparing <= 1
  PROVE  PairingSpec => []EditsSurviveRecovery
<1>1. PairingInv => EditsSurviveRecovery
  BY AloneIsCalm DEF EditsSurviveRecovery
<1> QED
  BY <1>1, PairingInvariance, PTL

-----------------------------------------------------------------------------
(* What rows say, whether calls of prepare overlap or not. An operation that is *)
(* applying in a file, be it the database or a backup, has a backup; so has the *)
(* one being confirmed or undone, and a restore has something to copy.          *)

Backed(d) == \A o \in Operations : d.ops[o] = "applying" => backups[o] # NoBackup

PairingShaped ==
  /\ Shape
  /\ confirm.step # "none" => confirm.op \in Operations /\ backups[confirm.op] # NoBackup
  /\ Backed(db)
  /\ \A o \in Operations : backups[o] # NoBackup => Backed(backups[o])

(* A nonempty set of operations has a newest one.                               *)
LEMMA Newest ==
  ASSUME NEW S, S \subseteq Operations, S # {}
  PROVE  \E o \in S : \A p \in S : p <= o
<1> DEFINE ages == {MaxOperations - o : o \in S}
<1>1. ages \subseteq Nat /\ ages # {}
  <2>1. PICK o \in S : TRUE
    OBVIOUS
  <2>2. MaxOperations - o \in ages
    BY <2>1
  <2> QED
    BY <2>2, PairingAssumption DEF Operations
<1>2. PICK a \in ages : \A b \in ages : <<b, a>> \notin OpToRel(<, Nat)
  BY <1>1, WFMin, NatLessThanWellFounded
<1>3. \A b \in ages : ~(b < a)
  BY <1>1, <1>2 DEF OpToRel
<1>4. PICK o \in S : a = MaxOperations - o
  BY <1>2
<1>5. \A p \in S : ~(MaxOperations - p < MaxOperations - o)
  BY <1>3, <1>4
<1> QED
  BY <1>5, PairingAssumption DEF Operations

(* findActive returns an operation, when it does not return 0.                  *)
LEMMA FindsOperation == FindActive # 0 => FindActive \in Operations
<1> DEFINE active == {o \in Operations : IsActive(db.ops[o])}
<1>1. ASSUME active # {} PROVE FindActive \in active
  <2>1. \E o \in active : \A p \in active : p <= o
    BY <1>1, Newest
  <2>2. FindActive = CHOOSE o \in active : \A p \in active : p <= o
    BY <1>1 DEF FindActive
  <2> QED
    BY <2>1, <2>2
<1>2. CASE active = {}
  BY <1>2 DEF FindActive
<1> QED
  BY <1>1, <1>2

(* A step that makes no backup, and no operation applying that has none.        *)
LEMMA RowsKept ==
  ASSUME PairingShaped, Shape', UNCHANGED backups,
         \A o \in Operations :
           db'.ops[o] = "applying" => db.ops[o] = "applying" \/ backups[o] # NoBackup,
         \/ confirm'.step = "none"
         \/ confirm'.op = confirm.op /\ confirm.step # "none"
         \/ confirm'.op \in Operations /\ db.ops[confirm'.op] = "applying"
  PROVE  PairingShaped'
BY DEF PairingShaped, Backed

(* What is not about confirmations.                                             *)
LEMMA RequestsShaped ==
  ASSUME PairingShaped,
         \/ StartPrepare \/ StartEnable \/ Disable \/ Disconnect \/ Edit \/ Enable \/ PrepareFails
         \/ \E l, r, s \in BOOLEAN : Prepare(l, r, s)
         \/ \E o \in Operations : Cancel(o)
         \/ Crash
  PROVE  PairingShaped'
<1> USE PairingAssumption DEF PairingShaped, Shape
<1>1. CASE StartPrepare
  BY <1>1, RowsKept DEF StartPrepare
<1>2. CASE PrepareFails
  BY <1>2, RowsKept DEF PrepareFails
<1>3. CASE StartEnable
  BY <1>3, RowsKept DEF StartEnable
<1>4. CASE Disable \/ Disconnect \/ Enable
  <2>1. db' \in Databases /\ db'.ops = db.ops
    <3>1. CASE Disable
      BY <3>1 DEF Disable, Databases
    <3>2. CASE Disconnect
      BY <3>2 DEF Disconnect, Databases
    <3>3. CASE Enable
      BY <3>3 DEF Enable, Databases
    <3> QED
      BY <1>4, <3>1, <3>2, <3>3
  <2>2. enabling' \in BOOLEAN
    BY <1>4 DEF Disable, Disconnect, Enable
  <2>3. UNCHANGED <<backups, torn, alive, preparing, confirm, crashes, kept>>
    BY <1>4 DEF Disable, Disconnect, Enable
  <2> QED
    BY <2>1, <2>2, <2>3, RowsKept
<1>5. CASE Edit
  <2>1. db' \in Databases /\ db'.ops = db.ops /\ kept' \in 0..MaxEdits
    BY <1>5 DEF Edit, Databases
  <2> QED
    BY <1>5, <2>1, RowsKept DEF Edit
<1>6. CASE \E l, r, s \in BOOLEAN : Prepare(l, r, s)
  <2>1. PICK l \in BOOLEAN, r \in BOOLEAN, s \in BOOLEAN : Prepare(l, r, s)
    BY <1>6
  <2>2. Mode(l, r, s) \in Modes
    BY DEF Mode, Modes
  <2>3. PICK o \in Operations :
          db' = [db EXCEPT !.ops[o] = "prepared", !.modes[o] = Mode(l, r, s)]
    BY <2>1 DEF Prepare
  <2>4. db' \in Databases /\ \A p \in Operations : db'.ops[p] \in {"prepared", db.ops[p]}
    BY <2>2, <2>3 DEF Databases, Statuses
  <2>5. preparing > 0 /\ preparing' = preparing - 1
        /\ UNCHANGED <<backups, torn, alive, enabling, confirm, crashes, kept>>
    BY <2>1 DEF Prepare
  <2>6. preparing' \in 0..MaxPreparing
    BY <2>5
  <2> QED
    BY <2>4, <2>5, <2>6, RowsKept
<1>7. CASE \E o \in Operations : Cancel(o)
  <2>1. PICK o \in Operations : Cancel(o)
    BY <1>7
  <2>2. db' \in Databases /\ \A p \in Operations : db'.ops[p] \in {"cancelled", db.ops[p]}
    BY <2>1 DEF Cancel, SetStatus, Databases, Statuses
  <2> QED
    BY <2>1, <2>2, RowsKept DEF Cancel
<1>8. CASE Crash
  <2>1. torn' \in BOOLEAN /\ alive' \in BOOLEAN /\ enabling' \in BOOLEAN
    BY <1>8 DEF Crash
  <2>2. confirm' \in [op : Operations \cup {0}, step : Steps, decision : Decisions]
        /\ confirm'.step = "none"
    BY <1>8 DEF Crash, NoConfirm, Steps, Decisions
  <2>3. /\ preparing' \in 0..MaxPreparing /\ crashes' \in 0..MaxCrashes
        /\ UNCHANGED <<db, backups, kept>>
    BY <1>8 DEF Crash
  <2> QED
    BY <2>1, <2>2, <2>3, RowsKept
<1> QED
  BY <1>1, <1>2, <1>3, <1>4, <1>5, <1>6, <1>7, <1>8

(* The backup of a confirmation is a copy of the database it may be restored to.*)
LEMMA ConfirmShaped ==
  ASSUME PairingShaped, NEW o \in Operations, NEW d \in Decisions, Confirm(o, d)
  PROVE  PairingShaped'
<1> USE DEF PairingShaped, Shape, Databases, Statuses, Confirm, SetStatus
<1>1. db # NoBackup
  BY DEF NoBackup
<1>2. Shape'
  BY DEF Steps
<1>3. \A p \in Operations : backups[p] # NoBackup => backups'[p] # NoBackup
  BY <1>1
<1>4. backups'[o] # NoBackup
  BY <1>1
<1>5. Backed(db)' /\ \A p \in Operations : backups'[p] # NoBackup => Backed(backups[p])'
  BY <1>3, <1>4 DEF Backed
<1> QED
  BY <1>2, <1>4, <1>5

(* The steps of a confirmation and of its recovery.                             *)
LEMMA ConfirmationsShaped ==
  ASSUME PairingShaped,
         \/ Identified \/ WorkspaceFound \/ AdoptWorkspace \/ CreateResolvedBaseline
         \/ Reconcile \/ Bind \/ CompleteOperation
         \/ ApplyFails \/ Restore \/ SetApplying \/ FailOperation
  PROVE  PairingShaped'
<1> USE DEF PairingShaped, Shape
<1>1. /\ confirm.step # "none"
      /\ UNCHANGED <<backups, torn, alive, preparing, enabling, crashes>>
  BY DEF Identified, WorkspaceFound, AdoptWorkspace, CreateResolvedBaseline, Reconcile, Bind,
         CompleteOperation, ApplyFails, Restore, SetApplying, FailOperation
<1>2. confirm.op \in Operations /\ backups[confirm.op] # NoBackup
  BY <1>1
<1>3. /\ confirm' \in [op : Operations \cup {0}, step : Steps, decision : Decisions]
      /\ confirm'.step = "none" \/ confirm'.op = confirm.op
  BY DEF Identified, WorkspaceFound, AdoptWorkspace, CreateResolvedBaseline, Reconcile, Bind,
         CompleteOperation, ApplyFails, Restore, SetApplying, FailOperation,
         ConfirmGoes, NoConfirm, Steps, Decisions
<1>4. CASE Identified \/ CreateResolvedBaseline \/ ApplyFails
  BY <1>1, <1>3, <1>4, RowsKept DEF Identified, CreateResolvedBaseline, ApplyFails
<1>5. CASE WorkspaceFound \/ AdoptWorkspace \/ Bind \/ Reconcile
  <2>1. db' \in Databases /\ db'.ops = db.ops
    <3>1. ASSUME NEW d \in {"settled", "cleared", "partial"}
          PROVE  [db EXCEPT !.data = d] \in Databases /\ [db EXCEPT !.data = d].ops = db.ops
      BY DEF Databases
    <3>2. CASE WorkspaceFound \/ Reconcile
      BY <3>1, <3>2 DEF WorkspaceFound, Reconcile
    <3>3. CASE AdoptWorkspace
      BY <3>3 DEF AdoptWorkspace, Databases
    <3>4. CASE Bind
      BY <3>4 DEF Bind, Databases
    <3> QED
      BY <1>5, <3>2, <3>3, <3>4
  <2>2. kept' = kept
    BY <1>5 DEF WorkspaceFound, AdoptWorkspace, Bind, Reconcile
  <2> QED
    BY <1>1, <1>3, <2>1, <2>2, RowsKept
<1>6. CASE CompleteOperation \/ FailOperation \/ SetApplying
  <2>1. PICK status \in Statuses : db' = SetStatus(confirm.op, status)
    BY <1>6 DEF CompleteOperation, FailOperation, SetApplying, Statuses
  <2>2. /\ db' \in Databases
        /\ \A o \in Operations : o # confirm.op => db'.ops[o] = db.ops[o]
    BY <1>2, <2>1 DEF SetStatus, Databases
  <2>3. kept' \in 0..MaxEdits
    BY <1>6 DEF CompleteOperation, FailOperation, SetApplying, Databases
  <2> QED
    BY <1>1, <1>2, <1>3, <2>2, <2>3, RowsKept
<1>7. CASE Restore
  BY <1>1, <1>2, <1>3, <1>7, RowsKept DEF Restore, Backed
<1> QED
  BY <1>4, <1>5, <1>6, <1>7

(* The recovery at the start is that of an operation that was applying.         *)
LEMMA StartUpShaped ==
  ASSUME PairingShaped, StartUp
  PROVE  PairingShaped'
<1>1. Shape'
  BY FindsOperation DEF StartUp, PairingShaped, Shape, Steps, Decisions, NoConfirm
<1> QED
  BY <1>1, FindsOperation, RowsKept DEF StartUp, NoConfirm

LEMMA PairingStepShaped ==
  ASSUME PairingShaped, [PairingNext]_pairVars
  PROVE  PairingShaped'
<1>1. CASE UNCHANGED pairVars
  BY <1>1 DEF pairVars, PairingShaped, Shape, Backed
<1> QED
  BY <1>1, RequestsShaped, ConfirmShaped, ConfirmationsShaped, StartUpShaped
     DEF PairingNext, PairingRequests

LEMMA PairingInitShaped == PairingInit => PairingShaped
<1> SUFFICES ASSUME PairingInit PROVE PairingShaped
  OBVIOUS
<1>1. db \in Databases
  BY PairingAssumption DEF PairingInit, Databases, InitialDatabase, Statuses, Modes
<1>2. confirm \in [op : Operations \cup {0}, step : Steps, decision : Decisions]
  BY DEF PairingInit, NoConfirm, Steps, Decisions
<1>3. torn \in BOOLEAN /\ alive \in BOOLEAN /\ enabling \in BOOLEAN
  BY DEF PairingInit
<1>4. Shape
  BY <1>1, <1>2, <1>3, PairingAssumption DEF PairingInit, Shape
<1> QED
  BY <1>4 DEF PairingInit, PairingShaped, Backed, InitialDatabase, NoConfirm

LEMMA PairingShapedImplies == PairingShaped => PairingTypeOK
BY DEF PairingShaped, Shape, Databases, PairingTypeOK

(* Operations, backups and the database keep their types, also when calls of    *)
(* prepare overlap.                                                             *)
THEOREM PairingTypeCorrect == PairingSpec => []PairingTypeOK
BY PairingInitShaped, PairingStepShaped, PairingShapedImplies, PTL DEF PairingSpec

-----------------------------------------------------------------------------
(* Uploads: neither side counts bytes the asset does not have.                  *)

LEMMA ChunkEnds ==
  ASSUME offset \in 0..Size
  PROVE  ChunkEnd \in 0..Size
<1>1. offset + ChunkSize \in Nat /\ Size \in Nat
  BY UploadAssumption
<1>2. \E m \in {offset + ChunkSize, Size} : \A n \in {offset + ChunkSize, Size} : m <= n
  BY <1>1
<1>3. ChunkEnd \in {offset + ChunkSize, Size} /\ ChunkEnd <= Size
  BY <1>2 DEF ChunkEnd, Min
<1> QED
  BY <1>1, <1>3

LEMMA UploadStepTyped ==
  ASSUME UploadTypeOK, [UploadNext]_uploadVars
  PROVE  UploadTypeOK'
<1> USE UploadAssumption DEF UploadTypeOK
<1>1. offset \in 0..Size /\ ChunkEnd \in 0..Size
  BY ChunkEnds
<1>2. Receive => received' \in 0..Size
  BY <1>1 DEF Receive
<1>3. Resume => /\ attempts' \in 0..MaxAttempts - 1 /\ asking' = 0 /\ offset' = offset
                /\ phase' \in {"ask", "failed"}
  BY DEF Resume
<1>4. CASE CreateSession \/ Refuse
  BY <1>4 DEF CreateSession, Refuse
<1>5. CASE ChunkLost
  BY <1>2, <1>3, <1>5 DEF ChunkLost
<1>6. CASE GoogleChunk
  BY <1>2, <1>6 DEF GoogleChunk
<1>7. CASE GoogleStatus \/ OneDriveStatus \/ OneDriveStatusLost \/ OneDriveRange
  BY <1>3, <1>7 DEF GoogleStatus, OneDriveStatus, OneDriveStatusLost, OneDriveRange
<1>8. CASE OneDriveChunk
  BY <1>1, <1>2, <1>8 DEF OneDriveChunk
<1>9. CASE UNCHANGED uploadVars
  BY <1>9 DEF uploadVars
<1> QED
  BY <1>4, <1>5, <1>6, <1>7, <1>8, <1>9 DEF UploadNext, UploadContinues

LEMMA UploadInitTyped == UploadInit => UploadTypeOK
BY UploadAssumption DEF UploadInit, UploadTypeOK

(* For any sizes: offsets stay within the asset, attempts within their limit.   *)
THEOREM UploadTypeCorrect == UploadSpec => []UploadTypeOK
BY UploadInitTyped, UploadStepTyped, PTL DEF UploadSpec

-----------------------------------------------------------------------------
(* MCProgress: the three side by side. A step of one is none of the others.     *)

LEMMA PartsStep ==
  ASSUME [ProgressNext]_allVars
  PROVE  [GateNext]_gateVars /\ [PairingNext]_pairVars /\ [UploadNext]_uploadVars
BY DEF ProgressNext, allVars, Gat, Pai, Upl

(* For any numbers of calls, operations, crashes and attempts: the state of     *)
(* each component is what its declarations say.                                 *)
THEOREM ProgressTypeCorrect == ProgressSpec => []ProgressTypeOK
<1>1. ProgressInit => GateInit /\ PairingInit /\ UploadInit
  BY DEF ProgressInit
<1>2. GateInv => GateTypeOK
  BY DEF GateInv
<1> QED
  BY <1>1, <1>2, PartsStep, InitGateInv, NextKeeps, PairingInitShaped, PairingStepShaped,
     PairingShapedImplies, UploadInitTyped, UploadStepTyped, PTL DEF ProgressSpec, ProgressTypeOK

=============================================================================
