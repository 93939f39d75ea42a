------------------------------ MODULE Database ------------------------------
(* The database file and its backups: DatabaseService opens the file, takes a   *)
(* backup before migrations that rewrite what is there, and migrates;           *)
(* DatabaseBackupService writes, verifies and restores. A process may die       *)
(* between any two of their statements. Pairing is the caller of backup and     *)
(* restore; what it does in between is in module Pairing.                       *)
EXTENDS Naturals, FiniteSets

CONSTANTS
  MaxEdits, \* times the user changes something
  MaxStops  \* processes that die, statements that throw

ASSUME DatabaseAssumption == MaxEdits \in Nat /\ MaxStops \in Nat

VARIABLES
  db,        \* the database file
  backups,   \* the files in directory backups
  process,   \* what the process is doing
  candidate, \* the backup being written
  owed,      \* history: what the user must be able to get back
  opened,    \* history: what this version of the application found
  edits, stops

dbVars == <<db, backups, process, candidate, owed, opened, edits, stops>>

Migrations == 1..10
Newest == 10
RequiresBackup == {6, 7, 8}

(* Rows: what the user made (a column, a note, a label), what the application   *)
(* adds (its columns, the default note type).                                   *)
Users == {"column", "note", "label"}
RowKinds == Users \cup {"type", "builtin"}
EditNumbers == 0..MaxEdits

(* What a database says: migrations in schema_migrations (the first n), rows,   *)
(* those that have a note type, those with mutation metadata, the identity of   *)
(* the device, the backup of the pairing that is being applied, by its edit.    *)
Contents == [applied : {1..n : n \in 0..Newest}, rows : SUBSET RowKinds,
             typed : SUBSET RowKinds, stamped : SUBSET RowKinds, identity : BOOLEAN,
             edit : EditNumbers, pairing : SUBSET EditNumbers]
Empty == [applied |-> {}, rows |-> {}, typed |-> {}, stamped |-> {}, identity |-> FALSE,
          edit |-> 0, pairing |-> {}]

(* A backup: the name its caller gives, whether it is the first of that name,   *)
(* and what is in it; others of a name are told apart by a hash of that.        *)
Names == {"phase-10", "pairing"}
Backups == [name : Names, first : BOOLEAN, content : Contents]

States == {"down", "open", "compare", "migrate", "serve", "apply", "copy"}

-----------------------------------------------------------------------------
(* The migrations: up, statement by statement, as one transaction *)

(* 002: what there is belongs to the default type, which gets the columns it    *)
(* lacks.                                                                       *)
AddNoteTypes(c) ==
  [c EXCEPT !.rows = @ \cup {"type", "builtin"},
            !.typed = (c.rows \cap {"column", "note"}) \cup {"builtin"}]

(* 006: INSERT OR IGNORE *)
AddSyncMetadata(c) == [c EXCEPT !.identity = TRUE]

(* 008: the tables are rebuilt and every row is stamped with the device's id.   *)
AddSoftDeletionMetadata(c) == [c EXCEPT !.stamped = c.rows]

(* 001, 003 to 005, 007, 009 and 010 add tables and columns.                    *)
Up(n, c) ==
  CASE n = 2 -> AddNoteTypes(c)
    [] n = 6 -> AddSyncMetadata(c)
    [] n = 8 -> AddSoftDeletionMetadata(c)
    [] OTHER -> c

(* 008 reads the identity that 006 made, and foreign_key_check wants a type.    *)
Throws(n, c) == n = 8 /\ (~c.identity \/ ~ c.rows \cap {"column", "note"} \subseteq c.typed)

(* runPendingMigrations: up and its row in schema_migrations.                   *)
Migrated(n, c) == [Up(n, c) EXCEPT !.applied = @ \cup {n}]

(* What the user made with the version whose last migration is n.               *)
Used(n, c) ==
  CASE n = 1 -> [c EXCEPT !.rows = {"column", "note"}]
    [] n = 3 -> [c EXCEPT !.rows = @ \cup {"label"}]
    [] OTHER -> c

(* A database of a version with the first n migrations, and the user's rows.    *)
Made[n \in 0..Newest] == IF n = 0 THEN Empty ELSE Used(n, Migrated(n, Made[n - 1]))

MutantPending(c) == {n \in Migrations : \A a \in c.applied : n > a + 1}

(* getPendingMigrations *)
Pending(c) == Migrations \ c.applied

-----------------------------------------------------------------------------

DatabaseTypeOK ==
  /\ db \in [file : {"absent", "torn", "whole"}, content : Contents]
  /\ \A b \in backups : b.name \in Names /\ b.first \in BOOLEAN /\ b.content \in Contents
  /\ \A name \in Names : Cardinality({b \in backups : b.name = name /\ b.first}) <= 1
  /\ process \in [step : States, existed : BOOLEAN, name : Names]
  /\ edits \in EditNumbers /\ stops \in 0..MaxStops

(* What the user has: the rows made, and the last edit of them. *)
UserData(c) == <<c.rows \cap Users, c.edit>>

DatabaseInit ==
  /\ \/ db = [file |-> "absent", content |-> Empty]
     \/ \E n \in 1..Newest : db = [file |-> "whole", content |-> Made[n]]
  /\ backups = {} /\ candidate = Empty
  /\ process = [step |-> "down", existed |-> FALSE, name |-> "phase-10"]
  /\ owed = UserData(db.content) /\ opened = db.content
  /\ edits = 0 /\ stops = 0

Goes(step) == process' = [process EXCEPT !.step = step]

(* initialize: getConnection creates a file, ensureMigrationsTable its table. A *)
(* file that is no database makes it throw.                                     *)
Open ==
  /\ process.step = "down" /\ db.file # "torn"
  /\ process' = [step |-> "open", existed |-> db.file = "whole", name |-> "phase-10"]
  /\ db' = [db EXCEPT !.file = "whole"]
  /\ UNCHANGED <<backups, candidate, owed, opened, edits, stops>>

(* createRequiredBackup *)
NeedsBackup == process.existed /\ Pending(db.content) \cap RequiresBackup # {}

(* createVerifiedBackup: the candidate, VACUUM INTO and its verification.       *)
WriteCandidate ==
  /\ process.step = "open" /\ NeedsBackup
  /\ candidate' = db.content
  /\ Goes("compare")
  /\ UNCHANGED <<db, backups, owed, opened, edits, stops>>

NoBackupNeeded ==
  /\ process.step = "open" /\ ~NeedsBackup
  /\ Goes("migrate")
  /\ UNCHANGED <<db, backups, candidate, owed, opened, edits, stops>>

(* findMatchingBackupPath, or the candidate gets its name: that of its caller,  *)
(* or one with its hash when that is taken.                                     *)
Named(name) == {b \in backups : b.name = name}
MutantReused(name, c) ==
  IF Named(name) # {} THEN backups
  ELSE backups \cup {[name |-> name, first |-> TRUE, content |-> c]}

Published(name, c) ==
  IF \E b \in Named(name) : b.content = c THEN backups
  ELSE backups \cup {[name |-> name, first |-> Named(name) = {}, content |-> c]}

Publish ==
  /\ process.step = "compare"
  /\ backups' = Published(process.name, candidate)
  /\ IF process.name = "phase-10"
     THEN Goes("migrate") /\ UNCHANGED db
     ELSE /\ Goes("apply")
          /\ db' = [db EXCEPT !.content.pairing = {candidate.edit}]
  /\ UNCHANGED <<candidate, owed, opened, edits, stops>>

(* applyMigration, in the order of the list. *)
Migrate ==
  /\ process.step = "migrate" /\ Pending(db.content) # {}
  /\ \E n \in Pending(db.content) :
       /\ \A m \in Pending(db.content) : n <= m
       /\ ~Throws(n, db.content)
       /\ db' = [db EXCEPT !.content = Migrated(n, @)]
  /\ UNCHANGED <<backups, process, candidate, owed, opened, edits, stops>>

(* A pairing that was being applied is restored before anybody is served.       *)
Serve ==
  /\ process.step = "migrate" /\ Pending(db.content) = {}
  /\ Goes(IF db.content.pairing = {} THEN "serve" ELSE "apply")
  /\ UNCHANGED <<db, backups, candidate, owed, opened, edits, stops>>

-----------------------------------------------------------------------------
(* The application *)

(* The user adds a note, a pairing replaces the user's rows by those of the     *)
(* provider.                                                                    *)
Edited(c, e) ==
  [c EXCEPT !.edit = e, !.rows = @ \cup {"note"}, !.typed = @ \cup {"note"},
            !.stamped = @ \cup {"note"}]
Replaced(c, e) ==
  [c EXCEPT !.edit = e, !.rows = @ \ {"column", "label"}, !.typed = @ \ {"column"},
            !.stamped = @ \ {"column", "label"}]

Edit ==
  /\ process.step = "serve" /\ edits < MaxEdits
  /\ edits' = edits + 1
  /\ db' = [db EXCEPT !.content = Edited(@, edits')]
  /\ owed' = UserData(db'.content)
  /\ UNCHANGED <<backups, process, candidate, opened, stops>>

(* confirm: its backup, under a name all pairings share. *)
Confirm ==
  /\ process.step = "serve"
  /\ candidate' = db.content
  /\ process' = [process EXCEPT !.step = "compare", !.name = "pairing"]
  /\ UNCHANGED <<db, backups, owed, opened, edits, stops>>

(* apply *)
Apply ==
  /\ process.step = "apply" /\ edits < MaxEdits
  /\ edits' = edits + 1
  /\ db' = [db EXCEPT !.content = Replaced(@, edits')]
  /\ UNCHANGED <<backups, process, candidate, owed, opened, stops>>

Complete ==
  /\ process.step = "apply"
  /\ db' = [db EXCEPT !.content.pairing = {}]
  /\ owed' = UserData(db.content)
  /\ Goes("serve")
  /\ UNCHANGED <<backups, candidate, opened, edits, stops>>

(* restoreVerifiedBackup: close, verify, remove the WAL; the file is written    *)
(* over, and verified before initialize.                                        *)
BeginCopy ==
  /\ process.step = "apply" /\ db.content.pairing # {}
  /\ \E b \in Named("pairing") : {b.content.edit} = db.content.pairing /\ candidate' = b.content
  /\ db' = [db EXCEPT !.file = "torn"]
  /\ Goes("copy")
  /\ UNCHANGED <<backups, owed, opened, edits, stops>>

EndCopy ==
  /\ process.step = "copy"
  /\ db' = [file |-> "whole", content |-> candidate]
  /\ process' = [step |-> "open", existed |-> TRUE, name |-> "phase-10"]
  /\ UNCHANGED <<backups, candidate, owed, opened, edits, stops>>

(* The process dies, or a statement throws: nothing is served. *)
Stop ==
  /\ process.step # "down" /\ stops < MaxStops
  /\ stops' = stops + 1
  /\ process' = [process EXCEPT !.step = "down"]
  /\ UNCHANGED <<db, backups, candidate, owed, opened, edits>>

DatabaseNext ==
  \/ Open \/ WriteCandidate \/ NoBackupNeeded \/ Publish \/ Migrate \/ Serve
  \/ Edit \/ Confirm \/ Apply \/ Complete \/ BeginCopy \/ EndCopy \/ Stop

DatabaseSpec == DatabaseInit /\ [][DatabaseNext]_dbVars

-----------------------------------------------------------------------------
(* Properties *)

(* What can be read: the database, unless a copy was interrupted, and backups.  *)
Recoverable == {b.content : b \in backups} \cup (IF db.file = "whole" THEN {db.content} ELSE {})

(* The user's data can be got back at every moment, though starts, upgrades and *)
(* restores are interrupted anywhere and repeated; so can what a version with   *)
(* destructive migrations found, once one of them is applied. And what is       *)
(* served is in the newest schema, every row with a type and its metadata.      *)
DataKept ==
  /\ owed # UserData(Empty) => \E c \in Recoverable : UserData(c) = owed
  /\ opened.rows # {} /\ (db.content.applied \ opened.applied) \cap RequiresBackup # {}
       => opened \in Recoverable
  /\ process.step \in {"serve", "apply"} =>
       /\ db.file = "whole" /\ db.content.applied = Migrations /\ db.content.identity
       /\ db.content.rows = db.content.stamped
       /\ db.content.rows \cap {"column", "note", "builtin"} \subseteq db.content.typed

=============================================================================
