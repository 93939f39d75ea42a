------------------------------- MODULE Catalog -------------------------------
(* Note types, columns, labels and the notes filled in by them: SettingsService,*)
(* LabelsService and NotesService over their repositories. Every operation is   *)
(* synchronous, so one step; createNoteType is two transactions.                *)
(*                                                                              *)
(* A column is one the user made, of type Text ("text"), Labels ("single" or    *)
(* "multi", by allowMultiple) or Image ("image" or "images", by isMultiImage);  *)
(* of a type's default columns only their seeding is modelled. The sources of a *)
(* Labels column are all, or one type besides the shared labels. Names, colours,*)
(* orders and other settings are one thing that an edit changes.                *)
EXTENDS Naturals, FiniteSetsExt, Functions

CONSTANTS
  MaxTypes, MaxColumns, MaxLabels, MaxNotes, \* all are numbered as created
  MaxChanges                                 \* bound of the operations

ASSUME CatalogAssumption ==
  /\ MaxTypes \in Nat \ {0} /\ MaxColumns \in Nat \ {0} /\ MaxLabels \in Nat \ {0}
  /\ MaxNotes \in Nat /\ MaxChanges \in Nat

Types == 1..MaxTypes
Columns == 1..MaxColumns
Labels == 1..MaxLabels
Notes == 1..MaxNotes
Shared == 0  \* the source of shared labels; as a column's sources: all

VARIABLES
  types,    \* status; titled Default; default columns seeded
  columns,  \* status, type, kind, from (sources); strays (history): notes may have
            \* values left in it from before it was retyped, made a column of single
            \* images, or deleted, or moved into it from such a column
  labels,   \* status, of (a type or Shared)
  notes,    \* status, type, values of each column
  running,  \* the process
  unjournaled, \* history: what changed without an entry in the sync outbox
  changes

catVars == <<types, columns, labels, notes, running, unjournaled, changes>>

(* Values are sets: no value, a text, an image, a list of images, or label      *)
(* identifiers.                                                                 *)
NoValue == {0}
Text == {MaxLabels + 1}
Image == {MaxLabels + 2}
ImageList == {MaxLabels + 3}
Values == {NoValue, Text, Image, ImageList} \cup SUBSET Labels

(* The entity of the sync outbox that is no note. *)
Configuration == 0

Presence == {"absent", "live", "deleted"}
LabelKinds == {"single", "multi"}
ImageKinds == {"image", "images"}
Kinds == {"text"} \cup LabelKinds \cup ImageKinds

CatalogTypeOK ==
  /\ types \in [Types -> [status : Presence, default : BOOLEAN, seeded : BOOLEAN]]
  /\ columns \in [Columns -> [status : Presence, type : Types, kind : Kinds,
                              from : Types \cup {Shared}, strays : BOOLEAN]]
  /\ labels \in [Labels -> [status : Presence, of : Types \cup {Shared}]]
  /\ notes \in [Notes -> [status : Presence, type : Types, values : [Columns -> Values]]]
  /\ running \in BOOLEAN /\ changes \in 0..MaxChanges
  /\ unjournaled \subseteq Notes \cup {Configuration}

Live(f) == {x \in DOMAIN f : f[x].status = "live"}
LiveColumns(t) == {c \in Live(columns) : columns[c].type = t}
NotesOf(t) == {n \in Live(notes) : notes[n].type = t}

(* The first type is there, with a shared label, a column of labels or images,  *)
(* and a note that has a value in it.                                           *)
CatalogInit == \E first \in {"multi", "images"} :
  /\ types = [t \in Types |-> [status |-> IF t = 1 THEN "live" ELSE "absent",
                              default |-> t = 1, seeded |-> t = 1]]
  /\ columns = [c \in Columns |-> [status |-> IF c = 1 THEN "live" ELSE "absent", type |-> 1,
                                   kind |-> first, from |-> Shared, strays |-> FALSE]]
  /\ labels = [l \in Labels |-> [status |-> IF l = 1 THEN "live" ELSE "absent", of |-> Shared]]
  /\ notes = [n \in Notes |->
       [status |-> IF n = 1 THEN "live" ELSE "absent", type |-> 1,
        values |-> [c \in Columns |-> IF n # 1 \/ c # 1 THEN NoValue
                                 ELSE IF first = "multi" THEN {1} ELSE ImageList]]]
  /\ running = FALSE /\ unjournaled = {} /\ changes = 0

(* The transaction journals these entities (enqueueNoteSyncMutation,            *)
(* enqueueConfigurationSyncMutation, refreshNoteMutationMetadata).              *)
Journal(entities) ==
  unjournaled' =
    (unjournaled \cup {n \in Notes : notes'[n] # notes[n]}
       \cup IF <<types, columns, labels>>' # <<types, columns, labels>>
            THEN {Configuration} ELSE {})
    \ entities

Change == running /\ changes < MaxChanges /\ changes' = changes + 1

-----------------------------------------------------------------------------
(* Note types *)

NewType(default, seeded) == [status |-> "live", default |-> default, seeded |-> seeded]

HasDefault(ts) == \E t \in Live(ts) : ts[t].default

(* ensureDefaultExists, then ensureDefaultColumns of every type; f is the new   *)
(* type's identifier.                                                           *)
MutantSeeded(ts, f) ==
  IF HasDefault(ts) THEN ts
  ELSE [ts EXCEPT ![f] = NewType(TRUE, TRUE)]

Seeded(ts, f) ==
  LET all == IF HasDefault(ts) THEN ts
             ELSE [ts EXCEPT ![f] = NewType(TRUE, TRUE)]
  IN [t \in Types |-> [all[t] EXCEPT !.seeded = @ \/ all[t].status = "live"]]

(* New identifiers come in order; those of deleted notes serve again. *)
Absent(f) == {x \in DOMAIN f : f[x].status = "absent"}
FreeNotes == Notes \ Live(notes)
Lowest(ids) == IF ids = {} THEN {} ELSE {Min(ids)}
Fresh(f) == Lowest(Absent(f))

(* onModuleInit *)
StartCatalog ==
  /\ ~running
  /\ \E f \in (IF HasDefault(types) THEN {1} ELSE Fresh(types)) : types' = Seeded(types, f)
  /\ running' = TRUE
  /\ UNCHANGED <<columns, labels, notes, changes>>
  /\ Journal({Configuration})

StopCatalog ==
  /\ running
  /\ running' = FALSE
  /\ UNCHANGED <<types, columns, labels, notes, unjournaled, changes>>

(* createNoteType; or the process dies before the default columns are there.    *)
CreateNoteType(t, default) ==
  /\ Change
  /\ t \in Fresh(types) /\ ~(default /\ HasDefault(types))
  /\ running' \in BOOLEAN
  /\ types' = [types EXCEPT ![t] = NewType(default, running')]
  /\ UNCHANGED <<columns, labels, notes>>
  /\ Journal({Configuration})

UpdateNoteType(t, default) ==
  /\ Change
  /\ t \in Live(types)
  /\ default => \A u \in Live(types) \ {t} : ~types[u].default
  /\ types' = [types EXCEPT ![t].default = default]
  /\ UNCHANGED <<columns, labels, notes, running>>
  /\ Journal({Configuration})

-----------------------------------------------------------------------------
(* Deletions of what notes refer to *)

LabelsOf(t) == {l \in Live(labels) : labels[l].of = t}

(* pruneLabelIdsFromNoteValues *)
MutantPruned(ns, gone) ==
  [n \in Notes |->
     IF ns[n].status = "live"
     THEN [ns[n] EXCEPT !.values = [c \in Columns |->
             IF columns[c].status = "live" /\ columns[c].kind \in LabelKinds
                  /\ columns[c].type \in {labels[l].of : l \in gone} \cup {Shared}
             THEN @[c] \ gone ELSE @[c]]]
     ELSE ns[n]]

Pruned(ns, gone) ==
  [n \in Notes |->
     IF ns[n].status = "live"
     THEN [ns[n] EXCEPT !.values = [c \in Columns |->
             IF columns[c].status = "live" /\ columns[c].kind \in LabelKinds
             THEN @[c] \ gone ELSE @[c]]]
     ELSE ns[n]]

ChangedNotes(before, after) == {n \in Notes : before[n] # after[n]}

Tombstoned(f, xs) == [x \in DOMAIN f |-> IF x \in xs THEN [f[x] EXCEPT !.status = "deleted"]
                                         ELSE f[x]]
TombstoneType(ts, t) == Tombstoned(ts, {t})
TombstoneColumns(cs) == Tombstoned(columns, cs)
TombstoneLabels(ls) == Tombstoned(labels, ls)
TombstoneNotes(ns) == Tombstoned(notes, ns)  \* the values are kept and never read

(* deleteNoteType with its notes; the last type is replaced.                    *)
DeleteNoteTypeAndNotes(t) ==
  LET deleted == TombstoneNotes(NotesOf(t)) IN
  /\ Change
  /\ t \in Live(types)
  /\ notes' = Pruned(deleted, LabelsOf(t))
  /\ labels' = TombstoneLabels(LabelsOf(t))
  /\ columns' = TombstoneColumns(LiveColumns(t))
  /\ IF Live(types) = {t}
     THEN \E f \in Fresh(types) : types' = Seeded(TombstoneType(types, t), f)
     ELSE types' = TombstoneType(types, t)
  /\ UNCHANGED running
  /\ Journal(NotesOf(t) \cup ChangedNotes(deleted, notes') \cup {Configuration})

(* areColumnTypesCompatible *)
TypeOfKind(kind) ==
  CASE kind = "text" -> "Text" [] kind \in LabelKinds -> "Labels" [] kind \in ImageKinds -> "Image"

Compatible(c, d) == TypeOfKind(columns[c].kind) = TypeOfKind(columns[d].kind)

(* getLabelsColumnConfig refuses sources that name a deleted type. *)
ConfigResolves(c) == columns[c].from \in Live(types) \cup {Shared}

FieldMappings(source, target) ==
  UNION {{m \in [from -> LiveColumns(target)] :
            /\ IsInjective(m)
            /\ \A c \in from : Compatible(c, m[c])
            /\ \A c \in from : columns[m[c]].kind \in LabelKinds => ConfigResolves(m[c])} :
         from \in SUBSET LiveColumns(source)}

InSources(c, l) ==
  l \in Live(labels) /\ (columns[c].from = Shared \/ labels[l].of \in {Shared, columns[c].from})

(* filterLabelIdsForColumn: of several labels for a single one, the first.      *)
Filtered(value, c, first) ==
  LET accepted == {l \in value \cap Labels : InSources(c, l)} IN
  IF columns[c].kind = "multi" \/ Cardinality(accepted) < 2 THEN accepted
  ELSE IF first \in accepted THEN {first} ELSE {CHOOSE l \in accepted : TRUE}

(* moveNotesToType: mapped values are copied, labels filtered and all others as *)
(* they are; those of the source's columns are deleted.                         *)
MutantMoved(n, source, target, m, first) ==
  LET Copied(c) == CHOOSE s \in DOMAIN m : m[s] = c IN
  [status |-> "live", type |-> target,
   values |-> [c \in Columns |->
     IF c \in Range(m) /\ notes[n].values[Copied(c)] # NoValue
     THEN IF columns[c].kind \in LabelKinds THEN Filtered(notes[n].values[Copied(c)], c, first)
          ELSE notes[n].values[Copied(c)]
     ELSE notes[n].values[c]]]

Moved(n, source, target, m, first) ==
  LET Copied(c) == CHOOSE s \in DOMAIN m : m[s] = c IN
  [status |-> "live", type |-> target,
   values |-> [c \in Columns |->
     IF c \in LiveColumns(source) THEN NoValue
     ELSE IF c \in Range(m) /\ notes[n].values[Copied(c)] # NoValue
     THEN IF columns[c].kind \in LabelKinds THEN Filtered(notes[n].values[Copied(c)], c, first)
          ELSE notes[n].values[Copied(c)]
     ELSE notes[n].values[c]]]

(* Values of the column may not fit one of this kind.                           *)
Outgrows(c, kind) ==
  TypeOfKind(columns[c].kind) # TypeOfKind(kind) \/ (columns[c].kind = "images" /\ kind = "image")

(* The columns a move may leave stray values in: those copied as they are.      *)
StrayTargets(m) ==
  {m[c] : c \in {d \in DOMAIN m :
     columns[d].kind \notin LabelKinds
       /\ (columns[d].strays \/ Outgrows(d, columns[m[d]].kind))}}

(* deleteNoteType, its notes moved to another type, or to one that is created.  *)
DeleteNoteTypeAndMove(t, target) ==
  /\ Change
  /\ t \in Live(types) /\ target # t
  /\ \/ target \in Live(types) /\ types' = TombstoneType(types, t)
     \/ \E default \in BOOLEAN :
          /\ target \in Fresh(types) /\ ~(default /\ HasDefault(types))
          /\ types' = TombstoneType([types EXCEPT ![target] = NewType(default, TRUE)], t)
  /\ \E m \in FieldMappings(t, target), first \in Labels :
       LET moved == [n \in Notes |-> IF n \in NotesOf(t)
                                     THEN Moved(n, t, target, m, first) ELSE notes[n]]
       IN /\ notes' = Pruned(moved, LabelsOf(t))
          /\ labels' = TombstoneLabels(LabelsOf(t))
          /\ columns' = [c \in Columns |->
               [TombstoneColumns(LiveColumns(t))[c] EXCEPT !.strays = @ \/ c \in StrayTargets(m)]]
          /\ Journal(NotesOf(t) \cup ChangedNotes(moved, notes') \cup {Configuration})
  /\ UNCHANGED running

-----------------------------------------------------------------------------
(* Columns *)

NewColumn(t, kind, from) ==
  [status |-> "live", type |-> t, kind |-> kind, from |-> from, strays |-> FALSE]

(* normalizeColumnConfig *)
NewConfigResolves(kind, from) ==
  IF kind \in LabelKinds THEN from \in Live(types) \cup {Shared} ELSE from = Shared

(* createColumn *)
CreateColumn(c, t, kind, from) ==
  /\ Change
  /\ c \in Fresh(columns) /\ t \in Live(types)
  /\ NewConfigResolves(kind, from)
  /\ columns' = [columns EXCEPT ![c] = NewColumn(t, kind, from)]
  /\ UNCHANGED <<types, labels, notes, running>>
  /\ Journal({Configuration})

(* hasMultipleLabelValuesForColumn: any list counts, also one of images.        *)
HasMultiple(c) ==
  \E n \in Live(notes) : LET value == notes[n].values[c] IN
    value = ImageList \/ (value \subseteq Labels /\ Cardinality(value) > 1)

UpdatedColumn(c, kind, from) ==
  [columns[c] EXCEPT !.kind = kind, !.from = from, !.strays = @ \/ Outgrows(c, kind)]

(* resolveUpdatedColumnConfig reads the sources the column had when it stays a  *)
(* Labels column.                                                               *)
UpdateResolves(c, kind) ==
  columns[c].kind \in LabelKinds /\ kind \in LabelKinds =>
    /\ ConfigResolves(c)
    /\ columns[c].kind = "multi" /\ kind = "single" => ~HasMultiple(c)

UpdateColumn(c, kind, from) ==
  /\ Change
  /\ c \in Live(columns)
  /\ NewConfigResolves(kind, from)
  /\ UpdateResolves(c, kind)
  /\ columns' = [columns EXCEPT ![c] = UpdatedColumn(c, kind, from)]
  /\ UNCHANGED <<types, labels, notes, running>>
  /\ Journal({Configuration})

(* findLiveNoteIdsWithColumnValue *)
Having(c) == {n \in Live(notes) : notes[n].values[c] # NoValue}

(* deleteColumn, with the notes' values or without.                             *)
DeleteColumn(c, deleteNoteData) ==
  LET having == IF deleteNoteData THEN Having(c) ELSE {} IN
  /\ Change
  /\ c \in Live(columns)
  /\ notes' = [n \in Notes |-> IF n \in having
                               THEN [notes[n] EXCEPT !.values[c] = NoValue] ELSE notes[n]]
  /\ columns' = [columns EXCEPT ![c].status = "deleted", ![c].strays = @ \/ ~deleteNoteData]
  /\ UNCHANGED <<types, labels, running>>
  /\ Journal(having \cup {Configuration})

-----------------------------------------------------------------------------
(* Labels *)

SourceExists(of) == of \in Live(types) \cup {Shared}
NewLabel(of) == [status |-> "live", of |-> of]

CreateLabel(l, of) ==
  /\ Change
  /\ l \in Fresh(labels) /\ SourceExists(of)
  /\ labels' = [labels EXCEPT ![l] = NewLabel(of)]
  /\ UNCHANGED <<types, columns, notes, running>>
  /\ Journal({Configuration})

(* updateLabel: notes keep a label that moves to another source.                *)
UpdateLabel(l, of) ==
  /\ Change
  /\ l \in Live(labels) /\ SourceExists(of)
  /\ labels' = [labels EXCEPT ![l].of = of]
  /\ UNCHANGED <<types, columns, notes, running>>
  /\ Journal({Configuration})

(* deleteLabel *)
MutantDeleteLabel(l) ==
  /\ Change
  /\ l \in Live(labels)
  /\ notes' = Pruned(notes, {l})
  /\ labels' = TombstoneLabels({l})
  /\ UNCHANGED <<types, columns, running>>
  /\ Journal({Configuration})

DeleteLabel(l) ==
  /\ Change
  /\ l \in Live(labels)
  /\ notes' = Pruned(notes, {l})
  /\ labels' = TombstoneLabels({l})
  /\ UNCHANGED <<types, columns, running>>
  /\ Journal(ChangedNotes(notes, notes') \cup {Configuration})

-----------------------------------------------------------------------------
(* Notes *)

(* ensureValidLabelValue *)
AcceptsLabels(c, value) ==
  /\ ConfigResolves(c)
  /\ value \subseteq Labels /\ \A l \in value : InSources(c, l)
  /\ columns[c].kind = "single" => Cardinality(value) < 2

(* isValidImageNoteValue *)
FitsImages(value, kind) == value = Image \/ (kind = "images" /\ value = ImageList)

(* ensureValueMatchesColumnType *)
Accepts(c, value) ==
  \/ value = NoValue
  \/ columns[c].kind = "text" /\ value = Text
  \/ columns[c].kind \in LabelKinds /\ AcceptsLabels(c, value)
  \/ columns[c].kind \in ImageKinds /\ FitsImages(value, columns[c].kind)

(* ensureValuesAreValid, ensureValuePatchIsValid: of the note's type, and fit.  *)
ValidValue(t, c, value) == c \in LiveColumns(t) /\ Accepts(c, value)

(* A note that is created with a value; the others follow by updates.           *)
NewNote(t, c, value) ==
  [status |-> "live", type |-> t, values |-> [d \in Columns |-> IF d = c THEN value ELSE NoValue]]

CreateNote(n, t, c, value) ==
  /\ Change
  /\ n \in Lowest(FreeNotes) /\ t \in Live(types)
  /\ ValidValue(t, c, value)
  /\ notes' = [notes EXCEPT ![n] = NewNote(t, c, value)]
  /\ UNCHANGED <<types, columns, labels, running>>
  /\ Journal({n})

UpdateNote(n, c, value) ==
  /\ Change
  /\ n \in Live(notes) /\ ValidValue(notes[n].type, c, value)
  /\ notes' = [notes EXCEPT ![n].values[c] = value]
  /\ UNCHANGED <<types, columns, labels, running>>
  /\ Journal({n})

(* delete and deleteAll *)
DeleteNotes(ns) ==
  /\ Change
  /\ ns \subseteq Live(notes) /\ (Cardinality(ns) = 1 \/ ns = Live(notes))
  /\ notes' = TombstoneNotes(ns)
  /\ UNCHANGED <<types, columns, labels, running>>
  /\ Journal(ns)

-----------------------------------------------------------------------------
(* The routes of SettingsController and NotesController that change something,  *)
(* with all that a request may ask for.                                         *)

NoteTypeRequests ==
  \/ \E t \in Types, default \in BOOLEAN :
       CreateNoteType(t, default) \/ UpdateNoteType(t, default)
  \/ \E t \in Types : DeleteNoteTypeAndNotes(t)
  \/ \E t, target \in Types : DeleteNoteTypeAndMove(t, target)

ColumnRequests ==
  \/ \E c \in Columns, kind \in Kinds, from \in Types \cup {Shared} :
       \/ \E t \in Types : CreateColumn(c, t, kind, from)
       \/ UpdateColumn(c, kind, from)
  \/ \E c \in Columns, deleteNoteData \in BOOLEAN : DeleteColumn(c, deleteNoteData)

LabelRequests ==
  \/ \E l \in Labels, of \in Types \cup {Shared} : CreateLabel(l, of) \/ UpdateLabel(l, of)
  \/ \E l \in Labels : DeleteLabel(l)

NoteRequests ==
  \/ \E n \in Notes, c \in Columns, value \in Values :
       UpdateNote(n, c, value) \/ \E t \in Types : CreateNote(n, t, c, value)
  \/ \E ns \in SUBSET Notes : DeleteNotes(ns)

CatalogNext ==
  \/ StartCatalog \/ StopCatalog
  \/ NoteTypeRequests \/ ColumnRequests \/ LabelRequests \/ NoteRequests

CatalogSpec == CatalogInit /\ [][CatalogNext]_catVars

-----------------------------------------------------------------------------
(* Properties *)

(* Every change of a note or of the configuration is journaled for              *)
(* synchronization in the transaction that makes it, also the changes an        *)
(* operation makes elsewhere: labels pruned from the notes of other types,      *)
(* notes moved, a type that replaces the last one.                              *)
ChangesAreJournaled == unjournaled = {}

(* The values of a Labels column name existing labels, at most one where one is *)
(* allowed, whatever moves, deletions and reconfigurations came before, unless  *)
(* the column was not a Labels column all the time.                             *)
LabelValuesFit ==
  \A n \in Live(notes), c \in Live(columns) :
    LET value == notes[n].values[c] IN
    columns[c].kind \in LabelKinds /\ ~columns[c].strays /\ value # NoValue =>
      /\ value \subseteq Live(labels)
      /\ columns[c].kind = "single" => Cardinality(value) < 2

(* What a note, a column or a label belongs to exists, label values fit, and in *)
(* a running process there is a type and every type has its default columns,    *)
(* also after a crash between the transactions of createNoteType.               *)
CatalogIsWhole ==
  /\ \A n \in Live(notes) : notes[n].type \in Live(types)
  /\ \A c \in Live(columns) : columns[c].type \in Live(types)
  /\ \A l \in Live(labels) : labels[l].of \in Live(types) \cup {Shared}
  /\ LabelValuesFit
  /\ running => Live(types) # {} /\ \A t \in Live(types) : types[t].seeded

=============================================================================
