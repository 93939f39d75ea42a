----------------------------- MODULE ExportImport -----------------------------
(* Exporting the catalog and the notes to a file, and importing a file or a     *)
(* spreadsheet: ExportImportService over Catalog. An import is validated first  *)
(* and is then one transaction. (Reading a spreadsheet awaits; what it resolved *)
(* before is checked again by createNote, so that it is one step as well.)      *)
(*                                                                              *)
(* What the file names is matched by title or name with what there is. As these *)
(* can be edited between export and import, an import matches any of it, except *)
(* that a type titled Default matches such a type.                              *)
EXTENDS Catalog

VARIABLE file  \* the exported file

fileVars == <<file>>

NoFile == [types |-> <<>>, columns |-> <<>>, labels |-> <<>>, notes |-> <<>>]

ExportTypeOK ==
  file = NoFile \/ /\ DOMAIN file.types = Types /\ DOMAIN file.columns = Columns
                   /\ DOMAIN file.labels = Labels /\ DOMAIN file.notes = Notes

ExportInit == file = NoFile

(* exportData: what is live, with every value of the live notes. *)
Export ==
  /\ Change /\ file = NoFile
  /\ file' = [types |-> types, columns |-> columns, labels |-> labels, notes |-> notes]
  /\ UNCHANGED <<types, columns, labels, notes, running, unjournaled>>

-----------------------------------------------------------------------------
(* Validation: resolveImportPayload *)

(* ensureValueMatchesColumnType, which looks at the shape of the value only. *)
Fits(value, kind) ==
  \/ kind = "text" /\ value = Text
  \/ kind \in LabelKinds /\ value \subseteq Labels
  \/ kind \in ImageKinds /\ FitsImages(value, kind)

ColumnsBelong == \A c \in Live(file.columns) : file.columns[c].type \in Live(file.types)

ConfigsAreValid ==
  \A c \in Live(file.columns) : file.columns[c].from \in Live(file.types) \cup {Shared}

NotesBelong == \A n \in Live(file.notes) : file.notes[n].type \in Live(file.types)

(* ensureNoteValuesMatchImport *)
ValueMatches(n, c) ==
  LET value == file.notes[n].values[c] IN
  value # NoValue => /\ c \in Live(file.columns)
                     /\ file.columns[c].type = file.notes[n].type
                     /\ Fits(value, file.columns[c].kind)

ValuesMatch == \A n \in Live(file.notes), c \in Columns : ValueMatches(n, c)

ValidFile ==
  file # NoFile /\ ColumnsBelong /\ ConfigsAreValid /\ NotesBelong /\ ValuesMatch

(* resolveImportedLabels: a label of an unknown source is an issue, and skipped. *)
FileLabels == {l \in Live(file.labels) : file.labels[l].of \in Live(file.types) \cup {Shared}}

-----------------------------------------------------------------------------
(* Matching: functions from what the file has to what there is *)

(* Distinct identifiers for xs, the lowest that are free. *)
NewIds(xs, free) ==
  LET ids == {x \in free : Cardinality({y \in free : y < x}) < Cardinality(xs)}
  IN IF Cardinality(ids) < Cardinality(xs) THEN {}
     ELSE {CHOOSE m \in [xs -> ids] : IsInjective(m)}

PartialMatches(xs, ys) == {m \in UNION {[s -> ys] : s \in SUBSET xs} : IsInjective(m)}

(* What is matched, and what is new. *)
Both(m, new) ==
  [x \in DOMAIN m \cup DOMAIN new |-> IF x \in DOMAIN m THEN m[x] ELSE new[x]]

(* importNoteTypes: by title; every other type is new. *)
TypeMatches ==
  LET old == {m \in PartialMatches(Live(file.types), Live(types)) :
                /\ \A t \in DOMAIN m : file.types[t].default = types[m[t]].default
                /\ \A t \in Live(file.types) : file.types[t].default /\ HasDefault(types)
                                                 => t \in DOMAIN m}
  IN UNION {{Both(m, new) : new \in NewIds(Live(file.types) \ DOMAIN m, Absent(types))} : m \in old}

WithNewTypes(typeOf) ==
  [t \in Types |-> LET from == {s \in DOMAIN typeOf : typeOf[s] = t} IN
     IF types[t].status # "absent" \/ from = {} THEN types[t]
     ELSE NewType(\E s \in from : file.types[s].default, TRUE)]

(* remapLabelsColumnConfigs, and importLabels for the source of a label. *)
Remapped(source, typeOf) == IF source = Shared THEN Shared ELSE typeOf[source]

(* importLabels: by source and name. Labels of different sources may become one *)
(* when their types do.                                                         *)
LabelMatches(typeOf) ==
  LET Into(l) == Remapped(file.labels[l].of, typeOf)
      Distinct(m) == \A k, l \in DOMAIN m :
        k # l /\ file.labels[k].of = file.labels[l].of => m[k] # m[l]
      old == {m \in UNION {[s -> Live(labels)] : s \in SUBSET FileLabels} :
                Distinct(m) /\ \A l \in DOMAIN m : labels[m[l]].of = Into(l)}
  IN UNION {{Both(m, new) : new \in NewIds(FileLabels \ DOMAIN m, Absent(labels))} : m \in old}

WithNewLabels(labelOf, typeOf) ==
  [l \in Labels |-> LET from == {k \in DOMAIN labelOf : labelOf[k] = l} IN
     IF labels[l].status # "absent" \/ from = {} THEN labels[l]
     ELSE NewLabel(Remapped(file.labels[CHOOSE k \in from : TRUE].of, typeOf))]

(* canMapImportedColumn *)
CanMap(c, d) == TypeOfKind(file.columns[c].kind) = TypeOfKind(columns[d].kind)

(* Columns of the file that have the name of a column of the type they go to.   *)
NameMatches(typeOf) ==
  {m \in UNION {[s -> Live(columns)] : s \in SUBSET Live(file.columns)} :
     /\ \A c \in DOMAIN m : columns[m[c]].type = typeOf[file.columns[c].type]
     /\ \A c, d \in DOMAIN m :
          c # d /\ file.columns[c].type = file.columns[d].type => m[c] # m[d]}

(* A column takes over the settings of the file's, a Labels column if           *)
(* updateColumn accepts them; otherwise, and when the types differ, the field   *)
(* is unmatched.                                                                *)
TakesOver(c, d) ==
  CanMap(c, d) /\ UpdateResolves(d, file.columns[c].kind)

(* syncImportedColumn, which looks at no values; updateColumn of a Labels       *)
(* column.                                                                      *)
SyncedColumn(c, d, typeOf) ==
  [columns[d] EXCEPT !.kind = file.columns[c].kind,
                     !.from = Remapped(file.columns[c].from, typeOf),
                     !.strays = @ \/ Outgrows(d, file.columns[c].kind)]

(* insertImportedColumn *)
InsertedColumn(c, typeOf) ==
  NewColumn(typeOf[file.columns[c].type], file.columns[c].kind,
            Remapped(file.columns[c].from, typeOf))

(* importColumnsPreservingNoteTypes: what is matched, and new columns. *)
ImportedColumns(matched, new, typeOf) ==
  [d \in Columns |->
     IF d \in Range(matched)
     THEN SyncedColumn(CHOOSE c \in DOMAIN matched : matched[c] = d, d, typeOf)
     ELSE IF d \in Range(new)
     THEN InsertedColumn(CHOOSE c \in DOMAIN new : new[c] = d, typeOf)
     ELSE columns[d]]

(* resolveImportedNoteValues: labels the file did not define, or the column does *)
(* not allow, are left out.                                                      *)
ImportedValue(value, d, labelOf, first) ==
  IF columns[d].kind \notin LabelKinds THEN value
  ELSE Filtered({labelOf[l] : l \in value \cap DOMAIN labelOf}, d, first)

(* insertImportedNote *)
ImportedNote(from, typeOf, columnOf, labelOf, first) ==
  LET Sources(d) == {c \in DOMAIN columnOf : columnOf[c] = d /\ from.values[c] # NoValue}
  IN [status |-> "live", type |-> typeOf[from.type],
      values |-> [d \in Columns |-> IF Sources(d) = {} THEN NoValue
        ELSE ImportedValue(from.values[CHOOSE c \in Sources(d) : TRUE], d, labelOf, first)]]

(* appendImportedNotes of the notes ns, when labels and columns are there. *)
ImportedNotes(ns, noteOf, typeOf, columnOf, labelOf, first) ==
  [n \in Notes |->
     IF n \notin Range(noteOf) THEN notes[n]
     ELSE ImportedNote(file.notes[CHOOSE s \in ns : noteOf[s] = n],
                       typeOf, columnOf, labelOf, first)']

-----------------------------------------------------------------------------
(* Imports *)

(* importJsonPreservingNoteTypes *)
ImportPreserving ==
  /\ Change /\ ValidFile
  /\ UNCHANGED <<running, file>>
  /\ \E typeOf \in TypeMatches :
       /\ types' = WithNewTypes(typeOf)
       /\ \E labelOf \in LabelMatches(typeOf), named \in NameMatches(typeOf), first \in Labels :
            LET matched == Restrict(named, {c \in DOMAIN named : TakesOver(c, named[c])})
                others == Live(file.columns) \ DOMAIN named
            IN \E new \in NewIds(others, Absent(columns)), noteOf \in NewIds(Live(file.notes), FreeNotes) :
                 /\ labels' = WithNewLabels(labelOf, typeOf)
                 /\ columns' = ImportedColumns(matched, new, typeOf)
                 /\ notes' = ImportedNotes(Live(file.notes), noteOf, typeOf,
                                           Both(matched, new), labelOf, first)
                 /\ Journal(Range(noteOf) \cup {Configuration})

(* importJsonIntoTargetNoteType: the columns of one type take the values of all *)
(* (createTargetedColumnMappings). It is refused when a value does not fit the  *)
(* column it goes to, or the sources of a column it needs are gone; notes       *)
(* without a value may be skipped.                                              *)
ImportIntoType(target) ==
  LET typeOf == [t \in Live(file.types) |-> target]
      HasValue(n, columnOf) == \E c \in DOMAIN columnOf : file.notes[n].values[c] # NoValue
  IN
  /\ Change /\ ValidFile
  /\ target \in Live(types)
  /\ UNCHANGED <<running, file>>
  /\ \E labelOf \in LabelMatches(typeOf), named \in NameMatches(typeOf), first \in Labels,
        ns \in SUBSET Live(file.notes) :
       LET columnOf == Restrict(named, {c \in DOMAIN named : CanMap(c, named[c])}) IN
       /\ \A n \in Live(file.notes) : HasValue(n, columnOf) => n \in ns
       /\ \A n \in ns, c \in DOMAIN columnOf :
            LET value == file.notes[n].values[c]
                kind == columns[columnOf[c]].kind IN
            value # NoValue => /\ Fits(value, kind)
                               /\ kind \in LabelKinds => ConfigResolves(columnOf[c])
       /\ \E noteOf \in NewIds(ns, FreeNotes) :
            /\ labels' = WithNewLabels(labelOf, typeOf)
            /\ UNCHANGED <<types, columns>>
            /\ notes' = ImportedNotes(ns, noteOf, typeOf, columnOf, labelOf, first)
            /\ Journal(Range(noteOf) \cup {Configuration})

(* resolveSpreadsheetCellValue, resolveSpreadsheetLabelIds,                     *)
(* assignSpreadsheetValue: the cells of a row have a value for a column, or     *)
(* none; a column of several images gets a list.                                *)
CellValues(c) ==
  {value \in Values : Accepts(c, value) /\ (columns[c].kind = "images" => value # Image)}

(* resolveSpreadsheetImport: the rows become the notes ns; each has a value.    *)
SpreadsheetRows(t, ns) ==
  {rows \in [ns -> [LiveColumns(t) -> Values]] :
     \A n \in ns : /\ \A c \in LiveColumns(t) : rows[n][c] \in CellValues(c)
                   /\ \E c \in LiveColumns(t) : rows[n][c] # NoValue}

(* importSpreadsheetData *)
ImportSpreadsheet(t) ==
  /\ Change
  /\ t \in Live(types)
  /\ UNCHANGED <<types, columns, labels, running, file>>
  /\ \E ns \in (SUBSET FreeNotes) \ {{}} :
       /\ \E rows \in SpreadsheetRows(t, ns) :
            notes' = [n \in Notes |-> IF n \notin ns THEN notes[n]
              ELSE [status |-> "live", type |-> t,
                    values |-> [c \in Columns |-> IF c \in LiveColumns(t)
                                                  THEN rows[n][c] ELSE NoValue]]]
       /\ Journal(ns)

(* importData: a JSON file with or without a target type, a spreadsheet with    *)
(* one.                                                                         *)
ImportRequests ==
  ImportPreserving \/ \E t \in Types : ImportIntoType(t) \/ ImportSpreadsheet(t)

ExportImportNext ==
  \/ CatalogNext /\ UNCHANGED file
  \/ Export \/ ImportRequests

ExportImportSpec ==
  CatalogInit /\ ExportInit /\ [][ExportImportNext]_<<catVars, fileVars>>

-----------------------------------------------------------------------------
(* Properties *)

(* What the columns of the file refer to exists, or was deleted before.         *)
SourcesBelong ==
  \A c \in Live(file.columns) : LET from == file.columns[c].from IN
    from \in Live(file.types) \cup {Shared} \/ file.types[from].status = "deleted"

(* An exported file is refused as an import for two reasons only: a Labels      *)
(* column whose source was deleted; and a value left in a column from before it *)
(* was retyped, made one of single images or deleted without its values, or     *)
(* moved into it from such a column or, as a list, from one of several images.  *)
(* Every other value, of texts, labels and images, fits the column the file has *)
(* for it: no moves, imports, deletions or edits leave one that the export is   *)
(* refused for.                                                                 *)
ExportsImport ==
  file # NoFile =>
    /\ ColumnsBelong /\ SourcesBelong /\ NotesBelong
    /\ \A n \in Live(file.notes), c \in Columns : ValueMatches(n, c) \/ file.columns[c].strays

=============================================================================
