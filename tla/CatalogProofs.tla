----------------------------- MODULE CatalogProofs -----------------------------
(* The catalog stays whole, also over imports, and what is exported can be      *)
(* imported, for any numbers of types, columns, labels and notes.               *)
EXTENDS ExportImport, FiniteSetTheorems, FunctionTheorems,
        WellFoundedInduction, TLAPS

TypeRow == [status : Presence, default : BOOLEAN, seeded : BOOLEAN]
ColumnRow == [status : Presence, type : Types, kind : Kinds, from : Types \cup {Shared},
              strays : BOOLEAN]
LabelRow == [status : Presence, of : Types \cup {Shared}]
NoteRow == [status : Presence, type : Types, values : [Columns -> Values]]

AtMostOne(value) == \A k, l \in value : k = l

(* The value is one for columns of the kind, when the labels ls are there.      *)
FitsKind(value, kind, ls) ==
  /\ Fits(value, kind)
  /\ kind \in LabelKinds => value \subseteq ls /\ (kind = "single" => AtMostOne(value))

(* A value of a column that is not stray is that of a live column of the note's *)
(* type, and fits its kind.                                                     *)
ValueFits(note, c, value) ==
  ~columns[c].strays /\ value # NoValue =>
    /\ columns[c].status = "live" /\ columns[c].type = note.type
    /\ FitsKind(value, columns[c].kind, Live(labels))

ValuesFit == \A n \in Live(notes), c \in Columns : ValueFits(notes[n], c, notes[n].values[c])

(* A column that never was there leaves no values behind.                       *)
StraysKnown == \A c \in Columns : columns[c].status = "absent" => ~columns[c].strays

(* The source of a Labels column is or was there.                               *)
SourcesKnown ==
  \A c \in Columns : columns[c].from = Shared \/ types[columns[c].from].status # "absent"

(* No type that was made is forgotten.                                          *)
TypesStay == \A t \in Types : types[t].status # "absent" => types'[t].status # "absent"

Belonging ==
  /\ \A n \in Live(notes) : notes[n].type \in Live(types)
  /\ \A c \in Live(columns) : columns[c].type \in Live(types)
  /\ \A l \in Live(labels) : labels[l].of \in Live(types) \cup {Shared}

TypesReady == running => Live(types) # {} /\ \A t \in Live(types) : types[t].seeded

CatalogIInv ==
  /\ CatalogTypeOK /\ Belonging /\ ValuesFit /\ StraysKnown /\ SourcesKnown /\ TypesReady
  /\ unjournaled = {}

FileTyped ==
  file # NoFile => /\ file.types \in [Types -> TypeRow]
                   /\ file.columns \in [Columns -> ColumnRow]
                   /\ file.labels \in [Labels -> LabelRow]
                   /\ file.notes \in [Notes -> NoteRow]

ExportImportIInv == CatalogIInv /\ FileTyped /\ ExportsImport

(* Lemmas                                                                       *)

(* A set of labels has at most one element when fewer than two are counted.     *)
LEMMA FewerThanTwo ==
  ASSUME NEW value, value \subseteq Labels
  PROVE  /\ Cardinality(value) \in Nat
         /\ Cardinality(value) < 2 <=> AtMostOne(value)
<1>1. IsFiniteSet(value) /\ Cardinality(value) \in Nat
  <2>1. IsFiniteSet(Labels)
    BY CatalogAssumption, FS_Interval DEF Labels
  <2> QED
    BY <2>1, FS_Subset, FS_CardinalityType
<1>2. CASE value = {}
  BY <1>2, FS_EmptySet DEF AtMostOne
<1>3. ASSUME NEW k \in value, value = {k}
      PROVE  Cardinality(value) < 2 /\ AtMostOne(value)
  BY <1>3, FS_Singleton DEF AtMostOne
<1>4. ASSUME NEW k \in value, NEW l \in value, k # l
      PROVE  ~(Cardinality(value) < 2) /\ ~AtMostOne(value)
  <2>1. IsFiniteSet({k}) /\ Cardinality({k}) = 1
    BY FS_Singleton
  <2>2. Cardinality({k} \cup {l}) = 2
    BY <1>4, <2>1, FS_AddElement
  <2>3. Cardinality({k} \cup {l}) <= Cardinality(value)
    BY <1>1, FS_Subset
  <2> QED
    BY <1>1, <1>4, <2>2, <2>3 DEF AtMostOne
<1> QED
  BY <1>1, <1>2, <1>3, <1>4

(* Labels, texts, images and no value are told apart.                           *)
LEMMA ValuesApart ==
  /\ {NoValue, Text, Image, ImageList} \subseteq Values /\ SUBSET Labels \subseteq Values
  /\ \A value \in SUBSET Labels : value \notin {NoValue, Text, Image, ImageList}
  /\ NoValue \notin {Text, Image, ImageList} /\ NoValue \cap Labels = {}
  BY CatalogAssumption DEF NoValue, Text, Image, ImageList, Values, Labels

(* The kinds are those of three types of columns.                               *)
LEMMA KindsAgree ==
  ASSUME NEW k \in Kinds, NEW l \in Kinds
  PROVE  TypeOfKind(k) = TypeOfKind(l) <=> \/ k = "text" /\ l = "text"
                                           \/ k \in LabelKinds /\ l \in LabelKinds
                                           \/ k \in ImageKinds /\ l \in ImageKinds
  BY DEF Kinds, LabelKinds, ImageKinds, TypeOfKind

(* Texts and images of a column fit a kind that the column does not outgrow.    *)
LEMMA KindFits ==
  ASSUME NEW c, columns[c].kind \in Kinds, NEW kind \in Kinds, kind \notin LabelKinds,
         ~Outgrows(c, kind), NEW value, Fits(value, columns[c].kind)
  PROVE  Fits(value, kind)
<1>1. \/ columns[c].kind = "text" /\ kind = "text"
      \/ columns[c].kind \in ImageKinds /\ kind \in ImageKinds
  BY KindsAgree DEF Outgrows
<1> QED
  BY <1>1 DEF Fits, FitsImages, Outgrows, LabelKinds, ImageKinds

(* What fits goes on fitting when there are more labels.                        *)
LEMMA FitsMore ==
  ASSUME NEW value, NEW kind, NEW ls, NEW more, ls \subseteq more, FitsKind(value, kind, ls)
  PROVE  FitsKind(value, kind, more)
  BY DEF FitsKind

(* A change that journals what it changed leaves nothing unjournaled.           *)
LEMMA Journaled ==
  ASSUME unjournaled = {}, NEW entities, Journal(entities),
         \A n \in Notes : notes'[n] # notes[n] => n \in entities,
         Configuration \in entities \/ UNCHANGED <<types, columns, labels>>
  PROVE  unjournaled' = {}
  BY DEF Journal

(* An operation is counted.                                                     *)
LEMMA Counted ==
  ASSUME CatalogTypeOK, Change
  PROVE  changes' \in 0..MaxChanges
  BY CatalogAssumption DEF CatalogTypeOK, Change

-----------------------------------------------------------------------------
(* Note types                                                                   *)

(* Types are made and edited, and none is lost.                                 *)
LEMMA TypesKeep ==
  ASSUME CatalogIInv, UNCHANGED <<columns, labels, notes>>, Journal({Configuration}),
         types' \in [Types -> TypeRow], Live(types) \subseteq Live(types'),
         TypesStay, running' \in BOOLEAN, changes' \in 0..MaxChanges, TypesReady'
  PROVE  CatalogIInv'
<1>1. unjournaled' = {}
  BY Journaled DEF CatalogIInv
<1>2. CatalogTypeOK'
  BY <1>1 DEF CatalogIInv, CatalogTypeOK, TypeRow
<1>3. Belonging' /\ ValuesFit' /\ StraysKnown'
  BY DEF CatalogIInv, Belonging, ValuesFit, ValueFits, StraysKnown, Live, FitsKind, Fits,
         FitsImages, AtMostOne
<1>4. SourcesKnown'
  <2>1. \A c \in Columns : columns[c].from \in Types \cup {Shared}
    BY DEF CatalogIInv, CatalogTypeOK
  <2> QED
    BY <2>1 DEF CatalogIInv, SourcesKnown, TypesStay
<1> QED
  BY <1>1, <1>2, <1>3, <1>4 DEF CatalogIInv

(* After ensureDefaultExists and ensureDefaultColumns there is a type and each  *)
(* has its columns.                                                             *)
LEMMA SeededTypes ==
  ASSUME NEW ts \in [Types -> TypeRow], NEW f \in Types, HasDefault(ts) \/ ts[f].status # "live"
  PROVE  /\ Seeded(ts, f) \in [Types -> TypeRow]
         /\ Live(ts) \subseteq Live(Seeded(ts, f)) /\ Live(Seeded(ts, f)) # {}
         /\ \A t \in Live(Seeded(ts, f)) : Seeded(ts, f)[t].seeded
         /\ \A t \in Types : ts[t].status # "absent" => Seeded(ts, f)[t].status # "absent"
<1> DEFINE all == IF HasDefault(ts) THEN ts ELSE [ts EXCEPT ![f] = NewType(TRUE, TRUE)]
<1>1. all \in [Types -> TypeRow]
  BY DEF TypeRow, NewType, Presence
<1>2. /\ Live(ts) \subseteq Live(all) /\ Live(all) # {}
      /\ \A t \in Types : ts[t].status # "absent" => all[t].status # "absent"
  BY DEF Live, HasDefault, NewType
<1>3. Seeded(ts, f) = [t \in Types |-> [all[t] EXCEPT !.seeded = @ \/ all[t].status = "live"]]
  BY DEF Seeded
<1> HIDE DEF all
<1>4. \A t \in Types : /\ Seeded(ts, f)[t] \in TypeRow
                       /\ Seeded(ts, f)[t].status = all[t].status
                       /\ all[t].status = "live" => Seeded(ts, f)[t].seeded
  <2> SUFFICES ASSUME NEW t \in Types
               PROVE  /\ Seeded(ts, f)[t] \in TypeRow
                      /\ Seeded(ts, f)[t].status = all[t].status
                      /\ all[t].status = "live" => Seeded(ts, f)[t].seeded
    OBVIOUS
  <2> DEFINE seeded == all[t].seeded \/ all[t].status = "live"
  <2>1. all[t] \in TypeRow /\ seeded \in BOOLEAN
    BY <1>1 DEF TypeRow
  <2>2. Seeded(ts, f)[t] = [all[t] EXCEPT !.seeded = seeded]
    BY <1>3
  <2>3. all[t].status = "live" => seeded = TRUE
    BY <2>1
  <2> HIDE DEF seeded
  <2> QED
    BY <2>1, <2>2, <2>3 DEF TypeRow
<1>5. Seeded(ts, f) \in [Types -> TypeRow]
  BY <1>3, <1>4
<1>6. Live(Seeded(ts, f)) = Live(all)
  BY <1>1, <1>4, <1>5 DEF Live
<1> QED
  BY <1>1, <1>2, <1>4, <1>5, <1>6 DEF Live

(* A nonempty set of identifiers has a lowest one.                              *)
LEMMA LeastIdentifier ==
  ASSUME NEW S, S \subseteq Nat, S # {}
  PROVE  \E m \in S : \A n \in S : m <= n
<1>1. PICK m \in S : \A n \in S : <<n, m>> \notin OpToRel(<, Nat)
  BY WFMin, NatLessThanWellFounded
<1>2. \A n \in S : ~(n < m)
  BY <1>1 DEF OpToRel
<1> QED
  BY <1>2

(* A fresh identifier is one that was never used.                               *)
LEMMA FreshIsAbsent ==
  ASSUME NEW f, NEW x \in Fresh(f), DOMAIN f \subseteq Nat
  PROVE  x \in DOMAIN f /\ f[x].status = "absent"
<1>1. Absent(f) # {} /\ x = Min(Absent(f))
  BY DEF Fresh, Lowest
<1>2. \E m \in Absent(f) : \A y \in Absent(f) : m <= y
  BY <1>1, LeastIdentifier DEF Absent
<1>3. Min(Absent(f)) \in Absent(f)
  BY <1>2 DEF Min
<1> QED
  BY <1>1, <1>3 DEF Absent

LEMMA FreshTypes ==
  ASSUME CatalogIInv, NEW f \in Fresh(types)
  PROVE  f \in Types /\ types[f].status = "absent"
<1>1. DOMAIN types = Types /\ DOMAIN types \subseteq Nat
  BY CatalogAssumption DEF CatalogIInv, CatalogTypeOK, Types
<1> QED
  BY <1>1, FreshIsAbsent

(* Starting, creating and editing a type.                                       *)
LEMMA StartCatalogKeeps == CatalogIInv /\ StartCatalog => CatalogIInv'
<1> SUFFICES ASSUME CatalogIInv, StartCatalog PROVE CatalogIInv'
  OBVIOUS
<1>1. types \in [Types -> TypeRow] /\ changes \in 0..MaxChanges
  BY DEF CatalogIInv, CatalogTypeOK, TypeRow
<1>2. PICK f \in Types : types' = Seeded(types, f) /\ (HasDefault(types) \/ types[f].status # "live")
  <2>1. CASE HasDefault(types)
    BY <2>1, CatalogAssumption DEF StartCatalog, Types
  <2>2. CASE ~HasDefault(types)
    <3>1. PICK f \in Fresh(types) : types' = Seeded(types, f)
      BY <2>2 DEF StartCatalog
    <3>2. f \in Types /\ types[f].status = "absent"
      BY <1>1, FreshTypes
    <3> QED
      BY <3>1, <3>2
  <2> QED
    BY <2>1, <2>2
<1>3. /\ types' \in [Types -> TypeRow] /\ Live(types) \subseteq Live(types')
      /\ Live(types') # {} /\ \A t \in Live(types') : types'[t].seeded
      /\ TypesStay
  BY <1>1, <1>2, SeededTypes DEF TypesStay
<1>4. UNCHANGED <<columns, labels, notes>> /\ running' = TRUE /\ changes' = changes
  BY DEF StartCatalog
<1>5. TypesReady'
  BY <1>3 DEF TypesReady, Live
<1>6. Journal({Configuration})
  BY DEF StartCatalog
<1> QED
  BY <1>1, <1>3, <1>4, <1>5, <1>6, TypesKeep

LEMMA EditTypeKeeps ==
  ASSUME CatalogIInv, NEW t \in Types, NEW default \in BOOLEAN,
         CreateNoteType(t, default) \/ UpdateNoteType(t, default)
  PROVE  CatalogIInv'
<1>1. types \in [Types -> TypeRow]
  BY DEF CatalogIInv, CatalogTypeOK, TypeRow
<1>2. /\ UNCHANGED <<columns, labels, notes>> /\ Journal({Configuration})
      /\ running' \in BOOLEAN /\ running /\ changes' \in 0..MaxChanges
  BY Counted DEF CreateNoteType, UpdateNoteType, CatalogIInv, CatalogTypeOK, Change
<1>3. PICK row \in TypeRow : /\ types' = [types EXCEPT ![t] = row]
                             /\ row.status = "live"
                             /\ running' => row.seeded
  <2>1. CASE CreateNoteType(t, default)
    <3>1. /\ NewType(default, running') \in TypeRow
          /\ NewType(default, running').status = "live"
          /\ NewType(default, running').seeded = running'
      BY <1>2 DEF TypeRow, NewType, Presence
    <3> QED
      BY <2>1, <3>1 DEF CreateNoteType
  <2>2. CASE UpdateNoteType(t, default)
    <3> DEFINE row == [types[t] EXCEPT !.default = default]
    <3>1. types[t] \in TypeRow /\ types[t].status = "live" /\ types[t].seeded
      BY <1>1, <1>2, <2>2 DEF UpdateNoteType, Live, CatalogIInv, TypesReady
    <3>2. row \in TypeRow /\ row.status = "live" /\ row.seeded
      BY <3>1 DEF TypeRow
    <3>3. types' = [types EXCEPT ![t] = row]
      BY <1>1, <2>2 DEF UpdateNoteType
    <3> QED
      BY <3>2, <3>3
  <2> QED
    BY <2>1, <2>2
<1>4. types' \in [Types -> TypeRow]
  BY <1>1, <1>3
<1>5. \A u \in Types : types'[u] = IF u = t THEN row ELSE types[u]
  BY <1>1, <1>3
<1>6. Live(types) \subseteq Live(types') /\ Live(types') # {} /\ TypesStay
  BY <1>1, <1>3, <1>4, <1>5 DEF Live, TypesStay
<1>7. TypesReady'
  <2>1. \A u \in Live(types) : types[u].seeded
    BY <1>2 DEF CatalogIInv, TypesReady
  <2>2. ASSUME running', NEW u \in Live(types') PROVE types'[u].seeded
    <3>1. CASE u = t
      <4>1. row.seeded
        BY <1>3, <2>2
      <4> QED
        BY <1>5, <3>1, <4>1
    <3>2. CASE u # t
      BY <1>1, <1>4, <1>5, <2>1, <3>2 DEF Live
    <3> QED
      BY <3>1, <3>2
  <2> QED
    BY <1>2, <1>6, <2>2 DEF TypesReady, Live
<1> QED
  BY <1>2, <1>4, <1>6, <1>7, TypesKeep

-----------------------------------------------------------------------------
(* Columns and labels                                                           *)

(* A column is made or changed, and the values there are of it fit.             *)
LEMMA ColumnsKeep ==
  ASSUME CatalogIInv, UNCHANGED <<types, labels, notes, running>>,
         Journal({Configuration}), changes' \in 0..MaxChanges,
         NEW c \in Columns, NEW row \in ColumnRow, columns' = [columns EXCEPT ![c] = row],
         row.status = "live", row.type \in Live(types), row.from \in Live(types) \cup {Shared},
         \A n \in Live(notes) : ~row.strays /\ notes[n].values[c] # NoValue =>
           row.type = notes[n].type /\ FitsKind(notes[n].values[c], row.kind, Live(labels))
  PROVE  CatalogIInv'
<1>1. unjournaled' = {}
  BY Journaled DEF CatalogIInv
<1>2. columns \in [Columns -> ColumnRow] /\ columns' \in [Columns -> ColumnRow]
  BY DEF CatalogIInv, CatalogTypeOK, ColumnRow
<1>3. CatalogTypeOK'
  BY <1>1, <1>2 DEF CatalogIInv, CatalogTypeOK, ColumnRow
<1>4. \A d \in Columns : columns'[d] = IF d = c THEN row ELSE columns[d]
  BY <1>2
<1>5. \A x : Live(notes)' = Live(notes) /\ Live(labels)' = Live(labels) /\ Live(types)' = Live(types)
  BY DEF Live
<1>6. Belonging'
  <2>1. \A d \in Live(columns') : columns'[d].type \in Live(types)
    BY <1>2, <1>4 DEF CatalogIInv, Belonging, Live
  <2> QED
    BY <2>1 DEF CatalogIInv, Belonging, Live
<1>7. StraysKnown' /\ SourcesKnown'
  BY <1>4 DEF CatalogIInv, StraysKnown, SourcesKnown, Live
<1>8. ValuesFit'
  <2>1. ASSUME NEW n \in Live(notes), NEW d \in Columns,
               ~columns'[d].strays, notes[n].values[d] # NoValue
        PROVE  /\ columns'[d].status = "live" /\ columns'[d].type = notes[n].type
               /\ FitsKind(notes[n].values[d], columns'[d].kind, Live(labels))
    BY <1>4, <2>1 DEF CatalogIInv, ValuesFit, ValueFits
  <2> QED
    BY <1>5, <2>1 DEF ValuesFit, ValueFits, FitsKind, Fits, FitsImages, AtMostOne
<1>9. TypesReady'
  BY DEF CatalogIInv, TypesReady, Live
<1> QED
  BY <1>1, <1>3, <1>6, <1>7, <1>8, <1>9 DEF CatalogIInv

(* A new column has no values yet.                                              *)
LEMMA CreateColumnKeeps ==
  ASSUME CatalogIInv, NEW c \in Columns, NEW t \in Types, NEW kind \in Kinds,
         NEW from \in Types \cup {Shared}, CreateColumn(c, t, kind, from)
  PROVE  CatalogIInv'
<1> DEFINE row == NewColumn(t, kind, from)
<1>1. row \in ColumnRow /\ row.status = "live" /\ row.type = t /\ row.from = from
  BY DEF NewColumn, ColumnRow, Presence
<1>2. columns[c].status = "absent"
  <2>1. DOMAIN columns \subseteq Nat
    BY CatalogAssumption DEF CatalogIInv, CatalogTypeOK, Columns
  <2> QED
    BY <2>1, FreshIsAbsent DEF CreateColumn
<1>3. \A n \in Live(notes) : notes[n].values[c] = NoValue
  BY <1>2 DEF CatalogIInv, ValuesFit, ValueFits, StraysKnown
<1>4. /\ t \in Live(types) /\ columns' = [columns EXCEPT ![c] = row]
      /\ from \in Live(types) \cup {Shared}
  BY DEF CreateColumn, NewConfigResolves
<1>5. /\ UNCHANGED <<types, labels, notes, running>> /\ Journal({Configuration})
      /\ changes' \in 0..MaxChanges
  BY Counted DEF CreateColumn, CatalogIInv
<1> HIDE DEF row
<1> QED
  BY <1>1, <1>3, <1>4, <1>5, ColumnsKeep

(* A Labels column that was multiple is made single only when no note has       *)
(* several labels.                                                              *)
LEMMA ResolvedFits ==
  ASSUME CatalogIInv, NEW c \in Live(columns), columns[c].kind \in LabelKinds,
         UpdateResolves(c, "single"), NEW n \in Live(notes), ~columns[c].strays,
         notes[n].values[c] # NoValue
  PROVE  AtMostOne(notes[n].values[c])
<1> DEFINE value == notes[n].values[c]
<1>1. c \in Columns /\ columns[c].kind \in {"single", "multi"}
  BY DEF CatalogIInv, CatalogTypeOK, Live, LabelKinds
<1>2. /\ value \subseteq Live(labels) /\ Live(labels) \subseteq Labels
      /\ columns[c].kind = "single" => AtMostOne(value)
  BY <1>1 DEF CatalogIInv, ValuesFit, ValueFits, FitsKind, CatalogTypeOK, Live
<1>3. columns[c].kind = "multi" => ~(Cardinality(value) > 1)
  BY <1>2 DEF UpdateResolves, HasMultiple, LabelKinds
<1> QED
  BY <1>1, <1>2, <1>3, FewerThanTwo

LEMMA UpdateColumnKeeps ==
  ASSUME CatalogIInv, NEW c \in Columns, NEW kind \in Kinds,
         NEW from \in Types \cup {Shared}, UpdateColumn(c, kind, from)
  PROVE  CatalogIInv'
<1> DEFINE row == UpdatedColumn(c, kind, from)
<1>1. /\ columns \in [Columns -> ColumnRow] /\ columns[c] \in ColumnRow
      /\ c \in Live(columns) /\ columns[c].status = "live"
  BY DEF UpdateColumn, CatalogIInv, CatalogTypeOK, ColumnRow, Live
<1>2. PICK strays \in BOOLEAN :
         /\ row = [columns[c] EXCEPT !.kind = kind, !.from = from, !.strays = strays]
         /\ strays <=> (columns[c].strays \/ Outgrows(c, kind))
  BY <1>1 DEF UpdatedColumn, ColumnRow
<1>3. /\ row \in ColumnRow /\ row.status = "live" /\ row.type = columns[c].type
      /\ row.kind = kind /\ row.from = from
      /\ row.strays <=> (columns[c].strays \/ Outgrows(c, kind))
  BY <1>1, <1>2 DEF ColumnRow
<1>4. row.type \in Live(types) /\ row.from \in Live(types) \cup {Shared}
  BY <1>1, <1>3 DEF CatalogIInv, Belonging, UpdateColumn, NewConfigResolves
<1>5. ASSUME NEW n \in Live(notes), ~row.strays, notes[n].values[c] # NoValue
      PROVE  row.type = notes[n].type /\ FitsKind(notes[n].values[c], row.kind, Live(labels))
  <2> DEFINE value == notes[n].values[c]
  <2>1. ~columns[c].strays /\ ~Outgrows(c, kind) /\ columns[c].kind \in Kinds
    BY <1>1, <1>3, <1>5 DEF ColumnRow
  <2>2. /\ columns[c].type = notes[n].type
        /\ FitsKind(value, columns[c].kind, Live(labels))
    BY <1>5, <2>1 DEF CatalogIInv, ValuesFit, ValueFits
  <2>3. CASE kind \notin LabelKinds
    <3>1. Fits(value, kind)
      BY <2>1, <2>2, <2>3, KindFits DEF FitsKind
    <3> QED
      BY <1>3, <2>2, <2>3, <3>1 DEF FitsKind
  <2>4. CASE kind \in LabelKinds
    <3>1. columns[c].kind \in LabelKinds
      BY <2>1, <2>4, KindsAgree DEF Outgrows, LabelKinds, ImageKinds
    <3>2. value \subseteq Live(labels) /\ Live(labels) \subseteq Labels
      BY <2>2, <3>1 DEF FitsKind, CatalogIInv, CatalogTypeOK, Live
    <3>3. ASSUME kind = "single" PROVE AtMostOne(value)
      BY <1>1, <1>5, <2>1, <3>1, <3>3, ResolvedFits DEF UpdateColumn
    <3> QED
      BY <1>3, <2>2, <2>4, <3>2, <3>3 DEF FitsKind, Fits
  <2> QED
    BY <2>3, <2>4
<1>6. /\ UNCHANGED <<types, labels, notes, running>> /\ Journal({Configuration})
      /\ changes' \in 0..MaxChanges /\ columns' = [columns EXCEPT ![c] = row]
  BY Counted DEF UpdateColumn, CatalogIInv
<1> HIDE DEF row
<1> QED
  BY <1>3, <1>4, <1>5, <1>6, ColumnsKeep

(* A label is made, or moves to another source.                                 *)
LEMMA EditLabelKeeps ==
  ASSUME CatalogIInv, NEW l \in Labels, NEW of \in Types \cup {Shared},
         CreateLabel(l, of) \/ UpdateLabel(l, of)
  PROVE  CatalogIInv'
<1>1. /\ UNCHANGED <<types, columns, notes, running>> /\ Journal({Configuration})
      /\ changes' \in 0..MaxChanges /\ of \in Live(types) \cup {Shared}
  BY Counted DEF CreateLabel, UpdateLabel, SourceExists, CatalogIInv
<1>2. labels \in [Labels -> LabelRow]
  BY DEF CatalogIInv, CatalogTypeOK, LabelRow
<1>3. PICK row \in LabelRow : /\ labels' = [labels EXCEPT ![l] = row]
                              /\ row.status = "live" /\ row.of = of
  <2>1. CASE CreateLabel(l, of)
    <3>1. NewLabel(of) \in LabelRow /\ NewLabel(of).status = "live" /\ NewLabel(of).of = of
      BY DEF NewLabel, LabelRow, Presence
    <3> QED
      BY <2>1, <3>1 DEF CreateLabel
  <2>2. CASE UpdateLabel(l, of)
    <3> DEFINE row == [labels[l] EXCEPT !.of = of]
    <3>1. row \in LabelRow /\ row.status = "live" /\ row.of = of
      BY <1>2, <2>2 DEF UpdateLabel, Live, LabelRow
    <3>2. labels' = [labels EXCEPT ![l] = row]
      BY <1>2, <2>2 DEF UpdateLabel
    <3> QED
      BY <3>1, <3>2
  <2> QED
    BY <1>1, <2>1, <2>2
<1>4. labels' \in [Labels -> LabelRow]
  BY <1>2, <1>3
<1>5. unjournaled' = {}
  BY <1>1, Journaled DEF CatalogIInv
<1>6. CatalogTypeOK'
  BY <1>1, <1>4, <1>5 DEF CatalogIInv, CatalogTypeOK, LabelRow
<1>7. /\ Live(labels') = Live(labels) \cup {l}
      /\ \A k \in Live(labels') : labels'[k].of \in Live(types) \cup {Shared}
  BY <1>1, <1>2, <1>3 DEF CatalogIInv, Belonging, Live
<1>8. Belonging' /\ TypesReady' /\ StraysKnown' /\ SourcesKnown'
  BY <1>1, <1>7 DEF CatalogIInv, Belonging, TypesReady, StraysKnown, SourcesKnown, Live
<1>9. ValuesFit'
  <2>1. Live(notes)' = Live(notes) /\ Live(labels) \subseteq Live(labels)'
    BY <1>1, <1>7 DEF Live
  <2> QED
    BY <1>1, <2>1 DEF CatalogIInv, ValuesFit, ValueFits, FitsKind, Fits, FitsImages, AtMostOne
<1> QED
  BY <1>5, <1>6, <1>8, <1>9 DEF CatalogIInv

-----------------------------------------------------------------------------
(* Notes                                                                        *)

(* Notes are made, filled in or deleted; those there are belong to a type, and  *)
(* their values fit.                                                            *)
LEMMA NotesKeep ==
  ASSUME CatalogIInv, UNCHANGED <<types, columns, labels, running>>,
         changes' \in 0..MaxChanges, NEW entities, Journal(entities),
         notes' \in [Notes -> NoteRow],
         \A n \in Notes : notes'[n] # notes[n] => n \in entities,
         \A n \in Live(notes') :
           /\ notes'[n].type \in Live(types)
           /\ \A c \in Columns : ValueFits(notes'[n], c, notes'[n].values[c])
  PROVE  CatalogIInv'
<1>1. unjournaled' = {}
  BY Journaled DEF CatalogIInv
<1>2. CatalogTypeOK'
  BY <1>1 DEF CatalogIInv, CatalogTypeOK, NoteRow
<1>3. Belonging' /\ StraysKnown' /\ SourcesKnown' /\ TypesReady'
  BY DEF CatalogIInv, Belonging, StraysKnown, SourcesKnown, TypesReady, Live
<1>4. ValuesFit'
  BY DEF ValuesFit, ValueFits, Live, FitsKind, Fits, FitsImages, AtMostOne
<1> QED
  BY <1>1, <1>2, <1>3, <1>4 DEF CatalogIInv

(* What a column accepts fits.                                                  *)
LEMMA AcceptedFits ==
  ASSUME CatalogIInv, NEW note, NEW c, NEW value, c \in Columns,
         ValidValue(note.type, c, value)
  PROVE  ValueFits(note, c, value)
<1> SUFFICES ASSUME ~columns[c].strays, value # NoValue
             PROVE  /\ columns[c].status = "live" /\ columns[c].type = note.type
                    /\ FitsKind(value, columns[c].kind, Live(labels))
  BY DEF ValueFits
<1>1. columns[c].status = "live" /\ columns[c].type = note.type
  BY DEF ValidValue, LiveColumns, Live
<1>2. CASE columns[c].kind \in LabelKinds
  <2>1. AcceptsLabels(c, value)
    BY <1>2 DEF ValidValue, Accepts, LabelKinds, ImageKinds
  <2>2. value \subseteq Labels /\ value \subseteq Live(labels)
    BY <2>1 DEF AcceptsLabels, InSources
  <2>3. columns[c].kind = "single" => AtMostOne(value)
    BY <2>1, <2>2, FewerThanTwo DEF AcceptsLabels
  <2> QED
    BY <1>1, <1>2, <2>2, <2>3 DEF FitsKind, Fits
<1>3. CASE columns[c].kind \notin LabelKinds
  BY <1>1, <1>3 DEF ValidValue, Accepts, FitsKind, Fits
<1> QED
  BY <1>2, <1>3

LEMMA CreateNoteKeeps ==
  ASSUME CatalogIInv, NEW n \in Notes, NEW t \in Types, NEW c \in Columns,
         NEW value \in Values, CreateNote(n, t, c, value)
  PROVE  CatalogIInv'
<1> DEFINE row == NewNote(t, c, value)
<1>1. /\ row.status = "live" /\ row.type = t
      /\ \A d \in Columns : row.values[d] = IF d = c THEN value ELSE NoValue
  BY DEF NewNote
<1>2. row \in NoteRow
  BY ValuesApart DEF NewNote, NoteRow, Presence
<1>3. notes \in [Notes -> NoteRow] /\ notes' = [notes EXCEPT ![n] = row]
  BY DEF CreateNote, CatalogIInv, CatalogTypeOK, NoteRow
<1>4. /\ UNCHANGED <<types, columns, labels, running>> /\ Journal({n})
      /\ changes' \in 0..MaxChanges /\ t \in Live(types)
  BY Counted DEF CreateNote, CatalogIInv
<1>5. ValueFits(row, c, value)
  BY <1>1, AcceptedFits DEF CreateNote
<1>6. \A d \in Columns : ValueFits(row, d, row.values[d])
  BY <1>1, <1>5 DEF ValueFits
<1> HIDE DEF row
<1>7. ASSUME NEW m \in Live(notes')
      PROVE  /\ notes'[m].type \in Live(types)
             /\ \A d \in Columns : ValueFits(notes'[m], d, notes'[m].values[d])
  <2>1. CASE m = n
    BY <1>1, <1>3, <1>4, <1>6, <2>1
  <2>2. CASE m # n
    <3>1. notes'[m] = notes[m] /\ m \in Live(notes)
      BY <1>3, <2>2 DEF Live
    <3> QED
      BY <3>1 DEF CatalogIInv, Belonging, ValuesFit
  <2> QED
    BY <2>1, <2>2
<1>8. notes' \in [Notes -> NoteRow] /\ \A m \in Notes : notes'[m] # notes[m] => m \in {n}
  BY <1>2, <1>3
<1> QED
  BY <1>4, <1>7, <1>8, NotesKeep

LEMMA UpdateNoteKeeps ==
  ASSUME CatalogIInv, NEW n \in Notes, NEW c \in Columns, NEW value \in Values,
         UpdateNote(n, c, value)
  PROVE  CatalogIInv'
<1>1. /\ notes \in [Notes -> NoteRow] /\ notes[n] \in NoteRow
      /\ n \in Live(notes) /\ notes[n].status = "live"
  BY DEF UpdateNote, CatalogIInv, CatalogTypeOK, NoteRow, Live
<1> DEFINE values == [notes[n].values EXCEPT ![c] = value]
           row == [notes[n] EXCEPT !.values = values]
<1>2. values \in [Columns -> Values] /\ \A d \in Columns : values[d] = IF d = c THEN value ELSE notes[n].values[d]
  BY <1>1 DEF NoteRow
<1>3. notes' = [notes EXCEPT ![n] = row]
  BY <1>1 DEF UpdateNote, NoteRow
<1> HIDE DEF values
<1>4. /\ row \in NoteRow /\ row.status = "live" /\ row.type = notes[n].type
      /\ row.values = values
  BY <1>1, <1>2 DEF NoteRow
<1> HIDE DEF row
<1>5. /\ UNCHANGED <<types, columns, labels, running>> /\ Journal({n})
      /\ changes' \in 0..MaxChanges
  BY Counted DEF UpdateNote, CatalogIInv
<1>6. ValueFits(row, c, value)
  BY <1>4, AcceptedFits DEF UpdateNote
<1>7. \A d \in Columns : ValueFits(row, d, row.values[d])
  BY <1>1, <1>2, <1>4, <1>6 DEF ValueFits, CatalogIInv, ValuesFit
<1>8. ASSUME NEW m \in Live(notes')
      PROVE  /\ notes'[m].type \in Live(types)
             /\ \A d \in Columns : ValueFits(notes'[m], d, notes'[m].values[d])
  <2>1. CASE m = n
    BY <1>1, <1>3, <1>4, <1>7, <2>1 DEF CatalogIInv, Belonging
  <2>2. CASE m # n
    <3>1. notes'[m] = notes[m] /\ m \in Live(notes)
      BY <1>1, <1>3, <2>2 DEF Live
    <3> QED
      BY <3>1 DEF CatalogIInv, Belonging, ValuesFit
  <2> QED
    BY <2>1, <2>2
<1>9. notes' \in [Notes -> NoteRow] /\ \A m \in Notes : notes'[m] # notes[m] => m \in {n}
  BY <1>1, <1>3, <1>4
<1> QED
  BY <1>5, <1>8, <1>9, NotesKeep

(* What is deleted only changes its status.                                     *)
LEMMA NotesTombstoned ==
  ASSUME CatalogIInv, NEW ns
  PROVE  /\ TombstoneNotes(ns) \in [Notes -> NoteRow]
         /\ \A n \in Notes \ ns : TombstoneNotes(ns)[n] = notes[n]
         /\ Live(TombstoneNotes(ns)) = Live(notes) \ ns
<1>1. notes \in [Notes -> NoteRow] /\ DOMAIN TombstoneNotes(ns) = Notes
  BY DEF CatalogIInv, CatalogTypeOK, NoteRow, TombstoneNotes, Tombstoned
<1>2. ASSUME NEW n \in Notes
      PROVE  /\ TombstoneNotes(ns)[n] \in NoteRow
             /\ n \notin ns => TombstoneNotes(ns)[n] = notes[n]
             /\ n \in ns => TombstoneNotes(ns)[n].status = "deleted"
  <2>1. notes[n] \in NoteRow
    BY <1>1
  <2>2. /\ [notes[n] EXCEPT !.status = "deleted"] \in NoteRow
        /\ [notes[n] EXCEPT !.status = "deleted"].status = "deleted"
    BY <2>1 DEF NoteRow, Presence
  <2>3. TombstoneNotes(ns)[n] = IF n \in ns THEN [notes[n] EXCEPT !.status = "deleted"]
                                            ELSE notes[n]
    BY <1>1 DEF TombstoneNotes, Tombstoned
  <2> QED
    BY <2>1, <2>2, <2>3
<1>3. TombstoneNotes(ns) \in [Notes -> NoteRow]
  BY <1>2 DEF TombstoneNotes, Tombstoned, CatalogIInv, CatalogTypeOK
<1> QED
  BY <1>1, <1>2, <1>3 DEF Live

LEMMA DeleteNotesKeeps ==
  ASSUME CatalogIInv, NEW ns \in SUBSET Notes, DeleteNotes(ns)
  PROVE  CatalogIInv'
<1>1. notes' = TombstoneNotes(ns) /\ notes \in [Notes -> NoteRow]
  BY DEF DeleteNotes, CatalogIInv, CatalogTypeOK, NoteRow
<1>2. ASSUME NEW n \in Live(notes')
      PROVE  /\ notes'[n].type \in Live(types)
             /\ \A c \in Columns : ValueFits(notes'[n], c, notes'[n].values[c])
  <2>1. n \in Live(notes) /\ notes'[n] = notes[n]
    BY <1>1, NotesTombstoned DEF Live
  <2> QED
    BY <2>1 DEF CatalogIInv, Belonging, ValuesFit
<1>3. notes' \in [Notes -> NoteRow] /\ \A n \in Notes : notes'[n] # notes[n] => n \in ns
  BY <1>1, NotesTombstoned
<1>4. /\ UNCHANGED <<types, columns, labels, running>> /\ Journal(ns)
      /\ changes' \in 0..MaxChanges
  BY Counted DEF DeleteNotes, CatalogIInv
<1> QED
  BY <1>2, <1>3, <1>4, NotesKeep

-----------------------------------------------------------------------------
(* Deletions of what notes refer to                                             *)

(* A column that is deleted with the notes' values leaves none.                 *)
LEMMA DeleteColumnKeeps ==
  ASSUME CatalogIInv, NEW c \in Columns, NEW deleteNoteData \in BOOLEAN,
         DeleteColumn(c, deleteNoteData)
  PROVE  CatalogIInv'
<1> DEFINE having == IF deleteNoteData THEN Having(c) ELSE {}
           cleared(n) == [notes[n].values EXCEPT ![c] = NoValue]
<1>1. /\ columns \in [Columns -> ColumnRow] /\ notes \in [Notes -> NoteRow]
      /\ columns[c] \in ColumnRow /\ c \in Live(columns) /\ having \subseteq Live(notes)
  BY DEF DeleteColumn, CatalogIInv, CatalogTypeOK, ColumnRow, NoteRow, Live, Having
<1>2. PICK strays \in BOOLEAN : /\ strays <=> (columns[c].strays \/ ~deleteNoteData)
                                /\ columns' = [columns EXCEPT ![c] =
                                      [columns[c] EXCEPT !.status = "deleted", !.strays = strays]]
  BY <1>1 DEF DeleteColumn, ColumnRow
<1>3. ASSUME NEW d \in Columns
      PROVE  /\ columns'[d] \in ColumnRow
             /\ d # c => columns'[d] = columns[d]
             /\ d = c => /\ columns'[d].status = "deleted" /\ columns'[d].strays = strays
             /\ columns'[d].from = columns[d].from
  <2>1. columns[d] \in ColumnRow
    BY <1>1
  <2>2. CASE d = c
    <3>1. columns'[d] = [columns[c] EXCEPT !.status = "deleted", !.strays = strays]
      BY <1>1, <1>2, <2>2
    <3> QED
      BY <1>1, <2>2, <3>1 DEF ColumnRow, Presence
  <2>3. CASE d # c
    BY <1>1, <1>2, <2>1, <2>3
  <2> QED
    BY <2>2, <2>3
<1>4. columns' \in [Columns -> ColumnRow]
  BY <1>1, <1>2, <1>3
<1>5. ASSUME NEW n \in Notes
      PROVE  /\ notes'[n] \in NoteRow
             /\ n \notin having => notes'[n] = notes[n]
             /\ notes'[n].status = notes[n].status /\ notes'[n].type = notes[n].type
             /\ \A d \in Columns : notes'[n].values[d] =
                  IF d = c /\ n \in having THEN NoValue ELSE notes[n].values[d]
  <2>1. /\ notes[n] \in NoteRow /\ cleared(n) \in [Columns -> Values]
        /\ \A d \in Columns : cleared(n)[d] = IF d = c THEN NoValue ELSE notes[n].values[d]
    BY <1>1, ValuesApart DEF NoteRow
  <2>2. notes'[n] = IF n \in having THEN [notes[n] EXCEPT !.values = cleared(n)] ELSE notes[n]
    BY <1>1 DEF DeleteColumn
  <2> HIDE DEF cleared, having
  <2> QED
    BY <2>1, <2>2 DEF NoteRow
<1>6. notes' \in [Notes -> NoteRow]
  BY <1>5 DEF DeleteColumn
<1>7. /\ UNCHANGED <<types, labels, running>> /\ Journal(having \cup {Configuration})
      /\ changes' \in 0..MaxChanges
  BY Counted DEF DeleteColumn, CatalogIInv
<1>8. unjournaled' = {}
  BY <1>5, <1>7, Journaled DEF CatalogIInv
<1>9. CatalogTypeOK'
  BY <1>4, <1>6, <1>7, <1>8 DEF CatalogIInv, CatalogTypeOK, ColumnRow, NoteRow
<1>10. StraysKnown' /\ SourcesKnown'
  BY <1>1, <1>2, <1>3, <1>7 DEF CatalogIInv, StraysKnown, SourcesKnown
<1>11. Live(notes)' = Live(notes) /\ Live(labels)' = Live(labels) /\ Live(types)' = Live(types)
  BY <1>1, <1>5, <1>6, <1>7 DEF Live
<1>12. Belonging'
  <2>1. \A d \in Live(columns)' : d \in Live(columns) /\ columns'[d] = columns[d]
    BY <1>1, <1>3, <1>4 DEF Live
  <2>2. \A n \in Live(notes)' : notes'[n].type = notes[n].type
    BY <1>1, <1>5, <1>6 DEF Live
  <2> QED
    BY <1>7, <1>11, <2>1, <2>2 DEF CatalogIInv, Belonging
<1>13. ValuesFit'
  <2>1. ASSUME NEW n \in Live(notes), NEW d \in Columns,
               ~columns'[d].strays, notes'[n].values[d] # NoValue
        PROVE  /\ columns'[d].status = "live" /\ columns'[d].type = notes'[n].type
               /\ FitsKind(notes'[n].values[d], columns'[d].kind, Live(labels))
    <3>1. n \in Notes
      BY <1>1 DEF Live
    <3>2. d # c
      <4>1. SUFFICES ASSUME d = c PROVE FALSE
        OBVIOUS
      <4>2. deleteNoteData /\ having = Having(c)
        BY <1>2, <1>3, <2>1, <4>1
      <4>3. n \in having \/ notes[n].values[c] = NoValue
        BY <4>2 DEF Having
      <4> HIDE DEF having
      <4> QED
        BY <1>5, <2>1, <3>1, <4>1, <4>3
    <3>3. columns'[d] = columns[d] /\ notes'[n].values[d] = notes[n].values[d]
      BY <1>3, <1>5, <3>1, <3>2
    <3> QED
      BY <1>5, <2>1, <3>1, <3>3 DEF CatalogIInv, ValuesFit, ValueFits
  <2> QED
    BY <1>11, <2>1 DEF ValuesFit, ValueFits, FitsKind, Fits, FitsImages, AtMostOne
<1>14. TypesReady'
  BY <1>7 DEF CatalogIInv, TypesReady, Live
<1> QED
  BY <1>8, <1>9, <1>10, <1>12, <1>13, <1>14 DEF CatalogIInv

(* Pruning takes the labels that go from every value that fits, and leaves the  *)
(* others.                                                                      *)
LEMMA Pruning ==
  ASSUME CatalogIInv, NEW ns \in [Notes -> NoteRow], NEW gone \in SUBSET Labels,
         NEW n \in Notes
  PROVE  /\ Pruned(ns, gone) \in [Notes -> NoteRow]
         /\ Pruned(ns, gone)[n].status = ns[n].status
         /\ Pruned(ns, gone)[n].type = ns[n].type
         /\ ns[n].status # "live" => Pruned(ns, gone)[n] = ns[n]
         /\ ns[n].status = "live" => \A c \in Columns :
               /\ Pruned(ns, gone)[n].values[c] \in {ns[n].values[c], ns[n].values[c] \ gone}
               /\ columns[c].status = "live" /\ columns[c].kind \in LabelKinds =>
                    Pruned(ns, gone)[n].values[c] = ns[n].values[c] \ gone
               /\ columns[c].kind \notin LabelKinds =>
                    Pruned(ns, gone)[n].values[c] = ns[n].values[c]
<1> DEFINE kept(m, c) == IF columns[c].status = "live" /\ columns[c].kind \in LabelKinds
                         THEN ns[m].values[c] \ gone ELSE ns[m].values[c]
           values(m) == [c \in Columns |-> kept(m, c)]
<1>1. ASSUME NEW m \in Notes
      PROVE  /\ ns[m] \in NoteRow /\ values(m) \in [Columns -> Values]
             /\ \A c \in Columns : values(m)[c] = kept(m, c)
  <2>1. ns[m] \in NoteRow /\ ns[m].values \in [Columns -> Values]
    BY DEF NoteRow
  <2>2. \A value \in Values : value \ gone \in Values
    BY CatalogAssumption DEF Values, NoValue, Text, Image, ImageList, Labels
  <2>3. \A c \in Columns : kept(m, c) \in Values
    BY <2>1, <2>2
  <2> QED
    BY <2>1, <2>3
<1>2. ASSUME NEW m \in Notes
      PROVE  Pruned(ns, gone)[m] = IF ns[m].status = "live" THEN [ns[m] EXCEPT !.values = values(m)]
                                                           ELSE ns[m]
  BY <1>1 DEF Pruned, NoteRow
<1> HIDE DEF values
<1>3. ASSUME NEW m \in Notes
      PROVE  /\ Pruned(ns, gone)[m] \in NoteRow
             /\ Pruned(ns, gone)[m].status = ns[m].status
             /\ Pruned(ns, gone)[m].type = ns[m].type
             /\ ns[m].status # "live" => Pruned(ns, gone)[m] = ns[m]
             /\ ns[m].status = "live" => Pruned(ns, gone)[m].values = values(m)
  <2>1. CASE ns[m].status = "live"
    <3>1. Pruned(ns, gone)[m] = [ns[m] EXCEPT !.values = values(m)]
      BY <1>2, <2>1
    <3>2. [ns[m] EXCEPT !.values = values(m)] \in NoteRow
      BY <1>1 DEF NoteRow
    <3> QED
      BY <1>1, <2>1, <3>1, <3>2 DEF NoteRow
  <2>2. CASE ns[m].status # "live"
    BY <1>1, <1>2, <2>2
  <2> QED
    BY <2>1, <2>2
<1>4. Pruned(ns, gone) \in [Notes -> NoteRow]
  BY <1>3 DEF Pruned
<1>5. ASSUME ns[n].status = "live", NEW c \in Columns
      PROVE  /\ Pruned(ns, gone)[n].values[c] \in {ns[n].values[c], ns[n].values[c] \ gone}
             /\ columns[c].status = "live" /\ columns[c].kind \in LabelKinds =>
                  Pruned(ns, gone)[n].values[c] = ns[n].values[c] \ gone
             /\ columns[c].kind \notin LabelKinds =>
                  Pruned(ns, gone)[n].values[c] = ns[n].values[c]
  <2>1. Pruned(ns, gone)[n].values[c] = kept(n, c)
    BY <1>1, <1>3, <1>5
  <2> QED
    BY <2>1
<1> QED
  BY <1>3, <1>4, <1>5

LEMMA PrunedFits ==
  ASSUME CatalogIInv, NEW ns \in [Notes -> NoteRow], NEW gone \in SUBSET Labels,
         NEW n \in Notes, ns[n].status = "live", NEW c \in Columns,
         ValueFits(ns[n], c, ns[n].values[c]),
         ~columns[c].strays, Pruned(ns, gone)[n].values[c] # NoValue
  PROVE  /\ ns[n].values[c] # NoValue
         /\ columns[c].status = "live" /\ columns[c].type = ns[n].type
         /\ FitsKind(Pruned(ns, gone)[n].values[c], columns[c].kind, Live(labels) \ gone)
<1>1. ns[n].values[c] # NoValue
  <2>1. NoValue \ gone = NoValue
    BY ValuesApart
  <2>2. Pruned(ns, gone)[n].values[c] \in {ns[n].values[c], ns[n].values[c] \ gone}
    BY Pruning
  <2> QED
    BY <2>1, <2>2
<1>2. /\ columns[c].status = "live" /\ columns[c].type = ns[n].type
      /\ FitsKind(ns[n].values[c], columns[c].kind, Live(labels))
  BY <1>1 DEF ValueFits
<1>3. CASE columns[c].kind \in LabelKinds
  <2>1. Pruned(ns, gone)[n].values[c] = ns[n].values[c] \ gone
    BY <1>2, <1>3, Pruning
  <2>2. ns[n].values[c] \subseteq Live(labels) /\ Live(labels) \subseteq Labels
    BY <1>2, <1>3 DEF FitsKind, CatalogIInv, CatalogTypeOK, Live
  <2> QED
    BY <1>1, <1>2, <1>3, <2>1, <2>2 DEF FitsKind, Fits, AtMostOne
<1>4. CASE columns[c].kind \notin LabelKinds
  <2>1. Pruned(ns, gone)[n].values[c] = ns[n].values[c]
    BY <1>4, Pruning
  <2> QED
    BY <1>1, <1>2, <1>4, <2>1 DEF FitsKind
<1> QED
  BY <1>3, <1>4

(* The columns cs are deleted, and strays may be left in others.                *)
ColumnsLeft(cs, stray) ==
  /\ columns' \in [Columns -> ColumnRow]
  /\ \A c \in Columns :
       /\ columns'[c].status = IF c \in cs THEN "deleted" ELSE columns[c].status
       /\ columns'[c].type = columns[c].type /\ columns'[c].kind = columns[c].kind
       /\ columns'[c].from = columns[c].from
       /\ columns'[c].strays <=> columns[c].strays \/ c \in stray

LEMMA ColumnsTombstoned ==
  ASSUME CatalogIInv, NEW cs
  PROVE  /\ TombstoneColumns(cs) \in [Columns -> ColumnRow]
         /\ \A c \in Columns :
              /\ TombstoneColumns(cs)[c].status = IF c \in cs THEN "deleted" ELSE columns[c].status
              /\ TombstoneColumns(cs)[c].type = columns[c].type
              /\ TombstoneColumns(cs)[c].kind = columns[c].kind
              /\ TombstoneColumns(cs)[c].from = columns[c].from
              /\ TombstoneColumns(cs)[c].strays = columns[c].strays
<1>1. columns \in [Columns -> ColumnRow]
  BY DEF CatalogIInv, CatalogTypeOK, ColumnRow
<1>2. ASSUME NEW c \in Columns
      PROVE  /\ TombstoneColumns(cs)[c] \in ColumnRow
             /\ TombstoneColumns(cs)[c].status = IF c \in cs THEN "deleted" ELSE columns[c].status
             /\ TombstoneColumns(cs)[c].type = columns[c].type
             /\ TombstoneColumns(cs)[c].kind = columns[c].kind
             /\ TombstoneColumns(cs)[c].from = columns[c].from
             /\ TombstoneColumns(cs)[c].strays = columns[c].strays
  <2>1. columns[c] \in ColumnRow
    BY <1>1
  <2>2. TombstoneColumns(cs)[c] = IF c \in cs THEN [columns[c] EXCEPT !.status = "deleted"]
                                  ELSE columns[c]
    BY <1>1 DEF TombstoneColumns, Tombstoned
  <2> QED
    BY <2>1, <2>2 DEF ColumnRow, Presence
<1> QED
  BY <1>1, <1>2 DEF TombstoneColumns, Tombstoned

(* A deletion of labels and columns keeps what is there together: what is left  *)
(* belongs to types that are left, and columns that go leave no values behind,  *)
(* other than strays.                                                           *)
LEMMA DeletionKeeps ==
  ASSUME CatalogIInv, running' = running, changes' \in 0..MaxChanges,
         NEW ns \in [Notes -> NoteRow], NEW gone \in SUBSET Labels, NEW cs \in SUBSET Columns,
         NEW stray, \A c \in Columns : c \in stray => columns[c].status # "absent",
         notes' = Pruned(ns, gone), labels' = TombstoneLabels(gone), ColumnsLeft(cs, stray),
         types' \in [Types -> TypeRow], TypesStay, TypesReady',
         \A n \in Live(ns) :
           /\ ns[n].type \in Live(types')
           /\ \A c \in Columns : c \in stray \/ ValueFits(ns[n], c, ns[n].values[c])
           /\ \A c \in cs : columns[c].strays \/ ns[n].values[c] = NoValue,
         \A c \in Live(columns) \ cs : columns[c].type \in Live(types'),
         \A l \in Live(labels) \ gone : labels[l].of \in Live(types') \cup {Shared},
         NEW entities, Journal(entities), Configuration \in entities,
         \A n \in Notes : notes'[n] # notes[n] => n \in entities
  PROVE  CatalogIInv'
<1>1. unjournaled' = {}
  BY Journaled DEF CatalogIInv
<1>2. columns \in [Columns -> ColumnRow] /\ labels \in [Labels -> LabelRow]
  BY DEF CatalogIInv, CatalogTypeOK, ColumnRow, LabelRow
<1>3. ASSUME NEW c \in Columns
      PROVE  /\ columns'[c].status = IF c \in cs THEN "deleted" ELSE columns[c].status
             /\ columns'[c].type = columns[c].type /\ columns'[c].kind = columns[c].kind
             /\ columns'[c].from = columns[c].from
             /\ columns'[c].strays <=> columns[c].strays \/ c \in stray
  BY DEF ColumnsLeft
<1>4. ASSUME NEW l \in Labels
      PROVE  /\ labels'[l] \in LabelRow
             /\ l \notin gone => labels'[l] = labels[l]
             /\ l \in gone => labels'[l].status = "deleted"
  <2>1. labels[l] \in LabelRow
    BY <1>2
  <2>2. labels'[l] = IF l \in gone THEN [labels[l] EXCEPT !.status = "deleted"] ELSE labels[l]
    BY <1>2 DEF TombstoneLabels, Tombstoned
  <2> QED
    BY <2>1, <2>2 DEF LabelRow, Presence
<1>5. columns' \in [Columns -> ColumnRow] /\ labels' \in [Labels -> LabelRow]
  BY <1>2, <1>4 DEF ColumnsLeft, TombstoneLabels, Tombstoned
<1>6. notes' \in [Notes -> NoteRow]
  <2>1. CASE Notes = {}
    BY <2>1 DEF Pruned
  <2>2. CASE Notes # {}
    BY <2>2, Pruning
  <2> QED
    BY <2>1, <2>2
<1>7. CatalogTypeOK'
  BY <1>1, <1>5, <1>6 DEF CatalogIInv, CatalogTypeOK, ColumnRow, LabelRow, NoteRow, TypeRow
<1>8. /\ Live(labels)' = Live(labels) \ gone
      /\ \A l \in Live(labels)' : labels'[l] = labels[l]
  BY <1>2, <1>4, <1>5 DEF Live
<1>9. \A c \in Live(columns)' : c \in Live(columns) \ cs /\ columns'[c].type = columns[c].type
  BY <1>2, <1>3, <1>5 DEF Live
<1>10. \A n \in Live(notes)' : n \in Live(ns) /\ n \in Notes /\ notes'[n].type = ns[n].type
  BY <1>6, Pruning DEF Live
<1>11. Live(types)' = Live(types')
  BY DEF Live
<1>12. Belonging'
  BY <1>8, <1>9, <1>10, <1>11 DEF Belonging
<1>13. StraysKnown' /\ SourcesKnown'
  <2>1. \A c \in Columns : columns'[c].status = "absent" => columns[c].status = "absent"
    BY <1>3
  <2>2. StraysKnown'
    BY <1>3, <2>1 DEF CatalogIInv, StraysKnown
  <2>3. \A c \in Columns : columns[c].from \in Types \cup {Shared}
    BY <1>2 DEF ColumnRow
  <2> QED
    BY <1>3, <2>2, <2>3 DEF CatalogIInv, SourcesKnown, TypesStay
<1>14. ASSUME NEW n \in Live(notes)', NEW c \in Columns,
              ~columns'[c].strays, notes'[n].values[c] # NoValue
       PROVE  /\ columns'[c].status = "live" /\ columns'[c].type = notes'[n].type
              /\ FitsKind(notes'[n].values[c], columns'[c].kind, Live(labels)')
  <2>1. /\ n \in Notes /\ n \in Live(ns) /\ ns[n].status = "live"
        /\ ~columns[c].strays /\ c \notin stray
    BY <1>3, <1>10, <1>14 DEF Live
  <2>2. /\ ns[n].values[c] # NoValue
        /\ columns[c].status = "live" /\ columns[c].type = ns[n].type
        /\ FitsKind(notes'[n].values[c], columns[c].kind, Live(labels) \ gone)
    BY <1>14, <2>1, PrunedFits
  <2>3. c \notin cs
    BY <2>1, <2>2
  <2> QED
    BY <1>3, <1>8, <1>10, <2>2, <2>3
<1>15. ValuesFit'
  BY <1>14 DEF ValuesFit, ValueFits, FitsKind, Fits, FitsImages, AtMostOne
<1> QED
  BY <1>1, <1>7, <1>12, <1>13, <1>15 DEF CatalogIInv

(* A deleted label is taken from all notes.                                     *)
LEMMA DeleteLabelKeeps ==
  ASSUME CatalogIInv, NEW l \in Labels, DeleteLabel(l)
  PROVE  CatalogIInv'
<1>1. /\ notes \in [Notes -> NoteRow] /\ columns \in [Columns -> ColumnRow]
      /\ types \in [Types -> TypeRow]
  BY DEF CatalogIInv, CatalogTypeOK, NoteRow, ColumnRow, TypeRow
<1>2. /\ notes' = Pruned(notes, {l}) /\ labels' = TombstoneLabels({l})
      /\ UNCHANGED <<types, columns, running>> /\ changes' \in 0..MaxChanges
      /\ Journal(ChangedNotes(notes, notes') \cup {Configuration})
  BY Counted DEF DeleteLabel, CatalogIInv
<1>3. ColumnsLeft({}, {})
  BY <1>1, <1>2 DEF ColumnsLeft
<1>4. types' \in [Types -> TypeRow] /\ TypesStay /\ TypesReady' /\ Live(types') = Live(types)
  BY <1>1, <1>2 DEF CatalogIInv, TypesReady, TypesStay, Live
<1>5. \A n \in Live(notes) : /\ notes[n].type \in Live(types)
                            /\ \A c \in Columns : ValueFits(notes[n], c, notes[n].values[c])
  BY DEF CatalogIInv, Belonging, ValuesFit
<1>6. /\ \A c \in Live(columns) : columns[c].type \in Live(types)
      /\ \A k \in Live(labels) : labels[k].of \in Live(types) \cup {Shared}
  BY DEF CatalogIInv, Belonging
<1>7. \A n \in Notes : notes'[n] # notes[n] => n \in ChangedNotes(notes, notes') \cup {Configuration}
  BY DEF ChangedNotes
<1>8. {l} \in SUBSET Labels /\ {} \in SUBSET Columns
  OBVIOUS
<1> QED
  BY <1>1, <1>2, <1>3, <1>4, <1>5, <1>6, <1>7, <1>8, DeletionKeeps

LEMMA TypeTombstoned ==
  ASSUME NEW ts \in [Types -> TypeRow], NEW t
  PROVE  /\ TombstoneType(ts, t) \in [Types -> TypeRow]
         /\ \A u \in Types \ {t} : TombstoneType(ts, t)[u] = ts[u]
         /\ Live(TombstoneType(ts, t)) = Live(ts) \ {t}
         /\ \A u \in Types : ts[u].status # "absent" => TombstoneType(ts, t)[u].status # "absent"
<1>1. ASSUME NEW u \in Types
      PROVE  /\ TombstoneType(ts, t)[u] \in TypeRow
             /\ u # t => TombstoneType(ts, t)[u] = ts[u]
             /\ u = t => TombstoneType(ts, t)[u].status = "deleted"
  <2>1. ts[u] \in TypeRow
    OBVIOUS
  <2>2. TombstoneType(ts, t)[u] = IF u = t THEN [ts[u] EXCEPT !.status = "deleted"] ELSE ts[u]
    BY DEF TombstoneType, Tombstoned
  <2> QED
    BY <2>1, <2>2 DEF TypeRow, Presence
<1>2. TombstoneType(ts, t) \in [Types -> TypeRow]
  BY <1>1 DEF TombstoneType, Tombstoned
<1> QED
  BY <1>1, <1>2 DEF Live

(* With a type go its notes, columns and labels.                                *)
LEMMA DeleteTypeAndNotesKeeps ==
  ASSUME CatalogIInv, NEW t \in Types, DeleteNoteTypeAndNotes(t)
  PROVE  CatalogIInv'
<1> DEFINE ns == TombstoneNotes(NotesOf(t))
<1>1. /\ types \in [Types -> TypeRow] /\ columns \in [Columns -> ColumnRow]
      /\ labels \in [Labels -> LabelRow] /\ t \in Live(types) /\ running
      /\ changes' \in 0..MaxChanges /\ running' = running
  BY Counted DEF DeleteNoteTypeAndNotes, CatalogIInv, CatalogTypeOK, TypeRow, ColumnRow,
                 LabelRow, Change
<1>2. /\ notes' = Pruned(ns, LabelsOf(t)) /\ labels' = TombstoneLabels(LabelsOf(t))
      /\ columns' = TombstoneColumns(LiveColumns(t))
      /\ Journal(NotesOf(t) \cup ChangedNotes(ns, notes') \cup {Configuration})
  BY DEF DeleteNoteTypeAndNotes
<1>3. /\ types' \in [Types -> TypeRow] /\ Live(types) \ {t} \subseteq Live(types')
      /\ Live(types') # {} /\ \A u \in Live(types') : types'[u].seeded
      /\ TypesStay
  <2>1. CASE Live(types) = {t}
    <3>1. PICK f \in Fresh(types) : types' = Seeded(TombstoneType(types, t), f)
      BY <2>1 DEF DeleteNoteTypeAndNotes
    <3>2. f \in Types /\ types[f].status = "absent"
      BY FreshTypes
    <3>3. TombstoneType(types, t)[f].status # "live"
      BY <1>1, <3>2, TypeTombstoned DEF Live
    <3> QED
      BY <1>1, <3>1, <3>2, <3>3, TypeTombstoned, SeededTypes DEF TypesStay
  <2>2. CASE Live(types) # {t}
    <3>1. types' = TombstoneType(types, t)
      BY <2>2 DEF DeleteNoteTypeAndNotes
    <3>2. \A u \in Live(types) : types[u].seeded /\ u \in Types
      BY <1>1 DEF CatalogIInv, TypesReady, Live
    <3> QED
      BY <1>1, <2>2, <3>1, <3>2, TypeTombstoned DEF TypesStay
  <2> QED
    BY <2>1, <2>2
<1>4. TypesReady'
  BY <1>3 DEF TypesReady, Live
<1>5. ns \in [Notes -> NoteRow]
  BY NotesTombstoned
<1>6. ASSUME NEW n \in Live(ns)
      PROVE  /\ ns[n].type \in Live(types')
             /\ \A c \in Columns : ValueFits(ns[n], c, ns[n].values[c])
             /\ \A c \in LiveColumns(t) : columns[c].strays \/ ns[n].values[c] = NoValue
  <2>1. n \in Live(notes) /\ n \notin NotesOf(t) /\ ns[n] = notes[n]
    BY NotesTombstoned DEF Live, CatalogIInv, CatalogTypeOK
  <2>2. notes[n].type \in Live(types) /\ notes[n].type # t
    BY <2>1 DEF NotesOf, CatalogIInv, Belonging
  <2>3. \A c \in Columns : ValueFits(notes[n], c, notes[n].values[c])
    BY <2>1 DEF CatalogIInv, ValuesFit
  <2>4. \A c \in LiveColumns(t) : c \in Columns /\ columns[c].type = t
    BY <1>1 DEF LiveColumns, Live
  <2> HIDE DEF ns
  <2> QED
    BY <1>3, <2>1, <2>2, <2>3, <2>4 DEF ValueFits
<1>7. \A c \in Live(columns) \ LiveColumns(t) : columns[c].type \in Live(types')
  BY <1>3 DEF LiveColumns, CatalogIInv, Belonging
<1>8. \A l \in Live(labels) \ LabelsOf(t) : labels[l].of \in Live(types') \cup {Shared}
  BY <1>3 DEF LabelsOf, CatalogIInv, Belonging
<1>9. \A n \in Notes : notes'[n] # notes[n] =>
        n \in NotesOf(t) \cup ChangedNotes(ns, notes') \cup {Configuration}
  BY NotesTombstoned DEF ChangedNotes
<1>10. LabelsOf(t) \in SUBSET Labels /\ LiveColumns(t) \in SUBSET Columns
  BY <1>1 DEF LabelsOf, LiveColumns, Live
<1>11. ColumnsLeft(LiveColumns(t), {})
  BY <1>2, ColumnsTombstoned DEF ColumnsLeft
<1> HIDE DEF ns
<1> QED
  BY <1>1, <1>2, <1>3, <1>4, <1>5, <1>6, <1>7, <1>8, <1>9, <1>10, <1>11, DeletionKeeps

(* What is left of a value for another column fits that.                        *)
LEMMA FilteredFits ==
  \A value, first, c :
    /\ Filtered(value, c, first) \subseteq Live(labels) \cap Labels
    /\ columns[c].kind = "single" => AtMostOne(Filtered(value, c, first))
<1> SUFFICES ASSUME NEW value, NEW first, NEW c
             PROVE  /\ Filtered(value, c, first) \subseteq Live(labels) \cap Labels
                    /\ columns[c].kind = "single" => AtMostOne(Filtered(value, c, first))
  OBVIOUS
<1> DEFINE accepted == {l \in value \cap Labels : InSources(c, l)}
<1>1. accepted \subseteq Labels /\ accepted \subseteq Live(labels)
  BY DEF InSources
<1>2. Cardinality(accepted) < 2 => AtMostOne(accepted)
  BY <1>1, FewerThanTwo
<1>3. ~(Cardinality(accepted) < 2) => accepted # {}
  BY <1>1, FewerThanTwo DEF AtMostOne
<1>4. Filtered(value, c, first) =
        IF columns[c].kind = "multi" \/ Cardinality(accepted) < 2 THEN accepted
        ELSE IF first \in accepted THEN {first} ELSE {CHOOSE l \in accepted : TRUE}
  BY DEF Filtered
<1> HIDE DEF accepted
<1>5. accepted # {} => (CHOOSE l \in accepted : TRUE) \in accepted
  OBVIOUS
<1>6. \A l : AtMostOne({l})
  BY DEF AtMostOne
<1> QED
  BY <1>1, <1>2, <1>3, <1>4, <1>5, <1>6

(* A note that is moved has no values left of its old type, and what it has of  *)
(* the new one fits, but for strays.                                            *)
LEMMA MovedFits ==
  ASSUME CatalogIInv, NEW t \in Types, NEW target \in Types, NEW n \in NotesOf(t),
         NEW m \in FieldMappings(t, target), NEW first
  PROVE  /\ Moved(n, t, target, m, first) \in NoteRow
         /\ Moved(n, t, target, m, first).status = "live"
         /\ Moved(n, t, target, m, first).type = target
         /\ \A c \in Columns : \/ c \in StrayTargets(m)
                               \/ ValueFits(Moved(n, t, target, m, first), c,
                                            Moved(n, t, target, m, first).values[c])
         /\ \A c \in LiveColumns(t) : Moved(n, t, target, m, first).values[c] = NoValue
<1> DEFINE Copied(c) == CHOOSE s \in DOMAIN m : m[s] = c
           value(c) == IF c \in LiveColumns(t) THEN NoValue
                       ELSE IF c \in Range(m) /\ notes[n].values[Copied(c)] # NoValue
                       THEN IF columns[c].kind \in LabelKinds
                            THEN Filtered(notes[n].values[Copied(c)], c, first)
                            ELSE notes[n].values[Copied(c)]
                       ELSE notes[n].values[c]
           values == [c \in Columns |-> value(c)]
           moved == [status |-> "live", type |-> target, values |-> values]
<1>1. Moved(n, t, target, m, first) = moved
  BY DEF Moved
<1>2. /\ columns \in [Columns -> ColumnRow] /\ n \in Live(notes)
      /\ notes[n].type = t /\ notes[n].values \in [Columns -> Values]
      /\ \A u \in Types : LiveColumns(u) \subseteq Columns
  BY DEF CatalogIInv, CatalogTypeOK, ColumnRow, NoteRow, NotesOf, Live, LiveColumns
<1>3. /\ DOMAIN m \subseteq LiveColumns(t)
      /\ \A s \in DOMAIN m : m[s] \in LiveColumns(target) /\ Compatible(s, m[s])
  BY DEF FieldMappings
<1>4. \A c \in Range(m) : /\ Copied(c) \in DOMAIN m /\ m[Copied(c)] = c
                         /\ Copied(c) \in Columns /\ c \in LiveColumns(target)
  <2> SUFFICES ASSUME NEW c \in Range(m)
               PROVE  /\ Copied(c) \in DOMAIN m /\ m[Copied(c)] = c
                      /\ Copied(c) \in Columns /\ c \in LiveColumns(target)
    OBVIOUS
  <2>1. PICK s \in DOMAIN m : m[s] = c
    BY DEF Range
  <2>2. Copied(c) \in DOMAIN m /\ m[Copied(c)] = c
    BY <2>1
  <2> HIDE DEF Copied
  <2> QED
    BY <1>2, <1>3, <2>1, <2>2
<1> HIDE DEF Copied
<1>5. \A c \in Columns : value(c) \in Values
  <2>1. \A v, c : Filtered(v, c, first) \in Values
    <3>1. \A v, c : Filtered(v, c, first) \in SUBSET Labels
      BY FilteredFits
    <3> QED
      BY <3>1, ValuesApart
  <2> QED
    BY <1>2, <1>4, <2>1, ValuesApart
<1>6. values \in [Columns -> Values] /\ \A c \in Columns : values[c] = value(c)
  BY <1>5
<1>7. ASSUME NEW c \in Columns, c \notin StrayTargets(m),
             ~columns[c].strays, value(c) # NoValue
      PROVE  /\ columns[c].status = "live" /\ columns[c].type = target
             /\ FitsKind(value(c), columns[c].kind, Live(labels))
  <2>1. c \notin LiveColumns(t)
    BY <1>7
  <2>2. CASE c \in Range(m) /\ notes[n].values[Copied(c)] # NoValue
    <3> DEFINE s == Copied(c)
               copied == notes[n].values[s]
    <3>1. /\ columns[c].status = "live" /\ columns[c].type = target
          /\ columns[c].kind \in Kinds /\ columns[s].kind \in Kinds
          /\ s \in Columns /\ s \in DOMAIN m /\ m[s] = c
      BY <1>2, <1>4, <2>2 DEF LiveColumns, Live, ColumnRow
    <3>2. CASE columns[c].kind \in LabelKinds
      <4>1. value(c) = Filtered(copied, c, first)
        BY <2>1, <2>2, <3>2
      <4>2. /\ Filtered(copied, c, first) \subseteq Live(labels) \cap Labels
            /\ columns[c].kind = "single" => AtMostOne(Filtered(copied, c, first))
        BY FilteredFits
      <4> HIDE DEF s, value
      <4> QED
        BY <3>1, <3>2, <4>1, <4>2 DEF FitsKind, Fits
    <3>3. CASE columns[c].kind \notin LabelKinds
      <4>1. value(c) = copied /\ copied # NoValue
        BY <2>1, <2>2, <3>3
      <4> HIDE DEF s, value
      <4>2. TypeOfKind(columns[s].kind) = TypeOfKind(columns[c].kind)
        BY <1>3, <3>1 DEF Compatible
      <4>3. columns[s].kind \notin LabelKinds
        BY <3>1, <3>3, <4>2, KindsAgree DEF LabelKinds, ImageKinds
      <4>4. ~columns[s].strays /\ ~Outgrows(s, columns[c].kind)
        BY <1>7, <3>1, <4>3 DEF StrayTargets
      <4>5. Fits(copied, columns[s].kind)
        BY <1>2, <3>1, <4>1, <4>4 DEF CatalogIInv, ValuesFit, ValueFits, FitsKind
      <4>6. Fits(copied, columns[c].kind)
        BY <3>1, <3>3, <4>4, <4>5, KindFits
      <4> QED
        BY <3>1, <3>3, <4>1, <4>6 DEF FitsKind
    <3> QED
      BY <3>2, <3>3
  <2>3. CASE ~(c \in Range(m) /\ notes[n].values[Copied(c)] # NoValue)
    <3>1. value(c) = notes[n].values[c]
      BY <2>1, <2>3
    <3>2. columns[c].status = "live" /\ columns[c].type = t
      BY <1>2, <1>7, <3>1 DEF CatalogIInv, ValuesFit, ValueFits
    <3>3. c \in LiveColumns(t)
      BY <1>2, <3>2 DEF LiveColumns, Live
    <3> QED
      BY <2>1, <3>3
  <2> QED
    BY <2>2, <2>3
<1>8. \A c \in LiveColumns(t) : value(c) = NoValue
  OBVIOUS
<1> HIDE DEF value, values
<1>9. /\ moved \in NoteRow /\ moved.status = "live" /\ moved.type = target
      /\ moved.values = values
  BY <1>6 DEF NoteRow, Presence
<1> HIDE DEF moved
<1> QED
  BY <1>1, <1>2, <1>6, <1>7, <1>8, <1>9 DEF ValueFits

(* With a type whose notes are moved go its columns and labels.                 *)
LEMMA DeleteTypeAndMoveKeeps ==
  ASSUME CatalogIInv, NEW t \in Types, NEW target \in Types, DeleteNoteTypeAndMove(t, target)
  PROVE  CatalogIInv'
<1> DEFINE ns(m, first) == [n \in Notes |-> IF n \in NotesOf(t)
                                         THEN Moved(n, t, target, m, first) ELSE notes[n]]
<1>1. /\ types \in [Types -> TypeRow] /\ columns \in [Columns -> ColumnRow]
      /\ labels \in [Labels -> LabelRow] /\ notes \in [Notes -> NoteRow]
      /\ t \in Live(types) /\ target # t /\ running
      /\ changes' \in 0..MaxChanges /\ running' = running
  BY Counted DEF DeleteNoteTypeAndMove, CatalogIInv, CatalogTypeOK, TypeRow, ColumnRow,
                 LabelRow, NoteRow, Change
<1>2. PICK m \in FieldMappings(t, target), first \in Labels :
         /\ notes' = Pruned(ns(m, first), LabelsOf(t))
         /\ labels' = TombstoneLabels(LabelsOf(t))
         /\ columns' = [c \in Columns |->
              [TombstoneColumns(LiveColumns(t))[c] EXCEPT !.strays = @ \/ c \in StrayTargets(m)]]
         /\ Journal(NotesOf(t) \cup ChangedNotes(ns(m, first), notes') \cup {Configuration})
  BY DEF DeleteNoteTypeAndMove
<1>3. \A u \in Live(types) : types[u].seeded /\ u \in Types
  BY <1>1 DEF CatalogIInv, TypesReady, Live
<1>4. /\ types' \in [Types -> TypeRow] /\ Live(types) \ {t} \subseteq Live(types')
      /\ target \in Live(types') /\ \A u \in Live(types') : types'[u].seeded
      /\ TypesStay
  <2>1. CASE target \in Live(types) /\ types' = TombstoneType(types, t)
    BY <1>1, <1>3, <2>1, TypeTombstoned DEF TypesStay
  <2>2. ASSUME NEW default \in BOOLEAN,
               types' = TombstoneType([types EXCEPT ![target] = NewType(default, TRUE)], t)
        PROVE  /\ types' \in [Types -> TypeRow] /\ Live(types) \ {t} \subseteq Live(types')
               /\ target \in Live(types') /\ \A u \in Live(types') : types'[u].seeded
               /\ TypesStay
    <3> DEFINE ts == [types EXCEPT ![target] = NewType(default, TRUE)]
    <3>1. /\ NewType(default, TRUE) \in TypeRow /\ NewType(default, TRUE).status = "live"
          /\ NewType(default, TRUE).seeded
      BY DEF NewType, TypeRow, Presence
    <3>2. /\ ts \in [Types -> TypeRow] /\ Live(types) \subseteq Live(ts) /\ target \in Live(ts)
          /\ \A u \in Types : types[u].status # "absent" => ts[u].status # "absent"
      BY <1>1, <3>1 DEF Live
    <3>3. \A u \in Live(ts) : ts[u].seeded /\ u \in Types
      BY <1>1, <1>3, <3>1 DEF Live
    <3>4. types' = TombstoneType(ts, t)
      BY <2>2
    <3> HIDE DEF ts
    <3> QED
      BY <1>1, <3>2, <3>3, <3>4, TypeTombstoned DEF TypesStay
  <2> QED
    BY <2>1, <2>2 DEF DeleteNoteTypeAndMove
<1>5. TypesReady'
  BY <1>4 DEF TypesReady, Live
<1>6. ASSUME NEW n \in Notes
      PROVE  /\ n \in NotesOf(t) => ns(m, first)[n] = Moved(n, t, target, m, first)
             /\ n \notin NotesOf(t) => ns(m, first)[n] = notes[n]
  OBVIOUS
<1>7. ns(m, first) \in [Notes -> NoteRow]
  BY <1>1, MovedFits
<1>8. ASSUME NEW n \in Live(ns(m, first))
      PROVE  /\ ns(m, first)[n].type \in Live(types')
             /\ \A c \in Columns : \/ c \in StrayTargets(m)
                                   \/ ValueFits(ns(m, first)[n], c, ns(m, first)[n].values[c])
             /\ \A c \in LiveColumns(t) : columns[c].strays \/ ns(m, first)[n].values[c] = NoValue
  <2>1. n \in Notes
    BY DEF Live
  <2>2. CASE n \in NotesOf(t)
    BY <1>4, <1>6, <2>1, <2>2, MovedFits
  <2>3. CASE n \notin NotesOf(t)
    <3>1. n \in Live(notes) /\ ns(m, first)[n] = notes[n]
      BY <1>1, <1>6, <2>1, <2>3 DEF Live
    <3>2. notes[n].type \in Live(types) /\ notes[n].type # t
      BY <2>3, <3>1 DEF NotesOf, CatalogIInv, Belonging
    <3>3. \A c \in Columns : ValueFits(notes[n], c, notes[n].values[c])
      BY <3>1 DEF CatalogIInv, ValuesFit
    <3>4. \A c \in LiveColumns(t) : c \in Columns /\ columns[c].type = t
      BY <1>1 DEF LiveColumns, Live
    <3> HIDE DEF ns
    <3> QED
      BY <1>4, <3>1, <3>2, <3>3, <3>4 DEF ValueFits
  <2> QED
    BY <2>2, <2>3
<1>9. \A c \in Live(columns) \ LiveColumns(t) : columns[c].type \in Live(types')
  BY <1>4 DEF LiveColumns, CatalogIInv, Belonging
<1>10. \A l \in Live(labels) \ LabelsOf(t) : labels[l].of \in Live(types') \cup {Shared}
  BY <1>4 DEF LabelsOf, CatalogIInv, Belonging
<1>11. \A n \in Notes : notes'[n] # notes[n] =>
         n \in NotesOf(t) \cup ChangedNotes(ns(m, first), notes') \cup {Configuration}
  BY <1>6 DEF ChangedNotes
<1>12. LabelsOf(t) \in SUBSET Labels /\ LiveColumns(t) \in SUBSET Columns
  BY <1>1 DEF LabelsOf, LiveColumns, Live
<1>13. ColumnsLeft(LiveColumns(t), StrayTargets(m))
  <2>1. ASSUME NEW c \in Columns
        PROVE  /\ columns'[c] \in ColumnRow
               /\ columns'[c].status = IF c \in LiveColumns(t) THEN "deleted" ELSE columns[c].status
               /\ columns'[c].type = columns[c].type /\ columns'[c].kind = columns[c].kind
               /\ columns'[c].from = columns[c].from
               /\ columns'[c].strays <=> columns[c].strays \/ c \in StrayTargets(m)
    <3> DEFINE row == TombstoneColumns(LiveColumns(t))[c]
    <3>1. PICK stray \in BOOLEAN : /\ stray <=> (row.strays \/ c \in StrayTargets(m))
                                  /\ columns'[c] = [row EXCEPT !.strays = stray]
      BY <1>2
    <3>2. /\ row \in ColumnRow /\ row.strays = columns[c].strays
          /\ row.status = IF c \in LiveColumns(t) THEN "deleted" ELSE columns[c].status
          /\ row.type = columns[c].type /\ row.kind = columns[c].kind
          /\ row.from = columns[c].from
      BY ColumnsTombstoned
    <3> HIDE DEF row
    <3> QED
      BY <3>1, <3>2 DEF ColumnRow
  <2>2. columns' \in [Columns -> ColumnRow]
    BY <1>2, <2>1
  <2> QED
    BY <2>1, <2>2 DEF ColumnsLeft
<1>14. \A c \in Columns : c \in StrayTargets(m) => columns[c].status # "absent"
  <2>1. \A c \in StrayTargets(m) : c \in LiveColumns(target)
    BY DEF StrayTargets, FieldMappings
  <2> QED
    BY <2>1 DEF LiveColumns, Live
<1> HIDE DEF ns
<1> QED
  BY <1>1, <1>2, <1>4, <1>5, <1>7, <1>8, <1>9, <1>10, <1>11, <1>12, <1>13, <1>14, DeletionKeeps

(* The same of what there is after a step.                                      *)
LEMMA FilteredFitsThen ==
  (\A value, first, c :
    /\ Filtered(value, c, first) \subseteq Live(labels) \cap Labels
    /\ columns[c].kind = "single" => AtMostOne(Filtered(value, c, first)))'
  BY FilteredFits, PTL

-----------------------------------------------------------------------------
(* Matching                                                                     *)

(* New identifiers are free ones, a different one for each.                     *)
LEMMA NewIdsAreFree ==
  ASSUME NEW xs, IsFiniteSet(xs), NEW free, IsFiniteSet(free), NEW m \in NewIds(xs, free)
  PROVE  m \in [xs -> free] /\ IsInjective(m)
<1> DEFINE ids == {x \in free : Cardinality({y \in free : y < x}) < Cardinality(xs)}
<1>1. IsFiniteSet(ids)
  BY FS_Subset
<1>2. ~(Cardinality(ids) < Cardinality(xs)) /\ m = CHOOSE f \in [xs -> ids] : IsInjective(f)
  BY DEF NewIds
<1>3. ids \subseteq free
  OBVIOUS
<1> HIDE DEF ids
<1>4. /\ Cardinality(xs) \in Nat /\ ExistsBijection(1..Cardinality(xs), xs)
      /\ Cardinality(ids) \in Nat /\ ExistsBijection(1..Cardinality(ids), ids)
  BY <1>1, FS_CardinalityType
<1>5. ExistsInjection(1..Cardinality(xs), 1..Cardinality(ids))
  BY <1>2, <1>4, Fun_NatInjLeq
<1>6. ExistsInjection(xs, 1..Cardinality(xs)) /\ ExistsInjection(1..Cardinality(ids), ids)
  BY <1>4, Fun_ExistsBijEquiv
<1>7. ExistsInjection(xs, ids)
  BY <1>5, <1>6, Fun_ExistsInjTransitive
<1>8. \E f \in [xs -> ids] : IsInjective(f)
  BY <1>7 DEF ExistsInjection, Injection
<1> QED
  BY <1>2, <1>3, <1>8

(* Two mappings put together, of which the second takes what the first leaves.  *)
LEMMA Combined ==
  ASSUME NEW X, NEW s \in SUBSET X, NEW Y, NEW Z, NEW m \in [s -> Y], NEW new \in [X \ s -> Z]
  PROVE  /\ Both(m, new) \in [X -> Y \cup Z]
         /\ \A x \in s : Both(m, new)[x] = m[x]
         /\ \A x \in X \ s : Both(m, new)[x] = new[x]
  BY DEF Both

(* The identifiers of each kind are finitely many.                              *)
LEMMA IdsAreFinite ==
  /\ \A xs \in SUBSET Types : IsFiniteSet(xs)
  /\ \A xs \in SUBSET Columns : IsFiniteSet(xs)
  /\ \A xs \in SUBSET Labels : IsFiniteSet(xs)
  /\ \A xs \in SUBSET Notes : IsFiniteSet(xs)
<1>1. IsFiniteSet(Types) /\ IsFiniteSet(Columns) /\ IsFiniteSet(Labels) /\ IsFiniteSet(Notes)
  BY CatalogAssumption, FS_Interval DEF Types, Columns, Labels, Notes
<1> QED
  BY <1>1, FS_Subset

-----------------------------------------------------------------------------
(* Exporting and importing                                                      *)

(* Exporting a catalog that is whole: what its columns do not accept is stray.  *)
LEMMA ExportKeeps ==
  ASSUME CatalogIInv, Export
  PROVE  CatalogIInv' /\ FileTyped' /\ ExportsImport'
<1>1. /\ UNCHANGED <<types, columns, labels, notes, running, unjournaled>>
      /\ changes' \in 0..MaxChanges
      /\ file' = [types |-> types, columns |-> columns, labels |-> labels, notes |-> notes]
  BY Counted DEF Export, CatalogIInv
<1>2. /\ file'.types = types /\ file'.columns = columns
      /\ file'.labels = labels /\ file'.notes = notes
  BY <1>1
<1>3. /\ types \in [Types -> TypeRow] /\ columns \in [Columns -> ColumnRow]
      /\ labels \in [Labels -> LabelRow] /\ notes \in [Notes -> NoteRow]
  BY DEF CatalogIInv, CatalogTypeOK, TypeRow, ColumnRow, LabelRow, NoteRow
<1>4. CatalogIInv'
  BY <1>1 DEF CatalogIInv, CatalogTypeOK, Belonging, ValuesFit, ValueFits, StraysKnown,
              SourcesKnown, TypesReady, Live, FitsKind, Fits, FitsImages, AtMostOne
<1>5. FileTyped'
  BY <1>2, <1>3 DEF FileTyped
<1>6. ColumnsBelong' /\ NotesBelong' /\ SourcesBelong'
  BY <1>2, <1>3 DEF ColumnsBelong, NotesBelong, SourcesBelong, CatalogIInv, Belonging,
                    SourcesKnown, Live, ColumnRow, TypeRow, Presence
<1>7. ASSUME NEW n \in Live(notes), NEW c \in Columns, notes[n].values[c] # NoValue,
             ~columns[c].strays
      PROVE  /\ c \in Live(columns) /\ columns[c].type = notes[n].type
             /\ Fits(notes[n].values[c], columns[c].kind)
  BY <1>3, <1>7 DEF CatalogIInv, ValuesFit, ValueFits, FitsKind, Live
<1>8. ASSUME NEW n \in Live(notes), NEW c \in Columns
      PROVE  ValueMatches(n, c)' \/ columns[c].strays
  <2>1. Live(file.columns)' = Live(columns)
    BY <1>2 DEF Live
  <2> QED
    BY <1>2, <1>7, <2>1 DEF ValueMatches, Fits, FitsImages
<1>9. ExportsImport'
  <2>1. Live(file.notes)' = Live(notes)
    BY <1>2 DEF Live
  <2> QED
    BY <1>2, <1>6, <1>8, <2>1 DEF ExportsImport
<1> QED
  BY <1>4, <1>5, <1>9

(* The file stays as it is exported.                                            *)
LEMMA FileKeeps ==
  ASSUME FileTyped, ExportsImport, UNCHANGED file
  PROVE  FileTyped' /\ ExportsImport'
  BY DEF FileTyped, ExportsImport, ColumnsBelong, SourcesBelong, NotesBelong, ValueMatches, Fits,
         FitsImages, Live

(* A spreadsheet is validated cell by cell.                                     *)
LEMMA SpreadsheetKeeps ==
  ASSUME CatalogIInv, NEW t \in Types, ImportSpreadsheet(t)
  PROVE  CatalogIInv'
<1>1. /\ UNCHANGED <<types, columns, labels, running>> /\ changes' \in 0..MaxChanges
      /\ t \in Live(types) /\ notes \in [Notes -> NoteRow]
  BY Counted DEF ImportSpreadsheet, CatalogIInv, CatalogTypeOK, NoteRow
<1> DEFINE values(row) == [c \in Columns |-> IF c \in LiveColumns(t) THEN row[c] ELSE NoValue]
           note(row) == [status |-> "live", type |-> t, values |-> values(row)]
<1>2. PICK ns \in SUBSET FreeNotes :
         /\ \E rows \in SpreadsheetRows(t, ns) :
              notes' = [n \in Notes |-> IF n \notin ns THEN notes[n] ELSE note(rows[n])]
         /\ Journal(ns)
  BY DEF ImportSpreadsheet
<1>3. PICK rows \in SpreadsheetRows(t, ns) :
         notes' = [n \in Notes |-> IF n \notin ns THEN notes[n] ELSE note(rows[n])]
  BY <1>2
<1>4. \A n \in ns, c \in LiveColumns(t) : rows[n][c] \in Values /\ Accepts(c, rows[n][c])
  BY DEF SpreadsheetRows, CellValues
<1>5. ASSUME NEW n \in ns
      PROVE  /\ note(rows[n]) \in NoteRow /\ note(rows[n]).type = t
             /\ \A c \in Columns : ValueFits(note(rows[n]), c, note(rows[n]).values[c])
  <2>1. \A c \in Columns : (IF c \in LiveColumns(t) THEN rows[n][c] ELSE NoValue) \in Values
    BY <1>4, ValuesApart
  <2>2. /\ values(rows[n]) \in [Columns -> Values]
        /\ \A c \in Columns : values(rows[n])[c] = IF c \in LiveColumns(t) THEN rows[n][c] ELSE NoValue
    BY <2>1
  <2> HIDE DEF values
  <2>3. /\ note(rows[n]) \in NoteRow /\ note(rows[n]).type = t
        /\ note(rows[n]).values = values(rows[n])
    BY <2>2 DEF NoteRow, Presence
  <2> HIDE DEF note
  <2>4. ASSUME NEW c \in Columns PROVE ValueFits(note(rows[n]), c, values(rows[n])[c])
    <3>1. CASE c \in LiveColumns(t)
      <4>1. ValidValue(note(rows[n]).type, c, values(rows[n])[c])
        BY <1>4, <2>2, <2>3, <3>1 DEF ValidValue
      <4> QED
        BY <4>1, AcceptedFits
    <3>2. CASE c \notin LiveColumns(t)
      BY <2>2, <3>2 DEF ValueFits
    <3> QED
      BY <3>1, <3>2
  <2> QED
    BY <2>3, <2>4
<1> HIDE DEF note
<1>6. ns \subseteq Notes
  BY DEF FreeNotes
<1>7. notes' \in [Notes -> NoteRow] /\ \A n \in Notes : notes'[n] # notes[n] => n \in ns
  BY <1>1, <1>3, <1>5
<1>8. ASSUME NEW n \in Live(notes')
      PROVE  /\ notes'[n].type \in Live(types)
             /\ \A c \in Columns : ValueFits(notes'[n], c, notes'[n].values[c])
  <2>1. n \in Notes
    BY <1>7 DEF Live
  <2>2. CASE n \in ns
    BY <1>1, <1>3, <1>5, <2>1, <2>2
  <2>3. CASE n \notin ns
    <3>1. notes'[n] = notes[n] /\ n \in Live(notes)
      BY <1>1, <1>3, <2>1, <2>3 DEF Live
    <3> QED
      BY <3>1 DEF CatalogIInv, Belonging, ValuesFit
  <2> QED
    BY <2>2, <2>3
<1>9. Journal(ns)
  BY <1>2
<1> QED
  BY <1>1, <1>7, <1>8, <1>9, NotesKeep

(* The types of the file are matched with types that are there, or made.        *)
LEMMA TypesMatched ==
  ASSUME CatalogIInv, FileTyped, file # NoFile, running, running' = running,
         NEW typeOf \in TypeMatches, types' = WithNewTypes(typeOf)
  PROVE  /\ types' \in [Types -> TypeRow] /\ Live(types) \subseteq Live(types')
         /\ typeOf \in [Live(file.types) -> Live(types')] /\ IsInjective(typeOf)
         /\ TypesStay /\ TypesReady'
<1>1. /\ types \in [Types -> TypeRow] /\ file.types \in [Types -> TypeRow]
      /\ Live(types) \subseteq Types /\ Absent(types) \subseteq Types
      /\ Live(file.types) \subseteq Types
  BY DEF CatalogIInv, CatalogTypeOK, TypeRow, FileTyped, Live, Absent
<1>2. PICK m \in PartialMatches(Live(file.types), Live(types)) :
         \E new \in NewIds(Live(file.types) \ DOMAIN m, Absent(types)) : typeOf = Both(m, new)
  BY DEF TypeMatches
<1>3. PICK new \in NewIds(Live(file.types) \ DOMAIN m, Absent(types)) : typeOf = Both(m, new)
  BY <1>2
<1>4. PICK s \in SUBSET Live(file.types) : m \in [s -> Live(types)] /\ IsInjective(m)
  BY DEF PartialMatches
<1>5. new \in [Live(file.types) \ s -> Absent(types)] /\ IsInjective(new)
  BY <1>1, <1>4, IdsAreFinite, NewIdsAreFree
<1>6. typeOf \in [Live(file.types) -> Live(types) \cup Absent(types)]
  BY <1>3, <1>4, <1>5, Combined
<1> DEFINE from(t) == {x \in DOMAIN typeOf : typeOf[x] = t}
           default(t) == \E x \in from(t) : file.types[x].default
<1>7. ASSUME NEW t \in Types
      PROVE  /\ types'[t] \in TypeRow
             /\ types[t].status = "live" => types'[t] = types[t]
             /\ types'[t].status = "live" => types[t].status = "live" \/ types'[t].seeded
             /\ types[t].status = "absent" /\ from(t) # {} => types'[t].status = "live"
  <2>1. types'[t] = IF types[t].status # "absent" \/ from(t) = {} THEN types[t]
                    ELSE NewType(default(t), TRUE)
    BY DEF WithNewTypes
  <2>2. default(t) \in BOOLEAN
    OBVIOUS
  <2> HIDE DEF default
  <2>3. /\ NewType(default(t), TRUE) \in TypeRow /\ NewType(default(t), TRUE).status = "live"
        /\ NewType(default(t), TRUE).seeded
    BY <2>2 DEF NewType, TypeRow, Presence
  <2> HIDE DEF from
  <2> QED
    BY <1>1, <2>1, <2>3
<1>8. types' \in [Types -> TypeRow]
  BY <1>7 DEF WithNewTypes
<1>9. Live(types) \subseteq Live(types')
  BY <1>1, <1>7, <1>8 DEF Live
<1>10. \A x \in Live(file.types) : typeOf[x] \in Live(types')
  <2> SUFFICES ASSUME NEW x \in Live(file.types) PROVE typeOf[x] \in Live(types')
    OBVIOUS
  <2>1. typeOf[x] \in Types /\ from(typeOf[x]) # {}
    BY <1>1, <1>6
  <2>2. types[typeOf[x]].status = "live" \/ types[typeOf[x]].status = "absent"
    BY <1>1, <1>6 DEF Live, Absent
  <2> HIDE DEF from
  <2> QED
    BY <1>7, <1>8, <2>1, <2>2 DEF Live
<1>11. TypesReady'
  <2>1. Live(types) # {} /\ \A t \in Live(types) : types[t].seeded
    BY DEF CatalogIInv, TypesReady
  <2>2. \A t \in Live(types') : types'[t].seeded
    BY <1>1, <1>7, <1>8, <2>1 DEF Live
  <2> QED
    BY <1>9, <2>1, <2>2 DEF TypesReady, Live
<1>12. IsInjective(typeOf)
  <2>1. Live(types) \cap Absent(types) = {}
    BY DEF Live, Absent
  <2>2. /\ \A x \in s : typeOf[x] = m[x]
        /\ \A x \in Live(file.types) \ s : typeOf[x] = new[x]
    BY <1>3, <1>4, <1>5 DEF Both
  <2>3. /\ \A x \in s : m[x] \in Live(types)
        /\ \A x \in Live(file.types) \ s : new[x] \in Absent(types)
    BY <1>4, <1>5
  <2>4. /\ \A x, y \in s : m[x] = m[y] => x = y
        /\ \A x, y \in Live(file.types) \ s : new[x] = new[y] => x = y
    BY <1>4, <1>5 DEF IsInjective
  <2> QED
    BY <1>6, <2>1, <2>2, <2>3, <2>4 DEF IsInjective
<1>13. TypesStay
  <2>1. \A t \in Types : types[t].status # "absent" => types'[t] = types[t]
    BY DEF WithNewTypes
  <2> QED
    BY <2>1 DEF TypesStay
<1> QED
  BY <1>6, <1>8, <1>9, <1>10, <1>11, <1>12, <1>13

(* The labels of the file are matched or made, with the source they belong to.  *)
LEMMA LabelsMatched ==
  ASSUME CatalogIInv, FileTyped, file # NoFile,
         NEW there \in SUBSET Types, Live(types) \subseteq there,
         NEW typeOf \in [Live(file.types) -> there],
         NEW labelOf \in LabelMatches(typeOf), labels' = WithNewLabels(labelOf, typeOf)
  PROVE  /\ labels' \in [Labels -> LabelRow] /\ Live(labels) \subseteq Live(labels')
         /\ \A l \in Live(labels') : labels'[l].of \in there \cup {Shared}
<1>1. /\ labels \in [Labels -> LabelRow] /\ file.labels \in [Labels -> LabelRow]
      /\ FileLabels \subseteq Labels /\ Absent(labels) \subseteq Labels
  BY DEF CatalogIInv, CatalogTypeOK, LabelRow, FileTyped, FileLabels, Live, Absent
<1>2. DOMAIN labelOf \subseteq FileLabels
  <2>1. PICK m \in UNION {[s -> Live(labels)] : s \in SUBSET FileLabels} :
               \E new \in NewIds(FileLabels \ DOMAIN m, Absent(labels)) : labelOf = Both(m, new)
    BY DEF LabelMatches
  <2>2. PICK new \in NewIds(FileLabels \ DOMAIN m, Absent(labels)) : labelOf = Both(m, new)
    BY <2>1
  <2>3. new \in [FileLabels \ DOMAIN m -> Absent(labels)]
    BY <1>1, IdsAreFinite, NewIdsAreFree
  <2> QED
    BY <2>2, <2>3 DEF Both
<1> DEFINE from(l) == {k \in DOMAIN labelOf : labelOf[k] = l}
           of(l) == Remapped(file.labels[CHOOSE k \in from(l) : TRUE].of, typeOf)
<1>3. ASSUME NEW l \in Labels, from(l) # {}
      PROVE  of(l) \in there \cup {Shared}
  <2>1. PICK k \in from(l) : k = CHOOSE x \in from(l) : TRUE
    BY <1>3
  <2>2. file.labels[k].of \in Live(file.types) \cup {Shared}
    BY <1>2, <2>1 DEF FileLabels
  <2> QED
    BY <2>1, <2>2 DEF Remapped
<1>4. ASSUME NEW l \in Labels
      PROVE  /\ labels'[l] \in LabelRow
             /\ labels[l].status = "live" => labels'[l] = labels[l]
             /\ labels'[l].status = "live" => labels'[l].of \in there \cup {Shared}
  <2>1. labels'[l] = IF labels[l].status # "absent" \/ from(l) = {} THEN labels[l]
                     ELSE NewLabel(of(l))
    BY DEF WithNewLabels
  <2>2. labels[l] \in LabelRow
    BY <1>1
  <2>3. labels[l].status = "live" => labels[l].of \in there \cup {Shared}
    BY <1>1 DEF CatalogIInv, Belonging, Live
  <2>4. from(l) # {} => of(l) \in there \cup {Shared}
    BY <1>3
  <2> HIDE DEF from, of
  <2>5. /\ NewLabel(of(l)).status = "live" /\ NewLabel(of(l)).of = of(l)
        /\ from(l) # {} => NewLabel(of(l)) \in LabelRow
    BY <2>4 DEF NewLabel, LabelRow, Presence
  <2> QED
    BY <2>1, <2>2, <2>3, <2>4, <2>5
<1>5. labels' \in [Labels -> LabelRow]
  BY <1>4 DEF WithNewLabels
<1> QED
  BY <1>1, <1>4, <1>5 DEF Live

(* What the values there are must be for a column that is imported.             *)
ValueStays(n, c) ==
  ~columns'[c].strays /\ notes[n].values[c] # NoValue =>
    /\ columns'[c].status = "live" /\ columns'[c].type = notes[n].type
    /\ FitsKind(notes[n].values[c], columns'[c].kind, Live(labels))

(* The columns there are, and what the columns of the file became, for the      *)
(* values of the notes ns of the file.                                          *)
ColumnsFit(there, typeOf, columnOf, ns) ==
  /\ columns' \in [Columns -> ColumnRow] /\ StraysKnown'
  /\ \A d \in Live(columns') : columns'[d].type \in there
  /\ \A n \in Live(notes), d \in Columns : ValueStays(n, d)
  /\ DOMAIN columnOf \subseteq Live(file.columns)
  /\ \A c \in DOMAIN columnOf :
       /\ columns'[columnOf[c]].status = "live"
       /\ columns'[columnOf[c]].type = typeOf[file.columns[c].type]
       /\ \A n \in ns : file.notes[n].values[c] # NoValue =>
            \/ columns'[columnOf[c]].kind \in LabelKinds
            \/ Fits(file.notes[n].values[c], columns'[columnOf[c]].kind)

(* The columns of the file whose settings are taken over.                       *)
TakenOver(named) == Restrict(named, {c \in DOMAIN named : TakesOver(c, named[c])})

(* A column that takes over the settings of one in the file keeps its values;   *)
(* a new column has none.                                                       *)
LEMMA ColumnsImported ==
  ASSUME CatalogIInv, FileTyped, ValidFile, NEW there \in SUBSET Types, Live(types) \subseteq there,
         NEW typeOf \in [Live(file.types) -> there], IsInjective(typeOf),
         NEW named \in NameMatches(typeOf),
         NEW new \in NewIds(Live(file.columns) \ DOMAIN named, Absent(columns)),
         columns' = ImportedColumns(TakenOver(named), new, typeOf)
  PROVE  /\ ColumnsFit(there, typeOf, Both(TakenOver(named), new), Live(file.notes))
         /\ \A c \in Columns : columns'[c].from \in there \cup {Shared, columns[c].from}
<1> DEFINE matched == TakenOver(named)
<1>0. columns' = ImportedColumns(matched, new, typeOf)
  OBVIOUS
<1>1. /\ columns \in [Columns -> ColumnRow] /\ file.columns \in [Columns -> ColumnRow]
      /\ Live(columns) \subseteq Columns /\ Absent(columns) \subseteq Columns
      /\ Live(file.columns) \subseteq Columns /\ file # NoFile
  BY DEF CatalogIInv, CatalogTypeOK, ColumnRow, FileTyped, ValidFile, Live, Absent
<1>2. PICK s \in SUBSET Live(file.columns) : named \in [s -> Live(columns)]
  BY DEF NameMatches
<1>3. /\ \A c \in DOMAIN named : columns[named[c]].type = typeOf[file.columns[c].type]
      /\ \A c, d \in DOMAIN named :
           c # d /\ file.columns[c].type = file.columns[d].type => named[c] # named[d]
  BY DEF NameMatches
<1>4. /\ DOMAIN matched \subseteq s
      /\ \A c \in DOMAIN matched : matched[c] = named[c] /\ TakesOver(c, matched[c])
  BY <1>2 DEF TakenOver, Restrict
<1> HIDE DEF matched
<1>5. new \in [Live(file.columns) \ s -> Absent(columns)] /\ IsInjective(new)
  <2>1. IsFiniteSet(Live(file.columns) \ DOMAIN named) /\ IsFiniteSet(Absent(columns))
    BY <1>1, IdsAreFinite
  <2> QED
    BY <1>2, <2>1, NewIdsAreFree
<1>6. \A c \in Live(file.columns) : /\ file.columns[c].type \in Live(file.types)
                                 /\ typeOf[file.columns[c].type] \in there
                                 /\ Remapped(file.columns[c].from, typeOf) \in there \cup {Shared}
  BY DEF ValidFile, ColumnsBelong, ConfigsAreValid, Remapped
<1>7. Range(matched) \subseteq Live(columns) /\ Range(new) \subseteq Absent(columns)
  BY <1>2, <1>4, <1>5 DEF Range
<1>8. ASSUME NEW d \in Range(matched)
      PROVE  /\ columns'[d] \in ColumnRow
             /\ columns'[d].status = "live" /\ columns'[d].type = columns[d].type
             /\ columns'[d].strays <=> (columns[d].strays \/ Outgrows(d, columns'[d].kind))
             /\ \A c \in DOMAIN matched : matched[c] = d => columns'[d].kind = file.columns[c].kind
             /\ columns'[d].from \in there \cup {Shared}
             /\ columns'[d].kind \in LabelKinds => columns[d].kind \in LabelKinds
             /\ columns'[d].kind = "single" => UpdateResolves(d, "single")
  <2>0. PICK c \in DOMAIN matched : matched[c] = d
    BY DEF Range
  <2> DEFINE from == Remapped(file.columns[c].from, typeOf)
             kind == file.columns[c].kind
  <2>1. d \in Columns /\ d = named[c] /\ c \in Live(file.columns)
    BY <1>1, <1>2, <1>4, <1>7, <2>0
  <2>2. \A x \in DOMAIN matched : matched[x] = d => x = c
    <3> SUFFICES ASSUME NEW x \in DOMAIN matched, matched[x] = d PROVE x = c
      OBVIOUS
    <3>1. x \in DOMAIN named /\ c \in DOMAIN named /\ named[x] = named[c] /\ x \in Live(file.columns)
      BY <1>2, <1>4, <2>1
    <3>2. typeOf[file.columns[x].type] = typeOf[file.columns[c].type]
      BY <1>3, <3>1
    <3>3. file.columns[x].type = file.columns[c].type
      BY <1>6, <2>1, <3>1, <3>2 DEF IsInjective
    <3> QED
      BY <1>3, <3>1, <3>3
  <2>3. c = CHOOSE x \in DOMAIN matched : matched[x] = d
    BY <2>0, <2>2
  <2>4. columns'[d] = SyncedColumn(c, d, typeOf)
    <3>1. columns'[d] = SyncedColumn(CHOOSE x \in DOMAIN matched : matched[x] = d, d, typeOf)
      BY <1>0, <2>1 DEF ImportedColumns
    <3> QED
      BY <2>3, <3>1
  <2>5. /\ file.columns[c] \in ColumnRow /\ columns[d] \in ColumnRow
        /\ columns[d].status = "live" /\ kind \in Kinds
    BY <1>1, <1>7, <2>1 DEF Live, ColumnRow
  <2>6. from \in there \cup {Shared} /\ from \in Types \cup {Shared}
    BY <1>6, <2>1
  <2>7. TypeOfKind(kind) = TypeOfKind(columns[d].kind) /\ UpdateResolves(d, kind)
    BY <1>4, <2>0 DEF TakesOver, CanMap
  <2>8. kind \in LabelKinds => columns[d].kind \in LabelKinds
    BY <2>5, <2>7, KindsAgree DEF ColumnRow, LabelKinds, ImageKinds
  <2>9. PICK strays \in BOOLEAN :
          /\ strays <=> (columns[d].strays \/ Outgrows(d, kind))
          /\ columns'[d] = [columns[d] EXCEPT !.kind = kind, !.from = from, !.strays = strays]
    BY <2>4, <2>5 DEF SyncedColumn, ColumnRow
  <2> HIDE DEF from, kind
  <2>10. /\ columns'[d] \in ColumnRow /\ columns'[d].status = "live"
         /\ columns'[d].type = columns[d].type /\ columns'[d].strays = strays
         /\ columns'[d].kind = kind /\ columns'[d].from = from
    BY <2>5, <2>6, <2>9 DEF ColumnRow
  <2> QED
    BY <2>2, <2>6, <2>7, <2>8, <2>9, <2>10 DEF kind
<1>9. ASSUME NEW c \in DOMAIN new
      PROVE  /\ new[c] \in Range(new) /\ new[c] \notin Range(matched)
             /\ columns'[new[c]] \in ColumnRow /\ columns'[new[c]].status = "live"
             /\ columns'[new[c]].type = typeOf[file.columns[c].type]
             /\ ~columns'[new[c]].strays
             /\ columns'[new[c]].kind = file.columns[c].kind
             /\ columns'[new[c]].from \in there \cup {Shared}
  <2> DEFINE d == new[c]
             row == InsertedColumn(c, typeOf)
  <2>1. /\ d \in Range(new) /\ d \in Columns /\ d \notin Range(matched)
        /\ c \in Live(file.columns)
    BY <1>1, <1>5, <1>7 DEF Range, Live, Absent
  <2>2. c = CHOOSE x \in DOMAIN new : new[x] = d
    BY <1>5 DEF IsInjective
  <2>3. columns'[d] = row
    BY <1>0, <2>1, <2>2 DEF ImportedColumns
  <2>4. file.columns[c] \in ColumnRow
    BY <1>1, <2>1
  <2>5. /\ typeOf[file.columns[c].type] \in Types
        /\ Remapped(file.columns[c].from, typeOf) \in Types \cup {Shared}
    BY <1>6, <2>1
  <2>6. /\ row \in ColumnRow /\ row.status = "live" /\ row.type = typeOf[file.columns[c].type]
        /\ ~row.strays /\ row.kind = file.columns[c].kind
        /\ row.from = Remapped(file.columns[c].from, typeOf)
    BY <2>4, <2>5 DEF InsertedColumn, NewColumn, ColumnRow, Presence
  <2> HIDE DEF row
  <2> QED
    BY <1>6, <2>1, <2>3, <2>6
<1>10. \A d \in Columns \ (Range(matched) \cup Range(new)) : columns'[d] = columns[d]
  BY <1>0 DEF ImportedColumns
<1>11. \A d \in Range(new) : \E c \in DOMAIN new : d = new[c]
  BY DEF Range
<1>12. columns' \in [Columns -> ColumnRow]
  <2>1. \A d \in Columns : columns'[d] \in ColumnRow
    BY <1>1, <1>8, <1>9, <1>10, <1>11
  <2> QED
    BY <1>0, <2>1 DEF ImportedColumns
<1>13. ASSUME NEW d \in Columns
       PROVE  /\ columns'[d].status = "absent" => ~columns'[d].strays
              /\ columns'[d].from \in there \cup {Shared, columns[d].from}
  BY <1>8, <1>9, <1>10, <1>11 DEF CatalogIInv, StraysKnown
<1>14. ASSUME NEW d \in Live(columns') PROVE columns'[d].type \in there
  <2>1. d \in Columns /\ columns'[d].status = "live"
    BY <1>12 DEF Live
  <2>2. \A x \in Live(columns) : columns[x].type \in there
    BY DEF CatalogIInv, Belonging
  <2>3. CASE d \in Range(matched)
    BY <1>7, <1>8, <2>2, <2>3
  <2>4. CASE d \in Range(new)
    BY <1>5, <1>6, <1>9, <1>11, <2>4
  <2>5. CASE d \notin Range(matched) \cup Range(new)
    BY <1>1, <1>10, <2>1, <2>2, <2>5 DEF Live
  <2> QED
    BY <2>3, <2>4, <2>5
<1>15. ASSUME NEW n \in Live(notes), NEW d \in Columns PROVE ValueStays(n, d)
  <2>1. ValueFits(notes[n], d, notes[n].values[d])
    BY DEF CatalogIInv, ValuesFit
  <2>2. CASE d \in Range(matched)
    <3> DEFINE value == notes[n].values[d]
               kind == columns'[d].kind
    <3>0. /\ columns'[d].status = "live" /\ columns'[d].type = columns[d].type
          /\ columns'[d].strays <=> (columns[d].strays \/ Outgrows(d, kind))
          /\ kind \in LabelKinds => columns[d].kind \in LabelKinds
          /\ kind = "single" => UpdateResolves(d, "single")
          /\ kind \in Kinds /\ columns[d].kind \in Kinds /\ d \in Live(columns)
      BY <1>1, <1>7, <1>8, <2>2 DEF ColumnRow
    <3> SUFFICES ASSUME ~columns'[d].strays, value # NoValue
                 PROVE  columns[d].type = notes[n].type /\ FitsKind(value, kind, Live(labels))
      BY <3>0 DEF ValueStays
    <3>1. /\ ~columns[d].strays /\ ~Outgrows(d, kind) /\ columns[d].type = notes[n].type
          /\ FitsKind(value, columns[d].kind, Live(labels))
      BY <2>1, <3>0 DEF ValueFits
    <3> HIDE DEF kind
    <3>2. CASE kind \in LabelKinds
      <4>1. ASSUME kind = "single" PROVE AtMostOne(value)
        BY <3>0, <3>1, <3>2, <4>1, ResolvedFits
      <4> QED
        BY <3>0, <3>1, <3>2, <4>1 DEF FitsKind, Fits, LabelKinds, ImageKinds
    <3>3. CASE kind \notin LabelKinds
      <4>1. Fits(value, kind)
        BY <3>0, <3>1, <3>3, KindFits DEF FitsKind
      <4> QED
        BY <3>1, <3>3, <4>1 DEF FitsKind
    <3> QED
      BY <3>2, <3>3
  <2>3. CASE d \in Range(new)
    <3>1. columns[d].status = "absent" /\ ~columns[d].strays
      BY <1>7, <2>3 DEF Absent, CatalogIInv, StraysKnown
    <3> QED
      BY <2>1, <3>1 DEF ValueStays, ValueFits
  <2>4. CASE d \notin Range(matched) \cup Range(new)
    BY <1>10, <2>1, <2>4 DEF ValueStays, ValueFits
  <2> QED
    BY <2>2, <2>3, <2>4
<1>16. /\ DOMAIN Both(matched, new) \subseteq Live(file.columns)
       /\ \A c \in DOMAIN matched : Both(matched, new)[c] = matched[c]
       /\ \A c \in DOMAIN Both(matched, new) \ DOMAIN matched :
            c \in DOMAIN new /\ Both(matched, new)[c] = new[c]
  BY <1>2, <1>4, <1>5 DEF Both
<1>17. ASSUME NEW c \in DOMAIN Both(matched, new)
       PROVE  /\ columns'[Both(matched, new)[c]].status = "live"
              /\ columns'[Both(matched, new)[c]].type = typeOf[file.columns[c].type]
              /\ columns'[Both(matched, new)[c]].kind = file.columns[c].kind
  <2>1. CASE c \in DOMAIN matched
    <3>1. matched[c] \in Range(matched) /\ columns[matched[c]].type = typeOf[file.columns[c].type]
      BY <1>2, <1>3, <1>4, <2>1 DEF Range
    <3> QED
      BY <1>8, <1>16, <2>1, <3>1
  <2>2. CASE c \notin DOMAIN matched
    BY <1>9, <1>16, <2>2
  <2> QED
    BY <2>1, <2>2
<1>18. \A c \in DOMAIN Both(matched, new), n \in Live(file.notes) :
         file.notes[n].values[c] # NoValue => Fits(file.notes[n].values[c], file.columns[c].kind)
  BY <1>1, <1>16 DEF ValidFile, ValuesMatch, ValueMatches
<1>19. ColumnsFit(there, typeOf, Both(matched, new), Live(file.notes))
  BY <1>12, <1>13, <1>14, <1>15, <1>16, <1>17, <1>18 DEF ColumnsFit, StraysKnown
<1> QED
  BY <1>13, <1>19 DEF matched

(* The notes of the file get the values their columns accept.                   *)
LEMMA NotesImported ==
  ASSUME CatalogIInv, FileTyped, ValidFile, UNCHANGED file,
         Live(labels) \subseteq Live(labels'),
         NEW there \in SUBSET Types, Live(types) \subseteq there,
         NEW typeOf \in [Live(file.types) -> there],
         NEW labelOf, NEW first, NEW ns \in SUBSET Live(file.notes),
         NEW columnOf, ColumnsFit(there, typeOf, columnOf, ns),
         NEW noteOf \in NewIds(ns, FreeNotes),
         notes' = ImportedNotes(ns, noteOf, typeOf, columnOf, labelOf, first)
  PROVE  /\ notes' \in [Notes -> NoteRow] /\ ValuesFit'
         /\ \A n \in Live(notes') : notes'[n].type \in there
         /\ \A n \in Notes : notes'[n] # notes[n] => n \in Range(noteOf)
<1> columns' \in [Columns -> ColumnRow] /\ StraysKnown'
  BY DEF ColumnsFit
<1>0. /\ \A n \in Live(notes), d \in Columns : ValueStays(n, d)
      /\ DOMAIN columnOf \subseteq Live(file.columns)
      /\ \A c \in DOMAIN columnOf :
           /\ columns'[columnOf[c]].status = "live"
           /\ columns'[columnOf[c]].type = typeOf[file.columns[c].type]
           /\ \A n \in ns : file.notes[n].values[c] # NoValue =>
                \/ columns'[columnOf[c]].kind \in LabelKinds
                \/ Fits(file.notes[n].values[c], columns'[columnOf[c]].kind)
  BY DEF ColumnsFit
<1>1. /\ notes \in [Notes -> NoteRow] /\ file.notes \in [Notes -> NoteRow]
      /\ file.columns \in [Columns -> ColumnRow] /\ FreeNotes \subseteq Notes
      /\ Live(file.columns) \subseteq Columns /\ ns \subseteq Notes
  BY DEF CatalogIInv, CatalogTypeOK, NoteRow, ColumnRow, FileTyped, ValidFile, FreeNotes, Live
<1>2. noteOf \in [ns -> FreeNotes]
  BY <1>1, IdsAreFinite, NewIdsAreFree
<1>3. (\A value, f, c :
        /\ Filtered(value, c, f) \subseteq Live(labels) \cap Labels
        /\ columns[c].kind = "single" => AtMostOne(Filtered(value, c, f)))'
  BY FilteredFitsThen
<1> DEFINE from(n) == file.notes[CHOOSE x \in ns : noteOf[x] = n]
           Sources(n, d) == {c \in DOMAIN columnOf : columnOf[c] = d /\ from(n).values[c] # NoValue}
           copied(n, d) == from(n).values[CHOOSE c \in Sources(n, d) : TRUE]
           kept(n, d) == Filtered({labelOf[l] : l \in copied(n, d) \cap DOMAIN labelOf}, d, first)'
           value(n, d) == IF Sources(n, d) = {} THEN NoValue
                          ELSE IF columns'[d].kind \notin LabelKinds THEN copied(n, d) ELSE kept(n, d)
           values(n) == [d \in Columns |-> value(n, d)]
           note(n) == [status |-> "live", type |-> typeOf[from(n).type], values |-> values(n)]
<1>4. notes' = [n \in Notes |-> IF n \notin Range(noteOf) THEN notes[n] ELSE note(n)]
  <2>1. ASSUME NEW n \in Notes
        PROVE  (ImportedNote(file.notes[CHOOSE x \in ns : noteOf[x] = n],
                             typeOf, columnOf, labelOf, first))' = note(n)
    BY DEF ImportedNote, ImportedValue
  <2> QED
    BY <2>1 DEF ImportedNotes
<1>5. ASSUME NEW n \in Range(noteOf)
      PROVE  /\ from(n) \in NoteRow /\ typeOf[from(n).type] \in there
             /\ \A d \in Columns : Sources(n, d) # {} => copied(n, d) \in Values
             /\ \A c \in DOMAIN columnOf : from(n).values[c] # NoValue =>
                  /\ file.columns[c].type = from(n).type
                  /\ \/ columns'[columnOf[c]].kind \in LabelKinds
                     \/ Fits(from(n).values[c], columns'[columnOf[c]].kind)
  <2> DEFINE x == CHOOSE y \in ns : noteOf[y] = n
  <2>1. \E y \in ns : noteOf[y] = n
    BY <1>2 DEF Range
  <2>2. x \in ns
    BY <2>1
  <2> HIDE DEF x
  <2>3. from(n) = file.notes[x] /\ from(n) \in NoteRow
    BY <1>1, <2>2 DEF x
  <2>4. file.notes[x].type \in Live(file.types)
    BY <2>2 DEF ValidFile, NotesBelong
  <2>5. \A c \in Columns : file.notes[x].values[c] # NoValue =>
                           file.columns[c].type = file.notes[x].type
    BY <2>2 DEF ValidFile, ValuesMatch, ValueMatches
  <2> HIDE DEF from
  <2>6. ASSUME NEW d \in Columns, Sources(n, d) # {} PROVE copied(n, d) \in Values
    <3>1. (CHOOSE c \in Sources(n, d) : TRUE) \in Columns
      BY <1>0, <1>1, <2>6
    <3> QED
      BY <2>3, <3>1 DEF NoteRow
  <2> QED
    BY <1>0, <1>1, <2>2, <2>3, <2>4, <2>5, <2>6
<1> HIDE DEF from
<1>6. ASSUME NEW n \in Range(noteOf), NEW d \in Columns, value(n, d) # NoValue, ~columns'[d].strays
      PROVE  /\ columns'[d].status = "live" /\ columns'[d].type = typeOf[from(n).type]
             /\ FitsKind(value(n, d), columns'[d].kind, Live(labels'))
  <2> DEFINE c == CHOOSE x \in Sources(n, d) : TRUE
  <2>1. Sources(n, d) # {}
    BY <1>6
  <2>2. c \in DOMAIN columnOf /\ columnOf[c] = d /\ from(n).values[c] # NoValue
    BY <2>1
  <2>3. copied(n, d) = from(n).values[c]
    OBVIOUS
  <2> HIDE DEF c, copied, kept, Sources
  <2>4. columns'[d].status = "live" /\ columns'[d].type = typeOf[from(n).type]
    BY <1>0, <1>5, <2>2
  <2>5. CASE columns'[d].kind \notin LabelKinds
    <3>1. value(n, d) = copied(n, d) /\ Fits(copied(n, d), columns'[d].kind)
      BY <1>5, <2>1, <2>2, <2>3, <2>5
    <3> QED
      BY <2>4, <2>5, <3>1 DEF FitsKind
  <2>6. CASE columns'[d].kind \in LabelKinds
    <3>1. value(n, d) = kept(n, d)
      BY <2>1, <2>6
    <3>2. /\ kept(n, d) \subseteq Live(labels') /\ kept(n, d) \subseteq Labels
          /\ columns'[d].kind = "single" => AtMostOne(kept(n, d))
      BY <1>3 DEF AtMostOne, Live, kept
    <3> HIDE DEF value
    <3> QED
      BY <2>4, <2>6, <3>1, <3>2 DEF FitsKind, Fits
  <2> QED
    BY <2>5, <2>6
<1>7. ASSUME NEW n \in Range(noteOf)
      PROVE  /\ values(n) \in [Columns -> Values]
             /\ \A d \in Columns : values(n)[d] = value(n, d)
  <2>1. \A d \in Columns : kept(n, d) \in SUBSET Labels
    BY <1>3
  <2> HIDE DEF kept, Sources, copied
  <2>2. \A d \in Columns : value(n, d) \in Values
    BY <1>5, <2>1, ValuesApart
  <2> QED
    BY <2>2
<1> HIDE DEF values, value
<1>8. ASSUME NEW n \in Range(noteOf)
      PROVE  /\ note(n) \in NoteRow /\ note(n).type = typeOf[from(n).type]
             /\ note(n).values = values(n)
  BY <1>5, <1>7 DEF NoteRow, Presence
<1> HIDE DEF note
<1>9. notes' \in [Notes -> NoteRow] /\ \A n \in Notes : notes'[n] # notes[n] => n \in Range(noteOf)
  BY <1>1, <1>4, <1>8
<1>10. ASSUME NEW n \in Live(notes'), n \notin Range(noteOf)
       PROVE  notes'[n] = notes[n] /\ n \in Live(notes)
  BY <1>1, <1>4, <1>9, <1>10 DEF Live
<1>11. ASSUME NEW n \in Live(notes') PROVE notes'[n].type \in there
  <2>1. CASE n \in Range(noteOf)
    BY <1>4, <1>5, <1>8, <1>9, <2>1 DEF Live
  <2>2. CASE n \notin Range(noteOf)
    BY <1>10, <2>2 DEF CatalogIInv, Belonging
  <2> QED
    BY <2>1, <2>2
<1>12. ASSUME NEW n \in Live(notes'), NEW d \in Columns,
              ~columns'[d].strays, notes'[n].values[d] # NoValue
       PROVE  /\ columns'[d].status = "live" /\ columns'[d].type = notes'[n].type
              /\ FitsKind(notes'[n].values[d], columns'[d].kind, Live(labels'))
  <2>1. CASE n \in Range(noteOf)
    <3>1. n \in Notes
      BY <1>9 DEF Live
    <3>2. notes'[n].type = typeOf[from(n).type] /\ notes'[n].values[d] = value(n, d)
      BY <1>4, <1>7, <1>8, <2>1, <3>1
    <3> QED
      BY <1>6, <1>12, <2>1, <3>2
  <2>2. CASE n \notin Range(noteOf)
    <3>1. notes'[n] = notes[n] /\ n \in Live(notes)
      BY <1>10, <2>2
    <3> QED
      BY <1>0, <1>12, <3>1, FitsMore DEF ValueStays
  <2> QED
    BY <2>1, <2>2
<1>13. ValuesFit'
  <2>1. Live(notes)' = Live(notes') /\ Live(labels)' = Live(labels')
    BY DEF Live
  <2> QED
    BY <1>12, <2>1 DEF ValuesFit, ValueFits, FitsKind, Fits, FitsImages, AtMostOne
<1> QED
  BY <1>9, <1>11, <1>13

(* What an import makes of types, labels, columns and notes is a catalog that   *)
(* is whole.                                                                    *)
LEMMA ImportKeeps ==
  ASSUME CatalogIInv, changes' \in 0..MaxChanges, running' = running,
         types' \in [Types -> TypeRow], TypesReady',
         labels' \in [Labels -> LabelRow],
         \A l \in Live(labels') : labels'[l].of \in Live(types') \cup {Shared},
         columns' \in [Columns -> ColumnRow], StraysKnown', SourcesKnown',
         \A c \in Live(columns') : columns'[c].type \in Live(types'),
         notes' \in [Notes -> NoteRow], ValuesFit',
         \A n \in Live(notes') : notes'[n].type \in Live(types'),
         NEW made, Journal(made \cup {Configuration}),
         \A n \in Notes : notes'[n] # notes[n] => n \in made
  PROVE  CatalogIInv'
<1>1. unjournaled' = {}
  BY Journaled DEF CatalogIInv
<1>2. CatalogTypeOK'
  BY <1>1 DEF CatalogIInv, CatalogTypeOK, TypeRow, LabelRow, ColumnRow, NoteRow
<1>3. Belonging'
  BY DEF Belonging, Live
<1> QED
  BY <1>1, <1>2, <1>3 DEF CatalogIInv

LEMMA ImportPreservingKeeps ==
  ASSUME CatalogIInv, FileTyped, ImportPreserving
  PROVE  CatalogIInv'
<1>1. /\ changes' \in 0..MaxChanges /\ running /\ running' = running /\ UNCHANGED file
      /\ ValidFile /\ file # NoFile
  BY Counted DEF ImportPreserving, ValidFile, CatalogIInv, Change
<1>2. PICK typeOf \in TypeMatches :
         /\ types' = WithNewTypes(typeOf)
         /\ \E labelOf \in LabelMatches(typeOf), named \in NameMatches(typeOf), first \in Labels :
              LET matched == Restrict(named, {c \in DOMAIN named : TakesOver(c, named[c])})
                  others == Live(file.columns) \ DOMAIN named
              IN \E new \in NewIds(others, Absent(columns)),
                    noteOf \in NewIds(Live(file.notes), FreeNotes) :
                   /\ labels' = WithNewLabels(labelOf, typeOf)
                   /\ columns' = ImportedColumns(matched, new, typeOf)
                   /\ notes' = ImportedNotes(Live(file.notes), noteOf, typeOf,
                                             Both(matched, new), labelOf, first)
                   /\ Journal(Range(noteOf) \cup {Configuration})
  BY DEF ImportPreserving
<1>3. /\ types' \in [Types -> TypeRow] /\ Live(types) \subseteq Live(types')
      /\ typeOf \in [Live(file.types) -> Live(types')] /\ IsInjective(typeOf)
      /\ TypesStay /\ TypesReady'
  BY <1>1, <1>2, TypesMatched
<1>4. Live(types') \in SUBSET Types
  BY <1>3 DEF Live
<1>5. PICK labelOf \in LabelMatches(typeOf), named \in NameMatches(typeOf), first \in Labels :
         LET matched == Restrict(named, {c \in DOMAIN named : TakesOver(c, named[c])})
             others == Live(file.columns) \ DOMAIN named
         IN \E new \in NewIds(others, Absent(columns)),
               noteOf \in NewIds(Live(file.notes), FreeNotes) :
              /\ labels' = WithNewLabels(labelOf, typeOf)
              /\ columns' = ImportedColumns(matched, new, typeOf)
              /\ notes' = ImportedNotes(Live(file.notes), noteOf, typeOf,
                                        Both(matched, new), labelOf, first)
              /\ Journal(Range(noteOf) \cup {Configuration})
  BY <1>2
<1>6. PICK new \in NewIds(Live(file.columns) \ DOMAIN named, Absent(columns)),
           noteOf \in NewIds(Live(file.notes), FreeNotes) :
         /\ labels' = WithNewLabels(labelOf, typeOf)
         /\ columns' = ImportedColumns(TakenOver(named), new, typeOf)
         /\ notes' = ImportedNotes(Live(file.notes), noteOf, typeOf,
                                   Both(TakenOver(named), new), labelOf, first)
         /\ Journal(Range(noteOf) \cup {Configuration})
  BY <1>5 DEF TakenOver
<1>7. /\ labels' \in [Labels -> LabelRow] /\ Live(labels) \subseteq Live(labels')
      /\ \A l \in Live(labels') : labels'[l].of \in Live(types') \cup {Shared}
  BY <1>1, <1>3, <1>4, <1>6, LabelsMatched
<1>8. /\ ColumnsFit(Live(types'), typeOf, Both(TakenOver(named), new), Live(file.notes))
      /\ \A c \in Columns : columns'[c].from \in Live(types') \cup {Shared, columns[c].from}
  BY <1>1, <1>3, <1>4, <1>6, ColumnsImported
<1>9. /\ notes' \in [Notes -> NoteRow] /\ ValuesFit'
      /\ \A n \in Live(notes') : notes'[n].type \in Live(types')
      /\ \A n \in Notes : notes'[n] # notes[n] => n \in Range(noteOf)
  BY <1>1, <1>3, <1>4, <1>6, <1>7, <1>8, NotesImported
<1>10. SourcesKnown'
  <2>1. \A c \in Columns : columns[c].from \in Types \cup {Shared}
    BY DEF CatalogIInv, CatalogTypeOK
  <2>2. \A t \in Live(types') : types'[t].status # "absent"
    BY DEF Live
  <2> QED
    BY <1>3, <1>8, <2>1, <2>2 DEF CatalogIInv, SourcesKnown, TypesStay
<1> QED
  BY <1>1, <1>3, <1>6, <1>7, <1>8, <1>9, <1>10, ImportKeeps DEF ColumnsFit

(* Importing into one type changes no column.                                   *)
LEMMA ImportIntoTypeKeeps ==
  ASSUME CatalogIInv, FileTyped, NEW target \in Types, ImportIntoType(target)
  PROVE  CatalogIInv'
<1> DEFINE typeOf == [t \in Live(file.types) |-> target]
<1>1. /\ changes' \in 0..MaxChanges /\ running' = running /\ UNCHANGED <<types, columns, file>>
      /\ ValidFile /\ file # NoFile /\ target \in Live(types)
  BY Counted DEF ImportIntoType, ValidFile, CatalogIInv
<1>2. PICK labelOf \in LabelMatches(typeOf), named \in NameMatches(typeOf), first \in Labels,
           ns \in SUBSET Live(file.notes) :
         LET mapped == Restrict(named, {c \in DOMAIN named : CanMap(c, named[c])}) IN
         /\ \A n \in ns, c \in DOMAIN mapped : file.notes[n].values[c] # NoValue =>
              Fits(file.notes[n].values[c], columns[mapped[c]].kind)
         /\ \E noteOf \in NewIds(ns, FreeNotes) :
              /\ labels' = WithNewLabels(labelOf, typeOf)
              /\ notes' = ImportedNotes(ns, noteOf, typeOf, mapped, labelOf, first)
              /\ Journal(Range(noteOf) \cup {Configuration})
  BY DEF ImportIntoType
<1> DEFINE columnOf == Restrict(named, {c \in DOMAIN named : CanMap(c, named[c])})
<1>3. PICK noteOf \in NewIds(ns, FreeNotes) :
         /\ labels' = WithNewLabels(labelOf, typeOf)
         /\ notes' = ImportedNotes(ns, noteOf, typeOf, columnOf, labelOf, first)
         /\ Journal(Range(noteOf) \cup {Configuration})
  BY <1>2
<1>4. \A n \in ns, c \in DOMAIN columnOf : file.notes[n].values[c] # NoValue =>
         Fits(file.notes[n].values[c], columns[columnOf[c]].kind)
  BY <1>2
<1>5. typeOf \in [Live(file.types) -> Live(types)]
  BY <1>1
<1>6. PICK s \in SUBSET Live(file.columns) : named \in [s -> Live(columns)]
  BY DEF NameMatches
<1>7. /\ DOMAIN columnOf \subseteq Live(file.columns)
      /\ \A c \in DOMAIN columnOf : /\ columns[columnOf[c]].status = "live"
                                  /\ columns[columnOf[c]].type = typeOf[file.columns[c].type]
  <2>1. \A c \in DOMAIN named : /\ columns[named[c]].status = "live"
                               /\ columns[named[c]].type = typeOf[file.columns[c].type]
    BY <1>6 DEF NameMatches, Live
  <2> HIDE DEF typeOf
  <2> QED
    BY <1>6, <2>1 DEF Restrict
<1> HIDE DEF typeOf, columnOf
<1>8. /\ types \in [Types -> TypeRow] /\ columns \in [Columns -> ColumnRow]
      /\ Live(types) \in SUBSET Types
  BY DEF CatalogIInv, CatalogTypeOK, TypeRow, ColumnRow, Live
<1>9. /\ types' \in [Types -> TypeRow] /\ columns' \in [Columns -> ColumnRow]
      /\ TypesReady' /\ StraysKnown' /\ SourcesKnown' /\ Live(types') = Live(types)
      /\ \A c \in Live(columns') : columns'[c].type \in Live(types)
  BY <1>1, <1>8 DEF CatalogIInv, TypesReady, StraysKnown, SourcesKnown, Belonging, Live
<1>10. \A n \in Live(notes), d \in Columns : ValueStays(n, d)
  BY <1>1 DEF CatalogIInv, ValuesFit, ValueFits, ValueStays
<1>11. /\ labels' \in [Labels -> LabelRow] /\ Live(labels) \subseteq Live(labels')
       /\ \A l \in Live(labels') : labels'[l].of \in Live(types) \cup {Shared}
  BY <1>1, <1>3, <1>5, <1>8, LabelsMatched
<1>12. \A c \in DOMAIN columnOf : /\ columns'[columnOf[c]].status = "live"
                               /\ columns'[columnOf[c]].type = typeOf[file.columns[c].type]
  BY <1>1, <1>7
<1>13. ColumnsFit(Live(types), typeOf, columnOf, ns)
  BY <1>1, <1>7, <1>9, <1>10, <1>12, <1>4 DEF ColumnsFit
<1>14. /\ notes' \in [Notes -> NoteRow] /\ ValuesFit'
       /\ \A n \in Live(notes') : notes'[n].type \in Live(types)
       /\ \A n \in Notes : notes'[n] # notes[n] => n \in Range(noteOf)
  BY <1>1, <1>3, <1>5, <1>8, <1>11, <1>13, NotesImported
<1> QED
  BY <1>1, <1>3, <1>9, <1>11, <1>14, ImportKeeps

-----------------------------------------------------------------------------
(* The invariant of the catalog                                                 *)

LEMMA CatalogInitEstablishes == CatalogInit /\ ExportInit => ExportImportIInv
<1> SUFFICES ASSUME CatalogInit, ExportInit PROVE ExportImportIInv
  OBVIOUS
<1>1. 1 \in Types /\ 1 \in Labels /\ {1} \in Values /\ NoValue \in Values /\ ImageList \in Values
  BY CatalogAssumption, ValuesApart DEF Types, Labels
<1> DEFINE value(kind) == IF kind = "multi" THEN {1} ELSE ImageList
<1>0. PICK first \in {"multi", "images"} :
        /\ columns = [c \in Columns |-> [status |-> IF c = 1 THEN "live" ELSE "absent", type |-> 1,
                                         kind |-> first, from |-> Shared, strays |-> FALSE]]
        /\ notes = [n \in Notes |->
             [status |-> IF n = 1 THEN "live" ELSE "absent", type |-> 1,
              values |-> [c \in Columns |-> IF n # 1 \/ c # 1 THEN NoValue ELSE value(first)]]]
  BY DEF CatalogInit
<1>2. CatalogTypeOK
  <2>1. /\ types \in [Types -> TypeRow] /\ columns \in [Columns -> ColumnRow]
        /\ labels \in [Labels -> LabelRow]
    BY <1>0, <1>1 DEF CatalogInit, TypeRow, ColumnRow, LabelRow, Presence, Kinds, LabelKinds,
                      ImageKinds
  <2>2. notes \in [Notes -> NoteRow]
    BY <1>0, <1>1 DEF NoteRow, Presence
  <2>3. running \in BOOLEAN /\ unjournaled = {}
    BY DEF CatalogInit
  <2>4. changes \in 0..MaxChanges
    BY CatalogAssumption DEF CatalogInit
  <2> QED
    BY <2>1, <2>2, <2>3, <2>4 DEF CatalogTypeOK, TypeRow, ColumnRow, LabelRow, NoteRow
<1>3. Belonging /\ StraysKnown /\ SourcesKnown /\ TypesReady
  BY <1>0, <1>1 DEF CatalogInit, Belonging, StraysKnown, SourcesKnown, TypesReady, Live
<1>4. ValuesFit
  <2>1. \A n \in Live(notes), c \in Columns : n = 1 /\ notes[1].type = 1 /\
          notes[n].values[c] = IF c = 1 THEN value(first) ELSE NoValue
    BY <1>0 DEF Live
  <2>2. /\ columns[1].status = "live" \/ 1 \notin Columns
        /\ 1 \in Columns => columns[1].type = 1 /\ columns[1].kind = first
        /\ 1 \in Live(labels)
    BY <1>0, <1>1 DEF CatalogInit, Live
  <2>3. FitsKind(value(first), first, Live(labels))
    BY <1>1, <2>2 DEF FitsKind, Fits, FitsImages, LabelKinds, ImageKinds
  <2> HIDE DEF value
  <2> QED
    BY <2>1, <2>2, <2>3 DEF ValuesFit, ValueFits
<1>5. FileTyped /\ ExportsImport
  BY DEF ExportInit, FileTyped, ExportsImport
<1> QED
  BY <1>2, <1>3, <1>4, <1>5 DEF ExportImportIInv, CatalogIInv, CatalogInit

LEMMA StopCatalogKeeps == CatalogIInv /\ StopCatalog => CatalogIInv'
<1> SUFFICES ASSUME CatalogIInv, StopCatalog PROVE CatalogIInv'
  OBVIOUS
<1>1. CatalogTypeOK' /\ unjournaled' = {}
  BY DEF StopCatalog, CatalogIInv, CatalogTypeOK
<1>2. Belonging' /\ ValuesFit' /\ StraysKnown' /\ SourcesKnown'
  BY DEF StopCatalog, CatalogIInv, Belonging, ValuesFit, ValueFits, StraysKnown, SourcesKnown,
         Live, FitsKind, Fits, FitsImages, AtMostOne
<1>3. TypesReady'
  BY DEF StopCatalog, TypesReady
<1> QED
  BY <1>1, <1>2, <1>3 DEF CatalogIInv

LEMMA CatalogNextKeeps == CatalogIInv /\ CatalogNext => CatalogIInv'
<1> SUFFICES ASSUME CatalogIInv, CatalogNext PROVE CatalogIInv'
  OBVIOUS
<1>1. CASE StartCatalog \/ StopCatalog
  BY <1>1, StartCatalogKeeps, StopCatalogKeeps
<1>2. CASE NoteTypeRequests
  BY <1>2, EditTypeKeeps, DeleteTypeAndNotesKeeps, DeleteTypeAndMoveKeeps DEF NoteTypeRequests
<1>3. CASE ColumnRequests
  BY <1>3, CreateColumnKeeps, UpdateColumnKeeps, DeleteColumnKeeps DEF ColumnRequests
<1>4. CASE LabelRequests
  BY <1>4, EditLabelKeeps, DeleteLabelKeeps DEF LabelRequests
<1>5. CASE NoteRequests
  BY <1>5, CreateNoteKeeps, UpdateNoteKeeps, DeleteNotesKeeps DEF NoteRequests
<1> QED
  BY <1>1, <1>2, <1>3, <1>4, <1>5 DEF CatalogNext

LEMMA ExportImportNextKeeps ==
  ExportImportIInv /\ [ExportImportNext]_<<catVars, fileVars>> => ExportImportIInv'
<1> SUFFICES ASSUME CatalogIInv, FileTyped, ExportsImport,
                    [ExportImportNext]_<<catVars, fileVars>>
             PROVE  CatalogIInv' /\ FileTyped' /\ ExportsImport'
  BY DEF ExportImportIInv
<1>1. CASE CatalogNext /\ UNCHANGED file
  BY <1>1, CatalogNextKeeps, FileKeeps
<1>2. CASE Export
  BY <1>2, ExportKeeps
<1>3. CASE ImportRequests
  <2>1. UNCHANGED file
    BY <1>3 DEF ImportRequests, ImportPreserving, ImportIntoType, ImportSpreadsheet
  <2>2. CatalogIInv'
    BY <1>3, ImportPreservingKeeps, ImportIntoTypeKeeps, SpreadsheetKeeps DEF ImportRequests
  <2> QED
    BY <2>1, <2>2, FileKeeps
<1>4. CASE UNCHANGED <<catVars, fileVars>>
  <2>1. CatalogIInv'
    BY <1>4 DEF catVars, CatalogIInv, CatalogTypeOK, Belonging, ValuesFit, ValueFits, StraysKnown,
                SourcesKnown, TypesReady, Live, FitsKind, Fits, FitsImages, AtMostOne
  <2> QED
    BY <1>4, <2>1, FileKeeps DEF fileVars
<1> QED
  BY <1>1, <1>2, <1>3, <1>4 DEF ExportImportNext

LEMMA CatalogImplied ==
  CatalogIInv => CatalogTypeOK /\ CatalogIsWhole /\ ChangesAreJournaled
<1> SUFFICES ASSUME CatalogIInv PROVE LabelValuesFit
  BY DEF CatalogIInv, CatalogIsWhole, ChangesAreJournaled, Belonging, TypesReady
<1> SUFFICES ASSUME NEW n \in Live(notes), NEW c \in Live(columns),
                    columns[c].kind \in LabelKinds, ~columns[c].strays,
                    notes[n].values[c] # NoValue
             PROVE  /\ notes[n].values[c] \subseteq Live(labels)
                    /\ columns[c].kind = "single" => Cardinality(notes[n].values[c]) < 2
  BY DEF LabelValuesFit
<1>1. c \in Columns /\ Live(labels) \subseteq Labels
  BY DEF CatalogIInv, CatalogTypeOK, Live
<1> QED
  BY <1>1, FewerThanTwo DEF CatalogIInv, ValuesFit, ValueFits, FitsKind

(* The invariant holds in every state of every behaviour.                       *)
THEOREM CatalogInvariance == ExportImportSpec => []ExportImportIInv
  BY CatalogInitEstablishes, ExportImportNextKeeps, PTL DEF ExportImportSpec

(* The variables of the catalog have their types.                               *)
THEOREM CatalogTypeCorrect == ExportImportSpec => []CatalogTypeOK
  BY CatalogInvariance, CatalogImplied, PTL DEF ExportImportIInv

(* Notes, columns and labels belong to what exists, label values fit, and every *)
(* type is complete while the process runs: over edits, deletions, moves,       *)
(* imports and crashes.                                                         *)
THEOREM CatalogStaysWhole == ExportImportSpec => []CatalogIsWhole
  BY CatalogInvariance, CatalogImplied, PTL DEF ExportImportIInv

(* Whatever an operation or an import changes, it journals for synchronization. *)
THEOREM EveryChangeJournaled == ExportImportSpec => []ChangesAreJournaled
  BY CatalogInvariance, CatalogImplied, PTL DEF ExportImportIInv

(* A file that was exported is refused for nothing but a deleted source of a    *)
(* Labels column and values that are stray: left in a column from before it was *)
(* retyped, narrowed to single images or deleted, or moved from such a column.  *)
THEOREM ExportsCanBeImported == ExportImportSpec => []ExportsImport
  BY CatalogInvariance, PTL DEF ExportImportIInv

=============================================================================
