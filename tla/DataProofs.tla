------------------------------ MODULE DataProofs ------------------------------
(* The components that keep data and what is shown of it right. Each part of    *)
(* this module is about one of them; they share nothing. The last part is about *)
(* MCData, which has them side by side with those of CatalogProofs and          *)
(* ElectronProofs.                                                              *)
EXTENDS MCData, CatalogProofs, ElectronProofs, FiniteSetTheorems, WellFoundedInduction, TLAPS

-----------------------------------------------------------------------------
(* ConfigurationMerge: what two sides changed is merged or kept in a conflict,  *)
(* and merging leaves no column or label without its type. Rows never vanish:   *)
(* a deletion leaves a tombstone, so that what the device saw once, every later *)
(* version has a row for (RowsStay), and a version taken over unchanged deletes *)
(* no type whose columns it does not know.                                      *)

(* A tombstone has no payload, and a type belongs to no type.                   *)
FormedRow(i, row) ==
  /\ row \in Rows
  /\ row.is = "deleted" => row.of = None /\ row.title = 0
  /\ i \in ConfigTypes => row.of = None

Formed(doc) == doc \in Documents /\ \A i \in Ids : FormedRow(i, doc[i])

RowsStay == \A i \in Ids : ancestor[i].is # "absent" => remote[i].is # "absent"

ConfigurationIInv ==
  /\ Formed(ancestor) /\ Formed(local) /\ Formed(remote)
  /\ \A doc \in recorded : Formed(doc)
  /\ whole \in BOOLEAN
  /\ mutations \subseteq 1..MaxMutations
  /\ RowsStay
  /\ ConfigurationWhole

(* What a row changed since the base, the merged row has.                       *)
RowKept(b, row, merged) ==
  /\ row.is # "absent" /\ row.is # b.is => merged.is = row.is
  /\ row.is # "absent" /\ row.of # b.of => merged.of = row.of
  /\ row.is # "absent" /\ row.title # b.title => merged.title = row.title

(* Fields merged one by one are those of either side.                           *)
LEMMA MergedFieldsFormed ==
  ASSUME NEW i, NEW b, NEW l, NEW r,
         FormedRow(i, l), FormedRow(i, r)
  PROVE  /\ FormedRow(i, MergedFields(b, l, r))
         /\ MergedFields(b, l, r).is = "live"
<1> DEFINE w == l.mut >= r.mut
           preferred == IF w THEN l ELSE r
           of == ThreeWay(b.of, l.of, r.of, w)
           title == ThreeWay(b.title, l.title, r.title, w)
<1>1. of \in {l.of, r.of} /\ title \in {l.title, r.title}
  BY DEF ThreeWay
<1>2. preferred \in {l, r}
  OBVIOUS
<1>3. MergedFields(b, l, r) = Row(of, title, preferred.mut, preferred.at)
  BY DEF MergedFields
<1> HIDE DEF of, title, preferred
<1>4. /\ of \in ConfigTypes \cup {None} /\ title \in 0..MaxMutations
      /\ preferred.mut \in 0..MaxMutations /\ preferred.at \in 0..MaxMutations
      /\ i \in ConfigTypes => of = None
  BY <1>1, <1>2 DEF FormedRow, Rows
<1> QED
  BY <1>3, <1>4 DEF Row, FormedRow, Rows

(* Fields merged one by one without a conflict keep what either side changed.   *)
LEMMA MergedFieldsKeep ==
  ASSUME NEW b, NEW l, NEW r, l.is = "live", r.is = "live",
         ~ThreeWayConflict(b.of, l.of, r.of),
         ~ThreeWayConflict(b.title, l.title, r.title)
  PROVE  RowKept(b, l, MergedFields(b, l, r)) /\ RowKept(b, r, MergedFields(b, l, r))
<1> DEFINE w == l.mut >= r.mut
           preferred == IF w THEN l ELSE r
           of == ThreeWay(b.of, l.of, r.of, w)
           title == ThreeWay(b.title, l.title, r.title, w)
<1>1. (l.of # b.of => of = l.of) /\ (r.of # b.of => of = r.of)
  BY DEF ThreeWay, ThreeWayConflict
<1>2. (l.title # b.title => title = l.title) /\ (r.title # b.title => title = r.title)
  BY DEF ThreeWay, ThreeWayConflict
<1>3. MergedFields(b, l, r) = Row(of, title, preferred.mut, preferred.at)
  BY DEF MergedFields
<1> HIDE DEF of, title, preferred
<1> QED
  BY <1>1, <1>2, <1>3 DEF Row, RowKept

(* mergeSyncConfigurationEntity: a row that either side has stays, and without  *)
(* a conflict what either side changed is in it.                                *)
LEMMA MergedRowKeeps ==
  ASSUME NEW i, NEW b, NEW l, NEW r,
         FormedRow(i, b), FormedRow(i, l), FormedRow(i, r)
  PROVE  LET m == MergedRow(b, l, r)
         IN  /\ FormedRow(i, m.row)
             /\ m.conflict \in BOOLEAN
             /\ m.row.is = "absent" => l.is = "absent" /\ r.is = "absent"
             /\ m.conflict \/ (RowKept(b, l, m.row) /\ RowKept(b, r, m.row))
<1> DEFINE m == MergedRow(b, l, r)
           preferred == IF l.mut >= r.mut THEN l ELSE r
           dead == {row \in {l, r} : row.is = "deleted"}
           Result(row, conflict) == [row |-> row, conflict |-> conflict]
           Goal == /\ FormedRow(i, m.row)
                   /\ m.conflict \in BOOLEAN
                   /\ m.row.is = "absent" => l.is = "absent" /\ r.is = "absent"
                   /\ m.conflict \/ (RowKept(b, l, m.row) /\ RowKept(b, r, m.row))
<1>1. CASE l.is = "absent"
  <2>1. m = Result(r, FALSE)
    BY <1>1 DEF MergedRow
  <2> QED
    BY <1>1, <2>1 DEF RowKept
<1>2. CASE l.is # "absent" /\ r.is = "absent"
  <2>1. m = Result(l, FALSE)
    BY <1>2 DEF MergedRow
  <2> QED
    BY <1>2, <2>1 DEF RowKept
<1>3. CASE l.is # "absent" /\ r.is # "absent" /\ l = r
  <2>1. m = Result(l, FALSE)
    BY <1>3 DEF MergedRow
  <2> QED
    BY <1>3, <2>1 DEF RowKept
<1>4. CASE l.is # "absent" /\ r.is # "absent" /\ l # r
  <2>1. preferred \in {l, r}
    OBVIOUS
  <2>2. dead \subseteq {l, r} /\ (dead # {} => (CHOOSE row \in dead : TRUE) \in {l, r})
    OBVIOUS
  <2>3. CASE b.is = "absent"
    <3>1. m = Result(preferred, TRUE)
      BY <1>4, <2>3 DEF MergedRow
    <3> HIDE DEF preferred
    <3> QED
      BY <1>4, <2>1, <3>1
  <2>4. CASE b.is = "deleted" /\ dead # {l, r}
    <3> DEFINE row == IF dead = {} THEN b ELSE CHOOSE row \in dead : TRUE
    <3>1. m = Result(row, TRUE)
      BY <1>4, <2>4 DEF MergedRow
    <3>2. row \in {b, l, r}
      BY <2>2
    <3> HIDE DEF row
    <3> QED
      BY <1>4, <2>4, <3>1, <3>2
  <2>5. CASE b.is # "absent" /\ ~(b.is = "deleted" /\ dead # {l, r})
    <3>1. CASE l = b
      <4>1. m = Result(r, FALSE)
        BY <1>4, <2>5, <3>1 DEF MergedRow
      <4> QED
        BY <1>4, <3>1, <4>1 DEF RowKept
    <3>2. CASE l # b /\ r = b
      <4>1. m = Result(l, FALSE)
        BY <1>4, <2>5, <3>2 DEF MergedRow
      <4> QED
        BY <1>4, <3>2, <4>1 DEF RowKept
    <3>3. CASE l # b /\ r # b /\ dead = {l, r}
      <4>1. m = Result(preferred, FALSE)
        BY <1>4, <2>5, <3>3 DEF MergedRow
      <4>2. l.is = "deleted" /\ r.is = "deleted"
        BY <3>3
      <4>3. l.of = r.of /\ l.title = r.title
        BY <4>2 DEF FormedRow
      <4> HIDE DEF preferred
      <4> QED
        BY <1>4, <2>1, <4>1, <4>2, <4>3 DEF RowKept
    <3>4. CASE l # b /\ r # b /\ dead # {l, r} /\ dead # {}
      <4> DEFINE row == CHOOSE row \in dead : TRUE
      <4>1. m = Result(row, TRUE)
        BY <1>4, <2>5, <3>4 DEF MergedRow
      <4>2. row \in {l, r}
        BY <2>2, <3>4
      <4> HIDE DEF row
      <4> QED
        BY <1>4, <4>1, <4>2
    <3>5. CASE l # b /\ r # b /\ dead # {l, r} /\ dead = {}
      <4> DEFINE conflict == \/ ThreeWayConflict(b.of, l.of, r.of)
                             \/ ThreeWayConflict(b.title, l.title, r.title)
      <4>1. m = Result(MergedFields(b, l, r), conflict)
        BY <1>4, <2>5, <3>5 DEF MergedRow
      <4>2. l.is = "live" /\ r.is = "live"
        <5>1. l.is # "deleted" /\ r.is # "deleted"
          BY <3>5
        <5> QED
          BY <1>4, <5>1 DEF FormedRow, Rows
      <4>3. conflict \in BOOLEAN
        BY DEF ThreeWayConflict
      <4>4. /\ FormedRow(i, MergedFields(b, l, r))
            /\ MergedFields(b, l, r).is = "live"
            /\ ~conflict => /\ RowKept(b, l, MergedFields(b, l, r))
                            /\ RowKept(b, r, MergedFields(b, l, r))
        BY <4>2, MergedFieldsFormed, MergedFieldsKeep
      <4> HIDE DEF conflict
      <4> QED
        BY <4>1, <4>3, <4>4
    <3> QED
      BY <3>1, <3>2, <3>3, <3>4, <3>5
  <2> QED
    BY <2>3, <2>4, <2>5
<1> QED
  BY <1>1, <1>2, <1>3, <1>4

(* selectDeterministicSyncDocument selects one of the two.                      *)
LEMMA PreferredIsOne ==
  ASSUME NEW l, NEW r
  PROVE  Preferred(l, r) \in {l, r}
<1>1. (CHOOSE doc \in {l, r} : TRUE) \in {l, r}
  OBVIOUS
<1> QED
  BY <1>1 DEF Preferred

(* A merge that takes no version as a whole yields what the device has, what    *)
(* the provider has where the device changed nothing, or valid merged mergedRows.     *)
Unforced(b, l, doc, r) ==
  \/ doc = l
  \/ doc = r /\ l = b
  \/ Valid(doc) /\ \A i \in Ids : doc[i].is = "absent" => l[i].is = "absent"

(* mergeSyncConfigurationDocument: a change of either side is kept, or there is *)
(* a conflict; taking one version as a whole is a conflict.                     *)
LEMMA MergeKeeps ==
  ASSUME NEW b, NEW l, NEW r, Formed(b), Formed(l), Formed(r)
  PROVE  LET m == Merge(b, l, r)
         IN  /\ Formed(m.doc)
             /\ m.conflict \in BOOLEAN /\ m.one \in BOOLEAN
             /\ m.conflict \/ \A i \in Ids : /\ RowKept(b[i], l[i], m.doc[i])
                                             /\ RowKept(b[i], r[i], m.doc[i])
             /\ m.one \/ Unforced(b, l, m.doc, r)
<1> DEFINE m == Merge(b, l, r)
           Result(doc, conflict, one) == [doc |-> doc, conflict |-> conflict, one |-> one]
           mergedRows == MergedRows(b, l, r)
           merged == [i \in Ids |-> mergedRows[i].row]
           conflict == \E i \in Ids : mergedRows[i].conflict
<1>1. CASE l = r
  <2>1. m = Result(l, FALSE, FALSE)
    BY <1>1 DEF Merge
  <2> QED
    BY <1>1, <2>1 DEF RowKept, Unforced
<1>2. CASE l # r /\ b = NoBase
  <2>1. m = Result(Preferred(l, r), TRUE, TRUE)
    BY <1>2 DEF Merge
  <2> QED
    BY <2>1, PreferredIsOne
<1>3. CASE l # r /\ b # NoBase /\ l = b
  <2>1. m = Result(r, FALSE, FALSE)
    BY <1>3 DEF Merge
  <2> QED
    BY <1>3, <2>1 DEF RowKept, Unforced
<1>4. CASE l # r /\ b # NoBase /\ l # b /\ r = b
  <2>1. m = Result(l, FALSE, FALSE)
    BY <1>4 DEF Merge
  <2> QED
    BY <1>4, <2>1 DEF RowKept, Unforced
<1>5. CASE l # r /\ b # NoBase /\ l # b /\ r # b
  <2>1. CASE Valid(merged)
    <3>1. m = Result(merged, conflict, FALSE)
      BY <1>5, <2>1 DEF Merge
    <3>2. ASSUME NEW i \in Ids
          PROVE  /\ merged[i] = MergedRow(b[i], l[i], r[i]).row
                 /\ FormedRow(i, merged[i])
                 /\ merged[i].is = "absent" => l[i].is = "absent"
                 /\ conflict \/ (RowKept(b[i], l[i], merged[i]) /\ RowKept(b[i], r[i], merged[i]))
      <4>1. mergedRows[i] = MergedRow(b[i], l[i], r[i]) /\ merged[i] = mergedRows[i].row
        BY DEF MergedRows
      <4>2. FormedRow(i, b[i]) /\ FormedRow(i, l[i]) /\ FormedRow(i, r[i])
        BY DEF Formed
      <4>3. mergedRows[i].conflict => conflict
        OBVIOUS
      <4> HIDE DEF mergedRows, merged, conflict
      <4> QED
        BY <4>1, <4>2, <4>3, MergedRowKeeps
    <3>3. merged = [i \in Ids |-> merged[i]] /\ conflict \in BOOLEAN
      OBVIOUS
    <3> HIDE DEF mergedRows, merged, conflict
    <3>4. Formed(merged)
      BY <3>2, <3>3 DEF Formed, FormedRow, Documents
    <3> QED
      BY <2>1, <3>1, <3>2, <3>3, <3>4 DEF Unforced
  <2>2. CASE ~Valid(merged)
    <3> DEFINE kept == IF Valid(Preferred(l, r)) THEN Preferred(l, r)
                       ELSE CHOOSE doc \in {l, r} : doc # Preferred(l, r)
    <3>1. m = Result(kept, TRUE, TRUE)
      BY <1>5, <2>2 DEF Merge
    <3>2. (CHOOSE doc \in {l, r} : doc # Preferred(l, r)) \in {l, r}
      BY <1>5
    <3>3. kept \in {l, r}
      BY <3>2, PreferredIsOne
    <3> HIDE DEF kept
    <3> QED
      BY <3>1, <3>3
  <2> QED
    BY <2>1, <2>2
<1> QED
  BY <1>1, <1>2, <1>3, <1>4, <1>5

(* Writing one row.                                                             *)
LEMMA RowReplaced ==
  ASSUME NEW doc, Formed(doc), NEW i \in Ids, NEW row, FormedRow(i, row),
         row.is # "absent",
         i \in ConfigTypes => row.is = "live",
         i \in Parts /\ row.is = "live" /\ Valid(doc) => row.of \in LiveRows(doc)
  PROVE  LET d == [doc EXCEPT ![i] = row]
         IN  /\ Formed(d)
             /\ \A j \in Ids : doc[j].is # "absent" => d[j].is # "absent"
             /\ Valid(doc) => Valid(d)
<1> DEFINE d == [doc EXCEPT ![i] = row]
<1>1. /\ DOMAIN d = Ids /\ d = [j \in Ids |-> d[j]]
      /\ \A j \in Ids : d[j] = IF j = i THEN row ELSE doc[j]
  BY DEF Formed, Documents
<1> HIDE DEF d
<1>2. Formed(d)
  BY <1>1 DEF Formed, Documents, FormedRow
<1>3. \A j \in Ids : doc[j].is # "absent" => d[j].is # "absent"
  BY <1>1
<1>4. ASSUME Valid(doc), NEW p \in Parts \cap LiveRows(d)
      PROVE  d[p].of \in LiveRows(d)
  <2>1. p \in Ids /\ p \notin ConfigTypes /\ d[p].is = "live"
    BY ConfigurationAssumption DEF Ids, LiveRows
  <2>2. d[p].of \in LiveRows(doc)
    <3>1. CASE p = i
      BY <1>1, <1>4, <2>1, <3>1
    <3>2. CASE p # i
      BY <1>1, <1>4, <2>1, <3>2 DEF Valid, LiveRows
    <3> QED
      BY <3>1, <3>2
  <2>3. d[p].of \in ConfigTypes
    BY <1>2, <2>1, <2>2, ConfigurationAssumption DEF Formed, FormedRow, Rows, LiveRows
  <2> QED
    BY <1>1, <2>2, <2>3 DEF LiveRows
<1> QED
  BY <1>2, <1>3, <1>4 DEF d, Valid

(* Deleting a type with its columns and labels.                                 *)
LEMMA TypeDeleted ==
  ASSUME NEW doc, Formed(doc), NEW t \in ConfigTypes,
         NEW mut \in 0..MaxMutations, NEW at \in 0..MaxMutations
  PROVE  LET d == [i \in Ids |-> IF i = t \/ (i \in LiveRows(doc) /\ doc[i].of = t)
                                 THEN Deleted(mut, at) ELSE doc[i]]
         IN  /\ Formed(d)
             /\ \A j \in Ids : doc[j].is # "absent" => d[j].is # "absent"
             /\ Valid(doc) => Valid(d)
<1> DEFINE gone == {i \in Ids : i = t \/ (i \in LiveRows(doc) /\ doc[i].of = t)}
           d == [i \in Ids |-> IF i = t \/ (i \in LiveRows(doc) /\ doc[i].of = t)
                               THEN Deleted(mut, at) ELSE doc[i]]
<1>1. /\ d = [j \in Ids |-> d[j]]
      /\ \A j \in Ids : d[j] = IF j \in gone THEN Deleted(mut, at) ELSE doc[j]
  OBVIOUS
<1> HIDE DEF d
<1>2. /\ \A i \in Ids : FormedRow(i, Deleted(mut, at))
      /\ Deleted(mut, at).is = "deleted"
  BY ConfigurationAssumption DEF FormedRow, Rows, Deleted
<1> HIDE DEF gone
<1>3. Formed(d)
  BY <1>1, <1>2 DEF Formed, FormedRow, Documents
<1>4. \A j \in Ids : doc[j].is # "absent" => d[j].is # "absent"
  BY <1>1, <1>2
<1>5. ASSUME Valid(doc), NEW p \in Parts \cap LiveRows(d)
      PROVE  d[p].of \in LiveRows(d)
  <2>1. p \in Ids /\ p \notin gone /\ d[p] = doc[p] /\ p \in LiveRows(doc)
    BY <1>1, <1>2 DEF LiveRows
  <2>2. doc[p].of \in LiveRows(doc) /\ doc[p].of # t
    BY <1>5, <2>1 DEF Valid, gone
  <2>3. doc[p].of \in ConfigTypes /\ doc[p].of \in Ids
    BY <2>1, <2>2, ConfigurationAssumption DEF Formed, FormedRow, Rows, LiveRows
  <2>4. doc[doc[p].of].of = None
    BY <2>3 DEF Formed, FormedRow
  <2>5. doc[p].of \notin gone
    BY <2>2, <2>4, ConfigurationAssumption DEF gone, Ids
  <2> QED
    BY <1>1, <2>1, <2>2, <2>3, <2>5 DEF LiveRows
<1> QED
  BY <1>3, <1>4, <1>5 DEF d, Valid

(* An edit keeps every row in some form, and the parts with their types.        *)
LEMMA EditsKeep ==
  ASSUME NEW doc, Formed(doc),
         NEW mut \in 0..MaxMutations, NEW at \in 0..MaxMutations,
         NEW d \in Edits(doc, mut, at)
  PROVE  /\ Formed(d)
         /\ \A j \in Ids : doc[j].is # "absent" => d[j].is # "absent"
         /\ Valid(doc) => Valid(d)
<1> DEFINE Kept(e) == /\ Formed(e)
                      /\ \A j \in Ids : doc[j].is # "absent" => e[j].is # "absent"
                      /\ Valid(doc) => Valid(e)
<1>1. \/ \E t \in ConfigTypes : d \in TypeEdits(doc, t, mut, at)
      \/ \E p \in Parts : d \in PartEdits(doc, p, mut, at)
  BY DEF Edits
<1>2. ASSUME NEW t \in ConfigTypes, d \in TypeEdits(doc, t, mut, at)
      PROVE  Kept(d)
  <2>1. CASE d = [doc EXCEPT ![t] = Row(None, at, mut, at)]
    <3> DEFINE row == Row(None, at, mut, at)
    <3>1. row.is = "live" /\ FormedRow(t, row) /\ t \in Ids /\ t \notin Parts
      BY ConfigurationAssumption DEF Row, FormedRow, Rows, Ids
    <3> HIDE DEF row
    <3> QED
      BY <2>1, <3>1, RowReplaced DEF row
  <2>2. CASE d = [i \in Ids |-> IF i = t \/ (i \in LiveRows(doc) /\ doc[i].of = t)
                                THEN Deleted(mut, at) ELSE doc[i]]
    BY <2>2, TypeDeleted
  <2> QED
    BY <1>2, <2>1, <2>2 DEF TypeEdits
<1>3. ASSUME NEW p \in Parts, d \in PartEdits(doc, p, mut, at)
      PROVE  Kept(d)
  <2> DEFINE owners == LiveRows(doc) \cap ConfigTypes
  <2>1. p \in Ids /\ p \notin ConfigTypes /\ FormedRow(p, doc[p])
    BY ConfigurationAssumption DEF Ids, Formed
  <2>2. ASSUME NEW t, t \in owners \/ (t = doc[p].of /\ doc[p].is = "live"),
               d = [doc EXCEPT ![p] = Row(t, at, mut, at)]
        PROVE  Kept(d)
    <3> DEFINE row == Row(t, at, mut, at)
    <3>1. row.is = "live" /\ row.of = t /\ FormedRow(p, row)
      BY <2>1, <2>2 DEF Row, FormedRow, Rows
    <3>2. Valid(doc) => t \in LiveRows(doc)
      BY <2>1, <2>2 DEF Valid, LiveRows
    <3> HIDE DEF row
    <3> QED
      BY <2>1, <2>2, <3>1, <3>2, RowReplaced DEF row
  <2>3. CASE d = [doc EXCEPT ![p] = Deleted(mut, at)]
    <3> DEFINE row == Deleted(mut, at)
    <3>1. row.is = "deleted" /\ FormedRow(p, row)
      BY <2>1, ConfigurationAssumption DEF Deleted, FormedRow, Rows
    <3> HIDE DEF row
    <3> QED
      BY <2>1, <2>3, <3>1, RowReplaced DEF row
  <2>4. CASE doc[p].is = "live"
    <3>1. \/ d = [doc EXCEPT ![p] = Row(doc[p].of, at, mut, at)]
          \/ d = [doc EXCEPT ![p] = Deleted(mut, at)]
          \/ \E t \in owners : d = [doc EXCEPT ![p] = Row(t, doc[p].title, mut, at)]
      BY <1>3, <2>4 DEF PartEdits, Formed, Documents
    <3>2. ASSUME NEW t \in owners, d = [doc EXCEPT ![p] = Row(t, doc[p].title, mut, at)]
          PROVE  Kept(d)
      <4> DEFINE row == Row(t, doc[p].title, mut, at)
      <4>1. row.is = "live" /\ row.of = t /\ FormedRow(p, row)
        BY <2>1 DEF Row, FormedRow, Rows
      <4> HIDE DEF row
      <4> QED
        BY <2>1, <3>2, <4>1, RowReplaced DEF row
    <3> QED
      BY <2>2, <2>3, <2>4, <3>1, <3>2
  <2>5. CASE doc[p].is = "absent"
    BY <1>3, <2>2, <2>5 DEF PartEdits
  <2> QED
    BY <1>3, <2>4, <2>5 DEF PartEdits
<1> QED
  BY <1>1, <1>2, <1>3

(* applyRemoteConfigurationDocument, for a document that has every row the      *)
(* database has: the parts keep their types.                                    *)
LEMMA AppliedKeeps ==
  ASSUME NEW doc, NEW known, Formed(doc), Formed(known)
  PROVE  /\ Formed(Applied(doc, known))
         /\ Valid(doc) /\ (\A i \in Ids : doc[i].is = "absent" => known[i].is = "absent")
              => Valid(Applied(doc, known))
<1> DEFINE d == Applied(doc, known)
<1>1. /\ d = [i \in Ids |-> d[i]]
      /\ \A i \in Ids : d[i] = IF \/ doc[i].is = "absent"
                                  \/ (doc[i].is = "deleted" /\ known[i].is = "absent")
                              THEN known[i] ELSE doc[i]
  BY DEF Applied
<1> HIDE DEF d
<1>2. Formed(d)
  BY <1>1 DEF Formed, FormedRow, Documents
<1>3. ASSUME Valid(doc), \A i \in Ids : doc[i].is = "absent" => known[i].is = "absent"
      PROVE  Valid(d)
  <2>1. \A i \in Ids : /\ d[i].is = "live" <=> doc[i].is = "live"
                       /\ d[i].is = "live" => d[i] = doc[i]
    BY <1>1, <1>3
  <2> QED
    BY <1>3, <2>1 DEF Valid, LiveRows
<1> QED
  BY <1>2, <1>3 DEF d

-----------------------------------------------------------------------------
(* The invariant of the configuration                                           *)

LEMMA ConfigurationInitEstablishes == ConfigurationInit => ConfigurationIInv
<1> SUFFICES ASSUME ConfigurationInit PROVE ConfigurationIInv
  OBVIOUS
<1> USE ConfigurationAssumption
<1> DEFINE first == CHOOSE t \in ConfigTypes : TRUE
<1>1. PICK there \in {s \in SUBSET Ids : first \in s} :
        /\ local = [i \in Ids |-> IF i \notin there THEN NoRow
                                  ELSE Row(IF i \in Parts THEN first ELSE None, 0, 0, 0)]
        /\ remote = local /\ ancestor \in {local, NoBase}
        /\ recorded = {} /\ whole = TRUE /\ mutations = {}
  BY DEF ConfigurationInit
<1>2. first \in ConfigTypes /\ first \in there /\ there \subseteq Ids
  OBVIOUS
<1> HIDE DEF first
<1>3. Formed(local)
  <2>1. \A i \in Ids : FormedRow(i, NoRow)
    BY DEF FormedRow, Rows, NoRow
  <2>2. \A i \in Ids : FormedRow(i, Row(IF i \in Parts THEN first ELSE None, 0, 0, 0))
    BY <1>2 DEF FormedRow, Rows, Row, Ids
  <2>3. local = [i \in Ids |-> local[i]]
    BY <1>1
  <2>4. \A i \in Ids : FormedRow(i, local[i])
    BY <1>1, <2>1, <2>2
  <2> QED
    BY <2>3, <2>4 DEF Formed, FormedRow, Documents
<1>4. Formed(NoBase) /\ \A i \in Ids : NoBase[i].is = "absent"
  BY DEF NoBase, NoRow, Formed, FormedRow, Documents, Rows
<1>5. RowsStay
  BY <1>1, <1>4 DEF RowsStay
<1>6. Valid(local)
  BY <1>1, <1>2 DEF Valid, LiveRows, Row, NoRow, Ids
<1> QED
  BY <1>1, <1>3, <1>4, <1>5, <1>6 DEF ConfigurationIInv, ConfigurationWhole

LEMMA EditConfigurationKeeps ==
  ConfigurationIInv /\ EditConfiguration => ConfigurationIInv'
<1> SUFFICES ASSUME ConfigurationIInv, EditConfiguration PROVE ConfigurationIInv'
  OBVIOUS
<1> DEFINE at == Cardinality(mutations) + 1
<1>1. PICK mut \in (1..MaxMutations) \ mutations :
        /\ mutations' = mutations \cup {mut}
        /\ \/ local' \in Edits(local, mut, at) /\ UNCHANGED remote
           \/ Valid(remote) /\ remote' \in Edits(remote, mut, at) /\ UNCHANGED local
        /\ UNCHANGED <<ancestor, recorded, whole>>
  BY DEF EditConfiguration
<1>2. at \in 0..MaxMutations
  <2>1. IsFiniteSet(1..MaxMutations) /\ Cardinality(1..MaxMutations) = MaxMutations
    BY FS_Interval, ConfigurationAssumption
  <2>2. mutations \subseteq 1..MaxMutations /\ mutations # 1..MaxMutations
    BY <1>1 DEF ConfigurationIInv
  <2>3. /\ IsFiniteSet(mutations)
        /\ Cardinality(mutations) <= MaxMutations
        /\ Cardinality(mutations) # MaxMutations
    BY <2>1, <2>2, FS_Subset
  <2>4. Cardinality(mutations) \in Nat
    BY <2>3, FS_CardinalityType
  <2> QED
    BY <2>3, <2>4, ConfigurationAssumption
<1>3. mut \in 0..MaxMutations
  BY <1>1, ConfigurationAssumption
<1> HIDE DEF at
<1>4. mutations' \subseteq 1..MaxMutations
  BY <1>1 DEF ConfigurationIInv
<1>5. CASE local' \in Edits(local, mut, at) /\ UNCHANGED remote
  <2>1. Formed(local') /\ (Valid(local) => Valid(local'))
    BY <1>2, <1>3, <1>5, EditsKeep DEF ConfigurationIInv
  <2> QED
    BY <1>1, <1>4, <1>5, <2>1 DEF ConfigurationIInv, RowsStay, ConfigurationWhole
<1>6. CASE remote' \in Edits(remote, mut, at) /\ UNCHANGED local
  <2>1. /\ Formed(remote')
        /\ \A j \in Ids : remote[j].is # "absent" => remote'[j].is # "absent"
    BY <1>2, <1>3, <1>6, EditsKeep DEF ConfigurationIInv
  <2> QED
    BY <1>1, <1>4, <1>6, <2>1 DEF ConfigurationIInv, RowsStay, ConfigurationWhole
<1> QED
  BY <1>1, <1>5, <1>6

LEMMA PullConfigurationKeeps ==
  ConfigurationIInv /\ PullConfiguration => ConfigurationIInv'
<1> SUFFICES ASSUME ConfigurationIInv, PullConfiguration PROVE ConfigurationIInv'
  OBVIOUS
<1> DEFINE merge == Merge(ancestor, local, remote)
<1>1. /\ remote # ancestor /\ Valid(remote)
      /\ local' = Applied(merge.doc, local)
      /\ ancestor' = remote
      /\ recorded' = IF merge.conflict THEN {local, remote} ELSE recorded
      /\ whole' = (whole /\ ~merge.one)
      /\ UNCHANGED <<remote, mutations>>
  BY DEF PullConfiguration
<1>2. /\ Formed(ancestor) /\ Formed(local) /\ Formed(remote)
      /\ Formed(merge.doc) /\ merge.one \in BOOLEAN
      /\ merge.one \/ Unforced(ancestor, local, merge.doc, remote)
  BY MergeKeeps DEF ConfigurationIInv
<1> HIDE DEF merge
<1>3. Formed(local')
  BY <1>1, <1>2, AppliedKeeps
<1>4. \A doc \in recorded' : Formed(doc)
  BY <1>1, <1>2 DEF ConfigurationIInv
<1>5. ASSUME whole'
      PROVE  Valid(local')
  <2>1. Valid(local) /\ Unforced(ancestor, local, merge.doc, remote)
    BY <1>1, <1>2, <1>5 DEF ConfigurationIInv, ConfigurationWhole
  <2>2. /\ Valid(merge.doc)
        /\ \A i \in Ids : merge.doc[i].is = "absent" => local[i].is = "absent"
    BY <1>1, <2>1 DEF Unforced, ConfigurationIInv, RowsStay
  <2> QED
    BY <1>1, <1>2, <2>2, AppliedKeeps
<1>6. whole' \in BOOLEAN
  BY <1>1, <1>2 DEF ConfigurationIInv
<1> QED
  BY <1>1, <1>2, <1>3, <1>4, <1>5, <1>6 DEF ConfigurationIInv, RowsStay, ConfigurationWhole

LEMMA PushConfigurationKeeps ==
  ConfigurationIInv /\ PushConfiguration => ConfigurationIInv'
  BY DEF ConfigurationIInv, PushConfiguration, RowsStay, ConfigurationWhole, Formed, Valid,
         LiveRows

LEMMA ResolveConfigurationKeeps ==
  ConfigurationIInv /\ ResolveConfiguration => ConfigurationIInv'
<1> SUFFICES ASSUME ConfigurationIInv, ResolveConfiguration PROVE ConfigurationIInv'
  OBVIOUS
<1>1. PICK doc \in recorded :
        /\ local' = Applied(doc, local)
        /\ recorded' = {} /\ whole' = FALSE
        /\ UNCHANGED <<ancestor, remote, mutations>>
  BY DEF ResolveConfiguration
<1>2. Formed(local')
  BY <1>1, AppliedKeeps DEF ConfigurationIInv
<1> QED
  BY <1>1, <1>2 DEF ConfigurationIInv, RowsStay, ConfigurationWhole

LEMMA ConfigurationNextKeeps ==
  ConfigurationIInv /\ [ConfigurationNext]_configVars => ConfigurationIInv'
<1> SUFFICES ASSUME ConfigurationIInv, [ConfigurationNext]_configVars PROVE ConfigurationIInv'
  OBVIOUS
<1>1. CASE UNCHANGED configVars
  BY <1>1 DEF configVars, ConfigurationIInv, RowsStay, ConfigurationWhole
<1>2. CASE ConfigurationNext
  BY <1>2, EditConfigurationKeeps, PullConfigurationKeeps, PushConfigurationKeeps,
     ResolveConfigurationKeeps DEF ConfigurationNext
<1> QED
  BY <1>1, <1>2

(* What the properties follow from.                                             *)
LEMMA ConfigurationImplied ==
  ConfigurationIInv => ConfigurationTypeOK /\ ConfigurationWhole /\ NothingSilentlyLost
<1> SUFFICES ASSUME ConfigurationIInv
             PROVE  ConfigurationTypeOK /\ ConfigurationWhole /\ NothingSilentlyLost
  OBVIOUS
<1>1. ConfigurationTypeOK /\ ConfigurationWhole
  BY DEF ConfigurationIInv, ConfigurationTypeOK, Formed
<1>2. NothingSilentlyLost
  <2> DEFINE merge == Merge(ancestor, local, remote)
  <2>1. merge.conflict \/ \A i \in Ids : /\ RowKept(ancestor[i], local[i], merge.doc[i])
                                        /\ RowKept(ancestor[i], remote[i], merge.doc[i])
    BY MergeKeeps DEF ConfigurationIInv
  <2> HIDE DEF merge
  <2> QED
    BY <2>1 DEF NothingSilentlyLost, RowKept, merge
<1> QED
  BY <1>1, <1>2

(* The strengthened invariant of the configuration holds in every reachable     *)
(* state, for any types, parts and number of edits.                             *)
THEOREM ConfigurationInvariance == ConfigurationSpec => []ConfigurationIInv
  BY ConfigurationInitEstablishes, ConfigurationNextKeeps, PTL DEF ConfigurationSpec

(* Documents are made of rows, whatever is merged, applied and resolved.        *)
THEOREM ConfigurationTypeCorrect == ConfigurationSpec => []ConfigurationTypeOK
  BY ConfigurationInvariance, ConfigurationImplied, PTL

(* Two devices that edit, delete and move types, columns and labels at the same *)
(* time never leave a column or label without its type, while merges are done   *)
(* row by row.                                                                  *)
THEOREM MergedConfigurationIsWhole == ConfigurationSpec => []ConfigurationWhole
  BY ConfigurationInvariance, ConfigurationImplied, PTL

(* A change of either side since the base is in the merged configuration, or a  *)
(* conflict that keeps both versions is recorded.                               *)
THEOREM ConfigurationLosesNothing == ConfigurationSpec => []NothingSilentlyLost
  BY ConfigurationInvariance, ConfigurationImplied, PTL

-----------------------------------------------------------------------------
(* ProviderObjects: devices that are up to date work on the canonical file of a *)
(* key. A device that does not know it has the reason in its feed: the file it  *)
(* works on, or each live file that precedes it, is still to be listed.         *)

Explained(d, c) ==
  IsLive(c) => \/ c \in feed[d]
               \/ \A g \in Files : IsLive(g) /\ g < c => g \in feed[d]

ObjectsIInv ==
  /\ ObjectsTypeOK
  /\ \A d \in Adapters : cursor[d] => Explained(d, cache[d])

(* A nonempty set of numbers has a least element.                               *)
LEMMA LeastNumber ==
  ASSUME NEW S, S \subseteq Nat, S # {}
  PROVE  \E m \in S : \A n \in S : m <= n
<1>1. PICK m \in S : \A n \in S : <<n, m>> \notin OpToRel(<, Nat)
  BY WFMin, NatLessThanWellFounded
<1>2. \A n \in S : ~(n < m)
  BY <1>1 DEF OpToRel
<1> QED
  BY <1>2

(* The listing finds the first of the live files, if there is one.              *)
LEMMA CanonicalIsFirst ==
  /\ Canonical \in Files \cup {0}
  /\ Canonical = 0 <=> \A f \in Files : ~IsLive(f)
  /\ Canonical # 0 => /\ IsLive(Canonical)
                     /\ \A f \in Files : IsLive(f) => Canonical <= f
<1> DEFINE live == {f \in Files : IsLive(f)}
<1>1. live \subseteq Nat /\ 0 \notin live
  BY ObjectsAssumption DEF Files
<1>2. CASE live = {}
  BY <1>2 DEF Canonical
<1>3. CASE live # {}
  <2>1. \E m \in live : \A f \in live : m <= f
    BY <1>1, <1>3, LeastNumber
  <2>2. Min(live) \in live /\ \A f \in live : Min(live) <= f
    BY <2>1 DEF Min
  <2>3. Canonical = Min(live)
    BY <1>3 DEF Canonical
  <2> QED
    BY <1>1, <2>2, <2>3
<1> QED
  BY <1>2, <1>3

(* The canonical file needs no explanation, nor does none.                      *)
LEMMA CanonicalExplained ==
  ASSUME NEW d
  PROVE  Explained(d, Canonical) /\ Explained(d, 0)
<1>1. \A c \in {0, Canonical} : IsLive(c) => \A g \in Files : IsLive(g) => ~(g < c)
  <2> SUFFICES ASSUME IsLive(Canonical), NEW g \in Files, IsLive(g)
               PROVE  ~(g < Canonical)
    BY ObjectsAssumption DEF IsLive, Files
  <2>1. Canonical \in Files /\ Canonical <= g
    BY CanonicalIsFirst DEF IsLive
  <2> QED
    BY <2>1, ObjectsAssumption DEF Files
<1> QED
  BY <1>1 DEF Explained

(* A lookup yields what the device knows, or the canonical file.                *)
LEMMA FindObjectExplained ==
  ASSUME ObjectsIInv, NEW d \in Adapters
  PROVE  /\ FindObject(d) \in Files \cup {0}
         /\ cursor[d] => Explained(d, FindObject(d))
<1>1. FindObject(d) \in {cache[d], Canonical}
  BY DEF FindObject
<1> QED
  BY <1>1, CanonicalIsFirst, CanonicalExplained DEF ObjectsIInv, ObjectsTypeOK

Operations == [step : {"idle", "post", "verify", "patch", "enumerate"}, file : Files \cup {0}]

(* Requests of a device that change nothing at the provider: what the device    *)
(* then takes for the file of the key is explained.                             *)
LEMMA LookupKeeps ==
  ASSUME ObjectsIInv, NEW d \in Adapters, UNCHANGED <<drive, files, feed>>,
         NEW c, c \in Files \cup {0}, cursor'[d] => Explained(d, c),
         cache' = [cache EXCEPT ![d] = c],
         cursor' \in {cursor, [cursor EXCEPT ![d] = TRUE], [cursor EXCEPT ![d] = FALSE]},
         base' \in [Adapters -> Files \cup {0}],
         NEW o \in Operations, op' = [op EXCEPT ![d] = o] \/ UNCHANGED op
  PROVE  ObjectsIInv'
<1>1. ObjectsTypeOK'
  <2>1. cache' \in [Adapters -> Files \cup {0}] /\ cursor' \in [Adapters -> BOOLEAN]
    BY DEF ObjectsIInv, ObjectsTypeOK
  <2>2. op' \in [Adapters -> Operations]
    BY DEF ObjectsIInv, ObjectsTypeOK, Operations
  <2> QED
    BY <2>1, <2>2 DEF ObjectsIInv, ObjectsTypeOK, Operations
<1>2. \A x : \A e \in Adapters : Explained(e, x)' <=> Explained(e, x)
  BY DEF Explained, IsLive
<1>3. ASSUME NEW e \in Adapters, cursor'[e]
      PROVE  Explained(e, cache'[e])
  <2>1. CASE e = d
    BY <1>3, <2>1 DEF ObjectsIInv, ObjectsTypeOK
  <2>2. CASE e # d
    <3>1. cursor[e] /\ cache'[e] = cache[e]
      BY <1>3, <2>2 DEF ObjectsIInv, ObjectsTypeOK
    <3> QED
      BY <3>1 DEF ObjectsIInv
  <2> QED
    BY <2>1, <2>2
<1> QED
  BY <1>1, <1>2, <1>3 DEF ObjectsIInv, Explained

(* A change of a file is in every device's feed.                                *)
LEMMA ChangeKeeps ==
  ASSUME ObjectsIInv, UNCHANGED <<drive, cursor>>,
         NEW f \in Files, Changed(f),
         NEW state \in {"live", "trashed", "gone"}, files' \in {files, [files EXCEPT ![f] = state]},
         NEW d \in Adapters, cache' \in {cache, [cache EXCEPT ![d] = f]},
         base' \in [Adapters -> Files \cup {0}], op' \in [Adapters -> Operations]
  PROVE  ObjectsIInv'
<1>1. \A e \in Adapters : feed'[e] = feed[e] \cup {f}
  BY DEF Changed
<1>2. ObjectsTypeOK'
  <2>1. feed' \in [Adapters -> SUBSET Files]
    BY DEF Changed, ObjectsIInv, ObjectsTypeOK
  <2>2. cache' \in [Adapters -> Files \cup {0}]
    BY DEF ObjectsIInv, ObjectsTypeOK
  <2>3. files' \in [Files -> {"absent", "live", "trashed", "gone"}]
    BY DEF ObjectsIInv, ObjectsTypeOK
  <2> QED
    BY <2>1, <2>2, <2>3 DEF ObjectsIInv, ObjectsTypeOK, Operations
<1>3. \A g \in Files \ {f} : files'[g] = files[g]
  BY DEF ObjectsIInv, ObjectsTypeOK
<1>4. ASSUME NEW e \in Adapters, cursor[e], cache'[e] # f, IsLive(cache[e])'
      PROVE  \/ cache'[e] \in feed'[e]
             \/ \A g \in Files : IsLive(g)' /\ g < cache'[e] => g \in feed'[e]
  <2>1. cache'[e] = cache[e]
    BY <1>4 DEF ObjectsIInv, ObjectsTypeOK
  <2>2. IsLive(cache[e]) /\ Explained(e, cache[e])
    BY <1>3, <1>4, <2>1 DEF ObjectsIInv, IsLive
  <2> QED
    BY <1>1, <1>3, <2>1, <2>2 DEF Explained, IsLive
<1>5. \A e \in Adapters : cache'[e] = f => cache'[e] \in feed'[e]
  BY <1>1
<1> QED
  BY <1>2, <1>4, <1>5 DEF ObjectsIInv, Explained

(* The invariant of the objects                                                 *)

LEMMA ObjectsInitEstablishes == ObjectsInit => ObjectsIInv
  BY DEF ObjectsInit, ObjectsIInv, ObjectsTypeOK, NoOp, Explained

(* Creating: what was found or uploaded is explained, whatever was answered.    *)
LEMMA CreateKeeps ==
  ASSUME ObjectsIInv, NEW d \in Adapters, NEW outcome,
         StartCreate(d) \/ Post(d, outcome) \/ RequireCanonicalWrite(d, outcome)
  PROVE  ObjectsIInv'
<1>1. NoOp \in Operations /\ base \in [Adapters -> Files \cup {0}]
  BY DEF NoOp, Operations, ObjectsIInv, ObjectsTypeOK
<1>2. CASE StartCreate(d)
  <2> DEFINE f == FindObject(d)
             c == IF f = 0 THEN cache[d] ELSE f
  <2>1. c \in Files \cup {0} /\ (cursor[d] => Explained(d, c))
    BY FindObjectExplained DEF ObjectsIInv, ObjectsTypeOK
  <2>2. cache' = [cache EXCEPT ![d] = c]
    BY <1>2 DEF StartCreate, Cached, ObjectsIInv, ObjectsTypeOK
  <2>3. [step |-> "post", file |-> 0] \in Operations
    BY DEF Operations
  <2>4. op' = [op EXCEPT ![d] = [step |-> "post", file |-> 0]] \/ UNCHANGED op
    BY <1>2 DEF StartCreate, Step
  <2>5. UNCHANGED <<drive, files, feed, cursor, base>>
    BY <1>2 DEF StartCreate, AtProvider
  <2> HIDE DEF c
  <2> QED
    BY <1>1, <2>1, <2>2, <2>3, <2>4, <2>5, LookupKeeps
<1>3. CASE Post(d, outcome)
  <2>1. CASE Done(d) /\ UNCHANGED <<drive, files, feed, cache, cursor, base>>
    <3>1. cache' = [cache EXCEPT ![d] = cache[d]]
      BY <2>1 DEF ObjectsIInv, ObjectsTypeOK
    <3>2. cache[d] \in Files \cup {0} /\ (cursor[d] => Explained(d, cache[d]))
      BY DEF ObjectsIInv, ObjectsTypeOK
    <3> QED
      BY <1>1, <2>1, <3>1, <3>2, LookupKeeps DEF Done
  <2>2. ASSUME NEW f \in Files,
               /\ files' = [files EXCEPT ![f] = "live"]
               /\ Changed(f)
               /\ \/ Cached(d, f) /\ Step(d, "verify", f)
                  \/ Done(d) /\ UNCHANGED cache
        PROVE  ObjectsIInv'
    <3>1. cache' \in {cache, [cache EXCEPT ![d] = f]}
      BY <2>2, ObjectsAssumption DEF Cached
    <3>2. op' \in [Adapters -> Operations]
      <4>1. [step |-> "verify", file |-> f] \in Operations
        BY DEF Operations
      <4>2. op \in [Adapters -> Operations]
        BY DEF ObjectsIInv, ObjectsTypeOK, Operations
      <4> QED
        BY <1>1, <2>2, <4>1, <4>2 DEF Step, Done
    <3> QED
      BY <1>1, <1>3, <2>2, <3>1, <3>2, ChangeKeeps DEF Post
  <2> QED
    BY <1>3, <2>1, <2>2 DEF Post
<1>4. CASE RequireCanonicalWrite(d, outcome)
  <2> DEFINE c == IF outcome = "ok" /\ Canonical # 0 THEN Canonical ELSE cache[d]
  <2>1. c \in Files \cup {0} /\ (cursor[d] => Explained(d, c))
    BY CanonicalIsFirst, CanonicalExplained DEF ObjectsIInv, ObjectsTypeOK
  <2>2. cache' = [cache EXCEPT ![d] = c]
    BY <1>4 DEF RequireCanonicalWrite, Cached, ObjectsIInv, ObjectsTypeOK
  <2>3. op' = [op EXCEPT ![d] = NoOp] /\ UNCHANGED <<drive, files, feed, cursor, base>>
    BY <1>4 DEF RequireCanonicalWrite, Done, AtProvider
  <2> HIDE DEF c
  <2> QED
    BY <1>1, <2>1, <2>2, <2>3, LookupKeeps
<1> QED
  BY <1>2, <1>3, <1>4

LEMMA UpdateKeeps ==
  ASSUME ObjectsIInv, NEW d \in Adapters, NEW outcome,
         StartUpdate(d) \/ Patch(d, outcome)
  PROVE  ObjectsIInv'
<1>1. NoOp \in Operations /\ base \in [Adapters -> Files \cup {0}]
  BY DEF NoOp, Operations, ObjectsIInv, ObjectsTypeOK
<1>2. CASE StartUpdate(d)
  <2> DEFINE f == FindObject(d)
             c == IF f = 0 THEN cache[d] ELSE f
             o == [step |-> "patch", file |-> f]
  <2>1. /\ c \in Files \cup {0} /\ (cursor[d] => Explained(d, c))
        /\ f \in Files \cup {0}
    BY FindObjectExplained DEF ObjectsIInv, ObjectsTypeOK
  <2>2. cache' = [cache EXCEPT ![d] = c]
    BY <1>2 DEF StartUpdate, Cached, ObjectsIInv, ObjectsTypeOK
  <2>3. o \in Operations
    BY <2>1 DEF Operations
  <2>4. op' = [op EXCEPT ![d] = o] \/ UNCHANGED op
    BY <1>2 DEF StartUpdate, Step
  <2>5. UNCHANGED <<drive, files, feed, cursor, base>>
    BY <1>2 DEF StartUpdate, AtProvider
  <2> HIDE DEF c, o
  <2> QED
    BY <1>1, <2>1, <2>2, <2>3, <2>4, <2>5, LookupKeeps
<1>3. CASE Patch(d, outcome)
  <2> DEFINE f == op[d].file
  <2>1. op' = [op EXCEPT ![d] = NoOp] /\ UNCHANGED <<drive, files, cursor, cache>>
    BY <1>3 DEF Patch, Done
  <2>2. CASE UNCHANGED <<feed, base>>
    <3>1. cache' = [cache EXCEPT ![d] = cache[d]]
      BY <2>1 DEF ObjectsIInv, ObjectsTypeOK
    <3>2. cache[d] \in Files \cup {0} /\ (cursor[d] => Explained(d, cache[d]))
      BY DEF ObjectsIInv, ObjectsTypeOK
    <3> QED
      BY <1>1, <2>1, <2>2, <3>1, <3>2, LookupKeeps
  <2>3. CASE VersionMatches(d, f) /\ Changed(f) /\ NewVersion(f)
    <3>1. f \in Files
      BY <2>3 DEF VersionMatches, ObjectsIInv, ObjectsTypeOK
    <3>2. base' \in [Adapters -> Files \cup {0}]
      BY <1>1, <2>3 DEF NewVersion
    <3>3. op' \in [Adapters -> Operations]
      BY <1>1, <2>1 DEF ObjectsIInv, ObjectsTypeOK, Operations
    <3> HIDE DEF f
    <3> QED
      BY <2>1, <2>3, <3>1, <3>2, <3>3, ChangeKeeps
  <2> QED
    BY <1>3, <2>2, <2>3 DEF Patch
<1> QED
  BY <1>2, <1>3

LEMMA TrashKeeps ==
  ASSUME ObjectsIInv, NEW f \in Files, NEW how \in {"trashed", "gone"}, Trash(f, how)
  PROVE  ObjectsIInv'
<1>1. base' \in [Adapters -> Files \cup {0}] /\ op' \in [Adapters -> Operations]
  BY DEF Trash, NewVersion, ObjectsIInv, ObjectsTypeOK, Operations
<1>2. CASE Adapters = {}
  BY <1>1, <1>2 DEF Trash, Changed, ObjectsIInv, ObjectsTypeOK, Operations
<1>3. CASE Adapters # {}
  BY <1>1, <1>3, ChangeKeeps DEF Trash
<1> QED
  BY <1>2, <1>3

LEMMA CursorKeeps ==
  ASSUME ObjectsIInv, NEW d \in Adapters, NEW outcome,
         ActivateWorkspace(d) \/ EnumerateObjects(d, outcome) \/ InvalidateCursor(d)
  PROVE  ObjectsIInv'
<1>1. NoOp \in Operations /\ base \in [Adapters -> Files \cup {0}]
  BY DEF NoOp, Operations, ObjectsIInv, ObjectsTypeOK
<1>2. CASE ActivateWorkspace(d)
  BY <1>1, <1>2, CanonicalExplained, LookupKeeps DEF ActivateWorkspace, AtProvider
<1>3. CASE InvalidateCursor(d)
  <2>1. cache' = [cache EXCEPT ![d] = cache[d]] /\ cache[d] \in Files \cup {0}
    BY <1>3 DEF InvalidateCursor, ObjectsIInv, ObjectsTypeOK
  <2>2. cursor' = [cursor EXCEPT ![d] = FALSE] /\ ~cursor'[d]
    BY <1>3 DEF InvalidateCursor, ObjectsIInv, ObjectsTypeOK
  <2>3. UNCHANGED <<drive, files, feed, base, op>>
    BY <1>3 DEF InvalidateCursor, AtProvider
  <2> QED
    BY <1>1, <2>1, <2>2, <2>3, LookupKeeps
<1>4. CASE EnumerateObjects(d, outcome)
  <2>1. op' = [op EXCEPT ![d] = NoOp] /\ UNCHANGED <<drive, files, feed>>
    BY <1>4 DEF EnumerateObjects, Done, AtProvider
  <2>2. CASE UNCHANGED <<cache, cursor, base>>
    <3>1. cache' = [cache EXCEPT ![d] = cache[d]]
      BY <2>2 DEF ObjectsIInv, ObjectsTypeOK
    <3>2. cache[d] \in Files \cup {0} /\ (cursor'[d] => Explained(d, cache[d]))
      BY <2>2 DEF ObjectsIInv, ObjectsTypeOK
    <3> QED
      BY <1>1, <2>1, <2>2, <3>1, <3>2, LookupKeeps
  <2>3. CASE Cached(d, Canonical) /\ ReadObject(d, Canonical) /\ cursor' = [cursor EXCEPT ![d] = TRUE]
    <3> DEFINE c == IF Canonical # 0 THEN Canonical ELSE cache[d]
    <3>1. c \in Files \cup {0}
      BY CanonicalIsFirst DEF ObjectsIInv, ObjectsTypeOK
    <3>2. Explained(d, c)
      <4>1. CASE Canonical # 0
        BY <4>1, CanonicalExplained
      <4>2. CASE Canonical = 0
        BY <4>2, CanonicalIsFirst DEF Explained, IsLive
      <4> QED
        BY <4>1, <4>2
    <3>3. cache' = [cache EXCEPT ![d] = c]
      BY <2>3 DEF Cached, ObjectsIInv, ObjectsTypeOK
    <3>4. base' \in [Adapters -> Files \cup {0}]
      BY <1>1, <2>3, CanonicalIsFirst DEF ReadObject
    <3> HIDE DEF c
    <3> QED
      BY <1>1, <2>1, <2>3, <3>1, <3>2, <3>3, <3>4, LookupKeeps
  <2> QED
    BY <1>4, <2>2, <2>3 DEF EnumerateObjects
<1> QED
  BY <1>2, <1>3, <1>4

(* A step of the device that takes changes off its feed: what it then takes for *)
(* the file of the key is explained by what is left there.                      *)
LEMMA ListingKeeps ==
  ASSUME ObjectsIInv, NEW d \in Adapters, UNCHANGED <<drive, files, cursor>>,
         NEW s, s \subseteq Files, feed' = [feed EXCEPT ![d] = s],
         NEW c, c \in Files \cup {0}, cache' = [cache EXCEPT ![d] = c],
         cursor[d] /\ IsLive(c) =>
           \/ c \in s
           \/ \A g \in Files : IsLive(g) /\ g < c => g \in s,
         base' \in [Adapters -> Files \cup {0}], op' \in [Adapters -> Operations]
  PROVE  ObjectsIInv'
<1>1. ObjectsTypeOK'
  <2>1. cache' \in [Adapters -> Files \cup {0}] /\ feed' \in [Adapters -> SUBSET Files]
    BY DEF ObjectsIInv, ObjectsTypeOK
  <2> QED
    BY <2>1 DEF ObjectsIInv, ObjectsTypeOK, Operations
<1>2. ASSUME NEW e \in Adapters, cursor[e], IsLive(cache'[e])
      PROVE  \/ cache'[e] \in feed'[e]
             \/ \A g \in Files : IsLive(g) /\ g < cache'[e] => g \in feed'[e]
  <2>1. CASE e = d
    <3>1. cache'[e] = c /\ feed'[e] = s
      BY <2>1 DEF ObjectsIInv, ObjectsTypeOK
    <3> QED
      BY <1>2, <2>1, <3>1
  <2>2. CASE e # d
    <3>1. cache'[e] = cache[e] /\ feed'[e] = feed[e]
      BY <2>2 DEF ObjectsIInv, ObjectsTypeOK
    <3> QED
      BY <1>2, <3>1 DEF ObjectsIInv, Explained
  <2> QED
    BY <2>1, <2>2
<1> QED
  BY <1>1, <1>2 DEF ObjectsIInv, Explained, IsLive

(* Enumerating: the cursor is taken before the objects are read, and there is   *)
(* none yet.                                                                    *)
LEMMA EnumerationStarts ==
  ASSUME ObjectsIInv, NEW d \in Adapters, StartEnumeration(d)
  PROVE  ObjectsIInv'
<1>1. /\ base \in [Adapters -> Files \cup {0}] /\ op \in [Adapters -> Operations]
      /\ ~IsLive(0)
  BY ObjectsAssumption DEF ObjectsIInv, ObjectsTypeOK, Operations, IsLive, Files
<1>2. feed' = [feed EXCEPT ![d] = {}] /\ cache' = [cache EXCEPT ![d] = 0]
  BY DEF StartEnumeration
<1>3. UNCHANGED <<drive, files, cursor, base>>
  BY DEF StartEnumeration
<1>4. op' \in [Adapters -> Operations]
  <2>1. [step |-> "enumerate", file |-> 0] \in Operations
    BY DEF Operations
  <2> QED
    BY <1>1, <2>1 DEF StartEnumeration, Step
<1>5. PICK c \in Files \cup {0} : c = 0
  OBVIOUS
<1>6. PICK s \in SUBSET Files : s = {}
  OBVIOUS
<1>7. feed' = [feed EXCEPT ![d] = s] /\ cache' = [cache EXCEPT ![d] = c] /\ ~IsLive(c)
  BY <1>1, <1>2, <1>5, <1>6
<1> QED
  BY <1>1, <1>3, <1>4, <1>7, ListingKeeps

(* Listing: a change is taken off with the canonical file found, a deletion was *)
(* no explanation of anything.                                                  *)
LEMMA ListKeeps ==
  ASSUME ObjectsIInv, NEW d \in Adapters, NEW f \in Files, NEW outcome,
         ListChange(d, f, outcome) \/ ListDeletion(d, f)
  PROVE  ObjectsIInv'
<1>1. /\ base \in [Adapters -> Files \cup {0}] /\ op \in [Adapters -> Operations]
      /\ feed[d] \subseteq Files /\ feed \in [Adapters -> SUBSET Files]
      /\ cache \in [Adapters -> Files \cup {0}] /\ cache[d] \in Files \cup {0}
      /\ NoOp \in Operations
  BY DEF ObjectsIInv, ObjectsTypeOK, Operations, NoOp
<1>2. ~IsLive(0)
  BY ObjectsAssumption DEF IsLive, Files
<1>3. CASE ListChange(d, f, outcome)
  <2>1. UNCHANGED <<drive, files, cursor, op>> /\ f \in feed[d] /\ IsLive(f)
    BY <1>3 DEF ListChange
  <2>2. CASE /\ Cached(d, Canonical) /\ ReadObject(d, Canonical)
             /\ feed' = [feed EXCEPT ![d] = @ \ {f}]
    <3>1. Canonical \in Files /\ Canonical # 0
      BY <2>1, CanonicalIsFirst
    <3>2. cache' = [cache EXCEPT ![d] = Canonical]
      BY <2>2, <3>1 DEF Cached
    <3>3. feed' = [feed EXCEPT ![d] = feed[d] \ {f}]
      BY <1>1, <2>2
    <3>4. \A g \in Files : IsLive(g) => ~(g < Canonical)
      <4> SUFFICES ASSUME NEW g \in Files, IsLive(g) PROVE ~(g < Canonical)
        OBVIOUS
      <4>1. Canonical <= g
        BY <3>1, CanonicalIsFirst
      <4> QED
        BY <3>1, <4>1, ObjectsAssumption DEF Files
    <3>5. base' \in [Adapters -> Files \cup {0}]
      BY <1>1, <2>2, <3>1 DEF ReadObject
    <3>6. feed[d] \ {f} \subseteq Files /\ op' \in [Adapters -> Operations]
      BY <1>1, <2>1
    <3> QED
      BY <1>1, <2>1, <3>1, <3>2, <3>3, <3>4, <3>5, <3>6, ListingKeeps
  <2>3. CASE Cached(d, f) /\ UNCHANGED <<feed, base>>
    <3>1. cache' = [cache EXCEPT ![d] = f]
      BY <1>2, <2>1, <2>3 DEF Cached
    <3>2. Explained(d, f)
      BY <2>1 DEF Explained
    <3> QED
      BY <1>1, <2>1, <2>3, <3>1, <3>2, LookupKeeps
  <2> QED
    BY <1>3, <2>2, <2>3 DEF ListChange
<1>4. CASE ListDeletion(d, f)
  <2>1. /\ UNCHANGED <<drive, files, cursor, base, op>> /\ ~IsLive(f) /\ cursor[d]
        /\ feed' = [feed EXCEPT ![d] = feed[d] \ {f}]
    BY <1>1, <1>4 DEF ListDeletion, IsDeleted, IsLive
  <2>2. PICK c \in {0, cache[d], Canonical} : cache' = [cache EXCEPT ![d] = c]
    <3>1. cache = [cache EXCEPT ![d] = cache[d]]
      BY <1>1
    <3> QED
      BY <1>4, <3>1 DEF ListDeletion, Cached
  <2>3. c \in Files \cup {0} /\ Explained(d, c)
    BY <1>1, <2>1, CanonicalIsFirst, CanonicalExplained DEF ObjectsIInv
  <2>4. IsLive(c) => \/ c \in feed[d] \ {f}
                     \/ \A g \in Files : IsLive(g) /\ g < c => g \in feed[d] \ {f}
    BY <2>1, <2>3 DEF Explained
  <2>5. feed[d] \ {f} \subseteq Files /\ op' \in [Adapters -> Operations]
    BY <1>1, <2>1
  <2> QED
    BY <1>1, <2>1, <2>2, <2>3, <2>4, <2>5, ListingKeeps
<1> QED
  BY <1>3, <1>4

LEMMA ObjectsNextKeeps == ObjectsIInv /\ [ObjectsNext]_objVars => ObjectsIInv'
<1> SUFFICES ASSUME ObjectsIInv, [ObjectsNext]_objVars PROVE ObjectsIInv'
  OBVIOUS
<1>1. CASE ObjectsNext
  <2>1. ASSUME NEW d \in Adapters, NEW outcome,
               \/ Post(d, outcome) \/ RequireCanonicalWrite(d, outcome) \/ Patch(d, outcome)
               \/ EnumerateObjects(d, outcome)
               \/ \E f \in Files : ListChange(d, f, outcome)
        PROVE  ObjectsIInv'
    BY <2>1, CreateKeeps, UpdateKeeps, CursorKeeps, ListKeeps
  <2>2. ASSUME NEW d \in Adapters,
               \/ StartCreate(d) \/ StartUpdate(d)
               \/ ActivateWorkspace(d) \/ InvalidateCursor(d)
               \/ \E f \in Files : ListDeletion(d, f)
        PROVE  ObjectsIInv'
    BY <2>2, CreateKeeps, UpdateKeeps, CursorKeeps, ListKeeps
  <2>3. ASSUME NEW d \in Adapters, StartEnumeration(d) PROVE ObjectsIInv'
    BY <2>3, EnumerationStarts
  <2>4. ASSUME NEW f \in Files, NEW how \in {"trashed", "gone"}, Trash(f, how) PROVE ObjectsIInv'
    BY <2>4, TrashKeeps
  <2> QED
    BY <1>1, <2>1, <2>2, <2>3, <2>4 DEF ObjectsNext
<1>2. CASE UNCHANGED objVars
  BY <1>2 DEF objVars, ObjectsIInv, ObjectsTypeOK, Explained, IsLive
<1> QED
  BY <1>1, <1>2

(* What a device has cached is there, or the change is still to be listed, and  *)
(* an enumeration begins with nothing.                                          *)
CacheHeard ==
  \A d \in Adapters :
    /\ op[d].step = "enumerate" => cache[d] = 0
    /\ cursor[d] => cache[d] = 0 \/ IsLive(cache[d]) \/ cache[d] \in feed[d]

(* A step of one device, which deletes nothing.                                 *)
LEMMA DeviceHears ==
  ASSUME CacheHeard, NEW d \in Adapters,
         \A e \in Adapters \ {d} : /\ op'[e] = op[e] /\ cache'[e] = cache[e]
                                  /\ cursor'[e] = cursor[e] /\ feed[e] \subseteq feed'[e],
         \A f \in Files : files[f] = "live" => files'[f] = "live",
         op'[d].step = "enumerate" => cache'[d] = 0,
         cursor'[d] => cache'[d] = 0 \/ IsLive(cache[d])' \/ cache'[d] \in feed'[d]
  PROVE  CacheHeard'
BY DEF CacheHeard, IsLive

LEMMA FoundIsLive ==
  ASSUME NEW d \in Adapters
  PROVE  FindObject(d) = 0 \/ IsLive(FindObject(d))
BY CanonicalIsFirst DEF FindObject

LEMMA CacheHeardKeeps ==
  ASSUME ObjectsIInv, CacheHeard, [ObjectsNext]_objVars
  PROVE  CacheHeard'
<1>1. /\ cache \in [Adapters -> Files \cup {0}] /\ cursor \in [Adapters -> BOOLEAN]
      /\ feed \in [Adapters -> SUBSET Files] /\ op \in [Adapters -> Operations]
      /\ files \in [Files -> {"absent", "live", "trashed", "gone"}]
  BY DEF ObjectsIInv, ObjectsTypeOK, Operations
<1>2. ASSUME NEW d \in Adapters, StartCreate(d) \/ StartUpdate(d) PROVE CacheHeard'
  <2>1. /\ Cached(d, FindObject(d)) /\ op[d] = NoOp /\ UNCHANGED <<files, feed, cursor>>
        /\ \E f : Step(d, "post", f) \/ Step(d, "patch", f) \/ UNCHANGED op
    BY <1>2 DEF StartCreate, StartUpdate, AtProvider
  <2>2. cache'[d] \in {cache[d], FindObject(d)} /\ \A e \in Adapters \ {d} : cache'[e] = cache[e]
    BY <1>1, <2>1 DEF Cached
  <2>3. op'[d].step # "enumerate" /\ \A e \in Adapters \ {d} : op'[e] = op[e]
    BY <1>1, <2>1 DEF Step, NoOp
  <2>4. cursor'[d] => cache'[d] = 0 \/ IsLive(cache[d])' \/ cache'[d] \in feed'[d]
    BY <2>1, <2>2, FoundIsLive DEF CacheHeard, IsLive
  <2> QED
    BY <2>1, <2>2, <2>3, <2>4, DeviceHears
<1>3. ASSUME NEW d \in Adapters, NEW outcome, Post(d, outcome) PROVE CacheHeard'
  <2>1. CASE Done(d) /\ UNCHANGED <<files, feed, cache, cursor>>
    <3>1. op'[d] = NoOp /\ \A e \in Adapters \ {d} : op'[e] = op[e]
      BY <1>1, <2>1 DEF Done
    <3> QED
      BY <2>1, <3>1, DeviceHears DEF CacheHeard, IsLive, NoOp
  <2>2. ASSUME NEW f \in Files,
               /\ files' = [files EXCEPT ![f] = "live"]
               /\ Changed(f)
               /\ \/ Cached(d, f) /\ Step(d, "verify", f)
                  \/ Done(d) /\ UNCHANGED cache
        PROVE  CacheHeard'
    <3>1. op'[d].step # "enumerate" /\ \A e \in Adapters \ {d} : op'[e] = op[e]
      BY <1>1, <2>2 DEF Step, Done, NoOp
    <3>2. cache'[d] \in {cache[d], f} /\ \A e \in Adapters \ {d} : cache'[e] = cache[e]
      BY <1>1, <2>2 DEF Cached
    <3>3. /\ files'[f] = "live" /\ \A g \in Files : files[g] = "live" => files'[g] = "live"
          /\ \A e \in Adapters : feed[e] \subseteq feed'[e]
      BY <1>1, <2>2 DEF Changed
    <3>4. cursor' = cursor
      BY <1>3 DEF Post
    <3>5. cursor'[d] => cache'[d] = 0 \/ IsLive(cache[d])' \/ cache'[d] \in feed'[d]
      BY <3>2, <3>3, <3>4 DEF CacheHeard, IsLive
    <3> QED
      BY <3>1, <3>2, <3>3, <3>4, <3>5, DeviceHears
  <2> QED
    BY <1>3, <2>1, <2>2 DEF Post
<1>4. ASSUME NEW d \in Adapters, NEW outcome, RequireCanonicalWrite(d, outcome) PROVE CacheHeard'
  <2>1. /\ Cached(d, Canonical) \/ UNCHANGED cache
        /\ Done(d) /\ UNCHANGED <<files, feed, cursor>>
    BY <1>4 DEF RequireCanonicalWrite, AtProvider
  <2>2. cache'[d] \in {cache[d], Canonical} /\ \A e \in Adapters \ {d} : cache'[e] = cache[e]
    BY <1>1, <2>1 DEF Cached
  <2>3. op'[d] = NoOp /\ \A e \in Adapters \ {d} : op'[e] = op[e]
    BY <1>1, <2>1 DEF Done
  <2>4. cursor'[d] => cache'[d] = 0 \/ IsLive(cache[d])' \/ cache'[d] \in feed'[d]
    BY <2>1, <2>2, CanonicalIsFirst DEF CacheHeard, IsLive
  <2> QED
    BY <2>1, <2>2, <2>3, <2>4, DeviceHears DEF NoOp
<1>5. ASSUME NEW d \in Adapters, NEW outcome, Patch(d, outcome) PROVE CacheHeard'
  <2>1. /\ Done(d) /\ UNCHANGED <<files, cursor, cache>>
        /\ UNCHANGED feed \/ Changed(op[d].file)
    BY <1>5 DEF Patch
  <2>2. op'[d] = NoOp /\ \A e \in Adapters \ {d} : op'[e] = op[e]
    BY <1>1, <2>1 DEF Done
  <2>3. \A e \in Adapters : feed[e] \subseteq feed'[e]
    BY <1>1, <2>1 DEF Changed
  <2> QED
    BY <2>1, <2>2, <2>3, DeviceHears DEF CacheHeard, IsLive, NoOp
<1>6. ASSUME NEW d \in Adapters, ActivateWorkspace(d) \/ StartEnumeration(d) PROVE CacheHeard'
  <2>1. /\ cache' = [cache EXCEPT ![d] = 0] /\ UNCHANGED <<files, cursor>>
        /\ feed' = feed \/ feed' = [feed EXCEPT ![d] = {}]
        /\ UNCHANGED op \/ Step(d, "enumerate", 0)
    BY <1>6 DEF ActivateWorkspace, StartEnumeration, AtProvider
  <2>2. cache'[d] = 0 /\ \A e \in Adapters \ {d} : cache'[e] = cache[e]
    BY <1>1, <2>1
  <2>3. \A e \in Adapters \ {d} : op'[e] = op[e] /\ feed'[e] = feed[e]
    BY <1>1, <2>1 DEF Step
  <2> QED
    BY <2>1, <2>2, <2>3, DeviceHears
<1>7. ASSUME NEW d \in Adapters, NEW outcome, EnumerateObjects(d, outcome) PROVE CacheHeard'
  <2>1. /\ op[d].step = "enumerate" /\ Done(d) /\ UNCHANGED <<files, feed>>
        /\ \/ Cached(d, Canonical) /\ cursor' = [cursor EXCEPT ![d] = TRUE]
           \/ UNCHANGED <<cache, cursor>>
    BY <1>7 DEF EnumerateObjects, AtProvider
  <2>2. /\ cache'[d] \in {cache[d], Canonical}
        /\ \A e \in Adapters \ {d} : cache'[e] = cache[e] /\ cursor'[e] = cursor[e]
    BY <1>1, <2>1 DEF Cached
  <2>3. op'[d] = NoOp /\ \A e \in Adapters \ {d} : op'[e] = op[e]
    BY <1>1, <2>1 DEF Done
  <2>4. cache'[d] = 0 \/ IsLive(cache[d])'
    BY <2>1, <2>2, CanonicalIsFirst DEF CacheHeard, IsLive
  <2> QED
    BY <2>1, <2>2, <2>3, <2>4, DeviceHears DEF NoOp
<1>8. ASSUME NEW d \in Adapters, InvalidateCursor(d) PROVE CacheHeard'
  <2>1. /\ cursor' = [cursor EXCEPT ![d] = FALSE] /\ UNCHANGED <<files, feed, cache, op>>
    BY <1>8 DEF InvalidateCursor, AtProvider
  <2>2. ~cursor'[d] /\ \A e \in Adapters \ {d} : cursor'[e] = cursor[e]
    BY <1>1, <2>1
  <2> QED
    BY <2>1, <2>2, DeviceHears DEF CacheHeard
<1>9. ASSUME NEW d \in Adapters, NEW f \in Files, NEW outcome,
             ListChange(d, f, outcome) \/ ListDeletion(d, f)
      PROVE  CacheHeard'
  <2>1. /\ op[d] = NoOp /\ UNCHANGED <<files, cursor, op>>
        /\ feed' = feed \/ feed' = [feed EXCEPT ![d] = feed[d] \ {f}]
    BY <1>1, <1>9 DEF ListChange, ListDeletion
  <2>2. \A e \in Adapters \ {d} : feed'[e] = feed[e]
    BY <1>1, <2>1
  <2>3. /\ \A e \in Adapters \ {d} : cache'[e] = cache[e]
        /\ \/ cache'[d] = 0 \/ IsLive(cache'[d])
           \/ cache'[d] = cache[d] /\ cache[d] # f
    <3>1. CASE ListChange(d, f, outcome)
      <4>1. IsLive(f) /\ Canonical # 0 /\ (Cached(d, Canonical) \/ Cached(d, f))
        BY <3>1, CanonicalIsFirst DEF ListChange
      <4>2. f # 0
        BY ObjectsAssumption DEF Files
      <4> QED
        BY <1>1, <4>1, <4>2, CanonicalIsFirst DEF Cached
    <3>2. CASE ListDeletion(d, f)
      <4>1. \/ cache[d] # f /\ UNCHANGED cache
            \/ cache' = [cache EXCEPT ![d] = 0]
            \/ Cached(d, Canonical) /\ (Canonical # 0 \/ cache[d] # f)
        BY <3>2 DEF ListDeletion
      <4> QED
        BY <1>1, <4>1, CanonicalIsFirst DEF Cached
    <3> QED
      BY <1>9, <3>1, <3>2
  <2>4. cursor'[d] => cache'[d] = 0 \/ IsLive(cache[d])' \/ cache'[d] \in feed'[d]
    BY <1>1, <2>1, <2>3 DEF CacheHeard, IsLive
  <2> QED
    BY <2>1, <2>2, <2>3, <2>4, DeviceHears DEF NoOp
<1>10. ASSUME NEW f \in Files, NEW how, Trash(f, how) PROVE CacheHeard'
  <2>1. /\ files' = [files EXCEPT ![f] = how] /\ Changed(f) /\ UNCHANGED <<cursor, cache, op>>
    BY <1>10 DEF Trash
  <2>2. /\ \A e \in Adapters : feed'[e] = feed[e] \cup {f}
        /\ \A g \in Files \ {f} : files'[g] = files[g]
    BY <1>1, <2>1 DEF Changed
  <2> QED
    BY <2>1, <2>2 DEF CacheHeard, IsLive
<1>11. CASE UNCHANGED objVars
  BY <1>11 DEF objVars, CacheHeard, IsLive
<1> QED
  BY <1>2, <1>3, <1>4, <1>5, <1>6, <1>7, <1>8, <1>9, <1>10, <1>11 DEF ObjectsNext

(* An up-to-date device has nothing left in its feed to explain another file,   *)
(* or one that is gone.                                                         *)
LEMMA ObjectsImplied == ObjectsIInv /\ CacheHeard => ObjectsTypeOK /\ DevicesUseOneFile
<1> SUFFICES ASSUME ObjectsIInv, CacheHeard, NEW d \in Adapters, cursor[d], feed[d] = {}
             PROVE  ~LookupFails(d) /\ FindObject(d) = Canonical
  BY DEF ObjectsIInv, DevicesUseOneFile
<1>1. ASSUME IsLive(cache[d]) PROVE cache[d] = Canonical
  <2>1. Canonical \in Files /\ IsLive(Canonical) /\ Canonical <= cache[d]
    BY <1>1, CanonicalIsFirst DEF IsLive
  <2>2. ~(Canonical < cache[d])
    BY <1>1, <2>1 DEF ObjectsIInv, Explained
  <2> QED
    BY <1>1, <2>1, <2>2, ObjectsAssumption DEF IsLive, Files
<1>2. ~LookupFails(d)
  BY DEF CacheHeard, LookupFails, IsLive
<1> QED
  BY <1>1, <1>2 DEF FindObject

LEMMA CacheHeardInitially == ObjectsInit => CacheHeard
BY DEF ObjectsInit, CacheHeard, NoOp

(* The invariant holds in every state of every behaviour.                       *)
THEOREM ObjectsInvariance == ObjectsSpec => [](ObjectsIInv /\ CacheHeard)
  BY ObjectsInitEstablishes, ObjectsNextKeeps, CacheHeardInitially, CacheHeardKeeps, PTL DEF ObjectsSpec

(* Devices that have listed every change find the same file of a key, whatever  *)
(* was created twice, lost, not checked or deleted on the way.                  *)
THEOREM OneFileOfAKey == ObjectsSpec => []DevicesUseOneFile
  BY ObjectsInvariance, ObjectsImplied, PTL

-----------------------------------------------------------------------------
(* Assets: an image that is known somewhere is at the provider, or its upload   *)
(* is journaled, or the device knows it and has still to hear that it is gone.  *)
(* It is in none of these cases only when it was deleted before the device had  *)
(* seen the version it last wrote (slipped). An image sent by the pass under    *)
(* way is at the provider, though its claim is about to be completed.           *)

Uploading == work.pending \cup work.left \cup pass.claims

Safe(a) ==
  \/ Exists(a) \/ a \in slipped \/ a \in Uploading
  \/ mapped[a] # "none" /\ (a \in unheard \/ ~cursorValid)

Unknown(a) ==
  rows[a] = "none" /\ note.image # a /\ stored.image # a /\ pass.document.image # a

SentArrived ==
  \A a \in Images \cap pass.sent : mapped[a] # "current" /\ (Exists(a) \/ a \in slipped)

AssetsIInv ==
  /\ AssetsTypeOK
  /\ \A a \in Images : Unknown(a) \/ Safe(a)
  /\ SentArrived
  /\ pass.step = "idle" => pass = NoPass

WorkRow == [pending : SUBSET Keys, left : SUBSET Keys, latest : 0..MaxDocuments]
PassRow == [step : {"idle", "assets", "document", "verify"}, claims : SUBSET Keys,
            sent : SUBSET Keys, document : NoteDocuments]
FileStates == {"none", "good", "damaged"}
RowStates == {"none", "available", "missing", "corrupt"}
MapStates == {"none", "stale", "current"}

(* The types of the state, for the steps.                                       *)
LEMMA AssetTypes ==
  ASSUME AssetsIInv
  PROVE  /\ disk \in [Images -> FileStates] /\ rows \in [Images -> RowStates]
         /\ note \in NoteDocuments /\ noteBase \in NoteDocuments /\ stored \in NoteDocuments
         /\ work \in WorkRow /\ pass \in PassRow
         /\ folder \in [Keys -> FileStates] /\ mapped \in [Keys -> MapStates]
         /\ unheard \subseteq Keys /\ cursorValid \in BOOLEAN /\ repairs \subseteq Keys \X Damages
         /\ written \in 0..MaxDocuments /\ faults \in 0..MaxFaults /\ slipped \subseteq Images
         /\ Images \subseteq Keys /\ Note \in Keys /\ Note \notin Images
         /\ NoPass \in PassRow /\ NoPass.document.image \notin Images /\ NoPass.step = "idle"
         /\ NoPass.claims = {} /\ NoPass.sent = {}
         /\ MaxDocuments \in Nat /\ MaxFaults \in Nat
<1>1. /\ Images \subseteq Keys /\ Note \in Keys /\ Note \notin Images
      /\ MaxDocuments \in Nat /\ MaxFaults \in Nat
  BY AssetsAssumption DEF Keys, Note
<1>2. NoNote \in NoteDocuments /\ NoNote.image \notin Images
  BY AssetsAssumption DEF NoNote, NoteDocuments, Shown
<1>3. /\ NoPass \in PassRow /\ NoPass.document = NoNote /\ NoPass.step = "idle"
      /\ NoPass.claims = {} /\ NoPass.sent = {}
  BY <1>2 DEF NoPass, PassRow
<1> QED
  BY <1>1, <1>2, <1>3 DEF AssetsIInv, AssetsTypeOK, WorkRow, PassRow, FileStates, RowStates, MapStates

(* Documents: a new version of the note.                                        *)
LEMMA NewDocument ==
  ASSUME written \in 0..MaxDocuments, written < MaxDocuments, NEW image \in Shown
  PROVE  /\ [image |-> image, id |-> written + 1] \in NoteDocuments
         /\ written + 1 \in 0..MaxDocuments
BY AssetsAssumption DEF NoteDocuments

(* An image stays where it was found when nothing about it is forgotten.        *)
LEMMA SafeStays ==
  ASSUME NEW a \in Images, Unknown(a) \/ Safe(a),
         Exists(a) => Exists(a)', a \in slipped => a \in slipped' \/ Exists(a)',
         a \in Uploading => a \in Uploading' \/ Exists(a)' \/ a \in slipped',
         mapped[a] # "none" => mapped'[a] # "none" \/ Exists(a)' \/ a \in Uploading',
         a \in unheard => a \in unheard', cursorValid' => cursorValid,
         Unknown(a) => Unknown(a)' \/ Safe(a)'
  PROVE  Unknown(a)' \/ Safe(a)'
BY DEF Safe

-----------------------------------------------------------------------------
(* What a pull makes of the note, the journal and the mappings.                 *)
LEMMA PulledNote ==
  ASSUME AssetsIInv, NEW pulled \in PulledNotes, Note \in ToRepair => written < MaxDocuments
  PROVE  pulled \in NoteDocuments /\ pulled.image \in {note.image, stored.image}
<1>1. note \in NoteDocuments /\ stored \in NoteDocuments /\ written \in 0..MaxDocuments
  BY AssetTypes
<1>2. RepairedNote(ToRepair) \in NoteDocuments /\ RepairedNote(ToRepair).image = note.image
  <2>1. CASE Note \in ToRepair
    BY <1>1, <2>1, AssetsAssumption DEF RepairedNote, NoteDocuments
  <2>2. CASE Note \notin ToRepair
    BY <1>1, <2>2 DEF RepairedNote
  <2> QED
    BY <2>1, <2>2
<1>3. pulled \in {stored, note, RepairedNote(ToRepair)}
  BY DEF PulledNotes
<1> QED
  BY <1>1, <1>2, <1>3

LEMMA PulledJournal ==
  ASSUME AssetsIInv, NEW pulled \in NoteDocuments, NEW acknowledge \in BOOLEAN
  PROVE  /\ PulledWork(pulled, acknowledge) \in WorkRow
         /\ \A a \in Images :
              /\ a \in PulledWork(pulled, acknowledge).pending <=> a \in work.pending \cup ToRepair
              /\ a \in PulledWork(pulled, acknowledge).left <=> a \in work.left
<1> DEFINE journaled == IF Decision = "merge" /\ pulled # stored THEN {Note} ELSE {}
           settled == IF /\ acknowledge /\ Decision \in {"own", "merge"} /\ journaled = {}
                         /\ work.latest = stored.id
                      THEN {Note} ELSE {}
           latest == IF Note \in ToRepair \cup journaled THEN pulled.id ELSE work.latest
           w == PulledWork(pulled, acknowledge)
<1>1. journaled \subseteq {Note} /\ settled \subseteq {Note}
  OBVIOUS
<1>2. w = [pending |-> (work.pending \cup ToRepair \cup journaled) \ settled,
           left |-> work.left \ settled, latest |-> latest]
  BY DEF PulledWork
<1> HIDE DEF journaled, settled, w
<1>3. work \in WorkRow /\ Note \in Keys /\ Note \notin Images
  BY AssetTypes
<1>4. ToRepair \subseteq Keys
  BY AssetTypes DEF ToRepair, Broken, Missing, Damaged, Listed
<1>5. latest \in 0..MaxDocuments
  BY <1>3 DEF WorkRow, NoteDocuments
<1> HIDE DEF latest
<1>6. /\ w.pending = (work.pending \cup ToRepair \cup journaled) \ settled
      /\ w.left = work.left \ settled
  BY <1>2
<1>7. w \in WorkRow
  BY <1>1, <1>2, <1>3, <1>4, <1>5 DEF WorkRow
<1>8. \A a \in Images : a \notin journaled /\ a \notin settled
  BY <1>1, <1>3
<1> QED
  BY <1>6, <1>7, <1>8 DEF w

LEMMA RepairedMap ==
  ASSUME AssetsIInv, NEW ks
  PROVE  /\ RepairedKnown(ks) \in [Keys -> MapStates]
         /\ \A a \in Images : mapped[a] # "none" /\ RepairedKnown(ks)[a] = "none" => a \in ks \cap ToRepair
<1>1. mapped \in [Keys -> MapStates] /\ Images \subseteq Keys
  BY AssetTypes
<1> QED
  BY <1>1 DEF RepairedKnown, MapStates

(* A repair, and the images downloaded.                                         *)
LEMMA RepairTypes ==
  ASSUME AssetsIInv, NEW ks \in SUBSET Broken, NEW downloads \in SUBSET Images, Repair(ks, downloads)
  PROVE  /\ written' \in 0..MaxDocuments /\ repairs' \subseteq Keys \X Damages
         /\ disk' \in [Images -> FileStates] /\ rows' \in [Images -> RowStates]
         /\ \A a \in Images : rows[a] = "none" /\ rows'[a] # "none" => a \in downloads
         /\ Note \in ks \cap ToRepair => written < MaxDocuments /\ written' = written + 1
<1> DEFINE noted == ks \cap (ToRepair \cup Hopeless)
<1>1. /\ written \in 0..MaxDocuments /\ repairs \subseteq Keys \X Damages /\ MaxDocuments \in Nat
      /\ disk \in [Images -> FileStates] /\ rows \in [Images -> RowStates]
  BY AssetTypes
<1>2. noted \subseteq Keys
  BY AssetTypes DEF Broken, Missing, Damaged, Listed
<1>3. \A k \in noted : <<k, Condition(k)>> \in Keys \X Damages
  BY <1>2 DEF Condition, Damages
<1>4. repairs' = repairs \cup {<<k, Condition(k)>> : k \in noted}
  BY DEF Repair
<1>5. repairs' \subseteq Keys \X Damages
  BY <1>1, <1>3, <1>4
<1>6. /\ written' = IF Note \in ks \cap ToRepair THEN written + 1 ELSE written
      /\ disk' = [a \in Images |-> IF a \in downloads THEN "good" ELSE disk[a]]
      /\ rows' = [a \in Images |-> IF a \in downloads THEN "available" ELSE rows[a]]
      /\ Note \in ks \cap ToRepair => written < MaxDocuments
  BY DEF Repair
<1> QED
  BY <1>1, <1>5, <1>6 DEF FileStates, RowStates

(* A pull that comes to its end forgets no image: one that is gone and not under*)
(* repair is journaled, or the pull would not have come to its end.             *)
LEMMA PullKeepsSafe ==
  ASSUME AssetsIInv, NEW pulled, Pulls(pulled), UNCHANGED <<folder, slipped>>,
         NEW a \in Images, Safe(a),
         a \in Uploading \cup ToRepair => a \in Uploading' \/ Exists(a) \/ a \in slipped
  PROVE  Safe(a)'
<1>1. Exists(a)' = Exists(a) /\ slipped' = slipped
  BY DEF Exists
<1>2. CASE Exists(a) \/ a \in slipped \/ a \in Uploading
  BY <1>1, <1>2 DEF Safe
<1>3. CASE ~Exists(a) /\ a \notin Uploading /\ mapped[a] # "none" /\ (a \in unheard \/ ~cursorValid)
  <2>1. a \in Missing
    BY <1>3, AssetTypes DEF Missing
  <2>2. a \notin Hopeless
    BY DEF Pulls
  <2>3. ~UnderRepair(a)
    BY <1>3 DEF UnderRepair, Uploading
  <2>4. a \in ToRepair
    BY <2>1, <2>2, <2>3 DEF Hopeless, ToRepair, Broken
  <2> QED
    BY <1>1, <2>4 DEF Safe
<1> QED
  BY <1>2, <1>3 DEF Safe

-----------------------------------------------------------------------------
(* The steps                                                                    *)
LEMMA AssetsInitHolds == AssetsInit => AssetsIInv
<1> SUFFICES ASSUME AssetsInit PROVE AssetsIInv
  OBVIOUS
<1>1. /\ disk = [a \in Images |-> "none"] /\ rows = [a \in Images |-> "none"]
      /\ folder = [k \in Keys |-> "none"] /\ mapped = [k \in Keys |-> "none"]
      /\ pass = NoPass /\ stored = NoNote /\ noteBase = NoNote /\ unheard = {} /\ cursorValid = FALSE
      /\ repairs = {} /\ faults = 0 /\ slipped = {}
  BY DEF AssetsInit
<1>2. \/ note = NoNote /\ work = [pending |-> {}, left |-> {}, latest |-> 0] /\ written = 0
      \/ /\ note = [image |-> "path", id |-> 1]
         /\ work = [pending |-> {Note}, left |-> {}, latest |-> 1] /\ written = 1
  BY DEF AssetsInit
<1>3. /\ NoNote \in NoteDocuments /\ [image |-> "path", id |-> 1] \in NoteDocuments
      /\ 0 \in 0..MaxDocuments /\ 1 \in 0..MaxDocuments /\ 0 \in 0..MaxFaults
  BY AssetsAssumption DEF NoNote, NoteDocuments, Shown
<1>4. note \in NoteDocuments /\ work \in WorkRow /\ written \in 0..MaxDocuments
  BY <1>2, <1>3 DEF WorkRow, Keys
<1>5. NoPass \in PassRow
  BY <1>3 DEF NoPass, PassRow
<1>6. AssetsTypeOK
  BY <1>1, <1>3, <1>4, <1>5 DEF AssetsTypeOK, WorkRow, PassRow
<1>7. \A a \in Images : note.image # a /\ NoNote.image # a /\ NoPass.document = NoNote
  BY <1>2, AssetsAssumption DEF NoNote, NoPass
<1> QED
  BY <1>1, <1>6, <1>7 DEF AssetsIInv, SentArrived, Unknown, NoPass

(* A change of the device's own data, in the journal when it is of an image.    *)
LEMMA DeviceKeeps ==
  ASSUME AssetsIInv, UNCHANGED passVars,
         disk' \in [Images -> FileStates], rows' \in [Images -> RowStates],
         note' \in NoteDocuments, work' \in WorkRow,
         written' \in 0..MaxDocuments, faults' \in 0..MaxFaults,
         work.pending \subseteq work'.pending, work.left \subseteq work'.left,
         \A a \in Images : \/ a \in work'.pending
                           \/ Unknown(a) => rows'[a] = "none" /\ note'.image # a
  PROVE  AssetsIInv'
<1>1. AssetsTypeOK'
  BY AssetTypes DEF passVars, AssetsTypeOK, WorkRow, PassRow, FileStates, RowStates, MapStates
<1>2. ASSUME NEW a \in Images PROVE Unknown(a)' \/ Safe(a)'
  BY DEF AssetsIInv, Unknown, Safe, Uploading, Exists, passVars
<1>3. SentArrived' /\ (pass.step = "idle" => pass = NoPass)'
  BY DEF AssetsIInv, SentArrived, Exists, passVars
<1> QED
  BY <1>1, <1>2, <1>3 DEF AssetsIInv

LEMMA NoteWritten ==
  ASSUME AssetsIInv, NEW image \in Shown, WriteNote(image, {}), UNCHANGED <<disk, rows, faults, passVars>>,
         image \in Images => image = note.image \/ rows[image] # "none"
  PROVE  AssetsIInv'
<1>1. /\ note' \in NoteDocuments /\ written' \in 0..MaxDocuments /\ note'.image = image
  BY AssetTypes, NewDocument DEF WriteNote
<1>2. /\ work' = [work EXCEPT !.pending = @ \cup {Note}, !.latest = written']
  BY DEF WriteNote, Enqueued
<1>3. work' \in WorkRow /\ work.pending \subseteq work'.pending /\ work.left = work'.left
  BY <1>1, <1>2, AssetTypes DEF WorkRow
<1> QED
  BY <1>1, <1>3, AssetTypes, DeviceKeeps DEF Unknown

LEMMA OwnStepsKeep ==
  ASSUME AssetsIInv, NEW a \in Images, StoreImage(a) \/ ShowStored(a) \/ ReadAsset(a) \/ DamageFile(a)
  PROVE  AssetsIInv'
<1>1. CASE StoreImage(a)
  <2>1. /\ disk' = [disk EXCEPT ![a] = "good"] /\ rows' = [rows EXCEPT ![a] = "available"]
        /\ work' = [work EXCEPT !.pending = @ \cup {a}]
        /\ UNCHANGED <<note, written, faults, passVars>>
    BY <1>1 DEF StoreImage, Stores, Enqueued
  <2>2. /\ disk' \in [Images -> FileStates] /\ rows' \in [Images -> RowStates]
        /\ \A b \in Images : b # a => rows'[b] = rows[b]
    BY <2>1, AssetTypes DEF FileStates, RowStates
  <2>3. work' \in WorkRow /\ work'.pending = work.pending \cup {a} /\ work'.left = work.left
    BY <2>1, AssetTypes DEF WorkRow
  <2> QED
    BY <2>1, <2>2, <2>3, AssetTypes, DeviceKeeps DEF Unknown
<1>2. CASE ShowStored(a)
  BY <1>2, NoteWritten DEF ShowStored, Shown
<1>3. CASE ReadAsset(a)
  <2>1. rows' \in [Images -> RowStates] /\ \A b \in Images : rows[b] = "none" => rows'[b] = "none"
    BY <1>3, AssetTypes DEF ReadAsset, Verified, RowStates
  <2> QED
    BY <1>3, <2>1, AssetTypes, DeviceKeeps DEF ReadAsset, Unknown
<1>4. CASE DamageFile(a)
  <2>1. disk' \in [Images -> FileStates] /\ faults' \in 0..MaxFaults
    BY <1>4, AssetTypes DEF DamageFile, FileStates
  <2> QED
    BY <1>4, <2>1, AssetTypes, DeviceKeeps DEF DamageFile, Unknown
<1> QED
  BY <1>1, <1>2, <1>3, <1>4

LEMMA EditNoteKeeps ==
  ASSUME AssetsIInv, NEW image \in Shown, EditNote(image)
  PROVE  AssetsIInv'
BY NoteWritten, AssetsAssumption DEF EditNote

LEMMA NextSteps ==
  ASSUME NEW p \in PassRow, NEW n \in NoteDocuments, p.step # "idle"
  PROVE  /\ NextStep(p, n) \in PassRow /\ NextStep(p, n).step # "idle"
         /\ NextStep(p, n).claims = p.claims /\ NextStep(p, n).sent = p.sent
         /\ NextStep(p, n).document \in {p.document, n}
<1> DEFINE step == IF Note \in p.claims /\ n # NoNote THEN "document" ELSE "verify"
           q == [p EXCEPT !.step = step, !.document = n]
<1>1. step \in {"document", "verify"}
  OBVIOUS
<1> HIDE DEF step
<1>2. /\ q \in PassRow /\ q.step # "idle" /\ q.claims = p.claims /\ q.sent = p.sent
      /\ q.document = n
  BY <1>1 DEF PassRow
<1>3. NextStep(p, n) \in {p, q}
  BY DEF NextStep, step
<1> HIDE DEF q
<1> QED
  BY <1>2, <1>3

(* A pull that comes to its end, and the claims that come or go with it.        *)
LEMMA PulledKeeps ==
  ASSUME AssetsIInv, NEW pulled \in PulledNotes, Pulls(pulled), UNCHANGED world,
         work' \in WorkRow, pass' \in PassRow, pass'.sent = {},
         pass'.step = "idle" => pass' = NoPass,
         pass'.document.image \in {note'.image, NoNote.image},
         \A a \in Images : a \in Uploading \cup ToRepair => a \in Uploading' \/ Exists(a) \/ a \in slipped
  PROVE  AssetsIInv'
<1>1. /\ Repair(Broken, Images \cap Whole) /\ note' = pulled
      /\ mapped' = [k \in Keys |-> IF k \in Whole THEN "current" ELSE RepairedKnown(Broken)[k]]
      /\ noteBase' = (IF Note \in Whole THEN stored ELSE noteBase)
      /\ unheard' = {} /\ cursorValid' = TRUE
  BY DEF Pulls
<1>2. /\ written' \in 0..MaxDocuments /\ repairs' \subseteq Keys \X Damages
      /\ disk' \in [Images -> FileStates] /\ rows' \in [Images -> RowStates]
      /\ \A a \in Images : rows[a] = "none" /\ rows'[a] # "none" => a \in Whole
      /\ Note \in ToRepair => written < MaxDocuments
  <2>1. Broken \in SUBSET Broken /\ Images \cap Whole \in SUBSET Images
    OBVIOUS
  <2>2. Broken \cap ToRepair = ToRepair
    BY DEF ToRepair
  <2> QED
    BY <1>1, <2>1, <2>2, RepairTypes
<1>3. note' \in NoteDocuments /\ note'.image \in {note.image, stored.image}
  BY <1>1, <1>2, PulledNote
<1>4. mapped' \in [Keys -> MapStates]
  BY <1>1, RepairedMap DEF MapStates
<1>5. AssetsTypeOK'
  BY <1>1, <1>2, <1>3, <1>4, AssetTypes DEF world, AssetsTypeOK, WorkRow, PassRow, FileStates, RowStates, MapStates
<1>6. ASSUME NEW a \in Images PROVE Unknown(a)' \/ Safe(a)'
  <2>1. CASE Safe(a)
    BY <2>1, PullKeepsSafe DEF world
  <2>2. CASE Unknown(a) /\ a \in Whole
    BY <2>2 DEF Whole, Safe, Exists, world
  <2>3. CASE Unknown(a) /\ a \notin Whole
    <3>1. rows'[a] = "none" /\ note'.image # a /\ stored'.image # a
      BY <1>2, <1>3, <2>3 DEF Unknown, world
    <3>2. pass'.document.image # a
      BY <3>1, AssetTypes, AssetsAssumption DEF NoNote
    <3> QED
      BY <3>1, <3>2 DEF Unknown
  <2> QED
    BY <2>1, <2>2, <2>3 DEF AssetsIInv
<1>7. SentArrived'
  BY DEF SentArrived
<1> QED
  BY <1>5, <1>6, <1>7 DEF AssetsIInv

LEMMA BeginPassKeeps ==
  ASSUME AssetsIInv, BeginPass
  PROVE  AssetsIInv'
<1>1. pass = NoPass /\ UNCHANGED world
  BY DEF BeginPass, AssetsIInv
<1>2. PICK pulled \in PulledNotes :
        /\ Pulls(pulled)
        /\ LET after == PulledWork(pulled, TRUE)
               recovered == IF mapped'[Note] # "none" /\ noteBase'.id = after.latest
                            THEN {Note} ELSE {}
           IN \E claims \in SUBSET after.pending :
                /\ work' = [after EXCEPT !.pending = @ \ claims]
                /\ pass' = NextStep([NoPass EXCEPT !.step = "assets",
                                                   !.claims = claims \ recovered], note')
  BY Zenon DEF BeginPass
<1> DEFINE after == PulledWork(pulled, TRUE)
           recovered == IF mapped'[Note] # "none" /\ noteBase'.id = after.latest THEN {Note} ELSE {}
<1>3. PICK claims \in SUBSET after.pending :
        /\ work' = [after EXCEPT !.pending = @ \ claims]
        /\ pass' = NextStep([NoPass EXCEPT !.step = "assets", !.claims = claims \ recovered], note')
  BY <1>2, Zenon
<1>11. recovered \subseteq {Note}
  OBVIOUS
<1> HIDE DEF recovered
<1>4. note' = pulled /\ (Note \in ToRepair => written < MaxDocuments)
  BY <1>2 DEF Pulls, Repair, ToRepair
<1>5. pulled \in NoteDocuments
  BY <1>4, PulledNote
<1>6. after \in WorkRow /\ \A a \in Images : /\ a \in after.pending <=> a \in work.pending \cup ToRepair
                                             /\ a \in after.left <=> a \in work.left
  BY <1>5, PulledJournal
<1> HIDE DEF after
<1>7. work' \in WorkRow /\ work'.pending = after.pending \ claims /\ work'.left = after.left
  BY <1>3, <1>6 DEF WorkRow
<1> DEFINE p == [NoPass EXCEPT !.step = "assets", !.claims = claims \ recovered]
<1>8. /\ p \in PassRow /\ p.step = "assets" /\ p.claims = claims \ recovered /\ p.sent = {}
      /\ p.document = NoNote
  <2>1. claims \ recovered \in SUBSET Keys
    BY <1>6 DEF WorkRow
  <2> QED
    BY <2>1, AssetTypes DEF PassRow, NoPass
<1> HIDE DEF p
<1>9. /\ pass' \in PassRow /\ pass'.step # "idle" /\ pass'.claims = claims \ recovered /\ pass'.sent = {}
      /\ pass'.document \in {NoNote, note'}
  BY <1>3, <1>4, <1>5, <1>8, NextSteps DEF p
<1>10. ASSUME NEW a \in Images, a \in Uploading \cup ToRepair
       PROVE  a \in Uploading'
  <2>1. a \notin recovered /\ NoPass.claims = {}
    BY <1>11, AssetTypes
  <2>2. a \in after.pending \/ a \in after.left
    BY <1>1, <1>6, <1>10, <2>1 DEF Uploading
  <2> QED
    BY <1>7, <1>9, <2>1, <2>2 DEF Uploading
<1> QED
  BY <1>1, <1>2, <1>7, <1>9, <1>10, PulledKeeps

LEMMA VerifyKeeps ==
  ASSUME AssetsIInv, Verify
  PROVE  AssetsIInv'
<1>1. pass' = NoPass /\ UNCHANGED world
  BY DEF Verify
<1>2. PICK pulled \in PulledNotes :
        /\ Pulls(pulled)
        /\ work' = [PulledWork(pulled, FALSE) EXCEPT !.left = @ \cup (pass.claims \ pass.sent)]
  BY DEF Verify
<1> DEFINE after == PulledWork(pulled, FALSE)
<1>4. note' = pulled /\ (Note \in ToRepair => written < MaxDocuments)
  BY <1>2 DEF Pulls, Repair, ToRepair
<1>5. pulled \in NoteDocuments
  BY <1>4, PulledNote
<1>6. after \in WorkRow /\ \A a \in Images : /\ a \in after.pending <=> a \in work.pending \cup ToRepair
                                             /\ a \in after.left <=> a \in work.left
  BY <1>5, PulledJournal
<1>3. work' = [after EXCEPT !.left = @ \cup (pass.claims \ pass.sent)]
  BY <1>2
<1> HIDE DEF after
<1>7. /\ work' \in WorkRow /\ work'.pending = after.pending
      /\ work'.left = after.left \cup (pass.claims \ pass.sent)
  BY <1>3, <1>6, AssetTypes DEF WorkRow, PassRow
<1>8. ASSUME NEW a \in Images, a \in Uploading \cup ToRepair
      PROVE  a \in Uploading' \/ Exists(a) \/ a \in slipped
  <2>1. CASE a \in pass.sent
    BY <2>1 DEF AssetsIInv, SentArrived
  <2>2. CASE a \notin pass.sent
    BY <1>6, <1>7, <1>8, <2>2 DEF Uploading
  <2> QED
    BY <2>1, <2>2
<1>9. pass' \in PassRow /\ pass'.sent = {} /\ pass'.document.image = NoNote.image
  BY <1>1, AssetTypes DEF NoPass
<1> QED
  BY <1>1, <1>2, <1>7, <1>8, <1>9, PulledKeeps

(* A pull that fails has repaired and downloaded some of what it met.           *)
LEMMA PullBreaksKeeps ==
  ASSUME AssetsIInv, PullBreaks
  PROVE  AssetsIInv'
<1>1. PICK ks \in SUBSET Broken, downloads \in SUBSET (Images \cap Whole) : PullFails(ks, downloads)
  BY DEF PullBreaks
<1> DEFINE repaired == ks \cap ToRepair
<1>2. /\ Repair(ks, downloads) /\ note' = RepairedNote(repaired) /\ mapped' = RepairedKnown(ks)
      /\ work' = [work EXCEPT !.pending = @ \cup repaired,
                              !.latest = IF Note \in repaired THEN written' ELSE @,
                              !.left = @ \cup pass.claims]
      /\ pass' = NoPass /\ UNCHANGED <<noteBase, unheard, cursorValid>> /\ UNCHANGED world
  BY <1>1 DEF PullFails, PullBreaks
<1>3. /\ written' \in 0..MaxDocuments /\ repairs' \subseteq Keys \X Damages
      /\ disk' \in [Images -> FileStates] /\ rows' \in [Images -> RowStates]
      /\ \A a \in Images : rows[a] = "none" /\ rows'[a] # "none" => a \in downloads
      /\ Note \in repaired => written < MaxDocuments /\ written' = written + 1
  <2>1. downloads \in SUBSET Images
    OBVIOUS
  <2> QED
    BY <1>2, <2>1, RepairTypes
<1>4. note' \in NoteDocuments /\ note'.image = note.image
  <2>1. CASE Note \in repaired
    BY <1>2, <1>3, <2>1, AssetTypes DEF RepairedNote, NoteDocuments
  <2>2. CASE Note \notin repaired
    BY <1>2, <2>2, AssetTypes DEF RepairedNote
  <2> QED
    BY <2>1, <2>2
<1>5. /\ work' \in WorkRow /\ work'.pending = work.pending \cup repaired
      /\ work'.left = work.left \cup pass.claims
  <2> DEFINE latest == IF Note \in repaired THEN written' ELSE work.latest
  <2>1. repaired \subseteq Keys /\ latest \in 0..MaxDocuments
    BY <1>3, AssetTypes DEF WorkRow, ToRepair, Broken, Missing, Damaged, Listed
  <2>2. work' = [work EXCEPT !.pending = work.pending \cup repaired, !.latest = latest,
                             !.left = work.left \cup pass.claims]
    BY <1>2
  <2> HIDE DEF latest
  <2> QED
    BY <2>1, <2>2, AssetTypes DEF WorkRow, PassRow
<1>6. mapped' \in [Keys -> MapStates]
  BY <1>2, RepairedMap
<1>7. AssetsTypeOK'
  BY <1>2, <1>3, <1>4, <1>5, <1>6, AssetTypes
     DEF world, AssetsTypeOK, WorkRow, PassRow, FileStates, RowStates, MapStates
<1>8. ASSUME NEW a \in Images PROVE Unknown(a)' \/ Safe(a)'
  <2>1. Exists(a)' = Exists(a) /\ stored' = stored /\ slipped' = slipped
    BY <1>2 DEF Exists, world
  <2>2. a \in Uploading => a \in Uploading'
    BY <1>5 DEF Uploading
  <2>3. mapped[a] # "none" => mapped'[a] # "none" \/ a \in Uploading'
    BY <1>2, <1>5, RepairedMap DEF Uploading
  <2>4. Unknown(a) => Unknown(a)' \/ Exists(a)
    BY <1>2, <1>3, <1>4, <2>1, AssetTypes DEF Unknown, Whole
  <2> QED
    BY <1>2, <2>1, <2>2, <2>3, <2>4 DEF AssetsIInv, Safe
<1>9. SentArrived'
  BY <1>2, AssetTypes DEF SentArrived
<1> QED
  BY <1>2, <1>7, <1>8, <1>9 DEF AssetsIInv

LEMMA PushAssetKeeps ==
  ASSUME AssetsIInv, NEW a \in Images, PushAsset(a)
  PROVE  AssetsIInv'
<1>1. /\ pass.step = "assets" /\ a \in pass.claims \ pass.sent
      /\ slipped' = slipped \ {a}
      /\ pass' = NextStep([pass EXCEPT !.sent = @ \cup {a}], note)
      /\ UNCHANGED <<stored, disk, rows, note, written, noteBase, cursorValid, repairs, work, faults>>
  BY DEF PushAsset
<1>2. \/ mapped[a] = "none" /\ Exists(a) /\ UNCHANGED <<folder, mapped, unheard>>
      \/ /\ folder' = [folder EXCEPT ![a] = "good"]
         /\ mapped' = [mapped EXCEPT ![a] = IF @ = "none" THEN @ ELSE "stale"]
         /\ unheard' = unheard \cup {a}
  BY DEF PushAsset
<1> DEFINE p == [pass EXCEPT !.sent = @ \cup {a}]
<1>3. /\ p \in PassRow /\ p.step = "assets" /\ p.claims = pass.claims /\ p.sent = pass.sent \cup {a}
      /\ p.document = pass.document
  BY <1>1, AssetTypes DEF PassRow
<1> HIDE DEF p
<1>4. /\ pass' \in PassRow /\ pass'.step # "idle" /\ pass'.claims = pass.claims
      /\ pass'.sent = pass.sent \cup {a} /\ pass'.document \in {pass.document, note}
  BY <1>1, <1>3, AssetTypes, NextSteps DEF p
<1>5. /\ folder' \in [Keys -> FileStates] /\ mapped' \in [Keys -> MapStates] /\ unheard' \subseteq Keys
      /\ folder'[a] # "none" /\ mapped'[a] # "current"
      /\ \A k \in Keys : /\ k # a => folder'[k] = folder[k] /\ mapped'[k] = mapped[k]
                         /\ mapped'[k] = "none" <=> mapped[k] = "none"
      /\ unheard \subseteq unheard'
  <2>1. CASE mapped[a] = "none" /\ Exists(a) /\ UNCHANGED <<folder, mapped, unheard>>
    BY <2>1, AssetTypes DEF Exists
  <2>2. CASE /\ folder' = [folder EXCEPT ![a] = "good"]
             /\ mapped' = [mapped EXCEPT ![a] = IF @ = "none" THEN @ ELSE "stale"]
             /\ unheard' = unheard \cup {a}
    <3>1. folder' \in [Keys -> FileStates] /\ mapped' \in [Keys -> MapStates]
      BY <2>2, AssetTypes DEF FileStates, MapStates
    <3> QED
      BY <2>2, <3>1, AssetTypes
  <2> QED
    BY <1>2, <2>1, <2>2
<1>6. AssetsTypeOK'
  <2>1. slipped' \subseteq Images
    BY <1>1, AssetTypes
  <2> QED
    BY <1>1, <1>4, <1>5, <2>1, AssetTypes
       DEF AssetsTypeOK, WorkRow, PassRow, FileStates, RowStates, MapStates
<1>7. ASSUME NEW b \in Images PROVE Unknown(b)' \/ Safe(b)'
  <2>1. CASE b = a
    BY <1>5, <2>1 DEF Safe, Exists
  <2>2. CASE b # a
    BY <1>1, <1>4, <1>5, <2>2, AssetTypes DEF AssetsIInv, Unknown, Safe, Uploading, Exists
  <2> QED
    BY <2>1, <2>2
<1>8. SentArrived'
  <2> SUFFICES ASSUME NEW b \in Images, b \in pass.sent \cup {a}
               PROVE  mapped'[b] # "current" /\ (folder'[b] # "none" \/ b \in slipped')
    BY <1>4 DEF SentArrived, Exists
  <2>1. CASE b = a
    BY <1>5, <2>1
  <2>2. CASE b # a
    <3>1. mapped[b] # "current" /\ (folder[b] # "none" \/ b \in slipped)
      BY <2>2 DEF AssetsIInv, SentArrived, Exists
    <3>2. folder'[b] = folder[b] /\ mapped'[b] = mapped[b]
      BY <1>5, <2>2, AssetTypes
    <3> QED
      BY <1>1, <2>2, <3>1, <3>2
  <2> QED
    BY <2>1, <2>2
<1> QED
  BY <1>4, <1>6, <1>7, <1>8 DEF AssetsIInv

LEMMA PushDocumentKeeps ==
  ASSUME AssetsIInv, PushDocument
  PROVE  AssetsIInv'
<1>1. /\ pass.step = "document"
      /\ folder' = [folder EXCEPT ![Note] = "good"] /\ stored' = pass.document
      /\ mapped' = [mapped EXCEPT ![Note] = IF @ = "none" THEN @ ELSE "stale"]
      /\ unheard' = unheard \cup {Note}
      /\ pass' = [pass EXCEPT !.step = "verify", !.sent = @ \cup {Note}]
      /\ UNCHANGED <<disk, rows, note, written, noteBase, cursorValid, repairs, work, faults, slipped>>
  BY DEF PushDocument
<1>2. /\ folder' \in [Keys -> FileStates] /\ mapped' \in [Keys -> MapStates] /\ unheard' \subseteq Keys
      /\ \A a \in Images : folder'[a] = folder[a] /\ mapped'[a] = mapped[a] /\ a # Note
      /\ unheard \subseteq unheard'
  BY <1>1, AssetTypes DEF FileStates, MapStates
<1>3. /\ pass' \in PassRow /\ pass'.step = "verify" /\ pass'.claims = pass.claims
      /\ pass'.sent = pass.sent \cup {Note} /\ pass'.document = pass.document
      /\ pass.document \in NoteDocuments
  BY <1>1, AssetTypes DEF PassRow
<1>4. AssetsTypeOK'
  BY <1>1, <1>2, <1>3, AssetTypes DEF AssetsTypeOK, WorkRow, PassRow, FileStates, RowStates, MapStates
<1>5. \A a \in Images : Unknown(a)' \/ Safe(a)'
  BY <1>1, <1>2, <1>3 DEF AssetsIInv, Unknown, Safe, Uploading, Exists
<1>6. SentArrived'
  BY <1>1, <1>2, <1>3 DEF AssetsIInv, SentArrived, Exists
<1> QED
  BY <1>3, <1>4, <1>5, <1>6 DEF AssetsIInv

LEMMA PushFailsKeeps ==
  ASSUME AssetsIInv, PushFails
  PROVE  AssetsIInv'
<1>1. /\ work' = [work EXCEPT !.pending = @ \cup pass.claims] /\ pass' = NoPass
      /\ UNCHANGED <<disk, note, written, mapped, noteBase, unheard, cursorValid, repairs, world>>
  BY DEF PushFails, FailClaims
<1>2. \/ rows' = rows
      \/ \E a \in Images : rows' = Verified(a)
  BY DEF PushFails
<1>3. rows' \in [Images -> RowStates] /\ \A b \in Images : rows[b] = "none" => rows'[b] = "none"
  BY <1>2, AssetTypes DEF Verified, RowStates
<1>4. work' \in WorkRow /\ work'.pending = work.pending \cup pass.claims /\ work'.left = work.left
  BY <1>1, AssetTypes DEF WorkRow, PassRow
<1>5. AssetsTypeOK'
  BY <1>1, <1>3, <1>4, AssetTypes DEF world, AssetsTypeOK, WorkRow, PassRow, FileStates, RowStates, MapStates
<1>6. \A a \in Images : Unknown(a)' \/ Safe(a)'
  BY <1>1, <1>3, <1>4, AssetTypes DEF AssetsIInv, Unknown, Safe, Uploading, Exists, world
<1>7. SentArrived'
  BY <1>1, AssetTypes DEF SentArrived
<1> QED
  BY <1>1, <1>5, <1>6, <1>7 DEF AssetsIInv

LEMMA RestartKeeps ==
  ASSUME AssetsIInv, Restart
  PROVE  AssetsIInv'
<1>1. /\ faults < MaxFaults /\ faults' = faults + 1 /\ pass' = NoPass
      /\ UNCHANGED <<folder, stored, mapped, noteBase, unheard, cursorValid, repairs, slipped>>
  BY DEF Restart
<1>2. \/ /\ work' = [work EXCEPT !.left = @ \cup pass.claims]
         /\ UNCHANGED <<disk, rows, note, written>>
      \/ /\ written < MaxDocuments /\ written' = written + 1
         /\ \E a \in Images :
              /\ disk' = [disk EXCEPT ![a] = "good"] /\ rows' = [rows EXCEPT ![a] = "available"]
              /\ note' = [image |-> a, id |-> written + 1]
              /\ work' = [pending |-> work.pending \cup {Note} \cup {a},
                          left |-> work.left \cup pass.claims, latest |-> written + 1]
  <2>1. \A a : note' = [image |-> a, id |-> written + 1] => note'.image = a
    OBVIOUS
  <2> QED
    BY <2>1 DEF Restart
<1>3. /\ faults' \in 0..MaxFaults /\ work' \in WorkRow /\ disk' \in [Images -> FileStates]
      /\ rows' \in [Images -> RowStates] /\ note' \in NoteDocuments /\ written' \in 0..MaxDocuments
      /\ work.pending \subseteq work'.pending /\ work'.left = work.left \cup pass.claims
      /\ \A a \in Images : \/ a \in work'.pending
                           \/ Unknown(a) => rows'[a] = "none" /\ note'.image # a
  <2>1. CASE /\ work' = [work EXCEPT !.left = @ \cup pass.claims]
             /\ UNCHANGED <<disk, rows, note, written>>
    BY <1>1, <2>1, AssetTypes DEF WorkRow, PassRow, Unknown
  <2>2. ASSUME written < MaxDocuments, written' = written + 1, NEW a \in Images,
               disk' = [disk EXCEPT ![a] = "good"], rows' = [rows EXCEPT ![a] = "available"],
               note' = [image |-> a, id |-> written + 1],
               work' = [pending |-> work.pending \cup {Note} \cup {a},
                        left |-> work.left \cup pass.claims, latest |-> written + 1]
        PROVE  /\ work' \in WorkRow /\ disk' \in [Images -> FileStates]
               /\ rows' \in [Images -> RowStates] /\ note' \in NoteDocuments
               /\ written' \in 0..MaxDocuments
               /\ work.pending \subseteq work'.pending /\ work'.left = work.left \cup pass.claims
               /\ a \in work'.pending
               /\ \A b \in Images : b # a => rows'[b] = rows[b] /\ note'.image # b
    <3>1. note' \in NoteDocuments /\ written' \in 0..MaxDocuments
      BY <2>2, AssetTypes, NewDocument DEF Shown
    <3>2. /\ work' \in WorkRow /\ work'.pending = work.pending \cup {Note} \cup {a}
          /\ work'.left = work.left \cup pass.claims
      BY <2>2, <3>1, AssetTypes DEF WorkRow, PassRow
    <3>3. disk' \in [Images -> FileStates] /\ rows' \in [Images -> RowStates]
      BY <2>2, AssetTypes DEF FileStates, RowStates
    <3> QED
      BY <2>2, <3>1, <3>2, <3>3, AssetTypes
  <2>3. faults' \in 0..MaxFaults
    BY <1>1, AssetTypes
  <2> QED
    BY <1>2, <2>1, <2>2, <2>3 DEF Unknown
<1>4. AssetsTypeOK'
  BY <1>1, <1>3, AssetTypes DEF AssetsTypeOK, WorkRow, PassRow, FileStates, RowStates, MapStates
<1>5. \A a \in Images : Unknown(a)' \/ Safe(a)'
  BY <1>1, <1>3, AssetTypes DEF AssetsIInv, Unknown, Safe, Uploading, Exists
<1>6. SentArrived'
  BY <1>1, AssetTypes DEF SentArrived
<1> QED
  BY <1>1, <1>4, <1>5, <1>6 DEF AssetsIInv

LEMMA LeaseEndsKeeps ==
  ASSUME AssetsIInv, LeaseEnds
  PROVE  AssetsIInv'
<1>1. /\ work' = [work EXCEPT !.pending = @ \cup work.left, !.left = {}]
      /\ UNCHANGED <<device, pass, world>>
  BY DEF LeaseEnds
<1>2. work' \in WorkRow /\ work'.pending = work.pending \cup work.left /\ work'.left = {}
  BY <1>1, AssetTypes DEF WorkRow
<1>3. AssetsTypeOK'
  BY <1>1, <1>2, AssetTypes
     DEF world, device, AssetsTypeOK, WorkRow, PassRow, FileStates, RowStates, MapStates
<1>4. \A a \in Images : Unknown(a)' \/ Safe(a)'
  BY <1>1, <1>2 DEF AssetsIInv, Unknown, Safe, Uploading, Exists, world, device
<1>5. SentArrived' /\ (pass.step = "idle" => pass = NoPass)'
  BY <1>1 DEF AssetsIInv, SentArrived, Exists, world, device
<1> QED
  BY <1>3, <1>4, <1>5 DEF AssetsIInv

(* What happens in the folder: what is deleted was seen, or has slipped.        *)
LEMMA FolderKeeps ==
  ASSUME AssetsIInv, UNCHANGED <<disk, rows, note, work, pass, noteBase, repairs>>,
         folder' \in [Keys -> FileStates], stored' \in NoteDocuments,
         mapped' \in [Keys -> MapStates], unheard' \subseteq Keys, cursorValid' \in BOOLEAN,
         written' \in 0..MaxDocuments, faults' \in 0..MaxFaults, slipped' \subseteq Images,
         cursorValid' => cursorValid, unheard \subseteq unheard',
         \A a \in Images :
           /\ stored'.image = a => stored.image = a \/ folder'[a] # "none"
           /\ mapped'[a] = "none" <=> mapped[a] = "none"
           /\ mapped'[a] = "current" => mapped[a] = "current"
           /\ a \in slipped => a \in slipped' \/ folder'[a] # "none"
           /\ folder[a] # "none" /\ folder'[a] = "none" =>
                a \in slipped' \/ (mapped[a] = "current" /\ a \in unheard')
  PROVE  AssetsIInv'
<1>1. AssetsTypeOK'
  BY AssetTypes DEF AssetsTypeOK, WorkRow, PassRow, FileStates, RowStates, MapStates
<1>2. ASSUME NEW a \in Images PROVE Unknown(a)' \/ Safe(a)'
  BY DEF AssetsIInv, Unknown, Safe, Uploading, Exists
<1>3. SentArrived'
  BY DEF AssetsIInv, SentArrived, Exists
<1> QED
  BY <1>1, <1>2, <1>3 DEF AssetsIInv

LEMMA OtherWritesKeeps ==
  ASSUME AssetsIInv, NEW a \in Images, OtherWrites(a)
  PROVE  AssetsIInv'
<1> DEFINE changed == {Note} \cup {k \in {a} : ~Exists(k)}
<1>1. /\ written < MaxDocuments /\ written' = written + 1
      /\ folder' = [folder EXCEPT ![a] = IF @ = "none" THEN "good" ELSE @, ![Note] = "good"]
      /\ stored' = [image |-> a, id |-> written + 1]
      /\ unheard' = unheard \cup changed
      /\ mapped' = [k \in Keys |-> IF k \in changed THEN Touched(k)[k] ELSE mapped[k]]
      /\ slipped' = slipped \ {a}
      /\ UNCHANGED <<disk, rows, note, work, pass, noteBase, repairs, cursorValid, faults>>
  BY DEF OtherWrites
<1>2. changed \subseteq Keys
  BY AssetTypes
<1>3. stored' \in NoteDocuments /\ written' \in 0..MaxDocuments /\ stored'.image = a
  BY <1>1, AssetTypes, NewDocument DEF Shown
<1>4. /\ folder' \in [Keys -> FileStates] /\ folder'[a] # "none"
      /\ \A b \in Images : b # a => folder'[b] = folder[b]
  BY <1>1, AssetTypes DEF FileStates
<1> HIDE DEF changed
<1>5. /\ mapped' \in [Keys -> MapStates]
      /\ \A b \in Images : /\ mapped'[b] = "none" <=> mapped[b] = "none"
                           /\ mapped'[b] = "current" => mapped[b] = "current"
  BY <1>1, AssetTypes DEF Touched, MapStates
<1> QED
  BY <1>1, <1>2, <1>3, <1>4, <1>5, AssetTypes, FolderKeeps

LEMMA ChangeObjectKeeps ==
  ASSUME AssetsIInv, NEW k \in Keys, NEW content \in {"none", "damaged"}, ChangeObject(k, content)
  PROVE  AssetsIInv'
<1>1. /\ faults < MaxFaults /\ faults' = faults + 1
      /\ folder' = [folder EXCEPT ![k] = content]
      /\ mapped' = Touched(k) /\ unheard' = unheard \cup {k}
      /\ slipped' = (IF k \in Images /\ mapped[k] # "current" THEN slipped \cup {k} ELSE slipped)
      /\ UNCHANGED <<disk, rows, note, written, work, pass, stored, noteBase, repairs, cursorValid>>
  BY DEF ChangeObject, environment
<1>2. folder' \in [Keys -> FileStates] /\ \A b \in Keys : b # k => folder'[b] = folder[b]
  BY <1>1, AssetTypes DEF FileStates
<1>3. /\ mapped' \in [Keys -> MapStates]
      /\ \A b \in Images : /\ mapped'[b] = "none" <=> mapped[b] = "none"
                           /\ mapped'[b] = "current" => mapped[b] = "current"
  BY <1>1, AssetTypes DEF Touched, MapStates
<1>4. faults' \in 0..MaxFaults /\ unheard' \subseteq Keys /\ slipped' \subseteq Images
  BY <1>1, AssetTypes
<1>5. \A a \in Images : /\ a \in slipped => a \in slipped'
                        /\ folder[a] # "none" /\ folder'[a] = "none" =>
                             a \in slipped' \/ (mapped[a] = "current" /\ a \in unheard')
  BY <1>1, <1>2, AssetTypes
<1> QED
  BY <1>1, <1>2, <1>3, <1>4, <1>5, AssetTypes, FolderKeeps

LEMMA ForgetCursorKeeps ==
  ASSUME AssetsIInv, ForgetCursor
  PROVE  AssetsIInv'
<1>1. /\ faults < MaxFaults /\ faults' = faults + 1 /\ cursorValid' = FALSE
      /\ UNCHANGED <<disk, rows, note, written, work, pass, stored, noteBase, repairs,
                     folder, mapped, unheard, slipped>>
  BY DEF ForgetCursor, environment
<1>2. faults' \in 0..MaxFaults
  BY <1>1, AssetTypes
<1> QED
  BY <1>1, <1>2, AssetTypes, FolderKeeps

(* The strengthened invariant of images on their way: an image known anywhere   *)
(* is at the provider, journaled, or known to be asked for again, unless it has *)
(* slipped; and what a pass sent has arrived before its claim is completed      *)
(* (AssetsService, recordRemoteRepairCondition).                                *)
THEOREM AssetsInvariance == AssetsSpec => []AssetsIInv
<1>1. AssetsInit => AssetsIInv
  BY AssetsInitHolds
<1>2. AssetsIInv /\ [AssetsNext]_assetVars => AssetsIInv'
  <2> SUFFICES ASSUME AssetsIInv, [AssetsNext]_assetVars PROVE AssetsIInv'
    OBVIOUS
  <2>1. CASE UNCHANGED assetVars
    BY <2>1, AssetTypes, FolderKeeps DEF assetVars
  <2>2. CASE AssetsNext
    BY <2>2, OwnStepsKeep, EditNoteKeeps, BeginPassKeeps, PullBreaksKeeps, PushAssetKeeps,
       PushDocumentKeeps, PushFailsKeeps, VerifyKeeps, RestartKeeps, LeaseEndsKeeps,
       OtherWritesKeeps, ChangeObjectKeeps, ForgetCursorKeeps DEF AssetsNext
  <2> QED
    BY <2>1, <2>2
<1> QED
  BY <1>1, <1>2, PTL DEF AssetsSpec

(* The state of images, journal, pass and folder keeps its types.               *)
THEOREM AssetsTypeCorrect == AssetsSpec => []AssetsTypeOK
<1>1. AssetsIInv => AssetsTypeOK
  BY DEF AssetsIInv
<1> QED
  BY <1>1, AssetsInvariance, PTL

(* For any images, claim limit, damage and lost processes: the image that the   *)
(* note at the provider shows is there, or will be.                             *)
THEOREM ImagesArrive == AssetsSpec => []ImagesFollowNotes
<1>1. AssetsIInv => ImagesFollowNotes
  BY DEF AssetsIInv, ImagesFollowNotes, Unknown, Safe, Uploading
<1> QED
  BY <1>1, AssetsInvariance, PTL

-----------------------------------------------------------------------------
(* Database: what the user must be able to get back is in the file or in a      *)
(* backup, whatever is interrupted.                                             *)

(* The content of a database with the first n migrations.                       *)
WellMade(n, c) ==
  /\ c \in Contents /\ c.applied = 1..n
  /\ n >= 2 => c.rows \cap {"column", "note", "builtin"} \subseteq c.typed
  /\ n >= 6 => c.identity
  /\ n >= 8 => c.rows = c.stamped

(* The contents that count: the database, its backups, the candidate in use.    *)
InHand == IF process.step \in {"compare", "copy"} THEN {candidate} ELSE {}
Known == {db.content} \cup {b.content : b \in backups} \cup InHand

(* The number of the last edit tells the user's data apart.                     *)
EditsTell ==
  \A c \in Known :
    /\ \E n \in 0..Newest : WellMade(n, c)
    /\ c.edit <= edits
    /\ \A d \in Known : c.edit = d.edit => UserData(c) = UserData(d)

FirstIsOne == \A b, d \in backups : b.name = d.name /\ b.first /\ d.first => b = d

(* A pairing that is being applied has its backup.                              *)
PairingKept ==
  /\ db.content.pairing = {} => UserData(db.content) = owed
  /\ db.content.pairing # {} =>
       \E b \in Named("pairing") : {b.content.edit} = db.content.pairing /\ UserData(b.content) = owed
  /\ \A b \in Named("pairing") : b.content.pairing = {}
  /\ process.step = "compare" /\ process.name = "pairing" =>
       candidate.pairing = {} /\ UserData(candidate) = owed /\ db.content = candidate
  /\ process.step = "copy" => candidate.pairing = {} /\ UserData(candidate) = owed
  /\ process.step \in {"copy", "apply"} => db.content.pairing # {}
  /\ process.step = "serve" => db.content.pairing = {}

(* The file, by what the process does.                                          *)
FileFits ==
  /\ process.step \in {"open", "compare", "migrate", "serve", "apply"} => db.file = "whole"
  /\ process.step = "copy" => db.file = "torn"
  /\ db.file = "torn" => db.content.pairing # {}
  /\ db.file = "absent" => db.content = Empty
  /\ \/ process.step \in {"serve", "apply"}
     \/ process.step = "compare" /\ process.name = "pairing"
     => db.content.applied = Migrations
  /\ process.step = "compare" => candidate = db.content
  /\ process.step = "open" => process.name = "phase-10"

(* What was found before a destructive migration has its backup, unless nothing *)
(* has been done to it.                                                         *)
FoundIsKept ==
  opened.rows # {} /\ ~ RequiresBackup \subseteq opened.applied =>
    \/ \E b \in backups : b.content = opened
    \/ /\ db.content = opened /\ db.file = "whole"
       /\ process.step \in {"down", "open", "compare"}
       /\ process.step = "open" => process.existed
       /\ process.step = "compare" => process.name = "phase-10"

DatabaseIInv ==
  /\ DatabaseTypeOK /\ FirstIsOne /\ EditsTell /\ PairingKept /\ FileFits /\ FoundIsKept

(* A migration, after those before it, keeps what the user has.                 *)
LEMMA MigrationKeeps ==
  ASSUME NEW n \in Migrations, NEW c, WellMade(n - 1, c)
  PROVE  /\ WellMade(n, Migrated(n, c)) /\ UserData(Migrated(n, c)) = UserData(c)
         /\ Migrated(n, c).edit = c.edit /\ Migrated(n, c).pairing = c.pairing
         /\ Migrated(n, c).rows \cap Users = c.rows \cap Users
<1> USE DEF Migrations, Newest
<1>1. c \in Contents /\ c.applied = 1..(n - 1)
  BY DEF WellMade
<1>2. /\ c.rows \in SUBSET RowKinds /\ c.typed \in SUBSET RowKinds /\ c.stamped \in SUBSET RowKinds
      /\ c.identity \in BOOLEAN /\ c.edit \in EditNumbers /\ c.pairing \in SUBSET EditNumbers
  BY <1>1 DEF Contents
<1>3. c.applied \cup {n} = 1..n /\ 1..n \in {1..k : k \in 0..Newest}
  <2>1. 1..(n - 1) \cup {n} = 1..n
    OBVIOUS
  <2>2. n \in 0..Newest
    OBVIOUS
  <2>3. 1..n \in {1..k : k \in 0..Newest}
    BY <2>2, Zenon
  <2> QED
    BY <1>1, <2>1, <2>3
<1> DEFINE u == Up(n, c)
           m == Migrated(n, c)
<1>4. /\ u \in Contents /\ u.applied = c.applied /\ u.edit = c.edit /\ u.pairing = c.pairing
      /\ n # 2 => u.rows = c.rows /\ u.typed = c.typed
      /\ n # 6 => u.identity = c.identity
      /\ n = 6 => u.identity
      /\ n # 8 => u.stamped = c.stamped
      /\ n = 8 => u.stamped = u.rows
      /\ n = 2 => /\ u.rows = c.rows \cup {"type", "builtin"}
                  /\ u.typed = (c.rows \cap {"column", "note"}) \cup {"builtin"}
  <2>1. CASE n = 2
    <3>1. u = [c EXCEPT !.rows = c.rows \cup {"type", "builtin"},
                        !.typed = (c.rows \cap {"column", "note"}) \cup {"builtin"}]
      BY <2>1 DEF Up, AddNoteTypes
    <3>2. /\ c.rows \cup {"type", "builtin"} \in SUBSET RowKinds
          /\ (c.rows \cap {"column", "note"}) \cup {"builtin"} \in SUBSET RowKinds
      BY <1>2 DEF RowKinds, Users
    <3>3. u \in Contents
      BY <1>1, <3>1, <3>2 DEF Contents
    <3>4. /\ u.identity = c.identity /\ u.applied = c.applied /\ u.edit = c.edit /\ u.pairing = c.pairing
          /\ u.rows = c.rows \cup {"type", "builtin"} /\ u.stamped = c.stamped
          /\ u.typed = (c.rows \cap {"column", "note"}) \cup {"builtin"}
      BY <1>1, <3>1 DEF Contents
    <3> QED
      BY <2>1, <3>3, <3>4
  <2>2. CASE n = 6
    <3>1. u = [c EXCEPT !.identity = TRUE]
      BY <2>2 DEF Up, AddSyncMetadata
    <3>3. u \in Contents
      BY <1>1, <3>1 DEF Contents
    <3>4. /\ u.identity = TRUE /\ u.applied = c.applied /\ u.edit = c.edit /\ u.pairing = c.pairing
          /\ u.rows = c.rows /\ u.typed = c.typed /\ u.stamped = c.stamped
      BY <1>1, <3>1 DEF Contents
    <3> QED
      BY <2>2, <3>3, <3>4
  <2>3. CASE n = 8
    <3>1. u = [c EXCEPT !.stamped = c.rows]
      BY <2>3 DEF Up, AddSoftDeletionMetadata
    <3> QED
      BY <1>1, <1>2, <2>3, <3>1 DEF Contents
  <2>4. CASE n \notin {2, 6, 8}
    <3>1. u = c
      BY <2>4 DEF Up
    <3> QED
      BY <1>1, <2>4, <3>1
  <2> QED
    BY <2>1, <2>2, <2>3, <2>4
<1> HIDE DEF u
<1>5. /\ m \in Contents /\ m.applied = 1..n /\ m.edit = u.edit /\ m.pairing = u.pairing
      /\ m.rows = u.rows /\ m.typed = u.typed /\ m.stamped = u.stamped /\ m.identity = u.identity
  <2>1. m = [u EXCEPT !.applied = 1..n]
    BY <1>3, <1>4 DEF Migrated, u
  <2> QED
    BY <1>3, <1>4, <2>1 DEF Contents
<1> HIDE DEF m
<1>6. WellMade(n, m)
  <2>1. n >= 2 => m.rows \cap {"column", "note", "builtin"} \subseteq m.typed
    BY <1>4, <1>5 DEF WellMade
  <2>2. n >= 6 => m.identity
    BY <1>4, <1>5 DEF WellMade
  <2>3. n >= 8 => m.rows = m.stamped
    BY <1>4, <1>5 DEF WellMade
  <2> QED
    BY <1>5, <2>1, <2>2, <2>3 DEF WellMade
<1>7. m.rows \cap Users = c.rows \cap Users
  BY <1>4, <1>5 DEF Users
<1> QED
  BY <1>4, <1>5, <1>6, <1>7 DEF UserData, m

(* The databases of earlier versions are well made: Made is what its definition *)
(* says, and that, version by version, is.                                      *)
MadeStep(n, before) == Used(n, Migrated(n, before))

LEMMA MadeIsMade ==
  Made = [n \in 0..Newest |-> IF n = 0 THEN Empty ELSE MadeStep(n, Made[n - 1])]
<1> DEFINE IsMade(f) ==
             f = [n \in 0..Newest |-> IF n = 0 THEN Empty ELSE MadeStep(n, f[n - 1])]
           c1 == MadeStep(1, Empty)
           c2 == MadeStep(2, c1)
           c3 == MadeStep(3, c2)
           c4 == MadeStep(4, c3)
           c5 == MadeStep(5, c4)
           c6 == MadeStep(6, c5)
           c7 == MadeStep(7, c6)
           c8 == MadeStep(8, c7)
           c9 == MadeStep(9, c8)
           c10 == MadeStep(10, c9)
           made == [n \in 0..Newest |->
                      CASE n = 0 -> Empty [] n = 1 -> c1 [] n = 2 -> c2 [] n = 3 -> c3
                        [] n = 4 -> c4 [] n = 5 -> c5 [] n = 6 -> c6 [] n = 7 -> c7
                        [] n = 8 -> c8 [] n = 9 -> c9 [] n = 10 -> c10]
<1>1. /\ made[0] = Empty /\ made[1] = c1 /\ made[2] = c2 /\ made[3] = c3 /\ made[4] = c4
      /\ made[5] = c5 /\ made[6] = c6 /\ made[7] = c7 /\ made[8] = c8 /\ made[9] = c9
      /\ made[10] = c10 /\ made = [n \in 0..Newest |-> made[n]]
  <2> HIDE DEF c1, c2, c3, c4, c5, c6, c7, c8, c9, c10
  <2> QED
    BY DEF Newest
<1> HIDE DEF made
<1>2. \A n \in 0..Newest : made[n] = IF n = 0 THEN Empty ELSE MadeStep(n, made[n - 1])
  <2>1. /\ made[1] = MadeStep(1, made[0]) /\ made[2] = MadeStep(2, made[1])
        /\ made[3] = MadeStep(3, made[2]) /\ made[4] = MadeStep(4, made[3])
        /\ made[5] = MadeStep(5, made[4]) /\ made[6] = MadeStep(6, made[5])
        /\ made[7] = MadeStep(7, made[6]) /\ made[8] = MadeStep(8, made[7])
        /\ made[9] = MadeStep(9, made[8]) /\ made[10] = MadeStep(10, made[9])
    BY <1>1
  <2> HIDE DEF c1, c2, c3, c4, c5, c6, c7, c8, c9, c10
  <2>2. SUFFICES ASSUME NEW n \in 0..Newest, n # 0
                 PROVE  made[n] = MadeStep(n, made[n - 1])
    BY <1>1
  <2>3. CASE n \in {1, 2, 3, 4, 5}
    BY <2>1, <2>3
  <2>4. CASE n \in {6, 7, 8, 9, 10}
    BY <2>1, <2>4
  <2> QED
    BY <2>2, <2>3, <2>4 DEF Newest
<1>3. IsMade(made)
  BY <1>1, <1>2
<1>4. Made = CHOOSE f : IsMade(f)
  BY DEF Made, MadeStep
<1> HIDE DEF IsMade
<1>5. IsMade(Made)
  BY <1>3, <1>4
<1> QED
  BY <1>5 DEF IsMade

LEMMA EarlierVersions ==
  \A n \in 0..Newest : WellMade(n, Made[n]) /\ Made[n].edit = 0 /\ Made[n].pairing = {}
<1> DEFINE Good(n) == WellMade(n, Made[n]) /\ Made[n].edit = 0 /\ Made[n].pairing = {}
<1>1. Good(0)
  <2>1. Made[0] = Empty
    BY MadeIsMade DEF Newest
  <2>2. 1..0 = {} /\ {} \in {1..n : n \in 0..Newest} /\ 0 \in EditNumbers
    BY DatabaseAssumption DEF Newest, EditNumbers
  <2>3. Empty \in Contents
    BY <2>2 DEF Empty, Contents
  <2> QED
    BY <2>1, <2>2, <2>3 DEF Empty, WellMade
<1>2. ASSUME NEW n \in Migrations, Good(n - 1) PROVE Good(n)
  <2> DEFINE c == Migrated(n, Made[n - 1])
  <2>1. Made[n] = MadeStep(n, Made[n - 1])
    BY MadeIsMade DEF Migrations, Newest
  <2>2. WellMade(n, c) /\ c.edit = 0 /\ c.pairing = {}
    BY <1>2, MigrationKeeps
  <2>3. Made[n] = Used(n, c)
    BY <2>1 DEF MadeStep
  <2> HIDE DEF c
  <2>4. CASE n = 1
    <3>1. {"column", "note"} \in SUBSET RowKinds
      BY DEF RowKinds, Users
    <3> QED
      BY <2>2, <2>3, <2>4, <3>1 DEF Used, WellMade, Contents
  <2>5. CASE n = 3
    <3>1. c.rows \cup {"label"} \in SUBSET RowKinds
      BY <2>2 DEF WellMade, Contents, RowKinds, Users
    <3>2. (c.rows \cup {"label"}) \cap {"column", "note", "builtin"} \subseteq c.typed
      BY <2>2, <2>5 DEF WellMade
    <3> QED
      BY <2>2, <2>3, <2>5, <3>1, <3>2 DEF Used, WellMade, Contents
  <2>6. CASE n \notin {1, 3}
    BY <2>2, <2>3, <2>6 DEF Used
  <2> QED
    BY <2>4, <2>5, <2>6
<1> HIDE DEF Good
<1>3. Good(1) /\ Good(2) /\ Good(3) /\ Good(4) /\ Good(5)
  BY <1>1, <1>2 DEF Migrations, Newest
<1>4. Good(6) /\ Good(7) /\ Good(8) /\ Good(9) /\ Good(10)
  BY <1>2, <1>3 DEF Migrations, Newest
<1> QED
  BY <1>1, <1>3, <1>4 DEF Good, Newest

(* A step that brings one content into hand, made by a new edit or saying what  *)
(* one known says.                                                              *)
LEMMA EditsTellOn ==
  ASSUME EditsTell, edits \in EditNumbers, edits' \in EditNumbers, edits <= edits',
         NEW x, \E n \in 0..Newest : WellMade(n, x), x.edit <= edits',
         \/ x.edit > edits
         \/ \E c \in Known : x.edit = c.edit /\ UserData(x) = UserData(c),
         Known' \subseteq Known \cup {x}
  PROVE  EditsTell'
<1>0. edits \in Int /\ edits' \in Int
  BY DatabaseAssumption DEF EditNumbers
<1>1. ASSUME NEW c \in Known'
      PROVE  (\E n \in 0..Newest : WellMade(n, c)) /\ c.edit <= edits' /\ c.edit \in Int
  <2>1. c \in Known \/ c = x
    OBVIOUS
  <2>2. \E n \in 0..Newest : WellMade(n, c)
    BY <2>1 DEF EditsTell
  <2>3. c.edit \in Int
    BY <2>2, DatabaseAssumption DEF WellMade, Contents, EditNumbers
  <2> QED
    BY <1>0, <2>1, <2>2, <2>3 DEF EditsTell
<1>2. ASSUME NEW c \in Known', NEW d \in Known', c.edit = d.edit
      PROVE  UserData(c) = UserData(d)
  <2>1. \A e \in Known : e.edit <= edits /\ \A k \in Known : e.edit = k.edit => UserData(e) = UserData(k)
    BY DEF EditsTell
  <2>2. c.edit \in Int /\ d.edit \in Int
    BY <1>1
  <2>3. CASE c \in Known /\ d \in Known
    BY <1>2, <2>1, <2>3
  <2>4. CASE c = x /\ d = x
    BY <2>4
  <2>5. CASE c \in Known /\ d = x
    BY <1>0, <1>2, <2>1, <2>2, <2>5
  <2>6. CASE c = x /\ d \in Known
    BY <1>0, <1>2, <2>1, <2>2, <2>6
  <2> QED
    BY <2>3, <2>4, <2>5, <2>6
<1> QED
  BY <1>1, <1>2 DEF EditsTell

(* A step that brings nothing new into hand.                                    *)
LEMMA EditsTellStays ==
  ASSUME EditsTell, UNCHANGED edits, Known' \subseteq Known
  PROVE  EditsTell'
BY DEF EditsTell

LEMMA DatabaseInitHolds == DatabaseInit => DatabaseIInv
<1> SUFFICES ASSUME DatabaseInit PROVE DatabaseIInv
  OBVIOUS
<1>1. PICK n \in 0..Newest :
        /\ db.content = Made[n] /\ (db.file = "whole" \/ (db.file = "absent" /\ n = 0))
        /\ db = [file |-> db.file, content |-> db.content]
  <2>1. Made[0] = Empty
    BY MadeIsMade DEF Newest
  <2> QED
    BY <2>1 DEF DatabaseInit, Newest
<1>2. WellMade(n, db.content) /\ db.content.edit = 0 /\ db.content.pairing = {}
  BY <1>1, EarlierVersions
<1>3. /\ backups = {} /\ process = [step |-> "down", existed |-> FALSE, name |-> "phase-10"]
      /\ owed = UserData(db.content) /\ opened = db.content /\ edits = 0 /\ stops = 0
  BY DEF DatabaseInit
<1>4. DatabaseTypeOK
  <2>1. \A name \in Names : Cardinality({b \in backups : b.name = name /\ b.first}) <= 1
    <3>1. \A name \in Names : {b \in backups : b.name = name /\ b.first} = {}
      BY <1>3
    <3> QED
      BY <3>1, FS_EmptySet
  <2>2. process \in [step : States, existed : BOOLEAN, name : Names]
    BY <1>3 DEF States, Names
  <2>3. db \in [file : {"absent", "torn", "whole"}, content : Contents]
    BY <1>1, <1>2 DEF WellMade
  <2> QED
    BY <1>3, <2>1, <2>2, <2>3, DatabaseAssumption DEF DatabaseTypeOK, EditNumbers
<1>5. FirstIsOne
  BY <1>3 DEF FirstIsOne
<1>6. Known = {db.content}
  BY <1>3 DEF Known, InHand
<1>7. EditsTell
  BY <1>2, <1>3, <1>6 DEF EditsTell
<1>8. PairingKept
  BY <1>2, <1>3 DEF PairingKept, Named
<1>9. FileFits
  BY <1>1, <1>3 DEF DatabaseInit, FileFits
<1>10. FoundIsKept
  <2>1. db.file = "absent" => db.content.rows = {}
    BY <1>1, MadeIsMade DEF DatabaseInit, Empty
  <2> QED
    BY <1>1, <1>3, <2>1 DEF FoundIsKept
<1> QED
  BY <1>4, <1>5, <1>7, <1>8, <1>9, <1>10 DEF DatabaseIInv

-----------------------------------------------------------------------------
DbRow == [file : {"absent", "torn", "whole"}, content : Contents]
ProcessRow == [step : States, existed : BOOLEAN, name : Names]

(* What a step makes of the types, when it writes no backup.                    *)
LEMMA DatabaseTypeStays ==
  ASSUME DatabaseIInv, UNCHANGED backups, db' \in DbRow, process' \in ProcessRow,
         edits' \in EditNumbers, stops' \in 0..MaxStops
  PROVE  DatabaseTypeOK' /\ FirstIsOne'
BY DEF DatabaseIInv, DatabaseTypeOK, FirstIsOne, DbRow, ProcessRow

LEMMA OpenKeeps ==
  ASSUME DatabaseIInv, Open
  PROVE  DatabaseIInv'
<1>1. /\ db \in DbRow /\ process \in ProcessRow /\ edits \in EditNumbers /\ stops \in 0..MaxStops
  BY DEF DatabaseIInv, DatabaseTypeOK, DbRow, ProcessRow
<1>2. /\ process.step = "down" /\ db.file # "torn"
      /\ process' = [step |-> "open", existed |-> db.file = "whole", name |-> "phase-10"]
      /\ db' = [db EXCEPT !.file = "whole"]
      /\ UNCHANGED <<backups, candidate, owed, opened, edits, stops>>
  BY DEF Open
<1>3. /\ db'.content = db.content /\ db'.file = "whole" /\ db' \in DbRow
      /\ process'.step = "open" /\ process'.name = "phase-10" /\ process' \in ProcessRow
      /\ db.file = "whole" => process'.existed
  BY <1>1, <1>2 DEF DbRow, ProcessRow, States, Names
<1>4. DatabaseTypeOK' /\ FirstIsOne'
  BY <1>1, <1>2, <1>3, DatabaseTypeStays
<1>5. EditsTell'
  <2>1. Known' \subseteq Known
    BY <1>2, <1>3 DEF Known, InHand
  <2> QED
    BY <1>2, <2>1, EditsTellStays DEF DatabaseIInv
<1>6. PairingKept'
  BY <1>2, <1>3 DEF DatabaseIInv, PairingKept, Named
<1>7. FileFits'
  BY <1>2, <1>3 DEF DatabaseIInv, FileFits
<1>8. FoundIsKept'
  BY <1>2, <1>3 DEF DatabaseIInv, FoundIsKept
<1> QED
  BY <1>4, <1>5, <1>6, <1>7, <1>8 DEF DatabaseIInv

LEMMA WriteCandidateKeeps ==
  ASSUME DatabaseIInv, WriteCandidate
  PROVE  DatabaseIInv'
<1>1. /\ db \in DbRow /\ process \in ProcessRow /\ edits \in EditNumbers /\ stops \in 0..MaxStops
  BY DEF DatabaseIInv, DatabaseTypeOK, DbRow, ProcessRow
<1>2. /\ process.step = "open" /\ candidate' = db.content
      /\ process' = [process EXCEPT !.step = "compare"]
      /\ UNCHANGED <<db, backups, owed, opened, edits, stops>>
  BY DEF WriteCandidate, Goes
<1>3. /\ process'.step = "compare" /\ process'.name = process.name /\ process' \in ProcessRow
      /\ process'.existed = process.existed
  BY <1>1, <1>2 DEF ProcessRow, States
<1>4. DatabaseTypeOK' /\ FirstIsOne'
  BY <1>1, <1>2, <1>3, DatabaseTypeStays
<1>5. EditsTell'
  <2>1. Known' \subseteq Known
    BY <1>2, <1>3 DEF Known, InHand
  <2> QED
    BY <1>2, <2>1, EditsTellStays DEF DatabaseIInv
<1>9. process.name = "phase-10"
  BY <1>2 DEF DatabaseIInv, FileFits
<1>6. PairingKept'
  BY <1>2, <1>3, <1>9 DEF DatabaseIInv, PairingKept, Named
<1>7. FileFits'
  BY <1>2, <1>3, <1>9 DEF DatabaseIInv, FileFits
<1>8. FoundIsKept'
  BY <1>2, <1>3, <1>9 DEF DatabaseIInv, FoundIsKept
<1> QED
  BY <1>4, <1>5, <1>6, <1>7, <1>8 DEF DatabaseIInv

(* No backup is needed when nothing destructive is pending, or nothing was      *)
(* there.                                                                       *)
LEMMA NoBackupKeeps ==
  ASSUME DatabaseIInv, NoBackupNeeded
  PROVE  DatabaseIInv'
<1>1. /\ db \in DbRow /\ process \in ProcessRow /\ edits \in EditNumbers /\ stops \in 0..MaxStops
  BY DEF DatabaseIInv, DatabaseTypeOK, DbRow, ProcessRow
<1>2. /\ process.step = "open" /\ ~NeedsBackup
      /\ process' = [process EXCEPT !.step = "migrate"]
      /\ UNCHANGED <<db, backups, candidate, owed, opened, edits, stops>>
  BY DEF NoBackupNeeded, Goes
<1>3. process'.step = "migrate" /\ process' \in ProcessRow
  BY <1>1, <1>2 DEF ProcessRow, States
<1>4. DatabaseTypeOK' /\ FirstIsOne'
  BY <1>1, <1>2, <1>3, DatabaseTypeStays
<1>5. EditsTell'
  <2>1. Known' \subseteq Known
    BY <1>2, <1>3 DEF Known, InHand
  <2> QED
    BY <1>2, <2>1, EditsTellStays DEF DatabaseIInv
<1>6. PairingKept'
  BY <1>2, <1>3 DEF DatabaseIInv, PairingKept, Named
<1>7. FileFits'
  BY <1>2, <1>3 DEF DatabaseIInv, FileFits
<1>8. FoundIsKept'
  <2>1. SUFFICES ASSUME opened.rows # {}, ~ RequiresBackup \subseteq opened.applied
                 PROVE  \E b \in backups : b.content = opened
    BY <1>2 DEF FoundIsKept
  <2>2. process.existed => RequiresBackup \subseteq db.content.applied
    BY <1>2 DEF NeedsBackup, Pending, RequiresBackup, Migrations
  <2> QED
    BY <1>2, <2>1, <2>2 DEF DatabaseIInv, FoundIsKept
<1> QED
  BY <1>4, <1>5, <1>6, <1>7, <1>8 DEF DatabaseIInv

LEMMA FirstCounts ==
  ASSUME NEW bs, \A b \in bs, d \in bs : b.name = d.name /\ b.first /\ d.first => b = d
  PROVE  \A name \in Names : Cardinality({b \in bs : b.name = name /\ b.first}) <= 1
<1> SUFFICES ASSUME NEW name \in Names
             PROVE  Cardinality({b \in bs : b.name = name /\ b.first}) <= 1
  OBVIOUS
<1> DEFINE firsts == {b \in bs : b.name = name /\ b.first}
<1>1. CASE firsts = {}
  BY <1>1, FS_EmptySet
<1>2. CASE firsts # {}
  <2>1. PICK x : x \in firsts
    BY <1>2
  <2>2. firsts = {x}
    BY <2>1
  <2> HIDE DEF firsts
  <2>3. Cardinality(firsts) = 1
    BY <2>2, FS_Singleton
  <2> QED
    BY <2>3 DEF firsts
<1> QED
  BY <1>1, <1>2

(* A verified backup gets its name; the pairing may begin, or the migrations.   *)
LEMMA PublishKeeps ==
  ASSUME DatabaseIInv, Publish
  PROVE  DatabaseIInv'
<1>1. /\ db \in DbRow /\ process \in ProcessRow /\ edits \in EditNumbers /\ stops \in 0..MaxStops
  BY DEF DatabaseIInv, DatabaseTypeOK, DbRow, ProcessRow
<1> DEFINE new == [name |-> process.name, first |-> Named(process.name) = {}, content |-> candidate]
<1>2. /\ process.step = "compare"
      /\ backups' = Published(process.name, candidate)
      /\ UNCHANGED <<candidate, owed, opened, edits, stops>>
  BY DEF Publish
<1>3. \/ backups' = backups /\ \E b \in backups : b.name = process.name /\ b.content = candidate
      \/ backups' = backups \cup {new} /\ ~ \E b \in backups : b.name = process.name /\ b.content = candidate
  BY <1>2 DEF Published, Named
<1>9. /\ new.name = process.name /\ new.content = candidate
      /\ new.first = (\A b \in backups : b.name # process.name)
  BY DEF Named
<1> HIDE DEF new
<1>10. /\ backups \subseteq backups'
       /\ \E b \in backups' : b.name = process.name /\ b.content = candidate
       /\ \A b \in backups' : b \in backups \/ (b.name = process.name /\ b.content = candidate)
  BY <1>3, <1>9
<1>11. candidate = db.content /\ candidate \in Contents /\ process.name \in Names
  <2>1. db.content \in Contents
    BY <1>1 DEF DbRow
  <2> QED
    BY <1>1, <1>2, <2>1 DEF DatabaseIInv, FileFits, ProcessRow
<1>12. \/ /\ process.name = "phase-10" /\ db' = db
          /\ process' = [process EXCEPT !.step = "migrate"]
       \/ /\ process.name = "pairing" /\ db' = [db EXCEPT !.content.pairing = {candidate.edit}]
          /\ process' = [process EXCEPT !.step = "apply"]
  BY <1>11 DEF Publish, Goes, Names
<1> DEFINE applied == [candidate EXCEPT !.pairing = {candidate.edit}]
<1>13. /\ applied \in Contents /\ applied.edit = candidate.edit /\ applied.pairing = {candidate.edit}
       /\ applied.applied = candidate.applied /\ applied.rows = candidate.rows
       /\ applied.typed = candidate.typed /\ applied.stamped = candidate.stamped
       /\ applied.identity = candidate.identity
  BY <1>11 DEF Contents
<1> HIDE DEF applied
<1>14. /\ db' \in DbRow /\ process' \in ProcessRow /\ process'.step \in {"migrate", "apply"}
       /\ process'.name = process.name /\ db'.file = db.file /\ db.file = "whole"
       /\ process.name = "phase-10" => db' = db /\ process'.step = "migrate"
       /\ process.name = "pairing" => db'.content = applied /\ process'.step = "apply"
  <2>1. db.file = "whole"
    BY <1>2 DEF DatabaseIInv, FileFits
  <2>2. CASE process.name = "phase-10" /\ db' = db /\ process' = [process EXCEPT !.step = "migrate"]
    BY <1>1, <2>1, <2>2 DEF ProcessRow, States
  <2>3. CASE /\ process.name = "pairing" /\ db' = [db EXCEPT !.content.pairing = {candidate.edit}]
             /\ process' = [process EXCEPT !.step = "apply"]
    <3>1. db' = [db EXCEPT !.content = applied]
      BY <1>1, <1>11, <2>3 DEF DbRow, applied
    <3> QED
      BY <1>1, <1>13, <2>1, <2>3, <3>1 DEF ProcessRow, States, DbRow
  <2> QED
    BY <1>12, <2>2, <2>3
<1>15. FirstIsOne'
  BY <1>3, <1>9 DEF DatabaseIInv, FirstIsOne
<1>4. DatabaseTypeOK' /\ FirstIsOne'
  <2>1. \A b \in backups' : b.name \in Names /\ b.first \in BOOLEAN /\ b.content \in Contents
    BY <1>3, <1>9, <1>11 DEF DatabaseIInv, DatabaseTypeOK
  <2>2. \A name \in Names : Cardinality({b \in backups' : b.name = name /\ b.first}) <= 1
    BY <1>15, FirstCounts DEF FirstIsOne
  <2> QED
    BY <1>1, <1>2, <1>14, <1>15, <2>1, <2>2 DEF DatabaseTypeOK, DbRow, ProcessRow
<1>5. EditsTell'
  <2>1. candidate \in Known
    BY <1>2 DEF Known, InHand
  <2>2. PICK n \in 0..Newest : WellMade(n, candidate)
    BY <2>1 DEF DatabaseIInv, EditsTell
  <2>3. WellMade(n, applied) /\ UserData(applied) = UserData(candidate)
    BY <1>13, <2>2 DEF WellMade, UserData
  <2>4. Known' \subseteq Known \cup {applied}
    BY <1>10, <1>11, <1>12, <1>14, <2>1 DEF Known, InHand
  <2>5. applied.edit <= edits
    BY <1>13, <2>1 DEF DatabaseIInv, EditsTell
  <2>6. edits' = edits /\ edits <= edits'
    BY <1>1, <1>2, DatabaseAssumption DEF EditNumbers
  <2> QED
    BY <1>1, <1>13, <2>1, <2>3, <2>4, <2>5, <2>6, EditsTellOn DEF DatabaseIInv
<1>6. PairingKept'
  <2>1. CASE process.name = "phase-10"
    BY <1>2, <1>10, <1>14, <2>1 DEF DatabaseIInv, PairingKept, Named
  <2>2. CASE process.name = "pairing"
    <3>1. candidate.pairing = {} /\ UserData(candidate) = owed
      BY <1>2, <2>2 DEF DatabaseIInv, PairingKept
    <3>2. \A b \in backups' : b.name = "pairing" => b.content.pairing = {}
      BY <1>10, <3>1 DEF DatabaseIInv, PairingKept, Named
    <3>3. \E b \in backups' : /\ b.name = "pairing" /\ {b.content.edit} = db'.content.pairing
                              /\ UserData(b.content) = owed
      BY <1>10, <1>13, <1>14, <2>2, <3>1
    <3>4. db'.content.pairing # {}
      BY <1>13, <1>14, <2>2
    <3> QED
      BY <1>2, <1>14, <2>2, <3>2, <3>3, <3>4 DEF PairingKept, Named
  <2> QED
    BY <1>11, <2>1, <2>2 DEF Names
<1>7. FileFits'
  BY <1>2, <1>11, <1>13, <1>14 DEF DatabaseIInv, FileFits, Names
<1>8. FoundIsKept'
  BY <1>2, <1>10, <1>11, <1>14 DEF DatabaseIInv, FoundIsKept
<1> QED
  BY <1>4, <1>5, <1>6, <1>7, <1>8 DEF DatabaseIInv

(* A migration. (One that throws does not happen: Throws needs no argument.)    *)
LEMMA MigrateKeeps ==
  ASSUME DatabaseIInv, Migrate
  PROVE  DatabaseIInv'
<1>1. /\ db \in DbRow /\ process \in ProcessRow /\ edits \in EditNumbers /\ stops \in 0..MaxStops
  BY DEF DatabaseIInv, DatabaseTypeOK, DbRow, ProcessRow
<1>2. /\ process.step = "migrate" /\ UNCHANGED <<backups, process, candidate, owed, opened, edits, stops>>
  BY DEF Migrate
<1>3. PICK m \in Pending(db.content) :
        /\ \A k \in Pending(db.content) : m <= k
        /\ db' = [db EXCEPT !.content = Migrated(m, @)]
  BY DEF Migrate
<1>9. PICK n \in 0..Newest : WellMade(n, db.content)
  BY DEF DatabaseIInv, EditsTell, Known
<1>10. m \in Migrations /\ m - 1 = n
  <2>1. Pending(db.content) = (n + 1)..Newest
    BY <1>9 DEF Pending, WellMade, Migrations, Newest
  <2>2. n + 1 \in Pending(db.content)
    BY <1>3, <2>1 DEF Newest
  <2> QED
    BY <1>3, <2>1, <2>2 DEF Newest, Migrations
<1> DEFINE c == Migrated(m, db.content)
<1>11. /\ WellMade(m, c) /\ UserData(c) = UserData(db.content) /\ c.edit = db.content.edit
       /\ c.pairing = db.content.pairing /\ c \in Contents
  <2>1. WellMade(m - 1, db.content)
    BY <1>9, <1>10
  <2> QED
    BY <1>10, <2>1, MigrationKeeps DEF WellMade
<1> HIDE DEF c
<1>12. db'.content = c /\ db'.file = db.file /\ db' \in DbRow
  BY <1>1, <1>3, <1>11 DEF DbRow, c
<1>4. DatabaseTypeOK' /\ FirstIsOne'
  BY <1>1, <1>2, <1>12, DatabaseTypeStays
<1>5. EditsTell'
  <2>1. Known' \subseteq Known \cup {c}
    BY <1>2, <1>12 DEF Known, InHand
  <2>2. db.content \in Known /\ m \in 0..Newest
    BY <1>10 DEF Known, Migrations, Newest
  <2>3. c.edit <= edits /\ edits' = edits /\ edits <= edits'
    BY <1>1, <1>2, <1>11, <2>2, DatabaseAssumption DEF DatabaseIInv, EditsTell, EditNumbers
  <2> QED
    BY <1>1, <1>11, <2>1, <2>2, <2>3, EditsTellOn DEF DatabaseIInv
<1>6. PairingKept'
  BY <1>2, <1>11, <1>12 DEF DatabaseIInv, PairingKept, Named
<1>7. FileFits'
  BY <1>2, <1>11, <1>12 DEF DatabaseIInv, FileFits
<1>8. FoundIsKept'
  BY <1>2 DEF DatabaseIInv, FoundIsKept
<1> QED
  BY <1>4, <1>5, <1>6, <1>7, <1>8 DEF DatabaseIInv

LEMMA ServeKeeps ==
  ASSUME DatabaseIInv, Serve
  PROVE  DatabaseIInv'
<1>1. /\ db \in DbRow /\ process \in ProcessRow /\ edits \in EditNumbers /\ stops \in 0..MaxStops
  BY DEF DatabaseIInv, DatabaseTypeOK, DbRow, ProcessRow
<1>2. /\ process.step = "migrate" /\ Pending(db.content) = {}
      /\ process' = [process EXCEPT !.step = IF db.content.pairing = {} THEN "serve" ELSE "apply"]
      /\ UNCHANGED <<db, backups, candidate, owed, opened, edits, stops>>
  BY DEF Serve, Goes
<1>3. /\ process'.step = IF db.content.pairing = {} THEN "serve" ELSE "apply"
      /\ process' \in ProcessRow
  BY <1>1, <1>2 DEF ProcessRow, States
<1>4. DatabaseTypeOK' /\ FirstIsOne'
  BY <1>1, <1>2, <1>3, DatabaseTypeStays
<1>5. EditsTell'
  <2>1. Known' \subseteq Known
    BY <1>2, <1>3 DEF Known, InHand
  <2> QED
    BY <1>2, <2>1, EditsTellStays DEF DatabaseIInv
<1>6. PairingKept'
  BY <1>2, <1>3 DEF DatabaseIInv, PairingKept, Named
<1>9. db.content.applied = Migrations
  <2>1. PICK n \in 0..Newest : WellMade(n, db.content)
    BY DEF DatabaseIInv, EditsTell, Known
  <2> QED
    BY <1>2, <2>1 DEF WellMade, Pending, Migrations, Newest
<1>7. FileFits'
  BY <1>2, <1>3, <1>9 DEF DatabaseIInv, FileFits
<1>8. FoundIsKept'
  BY <1>2 DEF DatabaseIInv, FoundIsKept
<1> QED
  BY <1>4, <1>5, <1>6, <1>7, <1>8 DEF DatabaseIInv

(* What is served or applied to is in the newest schema.                        *)
LEMMA ServedIsNewest ==
  ASSUME DatabaseIInv, process.step \in {"serve", "apply"}
  PROVE  WellMade(Newest, db.content)
<1>1. PICK n \in 0..Newest : WellMade(n, db.content)
  BY DEF DatabaseIInv, EditsTell, Known
<1>2. 1..n = 1..10
  BY <1>1 DEF DatabaseIInv, FileFits, WellMade, Migrations
<1>3. n = 10
  <2>1. 10 \in 1..n
    BY <1>2
  <2> QED
    BY <2>1 DEF Newest
<1> QED
  BY <1>1, <1>3 DEF Newest

LEMMA EditKeeps ==
  ASSUME DatabaseIInv, Edit
  PROVE  DatabaseIInv'
<1>1. /\ db \in DbRow /\ process \in ProcessRow /\ edits \in EditNumbers /\ stops \in 0..MaxStops
  BY DEF DatabaseIInv, DatabaseTypeOK, DbRow, ProcessRow
<1> DEFINE c == [db.content EXCEPT !.edit = edits', !.rows = @ \cup {"note"},
                               !.typed = @ \cup {"note"}, !.stamped = @ \cup {"note"}]
<1>2. /\ process.step = "serve" /\ edits < MaxEdits /\ edits' = edits + 1
      /\ db' = [db EXCEPT !.content = c]
      /\ owed' = UserData(db'.content)
      /\ UNCHANGED <<backups, process, candidate, opened, stops>>
  BY DEF Edit, Edited
<1>3. WellMade(Newest, db.content) /\ db.content.pairing = {} /\ edits' \in EditNumbers
  BY <1>1, <1>2, ServedIsNewest, DatabaseAssumption DEF DatabaseIInv, PairingKept, EditNumbers
<1>11. WellMade(Newest, c) /\ c.edit = edits' /\ c.pairing = {} /\ c \in Contents /\ c.applied = db.content.applied
  <2> DEFINE kinds == db.content.rows \cup {"note"}
             typed == db.content.typed \cup {"note"}
             stamped == db.content.stamped \cup {"note"}
  <2>1. db.content \in Contents
    BY <1>3 DEF WellMade
  <2>2. kinds \in SUBSET RowKinds /\ typed \in SUBSET RowKinds /\ stamped \in SUBSET RowKinds
    BY <2>1 DEF Contents, RowKinds, Users
  <2>3. kinds \cap {"column", "note", "builtin"} \subseteq typed /\ kinds = stamped
    BY <1>3 DEF WellMade, Newest
  <2> HIDE DEF kinds, typed, stamped
  <2>4. c = [db.content EXCEPT !.edit = edits', !.rows = kinds, !.typed = typed, !.stamped = stamped]
    BY DEF kinds, typed, stamped
  <2>5. /\ c \in Contents /\ c.edit = edits' /\ c.pairing = {} /\ c.rows = kinds /\ c.typed = typed
        /\ c.stamped = stamped /\ c.applied = db.content.applied /\ c.identity = db.content.identity
    BY <1>3, <2>1, <2>2, <2>4 DEF Contents
  <2> QED
    BY <1>3, <2>3, <2>5 DEF WellMade, Newest
<1> HIDE DEF c
<1>12. db'.content = c /\ db'.file = db.file /\ db' \in DbRow
  BY <1>1, <1>2, <1>11 DEF DbRow
<1>4. DatabaseTypeOK' /\ FirstIsOne'
  BY <1>1, <1>2, <1>3, <1>12, DatabaseTypeStays
<1>5. EditsTell'
  <2>1. Known' \subseteq Known \cup {c}
    BY <1>2, <1>12 DEF Known, InHand
  <2>2. Newest \in 0..Newest
    BY DEF Newest
  <2>3. c.edit <= edits' /\ c.edit > edits /\ edits <= edits' /\ edits' \in EditNumbers
    BY <1>1, <1>2, <1>11, DatabaseAssumption DEF EditNumbers
  <2> QED
    BY <1>1, <1>11, <2>1, <2>2, <2>3, EditsTellOn DEF DatabaseIInv
<1>6. PairingKept'
  BY <1>2, <1>11, <1>12 DEF DatabaseIInv, PairingKept, Named
<1>7. FileFits'
  BY <1>2, <1>11, <1>12 DEF DatabaseIInv, FileFits
<1>8. FoundIsKept'
  BY <1>2 DEF DatabaseIInv, FoundIsKept
<1> QED
  BY <1>4, <1>5, <1>6, <1>7, <1>8 DEF DatabaseIInv

LEMMA ConfirmKeeps ==
  ASSUME DatabaseIInv, Confirm
  PROVE  DatabaseIInv'
<1>1. /\ db \in DbRow /\ process \in ProcessRow /\ edits \in EditNumbers /\ stops \in 0..MaxStops
  BY DEF DatabaseIInv, DatabaseTypeOK, DbRow, ProcessRow
<1>2. /\ process.step = "serve" /\ candidate' = db.content
      /\ process' = [process EXCEPT !.step = "compare", !.name = "pairing"]
      /\ UNCHANGED <<db, backups, owed, opened, edits, stops>>
  BY DEF Confirm
<1>3. process'.step = "compare" /\ process'.name = "pairing" /\ process' \in ProcessRow
  BY <1>1, <1>2 DEF ProcessRow, States, Names
<1>4. DatabaseTypeOK' /\ FirstIsOne'
  BY <1>1, <1>2, <1>3, DatabaseTypeStays
<1>5. EditsTell'
  <2>1. Known' \subseteq Known
    BY <1>2, <1>3 DEF Known, InHand
  <2> QED
    BY <1>2, <2>1, EditsTellStays DEF DatabaseIInv
<1>6. PairingKept'
  BY <1>2, <1>3 DEF DatabaseIInv, PairingKept, Named
<1>7. FileFits'
  BY <1>2, <1>3 DEF DatabaseIInv, FileFits
<1>8. FoundIsKept'
  BY <1>2 DEF DatabaseIInv, FoundIsKept
<1> QED
  BY <1>4, <1>5, <1>6, <1>7, <1>8 DEF DatabaseIInv

LEMMA ApplyKeeps ==
  ASSUME DatabaseIInv, Apply
  PROVE  DatabaseIInv'
<1>1. /\ db \in DbRow /\ process \in ProcessRow /\ edits \in EditNumbers /\ stops \in 0..MaxStops
  BY DEF DatabaseIInv, DatabaseTypeOK, DbRow, ProcessRow
<1> DEFINE c == [db.content EXCEPT !.edit = edits', !.rows = @ \ {"column", "label"},
                               !.typed = @ \ {"column"}, !.stamped = @ \ {"column", "label"}]
<1>2. /\ process.step = "apply" /\ edits < MaxEdits /\ edits' = edits + 1
      /\ db' = [db EXCEPT !.content = c]
      /\ UNCHANGED <<backups, process, candidate, owed, opened, stops>>
  BY DEF Apply, Replaced
<1>3. WellMade(Newest, db.content) /\ edits' \in EditNumbers
  BY <1>1, <1>2, ServedIsNewest, DatabaseAssumption DEF EditNumbers
<1>11. /\ WellMade(Newest, c) /\ c.edit = edits' /\ c.pairing = db.content.pairing /\ c \in Contents
       /\ c.applied = db.content.applied
  <2> DEFINE kinds == db.content.rows \ {"column", "label"}
             typed == db.content.typed \ {"column"}
             stamped == db.content.stamped \ {"column", "label"}
  <2>1. db.content \in Contents
    BY <1>3 DEF WellMade
  <2>2. kinds \in SUBSET RowKinds /\ typed \in SUBSET RowKinds /\ stamped \in SUBSET RowKinds
    BY <2>1 DEF Contents
  <2>3. kinds \cap {"column", "note", "builtin"} \subseteq typed /\ kinds = stamped
    BY <1>3 DEF WellMade, Newest
  <2> HIDE DEF kinds, typed, stamped
  <2>4. c = [db.content EXCEPT !.edit = edits', !.rows = kinds, !.typed = typed, !.stamped = stamped]
    BY DEF kinds, typed, stamped
  <2>5. /\ c \in Contents /\ c.edit = edits' /\ c.pairing = db.content.pairing
        /\ c.rows = kinds /\ c.typed = typed
        /\ c.stamped = stamped /\ c.applied = db.content.applied /\ c.identity = db.content.identity
    BY <1>3, <2>1, <2>2, <2>4 DEF Contents
  <2> QED
    BY <1>3, <2>3, <2>5 DEF WellMade, Newest
<1> HIDE DEF c
<1>12. db'.content = c /\ db'.file = db.file /\ db' \in DbRow
  BY <1>1, <1>2, <1>11 DEF DbRow
<1>4. DatabaseTypeOK' /\ FirstIsOne'
  BY <1>1, <1>2, <1>3, <1>12, DatabaseTypeStays
<1>5. EditsTell'
  <2>1. Known' \subseteq Known \cup {c}
    BY <1>2, <1>12 DEF Known, InHand
  <2>2. Newest \in 0..Newest
    BY DEF Newest
  <2>3. c.edit <= edits' /\ c.edit > edits /\ edits <= edits' /\ edits' \in EditNumbers
    BY <1>1, <1>2, <1>11, DatabaseAssumption DEF EditNumbers
  <2> QED
    BY <1>1, <1>11, <2>1, <2>2, <2>3, EditsTellOn DEF DatabaseIInv
<1>6. PairingKept'
  BY <1>2, <1>11, <1>12 DEF DatabaseIInv, PairingKept, Named
<1>7. FileFits'
  BY <1>2, <1>11, <1>12 DEF DatabaseIInv, FileFits
<1>8. FoundIsKept'
  BY <1>2 DEF DatabaseIInv, FoundIsKept
<1> QED
  BY <1>4, <1>5, <1>6, <1>7, <1>8 DEF DatabaseIInv

(* A pairing that is complete needs its backup no more.                         *)
LEMMA CompleteKeeps ==
  ASSUME DatabaseIInv, Complete
  PROVE  DatabaseIInv'
<1>1. /\ db \in DbRow /\ process \in ProcessRow /\ edits \in EditNumbers /\ stops \in 0..MaxStops
  BY DEF DatabaseIInv, DatabaseTypeOK, DbRow, ProcessRow
<1> DEFINE c == [db.content EXCEPT !.pairing = {}]
<1>2. /\ process.step = "apply"
      /\ process' = [process EXCEPT !.step = "serve"]
      /\ db' = [db EXCEPT !.content.pairing = {}]
      /\ owed' = UserData(db.content)
      /\ UNCHANGED <<backups, candidate, opened, edits, stops>>
  BY DEF Complete, Goes
<1>3. WellMade(Newest, db.content) /\ process'.step = "serve" /\ process' \in ProcessRow
  BY <1>1, <1>2, ServedIsNewest DEF ProcessRow, States
<1>11. /\ WellMade(Newest, c) /\ c.edit = db.content.edit /\ c.pairing = {} /\ c \in Contents
       /\ c.applied = db.content.applied /\ UserData(c) = UserData(db.content)
  <2>1. db.content \in Contents
    BY <1>3 DEF WellMade
  <2>2. /\ c \in Contents /\ c.edit = db.content.edit /\ c.pairing = {}
        /\ c.rows = db.content.rows /\ c.typed = db.content.typed
        /\ c.stamped = db.content.stamped /\ c.applied = db.content.applied
        /\ c.identity = db.content.identity
    BY <2>1 DEF Contents
  <2> QED
    BY <1>3, <2>2 DEF WellMade, UserData
<1>12. db'.content = c /\ db'.file = db.file /\ db' \in DbRow
  <2>1. db' = [db EXCEPT !.content = c]
    BY <1>1, <1>2 DEF DbRow
  <2> HIDE DEF c
  <2> QED
    BY <1>1, <1>11, <2>1 DEF DbRow
<1> HIDE DEF c
<1>4. DatabaseTypeOK' /\ FirstIsOne'
  BY <1>1, <1>2, <1>3, <1>12, DatabaseTypeStays
<1>5. EditsTell'
  <2>1. Known' \subseteq Known \cup {c}
    BY <1>2, <1>3, <1>12 DEF Known, InHand
  <2>2. Newest \in 0..Newest /\ db.content \in Known
    BY DEF Newest, Known
  <2>3. c.edit <= edits /\ edits' = edits /\ edits <= edits'
    BY <1>1, <1>2, <1>11, <2>2, DatabaseAssumption DEF DatabaseIInv, EditsTell, EditNumbers
  <2> QED
    BY <1>1, <1>11, <2>1, <2>2, <2>3, EditsTellOn DEF DatabaseIInv
<1>6. PairingKept'
  BY <1>2, <1>3, <1>11, <1>12 DEF DatabaseIInv, PairingKept, Named
<1>7. FileFits'
  BY <1>2, <1>3, <1>11, <1>12 DEF DatabaseIInv, FileFits
<1>8. FoundIsKept'
  BY <1>2 DEF DatabaseIInv, FoundIsKept
<1> QED
  BY <1>4, <1>5, <1>6, <1>7, <1>8 DEF DatabaseIInv

(* The backup that is restored is one of the pairing that is undone: no other   *)
(* data has its edit.                                                           *)
LEMMA BeginCopyKeeps ==
  ASSUME DatabaseIInv, BeginCopy
  PROVE  DatabaseIInv'
<1>1. /\ db \in DbRow /\ process \in ProcessRow /\ edits \in EditNumbers /\ stops \in 0..MaxStops
  BY DEF DatabaseIInv, DatabaseTypeOK, DbRow, ProcessRow
<1>2. /\ process.step = "apply" /\ db.content.pairing # {}
      /\ db' = [db EXCEPT !.file = "torn"]
      /\ process' = [process EXCEPT !.step = "copy"]
      /\ UNCHANGED <<backups, owed, opened, edits, stops>>
  BY DEF BeginCopy, Goes
<1>9. PICK b \in Named("pairing") : {b.content.edit} = db.content.pairing /\ candidate' = b.content
  BY DEF BeginCopy
<1>3. /\ db'.content = db.content /\ db'.file = "torn" /\ db' \in DbRow
      /\ process'.step = "copy" /\ process'.name = process.name /\ process' \in ProcessRow
  BY <1>1, <1>2 DEF DbRow, ProcessRow, States
<1>4. DatabaseTypeOK' /\ FirstIsOne'
  BY <1>1, <1>2, <1>3, DatabaseTypeStays
<1>10. candidate' \in Known
  BY <1>9 DEF Known, Named
<1>5. EditsTell'
  <2>1. Known' \subseteq Known
    BY <1>2, <1>3, <1>10 DEF Known, InHand
  <2> QED
    BY <1>2, <2>1, EditsTellStays DEF DatabaseIInv
<1>11. candidate'.pairing = {} /\ UserData(candidate') = owed
  <2>1. PICK d \in Named("pairing") : {d.content.edit} = db.content.pairing /\ UserData(d.content) = owed
    BY <1>2 DEF DatabaseIInv, PairingKept
  <2>2. d.content \in Known /\ d.content.edit = candidate'.edit
    BY <1>9, <2>1 DEF Known, Named
  <2>3. UserData(candidate') = UserData(d.content)
    BY <1>10, <2>2 DEF DatabaseIInv, EditsTell
  <2> QED
    BY <1>9, <2>1, <2>3 DEF DatabaseIInv, PairingKept
<1>6. PairingKept'
  <2>1. UserData(candidate)' = UserData(candidate')
    BY DEF UserData
  <2> QED
    BY <1>2, <1>3, <1>11, <2>1 DEF DatabaseIInv, PairingKept, Named
<1>7. FileFits'
  BY <1>2, <1>3 DEF DatabaseIInv, FileFits
<1>8. FoundIsKept'
  BY <1>2 DEF DatabaseIInv, FoundIsKept
<1> QED
  BY <1>4, <1>5, <1>6, <1>7, <1>8 DEF DatabaseIInv

LEMMA EndCopyKeeps ==
  ASSUME DatabaseIInv, EndCopy
  PROVE  DatabaseIInv'
<1>1. /\ db \in DbRow /\ process \in ProcessRow /\ edits \in EditNumbers /\ stops \in 0..MaxStops
  BY DEF DatabaseIInv, DatabaseTypeOK, DbRow, ProcessRow
<1>2. /\ process.step = "copy"
      /\ db' = [file |-> "whole", content |-> candidate]
      /\ process' = [step |-> "open", existed |-> TRUE, name |-> "phase-10"]
      /\ UNCHANGED <<backups, candidate, owed, opened, edits, stops>>
  BY DEF EndCopy
<1>9. candidate \in Known
  BY <1>2 DEF Known, InHand
<1>3. /\ db'.content = candidate /\ db'.file = "whole" /\ db' \in DbRow
      /\ process'.step = "open" /\ process'.name = "phase-10" /\ process' \in ProcessRow
  <2>1. candidate \in Contents
    BY <1>9 DEF DatabaseIInv, EditsTell, WellMade
  <2> QED
    BY <1>2, <2>1 DEF DbRow, ProcessRow, States, Names
<1>4. DatabaseTypeOK' /\ FirstIsOne'
  BY <1>1, <1>2, <1>3, DatabaseTypeStays
<1>5. EditsTell'
  <2>1. Known' \subseteq Known
    BY <1>2, <1>3, <1>9 DEF Known, InHand
  <2> QED
    BY <1>2, <2>1, EditsTellStays DEF DatabaseIInv
<1>6. PairingKept'
  <2>1. candidate.pairing = {} /\ UserData(candidate) = owed
    BY <1>2 DEF DatabaseIInv, PairingKept
  <2>2. UserData(db.content)' = UserData(candidate)
    BY <1>3 DEF UserData
  <2> QED
    BY <1>2, <1>3, <2>1, <2>2 DEF DatabaseIInv, PairingKept, Named
<1>7. FileFits'
  <2>1. candidate.pairing = {}
    BY <1>2 DEF DatabaseIInv, PairingKept
  <2> QED
    BY <1>2, <1>3, <2>1 DEF DatabaseIInv, FileFits
<1>8. FoundIsKept'
  BY <1>2 DEF DatabaseIInv, FoundIsKept
<1> QED
  BY <1>4, <1>5, <1>6, <1>7, <1>8 DEF DatabaseIInv

LEMMA StopKeeps ==
  ASSUME DatabaseIInv, Stop
  PROVE  DatabaseIInv'
<1>1. /\ db \in DbRow /\ process \in ProcessRow /\ edits \in EditNumbers /\ stops \in 0..MaxStops
  BY DEF DatabaseIInv, DatabaseTypeOK, DbRow, ProcessRow
<1>2. /\ process' = [process EXCEPT !.step = "down"]
      /\ stops < MaxStops /\ stops' = stops + 1
      /\ UNCHANGED <<db, backups, candidate, owed, opened, edits>>
  BY DEF Stop
<1>3. process'.step = "down" /\ process' \in ProcessRow /\ stops' \in 0..MaxStops
  BY <1>1, <1>2, DatabaseAssumption DEF ProcessRow, States
<1>4. DatabaseTypeOK' /\ FirstIsOne'
  BY <1>1, <1>2, <1>3, DatabaseTypeStays
<1>5. EditsTell'
  <2>1. Known' \subseteq Known
    BY <1>2, <1>3 DEF Known, InHand
  <2> QED
    BY <1>2, <2>1, EditsTellStays DEF DatabaseIInv
<1>6. PairingKept'
  BY <1>2, <1>3 DEF DatabaseIInv, PairingKept, Named
<1>7. FileFits'
  BY <1>2, <1>3 DEF DatabaseIInv, FileFits
<1>8. FoundIsKept'
  BY <1>2, <1>3 DEF DatabaseIInv, FoundIsKept
<1> QED
  BY <1>4, <1>5, <1>6, <1>7, <1>8 DEF DatabaseIInv

(* The strengthened invariant of the database and its backups: the edit of a    *)
(* backup tells the data in it, a pairing under way has one of what was owed,   *)
(* and what a version found was backed up before anything destructive.          *)
THEOREM DatabaseInvariance == DatabaseSpec => []DatabaseIInv
<1>1. DatabaseInit => DatabaseIInv
  BY DatabaseInitHolds
<1>2. DatabaseIInv /\ [DatabaseNext]_dbVars => DatabaseIInv'
  <2> SUFFICES ASSUME DatabaseIInv, [DatabaseNext]_dbVars PROVE DatabaseIInv'
    OBVIOUS
  <2>1. CASE UNCHANGED dbVars
    BY <2>1 DEF dbVars, DatabaseIInv, DatabaseTypeOK, FirstIsOne, EditsTell, Known, InHand,
                PairingKept, Named, FileFits, FoundIsKept
  <2> QED
    BY <2>1, OpenKeeps, WriteCandidateKeeps, NoBackupKeeps, PublishKeeps, MigrateKeeps, ServeKeeps,
       EditKeeps, ConfirmKeeps, ApplyKeeps, CompleteKeeps, BeginCopyKeeps, EndCopyKeeps, StopKeeps
       DEF DatabaseNext
<1> QED
  BY <1>1, <1>2, PTL DEF DatabaseSpec

(* However often starts, upgrades, pairings and restores are interrupted: the   *)
(* user's data can be read from the file or from a backup, so can what an       *)
(* upgrade with destructive migrations found, and what is served is in the      *)
(* newest schema (DatabaseService, DatabaseBackupService).                      *)
THEOREM DataIsKept == DatabaseSpec => []DataKept
<1>1. DatabaseIInv => DataKept
  <2> SUFFICES ASSUME DatabaseIInv PROVE DataKept
    OBVIOUS
  <2>1. ASSUME owed # UserData(Empty) PROVE \E c \in Recoverable : UserData(c) = owed
    <3>1. CASE db.content.pairing = {} /\ db.file = "whole"
      BY <3>1 DEF DatabaseIInv, PairingKept, Recoverable
    <3>2. CASE db.content.pairing # {}
      BY <3>2 DEF DatabaseIInv, PairingKept, Recoverable, Named
    <3>3. CASE db.content.pairing = {} /\ db.file = "absent"
      BY <2>1, <3>3 DEF DatabaseIInv, PairingKept, FileFits
    <3> QED
      BY <3>1, <3>2, <3>3 DEF DatabaseIInv, DatabaseTypeOK, FileFits
  <2>2. ASSUME opened.rows # {}, (db.content.applied \ opened.applied) \cap RequiresBackup # {}
        PROVE  opened \in Recoverable
    BY <2>2 DEF DatabaseIInv, FoundIsKept, Recoverable
  <2>3. ASSUME process.step \in {"serve", "apply"}
        PROVE  /\ db.file = "whole" /\ db.content.applied = Migrations /\ db.content.identity
               /\ db.content.rows = db.content.stamped
               /\ db.content.rows \cap {"column", "note", "builtin"} \subseteq db.content.typed
    BY <2>3, ServedIsNewest DEF WellMade, Newest, DatabaseIInv, FileFits
  <2> QED
    BY <2>1, <2>2, <2>3 DEF DataKept
<1> QED
  BY <1>1, DatabaseInvariance, PTL

-----------------------------------------------------------------------------
(* NotesPage: what a list was told of, it shows or is still asking for. What a  *)
(* fetch will read or has read is no older than that, because an invalidation   *)
(* restarts the fetch under way; a list off display is not fetched, and nobody  *)
(* was ever told of more than has happened.                                     *)

KeepsUp(f) ==
  \/ lists[f].fetch = Asked
  \/ lists[f].fetch >= expected[f]
  \/ lists[f].fetch = Nothing /\ (lists[f].error \/ lists[f].data >= expected[f])

PageIInv ==
  /\ PageTypeOK
  /\ server.brought <= server.updates /\ status.read.brought <= server.updates
  /\ \A c \in Callers : calls[c].told <= server.updates
  /\ \A f \in Filters :
       /\ lists[f].fetch <= server.updates /\ expected[f] <= server.updates
       /\ lists[f].data = Nothing => expected[f] = 0
       /\ view.shows # f => lists[f].fetch = Nothing
       /\ view.shows = f /\ lists[f].data # Nothing => KeepsUp(f)

ListRow == [data : {Nothing} \cup Updates, error : BOOLEAN, fetch : {Nothing, Asked} \cup Updates]

(* The part of the invariant that is about the lists, for lists that become ls  *)
(* while what they were told of becomes ex and the display goes to shows.       *)
ListsHold(ls, ex, shows) ==
  /\ ls \in [Filters -> ListRow] /\ ex \in [Filters -> Updates]
  /\ \A f \in Filters :
       /\ ls[f].fetch <= server.updates /\ ex[f] <= server.updates
       /\ ls[f].data = Nothing => ex[f] = 0
       /\ shows # f => ls[f].fetch = Nothing
       /\ shows = f /\ ls[f].data # Nothing =>
            \/ ls[f].fetch = Asked
            \/ ls[f].fetch >= ex[f]
            \/ ls[f].fetch = Nothing /\ (ls[f].error \/ ls[f].data >= ex[f])

(* An invalidation of all lists, told of n.                                     *)
LEMMA InvalidationKeeps ==
  ASSUME PageIInv, NEW n \in {Nothing} \cup Updates, n <= server.updates
  PROVE  ListsHold(InvalidatedLists, Told(n), view.shows)
<1> USE PageAssumption DEF Nothing, Asked, Updates
<1>1. lists \in [Filters -> ListRow] /\ expected \in [Filters -> Updates] /\ server.updates \in Updates
  BY DEF PageIInv, PageTypeOK, ListRow
<1>2. ASSUME NEW f \in Filters
      PROVE  /\ InvalidatedLists[f] \in ListRow
             /\ InvalidatedLists[f].data = lists[f].data
             /\ InvalidatedLists[f].fetch <= server.updates
             /\ view.shows # f => InvalidatedLists[f] = lists[f]
             /\ view.shows = f /\ lists[f].data # Nothing => InvalidatedLists[f].fetch = Asked
  <2>1. lists[f] \in ListRow /\ lists[f].fetch <= server.updates
    BY <1>1 DEF PageIInv
  <2>2. [lists[f] EXCEPT !.fetch = Asked] \in ListRow
    BY <2>1 DEF ListRow
  <2> QED
    BY <1>1, <2>1, <2>2 DEF InvalidatedLists, Fetched, ListRow
<1>3. ASSUME NEW f \in Filters
      PROVE  /\ Told(n)[f] \in Updates /\ Told(n)[f] <= server.updates
             /\ lists[f].data = Nothing => Told(n)[f] = expected[f]
  BY <1>1 DEF Told, PageIInv
<1>4. InvalidatedLists \in [Filters -> ListRow] /\ Told(n) \in [Filters -> Updates]
  BY <1>2, <1>3 DEF InvalidatedLists, Told
<1> QED
  BY <1>2, <1>3, <1>4 DEF ListsHold, PageIInv

(* A step that leaves lists, expectations and display as they are.              *)
LEMMA ListsStay ==
  ASSUME PageIInv
  PROVE  ListsHold(lists, expected, view.shows)
BY DEF PageIInv, PageTypeOK, ListsHold, ListRow, KeepsUp

(* What such lists make of the invariant, when the rest of the state is right.  *)
LEMMA PageStays ==
  ASSUME PageIInv, ListsHold(lists', expected', view'.shows),
         server' \in [updates : Updates, brought : Updates, revision : 0..MaxRuns,
                      enabled : BOOLEAN, ready : BOOLEAN],
         server.updates <= server'.updates, server'.brought <= server'.updates,
         status' \in [fetch : Flows, read : StatusDtos, answer : StatusDtos],
         status'.read.brought <= server'.updates,
         view' \in [shows : Filters \cup {NoDisplay}, mounted : BOOLEAN, offline : BOOLEAN,
                    previous : {Nothing} \cup 0..MaxRuns],
         calls' \in [Callers -> [of : Requests, told : {Nothing, Asked} \cup Updates]],
         \A c \in Callers : calls'[c].told <= server'.updates,
         losses' \in 0..MaxLosses
  PROVE  PageIInv'
<1> USE PageAssumption DEF Updates, Nothing, Asked
<1>1. PageTypeOK'
  BY DEF PageTypeOK, ListsHold, ListRow
<1>2. ASSUME NEW f \in Filters
      PROVE  lists'[f].fetch <= server'.updates /\ expected'[f] <= server'.updates
  <2>1. /\ lists'[f].fetch <= server.updates /\ expected'[f] <= server.updates
        /\ lists'[f] \in ListRow /\ expected'[f] \in Updates
    BY DEF ListsHold
  <2>2. lists'[f].fetch \in Int /\ expected'[f] \in Int
    BY <2>1 DEF ListRow
  <2>3. server.updates \in Int /\ server'.updates \in Int
    BY DEF PageIInv, PageTypeOK
  <2> QED
    BY <2>1, <2>2, <2>3
<1> QED
  BY <1>1, <1>2 DEF PageIInv, KeepsUp, ListsHold

(* What a run, successful or not, and a change of the setting make of the       *)
(* backend.                                                                     *)
ServerRow == [updates : Updates, brought : Updates, revision : 0..MaxRuns,
              enabled : BOOLEAN, ready : BOOLEAN]

LEMMA RunsKeep ==
  ASSUME NEW s \in ServerRow, s.brought <= s.updates, NEW enabled \in BOOLEAN, NEW t,
         \/ s.revision < MaxRuns /\ t = RunSucceeded([s EXCEPT !.enabled = enabled])
         \/ s.revision < MaxRuns /\ t = RunSucceeded(s)
         \/ t = RunFailed(s)
         \/ t = [s EXCEPT !.enabled = enabled]
  PROVE  t \in ServerRow /\ t.updates = s.updates /\ t.brought <= t.updates
<1> USE PageAssumption DEF Updates
<1> DEFINE r == [s EXCEPT !.enabled = enabled]
<1>1. r \in ServerRow /\ r.updates = s.updates /\ r.brought = s.brought /\ r.revision = s.revision
  BY DEF ServerRow
<1>2. ASSUME NEW q \in ServerRow, q.revision < MaxRuns, t = RunSucceeded(q)
      PROVE  t \in ServerRow /\ t.updates = q.updates /\ t.brought = q.updates
  <2>1. q.revision + 1 \in 0..MaxRuns /\ q.updates \in Updates
    BY <1>2 DEF ServerRow
  <2>2. t = [q EXCEPT !.revision = q.revision + 1, !.brought = q.updates, !.ready = TRUE]
    BY <1>2 DEF RunSucceeded
  <2> HIDE DEF Updates
  <2> QED
    BY <2>1, <2>2 DEF ServerRow
<1>3. CASE t = RunFailed(s)
  BY <1>3 DEF RunFailed, ServerRow
<1> HIDE DEF r
<1>4. \A q \in ServerRow : q.updates \in Nat
  BY DEF ServerRow
<1>5. CASE s.revision < MaxRuns /\ t = RunSucceeded(r)
  BY <1>1, <1>2, <1>4, <1>5
<1>6. CASE s.revision < MaxRuns /\ t = RunSucceeded(s)
  BY <1>2, <1>4, <1>6
<1>7. CASE t = r
  BY <1>1, <1>7
<1> QED
  BY <1>3, <1>5, <1>6, <1>7 DEF r

LEMMA PageInitHolds == PageInit => PageIInv
<1> SUFFICES ASSUME PageInit PROVE PageIInv
  OBVIOUS
<1> USE PageAssumption DEF Nothing, Asked, Updates
<1>1. server \in [updates : Updates, brought : Updates, revision : 0..MaxRuns,
                  enabled : BOOLEAN, ready : BOOLEAN]
  <2>1. \E enabled \in BOOLEAN :
          server = [updates |-> 0, brought |-> 0, revision |-> 0, enabled |-> enabled, ready |-> FALSE]
    BY DEF PageInit
  <2> QED
    BY <2>1
<1>2. NoStatus \in StatusDtos /\ NoStatus.brought = 0
  BY DEF NoStatus, StatusDtos
<1>3. status \in [fetch : Flows, read : StatusDtos, answer : StatusDtos] /\ status.read = NoStatus
  BY <1>2 DEF PageInit, Flows
<1>4. EmptyList \in ListRow /\ EmptyList.data = Nothing /\ EmptyList.fetch = Nothing
  BY DEF EmptyList, ListRow
<1>5. lists \in [Filters -> ListRow] /\ expected \in [Filters -> Updates] /\ losses \in 0..MaxLosses
  BY <1>4 DEF PageInit
<1>6. view \in [shows : Filters \cup {NoDisplay}, mounted : BOOLEAN, offline : BOOLEAN,
                previous : {Nothing} \cup 0..MaxRuns]
  BY DEF PageInit
<1>7. calls \in [Callers -> [of : Requests, told : {Nothing, Asked} \cup Updates]]
  BY DEF PageInit, NoCall, Requests
<1>8. PageTypeOK
  BY <1>1, <1>3, <1>5, <1>6, <1>7 DEF PageTypeOK, ListRow
<1>9. server.brought = 0 /\ server.updates = 0 /\ status.read.brought = 0
  BY <1>2, <1>3 DEF PageInit
<1>10. \A c \in Callers : calls[c].told = Nothing
  BY DEF PageInit, NoCall
<1>11. \A f \in Filters : lists[f] = EmptyList /\ expected[f] = 0
  BY DEF PageInit
<1> QED
  BY <1>4, <1>8, <1>9, <1>10, <1>11 DEF PageIInv

(* The answer of a status query.                                                *)
LEMMA StatusArrivalKeeps ==
  ASSUME PageIInv, StatusAnswered
  PROVE  PageIInv'
<1> USE PageAssumption DEF Nothing, Asked, Updates
<1> DEFINE s == status.read
           shown == IsReady(s, view.offline)
           told == /\ view.mounted /\ shown /\ view.previous # Nothing
                   /\ view.previous # s.revision
<1>1. /\ status \in [fetch : Flows, read : StatusDtos, answer : StatusDtos]
      /\ s \in StatusDtos /\ s.brought \in Updates /\ s.brought <= server.updates
      /\ s.revision \in {Nothing} \cup 0..MaxRuns
      /\ view \in [shows : Filters \cup {NoDisplay}, mounted : BOOLEAN, offline : BOOLEAN,
                   previous : {Nothing} \cup 0..MaxRuns]
      /\ UNCHANGED <<server, calls, losses>>
  BY DEF PageIInv, PageTypeOK, StatusAnswered, StatusDtos
<1>2. /\ status' = [fetch |-> "none", read |-> NoStatus, answer |-> s]
      /\ view' = [view EXCEPT !.mounted = shown, !.shows = IF shown THEN @ ELSE NoDisplay,
                              !.previous = IF shown THEN s.revision ELSE Nothing]
      /\ lists' = IF told THEN InvalidatedLists
                  ELSE IF shown \/ view.shows = NoDisplay THEN lists
                  ELSE [lists EXCEPT ![view.shows] = Unshown(view.shows)]
      /\ expected' = IF told THEN Told(s.brought) ELSE expected
  BY DEF StatusAnswered, StatusArrives, Noticed
<1> shown \in BOOLEAN
  BY DEF IsReady
<1> HIDE DEF shown
<1>3. /\ view' \in [shows : Filters \cup {NoDisplay}, mounted : BOOLEAN, offline : BOOLEAN,
                    previous : {Nothing} \cup 0..MaxRuns]
      /\ view'.shows = IF shown THEN view.shows ELSE NoDisplay
  <2>1. CASE shown
    BY <1>1, <1>2, <2>1
  <2>2. CASE ~shown
    BY <1>1, <1>2, <2>2
  <2> QED
    BY <2>1, <2>2
<1>4. NoStatus \in StatusDtos /\ NoStatus.brought = 0
  BY DEF NoStatus, StatusDtos
<1>5. /\ status' \in [fetch : Flows, read : StatusDtos, answer : StatusDtos]
      /\ status'.read.brought <= server.updates
  BY <1>1, <1>2, <1>4 DEF Flows, PageIInv, PageTypeOK
<1>6. ListsHold(lists', expected', view'.shows)
  <2>1. CASE told
    BY <1>1, <1>2, <1>3, <2>1, InvalidationKeeps
  <2>2. CASE ~told /\ (shown \/ view.shows = NoDisplay)
    BY <1>2, <1>3, <2>2, ListsStay
  <2>3. CASE ~shown /\ view.shows # NoDisplay
    <3>1. view.shows \in Filters /\ ListsHold(lists, expected, view.shows)
      BY <1>1, <2>3, ListsStay
    <3>2. /\ Unshown(view.shows) \in ListRow /\ Unshown(view.shows).fetch = Nothing
          /\ Unshown(view.shows).data = lists[view.shows].data
      BY <3>1 DEF ListsHold, ListRow, Unshown
    <3>3. lists' = [lists EXCEPT ![view.shows] = Unshown(view.shows)] /\ expected' = expected
      BY <1>2, <2>3
    <3>4. server.updates \in Nat /\ view'.shows = NoDisplay
      BY <1>3, <2>3 DEF PageIInv, PageTypeOK
    <3> QED
      BY <3>1, <3>2, <3>3, <3>4 DEF ListsHold
  <2> QED
    BY <2>1, <2>2, <2>3
<1> QED
  BY <1>1, <1>3, <1>5, <1>6, PageStays DEF PageIInv, PageTypeOK

(* A request that is answered with success.                                     *)
LEMMA SuccessKeeps ==
  ASSUME PageIInv, NEW c \in Callers, Succeeds(c)
  PROVE  PageIInv'
<1> USE PageAssumption DEF Nothing, Asked, Updates
<1>1. /\ calls \in [Callers -> [of : Requests, told : {Nothing, Asked} \cup Updates]]
      /\ calls[c].told \in Updates /\ calls[c].told <= server.updates
      /\ UNCHANGED <<server, view, losses>>
  BY DEF PageIInv, PageTypeOK, Succeeds
<1>2. ListsHold(lists', expected', view'.shows)
  BY <1>1, InvalidationKeeps DEF Succeeds
<1>3. NoStatus \in StatusDtos /\ NoStatus.brought = 0
  BY DEF NoStatus, StatusDtos
<1>4. /\ status \in [fetch : Flows, read : StatusDtos, answer : StatusDtos]
      /\ status.read.brought <= server.updates /\ server.updates \in Updates
  BY DEF PageIInv, PageTypeOK
<1>5. status' = status \/ status' = [status EXCEPT !.fetch = "asked", !.read = NoStatus]
  BY DEF Succeeds
<1>6. /\ status' \in [fetch : Flows, read : StatusDtos, answer : StatusDtos]
      /\ status'.read.brought <= server.updates
  <2>1. CASE status' = status
    BY <1>4, <2>1
  <2>2. CASE status' = [status EXCEPT !.fetch = "asked", !.read = NoStatus]
    <3>1. status' = [fetch |-> "asked", read |-> NoStatus, answer |-> status.answer]
      BY <1>4, <2>2
    <3>2. status.answer \in StatusDtos /\ "asked" \in Flows
      BY <1>4 DEF Flows
    <3> QED
      BY <1>3, <1>4, <3>1, <3>2
  <2> QED
    BY <1>5, <2>1, <2>2
<1>7. NoCall \in [of : Requests, told : {Nothing, Asked} \cup Updates] /\ NoCall.told = Nothing
  BY DEF NoCall, Requests
<1>8. /\ calls' \in [Callers -> [of : Requests, told : {Nothing, Asked} \cup Updates]]
      /\ \A d \in Callers : calls'[d].told <= server.updates
  BY <1>1, <1>4, <1>7 DEF Succeeds, PageIInv
<1> QED
  BY <1>1, <1>2, <1>6, <1>8, PageStays DEF PageIInv, PageTypeOK

LEMMA PageStepKeeps == PageIInv /\ [PageNext]_pageVars => PageIInv'
<1> SUFFICES ASSUME PageIInv, [PageNext]_pageVars PROVE PageIInv'
  OBVIOUS
<1> USE PageAssumption DEF Nothing, Asked, Updates
<1>1. /\ server \in [updates : Updates, brought : Updates, revision : 0..MaxRuns,
                     enabled : BOOLEAN, ready : BOOLEAN]
      /\ server.brought <= server.updates
  BY DEF PageIInv, PageTypeOK
<1>2. /\ status \in [fetch : Flows, read : StatusDtos, answer : StatusDtos]
      /\ status.read.brought <= server.updates
  BY DEF PageIInv, PageTypeOK
<1>3. view \in [shows : Filters \cup {NoDisplay}, mounted : BOOLEAN, offline : BOOLEAN,
                previous : {Nothing} \cup 0..MaxRuns]
  BY DEF PageIInv, PageTypeOK
<1>4. /\ calls \in [Callers -> [of : Requests, told : {Nothing, Asked} \cup Updates]]
      /\ \A c \in Callers : calls[c].told <= server.updates
      /\ losses \in 0..MaxLosses
  BY DEF PageIInv, PageTypeOK
<1>5. ListsHold(lists, expected, view.shows)
  BY ListsStay
<1>6. NoStatus \in StatusDtos /\ NoStatus.brought = 0
  BY DEF NoStatus, StatusDtos
<1>7. EmptyList \in ListRow /\ EmptyList.data = Nothing /\ EmptyList.fetch = Nothing
  BY DEF EmptyList, ListRow
<1>8. CASE PollStatus
  <2>1. /\ status' \in [fetch : Flows, read : StatusDtos, answer : StatusDtos]
        /\ status'.read = status.read
    BY <1>2, <1>8 DEF PollStatus, Flows
  <2> QED
    BY <1>1, <1>2, <1>3, <1>4, <1>5, <1>8, <2>1, PageStays DEF PollStatus
<1>9. CASE ReadStatus
  <2>1. Status \in StatusDtos /\ Status.brought = server.brought
    BY <1>1 DEF Status, StatusDtos
  <2>2. /\ status' \in [fetch : Flows, read : StatusDtos, answer : StatusDtos]
        /\ status'.read = Status
    BY <1>2, <1>9, <2>1 DEF ReadStatus, Flows
  <2> QED
    BY <1>1, <1>3, <1>4, <1>5, <1>9, <2>1, <2>2, PageStays DEF ReadStatus
<1>10. CASE StatusAnswered
  BY <1>10, StatusArrivalKeeps
<1>11. CASE StatusFails
  <2>1. /\ status' \in [fetch : Flows, read : StatusDtos, answer : StatusDtos]
        /\ status'.read = NoStatus
    BY <1>2, <1>6, <1>11 DEF StatusFails, Flows
  <2>2. losses' \in 0..MaxLosses
    BY <1>4, <1>11 DEF StatusFails
  <2> QED
    BY <1>1, <1>3, <1>4, <1>5, <1>6, <1>11, <2>1, <2>2, PageStays DEF StatusFails
<1>12. CASE WorkOffline
  <2>1. status.answer.revision \in {Nothing} \cup 0..MaxRuns
    BY <1>2 DEF StatusDtos
  <2>2. /\ view' \in [shows : Filters \cup {NoDisplay}, mounted : BOOLEAN, offline : BOOLEAN,
                      previous : {Nothing} \cup 0..MaxRuns]
        /\ view'.shows = view.shows
    BY <1>3, <1>12, <2>1 DEF WorkOffline
  <2>3. /\ status' \in [fetch : Flows, read : StatusDtos, answer : StatusDtos]
        /\ status'.read = status.read
    BY <1>2, <1>12 DEF WorkOffline, Flows
  <2> QED
    BY <1>1, <1>2, <1>4, <1>5, <1>12, <2>2, <2>3, PageStays DEF WorkOffline
<1>13. ASSUME NEW f \in Filters \cup {NoDisplay}, Show(f) PROVE PageIInv'
  <2>1. /\ view' \in [shows : Filters \cup {NoDisplay}, mounted : BOOLEAN, offline : BOOLEAN,
                      previous : {Nothing} \cup 0..MaxRuns]
        /\ view'.shows = f
    BY <1>3, <1>13 DEF Show
  <2>2. ASSUME NEW g \in Filters
        PROVE  /\ lists'[g] \in ListRow /\ lists'[g].fetch <= server.updates
               /\ lists'[g].data = lists[g].data
               /\ g # f => lists'[g].fetch = Nothing
               /\ g = f /\ lists[g].data # Nothing => lists'[g].fetch = Asked
    <3>1. /\ lists[g] \in ListRow /\ lists[g].fetch <= server.updates
          /\ view.shows # g => lists[g].fetch = Nothing
      BY <1>5 DEF ListsHold
    <3>2. CASE g = f
      <4>1. lists'[g] = [lists[g] EXCEPT !.fetch = Asked]
        BY <1>13, <3>1, <3>2 DEF Show, Fetched
      <4> QED
        BY <1>1, <3>1, <3>2, <4>1 DEF ListRow
    <3>3. CASE g # f /\ g = view.shows
      <4>1. lists'[g] = [lists[g] EXCEPT !.fetch = Nothing]
        BY <1>13, <3>3 DEF Show, Unshown
      <4> QED
        BY <1>1, <3>1, <3>3, <4>1 DEF ListRow
    <3>4. CASE g # f /\ g # view.shows
      BY <1>13, <3>1, <3>4 DEF Show
    <3> QED
      BY <3>2, <3>3, <3>4
  <2>3. lists' \in [Filters -> ListRow] /\ expected' = expected
    BY <1>13, <2>2 DEF Show
  <2>4. ListsHold(lists', expected', f)
    BY <1>5, <2>2, <2>3 DEF ListsHold
  <2> QED
    BY <1>1, <1>2, <1>4, <1>13, <2>1, <2>4, PageStays DEF Show
<1>14. ASSUME NEW f \in Filters, ReadList(f) PROVE PageIInv'
  <2>1. /\ lists' = [lists EXCEPT ![f].fetch = server.updates]
        /\ lists[f].fetch = Asked /\ expected' = expected
    BY <1>14 DEF ReadList
  <2>2. ListsHold(lists', expected', view.shows)
    BY <1>1, <1>5, <2>1 DEF ListsHold, ListRow
  <2> QED
    BY <1>1, <1>2, <1>3, <1>4, <1>14, <2>2, PageStays DEF ReadList
<1>15. ASSUME NEW f \in Filters, ListAnswered(f) PROVE PageIInv'
  <2>1. /\ lists' = [lists EXCEPT ![f] = [EmptyList EXCEPT !.data = lists[f].fetch]]
        /\ lists[f].fetch >= 0 /\ expected' = expected
    BY <1>15 DEF ListAnswered
  <2>3. lists[f] \in ListRow
    BY <1>5 DEF ListsHold
  <2> DEFINE row == [EmptyList EXCEPT !.data = lists[f].fetch]
  <2>2. row \in ListRow /\ row.data = lists[f].fetch /\ row.fetch = Nothing
    BY <1>7, <2>1, <2>3 DEF ListRow
  <2> HIDE DEF row
  <2>4. lists[f].data = Nothing => lists[f].fetch >= expected[f]
    BY <1>5, <2>1, <2>3 DEF ListsHold, ListRow
  <2>5. view.shows = f => lists[f].fetch >= expected[f]
    BY <1>5, <2>1, <2>3, <2>4 DEF ListsHold, ListRow
  <2>6. /\ lists'[f] \in ListRow /\ lists'[f].fetch = Nothing /\ lists'[f].data = lists[f].fetch
        /\ \A g \in Filters : g # f => lists'[g] = lists[g]
        /\ lists' \in [Filters -> ListRow]
    <3>1. lists' = [lists EXCEPT ![f] = row] /\ lists \in [Filters -> ListRow]
      BY <1>5, <2>1 DEF ListsHold, row
    <3> QED
      BY <2>2, <3>1
  <2>7. ListsHold(lists', expected', view.shows)
    BY <1>1, <1>5, <2>1, <2>5, <2>6 DEF ListsHold
  <2> QED
    BY <1>1, <1>2, <1>3, <1>4, <1>15, <2>7, PageStays DEF ListAnswered
<1>16. ASSUME NEW f \in Filters, ListFails(f) PROVE PageIInv'
  <2>1. /\ lists' = [lists EXCEPT ![f].fetch = Nothing, ![f].error = TRUE]
        /\ expected' = expected
    BY <1>16 DEF ListFails
  <2>4. lists \in [Filters -> ListRow] /\ lists[f] \in ListRow
    BY <1>5 DEF ListsHold
  <2>5. /\ lists'[f] \in ListRow /\ lists'[f].data = lists[f].data
        /\ lists'[f].fetch = Nothing /\ lists'[f].error
        /\ \A g \in Filters : g # f => lists'[g] = lists[g]
        /\ lists' \in [Filters -> ListRow]
    BY <2>1, <2>4 DEF ListRow
  <2>2. ListsHold(lists', expected', view.shows)
    BY <1>1, <1>5, <2>1, <2>5 DEF ListsHold
  <2>3. losses' \in 0..MaxLosses
    BY <1>4, <1>16 DEF ListFails
  <2> QED
    BY <1>1, <1>2, <1>3, <1>4, <1>16, <2>2, <2>3, PageStays DEF ListFails
<1>17. ASSUME NEW f \in Filters, Forget(f) PROVE PageIInv'
  <2>1. lists' = [lists EXCEPT ![f] = EmptyList] /\ expected' = [expected EXCEPT ![f] = 0]
    BY <1>17 DEF Forget
  <2>2. ListsHold(lists', expected', view.shows)
    BY <1>1, <1>5, <1>7, <2>1 DEF ListsHold
  <2> QED
    BY <1>1, <1>2, <1>3, <1>4, <1>17, <2>2, PageStays DEF Forget
<1>18. ASSUME NEW c \in Callers, Mutate(c) \/ Command(c) PROVE PageIInv'
  <2>1. /\ UNCHANGED <<server, status, lists, view, expected, losses>>
        /\ \E of \in Requests : calls' = [calls EXCEPT ![c] = [of |-> of, told |-> Asked]]
    BY <1>18 DEF Mutate, Command, Request, Requests
  <2>2. /\ calls' \in [Callers -> [of : Requests, told : {Nothing, Asked} \cup Updates]]
        /\ \A d \in Callers : calls'[d].told <= server.updates
    BY <1>1, <1>4, <2>1
  <2> QED
    BY <1>1, <1>2, <1>3, <1>4, <1>5, <2>1, <2>2, PageStays
<1>19. ASSUME NEW c \in Callers, Carried(c) PROVE PageIInv'
  <2>1. /\ UNCHANGED <<status, lists, view, expected, losses>>
        /\ \/ Write /\ calls' = [calls EXCEPT ![c].told = server'.updates]
           \/ Obey /\ calls' = [calls EXCEPT ![c].told = server'.brought]
    BY <1>19 DEF Carried
  <2>2. /\ server' \in [updates : Updates, brought : Updates, revision : 0..MaxRuns,
                        enabled : BOOLEAN, ready : BOOLEAN]
        /\ server.updates <= server'.updates /\ server'.brought <= server'.updates
    <3>1. CASE Write
      BY <1>1, <3>1 DEF Write
    <3>2. CASE Obey
      <4>1. server \in ServerRow /\ server.updates \in Nat
        BY <1>1 DEF ServerRow
      <4>2. \E enabled \in BOOLEAN :
              \/ server.revision < MaxRuns /\ server' = RunSucceeded([server EXCEPT !.enabled = enabled])
              \/ server' = RunFailed(server)
              \/ server' = [server EXCEPT !.enabled = enabled]
        BY <3>2 DEF Obey
      <4>3. server' \in ServerRow /\ server'.updates = server.updates /\ server'.brought <= server'.updates
        BY <1>1, <4>1, <4>2, RunsKeep
      <4> QED
        BY <4>1, <4>3 DEF ServerRow
    <3> QED
      BY <2>1, <3>1, <3>2
  <2>3. /\ calls' \in [Callers -> [of : Requests, told : {Nothing, Asked} \cup Updates]]
        /\ \A d \in Callers : calls'[d].told <= server'.updates
    BY <1>1, <1>4, <2>1, <2>2
  <2>4. status'.read.brought <= server'.updates
    BY <1>1, <1>2, <2>1, <2>2 DEF StatusDtos
  <2> QED
    BY <1>2, <1>3, <1>4, <1>5, <2>1, <2>2, <2>3, <2>4, PageStays
<1>20. ASSUME NEW c \in Callers, Succeeds(c) PROVE PageIInv'
  BY <1>20, SuccessKeeps
<1>21. ASSUME NEW c \in Callers, Fails(c) PROVE PageIInv'
  <2>1. NoCall \in [of : Requests, told : {Nothing, Asked} \cup Updates] /\ NoCall.told = Nothing
    BY DEF NoCall, Requests
  <2>2. /\ calls' \in [Callers -> [of : Requests, told : {Nothing, Asked} \cup Updates]]
        /\ \A d \in Callers : calls'[d].told <= server.updates
        /\ losses' \in 0..MaxLosses
    BY <1>1, <1>4, <1>21, <2>1 DEF Fails
  <2> QED
    BY <1>1, <1>2, <1>3, <1>5, <1>21, <2>2, PageStays DEF Fails
<1>22. CASE Pull \/ RunEnds
  <2>1. /\ server' \in [updates : Updates, brought : Updates, revision : 0..MaxRuns,
                        enabled : BOOLEAN, ready : BOOLEAN]
        /\ server.updates <= server'.updates /\ server'.brought <= server'.updates
    <3>1. CASE Pull
      BY <1>1, <3>1 DEF Pull
    <3>2. CASE RunEnds
      BY <1>1, <3>2, RunsKeep DEF RunEnds, ServerRow
    <3> QED
      BY <1>22, <3>1, <3>2
  <2>2. UNCHANGED <<status, lists, view, calls, expected, losses>>
    BY <1>22 DEF Pull, RunEnds
  <2>3. status'.read.brought <= server'.updates /\ \A c \in Callers : calls'[c].told <= server'.updates
    BY <1>1, <1>2, <1>4, <2>1, <2>2 DEF StatusDtos
  <2> QED
    BY <1>2, <1>3, <1>4, <1>5, <2>1, <2>2, <2>3, PageStays
<1>23. CASE UNCHANGED pageVars
  BY <1>1, <1>2, <1>3, <1>4, <1>5, <1>23, PageStays DEF pageVars
<1> QED
  BY <1>8, <1>9, <1>10, <1>11, <1>12, <1>13, <1>14, <1>15, <1>16, <1>17, <1>18, <1>19, <1>20,
     <1>21, <1>22, <1>23 DEF PageNext

(* The strengthened invariant of the pages and their query cache: a list on     *)
(* display that was told of something newer than it shows is being fetched, and *)
(* what the fetch reads or has read is no older than that (SyncCacheObserver,   *)
(* onSuccess of the mutations, useNotesQuery).                                  *)
THEOREM PageInvariance == PageSpec => []PageIInv
<1>1. PageInit => PageIInv
  BY PageInitHolds
<1>2. PageIInv /\ [PageNext]_pageVars => PageIInv'
  BY PageStepKeeps
<1> QED
  BY <1>1, <1>2, PTL DEF PageSpec

(* For any filters, callers, runs and lost requests: a list on display does not *)
(* rest on an answer from before a change the page was told of.                 *)
THEOREM ListsAreCurrent == PageSpec => []ListsKeepUp
<1>1. PageIInv => ListsKeepUp
  BY PageAssumption DEF PageIInv, PageTypeOK, ListsKeepUp, KeepsUp, Nothing, Asked, Updates
<1> QED
  BY <1>1, PageInvariance, PTL

-----------------------------------------------------------------------------
(* MCData: the components side by side. A step of one is none of the others, so *)
(* that a behaviour of MCData is one of every component.                        *)

LEMMA PartsStep ==
  ASSUME [Next]_vars
  PROVE  /\ [ObjectsNext]_objVars /\ [ExportImportNext]_<<catVars, fileVars>>
         /\ [ConfigurationNext]_configVars /\ [AssetsNext]_assetVars /\ [DatabaseNext]_dbVars
         /\ [StartupNext]_startVars /\ [AuthNext]_authVars /\ [UpdaterNext]_updaterVars
         /\ [PageNext]_pageVars
BY DEF Next, vars, DataVars, DeviceVars

(* The components of MCData behave like the components alone.                   *)
LEMMA PartsBehave ==
  Spec => /\ ObjectsSpec /\ ExportImportSpec /\ ConfigurationSpec /\ AssetsSpec /\ DatabaseSpec
          /\ StartupSpec /\ AuthSpec /\ UpdaterSpec /\ PageSpec
<1>1. Init => /\ ObjectsInit /\ CatalogInit /\ ExportInit /\ ConfigurationInit /\ AssetsInit
              /\ DatabaseInit /\ StartupInit /\ AuthInit /\ UpdaterInit /\ PageInit
  BY DEF Init
<1> QED
  BY <1>1, PartsStep, PTL
     DEF Spec, ObjectsSpec, ExportImportSpec, ConfigurationSpec, AssetsSpec, DatabaseSpec,
         StartupSpec, AuthSpec, UpdaterSpec, PageSpec

(* A file has a row for everything there may be.                                *)
LEMMA FilesTyped == ExportImportIInv => ExportTypeOK
BY DEF ExportImportIInv, FileTyped, ExportTypeOK

(* For any sizes of the components: the state of each is what its declarations  *)
(* say.                                                                         *)
THEOREM DataTypeCorrect == Spec => []TypeOK
<1>1. ObjectsIInv => ObjectsTypeOK
  BY DEF ObjectsIInv
<1>2. DatabaseIInv => DatabaseTypeOK
  BY DEF DatabaseIInv
<1>3. PageIInv => PageTypeOK
  BY DEF PageIInv
<1> QED
  BY <1>1, <1>2, <1>3, PartsBehave, FilesTyped, ObjectsInvariance, CatalogInvariance,
     CatalogTypeCorrect, ConfigurationTypeCorrect, AssetsTypeCorrect, DatabaseInvariance,
     StartupTypeCorrect, AuthTypeCorrect, UpdaterTypeCorrect, PageInvariance, PTL DEF TypeOK

(* What the components promise alone they promise side by side.                 *)
THEOREM DataIsSafe ==
  Spec => [](/\ DevicesUseOneFile /\ CatalogIsWhole /\ ChangesAreJournaled /\ ExportsImport
             /\ ConfigurationWhole /\ NothingSilentlyLost /\ ImagesFollowNotes /\ DataKept
             /\ OneBackend /\ DisconnectsAreFinal /\ OffersHold /\ ListsKeepUp)
BY PartsBehave, OneFileOfAKey, CatalogStaysWhole, EveryChangeJournaled, ExportsCanBeImported,
   MergedConfigurationIsWhole, ConfigurationLosesNothing, ImagesArrive, DataIsKept,
   OneBackendAtATime, DisconnectedForGood, OffersHoldAlways, ListsAreCurrent, PTL

=============================================================================
