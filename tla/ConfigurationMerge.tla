------------------------- MODULE ConfigurationMerge -------------------------
(* The configuration of a workspace (note types, columns, labels) is one        *)
(* document: mergeSyncConfigurationDocument, what a pull and the resolution of  *)
(* a conflict do with its result, and what a device uploads. `local` is the     *)
(* database of one device, `remote` the file the others write, `ancestor` the   *)
(* version the device saw last, the base of a merge.                            *)
(*                                                                              *)
(* A document is a function from identifiers to rows. Columns and labels are    *)
(* alike: parts of a type. A row has a mutation, whose identifier is a random   *)
(* uuid, the time of the mutation, and the fields of its payload; a tombstone   *)
(* has none.                                                                    *)
EXTENDS Naturals, FiniteSetsExt

CONSTANTS
  ConfigTypes, Parts,  \* identifiers
  MaxMutations         \* bound of the edits

Ids == ConfigTypes \cup Parts
None == "none"

ASSUME ConfigurationAssumption ==
  /\ MaxMutations \in Nat /\ ConfigTypes \cap Parts = {} /\ ConfigTypes # {}
  /\ None \notin Ids

VARIABLES
  ancestor, local, remote,
  recorded,  \* the versions kept in the last unresolved conflict
  whole,     \* history: no version was taken as a whole in place of a merge
  mutations  \* the edits so far: the identifier of each

configVars == <<ancestor, local, remote, recorded, whole, mutations>>

NoRow == [is |-> "absent", of |-> None, title |-> 0, mut |-> 0, at |-> 0]
Deleted(mut, at) == [is |-> "deleted", of |-> None, title |-> 0, mut |-> mut, at |-> at]
Row(of, title, mut, at) ==
  [is |-> "live", of |-> of, title |-> title, mut |-> mut, at |-> at]

Rows == [is : {"absent", "live", "deleted"}, of : ConfigTypes \cup {None},
         title : 0..MaxMutations, mut : 0..MaxMutations, at : 0..MaxMutations]
Documents == [Ids -> Rows]
NoBase == [i \in Ids |-> [NoRow EXCEPT !.title = MaxMutations]]

ConfigurationTypeOK ==
  /\ ancestor \in Documents /\ local \in Documents /\ remote \in Documents
  /\ recorded \subseteq Documents /\ whole \in BOOLEAN
  /\ mutations \subseteq 1..MaxMutations

LiveRows(doc) == {i \in Ids : doc[i].is = "live"}

(* hasValidSyncConfigurationRelationships *)
Valid(doc) == \A p \in Parts \cap LiveRows(doc) : doc[p].of \in LiveRows(doc)

(* createLocalConfigurationSyncDocument: the document's mutation is that of the *)
(* row modified last.                                                           *)
Authority(doc) == doc[CHOOSE i \in Ids : \A j \in Ids : doc[i].at >= doc[j].at].mut

(* selectDeterministicSyncDocument, by the identifiers of the mutations and     *)
(* then by the hashes of the contents.                                          *)
Preferred(left, right) ==
  IF Authority(left) > Authority(right) THEN left
  ELSE IF Authority(left) < Authority(right) THEN right
  ELSE CHOOSE doc \in {left, right} : TRUE

-----------------------------------------------------------------------------
(* The merge of a row *)

(* mergeThreeWayValue *)
ThreeWay(b, l, r, preferLocal) ==
  IF l = r \/ r = b THEN l ELSE IF l = b THEN r ELSE IF preferLocal THEN l ELSE r

ThreeWayConflict(b, l, r) == l # r /\ l # b /\ r # b

MergedFields(b, l, r) ==
  LET preferLocal == l.mut >= r.mut
      preferred == IF preferLocal THEN l ELSE r
  IN Row(ThreeWay(b.of, l.of, r.of, preferLocal),
         ThreeWay(b.title, l.title, r.title, preferLocal), preferred.mut, preferred.at)

(* mergeSyncConfigurationEntity: the row and whether it is a conflict.          *)
MutantMergedRow(b, l, r) ==
  LET Result(row, conflict) == [row |-> row, conflict |-> conflict]
      preferred == IF l.mut >= r.mut THEN l ELSE r
      dead == {row \in {l, r} : row.is = "deleted"}
  IN
  IF l.is = "absent" THEN Result(r, FALSE)
  ELSE IF r.is = "absent" THEN Result(l, FALSE)
  ELSE IF l = r THEN Result(l, FALSE)
  ELSE IF b.is = "absent" THEN Result(preferred, TRUE)
  ELSE IF b.is = "deleted" /\ dead # {l, r}
  THEN Result(IF dead = {} THEN b ELSE CHOOSE row \in dead : TRUE, TRUE)
  ELSE IF l = b THEN Result(r, FALSE)
  ELSE IF r = b THEN Result(l, FALSE)
  ELSE IF dead = {l, r} THEN Result(preferred, FALSE)
  ELSE IF dead # {} THEN Result(CHOOSE row \in dead : TRUE, FALSE)
  ELSE Result(MergedFields(b, l, r),
              ThreeWayConflict(b.of, l.of, r.of) \/ ThreeWayConflict(b.title, l.title, r.title))

MergedRow(b, l, r) ==
  LET Result(row, conflict) == [row |-> row, conflict |-> conflict]
      preferred == IF l.mut >= r.mut THEN l ELSE r
      dead == {row \in {l, r} : row.is = "deleted"}
  IN
  IF l.is = "absent" THEN Result(r, FALSE)
  ELSE IF r.is = "absent" THEN Result(l, FALSE)
  ELSE IF l = r THEN Result(l, FALSE)
  ELSE IF b.is = "absent" THEN Result(preferred, TRUE)
  ELSE IF b.is = "deleted" /\ dead # {l, r}
  THEN Result(IF dead = {} THEN b ELSE CHOOSE row \in dead : TRUE, TRUE)
  ELSE IF l = b THEN Result(r, FALSE)
  ELSE IF r = b THEN Result(l, FALSE)
  ELSE IF dead = {l, r} THEN Result(preferred, FALSE)
  ELSE IF dead # {} THEN Result(CHOOSE row \in dead : TRUE, TRUE)
  ELSE Result(MergedFields(b, l, r),
              ThreeWayConflict(b.of, l.of, r.of) \/ ThreeWayConflict(b.title, l.title, r.title))

(* mergeSyncConfigurationEntityCollection *)
MergedRows(b, l, r) == [i \in Ids |-> MergedRow(b[i], l[i], r[i])]

(* mergeSyncConfigurationDocument: the document, whether there is a conflict,   *)
(* and whether a version was taken as a whole.                                  *)
MutantMerge(b, l, r) ==
  LET Result(doc, conflict, one) == [doc |-> doc, conflict |-> conflict, one |-> one]
      rows == MergedRows(b, l, r)
      merged == [i \in Ids |-> rows[i].row]
      conflict == \E i \in Ids : rows[i].conflict
  IN
  IF l = r THEN Result(l, FALSE, FALSE)
  ELSE IF b = NoBase THEN Result(Preferred(l, r), TRUE, TRUE)
  ELSE IF l = b THEN Result(r, FALSE, FALSE)
  ELSE IF r = b THEN Result(l, FALSE, FALSE)
  ELSE Result(merged, conflict, FALSE)

Merge(b, l, r) ==
  LET Result(doc, conflict, one) == [doc |-> doc, conflict |-> conflict, one |-> one]
      rows == MergedRows(b, l, r)
      merged == [i \in Ids |-> rows[i].row]
      conflict == \E i \in Ids : rows[i].conflict
  IN
  IF l = r THEN Result(l, FALSE, FALSE)
  ELSE IF b = NoBase THEN Result(Preferred(l, r), TRUE, TRUE)
  ELSE IF l = b THEN Result(r, FALSE, FALSE)
  ELSE IF r = b THEN Result(l, FALSE, FALSE)
  ELSE IF Valid(merged) THEN Result(merged, conflict, FALSE)
  ELSE Result(IF Valid(Preferred(l, r)) THEN Preferred(l, r)
              ELSE CHOOSE doc \in {l, r} : doc # Preferred(l, r), TRUE, TRUE)

-----------------------------------------------------------------------------
(* Edits, on either side *)

TypeEdits(doc, t, mut, at) ==
  IF doc[t].is = "live"
  THEN {[doc EXCEPT ![t] = Row(None, at, mut, at)],
        [i \in Ids |-> IF i = t \/ (i \in LiveRows(doc) /\ doc[i].of = t)
                       THEN Deleted(mut, at) ELSE doc[i]]}
  ELSE IF doc[t].is = "absent" THEN {[doc EXCEPT ![t] = Row(None, at, mut, at)]} ELSE {}

PartEdits(doc, p, mut, at) ==
  LET owners == LiveRows(doc) \cap ConfigTypes IN
  IF doc[p].is = "live"
  THEN {[doc EXCEPT ![p] = Row(@.of, at, mut, at)], [doc EXCEPT ![p] = Deleted(mut, at)]}
         \cup {[doc EXCEPT ![p] = Row(t, @.title, mut, at)] : t \in owners \ {doc[p].of}}
  ELSE IF doc[p].is = "absent"
  THEN {[doc EXCEPT ![p] = Row(t, at, mut, at)] : t \in owners}
  ELSE {}

(* What an edit with this mutation can make of a document. The last type cannot *)
(* be deleted alone.                                                            *)
Edits(doc, mut, at) ==
  {d \in UNION ({TypeEdits(doc, t, mut, at) : t \in ConfigTypes}
                  \cup {PartEdits(doc, p, mut, at) : p \in Parts}) :
     LiveRows(d) \cap ConfigTypes # {}}

EditConfiguration ==
  \E mut \in (1..MaxMutations) \ mutations :
    LET at == Cardinality(mutations) + 1 IN
    /\ mutations' = mutations \cup {mut}
    /\ \/ local' \in Edits(local, mut, at) /\ UNCHANGED remote
       \/ Valid(remote) /\ remote' \in Edits(remote, mut, at) /\ UNCHANGED local
    /\ UNCHANGED <<ancestor, recorded, whole>>

-----------------------------------------------------------------------------
(* Synchronization *)

(* applyRemoteConfigurationDocument overwrites the rows the document has.       *)
Applied(doc, rows) ==
  [i \in Ids |-> IF doc[i].is = "absent"
                    \/ (doc[i].is = "deleted" /\ rows[i].is = "absent")
                 THEN rows[i] ELSE doc[i]]

(* A pull: a document with references to nothing is not applied.                *)
PullConfiguration ==
  LET merge == Merge(ancestor, local, remote) IN
  /\ remote # ancestor /\ Valid(remote)
  /\ local' = Applied(merge.doc, local)
  /\ ancestor' = remote
  /\ recorded' = IF merge.conflict THEN {local, remote} ELSE recorded
  /\ whole' = (whole /\ ~merge.one)
  /\ UNCHANGED <<remote, mutations>>

(* A push, which its expected version lets through after the last pull only.    *)
PushConfiguration ==
  /\ ancestor # NoBase /\ local # ancestor /\ (remote = ancestor \/ ~Valid(remote))
  /\ remote' = local /\ ancestor' = local
  /\ UNCHANGED <<local, recorded, whole, mutations>>

(* SyncConflictService.resolve with one of the versions kept: it is applied to  *)
(* the database as a whole. (A version the user merges by hand is left out.)    *)
ResolveConfiguration ==
  \E doc \in recorded :
    /\ Valid(doc)
    /\ local' = Applied(doc, local)
    /\ recorded' = {}
    /\ whole' = FALSE
    /\ UNCHANGED <<ancestor, remote, mutations>>

(* The device has the workspace's version, or one of its own that has the same  *)
(* rows; its columns and labels are of the first type.                          *)
ConfigurationInit ==
  LET first == CHOOSE t \in ConfigTypes : TRUE IN
  \E there \in {s \in SUBSET Ids : first \in s} :
    /\ local = [i \in Ids |-> IF i \notin there THEN NoRow
                              ELSE Row(IF i \in Parts THEN first ELSE None, 0, 0, 0)]
    /\ remote = local /\ ancestor \in {local, NoBase}
    /\ recorded = {} /\ whole = TRUE /\ mutations = {}

ConfigurationNext ==
  EditConfiguration \/ PullConfiguration \/ PushConfiguration \/ ResolveConfiguration

ConfigurationSpec == ConfigurationInit /\ [][ConfigurationNext]_configVars

-----------------------------------------------------------------------------
(* Properties *)

(* Merging concurrent edits of two devices never leaves the database with a     *)
(* column or a label of a type that is deleted, though a pull writes the rows   *)
(* of a document over those there are: while no version was taken as a whole in *)
(* place of the merge, where rows the version lacks stay.                       *)
ConfigurationWhole == whole => Valid(local)

(* What either side changed since the base is in the merged document, or a      *)
(* conflict is recorded that keeps both versions.                               *)
NothingSilentlyLost ==
  LET merge == Merge(ancestor, local, remote)
      Kept(doc) == \A i \in Ids, f \in {"is", "of", "title"} :
        doc[i].is # "absent" /\ doc[i][f] # ancestor[i][f] => merge.doc[i][f] = doc[i][f]
  IN ancestor # NoBase /\ Valid(remote) => merge.conflict \/ (Kept(local) /\ Kept(remote))

=============================================================================
