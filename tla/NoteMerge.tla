------------------------------ MODULE NoteMerge ------------------------------
(***************************************************************************)
(* mergeSyncNoteDocument: how a device combines the note document it last  *)
(* saw at the provider (base), its own and the one the provider has now.   *)
(*                                                                         *)
(* A document is its mutation id, its payload and its parent; its content  *)
(* hash covers all of them, so that two hashes are equal when the documents*)
(* are.  The payload gives every field (note type, background, column      *)
(* values) a value, or is NoPayload in a tombstone.  formatVersion,        *)
(* workspaceId and entityId are the same in every version of a note;       *)
(* modifiedBy, modifiedAt and deletedAt follow from the mutation id.       *)
(***************************************************************************)
EXTENDS Naturals

CONSTANTS Fields,     \* the mergeable parts of a note
          NoPayload,  \* the payload of a tombstone
          NoDoc       \* null

Deleted(doc) == doc.payload = NoPayload

\* The authority key starts with the mutation id; among documents of one
\* mutation the content hash decides, which may go either way.
LocalMayWin(local, remote) ==
    {w \in BOOLEAN : /\ local.mut > remote.mut => w
                     /\ local.mut < remote.mut => ~w}

ThreeWay(base, local, remote, preferLocal) ==
    CASE local = remote -> local
      [] local # remote /\ local = base -> remote
      [] local # remote /\ local # base /\ remote = base -> local
      [] OTHER -> IF preferLocal THEN local ELSE remote

Conflicting(base, local, remote) ==
    {f \in Fields : /\ local.payload[f] # remote.payload[f]
                    /\ local.payload[f] # base.payload[f]
                    /\ remote.payload[f] # base.payload[f]}

MergeFields(base, local, remote, preferLocal) ==
    [mut     |-> IF preferLocal THEN local.mut ELSE remote.mut,
     payload |-> [f \in Fields |-> ThreeWay(base.payload[f], local.payload[f],
                                            remote.payload[f], preferLocal)],
     parent  |-> base]

\* A result is the merged document and the document to keep in a conflict copy.
Clean(doc) == [doc |-> doc, copy |-> NoDoc]

\* Mutant: the copy repeats the side that won.
MutantMergeNote(base, local, remote, preferLocal) ==
    LET preferred == IF preferLocal THEN local ELSE remote
    IN  CASE local = remote -> Clean(preferred)
          [] local # remote /\ local = base -> Clean(remote)
          [] local # remote /\ remote = base -> Clean(local)
          [] OTHER -> [doc |-> preferred, copy |-> preferred]

MergeNote(base, local, remote, preferLocal) ==
    LET preferred == IF preferLocal THEN local ELSE remote
        other == IF preferLocal THEN remote ELSE local
    IN  CASE local = remote -> Clean(preferred)
          [] local # remote /\ base = NoDoc -> [doc |-> preferred, copy |-> other]
          [] OTHER ->
               IF Deleted(base) /\ ~(Deleted(local) /\ Deleted(remote))
               THEN CASE Deleted(local)  -> [doc |-> local, copy |-> remote]
                      [] Deleted(remote) -> [doc |-> remote, copy |-> local]
                      [] OTHER           -> [doc |-> base, copy |-> preferred]
               ELSE IF local = base THEN Clean(remote)
               ELSE IF remote = base THEN Clean(local)
               ELSE IF Deleted(local) /\ Deleted(remote) THEN Clean(preferred)
               ELSE IF Deleted(local) THEN [doc |-> local, copy |-> remote]
               ELSE IF Deleted(remote) THEN [doc |-> remote, copy |-> local]
               ELSE [doc  |-> MergeFields(base, local, remote, preferLocal),
                     copy |-> IF Conflicting(base, local, remote) = {}
                              THEN NoDoc ELSE other]

=============================================================================
