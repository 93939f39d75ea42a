---------------------------- MODULE ResumableUploads ----------------------------
(* Uploads of large assets in chunks: uploadBytes of                            *)
(* GoogleDriveResumableUploadService and uploadChunks of OneDriveFileService.   *)
(* The upload session of the provider is modelled from what the clients expect  *)
(* of it: it says how many bytes it has, and accepts a chunk that begins there. *)
EXTENDS Naturals, FiniteSetsExt

CONSTANTS
  Size,       \* of the asset, and the chunks: ..._RESUMABLE_CHUNK_SIZE
  ChunkSize,
  MaxAttempts \* ..._MAX_UPLOAD_ATTEMPTS

ASSUME UploadAssumption ==
  Size \in Nat \ {0} /\ ChunkSize \in Nat \ {0} /\ MaxAttempts \in Nat \ {0}

VARIABLES
  host,     \* "google" or "onedrive", "none" before an upload begins
  received, \* bytes the session has; with all of them there is a file
  offset, attempts, \* of the loop
  asking,   \* attempts of the question where to go on
  phase     \* what comes next: a session, a chunk, the question ("ask" in the
            \* catch, "range" after 416), or nothing

uploadVars == <<host, received, offset, attempts, asking, phase>>

UploadTypeOK ==
  /\ host \in {"none", "google", "onedrive"}
  /\ received \in 0..Size /\ offset \in 0..Size
  /\ attempts \in 0..MaxAttempts - 1 /\ asking \in 0..MaxAttempts - 1
  /\ phase \in {"session", "chunk", "ask", "range", "done", "failed"}

UploadInit ==
  /\ host = "none"
  /\ received = 0 /\ offset = 0 /\ attempts = 0 /\ asking = 0
  /\ phase = "session"

-----------------------------------------------------------------------------

ChunkEnd == Min({offset + ChunkSize, Size})

(* createFile opens a session; without one the upload fails. *)
CreateSession ==
  /\ phase = "session"
  /\ host' \in {"google", "onedrive"}
  /\ phase' \in {"chunk", "failed"}
  /\ UNCHANGED <<received, offset, attempts, asking>>

(* The session takes some of the chunk, or nothing. *)
Receive == \E r \in offset..ChunkEnd : received' = r

(* The catch around a chunk: ask, unless there were too many attempts.          *)
MutantResume ==
  /\ IF attempts < MaxAttempts
     THEN attempts' = attempts + 1 /\ phase' = "ask"
     ELSE phase' = "failed" /\ UNCHANGED attempts
  /\ asking' = 0
  /\ UNCHANGED offset

Resume ==
  /\ IF attempts < MaxAttempts - 1
     THEN attempts' = attempts + 1 /\ phase' = "ask"
     ELSE phase' = "failed" /\ UNCHANGED attempts
  /\ asking' = 0
  /\ UNCHANGED offset

(* A transient failure before or after the session took the chunk. *)
ChunkLost ==
  /\ phase = "chunk"
  /\ \/ UNCHANGED received
     \/ offset = received /\ Receive
  /\ Resume
  /\ UNCHANGED host

(* Any other failure, such as the end of the session. *)
Refuse ==
  /\ phase \in {"chunk", "ask", "range"}
  /\ phase' = "failed"
  /\ UNCHANGED <<host, received, offset, attempts, asking>>

(* 200 or 201 with the file; 308 with the range the session has, which has to   *)
(* be more than before (otherwise Refuse).                                      *)
GoogleChunk ==
  /\ host = "google" /\ phase = "chunk" /\ offset = received
  /\ Receive /\ received' # received
  /\ IF received' = Size
     THEN phase' = "done" /\ UNCHANGED <<offset, attempts>>
     ELSE offset' = received' /\ attempts' = 0 /\ UNCHANGED phase
  /\ UNCHANGED <<host, asking>>

(* queryStatus, which is not repeated. *)
MutantGoogleStatus ==
  /\ host = "google" /\ phase = "ask"
  /\ IF received = Size
     THEN phase' = "done" /\ UNCHANGED <<offset, attempts>>
     ELSE offset' = received /\ phase' = "chunk" /\ attempts' = 0
  /\ UNCHANGED <<host, received, asking>>

GoogleStatus ==
  /\ host = "google" /\ phase = "ask"
  /\ IF received = Size
     THEN phase' = "done" /\ UNCHANGED offset
     ELSE offset' = received /\ phase' = "chunk"
  /\ UNCHANGED <<host, received, attempts, asking>>

(* 201; 202 with the ranges the session expects next, or without: then the      *)
(* chunk is taken to have been received. Attempts are counted anew after both,  *)
(* also when the session took nothing. After 202 for the last chunk the upload  *)
(* ends without a file.                                                         *)
OneDriveChunk ==
  /\ host = "onedrive" /\ phase = "chunk" /\ offset = received
  /\ Receive
  /\ attempts' = 0
  /\ IF received' = Size
     THEN phase' = "done" /\ UNCHANGED offset
     ELSE /\ offset' \in {received', ChunkEnd}
          /\ phase' = IF offset' = Size THEN "failed" ELSE "chunk"
  /\ UNCHANGED <<host, asking>>

(* 416: the session expects another range. *)
OneDriveRange ==
  /\ host = "onedrive" /\ phase = "chunk" /\ offset # received
  /\ IF attempts < MaxAttempts - 1
     THEN attempts' = attempts + 1 /\ phase' = "range"
     ELSE phase' = "failed" /\ UNCHANGED attempts
  /\ asking' = 0
  /\ UNCHANGED <<host, received, offset>>

(* queryUploadOffset: an upload does not go back, and one that is complete has  *)
(* no session any more.                                                         *)
OneDriveStatus ==
  /\ host = "onedrive" /\ phase \in {"ask", "range"}
  /\ IF received = Size \/ received < offset
     THEN phase' = "failed" /\ UNCHANGED offset
     ELSE offset' = received /\ phase' = "chunk"
  /\ UNCHANGED <<host, received, attempts, asking>>

(* queryUploadOffsetWithRetry: the answer was lost. After the last attempt the  *)
(* question after 416 fails into the catch around the chunk, which asks again.  *)
OneDriveStatusLost ==
  /\ host = "onedrive" /\ phase \in {"ask", "range"}
  /\ \/ /\ asking < MaxAttempts - 1
        /\ asking' = asking + 1
        /\ UNCHANGED <<offset, attempts, phase>>
     \/ asking = MaxAttempts - 1 /\ phase = "range" /\ Resume
     \/ /\ asking = MaxAttempts - 1 /\ phase = "ask"
        /\ phase' = "failed"
        /\ UNCHANGED <<offset, attempts, asking>>
  /\ UNCHANGED <<host, received>>

UploadContinues ==
  \/ ChunkLost \/ Refuse
  \/ GoogleChunk \/ GoogleStatus
  \/ OneDriveChunk \/ OneDriveRange \/ OneDriveStatus \/ OneDriveStatusLost

UploadNext == CreateSession \/ UploadContinues

(* The session takes bytes of a chunk. *)
SessionTakes == OneDriveChunk /\ received' # received

(* Requests end, with an answer or without. A session that is sent the chunk it *)
(* expects again and again takes bytes of it at some time: nothing in the code  *)
(* ends an upload whose every chunk is answered with 202 and not taken.         *)
UploadSpec ==
  /\ UploadInit /\ [][UploadNext]_uploadVars
  /\ WF_uploadVars(UploadContinues) /\ SF_uploadVars(SessionTakes)

-----------------------------------------------------------------------------
(* Properties *)

(* An upload ends, however answers are lost and whatever part of the chunks the *)
(* session takes, as long as it takes some at last: at Google Drive attempts    *)
(* are only counted anew after progress, and at OneDrive an upload does not go  *)
(* back.                                                                        *)
UploadsEnd == []<>(phase \in {"session", "done", "failed"})

=============================================================================
