------------------------------ MODULE NotesPage ------------------------------
(* The frontend: SyncStartupGate, SyncCacheObserver, the queries and mutations  *)
(* of the pages, and the backend they ask over HTTP.                            *)
(*                                                                              *)
(* Its query cache is TanStack Query, modelled from its use here: one fetch of  *)
(* a query at a time, one retry, no refetch on focus, cached data is shown while*)
(* it is fetched anew; an invalidation restarts the fetch of a query that has   *)
(* data, and joins the one of a query that has none; only a query on display is *)
(* fetched. What a note says is one number: how often the notes had changed when*)
(* they were read.                                                              *)
EXTENDS Integers, FiniteSets

CONSTANTS
  Filters,     \* selections of the notes: one list query each
  Callers,     \* who sends a request to change something: the dialog, a menu, ...
  MaxUpdates,  \* bound of the changes of the notes
  MaxRuns,     \* bound of the synchronization runs
  MaxLosses    \* bound of the requests that fail

NoDisplay == "settings"  \* another page, or the gate

ASSUME PageAssumption ==
  /\ MaxUpdates \in Nat /\ MaxRuns \in Nat /\ MaxLosses \in Nat
  /\ IsFiniteSet(Filters) /\ IsFiniteSet(Callers) /\ NoDisplay \notin Filters

VARIABLES
  server,  \* updates of the notes; updates a successful run had brought;
           \* revision (dataRevision), enabled, ready (isStartupReady)
  status,  \* the status query: fetch, answer
  lists,   \* the list queries: data, fetch, retried, error
  view,    \* the filter on display; offline (work offline); the observer's
           \* previousDataRevision
  calls,   \* the requests under way to change something
  expected,    \* history: what each list was told of while it had data
  losses

pageVars == <<server, status, lists, view, calls, expected, losses>>

(* Instead of a number of updates: nothing there, or a request on its way.      *)
Nothing == -1
Asked == -2
Updates == 0..MaxUpdates

NoStatus == [revision |-> Nothing, brought |-> 0, enabled |-> FALSE, ready |-> FALSE]
Status == [revision |-> server.revision, brought |-> server.brought,
           enabled |-> server.enabled, ready |-> server.ready \/ ~server.enabled]

Flows == {"none", "asked", "read"}
StatusDtos == [revision : {Nothing} \cup 0..MaxRuns, brought : Updates,
               enabled : BOOLEAN, ready : BOOLEAN]

Requests == {"notes", "synchronization"}
NoCall == [of |-> "notes", told |-> Nothing]

PageTypeOK ==
  /\ server \in [updates : Updates, brought : Updates, revision : 0..MaxRuns,
                 enabled : BOOLEAN, ready : BOOLEAN]
  /\ status \in [fetch : Flows, read : StatusDtos, answer : StatusDtos]
  /\ lists \in [Filters -> [data : {Nothing} \cup Updates, error : BOOLEAN,
                            fetch : {Nothing, Asked} \cup Updates]]
  /\ view \in [shows : Filters \cup {NoDisplay}, mounted : BOOLEAN, offline : BOOLEAN,
               previous : {Nothing} \cup 0..MaxRuns]
  /\ calls \in [Callers -> [of : Requests, told : {Nothing, Asked} \cup Updates]]
  /\ expected \in [Filters -> Updates] /\ losses \in 0..MaxLosses

EmptyList == [data |-> Nothing, fetch |-> Nothing, error |-> FALSE]

(* The application after its backend answered; work offline is remembered for   *)
(* the session. The gate has asked for the status.                              *)
PageInit ==
  /\ server \in [updates : {0}, brought : {0}, revision : {0}, enabled : BOOLEAN,
                 ready : {FALSE}]
  /\ status = [fetch |-> "asked", read |-> NoStatus, answer |-> NoStatus]
  /\ lists = [f \in Filters |-> EmptyList]
  /\ \E offline \in BOOLEAN :
       view = [shows |-> NoDisplay, mounted |-> offline, offline |-> offline,
               previous |-> Nothing]
  /\ calls = [c \in Callers |-> NoCall]
  /\ expected = [f \in Filters |-> 0] /\ losses = 0

-----------------------------------------------------------------------------
(* Fetching a list: a fetch under way is joined, unless there is data already   *)
(* and the new one is to replace it.                                            *)
Fetched(list, replace) ==
  IF list.fetch # Nothing /\ (~replace \/ list.data = Nothing) THEN list
  ELSE [list EXCEPT !.fetch = Asked]

(* invalidateQueries on the lists: the one on display is fetched anew, another  *)
(* when it is next on display.                                                  *)
InvalidatedLists ==
  [f \in Filters |-> IF f = view.shows THEN Fetched(lists[f], TRUE) ELSE lists[f]]

(* The lists with data are told of all updates up to n.                         *)
Told(n) == [f \in Filters |->
              IF lists[f].data # Nothing /\ expected[f] < n THEN n ELSE expected[f]]

(* SyncStartupGate and, mounted with its children, SyncCacheObserver, for the   *)
(* status s.                                                                    *)
IsReady(s, offline) == offline \/ (s # NoStatus /\ (~s.enabled \/ s.ready))
MutantNoticed(previous, revision) == previous > 0 /\ previous # revision
Noticed(previous, revision) == previous # Nothing /\ previous # revision

Unshown(f) == [lists[f] EXCEPT !.fetch = Nothing]

(* A status answer s arrives: the children are mounted with their list, or      *)
(* unmounted, as the gate says; the observer compares revisions.                *)
StatusArrives(s) ==
  LET shown == IsReady(s, view.offline)
      noticed == view.mounted /\ shown /\ Noticed(view.previous, s.revision)
  IN /\ status' = [fetch |-> "none", read |-> NoStatus, answer |-> s]
     /\ view' = [view EXCEPT !.mounted = shown,
                             !.shows = IF shown THEN @ ELSE NoDisplay,
                             !.previous = IF shown THEN s.revision ELSE Nothing]
     /\ lists' = IF noticed THEN InvalidatedLists
                 ELSE IF shown \/ view.shows = NoDisplay THEN lists
                 ELSE [lists EXCEPT ![view.shows] = Unshown(view.shows)]
     /\ expected' = IF /\ view.mounted /\ shown /\ view.previous # Nothing
                   /\ view.previous # s.revision
                THEN Told(s.brought) ELSE expected

(* useSyncStatusQuery: the poll every two seconds while the account was enabled,*)
(* and the fetch of the settings page when it comes to use the query.           *)
PollStatus ==
  /\ status.fetch = "none"
  /\ status.answer.enabled \/ (view.mounted /\ view.shows = NoDisplay)
  /\ status' = [status EXCEPT !.fetch = "asked"]
  /\ UNCHANGED <<server, lists, view, calls, expected, losses>>

ReadStatus ==
  /\ status.fetch = "asked"
  /\ status' = [status EXCEPT !.fetch = "read", !.read = Status]
  /\ UNCHANGED <<server, lists, view, calls, expected, losses>>

StatusAnswered ==
  /\ status.fetch = "read" /\ StatusArrives(status.read)
  /\ UNCHANGED <<server, calls, losses>>

(* It and its retry; a request whose retry succeeds is one that took long.      *)
StatusFails ==
  /\ status.fetch # "none" /\ losses < MaxLosses /\ losses' = losses + 1
  /\ status' = [status EXCEPT !.fetch = "none", !.read = NoStatus]
  /\ UNCHANGED <<server, lists, view, calls, expected>>

(* The gate offers to work offline, and to retry, while synchronization takes   *)
(* long or the status is unknown. The children that are mounted ask for it anew.*)
Recovers == ~view.mounted /\ (status.answer # NoStatus \/ status.fetch = "none")

WorkOffline ==
  /\ Recovers
  /\ view' = [view EXCEPT !.offline = TRUE, !.mounted = TRUE,
                          !.previous = status.answer.revision]
  /\ status' = [status EXCEPT !.fetch = IF @ = "none" THEN "asked" ELSE @]
  /\ UNCHANGED <<server, lists, calls, expected, losses>>

-----------------------------------------------------------------------------
(* The notes page comes on display with the notes of filter f (useNotesQuery,   *)
(* enabled once the filters are reconciled), with another selection than        *)
(* before, or goes. A query that is left cancels its fetch.                     *)
Show(f) ==
  /\ view.mounted /\ view.shows # f
  /\ lists' = [g \in Filters |-> IF g = f THEN Fetched(lists[g], FALSE)
                                 ELSE IF g = view.shows THEN Unshown(g) ELSE lists[g]]
  /\ view' = [view EXCEPT !.shows = f]
  /\ UNCHANGED <<server, status, calls, expected, losses>>

ReadList(f) ==
  /\ lists[f].fetch = Asked
  /\ lists' = [lists EXCEPT ![f].fetch = server.updates]
  /\ UNCHANGED <<server, status, view, calls, expected, losses>>

ListAnswered(f) ==
  /\ lists[f].fetch >= 0
  /\ lists' = [lists EXCEPT ![f] = [EmptyList EXCEPT !.data = lists[f].fetch]]
  /\ UNCHANGED <<server, status, view, calls, expected, losses>>

(* The fetch and its one retry failed: the list keeps its data, with an error.  *)
ListFails(f) ==
  /\ lists[f].fetch # Nothing /\ losses < MaxLosses /\ losses' = losses + 1
  /\ lists' = [lists EXCEPT ![f].fetch = Nothing, ![f].error = TRUE]
  /\ UNCHANGED <<server, status, view, calls, expected>>

(* Data of a list off display is dropped after five minutes.                    *)
Forget(f) ==
  /\ view.shows # f /\ lists[f].data # Nothing
  /\ lists' = [lists EXCEPT ![f] = EmptyList] /\ expected' = [expected EXCEPT ![f] = 0]
  /\ UNCHANGED <<server, status, view, calls, losses>>

-----------------------------------------------------------------------------
(* The mutations of the notes: the dialog creates and updates, the menus change *)
(* the background and, confirmed, delete. The synchronization commands: run now,*)
(* from the gate or the application bar, enable and disable, on a settings page.*)
(* One at a time for each (isPending).                                          *)
Request(c, of) ==
  /\ calls[c] = NoCall
  /\ calls' = [calls EXCEPT ![c] = [of |-> of, told |-> Asked]]
  /\ UNCHANGED <<server, status, lists, view, expected, losses>>

Mutate(c) == view.shows # NoDisplay /\ Request(c, "notes")
Command(c) == (view.mounted \/ Recovers) /\ Request(c, "synchronization")

RunSucceeded(s) == [s EXCEPT !.revision = @ + 1, !.brought = s.updates, !.ready = TRUE]
RunFailed(s) == [s EXCEPT !.ready = TRUE]

(* The backend changes a note, runs synchronization, enables or disables it.    *)
Write == server.updates < MaxUpdates /\ server' = [server EXCEPT !.updates = @ + 1]
Obey ==
  \/ server.enabled /\ server' = RunFailed(server)
  \/ server.enabled /\ server' = [server EXCEPT !.enabled = FALSE]
  \/ server.revision < MaxRuns /\ server' = RunSucceeded([server EXCEPT !.enabled = TRUE])

Carried(c) ==
  /\ calls[c].told = Asked
  /\ IF calls[c].of = "notes" THEN Write ELSE Obey
  /\ calls' = [calls EXCEPT ![c].told =
                 IF calls[c].of = "notes" THEN server'.updates ELSE server'.brought]
  /\ UNCHANGED <<status, lists, view, expected, losses>>

(* onSuccess invalidates the lists and, after a command, the status.            *)
Succeeds(c) ==
  /\ calls[c].told >= 0
  /\ lists' = InvalidatedLists /\ expected' = Told(calls[c].told)
  /\ status' = IF calls[c].of = "notes" \/ (status.answer = NoStatus /\ status.fetch # "none")
               THEN status ELSE [status EXCEPT !.fetch = "asked", !.read = NoStatus]
  /\ calls' = [calls EXCEPT ![c] = NoCall]
  /\ UNCHANGED <<server, view, losses>>

(* The backend refuses, or the answer is lost: the dialog stays open to repeat. *)
Fails(c) ==
  /\ calls[c] # NoCall /\ losses < MaxLosses /\ losses' = losses + 1
  /\ calls' = [calls EXCEPT ![c] = NoCall]
  /\ UNCHANGED <<server, status, lists, view, expected>>

-----------------------------------------------------------------------------
(* A run pulls changes of the notes and ends, successfully or not; both let the *)
(* startup gate open, and only a successful one moves the revision.             *)
Pull ==
  /\ server.enabled /\ server.revision < MaxRuns /\ server.updates < MaxUpdates
  /\ server' = [server EXCEPT !.updates = @ + 1]
  /\ UNCHANGED <<status, lists, view, calls, expected, losses>>

RunEnds ==
  /\ server.enabled
  /\ \/ server.revision < MaxRuns /\ server' = RunSucceeded(server)
     \/ ~server.ready /\ server' = RunFailed(server)
  /\ UNCHANGED <<status, lists, view, calls, expected, losses>>

-----------------------------------------------------------------------------
PageNext ==
  \/ PollStatus \/ ReadStatus \/ StatusAnswered \/ StatusFails \/ WorkOffline
  \/ \E f \in Filters \cup {NoDisplay} : Show(f)
  \/ \E f \in Filters : ReadList(f) \/ ListAnswered(f) \/ ListFails(f) \/ Forget(f)
  \/ \E c \in Callers : Mutate(c) \/ Command(c) \/ Carried(c) \/ Succeeds(c) \/ Fails(c)
  \/ Pull \/ RunEnds

PageSpec == PageInit /\ [][PageNext]_pageVars

(* A list that had data when a finished mutation, command or run was made known *)
(* to the page shows what that had changed, is still being fetched, or shows its*)
(* error: no answer of a fetch that began before counts as the newer one.       *)
ListsKeepUp ==
  \A f \in Filters :
    view.shows = f /\ lists[f].data # Nothing /\ lists[f].fetch = Nothing /\ ~lists[f].error
      => lists[f].data >= expected[f]

=============================================================================
