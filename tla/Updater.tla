------------------------------ MODULE Updater ------------------------------
(* Updates of the application: the service of create-updater-service.ts around  *)
(* electron-updater, the background schedule, the preference for prereleases,   *)
(* and the settings page whose buttons follow the state it was last sent.       *)
EXTENDS Naturals

CONSTANT MaxChecks \* checks for updates in one run of the application

ASSUME UpdaterAssumption == MaxChecks \in Nat

VARIABLES
  service,   \* the service: its state, lastKnownUpdate, its flags
  check,     \* the check the client makes: its mode, whether prereleases count
  download,  \* the release the client downloads
  fetched,   \* the release the client has ready to install
  checks,    \* checks made
  prerelease,\* allowPrerelease, in the service, the client and the file
  waiting,   \* refreshAfterPreferenceChange waits for the active check
  page       \* the kind of state the settings page shows

updaterVars == <<service, check, download, fetched, checks, prerelease, waiting, page>>

Releases == {"none", "stable", "beta"}
UpdaterKinds == {"unavailable", "idle", "checking", "available", "downloading", "downloaded",
          "installing", "error"}
Modes == {"none", "manual", "silent"} \* activeCheckMode

Service == [kind : UpdaterKinds, update : Releases, known : Releases, mode : Modes, downloading : BOOLEAN]
AtStart(kind) == [kind |-> kind, update |-> "none", known |-> "none", mode |-> "none",
                downloading |-> FALSE]
NoCheck == [mode |-> "none", beta |-> FALSE]

UpdaterTypeOK ==
  /\ service \in Service
  /\ check \in [mode : Modes, beta : BOOLEAN] /\ checks \in 0..MaxChecks
  /\ download \in Releases /\ fetched \in Releases
  /\ prerelease \in BOOLEAN /\ waiting \in BOOLEAN
  /\ page \in UpdaterKinds

(* isEnabled: a build that does not update itself is unavailable for good.      *)
UpdaterInit ==
  /\ \E kind \in {"idle", "unavailable"} : service = AtStart(kind)
  /\ check = NoCheck /\ download = "none" /\ fetched = "none" /\ checks = 0
  /\ prerelease \in BOOLEAN /\ waiting = FALSE /\ page = "unavailable"

-----------------------------------------------------------------------------
(* The service *)

Shows(s, kind, update) == [s EXCEPT !.kind = kind, !.update = update]

(* finalizeCheck, setErrorState *)
Finalized(s) == [s EXCEPT !.mode = "none"]
ErrorState(s) == Shows([Finalized(s) EXCEPT !.downloading = FALSE], "error", s.known)

(* The client's error event, unless the check was silent.                       *)
ErrorEvent(s) == IF s.mode = "silent" THEN Finalized(s) ELSE ErrorState(s)

(* runCheckForUpdates and executeCheckForUpdates, to the client's check.        *)
MayCheck == service.kind # "unavailable" /\ check = NoCheck /\ checks < MaxChecks
RunCheck(s, mode) ==
  /\ service' = [(IF mode = "manual" THEN Shows(s, "checking", "none") ELSE s) EXCEPT !.mode = mode]
  /\ check' = [mode |-> mode, beta |-> prerelease']
  /\ checks' = checks + 1

(* canRunBackgroundCheck *)
BackgroundCheck ==
  /\ MayCheck /\ service.kind \in {"idle", "error"}
  /\ UNCHANGED prerelease /\ RunCheck(service, "silent")
  /\ UNCHANGED <<download, fetched, waiting, page>>

(* What refreshAfterPreferenceChange does when no check is active.              *)
LookAnew(s) ==
  IF s.downloading \/ s.kind \in {"downloaded", "installing"} \/ checks = MaxChecks
  THEN service' = s /\ check' = NoCheck /\ UNCHANGED checks
  ELSE RunCheck(s, "manual")

(* The client's check ends: its event, the promise, and what waits for it.      *)
CheckEnds ==
  /\ check # NoCheck /\ UNCHANGED prerelease
  /\ \E found \in Releases, failed \in BOOLEAN :
       /\ found = "beta" => check.beta \/ prerelease
       /\ failed => found = "none"
       /\ LET silent == check.mode = "silent"
              event == IF failed THEN ErrorEvent(service)
                       ELSE Shows([Finalized(service) EXCEPT !.known = found],
                                  IF found = "none" THEN "idle" ELSE "available", found)
              settled == IF ~failed THEN event
                         ELSE IF silent THEN Finalized(event) ELSE ErrorState(event)
          IN IF waiting THEN LookAnew(settled)
             ELSE service' = settled /\ check' = NoCheck /\ UNCHANGED checks
  /\ waiting' = FALSE
  /\ UNCHANGED <<download, fetched, page>>

(* download-progress *)
Progress ==
  /\ download # "none" /\ service.known # "none"
  /\ service' = Shows(service, "downloading", service.known)
  /\ UNCHANGED <<check, download, fetched, checks, prerelease, waiting, page>>

(* update-downloaded, after the signature was verified; or the error event and  *)
(* the rejected promise.                                                        *)
DownloadEnds ==
  /\ download # "none" /\ download' = "none"
  /\ \/ /\ fetched' = download
        /\ service' = Shows([service EXCEPT !.downloading = FALSE, !.known = download],
                            "downloaded", download)
     \/ service' = ErrorState(ErrorEvent(service)) /\ UNCHANGED fetched
  /\ UNCHANGED <<check, checks, prerelease, waiting, page>>

-----------------------------------------------------------------------------
(* The settings page *)

Deliver ==
  /\ page' = service.kind
  /\ UNCHANGED <<service, check, download, fetched, checks, prerelease, waiting>>

(* getUpdaterActionConfig names the action a state offers.                      *)
Offers(kind) == page = kind

CheckForUpdates ==
  /\ Offers("idle") \/ Offers("error")
  /\ MayCheck
  /\ UNCHANGED prerelease /\ RunCheck(service, "manual")
  /\ UNCHANGED <<download, fetched, waiting, page>>

(* The client downloads what its last check found.                              *)
DownloadUpdate ==
  /\ Offers("available")
  /\ ~service.downloading /\ service.kind = "available"
  /\ service' = [service EXCEPT !.downloading = TRUE]
  /\ download' = IF download = "none" THEN service.known ELSE download
  /\ UNCHANGED <<check, fetched, checks, prerelease, waiting, page>>

InstallUpdate ==
  /\ Offers("downloaded") /\ service.kind = "downloaded"
  /\ service' = Shows(service, "installing", service.update)
  /\ UNCHANGED <<check, download, fetched, checks, prerelease, waiting, page>>

(* isUpdaterPreferenceChangeDisabled; setAllowPrerelease saves, and looks for   *)
(* updates anew once no check is active.                                        *)
MutantWaits == FALSE
Waits == check # NoCheck

SetAllowPrerelease ==
  /\ page \in {"idle", "available", "error"}
  /\ prerelease' = ~prerelease
  /\ IF Waits THEN waiting' = TRUE /\ UNCHANGED <<service, check, checks>>
     ELSE /\ UNCHANGED waiting
          /\ IF check = NoCheck THEN LookAnew(service) ELSE UNCHANGED <<service, check, checks>>
  /\ UNCHANGED <<download, fetched, page>>

(* quitAndInstall, or the user quits; the preference is read from its file.     *)
Relaunch ==
  /\ service.kind # "unavailable"
  /\ service' = AtStart("idle") /\ check' = NoCheck /\ download' = "none" /\ fetched' = "none"
  /\ checks' = 0 /\ waiting' = FALSE /\ page' = "unavailable"
  /\ UNCHANGED prerelease

UpdaterNext ==
  \/ BackgroundCheck \/ CheckEnds \/ Progress \/ DownloadEnds \/ Deliver
  \/ CheckForUpdates \/ DownloadUpdate \/ InstallUpdate \/ SetAllowPrerelease \/ Relaunch

UpdaterSpec == UpdaterInit /\ [][UpdaterNext]_updaterVars

-----------------------------------------------------------------------------
(* Properties *)

(* What is going on is what the service says: checking and downloading only     *)
(* while the client does so, never both at once; what it offers to install is   *)
(* what the client has; a download is not refused when there is none; and a     *)
(* prerelease is not offered to a user who no longer wants one, once the check  *)
(* under way has ended.                                                         *)
OffersHold ==
  /\ check = NoCheck \/ download = "none"
  /\ service.kind = "checking" => check.mode = "manual"
  /\ service.kind = "downloading" => download = service.update
  /\ service.kind \in {"downloaded", "installing"} => fetched = service.update
  /\ service.downloading => download # "none"
  /\ service.kind = "available" /\ service.update = "beta" /\ ~prerelease /\ checks < MaxChecks =>
       service.downloading \/ waiting

=============================================================================
