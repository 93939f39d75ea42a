------------------------------ MODULE Startup ------------------------------
(* How the application starts and stops its backend: the controller of          *)
(* create-backend-startup-controller.ts with its attempts, the backend          *)
(* processes, the window that shows the state, and quitting. A process, a       *)
(* health request, a timer and a message can each be late.                      *)
EXTENDS Naturals, FiniteSets

CONSTANT MaxAttempts \* attempts made before the user gives up

ASSUME StartupAssumption == MaxAttempts \in Nat \ {0}

VARIABLES
  attempts,   \* the attempts, by number
  active,     \* activeAttempt: its number, 0 for null
  launched,   \* attemptGeneration
  startup,    \* the controller's state
  retrying,   \* the attempt whose child retryPromise waits for, or 0
  disposed,   \* the controller's flag
  stranger,   \* another program answers at the port
  app,        \* the main process
  window      \* the window, and what it shows

startVars == <<attempts, active, launched, startup, retrying, disposed, stranger, app, window>>

Attempts == 1..MaxAttempts

(* What launchAttempt awaits: the health of what is there already, the health   *)
(* of its child, the time between two polls.                                    *)
StartupAwaits == {"none", "health", "poll", "delay", "end"}

(* A child: dead until its exit event, then gone. *)
Children == {"none", "starting", "serving", "dead", "gone"}
Attempt == [awaits : StartupAwaits, answered : BOOLEAN, child : Children, killed : BOOLEAN,
            aborted : BOOLEAN, prolonged : BOOLEAN, ready : BOOLEAN]
NewAttempt == [awaits |-> "none", answered |-> FALSE, child |-> "none", killed |-> FALSE,
               aborted |-> FALSE, prolonged |-> FALSE, ready |-> FALSE]

StartupStates == {"initial", "taking-longer", "ready", "failed"}
Windows == [listens : BOOLEAN, received : BOOLEAN, shows : StartupStates,
            reply : StartupStates \cup {"none", "asked", "sent"}]
NoWindow == [listens |-> FALSE, received |-> FALSE, shows |-> "initial", reply |-> "none"]

StartupTypeOK ==
  /\ attempts \in [Attempts -> Attempt]
  /\ active \in 0..launched /\ launched \in 0..MaxAttempts /\ retrying \in 0..MaxAttempts
  /\ startup \in StartupStates /\ disposed \in BOOLEAN /\ stranger \in BOOLEAN
  /\ app \in {"preparing", "running", "flushing", "closing", "gone"}
  /\ window \in Windows

StartupInit ==
  /\ attempts = [a \in Attempts |-> NewAttempt]
  /\ active = 0 /\ launched = 0 /\ startup = "initial" /\ retrying = 0
  /\ disposed = FALSE /\ stranger \in BOOLEAN
  /\ app = "preparing" /\ window = NoWindow

IsActive(a) == ~disposed /\ active = a /\ ~attempts[a].aborted
IsAlive(a) == attempts[a].child \in {"starting", "serving"}

(* The exit event of a child has been seen: exitCode or signalCode is set.      *)
HasExited(a) == attempts[a].child \in {"none", "gone"}

(* setState, and emitStartupState: a window that does not listen yet misses it. *)
(* Messages to a window arrive in the order they are sent.                      *)
SetState(s) ==
  /\ startup' = s
  /\ window' = IF window.listens THEN [window EXCEPT !.received = TRUE, !.shows = s] ELSE window

Killed(as, a) == IF HasExited(a) THEN as ELSE [as EXCEPT ![a].killed = TRUE]
Aborted(as, a) == [as EXCEPT ![a].aborted = TRUE]

-----------------------------------------------------------------------------
(* The controller *)

(* launchAttempt, to its first await. *)
LaunchAttempt(as) ==
  IF disposed \/ launched = MaxAttempts
  THEN attempts' = as /\ UNCHANGED <<active, launched, startup, window>>
  ELSE /\ launched' = launched + 1
       /\ active' = launched'
       /\ attempts' = [as EXCEPT ![launched'].awaits = "health"]
       /\ SetState("initial")

(* failAttempt; the child it terminates is not waited for.                      *)
FailAttempt(as, a) ==
  IF IsActive(a) /\ ~as[a].ready
  THEN attempts' = Killed(Aborted(as, a), a) /\ SetState("failed")
  ELSE attempts' = as /\ UNCHANGED <<startup, window>>

BecomeReady(a, as) == attempts' = [as EXCEPT ![a].ready = TRUE] /\ SetState("ready")
Awaiting(a, what) == [attempts EXCEPT ![a].awaits = what, ![a].answered = FALSE]

(* Whoever serves at the port answers; the answer is then on its way. An        *)
(* aborted request has no answer.                                               *)
HealthAnswers(a) ==
  /\ attempts[a].awaits \in {"health", "poll"} /\ ~attempts[a].answered /\ ~attempts[a].aborted
  /\ stranger \/ \E b \in Attempts : attempts[b].child = "serving"
  /\ attempts' = [attempts EXCEPT ![a].answered = TRUE]
  /\ UNCHANGED <<active, launched, startup, retrying, disposed, stranger, app, window>>

(* launchAttempt after its health check: ready without a child of its own, or a *)
(* child is spawned, or that throws.                                            *)
MutantMayProceed(a) == ~disposed
MayProceed(a) == IsActive(a)

HealthChecked(a) ==
  /\ attempts[a].awaits = "health"
  /\ \/ /\ attempts[a].answered
        /\ IF IsActive(a) THEN BecomeReady(a, Awaiting(a, "end"))
           ELSE attempts' = Awaiting(a, "end") /\ UNCHANGED <<startup, window>>
     \/ /\ ~MayProceed(a)
        /\ attempts' = Awaiting(a, "end") /\ UNCHANGED <<startup, window>>
     \/ /\ MayProceed(a)
        /\ attempts' = [Awaiting(a, "poll") EXCEPT ![a].child = "starting"]
        /\ UNCHANGED <<startup, window>>
     \/ MayProceed(a) /\ FailAttempt(Awaiting(a, "end"), a)
  /\ UNCHANGED <<active, launched, retrying, disposed, stranger, app>>

(* pollUntilReady: one turn of its loop; a poll may end without an answer.      *)
Polled(a) ==
  /\ attempts[a].awaits = "poll"
  /\ \/ /\ ~IsActive(a)
        /\ attempts' = Awaiting(a, "end") /\ UNCHANGED <<startup, window>>
     \/ IsActive(a) /\ attempts[a].answered /\ BecomeReady(a, Awaiting(a, "end"))
     \/ IsActive(a) /\ attempts' = Awaiting(a, "delay") /\ UNCHANGED <<startup, window>>
     \/ /\ IsActive(a) /\ ~attempts[a].prolonged
        /\ attempts' = [Awaiting(a, "delay") EXCEPT ![a].prolonged = TRUE]
        /\ SetState("taking-longer")
  /\ UNCHANGED <<active, launched, retrying, disposed, stranger, app>>

DelayEnds(a) ==
  /\ attempts[a].awaits = "delay"
  /\ attempts' = Awaiting(a, IF IsActive(a) THEN "poll" ELSE "end")
  /\ UNCHANGED <<active, launched, startup, retrying, disposed, stranger, app, window>>

(* retry: single-flight; the child of the active attempt is told to stop, and   *)
(* a kill that finds it dead already counts as failed.                          *)
Retry ==
  /\ window.listens /\ app \in {"running", "flushing", "closing"} /\ retrying = 0 /\ ~disposed
  /\ launched < MaxAttempts
  /\ IF HasExited(active)
     THEN LaunchAttempt(Aborted(attempts, active)) /\ UNCHANGED retrying
     ELSE /\ attempts' = Killed(Aborted(attempts, active), active)
          /\ \/ retrying' = active /\ UNCHANGED <<startup, window>>
             \/ /\ attempts[active].child = "dead"
                /\ SetState("failed") /\ UNCHANGED retrying
          /\ UNCHANGED <<active, launched>>
  /\ UNCHANGED <<disposed, stranger, app>>

(* terminateChildProcess resolves: with the exit event, or after its timeout.   *)
Terminated ==
  /\ retrying # 0 /\ retrying' = 0
  /\ \/ attempts[retrying].child = "gone" /\ LaunchAttempt(attempts)
     \/ /\ attempts[retrying].child # "gone"
        /\ SetState("failed") /\ UNCHANGED <<attempts, active, launched>>
  /\ UNCHANGED <<disposed, stranger, app>>

-----------------------------------------------------------------------------
(* The backend processes *)

Serves(a) ==
  /\ attempts[a].child = "starting"
  /\ attempts' = [attempts EXCEPT ![a].child = "serving"]
  /\ UNCHANGED <<active, launched, startup, retrying, disposed, stranger, app, window>>

(* It ends, told to or not; a program that cannot be started ends at once.      *)
Dies(a) ==
  /\ IsAlive(a)
  /\ attempts' = [attempts EXCEPT ![a].child = "dead"]
  /\ UNCHANGED <<active, launched, startup, retrying, disposed, stranger, app, window>>

ExitEvent(a) ==
  /\ attempts[a].child = "dead"
  /\ FailAttempt([attempts EXCEPT ![a].child = "gone"], a)
  /\ UNCHANGED <<active, launched, retrying, disposed, stranger, app>>

-----------------------------------------------------------------------------
(* The application and its window *)

(* startApplication: the controller is made and started.                        *)
Start ==
  /\ app \in {"preparing", "flushing"} /\ launched = 0
  /\ LaunchAttempt(attempts)
  /\ app' = IF app = "preparing" THEN "running" ELSE app
  /\ UNCHANGED <<retrying, disposed, stranger>>

(* useStartupState: subscribe, and ask for the state; the answer is read when   *)
(* the request is handled and sent a little later.                              *)
Mount ==
  /\ launched > 0 /\ app \in {"running", "flushing"} /\ ~window.listens
  /\ window' = [window EXCEPT !.listens = TRUE, !.reply = "asked"]
  /\ UNCHANGED <<attempts, active, launched, startup, retrying, disposed, stranger, app>>

GetState ==
  /\ window.reply = "asked"
  /\ window' = [window EXCEPT !.reply = startup]
  /\ UNCHANGED <<attempts, active, launched, startup, retrying, disposed, stranger, app>>

(* An answer is old news once an event was received.                            *)
Reply ==
  /\ window.reply \in StartupStates
  /\ window' = [window EXCEPT !.reply = "sent",
                              !.shows = IF window.received THEN @ ELSE window.reply]
  /\ UNCHANGED <<attempts, active, launched, startup, retrying, disposed, stranger, app>>

(* createSyncQuitHandler: quitting waits for a last trigger, meanwhile all goes *)
(* on.                                                                          *)
Quit ==
  /\ app \in {"preparing", "running"} /\ app' = "flushing"
  /\ UNCHANGED <<attempts, active, launched, startup, retrying, disposed, stranger, window>>

(* disposeApplicationResources *)
Dispose ==
  /\ disposed' = (launched > 0)
  /\ attempts' = IF active = 0 THEN attempts ELSE Killed(Aborted(attempts, active), active)
  /\ active' = 0

Flushed ==
  /\ app = "flushing" /\ app' = "closing"
  /\ Dispose
  /\ UNCHANGED <<launched, startup, retrying, stranger, window>>

(* The window could not be made. *)
StartFails ==
  /\ app = "running" /\ ~window.listens /\ app' = "flushing"
  /\ Dispose
  /\ UNCHANGED <<launched, startup, retrying, stranger, window>>

Exit ==
  /\ app = "closing" /\ app' = "gone"
  /\ UNCHANGED <<attempts, active, launched, startup, retrying, disposed, stranger, window>>

Callback(a) == HealthAnswers(a) \/ HealthChecked(a) \/ Polled(a) \/ DelayEnds(a) \/ ExitEvent(a)

StartupNext ==
  \/ /\ app # "gone"
     /\ \/ \E a \in Attempts : Callback(a)
        \/ Retry \/ Terminated \/ Start \/ Mount \/ GetState \/ Reply
        \/ Quit \/ Flushed \/ StartFails \/ Exit
  \/ \E a \in Attempts : Serves(a) \/ Dies(a)

StartupSpec == StartupInit /\ [][StartupNext]_startVars

-----------------------------------------------------------------------------
(* Properties *)

(* However retries, late answers, exit events and quitting interleave: no two   *)
(* backends work on the data at once; none is left behind that was not told to  *)
(* stop; "ready" is said of the attempt that is waited for; and a window that   *)
(* has its answer shows the controller's state.                                 *)
OneBackend ==
  /\ Cardinality({a \in Attempts : IsAlive(a)}) <= 1
  /\ app = "gone" => \A a \in Attempts : IsAlive(a) => attempts[a].killed
  /\ startup = "ready" /\ ~disposed => attempts[active].ready
  /\ window.reply = "sent" => window.shows = startup

=============================================================================
