--------------------------- MODULE Orchestration ---------------------------
(* When the backend synchronizes: SyncOrchestrationService with the             *)
(* OneDriveDeltaScheduler inside it, the account row they read, and the outbox  *)
(* reduced to what the observer of local mutations can tell.                    *)
(*                                                                              *)
(* Timers are flags: a timer that is set may fire at any time, so back-off,     *)
(* jitter and debounce delays are left out. One action is the code from an      *)
(* await to the next, with the microtasks of the promises it settles.           *)
EXTENDS Naturals

(* "off": disabled; "unbound": enabled without provider or workspace; else the  *)
(* provider of an enabled and bound account.                                    *)
Accounts == {"off", "unbound", "google", "onedrive"}
Bound(a) == a \in {"google", "onedrive"}

VARIABLES
  up,         \* the module is initialized and not destroyed
  account,    \* sync_account_state
  exclusive,  \* an exclusive operation is reserved at the reconciliation gate
  run,        \* activeRun: phase, the adapter's provider, whether it retries
  pendingRun, \* pendingRun
  timers,     \* localDebounceTimer, retryTimer, delayedTriggerTimer
  poller,     \* the OneDrive scheduler; halted (history): its last poll failed for good
  outbox,     \* rows no pass has claimed, rows the active run holds
  unseen,     \* the pending signature differs from observedOutboxSignature
  edited,     \* history: a mutation made without an active run, and no run since
  unretried   \* history: an ordinary run failed transiently, and no run since

orcVars == <<up, account, exclusive, run, pendingRun, timers, poller, outbox,
             unseen, edited, unretried>>

Timers == {"debounce", "retry", "delayed"}
NoRun == [phase |-> "none", adapter |-> "off", retries |-> FALSE]
NoPoller == [enabled |-> FALSE, running |-> FALSE, joined |-> FALSE,
             timer |-> FALSE, awaiting |-> FALSE, halted |-> FALSE]

OrchestrationTypeOK ==
  /\ up \in BOOLEAN /\ exclusive \in BOOLEAN /\ pendingRun \in BOOLEAN
  /\ unseen \in BOOLEAN
  /\ edited \in BOOLEAN /\ unretried \in BOOLEAN
  /\ account \in Accounts
  /\ run \in [phase : {"none", "queued", "pulling", "verifying"},
              adapter : Accounts, retries : BOOLEAN]
  /\ timers \subseteq Timers
  /\ poller \in [enabled : BOOLEAN, running : BOOLEAN, joined : BOOLEAN,
                 timer : BOOLEAN, awaiting : BOOLEAN, halted : BOOLEAN]
  /\ outbox \in [fresh : BOOLEAN, claimed : BOOLEAN]

OrchestrationInit ==
  /\ up = FALSE /\ account = "off" /\ exclusive = FALSE
  /\ run = NoRun /\ pendingRun = FALSE /\ timers = {} /\ poller = NoPoller
  /\ outbox = [fresh |-> FALSE, claimed |-> FALSE]
  /\ unseen = FALSE
  /\ edited = FALSE /\ unretried = FALSE

-----------------------------------------------------------------------------
(* Runs *)

Idle == run.phase = "none"

(* The run that executeRun starts. It returns at once when the account is not   *)
(* bound; otherwise the gate lets it begin, or makes it wait for the exclusive  *)
(* operation with the adapter it has already created.                           *)
Begin(retries) ==
  IF Bound(account)
  THEN [phase |-> IF exclusive THEN "queued" ELSE "pulling",
        adapter |-> account, retries |-> retries]
  ELSE NoRun

RequestRun ==
  IF Idle
  THEN /\ run' = Begin(TRUE)
       /\ edited' = (edited /\ run' = NoRun)
       /\ unretried' = (unretried /\ run' = NoRun)
       /\ UNCHANGED pendingRun
  ELSE /\ pendingRun' = TRUE
       /\ UNCHANGED <<run, edited, unretried>>

NoRequest == UNCHANGED <<run, pendingRun, edited, unretried>>

(* The scheduler's timer, set by setActive unless a poll runs or is awaited. *)
SetActive(p) ==
  IF p.enabled /\ ~p.running /\ ~p.awaiting THEN [p EXCEPT !.timer = TRUE, !.halted = FALSE] ELSE p

(* setEnabled and setActive as trigger calls them for the current account. *)
FollowAccount(p) ==
  IF account = "onedrive" /\ ~p.enabled
    THEN SetActive([p EXCEPT !.enabled = TRUE])
  ELSE IF account # "onedrive" /\ p.enabled
    THEN [p EXCEPT !.enabled = FALSE, !.timer = FALSE, !.awaiting = FALSE]
  ELSE p

(* How a poll ends when the run it waited for does; a poll that joined an       *)
(* ordinary run with a retry to come leaves polling to that retry.              *)
AfterPoll(p, outcome, retrying) ==
  LET done == [p EXCEPT !.running = FALSE, !.joined = FALSE] IN
  IF ~p.running THEN p
  ELSE IF p.joined /\ retrying THEN [done EXCEPT !.awaiting = TRUE]
  ELSE [done EXCEPT !.timer = p.enabled /\ outcome # "permanent",
                    !.halted = outcome = "permanent"]

MutantCompleteExternalPoll(p) == p

CompleteExternalPoll(p) ==
  IF p.awaiting
  THEN [p EXCEPT !.awaiting = FALSE, !.timer = p.enabled /\ ~p.running]
  ELSE p

(* The finally of startOrJoinRun: a pending run follows unless destroyed. What  *)
(* edits and failures are still owed a run depends on whether one begins.       *)
FollowUp(pending) == IF pending /\ up THEN Begin(TRUE) ELSE NoRun

EndRun(pending, failed) ==
  /\ run' = FollowUp(pending)
  /\ pendingRun' = (pending /\ ~up)
  /\ unretried' = (failed /\ run' = NoRun)
  /\ UNCHANGED edited

-----------------------------------------------------------------------------
(* The process, the account and the outbox *)

(* onModuleInit, which ends in the startup trigger. *)
Start ==
  /\ ~up /\ Idle
  /\ up' = TRUE
  /\ exclusive' = FALSE
  /\ run' = IF Bound(account)
            THEN [phase |-> "pulling", adapter |-> account, retries |-> TRUE]
            ELSE NoRun
  /\ poller' = FollowAccount(NoPoller)
  /\ pendingRun' = FALSE /\ timers' = {}
  /\ unseen' = FALSE /\ edited' = FALSE /\ unretried' = FALSE
  /\ UNCHANGED <<account, outbox>>

(* onModuleDestroy. An active run goes on, and may set timers again. *)
Destroy ==
  /\ up
  /\ up' = FALSE
  /\ timers' = {}
  /\ poller' = [poller EXCEPT !.enabled = FALSE, !.awaiting = FALSE, !.timer = FALSE]
  /\ UNCHANGED <<account, exclusive, run, pendingRun, outbox, unseen, edited, unretried>>

(* executeExclusive reserves the gate; it waits for a pass that has begun. *)
Reserve ==
  /\ up /\ ~exclusive
  /\ exclusive' = TRUE
  /\ UNCHANGED <<up, account, run, pendingRun, timers, poller, outbox, unseen, edited, unretried>>

(* enable, disable, disconnect, reset or confirm changes the account; reset and *)
(* confirm also clear or fill the outbox.                                       *)
Operate(newAccount) ==
  /\ exclusive /\ run.phase \notin {"pulling", "verifying"}
  /\ newAccount # account
  /\ account' = newAccount
  /\ \/ UNCHANGED <<outbox, unseen>>
     \/ /\ \E fresh \in BOOLEAN : outbox' = [fresh |-> fresh, claimed |-> FALSE]
        /\ unseen' = TRUE
  /\ edited' = FALSE /\ unretried' = FALSE
  /\ UNCHANGED <<up, exclusive, run, pendingRun, timers, poller>>

(* The operation ends; a run that waited begins, with the adapter it has. It    *)
(* fails at once (see RunFails) when the account is no longer bound.            *)
ReleaseGate ==
  /\ exclusive /\ run.phase \notin {"pulling", "verifying"}
  /\ exclusive' = FALSE
  /\ run' = IF run.phase = "queued" THEN [run EXCEPT !.phase = "pulling"] ELSE run
  /\ UNCHANGED <<up, account, pendingRun, timers, poller, outbox, unseen, edited, unretried>>

(* A domain change is journaled. *)
Journal ==
  /\ up
  /\ outbox' = [outbox EXCEPT !.fresh = TRUE]
  /\ unseen' = TRUE
  /\ edited' = (edited \/ (Idle /\ Bound(account)))
  /\ UNCHANGED <<up, account, exclusive, run, pendingRun, timers, poller, unretried>>

-----------------------------------------------------------------------------
(* Triggers and timers *)

(* The part of trigger every kind goes through. *)
Triggered ==
  /\ up
  /\ UNCHANGED <<up, account, exclusive, outbox>>

(* Manual, provider signal, watchdog, verification, quit, conflict resolution,  *)
(* repair.                                                                      *)
MutantTrigger ==
  /\ Triggered
  /\ poller' = FollowAccount(poller)
  /\ IF Bound(account) /\ timers = {} THEN RequestRun ELSE NoRequest
  /\ UNCHANGED <<timers, unseen>>

Trigger ==
  /\ Triggered
  /\ poller' = FollowAccount(poller)
  /\ IF Bound(account) THEN RequestRun ELSE NoRequest
  /\ UNCHANGED <<timers, unseen>>

(* The interval of 15 minutes is one of them. *)
Watchdog == Trigger

(* Focus and resume set the scheduler active and run when the last attempt is   *)
(* stale; background sets it inactive, which schedules a poll as well.          *)
FocusOrBackground(runs) ==
  /\ Triggered
  /\ Bound(account)
  /\ poller' = SetActive(FollowAccount(poller))
  /\ IF runs THEN RequestRun ELSE NoRequest
  /\ UNCHANGED <<timers, unseen>>

(* scheduleDelayedTrigger *)
DelayTrigger ==
  /\ timers' = timers \cup {"delayed"}
  /\ pendingRun' = IF "delayed" \in timers THEN pendingRun \/ ~Idle ELSE pendingRun

NetworkRecovery ==
  /\ Triggered
  /\ Bound(account)
  /\ poller' = FollowAccount(poller)
  /\ DelayTrigger
  /\ UNCHANGED <<run, edited, unretried, unseen>>

(* observeLocalMutations, which leaves a disabled account alone and otherwise   *)
(* triggers: scheduleLocalMutation (re)sets the debounce timer.                 *)
Observe ==
  /\ unseen
  /\ unseen' = FALSE
  /\ IF account = "off"
     THEN up /\ UNCHANGED <<up, account, exclusive, outbox, poller, timers>>
     ELSE /\ Triggered
          /\ poller' = FollowAccount(poller)
          /\ timers' = IF Bound(account) THEN timers \cup {"debounce"} ELSE timers
  /\ NoRequest

(* The debounce, retry or delayed timer fires. *)
MutantTimerFires(t) ==
  /\ t \in timers
  /\ timers' = {}
  /\ run' = IF Idle /\ ~exclusive THEN Begin(TRUE) ELSE run
  /\ edited' = (edited /\ run' = run) /\ unretried' = (unretried /\ run' = run)
  /\ UNCHANGED <<up, account, exclusive, pendingRun, poller, outbox, unseen>>

TimerFires(t) ==
  /\ t \in timers
  /\ timers' = timers \ {t}
  /\ RequestRun
  /\ UNCHANGED <<up, account, exclusive, poller, outbox, unseen>>

(* The scheduler's timer fires: the poll joins the active run, or starts one    *)
(* that schedules no retry. With an unbound account it changes nothing.         *)
PollFires ==
  /\ poller.timer /\ Bound(account)
  /\ poller' = [poller EXCEPT !.timer = FALSE, !.running = TRUE, !.joined = ~Idle]
  /\ run' = IF Idle THEN Begin(FALSE) ELSE run
  /\ edited' = (edited /\ ~Idle) /\ unretried' = (unretried /\ ~Idle)
  /\ UNCHANGED <<up, account, exclusive, pendingRun, timers, outbox, unseen>>

-----------------------------------------------------------------------------
(* The pass *)

(* claimAvailable takes the rows there are; taking rows changes updated_at. *)
ClaimMutations ==
  /\ run.phase = "pulling" /\ Bound(account)
  /\ run' = [run EXCEPT !.phase = "verifying"]
  /\ outbox' = [fresh |-> FALSE, claimed |-> outbox.fresh]
  /\ unseen' = (unseen \/ outbox.fresh)
  /\ UNCHANGED <<up, account, exclusive, pendingRun, timers, poller, edited, unretried>>

(* executeRun after a pass that succeeded. *)
RunSucceeds ==
  /\ run.phase = "verifying"
  /\ LET pushed == outbox.claimed
         external == IF run.adapter = "onedrive" THEN CompleteExternalPoll(poller)
                                                 ELSE poller
     IN /\ timers' = (timers \ {"retry"}) \cup (IF pushed THEN {"delayed"} ELSE {})
        /\ poller' = AfterPoll(external, "success", FALSE)
        /\ EndRun(pendingRun \/ (pushed /\ "delayed" \in timers), FALSE)
  /\ outbox' = [outbox EXCEPT !.claimed = FALSE]
  /\ unseen' = FALSE
  /\ UNCHANGED <<up, account, exclusive>>

(* executeRun after a pass that failed: handleFailure and scheduleRetry. Rows   *)
(* it held can be claimed again later. "transient" stands for offline,          *)
(* throttled and quota, "unknown" for errors that are no SyncProviderError.     *)
RunFails(outcome) ==
  /\ run.phase \in {"pulling", "verifying"}
  /\ Bound(account) \/ outcome = "unknown"
  /\ LET retrying == outcome = "transient" /\ run.retries
     IN /\ timers' = IF retrying THEN timers \cup {"retry"} ELSE timers
        /\ poller' = AfterPoll(poller, outcome, retrying)
        /\ EndRun(pendingRun, retrying)
  /\ outbox' = [fresh |-> outbox.fresh \/ outbox.claimed, claimed |-> FALSE]
  /\ unseen' = (unseen \/ outbox.claimed)
  /\ UNCHANGED <<up, account, exclusive>>

Outcomes == {"transient", "permanent", "unknown"}

OrchestrationNext ==
  \/ Start \/ Destroy \/ Reserve \/ ReleaseGate \/ Journal
  \/ \E a \in Accounts : Operate(a)
  \/ Trigger \/ NetworkRecovery \/ Observe
  \/ \E runs \in BOOLEAN : FocusOrBackground(runs)
  \/ \E t \in Timers : TimerFires(t)
  \/ PollFires
  \/ ClaimMutations \/ RunSucceeds
  \/ \E outcome \in Outcomes : RunFails(outcome)

(* Intervals and timers fire, passes end, an operation ends. Passes may fail,   *)
(* but not every time for ever.                                                 *)
OrchestrationFairness ==
  /\ WF_orcVars(Watchdog) /\ WF_orcVars(ReleaseGate)
  /\ SF_orcVars(ClaimMutations) /\ SF_orcVars(RunSucceeds)
  /\ WF_orcVars(\E outcome \in Outcomes : RunFails(outcome))

OrchestrationSpec ==
  OrchestrationInit /\ [][OrchestrationNext]_orcVars /\ OrchestrationFairness

-----------------------------------------------------------------------------
(* Properties *)

(* Work that is owed a run stays on its way to one, whatever polls, other       *)
(* timers, runs and account changes do meanwhile: a mutation made while nothing *)
(* runs is known to the observer or debounced, and does not have to wait for    *)
(* the watchdog; the retry of an ordinary run that failed transiently stays     *)
(* scheduled.                                                                   *)
WorkStaysScheduled ==
  up =>
    /\ edited => unseen \/ "debounce" \in timers \/ ~Idle
    /\ unretried => "retry" \in timers \/ ~Idle

(* Every mutation is claimed by a pass, as long as the account stays bound:     *)
(* there is no time from which on one waits for ever.                           *)
MutationsReachAPass == []<>(outbox.fresh => ~up \/ ~Bound(account))

(* Polling that was left to a retry resumes, while the account stays.           *)
PollingResumes ==
  <>[](up /\ account = "onedrive") => []<>(~poller.awaiting)

=============================================================================
