---------------------------- MODULE TriggersProofs ----------------------------
(* What makes passes run and drain the journal. The first part is about the     *)
(* orchestration of passes and the OneDrive scheduler, in every interleaving of *)
(* triggers, timers, polls, passes and account changes: work that is owed a run *)
(* stays scheduled, and what waits for a run has one to wait for. The others    *)
(* are about the relay, the Google channels, and MCTriggers, which has all      *)
(* three side by side with the outbox of SyncOutboxProofs.                      *)
EXTENDS MCTriggers, SyncOutboxProofs, WellFoundedInduction, TLAPS

\* A mutation that is owed a run: nothing runs, so that no success can absorb it.
EditsWait ==
    edited => /\ Idle
              /\ Bound(account)
              /\ up => unseen \/ "debounce" \in timers

\* A failed run that is owed another.
RetriesWait ==
    unretried => /\ Idle
                 /\ Bound(account)
                 /\ up => "retry" \in timers

\* What waits for the active run to end: a request that came meanwhile, a poll of
\* the scheduler. There is such a run, and the scheduler has one poll in hand at
\* most: due, under way, or left to a retry.
WaitersHaveRuns ==
    /\ up /\ pendingRun => ~Idle
    /\ poller.running => ~Idle
    /\ poller.joined => poller.running
    /\ ~(poller.timer /\ poller.running)
    /\ ~(poller.timer /\ poller.awaiting)
    /\ ~(poller.running /\ poller.awaiting)

Pollers == [enabled : BOOLEAN, running : BOOLEAN, joined : BOOLEAN,
            timer : BOOLEAN, awaiting : BOOLEAN, halted : BOOLEAN]
Runs == [phase : {"none", "queued", "pulling", "verifying"},
         adapter : Accounts, retries : BOOLEAN]

\* A scheduler that may be in a state of which WaitersHaveRuns speaks.
OnePoll(p) ==
    /\ p \in Pollers
    /\ p.joined => p.running
    /\ ~(p.timer /\ p.running)
    /\ ~(p.timer /\ p.awaiting)
    /\ ~(p.running /\ p.awaiting)

OrcInv ==
    /\ up \in BOOLEAN /\ exclusive \in BOOLEAN /\ pendingRun \in BOOLEAN
    /\ unseen \in BOOLEAN /\ edited \in BOOLEAN /\ unretried \in BOOLEAN
    /\ account \in Accounts
    /\ run \in Runs
    /\ timers \subseteq Timers
    /\ outbox \in [fresh : BOOLEAN, claimed : BOOLEAN]
    /\ EditsWait
    /\ RetriesWait
    /\ OnePoll(poller)
    /\ up /\ pendingRun => ~Idle
    /\ poller.running => ~Idle

-----------------------------------------------------------------------------
(* The helpers *)

\* setActive schedules a poll only if none is under way or awaited.
LEMMA SetActiveIsOnePoll ==
    ASSUME NEW p, OnePoll(p)
    PROVE  OnePoll(SetActive(p)) /\ SetActive(p).running = p.running
  BY DEF SetActive, OnePoll, Pollers

\* Following the account neither begins nor ends a poll.
LEMMA FollowAccountIsOnePoll ==
    ASSUME NEW p, OnePoll(p)
    PROVE  OnePoll(FollowAccount(p)) /\ FollowAccount(p).running = p.running
<1> DEFINE on == [p EXCEPT !.enabled = TRUE]
           off == [p EXCEPT !.enabled = FALSE, !.timer = FALSE, !.awaiting = FALSE]
<1>1. OnePoll(on) /\ on.running = p.running
  BY DEF OnePoll, Pollers
<1>2. OnePoll(off) /\ off.running = p.running
  BY DEF OnePoll, Pollers
<1>3. FollowAccount(p) \in {SetActive(on), off, p}
  BY DEF FollowAccount
<1> HIDE DEF on, off
<1> QED
  BY <1>1, <1>2, <1>3, SetActiveIsOnePoll

\* The end of a run ends the poll that waited for it.
LEMMA AfterPollIsOnePoll ==
    ASSUME NEW p, OnePoll(p), NEW outcome, NEW retrying \in BOOLEAN
    PROVE  OnePoll(AfterPoll(p, outcome, retrying)) /\ ~AfterPoll(p, outcome, retrying).running
  BY DEF AfterPoll, OnePoll, Pollers

LEMMA CompleteExternalPollIsOnePoll ==
    ASSUME NEW p, OnePoll(p)
    PROVE  OnePoll(CompleteExternalPoll(p))
  BY DEF CompleteExternalPoll, OnePoll, Pollers

\* A run begins exactly when the account is bound.
LEMMA BeginIsRun ==
    ASSUME account \in Accounts, NEW retries \in BOOLEAN
    PROVE  /\ Begin(retries) \in Runs
           /\ Begin(retries).phase = "none" <=> ~Bound(account)
           /\ Begin(retries) = NoRun <=> ~Bound(account)
           /\ NoRun \in Runs
  BY DEF Begin, NoRun, Runs, Accounts, Bound

-----------------------------------------------------------------------------
(* The initial states, and the invariant from its parts *)

LEMMA OrcImplied ==
    OrcInv => OrchestrationTypeOK /\ WaitersHaveRuns /\ WorkStaysScheduled
<1> SUFFICES ASSUME OrcInv PROVE OrchestrationTypeOK /\ WaitersHaveRuns /\ WorkStaysScheduled
  OBVIOUS
<1>1. OrchestrationTypeOK
  BY DEF OrcInv, OnePoll, Pollers, Runs, OrchestrationTypeOK
<1>2. WaitersHaveRuns
  BY DEF OrcInv, OnePoll, WaitersHaveRuns
<1>3. WorkStaysScheduled
  BY DEF OrcInv, EditsWait, RetriesWait, WorkStaysScheduled
<1> QED
  BY <1>1, <1>2, <1>3

LEMMA OrcInitEstablishes == OrchestrationInit => OrcInv
<1> SUFFICES ASSUME OrchestrationInit PROVE OrcInv
  OBVIOUS
<1>1. OnePoll(poller) /\ ~poller.running
  BY DEF OrchestrationInit, NoPoller, OnePoll, Pollers
<1>2. run \in Runs /\ Idle
  BY DEF OrchestrationInit, NoRun, Runs, Accounts, Idle
<1> QED
  BY <1>1, <1>2 DEF OrchestrationInit, OrcInv, EditsWait, RetriesWait, Accounts

-----------------------------------------------------------------------------
(* One lemma per action *)

\* A run is asked for: it begins, or the active one is followed by another.
LEMMA RequestKeeps ==
    ASSUME OrcInv, RequestRun, UNCHANGED <<up, account>>
    PROVE  /\ run' \in Runs /\ pendingRun' \in BOOLEAN
           /\ edited' \in BOOLEAN /\ unretried' \in BOOLEAN
           /\ edited' => edited /\ ~Bound(account)
           /\ unretried' => unretried /\ ~Bound(account)
           /\ Idle' => Idle
           /\ up' /\ pendingRun' => ~Idle'
<1> USE DEF OrcInv
<1>1. CASE Idle
  <2>1. /\ run' = Begin(TRUE) /\ pendingRun' = pendingRun
        /\ edited' = (edited /\ run' = NoRun)
        /\ unretried' = (unretried /\ run' = NoRun)
    BY <1>1 DEF RequestRun
  <2>2. up' => ~pendingRun
    BY <1>1
  <2> QED
    BY <1>1, <2>1, <2>2, BeginIsRun DEF Idle
<1>2. CASE ~Idle
  <2>1. /\ pendingRun' = TRUE
        /\ UNCHANGED <<run, edited, unretried>>
    BY <1>2 DEF RequestRun
  <2> QED
    BY <1>2, <2>1 DEF Idle, EditsWait, RetriesWait
<1> QED
  BY <1>1, <1>2

LEMMA StartKeeps == OrcInv /\ Start => OrcInv'
<1> SUFFICES ASSUME OrcInv, Start PROVE OrcInv'
  OBVIOUS
<1>1. OnePoll(NoPoller) /\ ~NoPoller.running
  BY DEF NoPoller, OnePoll, Pollers
<1>2. OnePoll(poller') /\ ~poller'.running
  BY <1>1, FollowAccountIsOnePoll DEF Start
<1>3. run' \in Runs /\ UNCHANGED <<account, outbox>>
  BY DEF OrcInv, Start, Runs, NoRun, Accounts
<1> QED
  BY <1>2, <1>3 DEF OrcInv, Start, EditsWait, RetriesWait, OnePoll, Timers, Idle

LEMMA DestroyKeeps == OrcInv /\ Destroy => OrcInv'
<1> SUFFICES ASSUME OrcInv, Destroy PROVE OrcInv'
  OBVIOUS
<1>1. OnePoll(poller') /\ poller'.running = poller.running
  BY DEF OrcInv, Destroy, OnePoll, Pollers
<1> QED
  BY <1>1 DEF OrcInv, Destroy, EditsWait, RetriesWait, Idle, OnePoll

LEMMA ReserveKeeps == OrcInv /\ Reserve => OrcInv'
  BY DEF OrcInv, Reserve, EditsWait, RetriesWait, Idle, OnePoll

LEMMA OperateKeeps ==
    ASSUME OrcInv, NEW a \in Accounts, Operate(a)
    PROVE  OrcInv'
<1>1. outbox' \in [fresh : BOOLEAN, claimed : BOOLEAN] /\ unseen' \in BOOLEAN
  <2>1. CASE UNCHANGED <<outbox, unseen>>
    BY <2>1 DEF OrcInv
  <2>2. CASE /\ \E fresh \in BOOLEAN : outbox' = [fresh |-> fresh, claimed |-> FALSE]
             /\ unseen' = TRUE
    BY <2>2
  <2> QED
    BY <2>1, <2>2 DEF Operate
<1> QED
  BY <1>1 DEF OrcInv, Operate, EditsWait, RetriesWait, Idle, OnePoll

LEMMA ReleaseGateKeeps == OrcInv /\ ReleaseGate => OrcInv'
<1> SUFFICES ASSUME OrcInv, ReleaseGate PROVE OrcInv'
  OBVIOUS
<1>1. run' \in Runs /\ (Idle' <=> Idle)
  BY DEF OrcInv, ReleaseGate, Runs, Idle
<1> QED
  BY <1>1 DEF OrcInv, ReleaseGate, EditsWait, RetriesWait, OnePoll

LEMMA JournalKeeps == OrcInv /\ Journal => OrcInv'
<1> SUFFICES ASSUME OrcInv, Journal PROVE OrcInv'
  OBVIOUS
<1>1. outbox' \in [fresh : BOOLEAN, claimed : BOOLEAN]
  BY DEF OrcInv, Journal
<1> QED
  BY <1>1 DEF OrcInv, Journal, EditsWait, RetriesWait, Idle, OnePoll

\* The triggers: the scheduler follows the account, and a run is asked for or not.
LEMMA TriggerKeeps == OrcInv /\ Trigger => OrcInv'
<1> SUFFICES ASSUME OrcInv, Trigger PROVE OrcInv'
  OBVIOUS
<1>1. OnePoll(poller') /\ poller'.running = poller.running
  BY FollowAccountIsOnePoll DEF OrcInv, Trigger
<1>2. UNCHANGED <<up, account, exclusive, outbox, timers, unseen>>
  BY DEF Trigger, Triggered
<1>3. CASE RequestRun
  BY <1>1, <1>2, <1>3, RequestKeeps DEF OrcInv, EditsWait, RetriesWait
<1>4. CASE NoRequest
  BY <1>1, <1>2, <1>4 DEF OrcInv, NoRequest, EditsWait, RetriesWait, Idle
<1> QED
  BY <1>3, <1>4 DEF Trigger

LEMMA FocusKeeps ==
    ASSUME OrcInv, NEW runs \in BOOLEAN, FocusOrBackground(runs)
    PROVE  OrcInv'
<1>1. OnePoll(FollowAccount(poller)) /\ FollowAccount(poller).running = poller.running
  BY FollowAccountIsOnePoll DEF OrcInv
<1>2. OnePoll(poller') /\ poller'.running = poller.running
  BY <1>1, SetActiveIsOnePoll DEF FocusOrBackground
<1>3. UNCHANGED <<up, account, exclusive, outbox, timers, unseen>>
  BY DEF FocusOrBackground, Triggered
<1>4. CASE RequestRun
  BY <1>2, <1>3, <1>4, RequestKeeps DEF OrcInv, EditsWait, RetriesWait, OnePoll
<1>5. CASE NoRequest
  BY <1>2, <1>3, <1>5 DEF OrcInv, NoRequest, EditsWait, RetriesWait, Idle, OnePoll
<1> QED
  BY <1>4, <1>5 DEF FocusOrBackground

LEMMA NetworkRecoveryKeeps == OrcInv /\ NetworkRecovery => OrcInv'
<1> SUFFICES ASSUME OrcInv, NetworkRecovery PROVE OrcInv'
  OBVIOUS
<1>1. OnePoll(poller') /\ poller'.running = poller.running
  BY FollowAccountIsOnePoll DEF OrcInv, NetworkRecovery
<1>2. /\ timers' = timers \cup {"delayed"} /\ timers' \subseteq Timers
      /\ pendingRun' \in BOOLEAN
      /\ pendingRun' => pendingRun \/ ~Idle
  BY DEF OrcInv, NetworkRecovery, DelayTrigger, Timers
<1>3. UNCHANGED <<up, account, exclusive, outbox, run, edited, unretried, unseen>>
  BY DEF NetworkRecovery, Triggered
<1> QED
  BY <1>1, <1>2, <1>3 DEF OrcInv, EditsWait, RetriesWait, Idle, OnePoll

\* The observer hands over what it saw to the debounce timer.
LEMMA ObserveKeeps == OrcInv /\ Observe => OrcInv'
<1> SUFFICES ASSUME OrcInv, Observe PROVE OrcInv'
  OBVIOUS
<1>1. /\ UNCHANGED <<up, account, exclusive, outbox, run, pendingRun, edited, unretried>>
      /\ unseen' = FALSE
  BY DEF Observe, Triggered, NoRequest
<1>2. OnePoll(poller') /\ poller'.running = poller.running
  BY FollowAccountIsOnePoll DEF OrcInv, Observe
<1>3. /\ timers' \subseteq Timers
      /\ timers \subseteq timers'
      /\ Bound(account) => "debounce" \in timers'
  BY DEF OrcInv, Observe, Bound, Timers
<1> QED
  BY <1>1, <1>2, <1>3 DEF OrcInv, EditsWait, RetriesWait, Idle, OnePoll

\* A timer that fires asks for a run: what waited for it has one.
LEMMA TimerFiresKeeps ==
    ASSUME OrcInv, NEW t \in Timers, TimerFires(t)
    PROVE  OrcInv'
<1>1. UNCHANGED <<up, account, exclusive, poller, outbox, unseen>>
  BY DEF TimerFires
<1>2. RequestRun /\ timers' \subseteq Timers
  BY DEF TimerFires, OrcInv
<1>3. ~edited' /\ ~unretried'
  BY <1>1, <1>2, RequestKeeps DEF OrcInv, EditsWait, RetriesWait
<1> QED
  BY <1>1, <1>2, <1>3, RequestKeeps DEF OrcInv, EditsWait, RetriesWait, OnePoll

LEMMA PollFiresKeeps == OrcInv /\ PollFires => OrcInv'
<1> SUFFICES ASSUME OrcInv, PollFires PROVE OrcInv'
  OBVIOUS
<1>1. UNCHANGED <<up, account, exclusive, pendingRun, timers, outbox, unseen>>
  BY DEF PollFires
<1>2. OnePoll(poller') /\ poller'.running
  BY DEF OrcInv, PollFires, OnePoll, Pollers
<1>3. run' \in Runs /\ ~Idle'
  BY BeginIsRun DEF OrcInv, PollFires, Idle
<1>4. edited' = FALSE /\ unretried' = FALSE
  BY DEF OrcInv, PollFires, EditsWait, RetriesWait
<1> QED
  BY <1>1, <1>2, <1>3, <1>4 DEF OrcInv, EditsWait, RetriesWait

LEMMA ClaimMutationsKeeps == OrcInv /\ ClaimMutations => OrcInv'
<1> SUFFICES ASSUME OrcInv, ClaimMutations PROVE OrcInv'
  OBVIOUS
<1>1. run' \in Runs /\ ~Idle /\ ~Idle'
  BY DEF OrcInv, ClaimMutations, Runs, Idle
<1>2. outbox' \in [fresh : BOOLEAN, claimed : BOOLEAN] /\ unseen' \in BOOLEAN
  BY DEF OrcInv, ClaimMutations
<1> QED
  BY <1>1, <1>2 DEF OrcInv, ClaimMutations, EditsWait, RetriesWait, OnePoll

\* A run that ends hands over to the one that was requested meanwhile.
LEMMA EndRunKeeps ==
    ASSUME OrcInv, ~Idle, NEW requested \in BOOLEAN, NEW failed \in BOOLEAN,
           EndRun(requested, failed), UNCHANGED <<up, account>>
    PROVE  /\ run' \in Runs /\ pendingRun' \in BOOLEAN
           /\ edited' = FALSE
           /\ unretried' \in BOOLEAN
           /\ unretried' => failed /\ Idle'
           /\ ~(up' /\ pendingRun')
<1>1. run' = FollowUp(requested) /\ FollowUp(requested) \in {NoRun, Begin(TRUE)}
  BY DEF EndRun, FollowUp
<1>2. run' \in Runs
  BY <1>1, BeginIsRun DEF OrcInv
<1>3. edited' = FALSE
  BY DEF EndRun, OrcInv, EditsWait
<1>4. unretried' = (failed /\ run' = NoRun)
  BY DEF EndRun
<1> QED
  BY <1>2, <1>3, <1>4 DEF EndRun, OrcInv, Idle, NoRun

LEMMA RunSucceedsKeeps == OrcInv /\ RunSucceeds => OrcInv'
<1> SUFFICES ASSUME OrcInv, RunSucceeds PROVE OrcInv'
  OBVIOUS
<1> DEFINE external == IF run.adapter = "onedrive" THEN CompleteExternalPoll(poller)
                                                   ELSE poller
           requested == pendingRun \/ (outbox.claimed /\ "delayed" \in timers)
<1>1. OnePoll(external)
  BY CompleteExternalPollIsOnePoll DEF OrcInv
<1>2. poller' = AfterPoll(external, "success", FALSE)
  BY DEF RunSucceeds
<1>3. OnePoll(poller') /\ ~poller'.running
  BY <1>1, <1>2, AfterPollIsOnePoll
<1>4. EndRun(requested, FALSE) /\ ~Idle
  BY DEF RunSucceeds, Idle
<1>5. /\ UNCHANGED <<up, account, exclusive>>
      /\ unseen' = FALSE
      /\ timers' \subseteq Timers
      /\ outbox' \in [fresh : BOOLEAN, claimed : BOOLEAN]
  BY DEF OrcInv, RunSucceeds, Timers
<1> HIDE DEF external
<1>6. requested \in BOOLEAN
  BY DEF OrcInv
<1> HIDE DEF requested
<1> QED
  BY <1>3, <1>4, <1>5, <1>6, EndRunKeeps DEF OrcInv, EditsWait, RetriesWait

LEMMA RunFailsKeeps ==
    ASSUME OrcInv, NEW outcome \in Outcomes, RunFails(outcome)
    PROVE  OrcInv'
<1> DEFINE retrying == outcome = "transient" /\ run.retries
<1>1. retrying \in BOOLEAN
  BY DEF OrcInv, Runs
<1>2. /\ poller' = AfterPoll(poller, outcome, retrying)
      /\ timers' = IF retrying THEN timers \cup {"retry"} ELSE timers
      /\ EndRun(pendingRun, retrying)
      /\ ~Idle
  BY DEF RunFails, Idle
<1>3. retrying => Bound(account)
  BY DEF RunFails
<1> HIDE DEF retrying
<1>4. OnePoll(poller') /\ ~poller'.running
  BY <1>1, <1>2, AfterPollIsOnePoll DEF OrcInv
<1>5. timers' \subseteq Timers /\ (retrying => "retry" \in timers')
  BY <1>2 DEF OrcInv, Timers
<1>6. /\ UNCHANGED <<up, account, exclusive>>
      /\ outbox' \in [fresh : BOOLEAN, claimed : BOOLEAN]
      /\ unseen' \in BOOLEAN
  BY DEF OrcInv, RunFails
<1> QED
  BY <1>1, <1>2, <1>3, <1>4, <1>5, <1>6, EndRunKeeps DEF OrcInv, EditsWait, RetriesWait

-----------------------------------------------------------------------------
(* The theorems *)

LEMMA OrcNextKeeps == OrcInv /\ [OrchestrationNext]_orcVars => OrcInv'
<1> SUFFICES ASSUME OrcInv, [OrchestrationNext]_orcVars PROVE OrcInv'
  OBVIOUS
<1>1. CASE UNCHANGED orcVars
  BY <1>1 DEF orcVars, OrcInv, EditsWait, RetriesWait, Idle, OnePoll
<1>2. CASE OrchestrationNext
  BY <1>2, StartKeeps, DestroyKeeps, ReserveKeeps, ReleaseGateKeeps, JournalKeeps,
     OperateKeeps, TriggerKeeps, NetworkRecoveryKeeps, ObserveKeeps, FocusKeeps,
     TimerFiresKeeps, PollFiresKeeps, ClaimMutationsKeeps, RunSucceedsKeeps, RunFailsKeeps
     DEF OrchestrationNext
<1> QED
  BY <1>1, <1>2

\* The strengthened invariant of the orchestration holds in every reachable state.
THEOREM OrchestrationInvariance == OrchestrationSpec => []OrcInv
  BY OrcInitEstablishes, OrcNextKeeps, PTL DEF OrchestrationSpec

\* The state of the orchestration, the scheduler and the journal's summary keeps
\* its types.
THEOREM OrchestrationTypeCorrect == OrchestrationSpec => []OrchestrationTypeOK
  BY OrchestrationInvariance, OrcImplied, PTL

\* A mutation made while nothing runs is known to the observer or debounced until
\* a run takes it, and the retry of a failed run stays scheduled until a run
\* begins, whatever timers, triggers, polls and account changes come in between.
THEOREM WorkIsScheduled == OrchestrationSpec => []WorkStaysScheduled
  BY OrchestrationInvariance, OrcImplied, PTL

\* A request remembered while a run was active, and a poll of the OneDrive
\* scheduler, always have an active run that will answer them; and the scheduler
\* never has a timer set while it polls or waits for a retry.
THEOREM WaitersAreAnswered == OrchestrationSpec => []WaitersHaveRuns
  BY OrchestrationInvariance, OrcImplied, PTL

-----------------------------------------------------------------------------
(* The relay: a deadline is none, or no further off than it was set.            *)

RelayBounds == {CoalesceTicks, Heartbeat, TokenLife, Rollover, ChannelLife}

LEMMA LatestBound ==
  /\ Max(RelayBounds) \in Nat
  /\ \A b \in RelayBounds : b \in Nat \ {0} /\ b <= Max(RelayBounds)
<1>1. RelayBounds \subseteq Nat \ {0}
  BY RelayAssumption DEF RelayBounds
<1>2. \A m, n \in Nat : \E k \in {m, n} : m <= k /\ n <= k
  OBVIOUS
<1>3. PICK m \in {CoalesceTicks, Heartbeat} : CoalesceTicks <= m /\ Heartbeat <= m
  BY <1>1, <1>2 DEF RelayBounds
<1>4. PICK n \in {TokenLife, Rollover} : TokenLife <= n /\ Rollover <= n
  BY <1>1, <1>2 DEF RelayBounds
<1>5. PICK k \in {m, n} : m <= k /\ n <= k
  BY <1>1, <1>2, <1>3, <1>4 DEF RelayBounds
<1>6. PICK l \in {k, ChannelLife} : k <= l /\ ChannelLife <= l
  BY <1>1, <1>2, <1>3, <1>4, <1>5 DEF RelayBounds
<1>7. l \in RelayBounds /\ \A b \in RelayBounds : l >= b
  BY <1>1, <1>3, <1>4, <1>5, <1>6 DEF RelayBounds
<1>8. Max(RelayBounds) \in RelayBounds /\ \A b \in RelayBounds : Max(RelayBounds) >= b
  BY <1>7 DEF Max
<1> QED
  BY <1>1, <1>8

(* A nonempty set of deadlines has an earliest.                                 *)
LEMMA Earliest ==
  ASSUME NEW S, S \subseteq Nat, S # {}
  PROVE  Min(S) \in S
<1>1. PICK m \in S : \A n \in S : <<n, m>> \notin OpToRel(<, Nat)
  BY WFMin, NatLessThanWellFounded
<1>2. \A n \in S : ~(n < m)
  BY <1>1 DEF OpToRel
<1>3. \A n \in S : m <= n
  BY <1>2
<1> QED
  BY <1>3 DEF Min

Alarms == Left(Max(RelayBounds))
DeviceTokens == [version : Versions, left : Left(TokenLife), used : BOOLEAN]
Sockets == [version : Versions, age : Left(Stale)]

(* The next alarm is one of the deadlines, or the one there was.                *)
LEMMA AlarmBounded ==
  ASSUME NEW current \in Alarms, NEW at \in Left(CoalesceTicks), NEW s,
         NEW t \in [Devices -> DeviceTokens], NEW r \in Left(Rollover), NEW c \in Left(ChannelLife)
  PROVE  ScheduleNextAlarm(current, at, s, MaintenanceAt(t, r, c)) \in Alarms
<1> DEFINE heartbeat == IF Connected(s) = {} THEN {} ELSE {Heartbeat}
           deadlines == ({at} \ {None}) \cup heartbeat \cup MaintenanceAt(t, r, c)
           latest == Max(RelayBounds)
<1>1. latest \in Nat /\ \A b \in RelayBounds : b \in Nat /\ b <= latest
  BY LatestBound
<1> HIDE DEF latest
<1>2. {at} \ {None} \subseteq 0..latest
  BY <1>1 DEF Left, RelayBounds
<1>3. heartbeat \subseteq 0..latest
  BY <1>1 DEF RelayBounds
<1>4. \A d \in Devices : t[d].left \in Left(TokenLife)
  BY DEF DeviceTokens
<1>5. MaintenanceAt(t, r, c) \subseteq 0..latest
  BY <1>1, <1>4 DEF MaintenanceAt, Left, RelayBounds
<1>6. deadlines \subseteq 0..latest
  BY <1>2, <1>3, <1>5
<1>7. deadlines # {} => Min(deadlines) \in 0..latest
  BY <1>1, <1>6, Earliest
<1>8. ScheduleNextAlarm(current, at, s, MaintenanceAt(t, r, c)) \in {None, current, Min(deadlines)}
      /\ (deadlines = {} => ScheduleNextAlarm(current, at, s, MaintenanceAt(t, r, c)) = None)
  BY DEF ScheduleNextAlarm
<1> QED
  BY <1>7, <1>8 DEF Alarms, Left, latest

(* Everything but the alarm, which every handler derives from the rest.         *)
RelayRest ==
  /\ tokens \in [Devices -> DeviceTokens]
  /\ rollover \in Left(Rollover) /\ channel \in Left(ChannelLife)
  /\ pending \in Left(CoalesceTicks)
  /\ sockets \in [Devices -> Sockets]

LEMMA RelayTyped ==
  /\ RelayTypeOK => RelayRest /\ alarm \in Alarms /\ owed \in BOOLEAN
  /\ RelayRest' /\ alarm' \in Alarms /\ owed' \in BOOLEAN => RelayTypeOK'
BY DEF RelayTypeOK, RelayRest, Alarms, RelayBounds, DeviceTokens, Sockets

(* What is expired is cleaned up.                                               *)
LEMMA Cleaned ==
  ASSUME RelayRest
  PROVE  /\ CleanTokens \in [Devices -> DeviceTokens]
         /\ Live(rollover) \in Left(Rollover) /\ Live(channel) \in Left(ChannelLife)
<1>1. NoDeviceToken \in DeviceTokens
  BY DEF NoDeviceToken, DeviceTokens, Versions, Left
<1> QED
  BY <1>1 DEF RelayRest, CleanTokens, Live, Left

LEMMA Persisted ==
  ASSUME RelayRest', NEW current \in Alarms, NEW at \in Left(CoalesceTicks), Persist(current, at)
  PROVE  alarm' \in Alarms
BY AlarmBounded DEF RelayRest, Persist

(* The requests of a device.                                                    *)
LEMMA DeviceKeeps ==
  ASSUME RelayTypeOK, NEW d \in Devices,
         \/ \E v \in {"current", "previous"} : ExchangeChallenge(d, v)
         \/ Connect(d) \/ RotateVerifier(d) \/ FinalizeChannel(d) \/ RemoveChannel(d)
         \/ Pong(d) \/ Close(d)
  PROVE  RelayTypeOK'
<1> USE RelayTyped
<1>1. RelayRest /\ alarm \in Alarms /\ owed \in BOOLEAN /\ None \in Left(CoalesceTicks)
      /\ CleanTokens \in [Devices -> DeviceTokens]
      /\ Live(rollover) \in Left(Rollover) /\ Live(channel) \in Left(ChannelLife)
  BY Cleaned DEF Left
<1>2. owed' = owed /\ pending' = pending
  BY DEF ExchangeChallenge, Connect, RotateVerifier, FinalizeChannel, RemoveChannel, Pong, Close
<1>3. CASE \E v \in {"current", "previous"} : ExchangeChallenge(d, v)
  <2>1. PICK v \in {"current", "previous"} : ExchangeChallenge(d, v)
    BY <1>3
  <2>2. [version |-> v, left |-> TokenLife, used |-> FALSE] \in DeviceTokens
    BY RelayAssumption DEF DeviceTokens, Versions, Left
  <2>3. RelayRest' /\ Persist(alarm, None)
    BY <1>1, <1>2, <2>1, <2>2 DEF ExchangeChallenge, RelayRest
  <2> QED
    BY <1>1, <1>2, <2>3, Persisted
<1>4. CASE Connect(d)
  <2>1. [CleanTokens EXCEPT ![d].used = TRUE] \in [Devices -> DeviceTokens]
    BY <1>1 DEF DeviceTokens
  <2>2. [version |-> tokens[d].version, age |-> 0] \in Sockets
    BY <1>1, RelayAssumption DEF RelayRest, DeviceTokens, Sockets, Left
  <2>3. RelayRest' /\ Persist(alarm, None)
    BY <1>1, <1>2, <1>4, <2>1, <2>2 DEF Connect, RelayRest
  <2> QED
    BY <1>1, <1>2, <2>3, Persisted
<1>5. CASE RotateVerifier(d)
  <2> DEFINE Older(v) == IF v = "current" THEN "previous" ELSE "old"
  <2>1. [e \in Devices |-> [CleanTokens[e] EXCEPT !.version = Older(@)]] \in [Devices -> DeviceTokens]
    BY <1>1 DEF DeviceTokens, Versions
  <2>2. [e \in Devices |-> [sockets[e] EXCEPT !.version = Older(@)]] \in [Devices -> Sockets]
    BY <1>1 DEF RelayRest, Sockets, Versions
  <2>3. Rollover \in Left(Rollover)
    BY RelayAssumption DEF Left
  <2>4. /\ tokens' = [e \in Devices |-> [CleanTokens[e] EXCEPT !.version = Older(@)]]
        /\ sockets' = [e \in Devices |-> [sockets[e] EXCEPT !.version = Older(@)]]
        /\ rollover' = Rollover /\ channel' = Live(channel) /\ Persist(alarm, None)
    BY <1>5 DEF RotateVerifier
  <2> HIDE DEF Older
  <2>5. RelayRest'
    BY <1>1, <1>2, <2>1, <2>2, <2>3, <2>4 DEF RelayRest
  <2> QED
    BY <1>1, <1>2, <2>4, <2>5, Persisted
<1>6. CASE FinalizeChannel(d) \/ RemoveChannel(d)
  <2>1. ChannelLife \in Left(ChannelLife) /\ None \in Left(ChannelLife)
    BY RelayAssumption DEF Left
  <2>2. RelayRest' /\ Persist(alarm, None)
    BY <1>1, <1>2, <1>6, <2>1 DEF FinalizeChannel, RemoveChannel, RelayRest
  <2> QED
    BY <1>1, <1>2, <2>2, Persisted
<1>7. CASE Pong(d)
  <2>1. [sockets EXCEPT ![d].age = 0] \in [Devices -> Sockets]
    BY <1>1, RelayAssumption DEF RelayRest, Sockets, Left
  <2> QED
    BY <1>1, <1>2, <1>7, <2>1 DEF Pong, RelayRest
<1>8. CASE Close(d)
  <2>1. NoSocket \in Sockets
    BY DEF NoSocket, Sockets, Versions, Left
  <2>2. RelayRest' /\ Persist(alarm, None)
    BY <1>1, <1>2, <1>8, <2>1 DEF Close, RelayRest
  <2> QED
    BY <1>1, <1>2, <2>2, Persisted
<1> QED
  BY <1>3, <1>4, <1>5, <1>6, <1>7, <1>8

LEMMA WebhookKeeps ==
  ASSUME RelayTypeOK, \/ \E outcome \in {"accepted", "duplicate", "limited"} : Webhook(outcome)
                      \/ WebhookDies \/ Refused
  PROVE  RelayTypeOK'
<1> USE RelayTyped
<1>1. RelayRest /\ alarm \in Alarms /\ owed \in BOOLEAN
      /\ CleanTokens \in [Devices -> DeviceTokens]
      /\ Live(rollover) \in Left(Rollover) /\ Live(channel) \in Left(ChannelLife)
  BY Cleaned
<1>2. CoalesceTicks \in Left(CoalesceTicks)
  BY RelayAssumption DEF Left
<1>3. ASSUME NEW outcome \in {"accepted", "duplicate", "limited"}, Webhook(outcome)
      PROVE  RelayTypeOK'
  <2>1. pending' \in Left(CoalesceTicks)
    BY <1>1, <1>2, <1>3 DEF Webhook, RelayRest
  <2>2. owed' \in BOOLEAN
    BY <1>1, <1>3 DEF Webhook
  <2>3. RelayRest' /\ Persist(alarm, pending')
    BY <1>1, <1>3, <2>1 DEF Webhook, RelayRest
  <2> QED
    BY <1>1, <2>1, <2>2, <2>3, Persisted
<1>4. CASE WebhookDies
  <2>1. /\ UNCHANGED <<tokens, rollover, channel, pending, sockets, owed>>
        /\ alarm' = ScheduleNextAlarm(alarm, IF pending = None THEN CoalesceTicks ELSE pending,
                                      sockets, MaintenanceAt(tokens, rollover, channel))
    BY <1>4 DEF WebhookDies
  <2>2. alarm' \in Alarms
    BY <1>1, <1>2, <2>1, AlarmBounded DEF RelayRest
  <2> QED
    BY <1>1, <2>1, <2>2 DEF RelayRest
<1>5. CASE Refused
  BY <1>1, <1>5 DEF Refused, RelayRest
<1> QED
  BY <1>3, <1>4, <1>5

LEMMA AlarmKeeps ==
  ASSUME RelayTypeOK, AlarmFires
  PROVE  RelayTypeOK'
<1> USE RelayTyped
<1>1. RelayRest /\ alarm \in Alarms /\ owed \in BOOLEAN
      /\ CleanTokens \in [Devices -> DeviceTokens]
      /\ Live(rollover) \in Left(Rollover) /\ Live(channel) \in Left(ChannelLife)
  BY Cleaned
<1>2. pending' \in Left(CoalesceTicks) /\ None \in Alarms
  BY <1>1 DEF AlarmFires, RelayRest, Left, Alarms
<1>3. owed' \in BOOLEAN
  BY <1>1 DEF AlarmFires
<1>4. NoSocket \in Sockets
  BY DEF NoSocket, Sockets, Versions, Left
<1>5. sockets' \in [Devices -> Sockets]
  BY <1>1, <1>4 DEF AlarmFires, RelayRest
<1>6. RelayRest' /\ Persist(None, pending')
  BY <1>1, <1>2, <1>5 DEF AlarmFires, RelayRest
<1> QED
  BY <1>2, <1>3, <1>6, Persisted

LEMMA RelayTickKeeps ==
  ASSUME RelayTypeOK, RelayTick
  PROVE  RelayTypeOK'
<1> USE RelayTyped, RelayAssumption
<1> DEFINE Less(left) == IF left \in {None, 0} THEN left ELSE left - 1
<1>1. ASSUME NEW bound \in Nat, NEW left \in Left(bound) PROVE Less(left) \in Left(bound)
  BY DEF Left
<1>2. /\ tokens' = [d \in Devices |-> [tokens[d] EXCEPT !.left = Less(@)]]
      /\ rollover' = Less(rollover) /\ channel' = Less(channel)
      /\ pending' = Less(pending) /\ alarm' = Less(alarm) /\ owed' = owed
  BY DEF RelayTick
<1> HIDE DEF Less
<1>3. Max(RelayBounds) \in Nat
  BY LatestBound
<1>4. /\ rollover' \in Left(Rollover) /\ channel' \in Left(ChannelLife)
      /\ pending' \in Left(CoalesceTicks) /\ alarm' \in Alarms
  BY <1>1, <1>2, <1>3 DEF RelayRest, Alarms
<1>5. tokens' \in [Devices -> DeviceTokens]
  BY <1>1, <1>2 DEF RelayRest, DeviceTokens
<1>6. sockets' \in [Devices -> Sockets]
  <2> DEFINE Older(old) == IF old \in {None, Stale} THEN old ELSE old + 1
  <2>1. \A old \in Left(Stale) : Older(old) \in Left(Stale)
    BY DEF Left
  <2>2. sockets' = [d \in Devices |-> [sockets[d] EXCEPT !.age = Older(@)]]
    BY DEF RelayTick
  <2> HIDE DEF Older
  <2> QED
    BY <2>1, <2>2 DEF RelayRest, Sockets
<1> QED
  BY <1>2, <1>4, <1>5, <1>6 DEF RelayRest

LEMMA RelayInitTyped == RelayInit => RelayTypeOK
<1> SUFFICES ASSUME RelayInit PROVE RelayTypeOK
  OBVIOUS
<1>1. NoDeviceToken \in DeviceTokens /\ NoSocket \in Sockets
  BY DEF NoDeviceToken, NoSocket, DeviceTokens, Sockets, Versions, Left
<1>2. owed \in BOOLEAN
  BY DEF RelayInit
<1>3. \A bound : None \in Left(bound)
  BY DEF Left
<1> QED
  BY <1>1, <1>2, <1>3 DEF RelayInit, RelayTypeOK, DeviceTokens, Sockets

LEMMA RelayNextTyped ==
  ASSUME RelayTypeOK, [RelayNext]_relayVars
  PROVE  RelayTypeOK'
<1>1. CASE UNCHANGED relayVars
  BY <1>1 DEF relayVars, RelayTypeOK
<1> QED
  BY <1>1, DeviceKeeps, WebhookKeeps, AlarmKeeps, RelayTickKeeps DEF RelayNext

(* For any devices and deadlines: tokens, deadlines and sockets keep their      *)
(* types, and the alarm is never further off than the latest deadline.          *)
THEOREM RelayTypeCorrect == RelaySpec => []RelayTypeOK
  BY RelayInitTyped, RelayNextTyped, PTL DEF RelaySpec

-----------------------------------------------------------------------------
(* The Google channels: from the preparation to the answer of finalize the call *)
(* of replaceChannel has a channel in hand, for Google and the relay to take.   *)

ChannelInHand == renewal.step \in {"watch", "finalize"} => renewal.channel \in Channels

ChannelsInv == ChannelsTypeOK /\ ChannelInHand

DeviceStates == [enabled : BOOLEAN, runtime : BOOLEAN, connected : BOOLEAN, fallback : BOOLEAN,
                 own : Channels \cup {NoChannel}, tracks : Channels \cup {NoChannel}]
Renewals == [step : RelaySteps \cup GoogleSteps \cup {"none"},
             channel : Channels \cup {NoChannel},
             previous : Channels \cup {NoChannel}, fails : BOOLEAN]
Leases == {"nobody", "other", "device"}

LEMMA NoRenewalTyped == NoRenewal \in Renewals /\ NoRenewal.step = "none"
BY DEF NoRenewal, Renewals

(* What a call that settles leaves is the device, polling perhaps.              *)
LEMMA SettledTyped ==
  ASSUME NEW s \in DeviceStates, NEW fails \in BOOLEAN, Settled(s, fails)
  PROVE  dev' \in DeviceStates /\ renewal' \in Renewals /\ ChannelInHand'
<1>1. dev' = [s EXCEPT !.fallback = s.fallback \/ fails] /\ renewal' = NoRenewal
  BY DEF Settled
<1>2. (s.fallback \/ fails) \in BOOLEAN
  BY DEF DeviceStates
<1>3. \A b \in BOOLEAN : [s EXCEPT !.fallback = b] \in DeviceStates
  BY DEF DeviceStates
<1> QED
  BY <1>1, <1>2, <1>3, NoRenewalTyped DEF ChannelInHand

(* What happens around a call of replaceChannel.                                *)
LEMMA SurroundingsKeep ==
  ASSUME ChannelsInv,
         \/ \E c \in Channels : Age(c)
         \/ LeaseEnds \/ SocketCloses \/ OtherRenews
  PROVE  ChannelsInv'
<1> USE DEF ChannelsInv, ChannelsTypeOK, ChannelInHand
<1>1. CASE \E c \in Channels : Age(c)
  BY <1>1 DEF Age
<1>2. CASE LeaseEnds
  BY <1>2 DEF LeaseEnds
<1>3. CASE SocketCloses
  <2>1. online' \in BOOLEAN
    BY <1>3 DEF SocketCloses
  <2>2. lease' \in {"nobody", lease} /\ UNCHANGED <<relay, watched, age, dev, renewal, retracted>>
    BY <1>3 DEF SocketCloses
  <2> QED
    BY <2>1, <2>2
<1>4. CASE OtherRenews
  <2>1. NewChannels \subseteq Channels
    BY DEF NewChannels
  <2> QED
    BY <1>4, <2>1 DEF OtherRenews
<1> QED
  BY <1>1, <1>2, <1>3, <1>4

(* The coordinator's observations.                                              *)
LEMMA ObserveKeepsTypes ==
  ASSUME ChannelsInv,
         \/ SetEnabled \/ HandleDisconnect
         \/ ObserveNothing \/ ObserveRouting \/ ObserveDegraded
         \/ \E connects \in BOOLEAN : ObserveDisconnected(connects)
         \/ EnsureChannel
  PROVE  ChannelsInv'
<1> USE DEF ChannelsInv, ChannelsTypeOK
<1>1. dev \in DeviceStates /\ renewal \in Renewals /\ ChannelInHand
  BY DEF DeviceStates, Renewals
<1>2. ASSUME NEW f \in BOOLEAN, NEW g \in BOOLEAN
      PROVE  /\ [dev EXCEPT !.fallback = f] \in DeviceStates
             /\ [dev EXCEPT !.fallback = f, !.connected = g] \in DeviceStates
             /\ [dev EXCEPT !.connected = g, !.fallback = f] \in DeviceStates
             /\ [[dev EXCEPT !.runtime = f, !.fallback = f] EXCEPT !.connected = g] \in DeviceStates
             /\ [dev EXCEPT !.enabled = f] \in DeviceStates
  BY <1>1 DEF DeviceStates
<1>3. UNCHANGED <<relay, watched, age, retracted>>
  BY DEF SetEnabled, HandleDisconnect, ObserveNothing, ObserveRouting, ObserveDegraded,
         ObserveDisconnected, EnsureChannel, StopRuntime
<1>4. ASSUME dev' \in DeviceStates, renewal' = renewal \/ renewal' = NoRenewal
             \/ renewal' = [NoRenewal EXCEPT !.step = "lease"],
             lease' \in Leases, online' \in BOOLEAN
      PROVE  ChannelsInv'
  <2>1. renewal' \in Renewals /\ ChannelInHand'
    <3>1. CASE renewal' = renewal
      BY <1>1, <3>1 DEF Renewals, ChannelInHand
    <3>2. CASE renewal' = NoRenewal
      BY <3>2, NoRenewalTyped DEF NoRenewal, Renewals, ChannelInHand, RelaySteps
    <3>3. CASE renewal' = [NoRenewal EXCEPT !.step = "lease"]
      BY <3>3, NoRenewalTyped DEF NoRenewal, Renewals, ChannelInHand, RelaySteps
    <3> QED
      BY <1>4, <3>1, <3>2, <3>3
  <2>2. relay' \subseteq Channels /\ watched' \subseteq Channels
        /\ age' \in [Channels -> {"fresh", "renewable", "expired"}]
    BY <1>3
  <2>3. retracted' \in BOOLEAN
    BY <1>3
  <2> QED
    BY <1>4, <2>1, <2>2, <2>3 DEF DeviceStates, Renewals, Leases
<1>5. CASE SetEnabled
  <2>1. (~dev.enabled) \in BOOLEAN
    BY <1>1
  <2>2. dev' = [dev EXCEPT !.enabled = ~dev.enabled] /\ UNCHANGED <<lease, online, renewal>>
    BY <1>5 DEF SetEnabled
  <2> QED
    BY <1>2, <1>4, <2>1, <2>2 DEF Leases
<1>6. CASE HandleDisconnect
  BY <1>2, <1>4, <1>6 DEF HandleDisconnect, Leases
<1>7. CASE ObserveNothing
  <2>1. dev' = [[dev EXCEPT !.runtime = FALSE, !.fallback = FALSE] EXCEPT !.connected = FALSE]
        /\ renewal' = NoRenewal /\ lease' \in {lease, "nobody"} /\ online' = online
    BY <1>7 DEF ObserveNothing, StopRuntime
  <2> QED
    BY <1>2, <1>4, <2>1 DEF Leases
<1>8. CASE ObserveRouting
  <2>1. dev' = [[dev EXCEPT !.runtime = TRUE, !.fallback = TRUE] EXCEPT !.connected = FALSE]
        /\ renewal' = NoRenewal /\ lease' \in {lease, "nobody"} /\ online' = online
    BY <1>8 DEF ObserveRouting, StopRuntime
  <2> QED
    BY <1>2, <1>4, <2>1 DEF Leases
<1>9. CASE ObserveDegraded
  BY <1>2, <1>4, <1>9 DEF ObserveDegraded, Leases
<1>10. CASE \E connects \in BOOLEAN : ObserveDisconnected(connects)
  <2>1. PICK connects \in BOOLEAN : ObserveDisconnected(connects)
    BY <1>10
  <2>2. dev' \in DeviceStates /\ UNCHANGED <<lease, renewal>>
    BY <1>2, <2>1 DEF ObserveDisconnected
  <2>3. online' \in BOOLEAN
    BY <2>1 DEF ObserveDisconnected
  <2> QED
    BY <1>4, <2>2, <2>3 DEF Leases
<1>11. CASE EnsureChannel
  BY <1>1, <1>2, <1>4, <1>11 DEF EnsureChannel, Leases
<1> QED
  BY <1>5, <1>6, <1>7, <1>8, <1>9, <1>10, <1>11

(* The requests of a call of replaceChannel.                                    *)
LEMMA RenewalKeeps ==
  ASSUME ChannelsInv, Renewal
  PROVE  ChannelsInv'
<1> USE DEF ChannelsInv, ChannelsTypeOK
<1>1. dev \in DeviceStates /\ renewal \in Renewals /\ lease \in Leases
  BY DEF DeviceStates, Renewals, Leases
<1>2. PICK outcome \in Outcome :
        \/ AcquireLease(outcome) \/ PrepareChannel(outcome) \/ Watch(outcome)
        \/ Finalize(outcome) \/ Discard(outcome) \/ Retire(outcome) \/ ReleaseLease(outcome)
  BY DEF Renewal
<1>3. ASSUME NEW step \in RelaySteps \cup GoogleSteps, RenewalGoes(step),
             step \in {"watch", "finalize"} => renewal.channel \in Channels
      PROVE  renewal' \in Renewals /\ ChannelInHand'
  BY <1>1, <1>3 DEF RenewalGoes, Renewals, ChannelInHand
<1>4. ASSUME NEW fails \in BOOLEAN, Finally(fails)
      PROVE  renewal' \in Renewals /\ ChannelInHand'
  BY <1>1, <1>4 DEF Finally, Renewals, ChannelInHand, RelaySteps
<1>5. ASSUME NEW c \in Channels, NEW b \in BOOLEAN
      PROVE  /\ [dev EXCEPT !.fallback = b] \in DeviceStates
             /\ [dev EXCEPT !.tracks = c, !.fallback = b] \in DeviceStates
             /\ [dev EXCEPT !.own = c, !.tracks = c, !.fallback = b] \in DeviceStates
  BY <1>1 DEF DeviceStates
<1>6. ASSUME dev' \in DeviceStates, renewal' \in Renewals, ChannelInHand', lease' \in Leases,
             relay' \subseteq Channels, watched' \subseteq Channels,
             age' \in [Channels -> {"fresh", "renewable", "expired"}],
             retracted' \in BOOLEAN, online' = online
      PROVE  ChannelsInv'
  BY <1>6 DEF DeviceStates, Renewals, Leases
<1>7. CASE AcquireLease(outcome)
  <2>1. lease' \in {lease, "device"} /\ UNCHANGED <<relay, online, watched, age, retracted>>
    BY <1>7 DEF AcquireLease
  <2>2. dev' \in DeviceStates /\ renewal' \in Renewals /\ ChannelInHand'
    <3>1. CASE Settled(dev, TRUE)
      BY <1>1, <3>1, SettledTyped
    <3>2. CASE RenewalGoes("prepare") /\ UNCHANGED dev
      BY <1>1, <1>3, <3>2 DEF RelaySteps
    <3>3. CASE Settled([dev EXCEPT !.fallback = TRUE], FALSE)
      <4>1. [dev EXCEPT !.fallback = TRUE] \in DeviceStates
        BY <1>1 DEF DeviceStates
      <4> QED
        BY <3>3, <4>1, SettledTyped
    <3>4. ASSUME NEW c \in FreshChannels, Settled([dev EXCEPT !.tracks = c, !.fallback = FALSE], FALSE)
          PROVE  dev' \in DeviceStates /\ renewal' \in Renewals /\ ChannelInHand'
      <4>1. c \in Channels
        BY DEF FreshChannels
      <4> QED
        BY <1>5, <3>4, <4>1, SettledTyped
    <3> QED
      BY <1>7, <3>1, <3>2, <3>3, <3>4 DEF AcquireLease
  <2> QED
    BY <1>1, <1>6, <2>1, <2>2 DEF Leases
<1>8. CASE PrepareChannel(outcome)
  <2>1. UNCHANGED <<relay, lease, online, watched, age, dev, retracted>>
    BY <1>8 DEF PrepareChannel
  <2>2. renewal' \in Renewals /\ ChannelInHand'
    <3>1. CASE Finally(TRUE) \/ Finally(FALSE)
      BY <1>4, <3>1
    <3>2. ASSUME NEW c \in NewChannels,
                 renewal' = [renewal EXCEPT !.step = "watch", !.channel = c, !.previous = dev.own]
          PROVE  renewal' \in Renewals /\ ChannelInHand'
      <4>1. c \in Channels
        BY DEF NewChannels
      <4> QED
        BY <1>1, <3>2, <4>1 DEF Renewals, DeviceStates, ChannelInHand, GoogleSteps
    <3> QED
      BY <1>8, <3>1, <3>2 DEF PrepareChannel
  <2> QED
    BY <1>1, <1>6, <2>1, <2>2
<1>9. CASE Watch(outcome)
  <2>1. renewal.channel \in Channels /\ UNCHANGED <<relay, lease, online, dev, retracted>>
    BY <1>9 DEF Watch, ChannelInHand
  <2>2. watched' \subseteq Channels /\ age' \in [Channels -> {"fresh", "renewable", "expired"}]
    <3>1. \/ watched' = watched /\ age' = age
          \/ /\ watched' = watched \cup {renewal.channel}
             /\ age' = [age EXCEPT ![renewal.channel] = "fresh"]
      BY <1>9 DEF Watch
    <3>2. [age EXCEPT ![renewal.channel] = "fresh"]
             \in [Channels -> {"fresh", "renewable", "expired"}]
      BY <2>1
    <3> QED
      BY <2>1, <3>1, <3>2
  <2>3. renewal' \in Renewals /\ ChannelInHand'
    BY <1>3, <1>4, <1>9, <2>1 DEF Watch, RelaySteps
  <2> QED
    BY <1>1, <1>6, <2>1, <2>2, <2>3
<1>10. CASE Finalize(outcome)
  <2>1. renewal.channel \in Channels /\ UNCHANGED <<lease, online, watched, age, retracted>>
    BY <1>10 DEF Finalize, ChannelInHand
  <2>2. relay' \subseteq Channels
    BY <1>10, <2>1 DEF Finalize
  <2>3. dev' \in DeviceStates
    BY <1>1, <1>5, <1>10, <2>1 DEF Finalize
  <2>4. renewal' \in Renewals /\ ChannelInHand'
    <3>1. RenewalGoes("discardStop") \/ Finally(FALSE) \/ RenewalGoes("retireStop")
      BY <1>10 DEF Finalize
    <3> QED
      BY <1>3, <1>4, <3>1 DEF GoogleSteps
  <2> QED
    BY <1>1, <1>6, <2>1, <2>2, <2>3, <2>4
<1>11. CASE Discard(outcome)
  <2>1. UNCHANGED <<lease, online, age, dev>>
    BY <1>11 DEF Discard
  <2>2. relay' \subseteq Channels /\ watched' \subseteq Channels
    BY <1>11 DEF Discard
  <2>3. retracted' \in BOOLEAN
    BY <1>11 DEF Discard
  <2>4. renewal' \in Renewals /\ ChannelInHand'
    <3>1. RenewalGoes("discardRemove") \/ Finally(TRUE)
      BY <1>11 DEF Discard
    <3> QED
      BY <1>3, <1>4, <3>1 DEF RelaySteps
  <2> QED
    BY <1>1, <1>6, <2>1, <2>2, <2>3, <2>4
<1>12. CASE Retire(outcome)
  <2>1. UNCHANGED <<lease, online, age, dev, retracted>>
    BY <1>12 DEF Retire
  <2>2. relay' \subseteq Channels /\ watched' \subseteq Channels
    BY <1>12 DEF Retire
  <2>3. renewal' \in Renewals /\ ChannelInHand'
    <3>1. RenewalGoes("retireRemove") \/ Finally(FALSE)
      BY <1>12 DEF Retire
    <3> QED
      BY <1>3, <1>4, <3>1 DEF RelaySteps
  <2> QED
    BY <1>1, <1>6, <2>1, <2>2, <2>3
<1>13. CASE ReleaseLease(outcome)
  <2>1. lease' \in {"nobody", lease} /\ UNCHANGED <<relay, online, watched, age, retracted>>
    BY <1>13 DEF ReleaseLease
  <2>2. renewal.fails \in BOOLEAN /\ Settled(dev, renewal.fails)
    BY <1>1, <1>13 DEF ReleaseLease, Renewals
  <2>3. dev' \in DeviceStates /\ renewal' \in Renewals /\ ChannelInHand'
    BY <1>1, <2>2, SettledTyped
  <2> QED
    BY <1>1, <1>6, <2>1, <2>3 DEF Leases
<1> QED
  BY <1>2, <1>7, <1>8, <1>9, <1>10, <1>11, <1>12, <1>13

LEMMA ChannelsInitTyped == ChannelsInit => ChannelsInv
<1> SUFFICES ASSUME ChannelsInit PROVE ChannelsInv
  OBVIOUS
<1>1. NewDevice \in DeviceStates
  BY DEF NewDevice, DeviceStates
<1>2. online \in BOOLEAN /\ retracted \in BOOLEAN
  BY DEF ChannelsInit
<1> QED
  BY <1>1, <1>2, NoRenewalTyped
     DEF ChannelsInit, ChannelsInv, ChannelsTypeOK, ChannelInHand, DeviceStates, Renewals

LEMMA ChannelsNextKeeps ==
  ASSUME ChannelsInv, [ChannelsNext]_chnVars
  PROVE  ChannelsInv'
<1>1. CASE UNCHANGED chnVars
  BY <1>1 DEF chnVars, ChannelsInv, ChannelsTypeOK, ChannelInHand
<1> QED
  BY <1>1, SurroundingsKeep, ObserveKeepsTypes, RenewalKeeps DEF ChannelsNext

(* For any channels, and whatever requests fail or are overtaken: the relay and *)
(* Google have channels only, and the call of replaceChannel one when it needs  *)
(* it.                                                                          *)
THEOREM ChannelsTypeCorrect == ChannelsSpec => []ChannelsTypeOK
<1>1. ChannelsInv => ChannelsTypeOK
  BY DEF ChannelsInv
<1> QED
  BY <1>1, ChannelsInitTyped, ChannelsNextKeeps, PTL DEF ChannelsSpec

-----------------------------------------------------------------------------
(* MCTriggers: the four side by side. A step of one is none of the others.      *)

LEMMA PartsStep ==
  ASSUME [TriggersNext]_allVars
  PROVE  /\ [OrchestrationNext]_orcVars /\ [RelayNext]_relayVars
         /\ [ChannelsNext]_chnVars /\ [Next]_vars
BY DEF TriggersNext, allVars, Orc, Rel, Chn, Out

(* For any numbers of devices, channels, keys, passes and ticks: the state of   *)
(* each component is what its declarations say.                                 *)
THEOREM TriggersTypeCorrect == TriggersSpec => []TriggersTypeOK
<1>1. TriggersInit => OrchestrationInit /\ RelayInit /\ ChannelsInit /\ Init
  BY DEF TriggersInit
<1>2. IInv => TypeOK
  BY DEF IInv
<1>3. ChannelsInv => ChannelsTypeOK
  BY DEF ChannelsInv
<1> QED
  BY <1>1, <1>2, <1>3, PartsStep, OrcInitEstablishes, OrcNextKeeps, OrcImplied, RelayInitTyped,
     RelayNextTyped, ChannelsInitTyped, ChannelsNextKeeps, InitIInv, NextKeeps, PTL
     DEF TriggersSpec, TriggersTypeOK

=============================================================================
