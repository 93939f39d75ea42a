-------------------------- MODULE NotificationRelay --------------------------
(* The notification relay of one workspace: RelayWorkspaceDurableObject and     *)
(* RelayWorkspaceService, from a webhook to the signal its devices receive.     *)
(* Channels and the renewal lease as devices use them are in GoogleChannels.    *)
(*                                                                              *)
(* Handlers run one at a time (operationQueue), and each ends by storing the    *)
(* snapshot, so that memory and storage agree between handlers; one that dies   *)
(* leaves the stored snapshot, and the alarm as far as it came. Deadlines are   *)
(* the ticks left until them: 0 is due.                                         *)
EXTENDS Naturals, FiniteSetsExt

CONSTANTS
  Devices,
  CoalesceTicks,    \* NOTIFICATION_COALESCE_MS
  Heartbeat, Stale, \* HEARTBEAT_INTERVAL_MS, STALE_CONNECTION_MS
  TokenLife, Rollover,        \* CONNECTION_TOKEN_TTL_MS, the rollover window
  ChannelLife,                \* the time a channel stays active
  None                        \* no deadline

ASSUME RelayAssumption ==
  /\ CoalesceTicks \in Nat \ {0} /\ Heartbeat \in Nat \ {0} /\ Stale \in Nat \ {0}
  /\ TokenLife \in Nat \ {0} /\ Rollover \in Nat \ {0} /\ ChannelLife \in Nat \ {0}
  /\ None \notin Nat

Left(bound) == {None} \cup 0..bound

(* Secret versions matter only as the current one, the previous one while it is *)
(* accepted, and older ones.                                                    *)
Versions == {"current", "previous", "old"}

VARIABLES
  tokens,   \* connectionTokens, the latest of each device: version, time left, used
  rollover, \* previousVerifier.validUntil
  channel,  \* the active channel
  pending,  \* pendingNotificationAt
  alarm,    \* the Durable Object's alarm
  sockets,  \* the accepted socket of each device: version, time since lastSeenAt
  owed      \* history: a change was accepted and not signalled since

relayVars == <<tokens, rollover, channel, pending, alarm, sockets, owed>>

NoDeviceToken == [version |-> "old", left |-> None, used |-> FALSE]
NoSocket == [version |-> "old", age |-> None]

RelayTypeOK ==
  /\ tokens \in [Devices -> [version : Versions, left : Left(TokenLife), used : BOOLEAN]]
  /\ rollover \in Left(Rollover)
  /\ channel \in Left(ChannelLife)
  /\ pending \in Left(CoalesceTicks)
  /\ alarm \in Left(Max({CoalesceTicks, Heartbeat, TokenLife, Rollover, ChannelLife}))
  /\ sockets \in [Devices -> [version : Versions, age : Left(Stale)]]
  /\ owed \in BOOLEAN

RelayInit ==
  /\ tokens = [d \in Devices |-> NoDeviceToken]
  /\ rollover = None /\ channel = None /\ pending = None /\ alarm = None
  /\ sockets = [d \in Devices |-> NoSocket]
  /\ owed = FALSE

-----------------------------------------------------------------------------

Connected(s) == {d \in Devices : s[d].age # None}

(* isSecretVersionAccepted, findVerifier *)
Accepted(version) ==
  \/ version = "current"
  \/ version = "previous" /\ rollover # None /\ rollover > 0

(* cleanupExpiredState, whatever the handler does next. *)
Live(left) == IF left = 0 THEN None ELSE left
CleanTokens == [d \in Devices |-> IF tokens[d].left = 0 THEN NoDeviceToken ELSE tokens[d]]

(* getNextMaintenanceAt *)
MaintenanceAt(t, r, c) == ({t[d].left : d \in Devices} \cup {r, c}) \ {None}

(* scheduleNextAlarm: the earliest deadline, when it is earlier than the alarm. *)
MutantScheduleStaleAlarm(current, at, s, maintenance) ==
  LET heartbeat == IF Connected(s) = {} THEN {} ELSE {Stale}
      deadlines == ({at} \ {None}) \cup heartbeat \cup maintenance
  IN IF deadlines = {} THEN None
     ELSE IF current = None \/ Min(deadlines) < current THEN Min(deadlines)
     ELSE current

ScheduleNextAlarm(current, at, s, maintenance) ==
  LET heartbeat == IF Connected(s) = {} THEN {} ELSE {Heartbeat}
      deadlines == ({at} \ {None}) \cup heartbeat \cup maintenance
  IN IF deadlines = {} THEN None
     ELSE IF current = None \/ Min(deadlines) < current THEN Min(deadlines)
     ELSE current

(* The end of every handler: persistWorkspace and scheduleNextAlarm(at). *)
Persist(current, at) ==
  alarm' = ScheduleNextAlarm(current, at, sockets', MaintenanceAt(tokens', rollover', channel'))

-----------------------------------------------------------------------------
(* Devices *)

(* A challenge is exchanged for a token. *)
ExchangeChallenge(d, version) ==
  /\ Accepted(version)
  /\ tokens' = [CleanTokens EXCEPT ![d] =
                  [version |-> version, left |-> TokenLife, used |-> FALSE]]
  /\ rollover' = Live(rollover) /\ channel' = Live(channel)
  /\ UNCHANGED <<pending, sockets, owed>>
  /\ Persist(alarm, None)

(* A token that still authorizes a request. *)
Authorized(d) == tokens[d].left # None /\ tokens[d].left > 0 /\ Accepted(tokens[d].version)

(* connectWebSocket. The device's earlier socket, if any, is gone with it. *)
Connect(d) ==
  /\ Authorized(d) /\ ~tokens[d].used
  /\ tokens' = [CleanTokens EXCEPT ![d].used = TRUE]
  /\ sockets' = [sockets EXCEPT ![d] = [version |-> tokens[d].version, age |-> 0]]
  /\ rollover' = Live(rollover) /\ channel' = Live(channel)
  /\ UNCHANGED <<pending, owed>>
  /\ Persist(alarm, None)

(* rotateVerifier *)
RotateVerifier(d) ==
  /\ Authorized(d)
  /\ LET Older(v) == IF v = "current" THEN "previous" ELSE "old"
     IN /\ tokens' = [e \in Devices |-> [CleanTokens[e] EXCEPT !.version = Older(@)]]
        /\ sockets' = [e \in Devices |-> [sockets[e] EXCEPT !.version = Older(@)]]
  /\ rollover' = Rollover
  /\ channel' = Live(channel)
  /\ UNCHANGED <<pending, owed>>
  /\ Persist(alarm, None)

(* prepareChannel and finalizeChannel *)
FinalizeChannel(d) ==
  /\ Authorized(d)
  /\ channel' = ChannelLife
  /\ tokens' = CleanTokens /\ rollover' = Live(rollover)
  /\ UNCHANGED <<pending, sockets, owed>>
  /\ Persist(alarm, None)

RemoveChannel(d) ==
  /\ Authorized(d)
  /\ channel' = None
  /\ tokens' = CleanTokens /\ rollover' = Live(rollover)
  /\ UNCHANGED <<pending, sockets, owed>>
  /\ Persist(alarm, None)

(* A request that is refused: what is expired is cleaned up and stored, but no  *)
(* alarm is scheduled.                                                          *)
Refused ==
  /\ tokens' = CleanTokens /\ rollover' = Live(rollover) /\ channel' = Live(channel)
  /\ UNCHANGED <<pending, alarm, sockets, owed>>

(* webSocketMessage: the device answered a ping. *)
Pong(d) ==
  /\ d \in Connected(sockets)
  /\ sockets' = [sockets EXCEPT ![d].age = 0]
  /\ UNCHANGED <<tokens, rollover, channel, pending, alarm, owed>>

(* webSocketClose *)
Close(d) ==
  /\ d \in Connected(sockets)
  /\ sockets' = [sockets EXCEPT ![d] = NoSocket]
  /\ UNCHANGED <<tokens, rollover, channel, pending, owed>>
  /\ Persist(alarm, None)

-----------------------------------------------------------------------------
(* Webhooks and the alarm *)

(* handleWebhook and handleGoogleWebhook: accepted, a duplicate (the change was *)
(* accepted before), or over the rate limit. A handler that dies has set the    *)
(* alarm at most, and Google delivers the webhook again.                        *)
MutantWebhook(outcome) ==
  /\ channel # None /\ channel > 0
  /\ tokens' = CleanTokens /\ rollover' = Live(rollover)
  /\ UNCHANGED <<sockets, channel>>
  /\ IF outcome = "accepted"
     THEN pending' = CoalesceTicks /\ owed' = TRUE
     ELSE UNCHANGED <<pending, owed>>
  /\ Persist(alarm, pending')

Webhook(outcome) ==
  /\ channel # None /\ channel > 0
  /\ tokens' = CleanTokens /\ rollover' = Live(rollover)
  /\ UNCHANGED <<sockets, channel>>
  /\ IF outcome = "accepted"
     THEN pending' = (IF pending = None THEN CoalesceTicks ELSE pending) /\ owed' = TRUE
     ELSE UNCHANGED <<pending, owed>>
  /\ Persist(alarm, pending')

WebhookDies ==
  /\ channel # None /\ channel > 0
  /\ alarm' = ScheduleNextAlarm(alarm, IF pending = None THEN CoalesceTicks ELSE pending,
                                sockets, MaintenanceAt(tokens, rollover, channel))
  /\ UNCHANGED <<tokens, rollover, channel, pending, sockets, owed>>

(* handleAlarm: maintenance, the notification when it is due, and the sockets   *)
(* that are stale or of a secret that is no longer accepted. (A stored alarm is *)
(* unset when its handler starts, and runs again when the handler dies.)        *)
MutantAlarmFires ==
  /\ alarm = 0
  /\ tokens' = CleanTokens /\ rollover' = Live(rollover) /\ channel' = Live(channel)
  /\ LET signal == pending = 0 IN
     /\ pending' = IF signal THEN None ELSE pending
     /\ owed' = (owed /\ ~signal)
     /\ UNCHANGED sockets
     /\ Persist(None, pending')

AlarmFires ==
  /\ alarm = 0
  /\ tokens' = CleanTokens /\ rollover' = Live(rollover) /\ channel' = Live(channel)
  /\ LET signal == pending = 0 IN
     /\ pending' = IF signal THEN None ELSE pending
     /\ owed' = (owed /\ ~signal)
     /\ sockets' = [d \in Devices |->
          IF sockets[d].age # Stale /\ Accepted(sockets[d].version)
          THEN sockets[d] ELSE NoSocket]
     /\ Persist(None, pending')

(* Time passes. *)
RelayTick ==
  LET Less(left) == IF left \in {None, 0} THEN left ELSE left - 1 IN
  /\ tokens' = [d \in Devices |-> [tokens[d] EXCEPT !.left = Less(@)]]
  /\ rollover' = Less(rollover) /\ channel' = Less(channel)
  /\ pending' = Less(pending) /\ alarm' = Less(alarm)
  /\ sockets' = [d \in Devices |-> [sockets[d] EXCEPT !.age =
                   IF @ \in {None, Stale} THEN @ ELSE @ + 1]]
  /\ UNCHANGED owed

RelayNext ==
  \/ \E d \in Devices :
       \/ \E v \in {"current", "previous"} : ExchangeChallenge(d, v)
       \/ Connect(d) \/ RotateVerifier(d) \/ FinalizeChannel(d) \/ RemoveChannel(d)
       \/ Pong(d) \/ Close(d)
  \/ \E outcome \in {"accepted", "duplicate", "limited"} : Webhook(outcome)
  \/ WebhookDies \/ Refused \/ AlarmFires \/ RelayTick

(* Time passes, and an alarm that is due fires. *)
RelayFairness == WF_relayVars(RelayTick) /\ WF_relayVars(AlarmFires)

RelaySpec == RelayInit /\ [][RelayNext]_relayVars /\ RelayFairness

-----------------------------------------------------------------------------
(* Properties *)

(* A change the relay accepted is signalled to the devices that stay connected, *)
(* however many follow it, and whatever requests and refusals come between.     *)
ChangesAreSignalled == []<>(owed => Connected(sockets) = {})

(* A device that fell silent, or holds a secret that is no longer accepted, does*)
(* not stay connected.                                                          *)
DeadSocketsClose ==
  \A d \in Devices :
    []<>(~ /\ d \in Connected(sockets)
           /\ sockets[d].age = Stale \/ ~Accepted(sockets[d].version))

=============================================================================
