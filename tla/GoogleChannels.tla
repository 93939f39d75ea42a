---------------------------- MODULE GoogleChannels ----------------------------
(* How a device of a workspace keeps a Google change channel alive, and polls   *)
(* when there is none: GoogleNotificationCoordinator and GoogleRelayClient of   *)
(* one device, with the relay's channels and renewal lease, Google's watches,   *)
(* and what the other devices may do to them.                                   *)
(*                                                                              *)
(* A request is carried out and answered ("ok"), carried out while the answer   *)
(* is lost, or not carried out ("failed"); the client sees the last two alike.  *)
(* A channel that was prepared or watched and never finalized has no effect and *)
(* is left out as soon as its device has lost sight of it.                      *)
EXTENDS FiniteSets

CONSTANT Channels  \* channel identifiers; one that nobody refers to can be drawn again

VARIABLES
  relay,    \* snapshot.channels: those that are active
  lease,    \* snapshot.renewalLease: "nobody", "other" or this "device"
  online,   \* the relay has a socket of the device
  watched,  \* channels Google notifies
  age,      \* of each channel's expiresAt: fresh, renewable (in the window), expired
  dev,      \* the coordinator of the device
  renewal,  \* its call of replaceChannel
  retracted \* history: a finalized channel was discarded

chnVars == <<relay, lease, online, watched, age, dev, renewal, retracted>>

NoChannel == "no channel"
RelaySteps == {"lease", "prepare", "finalize", "discardRemove", "retireRemove", "release"}
GoogleSteps == {"watch", "discardStop", "retireStop"}
Outcome == {"ok", "lost", "failed"}

(* own, tracks: the channel of the stored metadata, and the one whose expiry it *)
(* holds as relayChannelExpiresAt. renewal: previous is the own channel it      *)
(* replaces, fails that it ends by throwing. channelPromise is set, and the     *)
(* activeLeaseId from the answer to "lease" on, while a call is under way.      *)
NewDevice == [enabled |-> FALSE, runtime |-> FALSE, connected |-> FALSE,
              fallback |-> FALSE, own |-> NoChannel, tracks |-> NoChannel]
NoRenewal == [step |-> "none", channel |-> NoChannel, previous |-> NoChannel, fails |-> FALSE]

ChannelsTypeOK ==
  /\ relay \subseteq Channels /\ watched \subseteq Channels
  /\ lease \in {"nobody", "other", "device"} /\ online \in BOOLEAN
  /\ age \in [Channels -> {"fresh", "renewable", "expired"}]
  /\ dev \in [enabled : BOOLEAN, runtime : BOOLEAN, connected : BOOLEAN, fallback : BOOLEAN,
              own : Channels \cup {NoChannel}, tracks : Channels \cup {NoChannel}]
  /\ renewal \in [step : RelaySteps \cup GoogleSteps \cup {"none"},
                  channel : Channels \cup {NoChannel},
                  previous : Channels \cup {NoChannel}, fails : BOOLEAN]
  /\ retracted \in BOOLEAN

ChannelsInit ==
  /\ relay = {} /\ lease = "nobody" /\ online = FALSE
  /\ watched = {} /\ age = [c \in Channels |-> "expired"]
  /\ dev = NewDevice /\ renewal = NoRenewal /\ retracted = FALSE

-----------------------------------------------------------------------------
(* Time, Google, the relay and the other devices *)

(* A channel comes into the renewal window, and expires at the relay and at     *)
(* Google.                                                                      *)
Age(c) ==
  /\ age[c] # "expired"
  /\ age' = [age EXCEPT ![c] = IF @ = "fresh" THEN "renewable" ELSE "expired"]
  /\ IF age[c] = "fresh" THEN UNCHANGED <<relay, watched>>
     ELSE relay' = relay \ {c} /\ watched' = watched \ {c}
  /\ UNCHANGED <<lease, online, dev, renewal, retracted>>

(* The lease expires (cleanupExpiredState), or the other device releases it.    *)
LeaseEnds ==
  /\ lease # "nobody"
  /\ lease' = "nobody"
  /\ UNCHANGED <<relay, online, watched, age, dev, renewal, retracted>>

(* webSocketClose and handleDeviceDisconnect *)
SocketCloses ==
  /\ online
  /\ online' = FALSE
  /\ lease' = IF lease = "device" THEN "nobody" ELSE lease
  /\ UNCHANGED <<relay, watched, age, dev, renewal, retracted>>

FreshChannels == {c \in relay : age[c] = "fresh"}

(* A new channel identifier: the first that nobody has in hand. *)
NewChannels ==
  LET unused == Channels \ (relay \cup watched \cup {dev.own, dev.tracks, renewal.channel,
                                                     renewal.previous})
  IN IF unused = {} THEN {} ELSE {CHOOSE c \in unused : TRUE}

(* Another device is granted the lease, or finalizes a channel with it.         *)
OtherRenews ==
  /\ \/ lease = "nobody" /\ FreshChannels = {} /\ lease' = "other"
        /\ UNCHANGED <<relay, watched, age>>
     \/ /\ lease = "other" /\ UNCHANGED lease
        /\ \E c \in NewChannels :
             /\ relay' = relay \cup {c} /\ watched' = watched \cup {c}
             /\ age' = [age EXCEPT ![c] = "fresh"]
  /\ UNCHANGED <<online, dev, renewal, retracted>>

-----------------------------------------------------------------------------
(* The coordinator's runtime *)

(* The context: whether the account is enabled and bound to Google Drive.       *)
SetEnabled ==
  /\ dev' = [dev EXCEPT !.enabled = ~@]
  /\ UNCHANGED <<relay, lease, online, watched, age, renewal, retracted>>

(* releaseLease and stopRuntime: close aborts the requests to the relay, and    *)
(* the lease may be released. A runtime is not replaced here while a request to *)
(* Google is under way.                                                         *)
StopRuntime(next) ==
  /\ renewal.step \notin GoogleSteps
  /\ renewal' = NoRenewal
  /\ dev' = [next EXCEPT !.connected = FALSE]
  /\ lease' \in {lease, IF lease = "device" THEN "nobody" ELSE lease}
  /\ UNCHANGED <<relay, online, watched, age, retracted>>

(* observe without a context. *)
ObserveNothing ==
  /\ ~dev.enabled
  /\ StopRuntime([dev EXCEPT !.runtime = FALSE, !.fallback = FALSE])

(* observe with another routing: a new runtime; then, not connected, it polls.  *)
ObserveRouting ==
  /\ dev.enabled
  /\ StopRuntime([dev EXCEPT !.runtime = TRUE, !.fallback = TRUE])

(* The rotation was refused, or there is no relay to talk to. *)
ObserveDegraded ==
  /\ dev.enabled
  /\ dev' = [dev EXCEPT !.fallback = TRUE]
  /\ UNCHANGED <<relay, lease, online, watched, age, renewal, retracted>>

(* observe while not connected: polling, and when it is time a connection.      *)
MutantObserveDisconnected(connects) ==
  /\ dev.enabled /\ dev.runtime /\ ~dev.connected
  /\ dev' = [dev EXCEPT !.connected = connects]
  /\ online' = (online \/ connects)
  /\ UNCHANGED <<relay, lease, watched, age, renewal, retracted>>

ObserveDisconnected(connects) ==
  /\ dev.enabled /\ dev.runtime /\ ~dev.connected
  /\ dev' = [dev EXCEPT !.fallback = TRUE, !.connected = connects]
  /\ online' = (online \/ connects)
  /\ UNCHANGED <<relay, lease, watched, age, renewal, retracted>>

(* handleDisconnect *)
HandleDisconnect ==
  /\ dev.connected
  /\ dev' = [dev EXCEPT !.connected = FALSE, !.fallback = TRUE]
  /\ UNCHANGED <<relay, lease, online, watched, age, renewal, retracted>>

(* ensureChannel, from observe or from performConnect, which may be so late     *)
(* that the connection is lost again. A call that is under way is joined;       *)
(* replaceChannel returns at once without a connection.                         *)
EnsureChannel ==
  /\ dev.enabled /\ dev.runtime
  /\ renewal.step = "none"
  /\ IF dev.tracks # NoChannel /\ age[dev.tracks] = "fresh"
     THEN dev' = [dev EXCEPT !.fallback = FALSE] /\ UNCHANGED renewal
     ELSE /\ dev.connected
          /\ renewal' = [NoRenewal EXCEPT !.step = "lease"]
          /\ UNCHANGED dev
  /\ UNCHANGED <<relay, lease, online, watched, age, retracted>>

ObserveConnected == dev.connected /\ EnsureChannel

-----------------------------------------------------------------------------
(* replaceChannel *)

RenewalGoes(step) == renewal' = [renewal EXCEPT !.step = step]

(* The finally: releaseLease. *)
Finally(fails) == renewal' = [renewal EXCEPT !.step = "release", !.fails = fails]

(* channelPromise settles; its catch degrades the state and polls. *)
Settled(s, fails) ==
  /\ renewal' = NoRenewal
  /\ dev' = [s EXCEPT !.fallback = s.fallback \/ fails]

(* acquireRenewalLease at the relay: the lease exists, is not needed (the       *)
(* answer has the expiry of a fresh channel), is refused to a device without a  *)
(* socket, or is granted.                                                       *)
AcquireLease(outcome) ==
  LET granted == lease = "nobody" /\ FreshChannels = {} /\ online IN
  /\ renewal.step = "lease"
  /\ lease' = IF granted /\ outcome # "failed" THEN "device" ELSE lease
  /\ \/ /\ outcome # "ok" \/ (lease = "nobody" /\ FreshChannels = {} /\ ~online)
        /\ Settled(dev, TRUE)
     \/ /\ outcome = "ok" /\ (lease = "device" \/ granted)
        /\ RenewalGoes("prepare") /\ UNCHANGED dev
     \/ /\ outcome = "ok" /\ lease = "other"
        /\ Settled([dev EXCEPT !.fallback = TRUE], FALSE)
     \/ /\ outcome = "ok" /\ lease = "nobody"
        /\ \E c \in FreshChannels :
             Settled([dev EXCEPT !.tracks = c, !.fallback = FALSE], FALSE)
  /\ UNCHANGED <<relay, online, watched, age, retracted>>

PrepareChannel(outcome) ==
  /\ renewal.step = "prepare"
  /\ IF outcome # "ok" THEN Finally(TRUE)
     ELSE IF ~dev.enabled THEN Finally(FALSE)
     ELSE \E c \in NewChannels :
       renewal' = [renewal EXCEPT !.step = "watch", !.channel = c, !.previous = dev.own]
  /\ UNCHANGED <<relay, lease, online, watched, age, dev, retracted>>

Watch(outcome) ==
  /\ renewal.step = "watch"
  /\ IF outcome = "ok"
     THEN /\ watched' = watched \cup {renewal.channel}
          /\ age' = [age EXCEPT ![renewal.channel] = "fresh"]
          /\ RenewalGoes("finalize")
     ELSE Finally(TRUE) /\ UNCHANGED <<watched, age>>
  /\ UNCHANGED <<relay, lease, online, dev, retracted>>

(* The relay refuses a channel whose preparation, or whose expiresAt, is past.  *)
Finalize(outcome) ==
  LET done == outcome # "failed" /\ age[renewal.channel] # "expired" IN
  /\ renewal.step = "finalize"
  /\ relay' = IF done THEN relay \cup {renewal.channel} ELSE relay
  /\ IF ~done \/ outcome # "ok" THEN RenewalGoes("discardStop") /\ UNCHANGED dev
     ELSE /\ dev' = [dev EXCEPT !.own = renewal.channel, !.tracks = renewal.channel,
                                !.fallback = FALSE]
          /\ IF renewal.previous = NoChannel THEN Finally(FALSE) ELSE RenewalGoes("retireStop")
  /\ UNCHANGED <<lease, online, watched, age, retracted>>

(* discardUnfinalizedChannel: both requests, whatever becomes of them. *)
Discard(outcome) ==
  /\ \/ /\ renewal.step = "discardStop"
        /\ watched' = IF outcome = "failed" THEN watched ELSE watched \ {renewal.channel}
        /\ RenewalGoes("discardRemove")
        /\ UNCHANGED relay
     \/ /\ renewal.step = "discardRemove"
        /\ relay' = IF outcome = "failed" THEN relay ELSE relay \ {renewal.channel}
        /\ Finally(TRUE)
        /\ UNCHANGED watched
  /\ retracted' = (retracted \/ renewal.channel \in relay)
  /\ UNCHANGED <<lease, online, age, dev>>

(* retirePreviousChannel: the second request only after the first. *)
MutantRetire(outcome) ==
  /\ \/ /\ renewal.step = "retireStop"
        /\ watched' = IF outcome = "failed" THEN watched ELSE watched \ {dev.own}
        /\ IF outcome = "ok" THEN RenewalGoes("retireRemove") ELSE Finally(FALSE)
        /\ UNCHANGED relay
     \/ /\ renewal.step = "retireRemove"
        /\ relay' = IF outcome = "failed" THEN relay ELSE relay \ {dev.own}
        /\ Finally(FALSE)
        /\ UNCHANGED watched
  /\ UNCHANGED <<lease, online, age, dev, retracted>>

Retire(outcome) ==
  /\ \/ /\ renewal.step = "retireStop"
        /\ watched' = IF outcome = "failed" THEN watched ELSE watched \ {renewal.previous}
        /\ IF outcome = "ok" THEN RenewalGoes("retireRemove") ELSE Finally(FALSE)
        /\ UNCHANGED relay
     \/ /\ renewal.step = "retireRemove"
        /\ relay' = IF outcome = "failed" THEN relay ELSE relay \ {renewal.previous}
        /\ Finally(FALSE)
        /\ UNCHANGED watched
  /\ UNCHANGED <<lease, online, age, dev, retracted>>

ReleaseLease(outcome) ==
  /\ renewal.step = "release"
  /\ lease' = IF lease = "device" /\ outcome # "failed" THEN "nobody" ELSE lease
  /\ Settled(dev, renewal.fails)
  /\ UNCHANGED <<relay, online, watched, age, retracted>>

Renewal ==
  \E outcome \in Outcome :
    \/ AcquireLease(outcome) \/ PrepareChannel(outcome) \/ Watch(outcome)
    \/ Finalize(outcome) \/ Discard(outcome) \/ Retire(outcome)
    \/ ReleaseLease(outcome)

ChannelsNext ==
  \/ \E c \in Channels : Age(c)
  \/ LeaseEnds \/ SocketCloses \/ OtherRenews
  \/ SetEnabled \/ HandleDisconnect
  \/ ObserveNothing \/ ObserveRouting \/ ObserveDegraded
  \/ \E connects \in BOOLEAN : ObserveDisconnected(connects)
  \/ EnsureChannel
  \/ Renewal

(* observe runs every second, a closed socket is noticed, requests end.         *)
ChannelsFairness ==
  /\ WF_chnVars(ObserveRouting /\ ~dev.runtime)
  /\ WF_chnVars(ObserveDisconnected(FALSE)) /\ WF_chnVars(ObserveConnected)
  /\ WF_chnVars(HandleDisconnect /\ ~online)
  /\ WF_chnVars(Renewal)

ChannelsSpec == ChannelsInit /\ [][ChannelsNext]_chnVars /\ ChannelsFairness

-----------------------------------------------------------------------------
(* Properties *)

(* Changes reach the device: it is connected, and Google notifies a channel     *)
(* that the relay forwards.                                                     *)
Notified == online /\ watched \cap relay # {}

(* An enabled device that is not notified of changes polls: whatever requests   *)
(* fail, expire, or are overtaken by a disconnect or another device. Except     *)
(* after `retracted`: when only the answer to finalize is lost,                 *)
(* discardUnfinalizedChannel stops Google's watch of a channel that is active   *)
(* at the relay, and may fail to remove it there.                               *)
ChangesAreLearnt ==
  []<>(dev.enabled => dev.fallback \/ Notified \/ retracted)

=============================================================================
