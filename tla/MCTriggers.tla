----------------------------- MODULE MCTriggers -----------------------------
(* What makes passes run and drain the journal: the orchestration with the      *)
(* OneDrive scheduler, the coordinator of Google's channels, the relay, and the *)
(* journal itself. In the code each sees of the others what its module leaves   *)
(* open (a trigger, a socket that closes, a pass that begins), so they are      *)
(* checked side by side in one state space: `part` names the one that runs, the *)
(* others stay in their initial state.                                          *)
EXTENDS Orchestration, NotificationRelay, GoogleChannels, SyncOutbox

VARIABLE part

allVars == <<part, orcVars, relayVars, chnVars, vars>>

TriggersInit ==
  /\ part \in {"orchestration", "relay", "channels", "outbox"}
  /\ OrchestrationInit /\ RelayInit /\ ChannelsInit /\ Init

(* A step A of a component.                                                     *)
Orc(A) == part = "orchestration" /\ A /\ UNCHANGED <<part, relayVars, chnVars, vars>>
Rel(A) == part = "relay" /\ A /\ UNCHANGED <<part, orcVars, chnVars, vars>>
Chn(A) == part = "channels" /\ A /\ UNCHANGED <<part, orcVars, relayVars, vars>>
Out(A) == part = "outbox" /\ A /\ UNCHANGED <<part, orcVars, relayVars, chnVars>>

TriggersNext ==
  Orc(OrchestrationNext) \/ Rel(RelayNext) \/ Chn(ChannelsNext) \/ Out(Next)

(* OrchestrationFairness, RelayFairness, ChannelsFairness and the Fairness of   *)
(* the outbox: `part` is constant, so a disjunction over the parts is fair      *)
(* exactly when the disjunct of the part that runs is.                          *)
TriggersFairness ==
  /\ \A w \in Workers :
       /\ SF_allVars(Orc(ClaimMutations) \/ Out(Snapshot(w)))
       /\ SF_allVars(Orc(RunSucceeds) \/ Out(\E c \in held[w] : Push(w, c)))
       /\ SF_allVars(Out(\E c \in held[w] : Complete(w, c)))
       /\ WF_allVars(Chn(Renewal) \/ Out(ClaimAvailable(w)))
  /\ WF_allVars(Orc(Watchdog) \/ Rel(RelayTick) \/ Chn(ObserveRouting /\ ~dev.runtime))
  /\ WF_allVars(Orc(ReleaseGate) \/ Rel(AlarmFires) \/ Chn(ObserveDisconnected(FALSE)))
  /\ WF_allVars(\/ Orc(\E outcome \in Outcomes : RunFails(outcome))
                 \/ Chn(ObserveConnected) \/ Out(Tick))
  /\ WF_allVars(Chn(HandleDisconnect /\ ~online))

TriggersSpec == TriggersInit /\ [][TriggersNext]_allVars /\ TriggersFairness

(* Every component's state is what its declarations say.                        *)
TriggersTypeOK ==
  OrchestrationTypeOK /\ RelayTypeOK /\ ChannelsTypeOK /\ TypeOK

=============================================================================
