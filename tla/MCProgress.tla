----------------------------- MODULE MCProgress -----------------------------
(* What has begun comes to an end: calls of the gate, the confirmation of a      *)
(* pairing, the upload of a large asset. `part` names the one that runs, the    *)
(* others stay in their initial state.                                          *)
EXTENDS ReconciliationGate, Pairing, ResumableUploads

VARIABLE part

allVars == <<part, gateVars, pairVars, uploadVars>>

ProgressInit ==
  /\ part \in {"gate", "pairing", "uploads"}
  /\ GateInit /\ PairingInit /\ UploadInit

(* A step A of a component.                                                     *)
Gat(A) == part = "gate" /\ A /\ UNCHANGED <<part, pairVars, uploadVars>>
Pai(A) == part = "pairing" /\ A /\ UNCHANGED <<part, gateVars, uploadVars>>
Upl(A) == part = "uploads" /\ A /\ UNCHANGED <<part, gateVars, pairVars>>

ProgressNext == Gat(GateNext) \/ Pai(PairingNext) \/ Upl(UploadNext)

(* The fairness of the three: `part` is constant, so a disjunction over the     *)
(* parts is fair exactly when the disjunct of the part that runs is.            *)
ProgressFairness ==
  /\ WF_allVars(Gat(FollowUp \/ EndRun) \/ Pai(StartUp) \/ Upl(UploadContinues))
  /\ \A c \in Callers : WF_allVars(Gat(Retry(c)))
  /\ \A o \in Owners :
       /\ WF_allVars(Gat(Operate(o))) /\ WF_allVars(Gat(EndPass(o)))
       /\ SF_allVars(Gat(ReleaseReservation(o)) \/ Upl(SessionTakes))
  /\ WF_allVars(Pai(Identified)) /\ WF_allVars(Pai(WorkspaceFound))
  /\ WF_allVars(Pai(Reconcile /\ confirm'.step = "verify")) /\ WF_allVars(Pai(Bind))
  /\ WF_allVars(Pai(\/ AdoptWorkspace \/ CreateResolvedBaseline \/ CompleteOperation
                    \/ Restore \/ SetApplying \/ FailOperation))

ProgressSpec == ProgressInit /\ [][ProgressNext]_allVars /\ ProgressFairness

(* Every component's state is what its declarations say.                        *)
ProgressTypeOK == GateTypeOK /\ PairingTypeOK /\ UploadTypeOK

=============================================================================
