-------------------------- MODULE MCReconciliation --------------------------
(* Instances of Reconciliation for TLC: devices and fields are interchangeable. *)
EXTENDS Reconciliation, TLC

\* For the runs of safety properties.
Symmetry == Permutations(Devices) \cup Permutations(Fields)

(* For the run of the liveness property, where TLC cannot use symmetry: of       *)
(* behaviours that differ in the names of the devices and fields only, the one   *)
(* whose first mutation is made on FirstDevice and, if it is an edit, to         *)
(* FirstField. Only that mutation is restricted, so the fairness is the same.    *)
FirstDevice == CHOOSE d \in Devices : TRUE
FirstField == CHOOSE f \in Fields : TRUE

Representative ==
    made = {} => \A e \in made' :
        /\ db'[FirstDevice] # db[FirstDevice]
        /\ e.after # NoPayload => e.after[FirstField] = e.mut

RepresentativeSpec == Init /\ [][Next /\ Representative]_vars /\ Fairness

=============================================================================
