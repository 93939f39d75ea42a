---------------------------- MODULE MCSyncOutbox ----------------------------
(* Instances of SyncOutbox for TLC: keys, passes and tokens are interchangeable. *)
EXTENDS SyncOutbox, TLC

Symmetry == Permutations(Keys) \cup Permutations(Workers) \cup Permutations(Tokens)

=============================================================================
