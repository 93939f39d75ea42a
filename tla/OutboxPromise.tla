---------------------------- MODULE OutboxPromise ----------------------------
(***************************************************************************)
(* What the outbox promises its two clients, the domain repositories that  *)
(* change an entity and the reconciliation that uploads it, with no row,   *)
(* claim, token or lease in sight: a changed entity stays owed to the      *)
(* provider until the provider has its newest content.                     *)
(***************************************************************************)
EXTENDS Naturals

CONSTANT Keys

VARIABLES content,    \* the newest local content of each key, 0 if none
          delivered,  \* the newest content of each key the provider stored
          owed        \* the keys the outbox still has work for

vars == <<content, delivered, owed>>

Init ==
    /\ content = [k \in Keys |-> 0]
    /\ delivered = [k \in Keys |-> 0]
    /\ owed = {}

Change(k) ==
    /\ content'[k] \in Nat
    /\ content'[k] > content[k]
    /\ content' = [content EXCEPT ![k] = content'[k]]
    /\ owed' = owed \cup {k}
    /\ UNCHANGED delivered

Deliver(k) ==
    /\ k \in owed
    /\ delivered'[k] \in delivered[k] + 1 .. content[k]
    /\ delivered' = [delivered EXCEPT ![k] = delivered'[k]]
    /\ UNCHANGED <<content, owed>>

Settle(k) ==
    /\ k \in owed
    /\ delivered[k] = content[k]
    /\ owed' = owed \ {k}
    /\ UNCHANGED <<content, delivered>>

Next == \E k \in Keys : Change(k) \/ Deliver(k) \/ Settle(k)

Spec == Init /\ [][Next]_vars

=============================================================================
