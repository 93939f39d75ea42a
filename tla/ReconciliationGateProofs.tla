----------------------- MODULE ReconciliationGateProofs -----------------------
(***************************************************************************)
(* Proofs about ReconciliationGate for any number of callers and owners    *)
(* and any number of runs and reservations.                                *)
(***************************************************************************)
EXTENDS ReconciliationGate, TLAPS

\* With nobody calling, the strengthened invariant holds.
LEMMA InitGateInv == GateInit => GateInv
<1> SUFFICES ASSUME GateInit PROVE GateInv
  OBVIOUS
<1> USE DEF GateInit, Idle, IdleOwner
<1>1. GateTypeOK
  <2>1. Idle \in Caller /\ IdleOwner \in Owner
    BY DEF Caller, Owner
  <2>2. 0 \in 0..MaxReservations /\ 0 \in 0..0
    BY GateAssumption
  <2> HIDE DEF Idle, IdleOwner
  <2>3. QED
    BY <2>1, <2>2 DEF GateTypeOK
<1>2. /\ ReleasedInOrder /\ OwnersQueue /\ OwnDistinct
      /\ ReservationStands /\ AnswersAreFresh /\ NoneOutstanding /\ NewestReserved
  BY DEF NewestReserved, ReleasedInOrder, OwnersQueue, OwnDistinct, ReservationStands,
         AnswersAreFresh, NoneOutstanding
<1>3. JoinedCalls
  BY DEF JoinedCalls, Joined
<1>4. QED
  BY <1>1, <1>2, <1>3 DEF GateInv

\* What the state of the owners needs is kept by steps that leave the owners
\* and their reservations alone and start no run while one is reserved.
LEMMA OwnersKept ==
    ASSUME GateInv,
           UNCHANGED <<exclusiveOperation, released, reservations, owner>>,
           activeRun' \in {0, activeRun} \/ exclusiveOperation = 0
    PROVE  ReleasedInOrder' /\ OwnersQueue' /\ OwnDistinct' /\ NoneOutstanding'
           /\ NewestReserved' /\ ReservationStands'
<1> USE DEF GateInv
<1>1. ReleasedInOrder' /\ OwnDistinct' /\ NoneOutstanding' /\ NewestReserved'
      /\ ReservationStands'
  BY DEF ReleasedInOrder, OwnDistinct, NoneOutstanding, NewestReserved, ReservationStands
<1>2. exclusiveOperation = 0 => \A o \in Owners : owner[o].at = "idle"
  BY DEF OwnersQueue, NoneOutstanding
<1>3. OwnersQueue'
  BY <1>2 DEF OwnersQueue
<1>4. QED
  BY <1>1, <1>3

\* What the state of the callers needs is kept by steps of the owners.
LEMMA CallersKept ==
    ASSUME GateInv, UNCHANGED <<activeRun, caller, served, outcome>>,
           followUpRequested' = followUpRequested \/ activeRun = 0
    PROVE  JoinedCalls' /\ AnswersAreFresh'
<1>1. activeRun = 0 => Joined = {}
  BY DEF GateInv, JoinedCalls, Joined
<1>2. QED
  BY <1>1 DEF GateInv, JoinedCalls, Joined, AnswersAreFresh

\* A call of run keeps the invariant whichever way runWithContext sends it: it
\* waits for the reservation, joins the run or starts one.
LEMMA EnterKeeps ==
    ASSUME GateInv, NEW c \in Callers, Enter(c)
    PROVE  GateInv'
<1> USE DEF GateInv
<1>1. /\ caller \in [Callers -> Caller]
      /\ outcome' = [outcome EXCEPT ![c] = "none"]
      /\ outcome \in [Callers -> {"none", "ok", "failed"}]
      /\ UNCHANGED <<exclusiveOperation, released, reservations, owner>>
      /\ activeRun \in Nat /\ runs \in Nat /\ exclusiveOperation \in Nat
      /\ activeRun \in 0..runs
  BY GateAssumption DEF GateTypeOK, Enter
<1>2. CASE AwaitReservation(c)
  <2>1. /\ caller' = [caller EXCEPT ![c] = [at |-> "waiting", on |-> exclusiveOperation]]
        /\ UNCHANGED <<activeRun, followUpRequested, runs, served>>
    BY <1>2 DEF AwaitReservation
  <2>2. GateTypeOK'
    <3>1. [at |-> "waiting", on |-> exclusiveOperation] \in Caller
      BY <1>1 DEF Caller
    <3>2. QED
      BY <1>1, <2>1, <3>1 DEF GateTypeOK
  <2>3. Joined' \subseteq Joined
    BY <1>1, <2>1 DEF Joined
  <2>4. JoinedCalls' /\ AnswersAreFresh'
    BY <1>1, <2>1, <2>3 DEF JoinedCalls, AnswersAreFresh
  <2>5. QED
    BY <1>1, <2>1, <2>2, <2>4, OwnersKept
<1>3. CASE JoinRun(c)
  <2>1. /\ caller' = [caller EXCEPT ![c] = [at |-> "joined", on |-> activeRun]]
        /\ served' = served \ {c}
        /\ followUpRequested' = TRUE
        /\ activeRun # 0
        /\ UNCHANGED <<activeRun, runs>>
    BY <1>3 DEF JoinRun
  <2>2. GateTypeOK'
    <3>1. [at |-> "joined", on |-> activeRun] \in Caller
      BY <1>1 DEF Caller
    <3>2. QED
      BY <1>1, <2>1, <3>1 DEF GateTypeOK
  <2>3. JoinedCalls' /\ AnswersAreFresh'
    BY <1>1, <2>1 DEF JoinedCalls, AnswersAreFresh
  <2>4. QED
    BY <1>1, <2>1, <2>2, <2>3, OwnersKept
<1>4. CASE StartRun(c)
  <2>1. /\ caller' = [caller EXCEPT ![c] = [at |-> "joined", on |-> runs + 1]]
        /\ served' = served \cup {c}
        /\ followUpRequested' = FALSE
        /\ exclusiveOperation = 0
        /\ activeRun = 0 /\ activeRun' = runs + 1 /\ runs' = runs + 1
    BY <1>4 DEF StartRun
  <2>2. GateTypeOK'
    <3>1. [at |-> "joined", on |-> runs + 1] \in Caller
      BY <1>1 DEF Caller
    <3>2. activeRun' \in 0..runs' /\ runs' \in Nat
      BY <1>1, <2>1
    <3>3. QED
      BY <1>1, <2>1, <3>1, <3>2 DEF GateTypeOK
  <2>3. Joined = {} /\ Joined' = {c}
    BY <1>1, <2>1 DEF JoinedCalls, Joined
  <2>4. JoinedCalls' /\ AnswersAreFresh'
    BY <1>1, <2>1, <2>3 DEF JoinedCalls, AnswersAreFresh
  <2>5. QED
    BY <1>1, <2>1, <2>2, <2>4, OwnersKept
<1>5. QED
  BY <1>2, <1>3, <1>4 DEF Enter

\* Another pass, the end and the failure of the active run keep the invariant: a
\* run ends only with all its callers served.
LEMMA RunStepKeeps ==
    ASSUME GateInv, RunStep
    PROVE  GateInv'
<1> USE DEF GateInv
<1>1. CASE FollowUp
  <2> USE <1>1 DEF FollowUp
  <2>1. GateTypeOK'
    BY DEF GateTypeOK, Joined
  <2>2. JoinedCalls' /\ AnswersAreFresh'
    BY DEF JoinedCalls, Joined, AnswersAreFresh
  <2>3. QED
    BY <2>1, <2>2, OwnersKept
<1>2. ASSUME NEW result \in {"ok", "failed"}, Settle(result),
             result = "ok" => ~followUpRequested
      PROVE  GateInv'
  <2> USE <1>2 DEF Settle
  <2>1. Idle \in Caller
    BY DEF Idle, Caller
  <2>2. GateTypeOK'
    BY <2>1 DEF GateTypeOK
  <2>3. Joined' = {}
    BY DEF Joined, Idle
  <2>4. JoinedCalls' /\ AnswersAreFresh'
    BY <2>3 DEF JoinedCalls, AnswersAreFresh
  <2>5. QED
    BY <2>2, <2>4, OwnersKept
<1>3. QED
  BY <1>1, <1>2 DEF RunStep, EndRun, FailRun

\* executeExclusive queues up behind the reservation and the run it finds, and
\* the new reservation is the newest.
LEMMA ReserveKeeps ==
    ASSUME GateInv, NEW o \in Owners, Reserve(o)
    PROVE  GateInv'
<1> USE DEF GateInv
<1> DEFINE id == reservations + 1
           call == [at |-> "waiting", own |-> id, previous |-> exclusiveOperation,
                    run |-> activeRun]
<1>1. /\ owner[o].at = "idle"
      /\ id <= MaxReservations
      /\ reservations' = id
      /\ exclusiveOperation' = id
      /\ owner' = [owner EXCEPT ![o] = call]
      /\ UNCHANGED <<activeRun, followUpRequested, released, runs, caller, served, outcome>>
  BY GateAssumption DEF Reserve, GateTypeOK
<1>2. /\ reservations \in Nat /\ exclusiveOperation \in 0..reservations
      /\ activeRun \in Nat /\ released \subseteq 1..reservations
      /\ owner \in [Owners -> Owner]
  BY GateAssumption DEF GateTypeOK
<1>3. owner'[o] = call /\ \A p \in Owners : p # o => owner'[p] = owner[p]
  BY <1>1, <1>2
<1>4. GateTypeOK'
  <2>1. call \in Owner
    BY <1>2 DEF Owner
  <2>2. /\ exclusiveOperation' \in 0..reservations'
        /\ released' \subseteq 1..reservations'
        /\ reservations' \in 0..MaxReservations
    BY <1>1, <1>2, GateAssumption
  <2>3. QED
    BY <1>1, <1>2, <2>1, <2>2 DEF GateTypeOK
<1>5. ReleasedInOrder'
  BY <1>1 DEF ReleasedInOrder
<1>6. exclusiveOperation \in {0, reservations}
  BY DEF NewestReserved
<1>7. OwnersQueue'
  <2> SUFFICES ASSUME NEW p \in Owners, owner'[p].at # "idle"
               PROVE  /\ owner'[p].own \in 1..id
                      /\ owner'[p].own \notin released
                      /\ \/ owner'[p].previous = owner'[p].own - 1
                         \/ /\ owner'[p].previous = 0
                            /\ \A j \in 1..(owner'[p].own - 1) : j \in released
                      /\ activeRun \in {0, owner'[p].run}
                      /\ owner'[p].at # "waiting" =>
                            /\ owner'[p].previous \in released \cup {0}
                            /\ activeRun = 0
    BY <1>1 DEF OwnersQueue
  <2>1. CASE p = o
    <3>1. /\ owner'[p].own = id /\ owner'[p].previous = exclusiveOperation
          /\ owner'[p].run = activeRun /\ owner'[p].at = "waiting"
      BY <1>3, <2>1
    <3>2. id \in 1..id /\ id \notin released /\ id - 1 = reservations
      BY <1>2
    <3>3. QED
      BY <1>6, <3>1, <3>2 DEF NoneOutstanding
  <2>2. CASE p # o
    <3>1. owner'[p] = owner[p] /\ owner[p].at # "idle"
      BY <1>3, <2>2
    <3>2. owner[p].own \in 1..id
      BY <1>2, <3>1 DEF OwnersQueue
    <3>3. QED
      BY <3>1, <3>2 DEF OwnersQueue
  <2>3. QED
    BY <2>1, <2>2
<1>8. OwnDistinct'
  <2>1. \A p \in Owners : owner[p].at # "idle" => owner[p].own # id
    BY <1>2 DEF OwnersQueue
  <2>2. QED
    BY <1>3, <2>1 DEF OwnDistinct
<1>9. NoneOutstanding' /\ ReservationStands' /\ NewestReserved'
  BY <1>1, <1>2 DEF NoneOutstanding, ReservationStands, NewestReserved
<1>10. JoinedCalls' /\ AnswersAreFresh'
  BY <1>1, CallersKept
<1>11. QED
  BY <1>4, <1>5, <1>7, <1>8, <1>9, <1>10

\* Steps inside a call: the owner moves on, the reservations stay.
LEMMA OwnerMoves ==
    ASSUME GateInv, NEW o \in Owners, NEW at \in {"operating", "passing"},
           owner[o].at # "idle",
           owner' = [owner EXCEPT ![o].at = at],
           owner[o].previous \in released \cup {0},
           activeRun = 0,
           UNCHANGED <<exclusiveOperation, activeRun, released, runs, reservations,
                       caller, served, outcome>>,
           followUpRequested' \in BOOLEAN
    PROVE  GateInv'
<1> USE DEF GateInv
<1>1. \A p \in Owners : /\ owner'[p].own = owner[p].own
                        /\ owner'[p].previous = owner[p].previous
                        /\ owner'[p].run = owner[p].run
                        /\ owner'[p].at = IF p = o THEN at ELSE owner[p].at
  BY DEF GateTypeOK, Owner
<1>2. GateTypeOK'
  <2>1. [owner[o] EXCEPT !.at = at] \in Owner
    BY DEF GateTypeOK, Owner
  <2>2. QED
    BY <2>1 DEF GateTypeOK
<1>3. OwnersQueue'
  BY <1>1 DEF OwnersQueue
<1>4. OwnDistinct'
  BY <1>1 DEF OwnDistinct
<1>5. ReleasedInOrder' /\ NoneOutstanding' /\ ReservationStands' /\ NewestReserved'
  BY <1>1 DEF ReleasedInOrder, NoneOutstanding, ReservationStands, NewestReserved
<1>6. JoinedCalls' /\ AnswersAreFresh'
  BY CallersKept
<1>7. QED
  BY <1>2, <1>3, <1>4, <1>5, <1>6

\* Beginning an operation, and its passes, keeps the invariant: the operation
\* waited for all reservations before its own and for the run it found.
LEMMA OwnerStepKeeps ==
    ASSUME GateInv, NEW o \in Owners, Operate(o) \/ BeginPass(o) \/ EndPass(o)
    PROVE  GateInv'
<1>1. CASE Operate(o)
  <2>1. activeRun = 0
    BY <1>1 DEF Operate, GateInv, OwnersQueue
  <2>2. QED
    BY <1>1, <2>1, OwnerMoves DEF Operate, GateInv, GateTypeOK
<1>2. CASE BeginPass(o)
  BY <1>2, OwnerMoves DEF BeginPass, GateInv, OwnersQueue
<1>3. CASE EndPass(o)
  BY <1>3, OwnerMoves DEF EndPass, GateInv, OwnersQueue, GateTypeOK
<1>4. QED
  BY <1>1, <1>2, <1>3

\* The end of an operation resolves its reservation alone and clears the field
\* only when nobody queued up behind.
LEMMA ReleaseKeeps ==
    ASSUME GateInv, NEW o \in Owners, ReleaseReservation(o)
    PROVE  GateInv'
<1> USE DEF GateInv
<1> DEFINE id == owner[o].own
<1>1. /\ owner[o].at = "operating"
      /\ released' = released \cup {id}
      /\ exclusiveOperation' = IF exclusiveOperation = id THEN 0 ELSE exclusiveOperation
      /\ owner' = [owner EXCEPT ![o] = IdleOwner]
      /\ UNCHANGED <<activeRun, followUpRequested, runs, reservations, caller, served, outcome>>
  BY DEF ReleaseReservation
<1>2. /\ reservations \in Nat /\ id \in 1..reservations
      /\ \A j \in 1..(id - 1) : j \in released
  <2>1. reservations \in Nat /\ id \in 1..reservations
    BY <1>1, GateAssumption DEF GateTypeOK, OwnersQueue
  <2>2. \/ owner[o].previous = id - 1
        \/ owner[o].previous = 0 /\ \A j \in 1..(id - 1) : j \in released
    BY <1>1 DEF OwnersQueue
  <2>3. owner[o].previous \in released \cup {0}
    BY <1>1 DEF OwnersQueue
  <2>4. CASE owner[o].previous = id - 1
    BY <2>1, <2>3, <2>4 DEF ReleasedInOrder
  <2>5. QED
    BY <2>1, <2>2, <2>4
<1>3. owner'[o] = IdleOwner /\ \A p \in Owners : p # o => owner'[p] = owner[p]
  BY <1>1 DEF GateTypeOK
<1>4. IdleOwner \in Owner /\ IdleOwner.at = "idle"
  BY DEF IdleOwner, Owner
<1>5. GateTypeOK'
  <2>1. exclusiveOperation' \in 0..reservations /\ released' \subseteq 1..reservations
    <3>1. 0 \in 0..reservations /\ id \in 1..reservations
      BY <1>2
    <3>2. exclusiveOperation \in 0..reservations /\ released \subseteq 1..reservations
      BY DEF GateTypeOK
    <3> HIDE DEF id
    <3>3. QED
      BY <1>1, <3>1, <3>2
  <2>2. owner' \in [Owners -> Owner]
    BY <1>1, <1>4 DEF GateTypeOK
  <2>3. QED
    BY <1>1, <2>1, <2>2 DEF GateTypeOK
<1>6. ReleasedInOrder'
  <2> SUFFICES ASSUME NEW i \in released \cup {id}, NEW j \in 1..i
               PROVE  j \in released \cup {id}
    BY <1>1 DEF ReleasedInOrder
  <2>1. CASE i = id
    BY <1>2, <2>1
  <2>2. CASE i \in released
    BY <2>2 DEF ReleasedInOrder
  <2>3. QED
    BY <2>1, <2>2
<1>7. \A p \in Owners : owner'[p].at # "idle" =>
        p # o /\ owner'[p] = owner[p] /\ owner[p].own # id
  BY <1>1, <1>3, <1>4 DEF OwnDistinct
<1>8. OwnersQueue'
  BY <1>1, <1>7 DEF OwnersQueue
<1>9. OwnDistinct'
  BY <1>7 DEF OwnDistinct
<1>10. NoneOutstanding' /\ NewestReserved'
  BY <1>1, <1>2 DEF NoneOutstanding, NewestReserved
<1>11. ReservationStands'
  <2> SUFFICES ASSUME NEW p \in Owners, owner'[p].at # "idle"
               PROVE  exclusiveOperation' = reservations
    BY <1>1 DEF ReservationStands
  <2>1. owner[p].at # "idle" /\ owner[p].own # id
    BY <1>7
  <2>2. exclusiveOperation = reservations
    BY <2>1 DEF ReservationStands
  <2>3. owner[p].own \in 1..reservations /\ owner[p].own \notin released
    BY <2>1 DEF OwnersQueue
  <2>4. id # reservations
    BY <1>2, <2>1, <2>3
  <2>5. QED
    BY <1>1, <2>2, <2>4
<1>12. JoinedCalls' /\ AnswersAreFresh'
  BY <1>1, CallersKept
<1>13. QED
  BY <1>5, <1>6, <1>8, <1>9, <1>10, <1>11, <1>12

\* Every step of the service keeps the strengthened invariant.
LEMMA NextKeeps == GateInv /\ [GateNext]_gateVars => GateInv'
<1> SUFFICES ASSUME GateInv, [GateNext]_gateVars PROVE GateInv'
  OBVIOUS
<1>1. ASSUME NEW c \in Callers, Run(c) \/ Retry(c) PROVE GateInv'
  BY <1>1, EnterKeeps DEF Run, Retry
<1>2. CASE RunStep
  BY <1>2, RunStepKeeps
<1>3. ASSUME NEW o \in Owners, Reserve(o) PROVE GateInv'
  BY <1>3, ReserveKeeps
<1>4. ASSUME NEW o \in Owners, Operate(o) \/ BeginPass(o) \/ EndPass(o) PROVE GateInv'
  BY <1>4, OwnerStepKeeps
<1>5. ASSUME NEW o \in Owners, ReleaseReservation(o) PROVE GateInv'
  BY <1>5, ReleaseKeeps
<1>6. CASE UNCHANGED gateVars
  <2> USE <1>6 DEF gateVars, GateInv
  <2>1. GateTypeOK'
    BY DEF GateTypeOK
  <2>2. QED
    BY <2>1, OwnersKept, CallersKept
<1>7. QED
  BY <1>1, <1>2, <1>3, <1>4, <1>5, <1>6 DEF GateNext

\* The strengthened invariant of the gate holds in every reachable state.
THEOREM GateInvariance == GateSpec => []GateInv
BY InitGateInv, NextKeeps, PTL DEF GateSpec

\* Promises, flags and counters keep their types.
THEOREM GateTypeCorrect == GateSpec => []GateTypeOK
<1>1. GateInv => GateTypeOK
  BY DEF GateInv
<1>2. QED
  BY <1>1, GateInvariance, PTL

\* An exclusive operation never overlaps a run or another operation.
THEOREM GateExcludes == GateSpec => []Exclusion
<1>1. GateInv => Exclusion
  <2> SUFFICES ASSUME GateInv, NEW o \in Operating
               PROVE  activeRun = 0 /\ \A p \in Operating : o = p
    BY DEF Exclusion
  <2> USE DEF GateInv
  <2>1. \A p \in Operating :
          /\ p \in Owners
          /\ owner[p].own \in 1..reservations
          /\ owner[p].own \notin released
          /\ \A j \in 1..(owner[p].own - 1) : j \in released
    <3> SUFFICES ASSUME NEW p \in Operating
                 PROVE  /\ p \in Owners
                        /\ owner[p].own \in 1..reservations
                        /\ owner[p].own \notin released
                        /\ \A j \in 1..(owner[p].own - 1) : j \in released
      OBVIOUS
    <3>1. /\ p \in Owners
          /\ owner[p].at # "idle" /\ owner[p].at # "waiting"
      BY DEF Operating
    <3>2. CASE owner[p].previous = owner[p].own - 1
      BY <3>1, <3>2, GateAssumption DEF OwnersQueue, ReleasedInOrder, GateTypeOK
    <3>3. QED
      BY <3>1, <3>2 DEF OwnersQueue
  <2>2. activeRun = 0
    BY DEF Operating, OwnersQueue
  <2>3. ASSUME NEW p \in Operating
        PROVE  o = p
    <3>1. owner[o].own = owner[p].own
      BY <2>1, GateAssumption DEF GateTypeOK
    <3>2. QED
      BY <2>1, <3>1 DEF OwnDistinct, Operating
  <2>4. QED
    BY <2>2, <2>3
<1>2. QED
  BY <1>1, GateInvariance, PTL

\* While an operation waits or runs, new callers find the newest reservation.
THEOREM GateReserves == GateSpec => []ReservationStands
<1>1. GateInv => ReservationStands
  BY DEF GateInv
<1>2. QED
  BY <1>1, GateInvariance, PTL

\* Every result is from a pass that began after the call it answers.
THEOREM GateAnswersFresh == GateSpec => []AnswersAreFresh
<1>1. GateInv => AnswersAreFresh
  BY DEF GateInv
<1>2. QED
  BY <1>1, GateInvariance, PTL

=============================================================================
