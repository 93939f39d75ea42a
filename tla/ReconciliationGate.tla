------------------------- MODULE ReconciliationGate -------------------------
(***************************************************************************)
(* Who may touch the synchronized state of one device, and when: the       *)
(* promises by which SyncReconciliationService serialises its callers.     *)
(*                                                                         *)
(*   Callers  call run: they start the active run, join it and ask for a   *)
(*            follow-up pass, or wait for a reservation and try again.     *)
(*   Owners   call executeExclusive (pairing, enabling, disabling, repair, *)
(*            reset) and may run passes of their own inside it.            *)
(*                                                                         *)
(* Every await is an interleaving point.  The last pass of a run, the end  *)
(* of its loop and the callback that clears activeRun follow each other in *)
(* one macrotask while calls arrive in macrotasks of their own: one step.  *)
(* Promises are numbered in the order they are made; 0 is null.            *)
(***************************************************************************)
EXTENDS Naturals, FiniteSets

CONSTANTS Callers, Owners,
          MaxRuns,         \* bound on the runs: calls that could start another stop
          MaxReservations  \* bound on the calls of executeExclusive

ASSUME GateAssumption == MaxRuns \in Nat /\ MaxReservations \in Nat

VARIABLES exclusiveOperation,  \* the reservation new callers wait for
          activeRun,           \* the run new callers join; it is in a pass
          followUpRequested,   \* the active run shall pass once more
          released,            \* reservations whose promise has resolved
          runs, reservations,  \* promises made so far
          caller,              \* what each caller waits for
          owner,               \* how far each executeExclusive call is
          served,              \* callers a pass has begun for since they called
          outcome              \* what each caller's last call returned

gateVars == <<exclusiveOperation, activeRun, followUpRequested, released, runs,
          reservations, caller, owner, served, outcome>>

Caller == [at: {"idle", "waiting", "joined"}, on: Nat]

\* own is the reservation the call made; previous and run are the promises it
\* found and awaits.
Owner == [at: {"idle", "waiting", "operating", "passing"},
          own: Nat, previous: Nat, run: Nat]

Idle == [at |-> "idle", on |-> 0]

IdleOwner == [at |-> "idle", own |-> 0, previous |-> 0, run |-> 0]

\* The service's fields refer to promises it made, and a reservation resolves
\* by the operation that made it.
GateTypeOK ==
    /\ exclusiveOperation \in 0..reservations
    /\ activeRun \in 0..runs
    /\ followUpRequested \in BOOLEAN
    /\ released \subseteq 1..reservations
    /\ runs \in Nat
    /\ reservations \in 0..MaxReservations
    /\ caller \in [Callers -> Caller]
    /\ owner \in [Owners -> Owner]
    /\ served \subseteq Callers
    /\ outcome \in [Callers -> {"none", "ok", "failed"}]

GateInit ==
    /\ exclusiveOperation = 0
    /\ activeRun = 0
    /\ followUpRequested = FALSE
    /\ released = {}
    /\ runs = 0
    /\ reservations = 0
    /\ caller = [c \in Callers |-> Idle]
    /\ owner = [o \in Owners |-> IdleOwner]
    /\ served = {}
    /\ outcome = [c \in Callers |-> "none"]

Joined == {c \in Callers : caller[c].at = "joined"}

Waiting == {c \in Callers : caller[c].at = "waiting"}

-----------------------------------------------------------------------------
(* runWithContext *)

AwaitReservation(c) ==
    /\ exclusiveOperation # 0
    /\ caller' = [caller EXCEPT ![c] = [at |-> "waiting", on |-> exclusiveOperation]]
    /\ UNCHANGED <<activeRun, followUpRequested, runs, served>>

\* Mutant: joins the run without asking for another pass.
MutantJoinRun(c) ==
    /\ exclusiveOperation = 0
    /\ activeRun # 0
    /\ served' = served \ {c}
    /\ caller' = [caller EXCEPT ![c] = [at |-> "joined", on |-> activeRun]]
    /\ UNCHANGED <<activeRun, followUpRequested, runs>>

JoinRun(c) ==
    /\ exclusiveOperation = 0
    /\ activeRun # 0
    /\ followUpRequested' = TRUE
    /\ served' = served \ {c}
    /\ caller' = [caller EXCEPT ![c] = [at |-> "joined", on |-> activeRun]]
    /\ UNCHANGED <<activeRun, runs>>

\* runSerialized reaches the first await of its first pass synchronously.
StartRun(c) ==
    /\ exclusiveOperation = 0
    /\ activeRun = 0
    /\ runs' = runs + 1
    /\ activeRun' = runs + 1
    /\ followUpRequested' = FALSE
    /\ served' = served \cup {c}
    /\ caller' = [caller EXCEPT ![c] = [at |-> "joined", on |-> runs + 1]]

Enter(c) ==
    /\ AwaitReservation(c) \/ JoinRun(c) \/ StartRun(c)
    /\ outcome' = [outcome EXCEPT ![c] = "none"]
    /\ UNCHANGED <<exclusiveOperation, released, reservations, owner>>

Run(c) ==
    /\ caller[c].at = "idle"
    /\ runs + Cardinality(Waiting) < MaxRuns
    /\ Enter(c)

\* The reservation's promise resolved: the call is made again.
Retry(c) ==
    /\ caller[c].at = "waiting"
    /\ caller[c].on \in released
    /\ Enter(c)

(* runSerialized, for the active run *)

\* Mutant: the request survives the pass it asked for.
MutantFollowUp ==
    /\ activeRun # 0
    /\ followUpRequested
    /\ served' = served \cup Joined
    /\ UNCHANGED <<exclusiveOperation, activeRun, followUpRequested, released, runs,
                   reservations, caller, owner, outcome>>

FollowUp ==
    /\ activeRun # 0
    /\ followUpRequested
    /\ followUpRequested' = FALSE
    /\ served' = served \cup Joined
    /\ UNCHANGED <<exclusiveOperation, activeRun, released, runs, reservations,
                   caller, owner, outcome>>

Settle(result) ==
    /\ activeRun' = 0
    /\ caller' = [c \in Callers |-> IF c \in Joined THEN Idle ELSE caller[c]]
    /\ outcome' = [c \in Callers |-> IF c \in Joined THEN result ELSE outcome[c]]
    /\ UNCHANGED <<exclusiveOperation, followUpRequested, released, runs,
                   reservations, owner, served>>

EndRun ==
    /\ activeRun # 0
    /\ ~followUpRequested
    /\ Settle("ok")

\* A pass throws: the loop ends, a requested follow-up stays requested.
FailRun ==
    /\ activeRun # 0
    /\ Settle("failed")

-----------------------------------------------------------------------------
(* executeExclusive *)

\* Mutant: does not look for a run that is under way.
MutantReserve(o) ==
    /\ owner[o].at = "idle"
    /\ reservations < MaxReservations
    /\ reservations' = reservations + 1
    /\ exclusiveOperation' = reservations + 1
    /\ owner' = [owner EXCEPT ![o] =
                    [at |-> "waiting", own |-> reservations + 1,
                     previous |-> exclusiveOperation, run |-> 0]]
    /\ UNCHANGED <<activeRun, followUpRequested, released, runs, caller, served, outcome>>

Reserve(o) ==
    /\ owner[o].at = "idle"
    /\ reservations < MaxReservations
    /\ reservations' = reservations + 1
    /\ exclusiveOperation' = reservations + 1
    /\ owner' = [owner EXCEPT ![o] =
                    [at |-> "waiting", own |-> reservations + 1,
                     previous |-> exclusiveOperation, run |-> activeRun]]
    /\ UNCHANGED <<activeRun, followUpRequested, released, runs, caller, served, outcome>>

Operate(o) ==
    /\ owner[o].at = "waiting"
    /\ owner[o].previous \in released \cup {0}
    /\ owner[o].run = 0 \/ owner[o].run # activeRun
    /\ owner' = [owner EXCEPT ![o].at = "operating"]
    /\ UNCHANGED <<exclusiveOperation, activeRun, followUpRequested, released, runs,
                   reservations, caller, served, outcome>>

\* runWithinExclusive: a pass of the operation, which a request left behind by
\* a failed run does not outlive.
BeginPass(o) ==
    /\ owner[o].at = "operating"
    /\ exclusiveOperation # 0
    /\ owner' = [owner EXCEPT ![o].at = "passing"]
    /\ followUpRequested' = FALSE
    /\ UNCHANGED <<exclusiveOperation, activeRun, released, runs, reservations,
                   caller, served, outcome>>

\* The pass succeeded or threw.  A request made meanwhile would repeat it, but
\* whoever could make one waits for the reservation.
EndPass(o) ==
    /\ owner[o].at = "passing"
    /\ ~followUpRequested
    /\ owner' = [owner EXCEPT ![o].at = "operating"]
    /\ UNCHANGED <<exclusiveOperation, activeRun, followUpRequested, released, runs,
                   reservations, caller, served, outcome>>

\* Mutant: an operation that throws never resolves its reservation.
MutantReleaseOnSuccess(o) ==
    /\ owner[o].at = "operating"
    /\ released' \in {released, released \cup {owner[o].own}}
    /\ exclusiveOperation' =
          IF exclusiveOperation = owner[o].own THEN 0 ELSE exclusiveOperation
    /\ owner' = [owner EXCEPT ![o] = IdleOwner]
    /\ UNCHANGED <<activeRun, followUpRequested, runs, reservations, caller, served, outcome>>

\* The operation returned or threw.
ReleaseReservation(o) ==
    /\ owner[o].at = "operating"
    /\ released' = released \cup {owner[o].own}
    /\ exclusiveOperation' =
          IF exclusiveOperation = owner[o].own THEN 0 ELSE exclusiveOperation
    /\ owner' = [owner EXCEPT ![o] = IdleOwner]
    /\ UNCHANGED <<activeRun, followUpRequested, runs, reservations, caller, served, outcome>>

-----------------------------------------------------------------------------
RunStep == FollowUp \/ EndRun \/ FailRun

GateNext ==
    \/ \E c \in Callers : Run(c) \/ Retry(c)
    \/ RunStep
    \/ \E o \in Owners :
          Reserve(o) \/ Operate(o) \/ BeginPass(o) \/ EndPass(o) \/ ReleaseReservation(o)

GateSpec == GateInit /\ [][GateNext]_gateVars

\* The event loop runs every callback whose promise has resolved, and passes
\* and operations come to an end (every request they make has a timeout).  A pass
\* may throw but need not, so FailRun is owed to nobody.
\* Nobody is obliged to call, and no operation to run a pass.
GateFairness ==
    /\ WF_gateVars(FollowUp \/ EndRun)
    /\ \A c \in Callers : WF_gateVars(Retry(c))
    /\ \A o \in Owners : /\ WF_gateVars(Operate(o))
                         /\ WF_gateVars(EndPass(o))
                         /\ SF_gateVars(ReleaseReservation(o))

GateFairSpec == GateSpec /\ GateFairness

-----------------------------------------------------------------------------
(* Properties *)

Operating == {o \in Owners : owner[o].at \in {"operating", "passing"}}

\* An exclusive operation has the device to itself: no run is under way and no
\* other operation, whatever was called while it waited its turn.
Exclusion ==
    /\ \A o \in Operating : activeRun = 0
    /\ \A o, p \in Operating : o = p

\* While somebody waits or operates, new callers find the newest reservation:
\* a release never takes away the reservation of whoever queued up behind, and
\* runWithinExclusive always finds one.
ReservationStands ==
    \A o \in Owners : owner[o].at # "idle" => exclusiveOperation = reservations

\* A call that returned a result was answered by a pass that began after the
\* call: changes made before a call are never left to a pass already past them.
AnswersAreFresh ==
    \A c \in Callers : outcome[c] = "ok" => c \in served

\* Operations get their turn, in spite of callers that keep joining runs.
OwnersGetTheirTurn ==
    \A o \in Owners : []<>(owner[o].at # "waiting")

\* Nobody waits forever for a run or a reservation once operations stop coming
\* (there are MaxReservations of them).
CallersReturn ==
    \A c \in Callers : []<>(caller[c].at = "idle")

-----------------------------------------------------------------------------
(* The strengthening that makes Exclusion inductive. *)

\* Reservations resolve in the order they were made.
ReleasedInOrder == \A i \in released : \A j \in 1..i : j \in released

\* A call waits for all reservations before its own, and for the run it found.
OwnersQueue ==
    \A o \in Owners : owner[o].at # "idle" =>
        /\ owner[o].own \in 1..reservations
        /\ owner[o].own \notin released
        /\ \/ owner[o].previous = owner[o].own - 1
           \/ /\ owner[o].previous = 0
              /\ \A j \in 1..(owner[o].own - 1) : j \in released
        /\ activeRun \in {0, owner[o].run}
        /\ owner[o].at # "waiting" =>
              /\ owner[o].previous \in released \cup {0}
              /\ activeRun = 0

\* A reservation belongs to one call.
OwnDistinct ==
    \A o, p \in Owners :
        (owner[o].at # "idle" /\ owner[p].at # "idle" /\ owner[o].own = owner[p].own)
            => o = p

\* Without a reservation for new callers, none is left to resolve.
NoneOutstanding == exclusiveOperation = 0 => \A j \in 1..reservations : j \in released

NewestReserved == exclusiveOperation \in {0, reservations}

\* Callers of a run are its callers, and a pass began for all of them unless a
\* follow-up is requested.
JoinedCalls ==
    /\ \A c \in Joined : activeRun # 0
    /\ ~followUpRequested => Joined \subseteq served

GateInv == /\ GateTypeOK
           /\ ReleasedInOrder
           /\ OwnersQueue
           /\ OwnDistinct
           /\ NoneOutstanding
           /\ NewestReserved
           /\ ReservationStands
           /\ JoinedCalls
           /\ AnswersAreFresh

=============================================================================
