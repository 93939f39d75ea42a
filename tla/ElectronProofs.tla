---------------------------- MODULE ElectronProofs ----------------------------
(* The components of the electron shell: one backend at a time (Startup), a     *)
(* disconnect that is final (Authorization), and offers that hold (Updater).    *)
(* They share nothing; each part of this module is about one of them.           *)
EXTENDS Startup, Authorization, Updater, FiniteSetTheorems, TLAPS

-----------------------------------------------------------------------------
(* One backend at a time, however many attempts are made: the theorem behind    *)
(* the property of Startup. It rests on the latest attempt being the only one   *)
(* whose child may live (retry launches the next when that child has exited),   *)
(* and on the attempt waited for being the latest until the controller is       *)
(* disposed.                                                                    *)

(* Only the child of the latest attempt may live, and only it is waited for.    *)
Latest ==
  /\ active \in {0, launched} /\ (~disposed => active = launched)
  /\ retrying \in {0, launched}
  /\ \A a \in Attempts : a # launched => HasExited(a)

(* What is disposed of has been told to stop, and quitting disposes.            *)
Stopped ==
  /\ disposed => launched > 0 /\ \A a \in Attempts : IsAlive(a) => attempts[a].killed
  /\ app \in {"closing", "gone"} => disposed \/ launched = 0

(* The state and what the window has heard of it: an event, or an answer.       *)
Heard ==
  /\ startup = "ready" /\ ~disposed => launched > 0 /\ attempts[launched].ready
  /\ window.received \/ window.reply # "none" => window.listens
  /\ window.listens => launched > 0
  /\ window.received \/ window.reply = "sent" => window.shows = startup
  /\ window.reply \in StartupStates /\ ~window.received => window.reply = startup

StartupInv == StartupTypeOK /\ Latest /\ Stopped /\ Heard

-----------------------------------------------------------------------------
(* Attempts that go on: no child comes alive, none comes back, and nothing that *)
(* was done is undone.                                                          *)
GoesOn(x, y) ==
  /\ y.child \in {"starting", "serving"} => x.child \in {"starting", "serving"}
  /\ x.child \in {"none", "gone"} => y.child \in {"none", "gone"}
  /\ x.killed => y.killed
  /\ x.ready => y.ready

GoOn(as, bs) ==
  bs \in [Attempts -> Attempt] /\ \A a \in Attempts : GoesOn(as[a], bs[a])

(* What a step may say of the state: "ready" of the latest attempt only.        *)
Says(bs) ==
  \/ UNCHANGED <<startup, window>>
  \/ \E s \in StartupStates :
       SetState(s) /\ (s = "ready" => launched > 0 /\ bs[launched].ready)

(* A change of one attempt that lets it go on.                                  *)
LEMMA GoingOne ==
  ASSUME NEW as \in [Attempts -> Attempt], NEW a \in Attempts,
         NEW x \in Attempt, GoesOn(as[a], x)
  PROVE  GoOn(as, [as EXCEPT ![a] = x])
<1> DEFINE bs == [as EXCEPT ![a] = x]
<1>1. bs \in [Attempts -> Attempt]
  OBVIOUS
<1>2. ASSUME NEW b \in Attempts PROVE GoesOn(as[b], bs[b])
  <2>1. CASE b = a
    BY <2>1
  <2>2. CASE b # a
    BY <2>2 DEF GoesOn
  <2> QED
    BY <2>1, <2>2
<1> QED
  BY <1>1, <1>2 DEF GoOn

(* Changing what an attempt awaits, aborting it and telling its child to stop   *)
(* let it go on.                                                                *)
LEMMA Going ==
  ASSUME NEW as \in [Attempts -> Attempt], NEW a \in Attempts,
         NEW what \in StartupAwaits
  PROVE  /\ GoOn(as, as)
         /\ GoOn(as, [as EXCEPT ![a].awaits = what, ![a].answered = FALSE])
         /\ GoOn(as, [as EXCEPT ![a].answered = TRUE])
         /\ GoOn(as, [as EXCEPT ![a].ready = TRUE])
         /\ GoOn(as, [as EXCEPT ![a].prolonged = TRUE])
         /\ GoOn(as, Killed(as, a))
         /\ GoOn(as, Aborted(as, a))
<1> DEFINE x == as[a]
<1>0. x \in Attempt
  OBVIOUS
<1>1. GoOn(as, as)
  BY DEF GoOn, GoesOn
<1>2. GoOn(as, [as EXCEPT ![a].awaits = what, ![a].answered = FALSE])
  <2> DEFINE y == [x EXCEPT !.awaits = what, !.answered = FALSE]
  <2>1. y \in Attempt /\ GoesOn(x, y)
    BY <1>0 DEF GoesOn, Attempt
  <2>2. GoOn(as, [as EXCEPT ![a] = y])
    BY <2>1, GoingOne
  <2> QED
    BY <2>2
<1>3. /\ GoOn(as, [as EXCEPT ![a] = [x EXCEPT !.answered = TRUE]])
      /\ GoOn(as, [as EXCEPT ![a] = [x EXCEPT !.ready = TRUE]])
  <2>1. /\ [x EXCEPT !.answered = TRUE] \in Attempt /\ GoesOn(x, [x EXCEPT !.answered = TRUE])
        /\ [x EXCEPT !.ready = TRUE] \in Attempt /\ GoesOn(x, [x EXCEPT !.ready = TRUE])
    BY <1>0 DEF GoesOn, Attempt
  <2> QED
    BY <2>1, GoingOne
<1>4. /\ GoOn(as, [as EXCEPT ![a] = [x EXCEPT !.prolonged = TRUE]])
      /\ GoOn(as, [as EXCEPT ![a] = [x EXCEPT !.killed = TRUE]])
      /\ GoOn(as, [as EXCEPT ![a] = [x EXCEPT !.aborted = TRUE]])
  <2>1. /\ [x EXCEPT !.prolonged = TRUE] \in Attempt /\ GoesOn(x, [x EXCEPT !.prolonged = TRUE])
        /\ [x EXCEPT !.killed = TRUE] \in Attempt /\ GoesOn(x, [x EXCEPT !.killed = TRUE])
        /\ [x EXCEPT !.aborted = TRUE] \in Attempt /\ GoesOn(x, [x EXCEPT !.aborted = TRUE])
    BY <1>0 DEF GoesOn, Attempt
  <2> QED
    BY <2>1, GoingOne
<1>5. GoOn(as, Killed(as, a))
  BY <1>1, <1>4 DEF Killed
<1>6. GoOn(as, Aborted(as, a))
  BY <1>4 DEF Aborted
<1> QED
  BY <1>1, <1>2, <1>3, <1>4, <1>5, <1>6

LEMMA GoingFurther ==
  ASSUME NEW as, NEW bs, NEW cs, GoOn(as, bs), GoOn(bs, cs)
  PROVE  GoOn(as, cs)
BY DEF GoOn, GoesOn

(* failAttempt says "failed", or nothing.                                       *)
LEMMA Failing ==
  ASSUME StartupInv, NEW as \in [Attempts -> Attempt], GoOn(attempts, as),
         NEW a \in Attempts, FailAttempt(as, a)
  PROVE  GoOn(attempts, attempts') /\ Says(attempts')
<1>1. CASE IsActive(a) /\ ~as[a].ready
  <2>1. attempts' = Killed(Aborted(as, a), a) /\ SetState("failed")
    BY <1>1 DEF FailAttempt
  <2>2. GoOn(as, Aborted(as, a))
    BY Going DEF StartupAwaits
  <2>3. GoOn(Aborted(as, a), Killed(Aborted(as, a), a))
    BY <2>2, Going DEF StartupAwaits, GoOn
  <2> QED
    BY <2>1, <2>2, <2>3, GoingFurther DEF Says, StartupStates
<1>2. CASE ~(IsActive(a) /\ ~as[a].ready)
  BY <1>2 DEF FailAttempt, Says
<1> QED
  BY <1>1, <1>2

-----------------------------------------------------------------------------
(* The steps after which every attempt goes on, of the same controller.         *)
LEMMA GoingOnKeeps ==
  ASSUME StartupInv, GoOn(attempts, attempts'), Says(attempts'), retrying' \in {0, launched},
         UNCHANGED <<active, launched, disposed, stranger, app>>
  PROVE  StartupInv'
<1> USE DEF StartupInv
<1>1. window' \in Windows /\ startup' \in StartupStates
  BY DEF Says, SetState, StartupTypeOK, Windows
<1>2. StartupTypeOK'
  BY <1>1, StartupAssumption DEF StartupTypeOK, GoOn
<1>3. Latest'
  BY DEF Latest, GoOn, GoesOn, HasExited
<1>4. Stopped'
  BY DEF Stopped, GoOn, GoesOn, IsAlive
<1>5. launched > 0 => launched \in Attempts
  BY DEF StartupTypeOK, Attempts
<1>6. Heard'
  <2>1. CASE UNCHANGED <<startup, window>>
    BY <2>1, <1>5 DEF Heard, GoOn, GoesOn
  <2>2. CASE \E s \in StartupStates :
               SetState(s) /\ (s = "ready" => launched > 0 /\ attempts'[launched].ready)
    <3>1. startup' = "ready" => launched > 0 /\ attempts'[launched].ready
      BY <2>2 DEF SetState
    <3>2. CASE window.listens
      BY <2>2, <3>1, <3>2 DEF Heard, SetState, StartupTypeOK, Windows
    <3>3. CASE ~window.listens
      BY <2>2, <3>1, <3>3 DEF Heard, SetState, StartupTypeOK, Windows, StartupStates
    <3> QED
      BY <3>2, <3>3
  <2> QED
    BY <2>1, <2>2 DEF Says
<1> QED
  BY <1>2, <1>3, <1>4, <1>6

(* launchAttempt, when the child of the attempt before it has exited.           *)
LEMMA LaunchAttemptKeeps ==
  ASSUME StartupInv, NEW as, GoOn(attempts, as), LaunchAttempt(as),
         launched = 0 \/ HasExited(launched), retrying' = 0,
         UNCHANGED <<disposed, stranger>>, app' \in {app, "running"},
         app \in {"closing", "gone"} => disposed
  PROVE  StartupInv'
<1> USE DEF StartupInv
<1>1. CASE disposed \/ launched = MaxAttempts
  <2>1. attempts' = as /\ UNCHANGED <<active, launched, startup, window>>
    BY <1>1 DEF LaunchAttempt
  <2>2. launched > 0 => launched \in Attempts
    BY DEF StartupTypeOK, Attempts
  <2>3. StartupTypeOK'
    <3>1. attempts' \in [Attempts -> Attempt]
      BY <2>1 DEF GoOn
    <3>2. app' \in {"preparing", "running", "flushing", "closing", "gone"}
      BY DEF StartupTypeOK
    <3>3. 0 \in 0..MaxAttempts
      BY StartupAssumption
    <3> QED
      BY <2>1, <3>1, <3>2, <3>3 DEF StartupTypeOK
  <2>4. Latest'
    BY <2>1 DEF Latest, GoOn, GoesOn, HasExited
  <2>5. Stopped'
    BY <2>1 DEF Stopped, GoOn, GoesOn, IsAlive
  <2>6. Heard'
    BY <2>1, <2>2 DEF Heard, GoOn, GoesOn
  <2> QED
    BY <2>3, <2>4, <2>5, <2>6
<1>2. CASE ~(disposed \/ launched = MaxAttempts)
  <2> DEFINE n == launched + 1
  <2>1. /\ launched' = n /\ active' = n /\ SetState("initial")
        /\ attempts' = [as EXCEPT ![n].awaits = "health"]
    BY <1>2 DEF LaunchAttempt
  <2>2. n \in Attempts /\ launched \in Nat /\ n \in Nat /\ n <= MaxAttempts
    BY <1>2, StartupAssumption DEF StartupTypeOK, Attempts
  <2>3. GoOn(attempts, attempts')
    <3>1. as \in [Attempts -> Attempt]
      BY DEF GoOn
    <3> DEFINE y == [as[n] EXCEPT !.awaits = "health"]
    <3>2. y \in Attempt /\ GoesOn(as[n], y)
      <4>1. as[n] \in Attempt
        BY <2>2, <3>1
      <4> QED
        BY <4>1 DEF Attempt, StartupAwaits, GoesOn
    <3>3. GoOn(as, attempts')
      <4>1. GoOn(as, [as EXCEPT ![n] = y])
        BY <2>2, <3>1, <3>2, GoingOne
      <4> QED
        BY <2>1, <4>1
    <3> QED
      BY <3>3, GoingFurther
  <2>4. window' \in Windows /\ startup' = "initial"
    BY <2>1 DEF SetState, StartupTypeOK, Windows, StartupStates
  <2>5. StartupTypeOK'
    <3>1. attempts' \in [Attempts -> Attempt] /\ startup' \in StartupStates
      BY <2>3, <2>4 DEF GoOn, StartupStates
    <3>2. app' \in {"preparing", "running", "flushing", "closing", "gone"}
      BY DEF StartupTypeOK
    <3>3. active' \in 0..launched' /\ launched' \in 0..MaxAttempts /\ 0 \in 0..MaxAttempts
      BY <2>1, <2>2, StartupAssumption
    <3> QED
      BY <2>4, <3>1, <3>2, <3>3 DEF StartupTypeOK
  <2>6. \A a \in Attempts : HasExited(a)
    BY DEF Latest, Attempts
  <2>7. Latest'
    BY <2>1, <2>3, <2>6 DEF Latest, GoOn, GoesOn, HasExited
  <2>8. Stopped'
    BY <1>2, <2>1, <2>2 DEF Stopped
  <2>9. Heard'
    <3>1. CASE window.listens
      BY <2>1, <2>2, <2>4, <3>1 DEF Heard, SetState, StartupTypeOK, Windows
    <3>2. CASE ~window.listens
      BY <2>1, <2>2, <2>4, <3>2 DEF Heard, SetState, StartupTypeOK, Windows, StartupStates
    <3> QED
      BY <3>1, <3>2
  <2> QED
    BY <2>5, <2>7, <2>8, <2>9
<1> QED
  BY <1>1, <1>2

-----------------------------------------------------------------------------
(* The controller *)

LEMMA HealthAnswersKeeps ==
  ASSUME StartupInv, NEW a \in Attempts, HealthAnswers(a)
  PROVE  StartupInv'
<1>1. GoOn(attempts, attempts')
  BY Going DEF HealthAnswers, StartupInv, StartupTypeOK, StartupAwaits
<1> QED
  BY <1>1, GoingOnKeeps DEF HealthAnswers, Says, StartupInv, Latest

(* BecomeReady for the attempt that is waited for, the latest one.              *)
LEMMA BecomingReady ==
  ASSUME StartupInv, NEW a \in Attempts, IsActive(a), NEW as, GoOn(attempts, as),
         BecomeReady(a, as)
  PROVE  GoOn(attempts, attempts') /\ Says(attempts')
<1>1. GoOn(as, attempts')
  BY Going DEF BecomeReady, GoOn, StartupAwaits
<1>2. attempts'[a].ready
  BY DEF BecomeReady, GoOn, Attempt
<1>3. a = launched /\ launched > 0
  BY DEF StartupInv, Latest, IsActive, Attempts
<1> QED
  BY <1>1, <1>2, <1>3, GoingFurther DEF BecomeReady, Says, StartupStates

(* The child is spawned for the latest attempt; no other is alive.              *)
LEMMA SpawnKeeps ==
  ASSUME StartupInv, NEW a \in Attempts, IsActive(a),
         attempts' = [Awaiting(a, "poll") EXCEPT ![a].child = "starting"],
         UNCHANGED <<startup, window, active, launched, retrying, disposed, stranger, app>>
  PROVE  StartupInv'
<1> USE DEF StartupInv
<1>1. a = launched /\ ~disposed /\ launched > 0
  BY DEF Latest, IsActive, Attempts
<1>2. attempts' \in [Attempts -> Attempt]
  <2>1. Awaiting(a, "poll") \in [Attempts -> Attempt]
    BY Going DEF StartupTypeOK, Awaiting, StartupAwaits, GoOn
  <2> QED
    BY <2>1 DEF Attempt, Children
<1>3. \A b \in Attempts : /\ attempts'[b].ready = attempts[b].ready
                          /\ b # a => attempts'[b] = attempts[b]
  BY DEF StartupTypeOK, Awaiting, Attempt
<1>4. StartupTypeOK'
  BY <1>2 DEF StartupTypeOK
<1>5. Latest'
  BY <1>1, <1>3 DEF Latest, HasExited
<1>6. Stopped'
  BY <1>1 DEF Stopped
<1>7. Heard'
  BY <1>1, <1>3 DEF Heard
<1> QED
  BY <1>4, <1>5, <1>6, <1>7

LEMMA HealthCheckedKeeps ==
  ASSUME StartupInv, NEW a \in Attempts, HealthChecked(a)
  PROVE  StartupInv'
<1>1. GoOn(attempts, Awaiting(a, "end"))
  BY Going DEF StartupInv, StartupTypeOK, Awaiting, StartupAwaits
<1>2. UNCHANGED <<active, launched, retrying, disposed, stranger, app>> /\ retrying' \in {0, launched}
  BY DEF HealthChecked, StartupInv, Latest
<1>3. CASE IsActive(a) /\ BecomeReady(a, Awaiting(a, "end"))
  BY <1>1, <1>2, <1>3, BecomingReady, GoingOnKeeps
<1>4. CASE attempts' = Awaiting(a, "end") /\ UNCHANGED <<startup, window>>
  BY <1>1, <1>2, <1>4, GoingOnKeeps DEF Says
<1>5. CASE /\ IsActive(a) /\ UNCHANGED <<startup, window>>
           /\ attempts' = [Awaiting(a, "poll") EXCEPT ![a].child = "starting"]
  BY <1>2, <1>5, SpawnKeeps
<1>6. CASE FailAttempt(Awaiting(a, "end"), a)
  <2>1. Awaiting(a, "end") \in [Attempts -> Attempt]
    BY <1>1 DEF GoOn
  <2> QED
    BY <1>1, <1>2, <1>6, <2>1, Failing, GoingOnKeeps
<1> QED
  BY <1>3, <1>4, <1>5, <1>6 DEF HealthChecked, MayProceed

LEMMA PolledKeeps ==
  ASSUME StartupInv, NEW a \in Attempts, Polled(a)
  PROVE  StartupInv'
<1>1. GoOn(attempts, Awaiting(a, "end")) /\ GoOn(attempts, Awaiting(a, "delay"))
  BY Going DEF StartupInv, StartupTypeOK, Awaiting, StartupAwaits
<1>2. UNCHANGED <<active, launched, retrying, disposed, stranger, app>> /\ retrying' \in {0, launched}
  BY DEF Polled, StartupInv, Latest
<1>3. CASE IsActive(a) /\ BecomeReady(a, Awaiting(a, "end"))
  BY <1>1, <1>2, <1>3, BecomingReady, GoingOnKeeps
<1>4. CASE /\ attempts' = Awaiting(a, "end") \/ attempts' = Awaiting(a, "delay")
           /\ UNCHANGED <<startup, window>>
  BY <1>1, <1>2, <1>4, GoingOnKeeps DEF Says
<1>5. CASE /\ attempts' = [Awaiting(a, "delay") EXCEPT ![a].prolonged = TRUE]
           /\ SetState("taking-longer")
  <2>1. GoOn(Awaiting(a, "delay"), attempts')
    BY <1>1, <1>5, Going DEF GoOn, StartupAwaits
  <2> QED
    BY <1>1, <1>2, <1>5, <2>1, GoingFurther, GoingOnKeeps DEF Says, StartupStates
<1> QED
  BY <1>3, <1>4, <1>5 DEF Polled

LEMMA DelayEndsKeeps ==
  ASSUME StartupInv, NEW a \in Attempts, DelayEnds(a)
  PROVE  StartupInv'
<1>1. GoOn(attempts, attempts')
  BY Going DEF DelayEnds, StartupInv, StartupTypeOK, Awaiting, StartupAwaits
<1> QED
  BY <1>1, GoingOnKeeps DEF DelayEnds, Says, StartupInv, Latest

LEMMA RetryKeeps ==
  ASSUME StartupInv, Retry
  PROVE  StartupInv'
<1>1. /\ ~disposed /\ launched > 0 /\ active = launched /\ retrying = 0
      /\ launched \in Attempts /\ attempts \in [Attempts -> Attempt]
      /\ UNCHANGED <<disposed, stranger, app>>
  BY DEF Retry, StartupInv, StartupTypeOK, Latest, Heard, Attempts
<1>2. GoOn(attempts, Aborted(attempts, active))
  BY <1>1, Going DEF StartupAwaits
<1>3. GoOn(attempts, Killed(Aborted(attempts, active), active))
  <2>1. GoOn(Aborted(attempts, active), Killed(Aborted(attempts, active), active))
    BY <1>1, <1>2, Going DEF GoOn, StartupAwaits
  <2> QED
    BY <1>2, <2>1, GoingFurther
<1>4. CASE HasExited(active)
  <2>1. LaunchAttempt(Aborted(attempts, active)) /\ retrying' = 0
    BY <1>1, <1>4 DEF Retry
  <2>2. app \notin {"closing", "gone"}
    BY <1>1 DEF StartupInv, Stopped
  <2> QED
    BY <1>1, <1>2, <1>4, <2>1, <2>2, LaunchAttemptKeeps
<1>5. CASE ~HasExited(active)
  <2>1. /\ attempts' = Killed(Aborted(attempts, active), active)
        /\ UNCHANGED <<active, launched>> /\ retrying' \in {0, launched}
        /\ UNCHANGED <<startup, window>> \/ SetState("failed")
    BY <1>1, <1>5 DEF Retry
  <2> QED
    BY <1>1, <1>3, <2>1, GoingOnKeeps DEF Says, StartupStates
<1> QED
  BY <1>4, <1>5

LEMMA TerminatedKeeps ==
  ASSUME StartupInv, Terminated
  PROVE  StartupInv'
<1>1. /\ retrying = launched /\ launched > 0 /\ launched \in Attempts /\ retrying' = 0
      /\ attempts \in [Attempts -> Attempt] /\ UNCHANGED <<disposed, stranger, app>>
  BY DEF Terminated, StartupInv, StartupTypeOK, Latest, Attempts
<1>2. GoOn(attempts, attempts)
  BY <1>1, Going DEF StartupAwaits
<1>3. CASE attempts[retrying].child = "gone" /\ LaunchAttempt(attempts)
  <2>1. HasExited(launched) /\ (app \in {"closing", "gone"} => disposed)
    BY <1>1, <1>3 DEF HasExited, StartupInv, Stopped
  <2> QED
    BY <1>1, <1>2, <1>3, <2>1, LaunchAttemptKeeps
<1>4. CASE SetState("failed") /\ UNCHANGED <<attempts, active, launched>>
  BY <1>1, <1>2, <1>4, GoingOnKeeps DEF Says, StartupStates
<1> QED
  BY <1>3, <1>4 DEF Terminated

-----------------------------------------------------------------------------
(* The backend processes *)

LEMMA ChildKeeps ==
  ASSUME StartupInv, NEW a \in Attempts, Serves(a) \/ Dies(a)
  PROVE  StartupInv'
<1>1. GoOn(attempts, attempts')
  BY DEF Serves, Dies, GoOn, GoesOn, IsAlive, Attempt, Children, StartupInv, StartupTypeOK
<1> QED
  BY <1>1, GoingOnKeeps DEF Serves, Dies, Says, StartupInv, Latest

LEMMA ExitEventKeeps ==
  ASSUME StartupInv, NEW a \in Attempts, ExitEvent(a)
  PROVE  StartupInv'
<1> DEFINE as == [attempts EXCEPT ![a].child = "gone"]
<1>1. as \in [Attempts -> Attempt] /\ GoOn(attempts, as)
  BY DEF ExitEvent, GoOn, GoesOn, Attempt, Children, StartupInv, StartupTypeOK
<1>2. FailAttempt(as, a)
  BY DEF ExitEvent
<1> HIDE DEF as
<1>3. GoOn(attempts, attempts') /\ Says(attempts')
  BY <1>1, <1>2, Failing
<1> QED
  BY <1>3, GoingOnKeeps DEF ExitEvent, StartupInv, Latest

-----------------------------------------------------------------------------
(* The application and its window *)

LEMMA StartKeeps ==
  ASSUME StartupInv, Start
  PROVE  StartupInv'
<1>1. /\ launched = 0 /\ retrying = 0 /\ app \notin {"closing", "gone"}
      /\ attempts \in [Attempts -> Attempt]
  BY DEF Start, StartupInv, StartupTypeOK, Latest
<1>2. GoOn(attempts, attempts)
  BY <1>1 DEF GoOn, GoesOn
<1> QED
  BY <1>1, <1>2, LaunchAttemptKeeps DEF Start

LEMMA WindowKeeps ==
  ASSUME StartupInv, Mount \/ GetState \/ Reply
  PROVE  StartupInv'
<1> USE DEF StartupInv
<1>1. UNCHANGED <<attempts, active, launched, startup, retrying, disposed, stranger, app>>
  BY DEF Mount, GetState, Reply
<1>2. Latest' /\ Stopped'
  BY <1>1 DEF Latest, Stopped, HasExited, IsAlive
<1>3. window' \in Windows
  BY DEF Mount, GetState, Reply, StartupTypeOK, Windows
<1>4. Heard'
  <2>1. CASE Mount
    BY <1>1, <2>1 DEF Mount, Heard, StartupTypeOK, Windows, StartupStates
  <2>2. CASE GetState
    BY <1>1, <2>2 DEF GetState, Heard, StartupTypeOK, Windows, StartupStates
  <2>3. CASE Reply
    BY <1>1, <2>3 DEF Reply, Heard, StartupTypeOK, Windows, StartupStates
  <2> QED
    BY <2>1, <2>2, <2>3
<1> QED
  BY <1>1, <1>2, <1>3, <1>4 DEF StartupTypeOK

(* Disposing tells the latest child to stop, the only one that may live.        *)
LEMMA DisposeKeeps ==
  ASSUME StartupInv, Dispose, app' \in {"flushing", "closing"},
         UNCHANGED <<launched, startup, retrying, stranger, window>>
  PROVE  StartupInv'
<1> USE DEF StartupInv
<1>1. launched \in Nat /\ active \in Nat /\ (active > 0 => active \in Attempts)
  BY StartupAssumption DEF StartupTypeOK, Attempts
<1>2. launched > 0 \/ launched = 0
  BY <1>1
<1>3. GoOn(attempts, attempts')
  <2>1. CASE active = 0
    BY <2>1 DEF Dispose, GoOn, GoesOn, StartupTypeOK
  <2>2. CASE active # 0
    <3>1. active \in Attempts /\ attempts \in [Attempts -> Attempt]
      BY <1>1, <2>2 DEF StartupTypeOK
    <3>2. GoOn(attempts, Aborted(attempts, active))
      BY <3>1, Going DEF StartupAwaits
    <3>3. GoOn(Aborted(attempts, active), attempts')
      BY <2>2, <3>1, <3>2, Going DEF Dispose, GoOn, StartupAwaits
    <3> QED
      BY <3>2, <3>3, GoingFurther
  <2> QED
    BY <2>1, <2>2
<1>4. StartupTypeOK'
  BY <1>3 DEF StartupTypeOK, Dispose, GoOn
<1>5. Latest'
  <2>1. active' = 0 /\ (~disposed' => launched = 0)
    BY <1>2, Zenon DEF Dispose
  <2>2. \A a \in Attempts : a # launched => HasExited(a)'
    BY <1>3 DEF Latest, GoOn, GoesOn, HasExited
  <2> QED
    BY <2>1, <2>2 DEF Latest
<1>6. Stopped'
  <2>1. SUFFICES ASSUME NEW a \in Attempts, IsAlive(a)', launched > 0
                 PROVE  attempts'[a].killed
    <3>1. disposed' => launched > 0
      BY DEF Dispose
    <3>2. launched = 0 \/ disposed'
      BY <1>2, Zenon DEF Dispose
    <3> QED
      BY <2>1, <3>1, <3>2 DEF Stopped
  <2>2. ~HasExited(a) /\ a = launched
    BY <1>3, <2>1 DEF Latest, GoOn, GoesOn, IsAlive, HasExited
  <2>3. CASE disposed
    BY <1>3, <2>1, <2>3 DEF Stopped, GoOn, GoesOn, IsAlive
  <2>4. CASE ~disposed
    BY <1>1, <2>1, <2>2, <2>4
    DEF Latest, Dispose, Killed, Aborted, StartupTypeOK, Attempt
  <2> QED
    BY <2>3, <2>4
<1>7. Heard'
  BY <1>1 DEF Heard, Stopped, Dispose
<1> QED
  BY <1>4, <1>5, <1>6, <1>7

LEMMA QuitExitKeeps ==
  ASSUME StartupInv, Quit \/ Exit
  PROVE  StartupInv'
BY DEF Quit, Exit, StartupInv, StartupTypeOK, Latest, Stopped, Heard, HasExited, IsAlive

-----------------------------------------------------------------------------
(* The theorem *)

LEMMA StartupInitInv == StartupInit => StartupInv
<1> SUFFICES ASSUME StartupInit PROVE StartupInv
  OBVIOUS
<1>1. StartupTypeOK
  <2>1. attempts \in [Attempts -> Attempt]
    BY DEF StartupInit, Attempt, NewAttempt, StartupAwaits, Children
  <2>2. window \in Windows
    BY DEF StartupInit, Windows, NoWindow, StartupStates
  <2>3. 0 \in 0..0 /\ 0 \in 0..MaxAttempts
    BY StartupAssumption
  <2> QED
    BY <2>1, <2>2, <2>3 DEF StartupInit, StartupTypeOK, StartupStates
<1>2. Latest /\ Stopped /\ Heard
  BY DEF StartupInit, Latest, Stopped, Heard, HasExited, NewAttempt, NoWindow, StartupStates
<1> QED
  BY <1>1, <1>2 DEF StartupInv

LEMMA StartupStepInv == StartupInv /\ [StartupNext]_startVars => StartupInv'
<1> SUFFICES ASSUME StartupInv, [StartupNext]_startVars PROVE StartupInv'
  OBVIOUS
<1>1. ASSUME NEW a \in Attempts, Callback(a) PROVE StartupInv'
  BY <1>1, HealthAnswersKeeps, HealthCheckedKeeps, PolledKeeps, DelayEndsKeeps, ExitEventKeeps
  DEF Callback
<1>2. CASE Retry \/ Terminated \/ Start
  BY <1>2, RetryKeeps, TerminatedKeeps, StartKeeps
<1>3. CASE Mount \/ GetState \/ Reply
  BY <1>3, WindowKeeps
<1>4. CASE Flushed \/ StartFails
  BY <1>4, DisposeKeeps DEF Flushed, StartFails
<1>5. CASE Quit \/ Exit
  BY <1>5, QuitExitKeeps
<1>6. ASSUME NEW a \in Attempts, Serves(a) \/ Dies(a) PROVE StartupInv'
  BY <1>6, ChildKeeps
<1>7. CASE UNCHANGED startVars
  BY <1>7 DEF startVars, StartupInv, StartupTypeOK, Latest, Stopped, Heard, HasExited, IsAlive
<1> QED
  BY <1>1, <1>2, <1>3, <1>4, <1>5, <1>6, <1>7 DEF StartupNext

(* What the property asks for follows from the invariant.                       *)
LEMMA StartupInvImplies == StartupInv => OneBackend
<1> SUFFICES ASSUME StartupInv PROVE OneBackend
  OBVIOUS
<1> USE DEF StartupInv
<1> DEFINE alive == {a \in Attempts : IsAlive(a)}
<1>1. alive \subseteq {launched}
  BY DEF Latest, IsAlive, HasExited
<1>2. Cardinality(alive) <= 1
  <2>1. IsFiniteSet({launched}) /\ Cardinality({launched}) = 1
    BY FS_Singleton
  <2> QED
    BY <1>1, <2>1, FS_Subset, FS_CardinalityType
<1>3. app = "gone" => \A a \in Attempts : IsAlive(a) => attempts[a].killed
  <2>1. launched = 0 => alive = {}
    BY <1>1 DEF Attempts
  <2> QED
    BY <2>1 DEF Stopped
<1>4. startup = "ready" /\ ~disposed => attempts[active].ready
  BY DEF Latest, Heard
<1>5. window.reply = "sent" => window.shows = startup
  BY DEF Heard
<1> QED
  BY <1>2, <1>3, <1>4, <1>5 DEF OneBackend

(* The latest attempt alone has a child, in every reachable state.              *)
THEOREM StartupInvariance == StartupSpec => []StartupInv
BY StartupInitInv, StartupStepInv, PTL DEF StartupSpec

(* The values the state of the start-up takes are those its declarations say.   *)
THEOREM StartupTypeCorrect == StartupSpec => []StartupTypeOK
<1>1. StartupInv => StartupTypeOK
  BY DEF StartupInv
<1> QED
  BY <1>1, StartupInvariance, PTL

(* However retries, late answers, exit events and quitting interleave, and      *)
(* however many attempts are made: one backend works on the data at a time,     *)
(* none is left behind, and the window shows the controller's state.            *)
THEOREM OneBackendAtATime == StartupSpec => []OneBackend
BY StartupInvariance, StartupInvImplies, PTL

-----------------------------------------------------------------------------
(* A disconnect is final, for any providers, people and bounds: whatever        *)
(* connects, refreshes, cancellations and other disconnects are under way, what *)
(* is stored or in memory after it was signed in to since.                      *)
(*                                                                              *)
(* The property is not inductive. What it rests on: the attempt to connect that *)
(* is active began after the last disconnect of its provider (each disconnect   *)
(* takes activeAttemptId away), and a refresh whose operation id is still the   *)
(* provider's read the store after it (each disconnect gives a new id).         *)

Entries == Credentials \cup {NoCredential}

(* The calls made so far, by number. *)
Calls(f, S) == \E k \in Nat : f \in [1..k -> S]

(* The shape of the state the steps need. *)
Shape ==
  /\ store \in [Providers -> Entries] /\ tokens \in [Providers -> Entries]
  /\ operation \in [Providers -> Nat] /\ operations \in Nat
  /\ era \in [Providers -> 0..MaxDisconnects]
  /\ activeAttempt \in Nat
  /\ Calls(connects, Connect) /\ Calls(refreshes, Refresh)

(* Identifiers of operations are not given twice.                               *)
IdsGiven ==
  /\ \A p \in Providers : operation[p] <= operations
  /\ \A r \in DOMAIN refreshes : refreshes[r].operation <= operations

(* The active attempt began after the last disconnect of its provider.          *)
AttemptIsNew ==
  activeAttempt # 0 =>
    /\ activeAttempt \in DOMAIN connects
    /\ LET c == connects[activeAttempt]
       IN c.provider \notin disconnecting /\ c.era = era[c.provider]

Holds(c, p) == c = NoCredential \/ c.era = era[p]

(* So did a refresh that still has the provider's operation id.                 *)
RefreshIsNew ==
  \A r \in DOMAIN refreshes :
    LET p == refreshes[r].provider
    IN refreshes[r].operation = operation[p] /\ p \notin disconnecting \cup refused =>
         Holds(refreshes[r].loaded, p)

AuthInv == Shape /\ IdsGiven /\ AttemptIsNew /\ RefreshIsNew /\ DisconnectsAreFinal

-----------------------------------------------------------------------------
(* What Added does to the calls so far.                                         *)
LEMMA AddedCall ==
  ASSUME NEW S, NEW f, Calls(f, S), NEW x \in S
  PROVE  /\ Last(f) \in Nat /\ Last(Added(f, x)) = Last(f) + 1
         /\ Last(f) + 1 \notin DOMAIN f
         /\ Calls(Added(f, x), S)
         /\ DOMAIN Added(f, x) = DOMAIN f \cup {Last(f) + 1}
         /\ \A n \in DOMAIN f : Added(f, x)[n] = f[n]
         /\ Added(f, x)[Last(f) + 1] = x
<1>1. PICK k \in Nat : f \in [1..k -> S]
  BY DEF Calls
<1>2. Last(f) = k
  BY <1>1, FS_Interval DEF Last
<1>3. Added(f, x) \in [1..k + 1 -> S]
  BY <1>1, <1>2 DEF Added
<1>4. Last(Added(f, x)) = k + 1
  BY <1>3, FS_Interval DEF Last
<1>5. k + 1 \in Nat /\ Calls(Added(f, x), S)
  BY <1>3 DEF Calls
<1> QED
  BY <1>1, <1>2, <1>3, <1>4, <1>5 DEF Added

(* A step that leaves credentials, operations and disconnections alone keeps    *)
(* the invariant when calls keep their providers and no attempt is activated.   *)
LEMMA CallGoesOn ==
  ASSUME AuthInv, UNCHANGED <<store, tokens, operation, operations, disconnecting, refreshes,
                              era, refused>>,
         activeAttempt' \in {0, activeAttempt},
         Calls(connects', Connect), DOMAIN connects' = DOMAIN connects,
         \A n \in DOMAIN connects : /\ connects'[n].provider = connects[n].provider
                                    /\ connects'[n].era = connects[n].era
  PROVE  AuthInv'
<1> USE DEF AuthInv
<1>1. Shape'
  BY DEF Shape
<1>2. IdsGiven' /\ RefreshIsNew' /\ DisconnectsAreFinal'
  BY DEF IdsGiven, RefreshIsNew, DisconnectsAreFinal, Holds
<1>3. AttemptIsNew'
  BY DEF AttemptIsNew
<1> QED
  BY <1>1, <1>2, <1>3

(* The invariant at first. *)
LEMMA InitAuthInv == AuthInit => AuthInv
<1> SUFFICES ASSUME AuthInit PROVE AuthInv
  OBVIOUS
<1> USE DEF AuthInit
<1>1. 0 \in Nat /\ 0 \in 0..MaxDisconnects
  BY AuthorizationAssumption
<1>2. connects \in [1..0 -> Connect] /\ refreshes \in [1..0 -> Refresh]
  OBVIOUS
<1>3. Shape
  BY <1>1, <1>2 DEF Shape, Entries, Calls
<1>4. IdsGiven /\ AttemptIsNew /\ RefreshIsNew
  BY DEF IdsGiven, AttemptIsNew, RefreshIsNew
<1>5. DisconnectsAreFinal
  BY DEF DisconnectsAreFinal
<1> QED
  BY <1>3, <1>4, <1>5 DEF AuthInv

(* connect and reconnect: the attempt begins while the provider is not being    *)
(* disconnected, and knows its era.                                             *)
LEMMA StartConnectKeeps ==
  ASSUME AuthInv, NEW p \in Providers, StartConnect(p)
  PROVE  AuthInv'
<1> USE DEF AuthInv
<1>1. PICK expects \in {"nobody", store[p].person} :
        connects' = Added(connects, [awaits |-> "listener", provider |-> p,
                                     expects |-> expects, listening |-> FALSE, era |-> era[p]])
  BY DEF StartConnect
<1>2. store[p].person \in People \cup {"nobody"} /\ era[p] \in 0..MaxDisconnects
  BY DEF Shape, Entries, Credentials, NoCredential
<1> DEFINE call == [awaits |-> "listener", provider |-> p, expects |-> expects,
                    listening |-> FALSE, era |-> era[p]]
<1>3. call \in Connect
  <2>1. expects \in People \cup {"nobody"}
    BY <1>2
  <2> QED
    BY <1>2, <2>1 DEF Connect, ConnectAwaits
<1>4. /\ Last(connects) \in Nat /\ Last(connects') = Last(connects) + 1
      /\ Calls(connects', Connect)
      /\ DOMAIN connects' = DOMAIN connects \cup {Last(connects')}
      /\ connects'[Last(connects')] = call
  <2>1. connects' = Added(connects, call)
    BY <1>1
  <2> HIDE DEF call
  <2>2. Calls(connects, Connect)
    BY DEF Shape
  <2>3. /\ Last(connects) \in Nat
        /\ Last(Added(connects, call)) = Last(connects) + 1
        /\ Calls(Added(connects, call), Connect)
    BY <1>3, <2>2, AddedCall
  <2>4. DOMAIN Added(connects, call) = DOMAIN connects \cup {Last(connects) + 1}
    BY <1>3, <2>2, AddedCall
  <2>5. Added(connects, call)[Last(connects) + 1] = call
    <3>1. Last(connects) + 1 \notin DOMAIN connects
      BY <1>3, <2>2, AddedCall
    <3> QED
      BY <2>3, <3>1 DEF Added
  <2> QED
    BY <2>1, <2>3, <2>4, <2>5
<1>5. call.provider = p /\ call.era = era[p]
  OBVIOUS
<1> HIDE DEF call
<1>6. Shape'
  BY <1>4 DEF Shape, StartConnect
<1>7. AttemptIsNew'
  BY <1>4, <1>5 DEF AttemptIsNew, StartConnect
<1>8. IdsGiven' /\ RefreshIsNew' /\ DisconnectsAreFinal'
  BY DEF StartConnect, IdsGiven, RefreshIsNew, DisconnectsAreFinal, Holds
<1> QED
  BY <1>6, <1>7, <1>8

(* Of a call only what it awaits and whether it listens changes.                *)
LEMMA CallChanges ==
  ASSUME Shape, NEW n \in DOMAIN connects, NEW awaits \in ConnectAwaits, NEW listening \in BOOLEAN,
         \/ connects' = [connects EXCEPT ![n].awaits = awaits]
         \/ connects' = [connects EXCEPT ![n].listening = listening]
         \/ connects' = [connects EXCEPT ![n].awaits = awaits, ![n].listening = listening]
  PROVE  /\ Calls(connects', Connect) /\ DOMAIN connects' = DOMAIN connects
         /\ \A m \in DOMAIN connects : /\ connects'[m].provider = connects[m].provider
                                       /\ connects'[m].era = connects[m].era
<1>1. PICK k \in Nat : connects \in [1..k -> Connect]
  BY DEF Shape, Calls
<1>2. connects' \in [1..k -> Connect]
  <2> DEFINE x == connects[n]
  <2>1. n \in 1..k /\ x \in Connect
    BY <1>1
  <2>2. /\ [x EXCEPT !.awaits = awaits] \in Connect
        /\ [x EXCEPT !.listening = listening] \in Connect
        /\ [x EXCEPT !.awaits = awaits, !.listening = listening] \in Connect
    BY <2>1 DEF Connect
  <2>3. \/ connects' = [connects EXCEPT ![n] = [x EXCEPT !.awaits = awaits]]
        \/ connects' = [connects EXCEPT ![n] = [x EXCEPT !.listening = listening]]
        \/ connects' =
             [connects EXCEPT ![n] = [x EXCEPT !.awaits = awaits, !.listening = listening]]
    OBVIOUS
  <2> HIDE DEF x
  <2> QED
    BY <1>1, <2>1, <2>2, <2>3
<1>3. \A m \in DOMAIN connects : /\ connects'[m].provider = connects[m].provider
                                 /\ connects'[m].era = connects[m].era
  BY <1>1 DEF Connect
<1> QED
  BY <1>1, <1>2, <1>3 DEF Calls

(* catch and finally of runConnect. *)
LEMMA ConnectFailsKeeps ==
  ASSUME AuthInv, NEW n \in DOMAIN connects, ConnectFails(n),
         UNCHANGED <<operation, operations, disconnecting, refreshes, era, refused>>
  PROVE  AuthInv'
<1>1. connects' = [connects EXCEPT ![n].awaits = "end"] /\ "end" \in ConnectAwaits
  BY DEF ConnectFails, ConnectGoes, ConnectAwaits
<1>2. activeAttempt' \in {0, activeAttempt} /\ UNCHANGED <<store, tokens>>
  BY DEF ConnectFails
<1> QED
  BY <1>1, <1>2, CallChanges, CallGoesOn DEF AuthInv

(* The listener is made, the browser opened, the callback there or overdue.     *)
LEMMA WaitingKeeps ==
  ASSUME AuthInv, NEW n \in DOMAIN connects,
         ListenerMade(n) \/ BrowserOpened(n) \/ CallbackComes(n) \/ ListenerTimesOut(n)
  PROVE  AuthInv'
<1>1. UNCHANGED <<operation, operations, disconnecting, refreshes, era, refused>>
  BY DEF ListenerMade, BrowserOpened, CallbackComes, ListenerTimesOut
<1>2. CASE ConnectFails(n)
  BY <1>1, <1>2, ConnectFailsKeeps
<1>3. CASE /\ ~ConnectFails(n)
  <2>1. UNCHANGED <<store, tokens, activeAttempt>>
    BY <1>3 DEF ListenerMade, BrowserOpened, CallbackComes, ListenerTimesOut
  <2>2. \E awaits \in ConnectAwaits, listening \in BOOLEAN :
          \/ connects' = [connects EXCEPT ![n].awaits = awaits]
          \/ connects' = [connects EXCEPT ![n].listening = listening]
          \/ connects' = [connects EXCEPT ![n].awaits = awaits, ![n].listening = listening]
    <3>1. {"browser", "callback", "token", "end"} \subseteq ConnectAwaits
      BY DEF ConnectAwaits
    <3> QED
      BY <1>3, <3>1 DEF ListenerMade, BrowserOpened, CallbackComes, ListenerTimesOut, ConnectGoes
  <2> QED
    BY <1>1, <2>1, <2>2, CallChanges, CallGoesOn DEF AuthInv
<1> QED
  BY <1>2, <1>3

(* The token of the active attempt is stored: the attempt began after the last  *)
(* disconnect. What comes for another is thrown away.                           *)
LEMMA TokenComesKeeps ==
  ASSUME AuthInv, NEW n \in DOMAIN connects, TokenComes(n)
  PROVE  AuthInv'
<1> USE DEF AuthInv
<1> DEFINE p == connects[n].provider
<1>1. UNCHANGED <<operation, operations, disconnecting, refreshes, era, refused>>
  BY DEF TokenComes
<1>2. CASE ConnectFails(n)
  BY <1>1, <1>2, ConnectFailsKeeps
<1>3. CASE ~ConnectFails(n)
  <2>1. connects' = [connects EXCEPT ![n].awaits = "end"]
    BY <1>3 DEF TokenComes, ConnectGoes
  <2>2. /\ Calls(connects', Connect) /\ DOMAIN connects' = DOMAIN connects
        /\ \A m \in DOMAIN connects : /\ connects'[m].provider = connects[m].provider
                                      /\ connects'[m].era = connects[m].era
    <3>1. "end" \in ConnectAwaits /\ FALSE \in BOOLEAN
      BY DEF ConnectAwaits
    <3> QED
      BY <2>1, <3>1, CallChanges
  <2>3. CASE ~MayKeep(n)
    <3>1. UNCHANGED <<store, tokens, activeAttempt>>
      BY <1>3, <2>3 DEF TokenComes
    <3> QED
      BY <1>1, <2>2, <3>1, CallGoesOn
  <2>4. CASE MayKeep(n)
    <3>1. PICK person \in People :
            LET c == [person |-> person, era |-> connects[n].era]
            IN /\ store' = [store EXCEPT ![p] = c] /\ tokens' = [tokens EXCEPT ![p] = c]
               /\ activeAttempt' = 0
      BY <1>3, <2>4 DEF TokenComes, MayKeep, IsCurrent
    <3>2. n = activeAttempt /\ n # 0 /\ p \in Providers
      <4>1. PICK k \in Nat : connects \in [1..k -> Connect]
        BY DEF Shape, Calls
      <4> QED
        BY <2>4, <4>1 DEF MayKeep, IsCurrent, Connect
    <3>3. p \notin disconnecting /\ connects[n].era = era[p] /\ era[p] \in 0..MaxDisconnects
      BY <3>2 DEF AttemptIsNew, Shape
    <3>4. [person |-> person, era |-> connects[n].era] \in Entries
      BY <3>3 DEF Entries, Credentials
    <3>5. Shape'
      BY <1>1, <2>2, <3>1, <3>2, <3>4 DEF Shape
    <3>6. IdsGiven' /\ AttemptIsNew' /\ RefreshIsNew'
      BY <1>1, <3>1 DEF IdsGiven, AttemptIsNew, RefreshIsNew, Holds
    <3>7. DisconnectsAreFinal'
      BY <1>1, <3>1, <3>2, <3>3 DEF DisconnectsAreFinal, Shape
    <3> QED
      BY <3>5, <3>6, <3>7
  <2> QED
    BY <2>3, <2>4
<1> QED
  BY <1>2, <1>3

(* The listener of the active attempt closes, and no attempt is active.         *)
LEMMA CancelledCalls ==
  ASSUME Shape, ListenerCancelled
  PROVE  /\ Calls(connects', Connect) /\ DOMAIN connects' = DOMAIN connects
         /\ \A n \in DOMAIN connects : /\ connects'[n].provider = connects[n].provider
                                       /\ connects'[n].era = connects[n].era
<1>1. PICK k \in Nat : connects \in [1..k -> Connect]
  BY DEF Shape, Calls
<1>2. connects' \in [1..k -> Connect]
  BY <1>1 DEF ListenerCancelled, Connect
<1>3. \A n \in DOMAIN connects : /\ connects'[n].provider = connects[n].provider
                                 /\ connects'[n].era = connects[n].era
  BY <1>1 DEF ListenerCancelled, Connect
<1> QED
  BY <1>1, <1>2, <1>3 DEF Calls

(* cancel keeps the invariant: no attempt is active any more.                   *)
LEMMA CancelKeeps ==
  ASSUME AuthInv, Cancel
  PROVE  AuthInv'
<1>1. /\ UNCHANGED <<store, tokens, operation, operations, disconnecting, refreshes, era, refused>>
      /\ activeAttempt' = 0 /\ ListenerCancelled
  BY DEF Cancel
<1> QED
  BY <1>1, CancelledCalls, CallGoesOn DEF AuthInv

(* A new operation id of a provider is nobody's, and the other providers keep   *)
(* theirs.                                                                      *)
LEMMA InvalidatedIds ==
  ASSUME Shape, IdsGiven, NEW p \in Providers, Invalidated(p)
  PROVE  /\ operation' \in [Providers -> Nat] /\ operations' \in Nat
         /\ operations' = operations + 1 /\ operation'[p] = operations'
         /\ \A q \in Providers : /\ q # p => operation'[q] = operation[q]
                                 /\ operation'[q] <= operations'
         /\ \A r \in DOMAIN refreshes : /\ refreshes[r].operation # operation'[p]
                                        /\ refreshes[r].operation <= operations'
<1>1. /\ operations' = operations + 1 /\ operation' = [operation EXCEPT ![p] = operations']
      /\ operations \in Nat /\ operation \in [Providers -> Nat]
  BY DEF Invalidated, Shape
<1>2. \A r \in DOMAIN refreshes : refreshes[r].operation \in Nat
  BY DEF Shape, Calls, Refresh
<1> QED
  BY <1>1, <1>2 DEF IdsGiven

(* What a refresh knows: its provider is one. *)
LEMMA RefreshShape ==
  ASSUME Shape, NEW r \in DOMAIN refreshes
  PROVE  /\ refreshes[r].provider \in Providers /\ refreshes[r].operation \in Nat
         /\ refreshes[r].loaded \in Credentials
  BY DEF Shape, Calls, Refresh

(* disconnect, to its request: nothing that is under way is new any more.       *)
LEMMA DisconnectKeeps ==
  ASSUME AuthInv, NEW p \in Providers, Disconnect(p)
  PROVE  AuthInv'
<1> USE DEF AuthInv
<1>1. /\ Invalidated(p) /\ activeAttempt' = 0 /\ ListenerCancelled
      /\ tokens' = [tokens EXCEPT ![p] = NoCredential]
      /\ era' = [era EXCEPT ![p] = @ + 1] /\ era[p] < MaxDisconnects
      /\ UNCHANGED <<store, refreshes>>
  BY DEF Disconnect
<1>2. /\ disconnecting' = IF Unreadable \/ store[p] = NoCredential THEN disconnecting
                          ELSE disconnecting \cup {p}
      /\ refused' = IF Unreadable THEN refused \cup {p} ELSE refused \ {p}
  BY DEF Disconnect
<1>3. \A q \in Providers : q # p => era'[q] = era[q] /\ tokens'[q] = tokens[q]
  BY <1>1 DEF Shape
<1>4. tokens'[p] = NoCredential
  BY <1>1 DEF Shape
<1>5. Shape'
  <2>1. NoCredential \in Entries /\ era[p] + 1 \in 0..MaxDisconnects
    BY <1>1, AuthorizationAssumption DEF Shape, Entries
  <2>2. era' \in [Providers -> 0..MaxDisconnects] /\ tokens' \in [Providers -> Entries]
    BY <1>1, <2>1 DEF Shape
  <2>3. Calls(connects', Connect)
    BY <1>1, CancelledCalls
  <2> QED
    BY <1>1, <2>2, <2>3, InvalidatedIds DEF Shape
<1>6. IdsGiven' /\ AttemptIsNew'
  BY <1>1, InvalidatedIds DEF IdsGiven, AttemptIsNew
<1>7. RefreshIsNew'
  <2> SUFFICES ASSUME NEW r \in DOMAIN refreshes,
                      LET q == refreshes[r].provider
                      IN refreshes[r].operation = operation'[q] /\ q \notin disconnecting' \cup refused'
               PROVE  Holds(refreshes[r].loaded, refreshes[r].provider)'
    BY <1>1 DEF RefreshIsNew
  <2>1. refreshes[r].provider \in Providers
    BY RefreshShape
  <2>2. refreshes[r].provider # p
    BY <1>1, InvalidatedIds
  <2>3. operation'[refreshes[r].provider] = operation[refreshes[r].provider]
    BY <1>1, <2>1, <2>2, InvalidatedIds
  <2>4. refreshes[r].provider \notin disconnecting \cup refused
    BY <1>2, <2>2
  <2> QED
    BY <1>1, <1>3, <2>1, <2>2, <2>3, <2>4 DEF RefreshIsNew, Holds
<1>8. DisconnectsAreFinal'
  <2> SUFFICES ASSUME NEW q \in Providers
               PROVE  /\ q \in disconnecting' => tokens'[q] = NoCredential
                      /\ q \notin disconnecting' \cup refused' =>
                           \A c \in {store'[q], tokens'[q]} : c = NoCredential \/ c.era = era'[q]
    BY DEF DisconnectsAreFinal
  <2>1. CASE q = p
    BY <1>1, <1>2, <1>4, <2>1
  <2>2. CASE q # p
    BY <1>1, <1>2, <1>3, <2>2 DEF DisconnectsAreFinal
  <2> QED
    BY <2>1, <2>2
<1> QED
  BY <1>5, <1>6, <1>7, <1>8

(* The end of disconnect: the credential is gone, or the user was told.         *)
LEMMA EndDisconnectKeeps ==
  ASSUME AuthInv, NEW p \in Providers, EndDisconnect(p)
  PROVE  AuthInv'
<1> USE DEF AuthInv
<1>1. /\ p \in disconnecting /\ disconnecting' = disconnecting \ {p}
      /\ Invalidated(p) /\ tokens' = [tokens EXCEPT ![p] = NoCredential]
      /\ UNCHANGED <<activeAttempt, connects, refreshes, era>>
  BY DEF EndDisconnect
<1>2. \/ refused' = refused \cup {p} /\ store' = store
      \/ store' = [store EXCEPT ![p] = NoCredential] /\ refused' = refused
  BY DEF EndDisconnect
<1>3. \A q \in Providers : q # p => store'[q] = store[q] /\ tokens'[q] = tokens[q]
  BY <1>1, <1>2 DEF Shape
<1>4. tokens'[p] = NoCredential /\ (p \notin refused' => store'[p] = NoCredential)
  BY <1>1, <1>2 DEF Shape
<1>5. Shape'
  <2>1. tokens' \in [Providers -> Entries] /\ store' \in [Providers -> Entries]
    BY <1>1, <1>2 DEF Shape, Entries
  <2> QED
    BY <1>1, <2>1, InvalidatedIds DEF Shape
<1>6. IdsGiven' /\ AttemptIsNew'
  BY <1>1, InvalidatedIds DEF IdsGiven, AttemptIsNew
<1>7. RefreshIsNew'
  <2> SUFFICES ASSUME NEW r \in DOMAIN refreshes,
                      LET q == refreshes[r].provider
                      IN refreshes[r].operation = operation'[q] /\ q \notin disconnecting' \cup refused'
               PROVE  Holds(refreshes[r].loaded, refreshes[r].provider)'
    BY <1>1 DEF RefreshIsNew
  <2>1. refreshes[r].provider \in Providers
    BY RefreshShape
  <2>2. refreshes[r].provider # p
    BY <1>1, InvalidatedIds
  <2>3. operation'[refreshes[r].provider] = operation[refreshes[r].provider]
    BY <1>1, <2>1, <2>2, InvalidatedIds
  <2>4. refreshes[r].provider \notin disconnecting \cup refused
    BY <1>1, <1>2, <2>2
  <2> QED
    BY <1>1, <2>3, <2>4 DEF RefreshIsNew, Holds
<1>8. DisconnectsAreFinal'
  <2> SUFFICES ASSUME NEW q \in Providers
               PROVE  /\ q \in disconnecting' => tokens'[q] = NoCredential
                      /\ q \notin disconnecting' \cup refused' =>
                           \A c \in {store'[q], tokens'[q]} : c = NoCredential \/ c.era = era'[q]
    BY DEF DisconnectsAreFinal
  <2>1. CASE q = p
    BY <1>4, <2>1
  <2>2. CASE q # p
    BY <1>1, <1>2, <1>3, <2>2 DEF DisconnectsAreFinal
  <2> QED
    BY <2>1, <2>2
<1> QED
  BY <1>5, <1>6, <1>7, <1>8

(* A refresh reads the store under the operation id the provider then has.      *)
LEMMA StartRefreshKeeps ==
  ASSUME AuthInv, NEW p \in Providers, StartRefresh(p)
  PROVE  AuthInv'
<1> USE DEF AuthInv
<1> DEFINE call == [waits |-> TRUE, provider |-> p, operation |-> operation'[p], loaded |-> store[p]]
<1>1. /\ p \notin disconnecting /\ store[p] # NoCredential
      /\ Invalidated(p) \/ UNCHANGED <<operation, operations>>
      /\ refreshes' = Added(refreshes, call)
      /\ UNCHANGED <<store, tokens, disconnecting, activeAttempt, connects, era, refused>>
  BY DEF StartRefresh
<1>2. /\ operation' \in [Providers -> Nat] /\ operations' \in Nat
      /\ \A q \in Providers : operation'[q] <= operations' /\ (q # p => operation'[q] = operation[q])
      /\ \A r \in DOMAIN refreshes :
           /\ refreshes[r].operation <= operations'
           /\ refreshes[r].operation = operation'[p] => operation'[p] = operation[p]
  <2>1. CASE Invalidated(p)
    BY <2>1, InvalidatedIds
  <2>2. CASE UNCHANGED <<operation, operations>>
    BY <2>2 DEF Shape, IdsGiven
  <2> QED
    BY <1>1, <2>1, <2>2
<1>3. call \in Refresh
  <2>1. operation'[p] \in Nat
    BY <1>2
  <2>2. store[p] \in Credentials
    BY <1>1 DEF Shape, Entries
  <2> QED
    BY <2>1, <2>2 DEF Refresh
<1>4. call.provider = p /\ call.operation = operation'[p] /\ call.loaded = store[p]
  OBVIOUS
<1> HIDE DEF call
<1>5. /\ Calls(refreshes', Refresh)
      /\ DOMAIN refreshes' = DOMAIN refreshes \cup {Last(refreshes) + 1}
      /\ \A r \in DOMAIN refreshes : refreshes'[r] = refreshes[r]
      /\ refreshes'[Last(refreshes) + 1] = call
  <2>1. Calls(refreshes, Refresh)
    BY DEF Shape
  <2>2. Calls(Added(refreshes, call), Refresh)
    BY <2>1, <1>3, AddedCall
  <2>3. DOMAIN Added(refreshes, call) = DOMAIN refreshes \cup {Last(refreshes) + 1}
    BY <2>1, <1>3, AddedCall
  <2>4. \A r \in DOMAIN refreshes : Added(refreshes, call)[r] = refreshes[r]
    <3>1. DOMAIN Added(refreshes, call) = 1..Last(refreshes) + 1
      BY DEF Added
    <3> QED
      BY <2>3, <3>1 DEF Added
  <2>5. Last(refreshes) \in Nat /\ Last(refreshes) + 1 \notin DOMAIN refreshes
    BY <2>1, <1>3, AddedCall
  <2>6. Added(refreshes, call)[Last(refreshes) + 1] = call
    BY <2>5 DEF Added
  <2> QED
    BY <1>1, <2>2, <2>3, <2>4, <2>6
<1>6. Shape'
  BY <1>1, <1>2, <1>5 DEF Shape
<1>7. IdsGiven' /\ AttemptIsNew' /\ DisconnectsAreFinal'
  <2>1. IdsGiven'
    <3>1. call.operation <= operations'
      BY <1>2, <1>4
    <3> QED
      BY <1>2, <1>5, <3>1 DEF IdsGiven
  <2> QED
    BY <1>1, <2>1 DEF AttemptIsNew, DisconnectsAreFinal
<1>8. RefreshIsNew'
  <2> SUFFICES ASSUME NEW r \in DOMAIN refreshes',
                      LET q == refreshes'[r].provider
                      IN refreshes'[r].operation = operation'[q] /\ q \notin disconnecting \cup refused
               PROVE  LET q == refreshes'[r].provider
                      IN refreshes'[r].loaded = NoCredential \/ refreshes'[r].loaded.era = era[q]
    BY <1>1 DEF RefreshIsNew, Holds
  <2>1. CASE r \in DOMAIN refreshes
    <3>1. refreshes'[r] = refreshes[r] /\ refreshes[r].provider \in Providers
      BY <1>5, <2>1, RefreshShape
    <3>2. refreshes[r].operation = operation[refreshes[r].provider]
      BY <1>2, <2>1, <3>1
    <3> QED
      BY <2>1, <3>1, <3>2 DEF RefreshIsNew, Holds
  <2>2. CASE r = Last(refreshes) + 1
    <3>1. refreshes'[r].provider = p /\ refreshes'[r].loaded = store[p]
      BY <1>4, <1>5, <2>2
    <3> QED
      BY <3>1 DEF DisconnectsAreFinal
  <2> QED
    BY <1>5, <2>1, <2>2
<1> QED
  BY <1>6, <1>7, <1>8

(* The answer to a refresh is kept when it is current, so what it loaded is of  *)
(* the provider's era.                                                          *)
LEMMA RefreshEndsKeeps ==
  ASSUME AuthInv, NEW r \in DOMAIN refreshes, RefreshEnds(r)
  PROVE  AuthInv'
<1> USE DEF AuthInv
<1> DEFINE p == refreshes[r].provider
           c == refreshes[r].loaded
<1>1. /\ refreshes' = [refreshes EXCEPT ![r].waits = FALSE]
      /\ UNCHANGED <<operation, operations, disconnecting, activeAttempt, connects, era, refused>>
  BY DEF RefreshEnds
<1>2. p \in Providers /\ c \in Credentials
  BY RefreshShape
<1>3. \/ tokens' = [tokens EXCEPT ![p] = NoCredential] /\ store' = store
      \/ /\ IsCurrentRefresh(r) /\ tokens' = [tokens EXCEPT ![p] = c]
         /\ store' = store \/ store' = [store EXCEPT ![p] = c]
  BY DEF RefreshEnds
<1>4. /\ Calls(refreshes', Refresh) /\ DOMAIN refreshes' = DOMAIN refreshes
      /\ \A s \in DOMAIN refreshes : /\ refreshes'[s].provider = refreshes[s].provider
                                     /\ refreshes'[s].operation = refreshes[s].operation
                                     /\ refreshes'[s].loaded = refreshes[s].loaded
  <2>1. PICK k \in Nat : refreshes \in [1..k -> Refresh]
    BY DEF Shape, Calls
  <2>2. refreshes' \in [1..k -> Refresh]
    BY <1>1, <2>1 DEF Refresh
  <2>3. \A s \in DOMAIN refreshes : /\ refreshes'[s].provider = refreshes[s].provider
                                    /\ refreshes'[s].operation = refreshes[s].operation
                                    /\ refreshes'[s].loaded = refreshes[s].loaded
    BY <1>1, <2>1 DEF Refresh
  <2> QED
    BY <2>1, <2>2, <2>3 DEF Calls
<1>5. Shape'
  <2>1. tokens' \in [Providers -> Entries] /\ store' \in [Providers -> Entries]
    BY <1>2, <1>3 DEF Shape, Entries
  <2> QED
    BY <1>1, <1>4, <2>1 DEF Shape
<1>6. IdsGiven' /\ AttemptIsNew' /\ RefreshIsNew'
  BY <1>1, <1>4 DEF IdsGiven, AttemptIsNew, RefreshIsNew, Holds
<1>7. DisconnectsAreFinal'
  <2> SUFFICES ASSUME NEW q \in Providers
               PROVE  /\ q \in disconnecting => tokens'[q] = NoCredential
                      /\ q \notin disconnecting \cup refused =>
                           \A d \in {store'[q], tokens'[q]} : d = NoCredential \/ d.era = era[q]
    BY <1>1 DEF DisconnectsAreFinal
  <2>1. CASE q # p
    <3>1. store'[q] = store[q] /\ tokens'[q] = tokens[q]
      BY <1>2, <1>3, <2>1 DEF Shape
    <3> QED
      BY <3>1 DEF DisconnectsAreFinal
  <2>2. CASE q = p
    <3>1. CASE tokens' = [tokens EXCEPT ![p] = NoCredential] /\ store' = store
      BY <1>2, <2>2, <3>1 DEF DisconnectsAreFinal, Shape
    <3>2. CASE /\ IsCurrentRefresh(r) /\ tokens' = [tokens EXCEPT ![p] = c]
               /\ store' = store \/ store' = [store EXCEPT ![p] = c]
      <4>1. p \notin disconnecting /\ refreshes[r].operation = operation[p]
        BY <3>2 DEF IsCurrentRefresh
      <4>2. p \notin refused => c = NoCredential \/ c.era = era[p]
        BY <4>1 DEF RefreshIsNew, Holds
      <4>3. tokens'[p] = c /\ (store'[p] = store[p] \/ store'[p] = c)
        BY <1>2, <3>2 DEF Shape
      <4> QED
        BY <2>2, <4>1, <4>2, <4>3 DEF DisconnectsAreFinal
    <3> QED
      BY <1>3, <3>1, <3>2
  <2> QED
    BY <2>1, <2>2
<1> QED
  BY <1>5, <1>6, <1>7

(* A token expires; the storage is locked or unlocked.                          *)
LEMMA ExpiresKeeps ==
  ASSUME AuthInv, NEW p \in Providers, Expires(p)
  PROVE  AuthInv'
<1> USE DEF AuthInv
<1>1. /\ tokens' = [tokens EXCEPT ![p] = NoCredential]
      /\ UNCHANGED <<store, operation, operations, disconnecting, activeAttempt, connects,
                     refreshes, era, refused>>
  BY DEF Expires
<1>2. Shape'
  BY <1>1 DEF Shape, Entries
<1>3. IdsGiven' /\ AttemptIsNew' /\ RefreshIsNew' /\ DisconnectsAreFinal'
  BY <1>1 DEF Shape, IdsGiven, AttemptIsNew, RefreshIsNew, Holds, DisconnectsAreFinal
<1> QED
  BY <1>2, <1>3

(* Locking the secure storage of the system touches nothing the invariant reads. *)
LEMMA LockKeeps ==
  ASSUME AuthInv, Lock \/ UNCHANGED authVars
  PROVE  AuthInv'
<1>1. UNCHANGED <<store, tokens, operation, operations, disconnecting, activeAttempt, connects,
                  refreshes, era, refused>>
  BY DEF Lock, authVars
<1> QED
  BY <1>1 DEF AuthInv, Shape, IdsGiven, AttemptIsNew, RefreshIsNew, Holds, DisconnectsAreFinal

-----------------------------------------------------------------------------
(* The invariant holds in every reachable state. *)
THEOREM AuthInvariance == AuthSpec => []AuthInv
<1>1. AuthInv /\ [AuthNext]_authVars => AuthInv'
  <2> SUFFICES ASSUME AuthInv, [AuthNext]_authVars PROVE AuthInv'
    OBVIOUS
  <2>1. CASE \E p \in Providers : \/ StartConnect(p) \/ Disconnect(p) \/ EndDisconnect(p)
                                  \/ StartRefresh(p) \/ Expires(p)
    BY <2>1, StartConnectKeeps, DisconnectKeeps, EndDisconnectKeeps, StartRefreshKeeps, ExpiresKeeps
  <2>2. CASE \E n \in DOMAIN connects : \/ ListenerMade(n) \/ BrowserOpened(n) \/ CallbackComes(n)
                                        \/ ListenerTimesOut(n) \/ TokenComes(n)
    BY <2>2, WaitingKeeps, TokenComesKeeps
  <2>3. CASE \E r \in DOMAIN refreshes : RefreshEnds(r)
    BY <2>3, RefreshEndsKeeps
  <2>4. CASE Cancel
    BY <2>4, CancelKeeps
  <2>5. CASE Lock \/ UNCHANGED authVars
    BY <2>5, LockKeeps
  <2> QED
    BY <2>1, <2>2, <2>3, <2>4, <2>5 DEF AuthNext
<1> QED
  BY <1>1, InitAuthInv, PTL DEF AuthSpec

(* What the invariant does not say of flags and of the public state.            *)
AuthFlags ==
  /\ locked \in BOOLEAN /\ account.status \in Statuses
  /\ disconnecting \subseteq Providers /\ refused \subseteq Providers

(* Every operation leaves flags and the public state what they are.             *)
LEMMA FlagsKept ==
  ASSUME AuthFlags, AuthInv, [AuthNext]_authVars
  PROVE  AuthFlags'
<1> USE DEF AuthFlags, Statuses, Disconnected
<1>1. ASSUME NEW p \in Providers, StartConnect(p) \/ StartRefresh(p) \/ Expires(p)
      PROVE  AuthFlags'
  BY <1>1 DEF StartConnect, StartRefresh, Expires
<1>2. ASSUME NEW p \in Providers, Disconnect(p)
      PROVE  AuthFlags'
  BY <1>2 DEF Disconnect
<1>3. ASSUME NEW p \in Providers, EndDisconnect(p)
      PROVE  AuthFlags'
  BY <1>3 DEF EndDisconnect
<1>4. ASSUME NEW n, \/ ListenerMade(n) \/ BrowserOpened(n) \/ CallbackComes(n)
                    \/ ListenerTimesOut(n) \/ TokenComes(n)
      PROVE  AuthFlags'
  <2>1. UNCHANGED <<locked, disconnecting, refused>>
    BY <1>4 DEF ListenerMade, BrowserOpened, CallbackComes, ListenerTimesOut, TokenComes
  <2>2. CASE ConnectFails(n)
    BY <2>1, <2>2 DEF ConnectFails
  <2>3. CASE UNCHANGED account
    BY <2>1, <2>3
  <2>4. CASE \E person \in People : account' = [status |-> "connected", person |-> person]
    BY <2>1, <2>4
  <2> QED
    BY <1>4, <2>2, <2>3, <2>4 DEF ListenerMade, BrowserOpened, CallbackComes, ListenerTimesOut, TokenComes
<1>5. ASSUME NEW r, RefreshEnds(r)
      PROVE  AuthFlags'
  BY <1>5 DEF RefreshEnds
<1>6. CASE Cancel \/ Lock \/ UNCHANGED authVars
  <2>1. locked' \in BOOLEAN
    BY <1>6 DEF Cancel, Lock, authVars
  <2>2. UNCHANGED <<disconnecting, refused>> /\ account' \in {Disconnected, account}
    BY <1>6 DEF Cancel, Lock, authVars
  <2> QED
    BY <2>1, <2>2
<1> QED
  BY <1>1, <1>2, <1>3, <1>4, <1>5, <1>6 DEF AuthNext

(* Credentials, calls, identifiers and the public state keep their types; the   *)
(* active attempt is one of the calls of runConnect.                            *)
THEOREM AuthTypeCorrect == AuthSpec => []AuthTypeOK
<1>1. AuthInit => AuthFlags
  <2> SUFFICES ASSUME AuthInit PROVE AuthFlags
    OBVIOUS
  <2>1. locked \in BOOLEAN
    BY DEF AuthInit
  <2>2. account.status \in Statuses /\ disconnecting = {} /\ refused = {}
    BY DEF AuthInit, Statuses, Disconnected
  <2> QED
    BY <2>1, <2>2 DEF AuthFlags
<1>2. AuthInv /\ AuthFlags => AuthTypeOK
  <2> SUFFICES ASSUME AuthInv, AuthFlags PROVE AuthTypeOK
    OBVIOUS
  <2> USE DEF AuthInv, Shape
  <2>1. \A p \in Providers : /\ store[p] = NoCredential \/ store[p] \in Credentials
                             /\ tokens[p] = NoCredential \/ tokens[p] \in Credentials
    BY DEF Entries
  <2>2. operation \in [Providers -> 0..operations]
    BY DEF IdsGiven
  <2>3. PICK k \in Nat : connects \in [1..k -> Connect]
    BY DEF Calls
  <2>4. Cardinality(DOMAIN connects) = k
    BY <2>3, FS_Interval
  <2>5. activeAttempt \in 0..Cardinality(DOMAIN connects)
    BY <2>3, <2>4 DEF AttemptIsNew
  <2>6. \A r \in DOMAIN refreshes : refreshes[r] \in Refresh
    BY DEF Calls
  <2> QED
    BY <2>1, <2>2, <2>3, <2>5, <2>6 DEF AuthTypeOK, AuthFlags
<1> QED
  BY <1>1, <1>2, FlagsKept, AuthInvariance, PTL DEF AuthSpec

(* When a disconnect has returned, nothing of the account is left and nothing   *)
(* that was under way (a connect, a refresh of a token) brings it back.         *)
THEOREM DisconnectedForGood == AuthSpec => []DisconnectsAreFinal
<1>1. AuthInv => DisconnectsAreFinal
  BY DEF AuthInv
<1> QED
  BY <1>1, AuthInvariance, PTL

-----------------------------------------------------------------------------
(* What the updater offers is what it has, however often it checks: the theorem *)
(* behind the property of Updater. Two things rule each other out, a check and  *)
(* a download. The service alone does not see to that: a check is asked for     *)
(* from a page that may be behind, and it is the order of the messages to the   *)
(* page that keeps a page which offers a check from outliving the start of a    *)
(* download (DownloadShows).                                                    *)

(* A check runs while the service is idle, failed before, or says so, and for   *)
(* the preference the user has, unless another check follows it.                *)
CheckShows ==
  check # NoCheck =>
    /\ service.kind \in {"idle", "error", "checking"}
    /\ ~waiting => check.beta = prerelease

(* A download is of the update last found; the service and the page show it.    *)
DownloadShows ==
  /\ service.kind = "available" => service.known # "none"
  /\ download # "none" =>
       /\ service.downloading /\ download = service.known
       /\ service.kind \in {"available", "downloading"}
       /\ page \in {"available", "downloading"}

UpdaterInv == UpdaterTypeOK /\ CheckShows /\ DownloadShows /\ OffersHold

-----------------------------------------------------------------------------
(* The service *)

(* executeCheckForUpdates, when nothing is downloaded.                          *)
LEMMA RunCheckKeeps ==
  ASSUME UpdaterInv, NEW s \in Service, NEW mode \in {"manual", "silent"},
         RunCheck(s, mode), ~s.downloading, download = "none", checks < MaxChecks,
         mode = "silent" => s.kind \in {"idle", "error"},
         prerelease' \in BOOLEAN, waiting' \in BOOLEAN, UNCHANGED <<download, fetched, page>>
  PROVE  UpdaterInv'
<1>1. /\ service' \in Service /\ ~service'.downloading
      /\ service'.kind \in {"idle", "error", "checking"}
      /\ service'.kind = "checking" => mode = "manual"
  <2>1. CASE mode = "manual"
    BY <2>1 DEF RunCheck, Shows, Service, Releases, UpdaterKinds, Modes
  <2>2. CASE mode = "silent"
    BY <2>2 DEF RunCheck, Service, Modes
  <2> QED
    BY <2>1, <2>2
<1>2. /\ check' = [mode |-> mode, beta |-> prerelease'] /\ checks' \in 0..MaxChecks
      /\ check' \in [mode : Modes, beta : BOOLEAN]
  BY UpdaterAssumption DEF RunCheck, Modes, UpdaterInv, UpdaterTypeOK
<1>3. UpdaterTypeOK'
  BY <1>1, <1>2 DEF UpdaterInv, UpdaterTypeOK
<1>4. CheckShows' /\ DownloadShows'
  BY <1>1, <1>2 DEF CheckShows, DownloadShows
<1>5. OffersHold'
  BY <1>1, <1>2 DEF OffersHold
<1> QED
  BY <1>3, <1>4, <1>5 DEF UpdaterInv

LEMMA ChecksKeep ==
  ASSUME UpdaterInv, BackgroundCheck \/ CheckForUpdates
  PROVE  UpdaterInv'
<1>1. download = "none" /\ ~service.downloading /\ service \in Service
  BY DEF BackgroundCheck, CheckForUpdates, Offers, UpdaterInv, UpdaterTypeOK, DownloadShows,
         OffersHold
<1>2. /\ checks < MaxChecks /\ UNCHANGED <<prerelease, waiting, download, fetched, page>>
      /\ prerelease' \in BOOLEAN /\ waiting' \in BOOLEAN
  BY UpdaterAssumption
  DEF BackgroundCheck, CheckForUpdates, MayCheck, UpdaterInv, UpdaterTypeOK
<1>3. CASE BackgroundCheck
  BY <1>1, <1>2, <1>3, RunCheckKeeps DEF BackgroundCheck
<1>4. CASE CheckForUpdates
  BY <1>1, <1>2, <1>4, RunCheckKeeps DEF CheckForUpdates
<1> QED
  BY <1>3, <1>4

(* What a check leaves the service with.                                        *)
Settled(s, beta) ==
  /\ s \in Service /\ ~s.downloading /\ s.kind \in {"idle", "error", "available"}
  /\ s.kind = "available" => s.known # "none" /\ (s.update = "beta" => beta)

LEMMA SettledKeeps ==
  ASSUME UpdaterInv, check # NoCheck, NEW s, Settled(s, check.beta \/ prerelease),
         IF waiting THEN LookAnew(s) ELSE service' = s /\ check' = NoCheck /\ UNCHANGED checks,
         waiting' = FALSE, UNCHANGED <<prerelease, download, fetched, page>>
  PROVE  UpdaterInv'
<1>1. download = "none" /\ prerelease \in BOOLEAN /\ checks \in 0..MaxChecks
  BY DEF UpdaterInv, UpdaterTypeOK, OffersHold
<1>2. ASSUME service' = s, check' = NoCheck, UNCHANGED checks, waiting => checks = MaxChecks
      PROVE  UpdaterInv'
  <2>1. UpdaterTypeOK'
    BY <1>2 DEF UpdaterInv, UpdaterTypeOK, Settled, NoCheck, Modes
  <2>2. CheckShows' /\ DownloadShows'
    BY <1>1, <1>2 DEF CheckShows, DownloadShows, Settled
  <2>3. s.kind = "available" /\ s.update = "beta" /\ ~prerelease => checks = MaxChecks
    BY <1>2 DEF Settled, UpdaterInv, CheckShows
  <2>4. OffersHold'
    BY <1>1, <1>2, <2>3, UpdaterAssumption DEF OffersHold, Settled
  <2> QED
    BY <2>1, <2>2, <2>4 DEF UpdaterInv
<1>3. CASE ~waiting
  BY <1>2, <1>3
<1>4. CASE waiting /\ checks = MaxChecks
  BY <1>2, <1>4 DEF LookAnew
<1>5. CASE waiting /\ checks # MaxChecks
  <2>1. RunCheck(s, "manual")
    BY <1>5 DEF LookAnew, Settled
  <2>2. checks < MaxChecks
    BY <1>1, <1>5, UpdaterAssumption
  <2> QED
    BY <1>1, <2>1, <2>2, RunCheckKeeps DEF Settled
<1> QED
  BY <1>3, <1>4, <1>5

LEMMA CheckEndsKeeps ==
  ASSUME UpdaterInv, CheckEnds
  PROVE  UpdaterInv'
<1>1. /\ service \in Service /\ ~service.downloading
      /\ service.kind \in {"idle", "error", "checking"}
      /\ service.kind = "checking" => check.mode # "silent"
      /\ check # NoCheck /\ waiting' = FALSE
      /\ UNCHANGED <<prerelease, download, fetched, page>>
  BY DEF CheckEnds, UpdaterInv, UpdaterTypeOK, CheckShows, OffersHold
<1> DEFINE event(found, failed) ==
             IF failed THEN ErrorEvent(service)
             ELSE Shows([Finalized(service) EXCEPT !.known = found],
                        IF found = "none" THEN "idle" ELSE "available", found)
           settled(found, failed) ==
             IF ~failed THEN event(found, failed)
             ELSE IF check.mode = "silent" THEN Finalized(event(found, failed))
             ELSE ErrorState(event(found, failed))
<1>2. PICK found \in Releases, failed \in BOOLEAN :
        /\ found = "beta" => check.beta \/ prerelease
        /\ IF waiting THEN LookAnew(settled(found, failed))
           ELSE service' = settled(found, failed) /\ check' = NoCheck /\ UNCHANGED checks
  BY DEF CheckEnds
<1> DEFINE s == settled(found, failed)
<1>3. Settled(s, check.beta \/ prerelease)
  <2>1. CASE ~failed
    <3>1. s = Shows([Finalized(service) EXCEPT !.known = found],
                    IF found = "none" THEN "idle" ELSE "available", found)
      BY <2>1
    <3> HIDE DEF s
    <3> QED
      BY <1>1, <1>2, <3>1 DEF Settled, Shows, Finalized, Service, Modes, UpdaterKinds
  <2>2. CASE failed /\ check.mode = "silent"
    <3>1. s = Finalized(ErrorEvent(service))
      BY <2>2
    <3>2. service.kind \in {"idle", "error"}
      BY <1>1, <2>2
    <3> HIDE DEF s
    <3> QED
      BY <1>1, <3>1, <3>2
      DEF Settled, ErrorEvent, ErrorState, Shows, Finalized, Service, Modes, UpdaterKinds
  <2>3. CASE failed /\ check.mode # "silent"
    <3>1. s = ErrorState(ErrorEvent(service))
      BY <2>3
    <3> HIDE DEF s
    <3> QED
      BY <1>1, <3>1
      DEF Settled, ErrorEvent, ErrorState, Shows, Finalized, Service, Modes, UpdaterKinds
  <2> QED
    BY <2>1, <2>2, <2>3
<1> HIDE DEF s
<1>4. IF waiting THEN LookAnew(s) ELSE service' = s /\ check' = NoCheck /\ UNCHANGED checks
  BY <1>2 DEF s
<1> QED
  BY <1>1, <1>3, <1>4, SettledKeeps

(* What setErrorState and finalizeCheck leave of the service.                   *)
LEMMA Finalizing ==
  ASSUME NEW s \in Service
  PROVE  Finalized(s) \in Service
BY DEF Finalized, Service, Modes

LEMMA ErrorShows ==
  ASSUME NEW s \in Service
  PROVE  /\ ErrorState(s) \in Service
         /\ ErrorState(s).kind = "error" /\ ~ErrorState(s).downloading
<1> DEFINE t == [Finalized(s) EXCEPT !.downloading = FALSE]
<1>1. t \in Service /\ ~t.downloading
  BY Finalizing DEF Service
<1> QED
  BY <1>1 DEF ErrorState, Shows, Service, UpdaterKinds

LEMMA DownloadKeeps ==
  ASSUME UpdaterInv, Progress \/ DownloadEnds
  PROVE  UpdaterInv'
<1>1. /\ download # "none" /\ check = NoCheck /\ download = service.known
      /\ service \in Service /\ download \in Releases /\ service.downloading
      /\ page \in {"available", "downloading"}
  BY DEF Progress, DownloadEnds, UpdaterInv, UpdaterTypeOK, DownloadShows, OffersHold
<1>2. CASE Progress
  <2>1. /\ service' \in Service /\ service'.kind = "downloading" /\ service'.downloading
        /\ service'.known = download /\ service'.update = download
    BY <1>1, <1>2 DEF Progress, Shows, Service, UpdaterKinds
  <2> QED
    BY <1>1, <1>2, <2>1
    DEF Progress, UpdaterInv, UpdaterTypeOK, CheckShows, DownloadShows, OffersHold
<1>3. CASE DownloadEnds
  <2>1. /\ service' \in Service /\ ~service'.downloading /\ download' = "none"
        /\ fetched' \in Releases /\ UNCHANGED <<check, checks, prerelease, waiting, page>>
        /\ \/ service'.kind = "downloaded" /\ service'.update = fetched'
           \/ service'.kind = "error"
    <3> DEFINE d == [service EXCEPT !.downloading = FALSE, !.known = download]
    <3>1. CASE fetched' = download /\ service' = Shows(d, "downloaded", download)
      <4>1. d \in Service /\ ~d.downloading
        BY <1>1 DEF Service
      <4>2. Shows(d, "downloaded", download) \in Service
        BY <1>1, <4>1 DEF Shows, Service, UpdaterKinds
      <4> QED
        BY <1>1, <1>3, <3>1, <4>1, <4>2 DEF Shows, Service, DownloadEnds
    <3>2. CASE service' = ErrorState(ErrorEvent(service)) /\ UNCHANGED fetched
      <4>1. ErrorEvent(service) \in Service
        BY <1>1, ErrorShows, Finalizing DEF ErrorEvent
      <4> QED
        BY <1>3, <3>2, <4>1, ErrorShows DEF DownloadEnds, UpdaterInv, UpdaterTypeOK
    <3> QED
      BY <1>3, <3>1, <3>2 DEF DownloadEnds
  <2>2. UpdaterTypeOK'
    BY <2>1 DEF UpdaterInv, UpdaterTypeOK, Releases
  <2> QED
    BY <1>1, <2>1, <2>2 DEF UpdaterInv, CheckShows, DownloadShows, OffersHold
<1> QED
  BY <1>2, <1>3

-----------------------------------------------------------------------------
(* The settings page *)

LEMMA PageKeeps ==
  ASSUME UpdaterInv, Deliver \/ DownloadUpdate \/ InstallUpdate
  PROVE  UpdaterInv'
<1> USE DEF UpdaterInv
<1>1. CASE Deliver
  BY <1>1 DEF Deliver, UpdaterTypeOK, Service, CheckShows, DownloadShows, OffersHold
<1>2. CASE DownloadUpdate
  <2>1. /\ download = "none" /\ check = NoCheck /\ service.known \in Releases \ {"none"}
    BY <1>2 DEF DownloadUpdate, UpdaterTypeOK, Service, CheckShows, DownloadShows
  <2>2. /\ service' \in Service /\ service'.kind = "available" /\ service'.downloading
        /\ service'.known = service.known /\ download' = service.known
        /\ UNCHANGED <<check, fetched, checks, prerelease, waiting, page>> /\ page = "available"
    BY <1>2, <2>1 DEF DownloadUpdate, Offers, Service, UpdaterTypeOK
  <2> QED
    BY <2>1, <2>2 DEF UpdaterTypeOK, CheckShows, DownloadShows, OffersHold
<1>3. CASE InstallUpdate
  <2>1. /\ service' \in Service /\ service'.kind = "installing"
        /\ service'.update = service.update /\ service'.downloading = service.downloading
        /\ UNCHANGED <<check, download, fetched, checks, prerelease, waiting, page>>
        /\ service.kind = "downloaded"
    BY <1>3 DEF InstallUpdate, Shows, Service, UpdaterKinds, UpdaterTypeOK
  <2> QED
    BY <2>1 DEF UpdaterTypeOK, CheckShows, DownloadShows, OffersHold
<1> QED
  BY <1>1, <1>2, <1>3

LEMMA SetAllowPrereleaseKeeps ==
  ASSUME UpdaterInv, SetAllowPrerelease
  PROVE  UpdaterInv'
<1>1. /\ prerelease' \in BOOLEAN /\ waiting' \in BOOLEAN /\ service \in Service
      /\ checks \in 0..MaxChecks /\ UNCHANGED <<download, fetched, page>>
  BY DEF SetAllowPrerelease, UpdaterInv, UpdaterTypeOK
<1>2. CASE check # NoCheck
  <2>1. waiting' = TRUE /\ UNCHANGED <<service, check, checks>>
    BY <1>2 DEF SetAllowPrerelease, Waits
  <2> QED
    BY <1>1, <1>2, <2>1 DEF UpdaterInv, UpdaterTypeOK, CheckShows, DownloadShows, OffersHold
<1>3. CASE check = NoCheck
  <2>1. LookAnew(service) /\ UNCHANGED waiting
    BY <1>3 DEF SetAllowPrerelease, Waits
  <2>2. CASE service.downloading \/ service.kind \in {"downloaded", "installing"}
             \/ checks = MaxChecks
    <3>1. UNCHANGED <<service, check, checks>>
      BY <1>3, <2>1, <2>2 DEF LookAnew
    <3> QED
      BY <1>1, <1>3, <2>1, <2>2, <3>1, UpdaterAssumption
      DEF UpdaterInv, UpdaterTypeOK, CheckShows, DownloadShows, OffersHold
  <2>3. CASE ~(service.downloading \/ service.kind \in {"downloaded", "installing"}
               \/ checks = MaxChecks)
    <3>1. RunCheck(service, "manual") /\ ~service.downloading /\ download = "none"
      BY <2>1, <2>3 DEF LookAnew, UpdaterInv, DownloadShows
    <3>2. checks < MaxChecks
      BY <1>1, <2>3, UpdaterAssumption
    <3> QED
      BY <1>1, <3>1, <3>2, RunCheckKeeps
  <2> QED
    BY <2>2, <2>3
<1> QED
  BY <1>2, <1>3

LEMMA RelaunchKeeps ==
  ASSUME UpdaterInv, Relaunch
  PROVE  UpdaterInv'
<1>1. service' \in Service /\ service'.kind = "idle" /\ ~service'.downloading
  BY DEF Relaunch, AtStart, Service, UpdaterKinds, Releases, Modes
<1>2. /\ check' = NoCheck /\ NoCheck \in [mode : Modes, beta : BOOLEAN]
      /\ 0 \in 0..MaxChecks
  BY UpdaterAssumption DEF Relaunch, NoCheck, Modes
<1> QED
  BY <1>1, <1>2
  DEF Relaunch, UpdaterInv, UpdaterTypeOK, CheckShows, DownloadShows, OffersHold, Releases,
      UpdaterKinds

-----------------------------------------------------------------------------
(* The theorem *)

LEMMA UpdaterInitInv == UpdaterInit => UpdaterInv
<1> SUFFICES ASSUME UpdaterInit PROVE UpdaterInv
  OBVIOUS
<1>1. service \in Service /\ service.kind \in {"idle", "unavailable"} /\ ~service.downloading
  BY DEF UpdaterInit, AtStart, Service, UpdaterKinds, Releases, Modes
<1>2. NoCheck \in [mode : Modes, beta : BOOLEAN] /\ 0 \in 0..MaxChecks
  BY UpdaterAssumption DEF NoCheck, Modes
<1> QED
  BY <1>1, <1>2
  DEF UpdaterInit, UpdaterInv, UpdaterTypeOK, CheckShows, DownloadShows, OffersHold, Releases,
      UpdaterKinds

LEMMA UpdaterStepInv == UpdaterInv /\ [UpdaterNext]_updaterVars => UpdaterInv'
<1> SUFFICES ASSUME UpdaterInv, [UpdaterNext]_updaterVars PROVE UpdaterInv'
  OBVIOUS
<1>1. CASE UNCHANGED updaterVars
  BY <1>1
  DEF updaterVars, UpdaterInv, UpdaterTypeOK, CheckShows, DownloadShows, OffersHold
<1>2. CASE UpdaterNext
  BY <1>2, ChecksKeep, CheckEndsKeeps, DownloadKeeps, PageKeeps, SetAllowPrereleaseKeeps,
     RelaunchKeeps
  DEF UpdaterNext
<1> QED
  BY <1>1, <1>2

(* A check and a download exclude each other, and the page shows a download, in *)
(* every reachable state.                                                       *)
THEOREM UpdaterInvariance == UpdaterSpec => []UpdaterInv
BY UpdaterInitInv, UpdaterStepInv, PTL DEF UpdaterSpec

(* The values the state of the updater takes are those its declarations say.    *)
THEOREM UpdaterTypeCorrect == UpdaterSpec => []UpdaterTypeOK
<1>1. UpdaterInv => UpdaterTypeOK
  BY DEF UpdaterInv
<1> QED
  BY <1>1, UpdaterInvariance, PTL

(* What the updater says is going on is, and what it offers it has, whatever    *)
(* checks, downloads, clicks on a page that is behind, changes of the           *)
(* preference and relaunches come in between, and however many.                 *)
THEOREM OffersHoldAlways == UpdaterSpec => []OffersHold
<1>1. UpdaterInv => OffersHold
  BY DEF UpdaterInv
<1> QED
  BY <1>1, UpdaterInvariance, PTL

=============================================================================
