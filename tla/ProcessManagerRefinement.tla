---------------------- MODULE ProcessManagerRefinement ----------------------
(***************************************************************************)
(* ProcessManager implements Supervisor, for any threads and processes.    *)
(***************************************************************************)
EXTENDS ProcessManagerProofs

\* Between an adoption and its subscription nobody decides anything else, and the handle
\* of the process is not watched.
Adopting == \A t \in Threads : pc[t] = "subscribe" =>
                verdict = "adopted" /\ managed \in Handles /\ exitEvent[managed] \notin Pending

\* The process a late decision overlooks was launched here.
OvertakenOwn == Overtaken => managed[2] = "own"

\* A live process has no exit to deal with, whoever used its identifier before.
AliveNotDue == \A h \in Handles : Alive(h) => exitEvent[h] \notin {"raised", "cooling", "again"}

\* A process that was found is watched while it is tracked, and not any longer.
FoundQuiet == \A h \in Handles : /\ h[2] = "found"
                                 /\ Alive(h)
                                 /\ exitEvent[h] = "armed"
                                 => h = managed

Quiet == Adopting /\ OvertakenOwn /\ AliveNotDue /\ FoundQuiet

RInv == IInv /\ Quiet

LEMMA RInvInit == Init => RInv
  BY IInvInit, ConstantsAssumption
  DEF ConstantsAssumption, Init, RInv, Quiet, Adopting, OvertakenOwn, Overtaken, AliveNotDue,
      FoundQuiet, HasExited, Alive, Running

\* A launch takes an identifier whose exits have all been dealt with.
LEMMA LaunchedQuiet ==
  ASSUME RInv, NEW handlers \in [Handles -> EventStates], NEW outcome,
         StartInternal(handlers, outcome),
         \A g \in Handles : /\ handlers[g] \in {exitEvent[g], "none", "again"}
                            /\ handlers[g] = "again" => exitEvent[g] \in Pending /\ ~Alive(g),
         HasExited \/ Overtaken,
         \A t \in Threads : pc'[t] # "subscribe"
  PROVE  Quiet'
<1>1. Adopting'
  BY DEF Adopting
<1>2. OvertakenOwn'
  <2>1. CASE HasExited'
    BY <2>1 DEF OvertakenOwn, Overtaken
  <2>2. CASE ~HasExited'
    BY <2>2, Launched DEF RInv, IInv, OvertakenOwn
  <2> QED BY <2>1, <2>2
<1>3. ASSUME NEW g \in Handles, g # managed', Alive(g)'
      PROVE  exitEvent'[g] = handlers[g] /\ (exitEvent[g] \in Pending => Alive(g))
  <2>1. exitEvent'[g] = handlers[g]
    BY <1>3, LaunchedEvents DEF RInv, IInv
  <2>2. ASSUME exitEvent[g] \in Pending PROVE Alive(g)
    <3>1. g[1] \in Pids
      BY DEF Handles
    <3>0. TypeOK
      BY DEF RInv, IInv
    <3>2. ASSUME NEW p \in Unused PROVE g[1] # p
      BY <2>2, <3>0, UnusedHandles
    <3>3. CASE proc' = proc
      BY <1>3, <3>3 DEF Alive, Running
    <3>4. CASE proc' # proc
      <4>1. PICK p \in Unused : proc' = [proc EXCEPT ![p] = "live"]
        BY <3>0, <3>4, Launched
      <4>2. proc'[g[1]] = proc[g[1]]
        BY <3>0, <3>1, <3>2, <4>1 DEF TypeOK
      <4> QED BY <1>3, <4>2 DEF Alive, Running
    <3> QED BY <3>3, <3>4
  <2> QED BY <2>1, <2>2
<1>4. ~HasExited' => exitEvent'[managed'] = "armed" /\ managed'[2] = "own"
  BY Launched DEF RInv, IInv
<1>5. AliveNotDue'
  <2> SUFFICES ASSUME NEW g \in Handles, Alive(g)'
               PROVE  exitEvent'[g] \notin {"raised", "cooling", "again"}
      BY DEF AliveNotDue
  <2>1. CASE g = managed'
    BY <1>4, <2>1 DEF HasExited
  <2>2. CASE g # managed'
    BY <1>3, <2>2 DEF RInv, Quiet, AliveNotDue, Pending
  <2> QED BY <2>1, <2>2
<1>6. FoundQuiet'
  <2> SUFFICES ASSUME NEW g \in Handles, g[2] = "found", Alive(g)', exitEvent'[g] = "armed",
                      g # managed'
               PROVE  FALSE
      BY DEF FoundQuiet
  <2>1. exitEvent[g] = "armed" /\ Alive(g)
    BY <1>3 DEF Pending
  <2>2. g = managed
    BY <2>1 DEF RInv, Quiet, FoundQuiet
  <2> QED BY <2>1, <2>2 DEF RInv, Quiet, OvertakenOwn, HasExited
<1> QED BY <1>1, <1>2, <1>5, <1>6 DEF Quiet

LEMMA QuietStep == RInv /\ [Next]_vars => Quiet'
<1> SUFFICES ASSUME RInv, [Next]_vars PROVE Quiet'
    OBVIOUS
<1> USE ConstantsAssumption
    DEF ConstantsAssumption, RInv, IInv, TypeOK, Control, LockHeld, LookGone, AgainHeld,
        Quiet, Adopting, OvertakenOwn, Overtaken, AliveNotDue, FoundQuiet, HasExited, Alive,
        Running, Inside, Steps, EventStates, Pending, Goto, Return, manager, StopAnswers, Callback
<1>1. ASSUME NEW t \in Threads, Call(t) PROVE Quiet'
  BY <1>1 DEF Call
<1>2. ASSUME NEW t \in Threads, NEW o \in Ops, Enter(t, o) PROVE Quiet'
  BY <1>2 DEF Enter, Acquire
<1>3. ASSUME NEW t \in Threads, CallbackInLook(t) PROVE Quiet'
  <2>1. pc[t] \in Inside /\ WhenGone[pc[t]] # "subscribe"
    BY <1>3 DEF CallbackInLook, Looking, WhenGone
  <2>2. CASE intentional
    BY <1>3, <2>1, <2>2 DEF CallbackInLook, Looking, Untold
  <2>3. CASE ~intentional
    <3> DEFINE handlers == [exitEvent EXCEPT ![managed] = "none"]
    <3>1. handlers \in [Handles -> EventStates]
      OBVIOUS
    <3>2. StartInternal(handlers, "restarted") /\ HasExited
      BY <1>3, <2>3 DEF CallbackInLook, Untold
    <3>3. \A g \in Handles : /\ handlers[g] \in {exitEvent[g], "none", "again"}
                             /\ handlers[g] = "again" => exitEvent[g] \in Pending /\ ~Alive(g)
      OBVIOUS
    <3>4. \A s \in Threads : pc'[s] # "subscribe"
      BY <1>3, <2>1, <2>3 DEF CallbackInLook
    <3> QED BY <3>1, <3>2, <3>3, <3>4, LaunchedQuiet
  <2> QED BY <2>2, <2>3
<1>4. ASSUME NEW t \in Threads, Collide(t) PROVE Quiet'
  BY <1>4 DEF Collide, Looking, Untold
<1>5. ASSUME NEW t \in Threads, Attaching(t) PROVE Quiet'
  <2>1. CASE List(t)
    BY <2>1 DEF List
  <2>2. ASSUME NEW p \in Pids, Adopt(t, p) PROVE Quiet'
    <3>1. managed' = <<p, "found">> /\ managed' \in Handles /\ Alive(managed')
      BY <2>2 DEF Adopt, TakeOver, Handles, Matching
    <3>2. \A h \in Handles : h[2] = "found" /\ Alive(h) => exitEvent[h] # "armed"
      BY <2>2 DEF Adopt, TakeOver
    <3>3. Adopting'
      BY <2>2, <3>1, <3>2 DEF Adopt, TakeOver
    <3>4. OvertakenOwn' /\ AliveNotDue' /\ FoundQuiet'
      BY <2>2, <3>2 DEF Adopt, TakeOver
    <3> QED BY <3>3, <3>4
  <2>3. CASE FindNone(t)
    BY <2>3 DEF FindNone
  <2>4. CASE Subscribe(t)
    BY <2>4 DEF Subscribe
  <2>5. CASE SubscribeThrows(t)
    BY <2>5 DEF SubscribeThrows
  <2>6. CASE KillDuplicates(t)
    <3>1. \A p \in Pids : Running(p)' <=> Running(p)
      BY <2>6 DEF KillDuplicates, Duplicates, Matching
    <3>2. \A h \in Handles : Alive(h)' <=> Alive(h)
      BY <3>1, SameRunning
    <3> QED BY <2>6, <3>2 DEF KillDuplicates
  <2> QED BY <1>5, <2>1, <2>2, <2>3, <2>4, <2>5, <2>6 DEF Attaching
<1>6. ASSUME NEW t \in Threads, Starting(t) PROVE Quiet'
  <2>1. CASE StartAlreadyRunning(t)
    BY <2>1 DEF StartAlreadyRunning, FoundAlive
  <2>2. CASE StartLaunches(t)
    <3>1. StartInternal(exitEvent, "started") /\ (HasExited \/ Overtaken)
      BY <2>2 DEF StartLaunches, FoundGone
    <3>2. \A g \in Handles : exitEvent[g] = "again" => ~Alive(g)
      OBVIOUS
    <3>3. \A s \in Threads : pc'[s] # "subscribe"
      BY <2>2 DEF StartLaunches, FoundGone
    <3> QED BY <3>1, <3>2, <3>3, LaunchedQuiet
  <2> QED BY <1>6, <2>1, <2>2 DEF Starting
<1>7. ASSUME NEW t \in Threads, Stopping(t) \/ StopFails(t) PROVE Quiet'
  <2>1. CASE StopNotRunning(t)
    BY <2>1 DEF StopNotRunning, FoundGone
  <2>2. CASE StopBegins(t)
    BY <2>2 DEF StopBegins, FoundAlive
  <2>3. CASE StoppedGracefully(t)
    BY <2>3 DEF StoppedGracefully, WaitedFor
  <2>4. CASE GraceOver(t)
    BY <2>4 DEF GraceOver
  <2>5. CASE KilledAfterTimeout(t)
    <3>1. \A p \in Pids : Running(p)' <=> Running(p)
      BY <2>5 DEF KilledAfterTimeout
    <3>2. \A h \in Handles : Alive(h)' <=> Alive(h)
      BY <3>1, SameRunning
    <3> QED BY <2>5, <3>2 DEF KilledAfterTimeout
  <2>6. CASE StopFails(t)
    BY <2>6 DEF StopFails
  <2> QED BY <1>7, <2>1, <2>2, <2>3, <2>4, <2>5, <2>6 DEF Stopping
<1>8. ASSUME NEW t \in Threads, GetStatus(t) PROVE Quiet'
  BY <1>8 DEF GetStatus, FoundAlive, FoundGone
<1>9. ASSUME NEW h \in Handles, PoolRaises(h) PROVE Quiet'
  BY <1>9 DEF PoolRaises
<1>10. ASSUME NEW h \in Handles, OnProcessExited(h) PROVE Quiet'
  <2>1. CASE CheckIntent(h)
    BY <2>1 DEF CheckIntent
  <2>2. CASE WakeForNothing(h)
    BY <2>2 DEF WakeForNothing
  <2>3. CASE WakeAndRestart(h)
    <3> DEFINE handlers == [exitEvent EXCEPT ![h] = "none"]
    <3>1. handlers \in [Handles -> EventStates]
      OBVIOUS
    <3>2. StartInternal(handlers, "restarted") /\ (HasExited \/ Overtaken)
      BY <2>3 DEF WakeAndRestart, Relaunch
    <3>3. \A g \in Handles : /\ handlers[g] \in {exitEvent[g], "none", "again"}
                             /\ handlers[g] = "again" => exitEvent[g] \in Pending /\ ~Alive(g)
      BY <2>3 DEF WakeAndRestart
    <3>4. \A t \in Threads : pc'[t] # "subscribe"
      BY <2>3 DEF WakeAndRestart, Relaunch
    <3> QED BY <3>1, <3>2, <3>3, <3>4, LaunchedQuiet
  <2>4. CASE NestedRestart(h)
    <3> DEFINE handlers == [exitEvent EXCEPT ![managed] = "none", ![h] = "again"]
    <3>1. handlers \in [Handles -> EventStates]
      OBVIOUS
    <3>2. StartInternal(handlers, "restarted") /\ (HasExited \/ Overtaken)
      BY <2>4 DEF NestedRestart, Relaunch, Untold
    <3>3. \A g \in Handles : /\ handlers[g] \in {exitEvent[g], "none", "again"}
                             /\ handlers[g] = "again" => exitEvent[g] \in Pending /\ ~Alive(g)
      BY <2>4 DEF NestedRestart
    <3>4. \A t \in Threads : pc'[t] # "subscribe"
      BY <2>4 DEF NestedRestart, Relaunch
    <3> QED BY <3>1, <3>2, <3>3, <3>4, LaunchedQuiet
  <2>5. CASE RestartAgain(h)
    <3> DEFINE handlers == [exitEvent EXCEPT ![h] = "none"]
    <3>1. handlers \in [Handles -> EventStates]
      OBVIOUS
    <3>2. StartInternal(handlers, "restarted") /\ (HasExited \/ Overtaken)
      BY <2>5 DEF RestartAgain, Relaunch
    <3>3. \A g \in Handles : /\ handlers[g] \in {exitEvent[g], "none", "again"}
                             /\ handlers[g] = "again" => exitEvent[g] \in Pending /\ ~Alive(g)
      BY <2>5 DEF RestartAgain
    <3>4. \A t \in Threads : pc'[t] # "subscribe"
      BY <2>5 DEF RestartAgain, Relaunch
    <3> QED BY <3>1, <3>2, <3>3, <3>4, LaunchedQuiet
  <2>6. CASE WakeCollides(h)
    BY <2>6 DEF WakeCollides, Untold
  <2> QED BY <1>10, <2>1, <2>2, <2>3, <2>4, <2>5, <2>6 DEF OnProcessExited
<1>11. ASSUME NEW p \in Pids, LaunchByHand(p) PROVE Quiet'
  <2>1. proc' = [proc EXCEPT ![p] = proc'[p]] /\ proc'[p] # "none"
    BY <1>11, UnusedHandles DEF LaunchByHand
  <2>2. \A h \in Handles : exitEvent[h] \in Pending /\ Alive(h)' => Alive(h)
    BY <1>11, <2>1, UnusedHandles DEF LaunchByHand, Handles
  <2>3. HasExited' = HasExited
    BY <1>11, <2>1, UnusedHandles DEF LaunchByHand, Handles
  <2> QED BY <1>11, <2>2, <2>3 DEF LaunchByHand
<1>12. ASSUME NEW p \in Pids, ProcessExits(p) PROVE Quiet'
  BY <1>12 DEF ProcessExits
<1>13. CASE RestartAgent
  BY <1>13 DEF RestartAgent
<1>14. CASE UNCHANGED vars
  BY <1>14 DEF vars
<1> QED
  BY <1>1, <1>2, <1>3, <1>4, <1>5, <1>6, <1>7, <1>8, <1>9, <1>10, <1>11, <1>12, <1>13, <1>14
  DEF Next, Body

LEMMA RInvStep == RInv /\ [Next]_vars => RInv'
  BY IInvStep, QuietStep DEF RInv
-----------------------------------------------------------------------------
(***************************************************************************)
(* Steps.  One that touches neither the handle, nor an exit, nor a flag is *)
(* a stutter of the supervisor, or the end of a late decision.             *)
(***************************************************************************)
Child == IF HasExited THEN NoProcess ELSE managed

Strays == {h \in Handles : exitEvent[h] = "armed" /\ Alive(h) /\ h # managed}

Subscribing == \E t \in Threads : pc[t] = "subscribe"

Simulated == Abstract!Next \/ UNCHANGED Abstract!vars

\* The holder of the lock is alone in it, and no callback is about to launch again.
LEMMA HolderAlone ==
  ASSUME RInv, NEW t \in Threads, pc[t] \in Inside
  PROVE  /\ \A s \in Threads \ {t} : pc[s] \notin Inside
         /\ \A h \in Handles : exitEvent[h] # "again"
         /\ Subscribing => pc[t] = "subscribe"
         /\ Overtaken => pc[t] \in {"list", "scan", "gone"}
  BY ConstantsAssumption
  DEF ConstantsAssumption, RInv, IInv, Control, LockHeld, AgainHeld, Subscribing, Overtaken,
      Inside, Steps

LEMMA FreeSettled ==
  ASSUME RInv, lock = Free
  PROVE  /\ \A s \in Threads : pc[s] \notin Inside
         /\ \A h \in Handles : exitEvent[h] # "again"
         /\ ~Subscribing /\ ~Overtaken
  BY ConstantsAssumption
  DEF ConstantsAssumption, RInv, IInv, Control, LockHeld, AgainHeld, Subscribing, Overtaken,
      Inside, Steps

\* What the supervisor sees depends on what is alive, tracked and watched.
LEMMA SameView ==
  ASSUME \A h \in Handles : Alive(h)' <=> Alive(h), UNCHANGED <<managed, exitEvent>>,
         Subscribing' <=> Subscribing
  PROVE  Child' = Child /\ Strays' = Strays /\ Due' = Due /\ HasExited' = HasExited
<1>1. HasExited' = HasExited
  BY DEF HasExited, Alive
<1> QED BY <1>1 DEF Child, Strays, Due, Subscribing

LEMMA QuietSimulated ==
  ASSUME \A h \in Handles : Alive(h)' <=> Alive(h),
         UNCHANGED <<managed, intentional, exitEvent, verdict>>,
         Subscribing' <=> Subscribing, Overtaken' => Overtaken
  PROVE  Simulated
<1>1. Child' = Child /\ Strays' = Strays /\ Due' = Due
  BY SameView
<1>2. Overtaken \in BOOLEAN /\ Overtaken' \in BOOLEAN
  BY DEF Overtaken
<1>3. CASE Overtaken' = Overtaken
  BY <1>1, <1>3 DEF Simulated, Abstract!vars, Child, Strays
<1>4. CASE Overtaken /\ ~Overtaken'
  BY <1>1, <1>2, <1>4 DEF Simulated, Abstract!Next, Abstract!NothingDone, Child, Strays
<1> QED BY <1>2, <1>3, <1>4

\* Moving a thread that is not adopting, without overtaking anybody, is such a step.
LEMMA MoveSimulated ==
  ASSUME RInv, NEW t \in Threads, NEW s \in Steps, Goto(t, s), UNCHANGED manager,
         pc[t] # "subscribe", s # "subscribe", s \in {"list", "scan", "gone"} => HasExited \/ Overtaken
  PROVE  Simulated
<1>1. \A h \in Handles : Alive(h)' <=> Alive(h)
  BY DEF manager, Alive, Running
<1>2. Subscribing' <=> Subscribing
  BY DEF Goto, Subscribing, RInv, IInv, TypeOK
<1>3. Overtaken' => Overtaken
  BY DEF Goto, manager, Overtaken, HasExited, Alive, Running, RInv, IInv, TypeOK
<1> QED BY <1>1, <1>2, <1>3, QuietSimulated DEF manager

LEMMA CallSimulated == ASSUME RInv, NEW t \in Threads, Call(t) PROVE Simulated
  BY MoveSimulated DEF Call, Steps

LEMMA EnterSimulated == ASSUME RInv, NEW t \in Threads, NEW o \in Ops, Enter(t, o) PROVE Simulated
<1>1. PICK s \in {"act", "look", "attached"} : Goto(t, s)
  BY DEF Enter, Acquire
<1> QED BY <1>1, MoveSimulated DEF Enter, Acquire, Steps
-----------------------------------------------------------------------------
(***************************************************************************)
(* Launches.                                                               *)
(***************************************************************************)
\* A launch leaves every exit that is watched or due as it is, but those it answers.
LEMMA LaunchedElse ==
  ASSUME RInv, NEW handlers \in [Handles -> EventStates], NEW outcome,
         StartInternal(handlers, outcome)
  PROVE  /\ \A g \in Handles : g # managed' =>
               /\ exitEvent'[g] = handlers[g]
               /\ exitEvent[g] \in Pending => (Alive(g)' <=> Alive(g))
         /\ \/ /\ managed' \in Handles /\ managed' # managed
               /\ exitEvent[managed'] \notin Pending
               /\ exitEvent'[managed'] = "armed"
               /\ ~HasExited' /\ verdict' = outcome
            \/ managed' = NoProcess /\ HasExited' /\ verdict' = "failed"
<1>0. TypeOK
  BY DEF RInv, IInv
<1>1. ASSUME NEW g \in Handles, exitEvent[g] \in Pending PROVE Alive(g)' <=> Alive(g)
  <2>1. g[1] \in Pids
    BY DEF Handles
  <2>2. ASSUME NEW p \in Unused PROVE g[1] # p
    BY <1>0, <1>1, UnusedHandles
  <2>3. proc'[g[1]] = proc[g[1]]
    <3>1. CASE proc' = proc
      BY <3>1
    <3>2. CASE proc' # proc
      <4>1. PICK p \in Unused : proc' = [proc EXCEPT ![p] = "live"]
        BY <1>0, <3>2, Launched
      <4> QED BY <1>0, <2>1, <2>2, <4>1 DEF TypeOK
    <3> QED BY <3>1, <3>2
  <2> QED BY <2>3 DEF Alive, Running
<1>2. ASSUME managed' # NoProcess
      PROVE  /\ managed' \in Handles /\ managed' # managed
             /\ exitEvent[managed'] \notin Pending
             /\ exitEvent'[managed'] = "armed"
             /\ ~HasExited' /\ verdict' = outcome
  <2>1. PICK p \in Unused : /\ managed' = <<p, "own">> /\ managed' \in Handles
                            /\ exitEvent' = [handlers EXCEPT ![managed'] = "armed"]
                            /\ verdict' = outcome
                            /\ ~HasExited'
    BY <1>0, <1>2, Launched
  <2>2. managed' # managed /\ exitEvent[managed'] \notin Pending
    BY <2>1 DEF Unused
  <2> QED BY <2>1, <2>2
<1>3. \A g \in Handles : g # managed' => exitEvent'[g] = handlers[g]
  BY <1>0, LaunchedEvents
<1>4. managed' = NoProcess => HasExited' /\ verdict' = "failed"
  BY <1>0, Launched, ConstantsAssumption DEF ConstantsAssumption
<1> QED BY <1>1, <1>2, <1>3, <1>4

\* What the supervisor sees of a launch.
LEMMA LaunchedView ==
  ASSUME RInv, NEW handlers \in [Handles -> EventStates], NEW outcome,
         StartInternal(handlers, outcome), ~Subscribing, ~Subscribing',
         \A g \in Handles : Alive(g) => handlers[g] = exitEvent[g],
         \A g \in Handles : handlers[g] \in Pending => exitEvent[g] \in Pending
  PROVE  /\ Strays' = IF Child = NoProcess THEN Strays ELSE Strays \cup {Child}
         /\ \/ Child' \in Handles \ (Due \cup Strays') /\ verdict' = outcome
            \/ Child' = NoProcess /\ verdict' = "failed"
         /\ Child' = NoProcess <=> HasExited'
         /\ Due' = {g \in Handles : handlers[g] \in Pending /\ ~Alive(g)}
<1> USE ConstantsAssumption DEF ConstantsAssumption
<1>1. Child' = NoProcess <=> HasExited'
  BY DEF Child, HasExited, Alive
<1>2. \/ Child' \in Handles /\ Child' = managed' /\ exitEvent[Child'] \notin Pending /\ verdict' = outcome
      \/ Child' = NoProcess /\ verdict' = "failed"
  BY LaunchedElse DEF Child
<1>3. Child' \notin Strays'
  BY <1>1 DEF Child, Strays
<1>4. Child' \in Handles => Child' \notin Due
  BY <1>2 DEF Due, Subscribing
<1>5. \A g \in Handles : g \in Strays' <=> exitEvent[g] = "armed" /\ Alive(g)
  <2> SUFFICES ASSUME NEW g \in Handles PROVE g \in Strays' <=> exitEvent[g] = "armed" /\ Alive(g)
      OBVIOUS
  <2>1. CASE g = managed'
    BY <2>1, LaunchedElse DEF Strays, Pending
  <2>2. CASE g # managed'
    BY <2>2, LaunchedElse DEF Strays, Pending
  <2> QED BY <2>1, <2>2
<1>6. Child # NoProcess => exitEvent[Child] = "armed" /\ Alive(Child) /\ Child = managed
  BY DEF Child, Subscribing, RInv, IInv, Watch, Supervised, HasExited
<1>7. Child = NoProcess => \A g \in Handles : Alive(g) => g # managed
  BY DEF Child, HasExited, Alive
<1>8. Strays' = IF Child = NoProcess THEN Strays ELSE Strays \cup {Child}
  <2>1. CASE Child = NoProcess
    BY <1>5, <1>7, <2>1 DEF Strays
  <2>2. CASE Child # NoProcess
    BY <1>5, <1>6, <2>2 DEF Strays, Alive
  <2> QED BY <2>1, <2>2
<1>9. Due' = {g \in Handles : handlers[g] \in Pending /\ ~Alive(g)}
  <2> SUFFICES ASSUME NEW g \in Handles
               PROVE  g \in Due' <=> handlers[g] \in Pending /\ ~Alive(g)
      BY DEF Due
  <2>1. CASE g = managed'
    BY <2>1, LaunchedElse DEF Due, Subscribing, HasExited
  <2>2. CASE g # managed'
    BY <2>2, LaunchedElse DEF Due, Subscribing
  <2> QED BY <2>1, <2>2
<1> QED BY <1>1, <1>2, <1>3, <1>4, <1>8, <1>9

LEMMA LateAfterLaunch ==
  ASSUME Child' = NoProcess <=> HasExited'
  PROVE  Overtaken' \in {FALSE, Child' # NoProcess}
<1>1. Overtaken' \in BOOLEAN /\ (Overtaken' => Child' # NoProcess)
  BY DEF Overtaken
<1>2. CASE Overtaken'
  BY <1>1, <1>2
<1>3. CASE ~Overtaken'
  BY <1>1, <1>3
<1> QED BY <1>2, <1>3

\* A callback launches for the exit of h: it answers that exit, the others stay due.
LEMMA RestartSimulated ==
  ASSUME RInv, NEW h \in Handles, exitEvent[h] \in Pending, ~Alive(h),
         NEW handlers \in [Handles -> EventStates], StartInternal(handlers, "restarted"),
         \A g \in Handles : Alive(g) => handlers[g] = exitEvent[g],
         \A g \in Handles : handlers[g] \in Pending <=> exitEvent[g] \in Pending /\ g # h,
         ~Subscribing, ~Subscribing', ~intentional, ~intentional',
         intentional' = intentional, HasExited \/ Overtaken
  PROVE  Simulated
<1>1. h \in Due
  BY DEF Due
<1>2. /\ Strays' = IF Child = NoProcess THEN Strays ELSE Strays \cup {Child}
      /\ \/ Child' \in Handles \ (Due \cup Strays') /\ verdict' = "restarted"
         \/ Child' = NoProcess /\ verdict' = "failed"
      /\ Child' = NoProcess <=> HasExited'
      /\ Due' = {g \in Handles : handlers[g] \in Pending /\ ~Alive(g)}
  BY LaunchedView
<1>3. Due' = Due \ {h}
  BY <1>2 DEF Due, Subscribing
<1>4. Overtaken' \in {FALSE, Child' # NoProcess}
  BY <1>2, LateAfterLaunch
<1>5. Child = NoProcess \/ Overtaken
  BY DEF Child
<1> QED BY <1>1, <1>2, <1>3, <1>4, <1>5
        DEF Simulated, Abstract!Next, Abstract!Restart, Abstract!DealtWith, Abstract!Launch,
            Abstract!Replace, Abstract!Idle, Child, Strays
-----------------------------------------------------------------------------
(***************************************************************************)
(* The steps of a call.                                                    *)
(***************************************************************************)
LEMMA CallbackInLookSimulated ==
  ASSUME RInv, NEW t \in Threads, CallbackInLook(t) PROVE Simulated
<1>1. /\ pc[t] \in Inside /\ pc[t] \notin {"subscribe", "list", "scan", "gone"}
      /\ WhenGone[pc[t]] # "subscribe"
      /\ HasExited /\ managed \in Handles /\ exitEvent[managed] = "armed"
  BY DEF CallbackInLook, Looking, Untold, WhenGone, Inside, Steps
<1>2. ~Subscribing /\ ~Overtaken
  BY <1>1, HolderAlone
<1>3. ~Subscribing'
  BY <1>1, <1>2 DEF CallbackInLook, Goto, Subscribing, RInv, IInv, TypeOK
<1> DEFINE handlers == [exitEvent EXCEPT ![managed] = "none"]
<1>4. /\ handlers \in [Handles -> EventStates]
      /\ \A g \in Handles : Alive(g) => handlers[g] = exitEvent[g]
      /\ \A g \in Handles : handlers[g] \in Pending => exitEvent[g] \in Pending
      /\ {g \in Handles : handlers[g] \in Pending /\ ~Alive(g)} = Due \ {managed}
      /\ managed \in Due
  BY <1>1, <1>2 DEF Due, Subscribing, HasExited, Pending, EventStates, RInv, IInv, TypeOK
<1>5. CASE intentional
  <2>1. exitEvent' = handlers /\ UNCHANGED <<proc, managed, pc, intentional, verdict>>
    BY <1>5 DEF CallbackInLook
  <2>2. Due' = Due \ {managed}
    BY <1>3, <1>4, <2>1 DEF Due, Subscribing, Alive, Running
  <2>3. Strays' = Strays /\ Child' = Child
    BY <1>1, <1>4, <2>1 DEF Strays, Child, HasExited, Alive, Running
  <2>4. Overtaken' = Overtaken
    BY <1>1, <1>2, <2>1 DEF Overtaken, HasExited, Alive, Running
  <2> QED BY <1>4, <1>5, <2>1, <2>2, <2>3, <2>4
          DEF Simulated, Abstract!Next, Abstract!Dismiss, Abstract!DealtWith, Child, Strays
<1>6. CASE ~intentional
  <2>1. StartInternal(handlers, "restarted") /\ UNCHANGED intentional
    BY <1>6 DEF CallbackInLook
  <2>2. /\ exitEvent[managed] \in Pending /\ ~Alive(managed)
        /\ \A g \in Handles : handlers[g] \in Pending <=> exitEvent[g] \in Pending /\ g # managed
    BY <1>1 DEF Pending, HasExited, RInv, IInv, TypeOK
  <2> HIDE DEF handlers
  <2> QED BY <1>1, <1>2, <1>3, <1>4, <1>6, <2>1, <2>2, RestartSimulated
<1> QED BY <1>5, <1>6

\* An exit that is noticed was due before.
LEMMA NoticeSimulated ==
  ASSUME RInv, NEW h \in Handles, exitEvent[h] = "armed", ~Alive(h),
         exitEvent' = [exitEvent EXCEPT ![h] = "raised"],
         UNCHANGED <<proc, managed, intentional, verdict>>,
         Subscribing' <=> Subscribing, Overtaken' <=> Overtaken
  PROVE  Simulated
<1>1. \A g \in Handles : Alive(g)' <=> Alive(g)
  BY DEF Alive, Running
<1>2. HasExited' = HasExited
  BY DEF HasExited, Alive, Running
<1>3. Child' = Child
  BY <1>2 DEF Child
<1>4. Strays' = Strays
  BY <1>1 DEF Strays, RInv, IInv, TypeOK
<1>5. Due' = Due
  BY <1>1, <1>2 DEF Due, Subscribing, Pending, RInv, IInv, TypeOK
<1>6. Overtaken' = Overtaken
  BY DEF Overtaken
<1> QED BY <1>3, <1>4, <1>5, <1>6 DEF Simulated, Abstract!vars, Child, Strays

LEMMA CollideSimulated == ASSUME RInv, NEW t \in Threads, Collide(t) PROVE Simulated
<1>1. /\ pc[t] \in Inside \ {"subscribe", "list", "scan", "gone"}
      /\ managed \in Handles /\ exitEvent[managed] = "armed" /\ ~Alive(managed)
      /\ exitEvent' = [exitEvent EXCEPT ![managed] = "raised"]
      /\ UNCHANGED <<proc, managed, intentional, verdict>>
  BY DEF Collide, Looking, Untold, HasExited, Inside, Steps
<1>2. Subscribing' <=> Subscribing
  BY <1>1 DEF Collide, Goto, Subscribing, RInv, IInv, TypeOK
<1>3. ~Overtaken /\ ~Overtaken'
  BY <1>1 DEF Overtaken, HasExited, Alive, Running
<1> QED BY <1>1, <1>2, <1>3, NoticeSimulated

LEMMA AttachingSimulated == ASSUME RInv, NEW t \in Threads, Attaching(t) PROVE Simulated
<1>1. CASE List(t)
  BY <1>1, MoveSimulated DEF List, Steps, manager, RInv, IInv, Control, LookGone, Overtaken
<1>2. ASSUME NEW p \in Pids, Adopt(t, p) PROVE Simulated
  <2>1. /\ pc[t] = "scan" /\ pc[t] \in Inside
        /\ managed' = <<p, "found">> /\ managed' \in Handles /\ Alive(managed')
        /\ UNCHANGED <<proc, exitEvent>> /\ pc' = [pc EXCEPT ![t] = "subscribe"]
        /\ intentional' = FALSE /\ verdict' = "adopted"
    BY <1>2 DEF Adopt, TakeOver, Goto, Handles, Matching, Alive, Running, Inside, Steps
  <2>2. /\ ~Subscribing
        /\ \A s \in Threads : pc'[s] \notin {"list", "scan", "gone"}
        /\ \A h \in Handles : exitEvent[h] # "again"
    BY <2>1, HolderAlone DEF Inside, Steps, RInv, IInv, TypeOK
  <2>3. ~HasExited' /\ \A h \in Handles : Alive(h)' <=> Alive(h)
    BY <2>1 DEF HasExited, Alive, Running
  <2>4. ~HasExited => Overtaken /\ managed \in Handles /\ managed[2] = "own" /\ exitEvent[managed] = "armed"
    BY <2>1, <2>2 DEF Overtaken, RInv, Quiet, OvertakenOwn, IInv, Watch, Supervised, Subscribing,
                      HasExited, Alive
  <2>5. exitEvent[managed'] # "armed"
    BY <2>1, <2>4 DEF RInv, Quiet, FoundQuiet, HasExited
  <2>6. Child' = managed'
    BY <2>3 DEF Child
  <2>7. Due' = Due
    BY <2>1, <2>2, <2>3 DEF Due, Subscribing
  <2>8. Strays' = IF Child = NoProcess THEN Strays ELSE Strays \cup {Child}
    <3>1. CASE HasExited
      BY <2>1, <2>3, <2>5, <3>1 DEF Child, Strays, HasExited
    <3>2. CASE ~HasExited
      <4>1. Child = managed /\ Child # NoProcess /\ Alive(managed)
        BY <2>4, <3>2, ConstantsAssumption DEF Child, ConstantsAssumption, HasExited
      <4> QED BY <2>1, <2>3, <2>4, <2>5, <3>2, <4>1 DEF Strays
    <3> QED BY <3>1, <3>2
  <2>9. Overtaken' = FALSE
    BY <2>1, <2>2 DEF Overtaken
  <2>10. Child = NoProcess \/ Overtaken
    BY <2>4 DEF Child
  <2>11. Child' \notin Strays'
    BY <2>6 DEF Strays
  <2> QED BY <2>1, <2>6, <2>7, <2>8, <2>9, <2>10, <2>11
          DEF Simulated, Abstract!Next, Abstract!Adopt, Abstract!Replace, Abstract!Idle, Child, Strays
<1>3. CASE FindNone(t)
  BY <1>3, MoveSimulated DEF FindNone, Steps
<1>4. CASE Subscribe(t) \/ SubscribeThrows(t)
  <2>1. /\ pc[t] = "subscribe" /\ pc[t] \in Inside /\ pc'[t] # "subscribe"
        /\ UNCHANGED <<proc, intentional>>
    BY <1>4 DEF Subscribe, SubscribeThrows, Goto, Inside, Steps, RInv, IInv, TypeOK
  <2>2. /\ \A s \in Threads \ {t} : pc[s] \notin Inside /\ pc'[s] = pc[s]
        /\ \A h \in Handles : exitEvent[h] # "again"
        /\ ~Overtaken /\ Subscribing
        /\ managed \in Handles /\ verdict = "adopted" /\ exitEvent[managed] \notin Pending
    BY <1>4, <2>1, HolderAlone
    DEF Subscribe, SubscribeThrows, Goto, Subscribing, RInv, Quiet, Adopting, IInv, TypeOK
  <2>3. ~Subscribing'
    BY <2>1, <2>2 DEF Subscribing, Inside, Steps
  <2>4. CASE Subscribe(t) /\ exitEvent' = [exitEvent EXCEPT ![managed] = "armed"]
    <3>1. UNCHANGED <<managed, verdict>> /\ \A h \in Handles : Alive(h)' <=> Alive(h)
      BY <2>1, <2>4 DEF Subscribe, Alive, Running
    <3>2. HasExited' = HasExited
      BY <2>1, <3>1 DEF HasExited, Alive, Running
    <3>3. Child' = Child
      BY <3>1, <3>2 DEF Child
    <3>4. Strays' = Strays
      BY <2>2, <2>4, <3>1 DEF Strays, RInv, IInv, TypeOK
    <3>5. Due' = Due
      BY <2>2, <2>3, <2>4, <3>1, <3>2 DEF Due, Subscribing, HasExited, Pending, RInv, IInv, TypeOK
    <3>6. pc'[t] = "attached" /\ \A h \in Handles : exitEvent'[h] # "again"
      BY <2>2, <2>4 DEF Subscribe, Goto, RInv, IInv, TypeOK
    <3>7. Overtaken' = Overtaken
      BY <2>2, <3>6 DEF Overtaken, Inside, Steps
    <3> QED BY <2>1, <3>1, <3>3, <3>4, <3>5, <3>7 DEF Simulated, Abstract!vars, Child, Strays
  <2>5. CASE Subscribe(t) /\ HasExited /\ exitEvent' = [exitEvent EXCEPT ![managed] = "missed"]
    <3>1. UNCHANGED <<managed, verdict>> /\ \A h \in Handles : Alive(h)' <=> Alive(h)
      BY <2>1, <2>5 DEF Subscribe, Alive, Running
    <3>2. HasExited' /\ ~Overtaken'
      BY <2>1, <2>5, <3>1 DEF Overtaken, HasExited, Alive, Running
    <3>3. Child' = NoProcess /\ Child = NoProcess
      BY <2>5, <3>2 DEF Child
    <3>4. Strays' = Strays
      BY <2>2, <2>5, <3>1 DEF Strays, RInv, IInv, TypeOK, HasExited
    <3>5. managed \in Due /\ Due' = Due \ {managed}
      BY <2>2, <2>3, <2>5, <3>1, <3>2 DEF Due, Subscribing, HasExited, Pending, RInv, IInv, TypeOK
    <3>6. Overtaken' = Overtaken
      BY <2>2, <3>2 DEF Overtaken
    <3> QED BY <2>1, <2>2, <3>1, <3>3, <3>4, <3>5, <3>6
            DEF Simulated, Abstract!Next, Abstract!Miss, Abstract!DealtWith, Abstract!Idle, Child, Strays
  <2>6. CASE SubscribeThrows(t)
    <3>1. managed' = NoProcess /\ UNCHANGED <<exitEvent, proc>> /\ verdict' = "lost"
      BY <2>6 DEF SubscribeThrows
    <3>2. HasExited' /\ \A h \in Handles : Alive(h)' <=> Alive(h)
      BY <3>1, ConstantsAssumption DEF HasExited, Alive, Running, ConstantsAssumption
    <3>3. Child' = NoProcess /\ Strays' = Strays
      BY <2>2, <3>1, <3>2, ConstantsAssumption DEF Child, Strays, Pending, ConstantsAssumption
    <3>4. Overtaken' = Overtaken
      BY <2>2, <3>2 DEF Overtaken
    <3>5. CASE HasExited
      <4>1. managed \in Due /\ Due' = Due \ {managed} /\ Child = NoProcess
        BY <2>2, <2>3, <3>1, <3>2, <3>5 DEF Due, Subscribing, HasExited, Child
      <4> QED BY <2>1, <2>2, <3>1, <3>3, <3>4, <4>1
              DEF Simulated, Abstract!Next, Abstract!Miss, Abstract!DealtWith, Abstract!Idle, Child, Strays
    <3>6. CASE ~HasExited
      <4>1. Due' = Due /\ Child # NoProcess
        BY <2>2, <2>3, <3>1, <3>2, <3>6, ConstantsAssumption
        DEF Due, Subscribing, HasExited, Child, ConstantsAssumption
      <4> QED BY <2>1, <2>2, <3>1, <3>3, <3>4, <4>1
              DEF Simulated, Abstract!Next, Abstract!Lose, Abstract!Idle, Child, Strays
    <3> QED BY <3>5, <3>6
  <2>7. Subscribe(t) => \/ exitEvent' = [exitEvent EXCEPT ![managed] = "armed"]
                        \/ HasExited /\ exitEvent' = [exitEvent EXCEPT ![managed] = "missed"]
    BY DEF Subscribe
  <2> QED BY <1>4, <2>4, <2>5, <2>6, <2>7
<1>5. CASE KillDuplicates(t)
  <2>1. \A p \in Pids : Running(p)' <=> Running(p)
    BY <1>5 DEF KillDuplicates, Duplicates, Matching, Running
  <2>2. \A h \in Handles : Alive(h)' <=> Alive(h)
    BY <2>1, SameRunning DEF RInv, IInv
  <2>3. Subscribing' <=> Subscribing
    BY <1>5 DEF KillDuplicates, Goto, Subscribing, RInv, IInv, TypeOK
  <2>4. HasExited' = HasExited
    BY <1>5, <2>2 DEF KillDuplicates, HasExited, Alive
  <2>5. Overtaken' => Overtaken
    BY <1>5, <2>4 DEF KillDuplicates, Goto, Overtaken, RInv, IInv, TypeOK
  <2> QED BY <1>5, <2>2, <2>3, <2>5, QuietSimulated DEF KillDuplicates
<1> QED BY <1>1, <1>2, <1>3, <1>4, <1>5 DEF Attaching

LEMMA StartingSimulated == ASSUME RInv, NEW t \in Threads, Starting(t) PROVE Simulated
<1>1. CASE StartAlreadyRunning(t)
  BY <1>1, MoveSimulated DEF StartAlreadyRunning, FoundAlive, Return, Steps
<1>2. CASE StartLaunches(t)
  <2>1. /\ pc[t] \in {"act", "gone"} /\ pc[t] \in Inside
        /\ pc' = [pc EXCEPT ![t] = "idle"]
        /\ StartInternal(exitEvent, "started") /\ intentional' = FALSE
    BY <1>2 DEF StartLaunches, FoundGone, Return, Goto, Inside, Steps
  <2>2. ~Subscribing /\ ~Subscribing' /\ \A h \in Handles : exitEvent[h] # "again"
    BY <2>1, HolderAlone DEF Subscribing, RInv, IInv, TypeOK
  <2>3. HasExited \/ Overtaken
    BY <1>2 DEF StartLaunches, FoundGone, Overtaken
  <2>4. /\ Strays' = IF Child = NoProcess THEN Strays ELSE Strays \cup {Child}
        /\ \/ Child' \in Handles \ (Due \cup Strays') /\ verdict' = "started"
           \/ Child' = NoProcess /\ verdict' = "failed"
        /\ Due' = {g \in Handles : exitEvent[g] \in Pending /\ ~Alive(g)}
    BY <2>1, <2>2, LaunchedView DEF RInv, IInv, TypeOK
  <2>5. Due' = Due
    BY <2>2, <2>4 DEF Due, Subscribing
  <2>6. Overtaken' = FALSE
    <3>1. \A h \in Handles : exitEvent'[h] # "again"
      BY <2>1, <2>2, LaunchedNotAgain DEF RInv, IInv, TypeOK
    <3>2. \A s \in Threads : pc'[s] \notin {"list", "scan", "gone"}
      BY <2>1, HolderAlone DEF RInv, IInv, TypeOK, Inside, Steps
    <3> QED BY <3>1, <3>2 DEF Overtaken
  <2>7. Child = NoProcess \/ Overtaken
    BY <2>3 DEF Child
  <2> QED BY <2>1, <2>4, <2>5, <2>6, <2>7
          DEF Simulated, Abstract!Next, Abstract!Start, Abstract!Launch, Abstract!Replace,
              Abstract!Idle, Child, Strays
<1> QED BY <1>1, <1>2 DEF Starting

LEMMA GetStatusSimulated == ASSUME RInv, NEW t \in Threads, GetStatus(t) PROVE Simulated
  BY MoveSimulated DEF GetStatus, FoundAlive, FoundGone, Return, Steps

\* The answers of Stop leave what is tracked and watched.
LEMMA AnswerView ==
  ASSUME RInv, NEW t \in Threads, pc[t] \in Inside \ {"subscribe"}, NEW flag, NEW outcome,
         StopAnswers(t, flag, outcome), \A h \in Handles : Alive(h)' <=> Alive(h)
  PROVE  /\ ~Subscribing /\ ~Subscribing' /\ HasExited' = HasExited /\ Child' = Child
         /\ (\A h \in Handles : exitEvent'[h] # "again") => Overtaken' = FALSE
<1>1. ~Subscribing /\ ~Subscribing'
  BY HolderAlone DEF StopAnswers, Return, Goto, Subscribing, RInv, IInv, TypeOK
<1>2. HasExited' = HasExited
  BY DEF StopAnswers, HasExited, Alive
<1>3. \A s \in Threads : pc'[s] \notin {"list", "scan", "gone"}
  BY HolderAlone DEF StopAnswers, Return, Goto, RInv, IInv, TypeOK, Inside, Steps
<1> QED BY <1>1, <1>2, <1>3 DEF StopAnswers, Child, Overtaken

LEMMA StoppingSimulated ==
  ASSUME RInv, NEW t \in Threads, Stopping(t) \/ StopFails(t) PROVE Simulated
<1>1. CASE StopNotRunning(t)
  <2>1. /\ pc[t] \in Inside \ {"subscribe"} /\ StopAnswers(t, intentional, "notRunning")
        /\ UNCHANGED <<proc, exitEvent>>
    BY <1>1 DEF StopNotRunning, FoundGone, Inside, Steps
  <2>2. \A h \in Handles : exitEvent[h] # "again" /\ (Alive(h)' <=> Alive(h))
    BY <2>1, HolderAlone DEF Alive, Running
  <2>3. ~Subscribing /\ ~Subscribing' /\ HasExited' = HasExited /\ Child' = Child /\ Overtaken' = FALSE
    BY <2>1, <2>2, AnswerView
  <2>4. Due' = Due /\ Strays' = Strays
    BY <2>1, <2>2, <2>3 DEF StopAnswers, Due, Strays, Subscribing
  <2>5. Child = NoProcess \/ Overtaken
    BY <1>1 DEF StopNotRunning, FoundGone, Child, Overtaken
  <2> QED BY <2>1, <2>3, <2>4, <2>5
          DEF StopAnswers, Simulated, Abstract!Next, Abstract!NothingToStop, Abstract!StopAnswers,
              Abstract!Idle, Child, Strays
<1>2. CASE StopBegins(t)
  <2>1. /\ pc[t] = "act" /\ pc[t] \in Inside /\ pc' = [pc EXCEPT ![t] = "wait"] /\ ~HasExited
        /\ intentional' = TRUE /\ UNCHANGED <<proc, managed, exitEvent, verdict>>
    BY <1>2 DEF StopBegins, FoundAlive, Goto, Inside, Steps
  <2>2. ~Subscribing /\ ~Overtaken /\ ~Subscribing' /\ ~Overtaken'
    BY <2>1, HolderAlone DEF Subscribing, Overtaken, RInv, IInv, TypeOK, Inside, Steps
  <2>3. \A h \in Handles : Alive(h)' <=> Alive(h)
    BY <2>1 DEF Alive, Running
  <2>4. Child' = Child /\ Strays' = Strays /\ Due' = Due
    BY <2>1, <2>2, <2>3, SameView
  <2>5. Child # NoProcess
    BY <2>1, ConstantsAssumption DEF Child, HasExited, Alive, ConstantsAssumption
  <2>6. Overtaken' = Overtaken
    BY <2>2 DEF Overtaken
  <2> QED BY <2>1, <2>4, <2>5, <2>6
          DEF Simulated, Abstract!Next, Abstract!StopBegins, Abstract!Idle, Child, Strays
<1>3. CASE StoppedGracefully(t)
  <2>1. /\ pc[t] = "wait" /\ pc[t] \in Inside \ {"subscribe"} /\ HasExited
        /\ StopAnswers(t, intentional, "stopped") /\ UNCHANGED proc
        /\ exitEvent' = [exitEvent EXCEPT ![managed] = IF Untold THEN "none" ELSE @]
    BY <1>3 DEF StoppedGracefully, WaitedFor, Inside, Steps
  <2>2. intentional
    BY <2>1 DEF RInv, IInv, Flag, FlagDuringStop
  <2>3. \A h \in Handles : Alive(h)' <=> Alive(h)
    BY <2>1 DEF Alive, Running
  <2>4. /\ \A h \in Handles : exitEvent[h] # "again"
        /\ ~Overtaken
    BY <2>1, HolderAlone
  <2>5. \A h \in Handles : exitEvent'[h] # "again"
    BY <2>1, <2>4 DEF RInv, IInv, TypeOK
  <2>6. ~Subscribing /\ ~Subscribing' /\ HasExited' = HasExited /\ Child' = Child /\ Overtaken' = FALSE
    BY <2>1, <2>3, <2>5, AnswerView
  <2>7. Strays' = Strays /\ managed' = managed
    BY <2>1, <2>3 DEF StopAnswers, Strays, HasExited, RInv, IInv, TypeOK
  <2>8. Overtaken' = Overtaken
    BY <2>4, <2>6 DEF Overtaken
  <2>9. CASE Untold
    <3>1. managed \in Due /\ Due' = Due \ {managed}
      BY <2>1, <2>3, <2>6, <2>7, <2>9 DEF Untold, Due, Subscribing, Pending, HasExited, RInv, IInv, TypeOK
    <3>2. managed \in Handles
      BY <2>9 DEF Untold
    <3> QED BY <2>1, <2>2, <2>6, <2>7, <2>8, <3>1, <3>2
            DEF StopAnswers, Simulated, Abstract!Next, Abstract!Stopped, Abstract!StopAnswers,
                Abstract!DealtWith, Child, Strays
  <2>10. CASE ~Untold
    <3>1. \A h \in Handles : exitEvent'[h] = exitEvent[h]
      BY <2>1, <2>10 DEF RInv, IInv, TypeOK
    <3>2. Due' = Due
      BY <2>3, <2>6, <3>1 DEF Due, Subscribing
    <3> QED BY <2>1, <2>2, <2>6, <2>7, <2>8, <3>2
            DEF StopAnswers, Simulated, Abstract!Next, Abstract!Stopped, Abstract!StopAnswers, Child, Strays
  <2> QED BY <2>9, <2>10
<1>4. CASE GraceOver(t)
  BY <1>4, MoveSimulated DEF GraceOver, Steps
<1>5. CASE KilledAfterTimeout(t) \/ StopFails(t)
  <2>1. /\ pc[t] \in {"wait", "kill"} /\ pc[t] \in Inside \ {"subscribe"} /\ UNCHANGED exitEvent
        /\ \A p \in Pids : Running(p)' <=> Running(p)
        /\ \/ StopAnswers(t, intentional, "stopped")
           \/ StopAnswers(t, FALSE, "stopError")
    BY <1>5 DEF KilledAfterTimeout, StopFails, Inside, Steps, Running, RInv, IInv, TypeOK
  <2>2. intentional
    BY <2>1 DEF RInv, IInv, Flag, FlagDuringStop
  <2>3. \A h \in Handles : Alive(h)' <=> Alive(h)
    BY <2>1, SameRunning DEF RInv, IInv
  <2>4. ~Overtaken /\ \A h \in Handles : exitEvent'[h] # "again"
    BY <2>1, HolderAlone
  <2>5. ~Subscribing /\ ~Subscribing' /\ HasExited' = HasExited /\ Child' = Child /\ Overtaken' = FALSE
    BY <2>1, <2>3, <2>4, AnswerView
  <2>6. Due' = Due /\ Strays' = Strays
    BY <2>1, <2>3, <2>5 DEF StopAnswers, Due, Strays, Subscribing
  <2>7. Overtaken' = Overtaken
    BY <2>4, <2>5 DEF Overtaken
  <2> QED BY <2>1, <2>2, <2>5, <2>6, <2>7
          DEF StopAnswers, Simulated, Abstract!Next, Abstract!Stopped, Abstract!StopFails,
              Abstract!StopAnswers, Child, Strays
<1> QED BY <1>1, <1>2, <1>3, <1>4, <1>5 DEF Stopping
-----------------------------------------------------------------------------
(***************************************************************************)
(* The steps of the callbacks and of the machine.                          *)
(***************************************************************************)
\* A callback that has nothing to do.
LEMMA DismissSimulated ==
  ASSUME RInv, NEW h \in Handles, exitEvent[h] \in {"raised", "cooling"}, lock = Free,
         intentional \/ ~HasExited, exitEvent' = [exitEvent EXCEPT ![h] = "none"],
         UNCHANGED <<proc, managed, intentional, pc, verdict>>
  PROVE  Simulated
<1>1. ~Alive(h) /\ h \in Due /\ ~Subscribing /\ ~Overtaken
  BY FreeSettled DEF RInv, Quiet, AliveNotDue, Due, Pending
<1>2. (\A g \in Handles : Alive(g)' <=> Alive(g)) /\ HasExited' = HasExited
  BY DEF HasExited, Alive, Running
<1>3. Child' = Child /\ Strays' = Strays
  BY <1>1, <1>2 DEF Child, Strays, RInv, IInv, TypeOK
<1>4. Due' = Due \ {h}
  BY <1>1, <1>2 DEF Due, Subscribing, Pending, RInv, IInv, TypeOK
<1>5. Overtaken' = Overtaken
  BY <1>1, <1>2, FreeSettled DEF Overtaken, RInv, IInv, TypeOK, Inside, Steps
<1>6. ~HasExited => Child # NoProcess
  BY ConstantsAssumption DEF Child, HasExited, Alive, ConstantsAssumption
<1> QED BY <1>1, <1>3, <1>4, <1>5, <1>6
        DEF Simulated, Abstract!Next, Abstract!Dismiss, Abstract!DealtWith, Abstract!Idle, Child, Strays

LEMMA CallbackSimulated == ASSUME RInv, NEW h \in Handles, OnProcessExited(h) PROVE Simulated
<1>1. CASE CheckIntent(h)
  <2>1. CASE intentional
    BY <1>1, <2>1, DismissSimulated DEF CheckIntent, Callback
  <2>2. CASE ~intentional
    <3>1. /\ exitEvent' = [exitEvent EXCEPT ![h] = "cooling"] /\ exitEvent[h] = "raised"
          /\ UNCHANGED <<proc, managed, intentional, pc, verdict>>
      BY <1>1, <2>2 DEF CheckIntent, Callback
    <3>2. ~Alive(h) /\ ~Subscribing /\ ~Overtaken
      BY <1>1, <3>1, FreeSettled DEF CheckIntent, Callback, RInv, Quiet, AliveNotDue
    <3>3. (\A g \in Handles : Alive(g)' <=> Alive(g)) /\ HasExited' = HasExited
      BY <3>1 DEF HasExited, Alive, Running
    <3>4. Child' = Child /\ Strays' = Strays
      BY <3>1, <3>2, <3>3 DEF Child, Strays, RInv, IInv, TypeOK
    <3>5. Due' = Due
      BY <3>1, <3>2, <3>3 DEF Due, Subscribing, Pending, RInv, IInv, TypeOK
    <3>6. \A s \in Threads : pc'[s] \notin {"list", "scan", "gone"}
      BY <1>1, <3>1, FreeSettled DEF CheckIntent, Callback, Inside, Steps
    <3>7. \A g \in Handles : exitEvent'[g] # "again"
      BY <1>1, <3>1, FreeSettled DEF CheckIntent, Callback, RInv, IInv, TypeOK
    <3>8. Overtaken' = Overtaken
      BY <3>2, <3>6, <3>7 DEF Overtaken
    <3> QED BY <3>1, <3>4, <3>5, <3>8 DEF Simulated, Abstract!vars, Child, Strays
  <2> QED BY <2>1, <2>2
<1>2. CASE WakeForNothing(h)
  BY <1>2, DismissSimulated DEF WakeForNothing, Callback
<1>3. CASE WakeAndRestart(h)
  <2> DEFINE handlers == [exitEvent EXCEPT ![h] = "none"]
  <2>1. /\ exitEvent[h] = "cooling" /\ lock = Free /\ ~intentional /\ HasExited
        /\ StartInternal(handlers, "restarted") /\ UNCHANGED <<pc, intentional>>
    BY <1>3 DEF WakeAndRestart, Callback, Relaunch
  <2>2. ~Alive(h) /\ ~Subscribing /\ ~Subscribing'
    BY <2>1, FreeSettled DEF RInv, Quiet, AliveNotDue, Subscribing
  <2>3. /\ handlers \in [Handles -> EventStates]
        /\ \A g \in Handles : Alive(g) => handlers[g] = exitEvent[g]
        /\ \A g \in Handles : handlers[g] \in Pending <=> exitEvent[g] \in Pending /\ g # h
    BY <2>1, <2>2 DEF Pending, EventStates, RInv, IInv, TypeOK
  <2>4. exitEvent[h] \in Pending
    BY <2>1 DEF Pending
  <2> HIDE DEF handlers
  <2> QED BY <2>1, <2>2, <2>3, <2>4, RestartSimulated
<1>4. CASE NestedRestart(h)
  <2> DEFINE handlers == [exitEvent EXCEPT ![managed] = "none", ![h] = "again"]
  <2>1. /\ exitEvent[h] = "cooling" /\ lock = Free /\ ~intentional
        /\ managed \in Handles /\ HasExited /\ exitEvent[managed] = "armed"
        /\ StartInternal(handlers, "restarted") /\ UNCHANGED <<pc, intentional>>
    BY <1>4 DEF NestedRestart, Callback, Untold
  <2>2. ~Alive(h) /\ ~Alive(managed) /\ ~Subscribing /\ ~Subscribing'
    BY <2>1, FreeSettled DEF RInv, Quiet, AliveNotDue, Subscribing, HasExited
  <2>3. /\ handlers \in [Handles -> EventStates]
        /\ \A g \in Handles : Alive(g) => handlers[g] = exitEvent[g]
        /\ \A g \in Handles : handlers[g] \in Pending <=> exitEvent[g] \in Pending /\ g # managed
    BY <2>1, <2>2 DEF Pending, EventStates, RInv, IInv, TypeOK
  <2>4. exitEvent[managed] \in Pending
    BY <2>1 DEF Pending
  <2> HIDE DEF handlers
  <2> QED BY <2>1, <2>2, <2>3, <2>4, RestartSimulated
<1>5. CASE RestartAgain(h)
  <2> DEFINE handlers == [exitEvent EXCEPT ![h] = "none"]
  <2>1. /\ exitEvent[h] = "again" /\ StartInternal(handlers, "restarted") /\ UNCHANGED <<pc, intentional>>
    BY <1>5 DEF RestartAgain, Relaunch
  <2>2. /\ ~Alive(h) /\ ~intentional /\ lock = Pool
        /\ \A s \in Threads : pc[s] \notin Inside
        /\ HasExited \/ Overtaken
    BY <2>1, ConstantsAssumption
    DEF RInv, Quiet, AliveNotDue, IInv, Control, AgainHeld, LockHeld, Overtaken, ConstantsAssumption
  <2>3. ~Subscribing /\ ~Subscribing'
    BY <2>1, <2>2 DEF Subscribing, Inside, Steps
  <2>4. /\ handlers \in [Handles -> EventStates]
        /\ \A g \in Handles : Alive(g) => handlers[g] = exitEvent[g]
        /\ \A g \in Handles : handlers[g] \in Pending <=> exitEvent[g] \in Pending /\ g # h
    BY <2>1, <2>2 DEF Pending, EventStates, RInv, IInv, TypeOK
  <2>5. exitEvent[h] \in Pending
    BY <2>1 DEF Pending
  <2> HIDE DEF handlers
  <2> QED BY <2>1, <2>2, <2>3, <2>4, <2>5, RestartSimulated
<1>6. CASE WakeCollides(h)
  <2>1. /\ lock = Free /\ managed \in Handles /\ HasExited /\ exitEvent[managed] = "armed"
        /\ exitEvent' = [exitEvent EXCEPT ![managed] = "raised"]
        /\ UNCHANGED <<proc, managed, intentional, pc, verdict>>
    BY <1>6 DEF WakeCollides, Callback, Untold
  <2>2. ~Alive(managed) /\ ~Overtaken /\ ~Overtaken'
    BY <2>1 DEF Overtaken, HasExited, Alive, Running
  <2>3. Subscribing' <=> Subscribing
    BY <2>1 DEF Subscribing
  <2> QED BY <2>1, <2>2, <2>3, NoticeSimulated
<1> QED BY <1>1, <1>2, <1>3, <1>4, <1>5, <1>6 DEF OnProcessExited

LEMMA RaisesSimulated == ASSUME RInv, NEW h \in Handles, PoolRaises(h) PROVE Simulated
<1>1. Overtaken' <=> Overtaken
  BY DEF PoolRaises, Overtaken, HasExited, Alive, Running, RInv, IInv, TypeOK
<1> QED BY <1>1, NoticeSimulated DEF PoolRaises, Alive, Subscribing

LEMMA LaunchByHandSimulated == ASSUME RInv, NEW p \in Pids, LaunchByHand(p) PROVE Simulated
<1>1. /\ p \in Unused /\ UNCHANGED <<managed, intentional, exitEvent, pc, verdict>>
      /\ \E kind \in {"live", "guarded"} : proc' = [proc EXCEPT ![p] = kind]
  BY DEF LaunchByHand
<1>2. \A g \in Handles : exitEvent[g] \in Pending => g[1] # p
  BY <1>1, UnusedHandles DEF RInv, IInv
<1>3. \A g \in Handles : g[1] # p => (Alive(g)' <=> Alive(g))
  BY <1>1 DEF Handles, Alive, Running, RInv, IInv, TypeOK
<1>4. HasExited' = HasExited
  BY <1>1, <1>3, UnusedHandles DEF HasExited, Alive, RInv, IInv
<1>5. Child' = Child /\ Strays' = Strays
  BY <1>1, <1>2, <1>3, <1>4 DEF Child, Strays, Pending
<1>6. Due' = Due
  BY <1>1, <1>2, <1>3, <1>4 DEF Due
<1>7. Overtaken' = Overtaken
  BY <1>1, <1>4 DEF Overtaken
<1> QED BY <1>1, <1>5, <1>6, <1>7 DEF Simulated, Abstract!vars, Child, Strays

LEMMA ExitSimulated == ASSUME RInv, NEW p \in Pids, ProcessExits(p) PROVE Simulated
<1> DEFINE gone == {h \in Handles : h[1] = p /\ Alive(h) /\ (h = managed \/ exitEvent[h] = "armed")}
<1>1. /\ proc' = [proc EXCEPT ![p] = "none"]
      /\ UNCHANGED <<managed, intentional, exitEvent, pc, verdict>>
  BY DEF ProcessExits
<1>2. \A g \in Handles : Alive(g)' <=> Alive(g) /\ g[1] # p
  BY <1>1 DEF Handles, Alive, Running, RInv, IInv, TypeOK
<1>3. HasExited' <=> HasExited \/ managed \in gone
  BY <1>1, <1>2 DEF HasExited, Alive
<1>4. Strays' = Strays \ gone
  BY <1>1, <1>2 DEF Strays
<1>5. Child' = IF Child \in gone THEN NoProcess ELSE Child
  BY <1>1, <1>2, <1>3, ConstantsAssumption DEF Child, HasExited, ConstantsAssumption
<1>6. gone \subseteq Strays \cup {Child}
  BY DEF Strays, Child, HasExited
<1>7. Due' = Due \cup gone
  <2> SUFFICES ASSUME NEW g \in Handles PROVE g \in Due' <=> g \in Due \/ g \in gone
      BY DEF Due
  <2>1. CASE ~Alive(g)
    BY <1>1, <1>2, <1>3, <2>1 DEF Due, HasExited
  <2>2. CASE Alive(g) /\ g[1] # p
    BY <1>1, <1>2, <1>3, <2>2 DEF Due, HasExited
  <2>3. CASE Alive(g) /\ g[1] = p
    <3>1. exitEvent[g] \in Pending => exitEvent[g] = "armed"
      BY <2>3 DEF RInv, Quiet, AliveNotDue, Pending
    <3>2. g = managed => exitEvent[g] = "armed" \/ Subscribing
      BY <2>3 DEF RInv, IInv, Watch, Supervised, Subscribing, HasExited
    <3> QED BY <1>1, <1>2, <1>3, <2>3, <3>1, <3>2 DEF Due, Subscribing, HasExited, Pending
  <2> QED BY <2>1, <2>2, <2>3
<1>8. Overtaken' <=> Overtaken /\ Child \notin gone
  BY <1>1, <1>3 DEF Overtaken, Child, HasExited
<1>9. NoProcess \notin gone
  BY ConstantsAssumption DEF ConstantsAssumption
<1> HIDE DEF gone
<1>10. CASE gone = {}
  <2>1. Overtaken' = Overtaken
    BY <1>8, <1>10 DEF Overtaken
  <2> QED BY <1>1, <1>4, <1>5, <1>7, <1>10, <2>1 DEF Simulated, Abstract!vars, Child, Strays
<1>11. CASE gone # {}
  <2>1. Overtaken' = (Overtaken /\ Child \notin gone)
    BY <1>8 DEF Overtaken
  <2>2. gone \in SUBSET (Strays \cup {Child}) /\ gone # {}
    BY <1>6, <1>11
  <2>3. UNCHANGED <<intentional, verdict>>
    BY <1>1
  <2>4. Abstract!Exit
    BY <1>4, <1>5, <1>7, <1>9, <2>1, <2>2, <2>3 DEF Abstract!Exit, Child, Strays
  <2> QED BY <2>4 DEF Simulated, Abstract!Next
<1> QED BY <1>10, <1>11

LEMMA ForgetSimulated == ASSUME RInv, RestartAgent PROVE Simulated
<1>1. Child' = NoProcess /\ Strays' = {} /\ Due' = {} /\ Overtaken' = FALSE
  BY ConstantsAssumption
  DEF RestartAgent, Child, Strays, Due, Overtaken, HasExited, Alive, Pending, ConstantsAssumption
<1> QED BY <1>1 DEF RestartAgent, Simulated, Abstract!Next, Abstract!Forget, Child, Strays

LEMMA StepSimulated == RInv /\ [Next]_vars => [Abstract!Next]_Abstract!vars
<1> SUFFICES ASSUME RInv, [Next]_vars PROVE Simulated
    BY DEF Simulated
<1>1. CASE UNCHANGED vars
  <2>1. \A h \in Handles : Alive(h)' <=> Alive(h)
    BY <1>1 DEF vars, Alive, Running
  <2>2. (Subscribing' <=> Subscribing) /\ (Overtaken' => Overtaken)
    BY <1>1 DEF vars, Subscribing, Overtaken, HasExited, Alive, Running
  <2> QED BY <1>1, <2>1, <2>2, QuietSimulated DEF vars
<1> QED
  BY <1>1, CallSimulated, EnterSimulated, CallbackInLookSimulated, CollideSimulated,
     AttachingSimulated, StartingSimulated, StoppingSimulated, GetStatusSimulated,
     RaisesSimulated, CallbackSimulated, LaunchByHandSimulated, ExitSimulated, ForgetSimulated
  DEF Next, Body

\* ProcessManager keeps the promise of Supervisor: every step of the calls, of the
\* callbacks, of the machine and of the agent's restarts is one of its steps or none.
THEOREM Implementation == Spec => ImplementsSupervisor
<1>1. Init => Abstract!Init
  BY ConstantsAssumption
  DEF ConstantsAssumption, Init, Abstract!Init, Child, Strays, Due, Overtaken, HasExited, Alive, Pending
<1>2. Spec => []RInv
  BY RInvInit, RInvStep, Inductive, PTL DEF Spec
<1> QED
  BY <1>1, <1>2, StepSimulated, PTL DEF Spec, ImplementsSupervisor, Abstract!Spec
=============================================================================
