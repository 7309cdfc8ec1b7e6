------------------------ MODULE ProcessManagerProofs ------------------------
(***************************************************************************)
(* Proofs about ProcessManager, for any threads and any processes.         *)
(***************************************************************************)
EXTENDS ProcessManager, FiniteSetTheorems, TLAPS

\* The steps a thread takes while it holds the lock.
Inside == Steps \ {"idle", "entry"}

\* Exactly the holder of the lock is inside.
LockHeld == \A t \in Threads : pc[t] \in Inside <=> lock = t

\* A callback that launches once more holds the lock, alone, with the flag down.
AgainHeld == \A h \in Handles : exitEvent[h] = "again" =>
                /\ lock = Pool /\ ~intentional /\ nested
                /\ \A g \in Handles : exitEvent[g] = "again" => g = h

\* A look that has just begun is one at a process that is gone; those whose answer a
\* callback overtook are on record.
LookGone == \A t \in Threads : /\ pc[t] = "look" => HasExited
                               /\ pc[t] \in {"list", "gone"} => nested

\* Who overlooks a live process overlooks one that a callback has just restarted.
OvertakenByRestart == Overtaken => nested /\ verdict = "restarted"

\* From the moment Stop raises the flag until it answers, the flag stays up ...
FlagDuringStop == \A t \in Threads : pc[t] \in {"wait", "kill"} => intentional

\* ... and it is still up for every callback that comes after the answer.
FlagAfterStop == verdict = "stopped" => intentional

\* The handle of an adoption is not watched yet.
AdoptedUnwatched == \A t \in Threads : pc[t] = "subscribe" =>
                        managed \in Handles /\ (nested \/ exitEvent[managed] # "armed")

\* Nothing but the tracked process is watched, unless a callback launched within a look.
WatchedIsManaged == ~nested => OnlyManagedIsWatched

Control == LockHeld /\ AgainHeld /\ LookGone /\ OvertakenByRestart

Flag == FlagDuringStop /\ FlagAfterStop

Watch == AdoptedUnwatched /\ WatchedIsManaged /\ Supervised

IInv == TypeOK /\ Control /\ Flag /\ Watch

LEMMA TypeInit == Init => TypeOK
  BY ConstantsAssumption DEF ConstantsAssumption, Init, TypeOK, EventStates, Steps, Verdicts, Operations

\* A launch leaves a new live process, tracked and watched, or no process at all.
LEMMA Launched ==
  ASSUME TypeOK, NEW handlers \in [Handles -> EventStates], NEW outcome,
         StartInternal(handlers, outcome)
  PROVE  \/ \E p \in Unused : /\ proc' = [proc EXCEPT ![p] = "live"]
                              /\ managed' = <<p, "own">> /\ managed' \in Handles
                              /\ exitEvent' = [handlers EXCEPT ![managed'] = "armed"]
                              /\ verdict' = outcome
                              /\ ~HasExited'
         \/ /\ proc' = proc
            /\ managed' = NoProcess
            /\ exitEvent' = handlers
            /\ verdict' = "failed"
            /\ HasExited'
<1>1. CASE managed' = NoProcess /\ exitEvent' = handlers /\ verdict' = "failed" /\ UNCHANGED proc
  BY <1>1, ConstantsAssumption DEF ConstantsAssumption, HasExited, Alive
<1>2. ASSUME NEW p \in Unused,
             proc' = [proc EXCEPT ![p] = "live"], managed' = <<p, "own">>,
             exitEvent' = [handlers EXCEPT ![<<p, "own">>] = "armed"], verdict' = outcome
      PROVE  managed' \in Handles /\ ~HasExited'
  BY <1>2 DEF TypeOK, Unused, Handles, HasExited, Alive, Running
<1> QED BY <1>1, <1>2 DEF StartInternal

\* A new process has no handle that is tracked, or whose event is armed or under way.
LEMMA UnusedHandles ==
  ASSUME TypeOK, NEW p \in Unused
  PROVE  /\ p \in Pids /\ ~Running(p)
         /\ managed \in Handles => managed[1] # p
         /\ \A h \in Handles : h[1] = p => exitEvent[h] \notin Pending
  BY DEF TypeOK, Unused, Handles

\* It touches no event but that of the process it launches.
LEMMA LaunchedEvents ==
  ASSUME TypeOK, NEW handlers \in [Handles -> EventStates], NEW outcome,
         StartInternal(handlers, outcome), NEW g \in Handles
  PROVE  exitEvent'[g] = handlers[g] \/ (exitEvent'[g] = "armed" /\ g = managed')
<1>1. ASSUME NEW e \in [Handles -> EventStates], NEW k \in Handles,
             e = [handlers EXCEPT ![k] = "armed"]
      PROVE  e[g] = handlers[g] \/ (e[g] = "armed" /\ g = k)
  BY <1>1
<1> QED BY <1>1, Launched DEF EventStates

LEMMA LaunchedNotAgain ==
  ASSUME TypeOK, NEW handlers \in [Handles -> EventStates], NEW outcome,
         \A g \in Handles : handlers[g] # "again", StartInternal(handlers, outcome)
  PROVE  \A g \in Handles : exitEvent'[g] # "again"
  BY LaunchedEvents

\* Launching keeps every variable it touches in its type.
LEMMA StartInternalType ==
  ASSUME TypeOK,
         NEW handlers \in [Handles -> EventStates], NEW outcome \in Verdicts,
         StartInternal(handlers, outcome)
  PROVE  /\ proc' \in [Pids -> {"none", "live", "guarded", "dying"}]
         /\ managed' \in Handles \cup {NoProcess}
         /\ exitEvent' \in [Handles -> EventStates]
         /\ verdict' \in Verdicts
  BY Launched DEF TypeOK, Unused, EventStates, Verdicts

\* Every step keeps every variable in its type.
LEMMA TypeStep == TypeOK /\ [Next]_vars => TypeOK'
<1> SUFFICES ASSUME TypeOK, [Next]_vars PROVE TypeOK'
    OBVIOUS
<1> USE ConstantsAssumption
    DEF ConstantsAssumption, TypeOK, EventStates, Steps, Verdicts, Operations, Goto, Return,
        manager, StopAnswers, Callback
<1>1. ASSUME NEW t \in Threads, Call(t) PROVE TypeOK'
  BY <1>1 DEF Call
<1>2. ASSUME NEW t \in Threads, NEW o \in Ops, Enter(t, o) PROVE TypeOK'
  BY <1>2 DEF Enter, Acquire
<1>3. ASSUME NEW t \in Threads, CallbackInLook(t) PROVE TypeOK'
  <2>1. [exitEvent EXCEPT ![managed] = "none"] \in [Handles -> EventStates]
    OBVIOUS
  <2>2. CASE intentional
    BY <1>3, <2>2 DEF CallbackInLook
  <2>3. CASE ~intentional
    <3>1. WhenGone[pc[t]] \in Steps
      BY <1>3 DEF CallbackInLook, Looking, WhenGone
    <3> QED BY <1>3, <2>1, <2>3, <3>1, StartInternalType DEF CallbackInLook
  <2> QED BY <2>2, <2>3
<1>4. ASSUME NEW t \in Threads, Collide(t) PROVE TypeOK'
  BY <1>4 DEF Collide, Looking, Untold
<1>5. ASSUME NEW t \in Threads, Attaching(t) PROVE TypeOK'
  <2>1. CASE List(t)
    BY <2>1 DEF List, Matching
  <2>2. ASSUME NEW p \in Pids, Adopt(t, p) PROVE TypeOK'
    BY <2>2 DEF Adopt, TakeOver, Handles, Matching
  <2>3. CASE FindNone(t)
    BY <2>3 DEF FindNone
  <2>4. CASE Subscribe(t)
    BY <2>4 DEF Subscribe
  <2>5. CASE SubscribeThrows(t)
    BY <2>5 DEF SubscribeThrows
  <2>6. CASE KillDuplicates(t)
    BY <2>6 DEF KillDuplicates, Duplicates
  <2> QED BY <1>5, <2>1, <2>2, <2>3, <2>4, <2>5, <2>6 DEF Attaching
<1>6. ASSUME NEW t \in Threads, Starting(t) PROVE TypeOK'
  <2>1. CASE StartAlreadyRunning(t)
    BY <2>1 DEF StartAlreadyRunning
  <2>2. CASE StartLaunches(t)
    BY <2>2, StartInternalType DEF StartLaunches
  <2> QED BY <1>6, <2>1, <2>2 DEF Starting
<1>7. ASSUME NEW t \in Threads, Stopping(t) \/ StopFails(t) PROVE TypeOK'
  <2>1. CASE StopNotRunning(t)
    BY <2>1 DEF StopNotRunning
  <2>2. CASE StopBegins(t)
    BY <2>2 DEF StopBegins
  <2>3. CASE StoppedGracefully(t)
    BY <2>3 DEF StoppedGracefully, WaitedFor
  <2>4. CASE GraceOver(t)
    BY <2>4 DEF GraceOver
  <2>5. CASE KilledAfterTimeout(t)
    BY <2>5 DEF KilledAfterTimeout
  <2>6. CASE StopFails(t)
    BY <2>6 DEF StopFails
  <2> QED BY <1>7, <2>1, <2>2, <2>3, <2>4, <2>5, <2>6 DEF Stopping
<1>8. ASSUME NEW t \in Threads, GetStatus(t) PROVE TypeOK'
  BY <1>8 DEF GetStatus, FoundAlive, FoundGone
<1>9. ASSUME NEW h \in Handles, PoolRaises(h) PROVE TypeOK'
  BY <1>9 DEF PoolRaises
<1>10. ASSUME NEW h \in Handles, OnProcessExited(h) PROVE TypeOK'
  <2>1. CASE CheckIntent(h)
    BY <2>1 DEF CheckIntent
  <2>2. CASE WakeForNothing(h)
    BY <2>2 DEF WakeForNothing
  <2>3. CASE WakeAndRestart(h)
    BY <2>3, StartInternalType DEF WakeAndRestart, Relaunch
  <2>4. CASE NestedRestart(h)
    <3>1. [exitEvent EXCEPT ![managed] = "none", ![h] = "again"] \in [Handles -> EventStates]
      OBVIOUS
    <3> QED BY <2>4, <3>1, StartInternalType DEF NestedRestart
  <2>5. CASE RestartAgain(h)
    BY <2>5, StartInternalType DEF RestartAgain, Relaunch
  <2>6. CASE WakeCollides(h)
    BY <2>6 DEF WakeCollides
  <2> QED BY <1>10, <2>1, <2>2, <2>3, <2>4, <2>5, <2>6 DEF OnProcessExited
<1>11. ASSUME NEW p \in Pids, LaunchByHand(p) PROVE TypeOK'
  BY <1>11, UnusedHandles DEF LaunchByHand
<1>12. ASSUME NEW p \in Pids, ProcessExits(p) PROVE TypeOK'
  BY <1>12 DEF ProcessExits
<1>13. CASE RestartAgent
  BY <1>13 DEF RestartAgent
<1>14. CASE UNCHANGED vars
  BY <1>14 DEF vars
<1> QED
  BY <1>1, <1>2, <1>3, <1>4, <1>5, <1>6, <1>7, <1>8, <1>9, <1>10, <1>11, <1>12, <1>13, <1>14
  DEF Next, Body

\* Every variable keeps to its values, for any threads and processes.
THEOREM TypeCorrect == Spec => []TypeOK
  BY TypeInit, TypeStep, PTL DEF Spec
-----------------------------------------------------------------------------
LEMMA IInvInit == Init => IInv
  BY TypeInit, ConstantsAssumption
  DEF Init, IInv, Control, Flag, Watch, LockHeld, AgainHeld, LookGone, OvertakenByRestart,
      Overtaken, FlagDuringStop, FlagAfterStop, AdoptedUnwatched, WatchedIsManaged,
      OnlyManagedIsWatched, Supervised, HasExited, Alive, Inside, ConstantsAssumption

\* The lock is where it belongs, and who overlooks a live process is on record.
LEMMA ControlStep == IInv /\ [Next]_vars => Control'
<1> SUFFICES ASSUME IInv, [Next]_vars PROVE Control'
    OBVIOUS
<1> USE ConstantsAssumption
    DEF ConstantsAssumption, IInv, TypeOK, Control, LockHeld, AgainHeld, LookGone,
        OvertakenByRestart, Overtaken, HasExited, Alive, Running, Inside, Steps, EventStates,
        Goto, Return, manager, StopAnswers, Callback
<1>1. ASSUME NEW t \in Threads, Call(t) PROVE Control'
  BY <1>1 DEF Call
<1>2. ASSUME NEW t \in Threads, NEW o \in Ops, Enter(t, o) PROVE Control'
  BY <1>2 DEF Enter, Acquire
<1>3. ASSUME NEW t \in Threads, CallbackInLook(t) PROVE Control'
  <2>1. pc[t] \in Inside /\ lock = t /\ HasExited
    BY <1>3 DEF CallbackInLook, Looking, Untold
  <2>2. CASE intentional
    BY <1>3, <2>1, <2>2 DEF CallbackInLook
  <2>3. CASE ~intentional
    <3>1. [exitEvent EXCEPT ![managed] = "none"] \in [Handles -> EventStates]
      OBVIOUS
    <3>2. verdict' = "restarted" \/ HasExited'
      BY <1>3, <2>3, <3>1, Launched DEF CallbackInLook
    <3>4. \A g \in Handles : [exitEvent EXCEPT ![managed] = "none"][g] # "again"
      BY <2>1
    <3>5. \A g \in Handles : exitEvent'[g] # "again"
      BY <1>3, <2>3, <3>1, <3>4, LaunchedNotAgain DEF CallbackInLook
    <3>3. WhenGone[pc[t]] \in {"list", "act", "gone"}
      BY <1>3 DEF CallbackInLook, Looking, WhenGone
    <3> QED BY <1>3, <2>1, <2>3, <3>2, <3>3, <3>5 DEF CallbackInLook
  <2> QED BY <2>2, <2>3
<1>4. ASSUME NEW t \in Threads, Collide(t) PROVE Control'
  BY <1>4 DEF Collide, Looking, Untold
<1>5. ASSUME NEW t \in Threads, Attaching(t) PROVE Control'
  <2>1. CASE List(t)
    BY <2>1 DEF List
  <2>2. ASSUME NEW p \in Pids, Adopt(t, p) PROVE Control'
    BY <2>2 DEF Adopt, TakeOver
  <2>3. CASE FindNone(t)
    BY <2>3 DEF FindNone
  <2>4. CASE Subscribe(t)
    BY <2>4 DEF Subscribe
  <2>5. CASE SubscribeThrows(t)
    BY <2>5 DEF SubscribeThrows
  <2>6. CASE KillDuplicates(t)
    BY <2>6 DEF KillDuplicates, Duplicates
  <2> QED BY <1>5, <2>1, <2>2, <2>3, <2>4, <2>5, <2>6 DEF Attaching
<1>6. ASSUME NEW t \in Threads, Starting(t) PROVE Control'
  <2>1. CASE StartAlreadyRunning(t)
    BY <2>1 DEF StartAlreadyRunning, FoundAlive
  <2>2. CASE StartLaunches(t)
    <3>1. pc[t] \in {"act", "gone"}
      BY <2>2 DEF StartLaunches, FoundGone
    <3>2. \A g \in Handles : exitEvent'[g] # "again"
      BY <2>2, <3>1, LaunchedNotAgain DEF StartLaunches
    <3> QED BY <2>2, <3>1, <3>2 DEF StartLaunches
  <2> QED BY <1>6, <2>1, <2>2 DEF Starting
<1>7. ASSUME NEW t \in Threads, Stopping(t) \/ StopFails(t) PROVE Control'
  <2>1. CASE StopNotRunning(t)
    BY <2>1 DEF StopNotRunning, FoundGone
  <2>2. CASE StopBegins(t)
    BY <2>2 DEF StopBegins, FoundAlive
  <2>3. CASE StoppedGracefully(t)
    BY <2>3 DEF StoppedGracefully, WaitedFor
  <2>4. CASE GraceOver(t)
    BY <2>4 DEF GraceOver
  <2>5. CASE KilledAfterTimeout(t)
    BY <2>5 DEF KilledAfterTimeout
  <2>6. CASE StopFails(t)
    BY <2>6 DEF StopFails
  <2> QED BY <1>7, <2>1, <2>2, <2>3, <2>4, <2>5, <2>6 DEF Stopping
<1>8. ASSUME NEW t \in Threads, GetStatus(t) PROVE Control'
  BY <1>8 DEF GetStatus, FoundAlive, FoundGone
<1>9. ASSUME NEW h \in Handles, PoolRaises(h) PROVE Control'
  BY <1>9 DEF PoolRaises
<1>10. ASSUME NEW h \in Handles, OnProcessExited(h) PROVE Control'
  <2>1. CASE CheckIntent(h)
    BY <2>1 DEF CheckIntent
  <2>2. CASE WakeForNothing(h)
    BY <2>2 DEF WakeForNothing
  <2>3. CASE WakeAndRestart(h)
    <3> DEFINE handlers == [exitEvent EXCEPT ![h] = "none"]
    <3>1. handlers \in [Handles -> EventStates] /\ \A g \in Handles : handlers[g] # "again"
      BY <2>3 DEF WakeAndRestart
    <3>2. StartInternal(handlers, "restarted")
      BY <2>3 DEF WakeAndRestart, Relaunch
    <3>3. \A g \in Handles : exitEvent'[g] # "again"
      BY <3>1, <3>2, LaunchedNotAgain
    <3> QED BY <2>3, <3>3 DEF WakeAndRestart, Relaunch
  <2>4. CASE NestedRestart(h)
    <3>1. [exitEvent EXCEPT ![managed] = "none", ![h] = "again"] \in [Handles -> EventStates]
      OBVIOUS
    <3>2. verdict' = "restarted" \/ HasExited'
      BY <2>4, <3>1, Launched DEF NestedRestart
    <3>4. \A g \in Handles :
             [exitEvent EXCEPT ![managed] = "none", ![h] = "again"][g] = "again" => g = h
      BY <2>4 DEF NestedRestart
    <3>3. \A g \in Handles : exitEvent'[g] = "again" => g = h
      BY <2>4, <3>1, <3>4, LaunchedEvents DEF NestedRestart
    <3> QED BY <2>4, <3>2, <3>3 DEF NestedRestart
  <2>5. CASE RestartAgain(h)
    <3> DEFINE handlers == [exitEvent EXCEPT ![h] = "none"]
    <3>1. handlers \in [Handles -> EventStates] /\ \A g \in Handles : handlers[g] # "again"
      BY <2>5 DEF RestartAgain
    <3>2. StartInternal(handlers, "restarted")
      BY <2>5 DEF RestartAgain, Relaunch
    <3>3. \A g \in Handles : exitEvent'[g] # "again"
      BY <3>1, <3>2, LaunchedNotAgain
    <3> QED BY <2>5, <3>3 DEF RestartAgain, Relaunch
  <2>6. CASE WakeCollides(h)
    BY <2>6 DEF WakeCollides
  <2> QED BY <1>10, <2>1, <2>2, <2>3, <2>4, <2>5, <2>6 DEF OnProcessExited
<1>11. ASSUME NEW p \in Pids, LaunchByHand(p) PROVE Control'
  BY <1>11, UnusedHandles DEF LaunchByHand
<1>12. ASSUME NEW p \in Pids, ProcessExits(p) PROVE Control'
  BY <1>12 DEF ProcessExits
<1>13. CASE RestartAgent
  BY <1>13 DEF RestartAgent
<1>14. CASE UNCHANGED vars
  BY <1>14 DEF vars
<1> QED
  BY <1>1, <1>2, <1>3, <1>4, <1>5, <1>6, <1>7, <1>8, <1>9, <1>10, <1>11, <1>12, <1>13, <1>14
  DEF Next, Body

\* The flag is up throughout a stop and after it.
LEMMA FlagStep == IInv /\ [Next]_vars => Flag'
<1> SUFFICES ASSUME IInv, [Next]_vars PROVE Flag'
    OBVIOUS
<1> USE ConstantsAssumption
    DEF ConstantsAssumption, IInv, TypeOK, Control, LockHeld, AgainHeld, Flag, FlagDuringStop,
        FlagAfterStop, Inside, Steps, Goto, Return, manager, StopAnswers, Callback
<1>1. ASSUME NEW t \in Threads, Call(t) PROVE Flag'
  BY <1>1 DEF Call
<1>2. ASSUME NEW t \in Threads, NEW o \in Ops, Enter(t, o) PROVE Flag'
  BY <1>2 DEF Enter, Acquire
<1>3. ASSUME NEW t \in Threads, CallbackInLook(t) PROVE Flag'
  <2>1. CASE intentional
    BY <1>3, <2>1 DEF CallbackInLook
  <2>2. CASE ~intentional
    <3>1. WhenGone[pc[t]] \in {"list", "act", "gone"}
      BY <1>3 DEF CallbackInLook, Looking, WhenGone
    <3>2. verdict' \in {"restarted", "failed"}
      BY <1>3, <2>2 DEF CallbackInLook, StartInternal
    <3> QED BY <1>3, <2>2, <3>1, <3>2 DEF CallbackInLook
  <2> QED BY <2>1, <2>2
<1>4. ASSUME NEW t \in Threads, Collide(t) PROVE Flag'
  BY <1>4 DEF Collide, Looking, Untold
<1>5. ASSUME NEW t \in Threads, Attaching(t) PROVE Flag'
  <2>1. CASE List(t)
    BY <2>1 DEF List
  <2>2. ASSUME NEW p \in Pids, Adopt(t, p) PROVE Flag'
    BY <2>2 DEF Adopt, TakeOver
  <2>3. CASE FindNone(t)
    BY <2>3 DEF FindNone
  <2>4. CASE Subscribe(t)
    BY <2>4 DEF Subscribe
  <2>5. CASE SubscribeThrows(t)
    BY <2>5 DEF SubscribeThrows
  <2>6. CASE KillDuplicates(t)
    BY <2>6 DEF KillDuplicates, Duplicates
  <2> QED BY <1>5, <2>1, <2>2, <2>3, <2>4, <2>5, <2>6 DEF Attaching
<1>6. ASSUME NEW t \in Threads, Starting(t) PROVE Flag'
  <2>1. CASE StartAlreadyRunning(t)
    BY <2>1 DEF StartAlreadyRunning
  <2>2. CASE StartLaunches(t)
    BY <2>2 DEF StartLaunches, FoundGone, StartInternal
  <2> QED BY <1>6, <2>1, <2>2 DEF Starting
<1>7. ASSUME NEW t \in Threads, Stopping(t) \/ StopFails(t) PROVE Flag'
  <2>1. CASE StopNotRunning(t)
    BY <2>1 DEF StopNotRunning, FoundGone
  <2>2. CASE StopBegins(t)
    BY <2>2 DEF StopBegins, FoundAlive
  <2>3. CASE StoppedGracefully(t)
    BY <2>3 DEF StoppedGracefully, WaitedFor
  <2>4. CASE GraceOver(t)
    BY <2>4 DEF GraceOver
  <2>5. CASE KilledAfterTimeout(t)
    BY <2>5 DEF KilledAfterTimeout
  <2>6. CASE StopFails(t)
    BY <2>6 DEF StopFails
  <2> QED BY <1>7, <2>1, <2>2, <2>3, <2>4, <2>5, <2>6 DEF Stopping
<1>8. ASSUME NEW t \in Threads, GetStatus(t) PROVE Flag'
  BY <1>8 DEF GetStatus, FoundAlive, FoundGone
<1>9. ASSUME NEW h \in Handles, PoolRaises(h) PROVE Flag'
  BY <1>9 DEF PoolRaises
<1>10. ASSUME NEW h \in Handles, OnProcessExited(h) PROVE Flag'
  <2>1. CASE CheckIntent(h)
    BY <2>1 DEF CheckIntent
  <2>2. CASE WakeForNothing(h)
    BY <2>2 DEF WakeForNothing
  <2>3. CASE WakeAndRestart(h)
    BY <2>3 DEF WakeAndRestart, Relaunch, StartInternal
  <2>4. CASE NestedRestart(h)
    BY <2>4 DEF NestedRestart, StartInternal
  <2>5. CASE RestartAgain(h)
    BY <2>5 DEF RestartAgain, Relaunch, StartInternal
  <2>6. CASE WakeCollides(h)
    BY <2>6 DEF WakeCollides
  <2> QED BY <1>10, <2>1, <2>2, <2>3, <2>4, <2>5, <2>6 DEF OnProcessExited
<1>11. ASSUME NEW p \in Pids, LaunchByHand(p) PROVE Flag'
  BY <1>11, UnusedHandles DEF LaunchByHand
<1>12. ASSUME NEW p \in Pids, ProcessExits(p) PROVE Flag'
  BY <1>12 DEF ProcessExits
<1>13. CASE RestartAgent
  BY <1>13 DEF RestartAgent
<1>14. CASE UNCHANGED vars
  BY <1>14 DEF vars
<1> QED
  BY <1>1, <1>2, <1>3, <1>4, <1>5, <1>6, <1>7, <1>8, <1>9, <1>10, <1>11, <1>12, <1>13, <1>14
  DEF Next, Body

\* A launch tracks and watches the process it launches, if the others are not watched.
LEMMA LaunchedWatch ==
  ASSUME TypeOK, NEW handlers \in [Handles -> EventStates], NEW outcome,
         StartInternal(handlers, outcome)
  PROVE  /\ Supervised'
         /\ (\A g \in Handles : Alive(g) => handlers[g] # "armed") /\
            (\A g \in Handles : handlers[g] = "armed" => exitEvent[g] = "armed")
               => OnlyManagedIsWatched'
<1>1. Supervised'
  BY Launched, ConstantsAssumption DEF Supervised, ConstantsAssumption
<1>2. ASSUME \A g \in Handles : Alive(g) => handlers[g] # "armed",
             \A g \in Handles : handlers[g] = "armed" => exitEvent[g] = "armed",
             NEW g \in Handles, exitEvent'[g] = "armed", Alive(g)'
      PROVE  g = managed'
  <2>1. CASE exitEvent'[g] = "armed" /\ g = managed'
    BY <2>1
  <2>2. CASE exitEvent'[g] = handlers[g]
    <3>1. exitEvent[g] \in Pending /\ ~Alive(g)
      BY <1>2, <2>2 DEF Pending
    <3>2. \A p \in Unused : g[1] # p
      BY <3>1, UnusedHandles
    <3>3. g[1] \in Pids
      BY DEF Handles
    <3> QED BY <1>2, <3>1, <3>2, <3>3, Launched DEF Alive, Running, TypeOK, Unused
  <2> QED BY <2>1, <2>2, LaunchedEvents
<1> QED BY <1>1, <1>2 DEF OnlyManagedIsWatched

LEMMA RelaunchWatch ==
  ASSUME IInv, NEW handlers \in [Handles -> EventStates], NEW outcome,
         StartInternal(handlers, outcome),
         \A g \in Handles : handlers[g] = "armed" => exitEvent[g] = "armed",
         nested => nested', HasExited \/ nested',
         \A t \in Threads : pc'[t] # "subscribe"
  PROVE  Watch'
<1>1. AdoptedUnwatched'
  BY DEF AdoptedUnwatched
<1>2. Supervised'
  BY LaunchedWatch DEF IInv
<1>3. ASSUME ~nested' PROVE OnlyManagedIsWatched'
  <2>1. \A g \in Handles : Alive(g) /\ exitEvent[g] = "armed" => g = managed
    BY <1>3 DEF IInv, Watch, WatchedIsManaged, OnlyManagedIsWatched
  <2> QED BY <1>3, <2>1, LaunchedWatch DEF IInv, HasExited
<1> QED BY <1>1, <1>2, <1>3 DEF Watch, WatchedIsManaged

\* Where the same processes run and the same events are armed, the watch stays right.
LEMMA SameRunning ==
  ASSUME TypeOK, \A p \in Pids : Running(p)' <=> Running(p)
  PROVE  \A h \in Handles : Alive(h)' <=> Alive(h)
  BY DEF Handles, Alive

LEMMA WatchStep == IInv /\ [Next]_vars => Watch'
<1> SUFFICES ASSUME IInv, [Next]_vars PROVE Watch'
    OBVIOUS
<1> USE ConstantsAssumption
    DEF ConstantsAssumption, IInv, TypeOK, Control, LockHeld, AgainHeld, LookGone,
        OvertakenByRestart, Overtaken, Watch, AdoptedUnwatched, WatchedIsManaged,
        OnlyManagedIsWatched, Supervised, HasExited, Alive, Running, Inside, Steps,
        Goto, Return, manager, StopAnswers, Callback
<1>1. ASSUME NEW t \in Threads, Call(t) PROVE Watch'
  BY <1>1 DEF Call
<1>2. ASSUME NEW t \in Threads, NEW o \in Ops, Enter(t, o) PROVE Watch'
  BY <1>2 DEF Enter, Acquire
<1>3. ASSUME NEW t \in Threads, CallbackInLook(t) PROVE Watch'
  <2>1. CASE intentional
    BY <1>3, <2>1 DEF CallbackInLook, Looking, Untold
  <2>2. CASE ~intentional
    <3> DEFINE handlers == [exitEvent EXCEPT ![managed] = "none"]
    <3>1. /\ handlers \in [Handles -> EventStates]
          /\ \A g \in Handles : handlers[g] = "armed" => exitEvent[g] = "armed"
      BY DEF EventStates
    <3>2. StartInternal(handlers, "restarted") /\ nested'
      BY <1>3, <2>2 DEF CallbackInLook
    <3>3. WhenGone[pc[t]] # "subscribe" /\ pc[t] \in Inside
      BY <1>3 DEF CallbackInLook, Looking, WhenGone
    <3>4. \A s \in Threads : pc'[s] # "subscribe"
      BY <1>3, <2>2, <3>3 DEF CallbackInLook
    <3> QED BY <3>1, <3>2, <3>4, RelaunchWatch
  <2> QED BY <2>1, <2>2
<1>4. ASSUME NEW t \in Threads, Collide(t) PROVE Watch'
  BY <1>4 DEF Collide, Looking, Untold
<1>5. ASSUME NEW t \in Threads, Attaching(t) PROVE Watch'
  <2>1. CASE List(t)
    BY <2>1 DEF List
  <2>2. ASSUME NEW p \in Pids, Adopt(t, p) PROVE Watch'
    <3>1. nested \/ \A h \in Handles : exitEvent[h] = "armed" => ~Alive(h)
      BY <2>2 DEF Adopt, TakeOver
    <3>2. managed' = <<p, "found">> /\ managed' \in Handles /\ Alive(managed') /\ pc'[t] = "subscribe"
      BY <2>2 DEF Adopt, TakeOver, Handles, Matching
    <3>3. AdoptedUnwatched' /\ Supervised'
      BY <2>2, <3>1, <3>2 DEF Adopt, TakeOver
    <3>4. WatchedIsManaged'
      BY <2>2, <3>1 DEF Adopt, TakeOver
    <3> QED BY <3>3, <3>4
  <2>3. CASE FindNone(t)
    BY <2>3 DEF FindNone
  <2>4. CASE Subscribe(t)
    BY <2>4 DEF Subscribe
  <2>5. CASE SubscribeThrows(t)
    BY <2>5 DEF SubscribeThrows
  <2>6. CASE KillDuplicates(t)
    <3>1. \A p \in Pids : Running(p)' <=> Running(p)
      BY <2>6 DEF KillDuplicates, Duplicates, Matching
    <3>2. \A h \in Handles : Alive(h)' <=> Alive(h)
      BY <3>1, SameRunning
    <3> QED BY <2>6, <3>2 DEF KillDuplicates
  <2> QED BY <1>5, <2>1, <2>2, <2>3, <2>4, <2>5, <2>6 DEF Attaching
<1>6. ASSUME NEW t \in Threads, Starting(t) PROVE Watch'
  <2>1. CASE StartAlreadyRunning(t)
    BY <2>1 DEF StartAlreadyRunning, FoundAlive
  <2>2. CASE StartLaunches(t)
    <3>1. HasExited \/ nested
      BY <2>2 DEF StartLaunches, FoundGone
    <3>2. StartInternal(exitEvent, "started") /\ nested' = nested
      BY <2>2 DEF StartLaunches
    <3>3. \A s \in Threads : pc'[s] # "subscribe"
      BY <2>2 DEF StartLaunches, FoundGone
    <3> QED BY <3>1, <3>2, <3>3, RelaunchWatch
  <2> QED BY <1>6, <2>1, <2>2 DEF Starting
<1>7. ASSUME NEW t \in Threads, Stopping(t) \/ StopFails(t) PROVE Watch'
  <2>1. CASE StopNotRunning(t)
    BY <2>1 DEF StopNotRunning, FoundGone
  <2>2. CASE StopBegins(t)
    BY <2>2 DEF StopBegins, FoundAlive
  <2>3. CASE StoppedGracefully(t)
    BY <2>3 DEF StoppedGracefully, WaitedFor
  <2>4. CASE GraceOver(t)
    BY <2>4 DEF GraceOver
  <2>5. CASE KilledAfterTimeout(t)
    <3>1. \A p \in Pids : Running(p)' <=> Running(p)
      BY <2>5 DEF KilledAfterTimeout
    <3>2. \A h \in Handles : Alive(h)' <=> Alive(h)
      BY <3>1, SameRunning
    <3> QED BY <2>5, <3>2 DEF KilledAfterTimeout
  <2>6. CASE StopFails(t)
    BY <2>6 DEF StopFails
  <2> QED BY <1>7, <2>1, <2>2, <2>3, <2>4, <2>5, <2>6 DEF Stopping
<1>8. ASSUME NEW t \in Threads, GetStatus(t) PROVE Watch'
  BY <1>8 DEF GetStatus, FoundAlive, FoundGone
<1>9. ASSUME NEW h \in Handles, PoolRaises(h) PROVE Watch'
  BY <1>9 DEF PoolRaises
<1>10. ASSUME NEW h \in Handles, OnProcessExited(h) PROVE Watch'
  <2>1. CASE CheckIntent(h)
    BY <2>1 DEF CheckIntent
  <2>2. CASE WakeForNothing(h)
    BY <2>2 DEF WakeForNothing
  <2>3. CASE WakeAndRestart(h)
    <3> DEFINE handlers == [exitEvent EXCEPT ![h] = "none"]
    <3>1. handlers \in [Handles -> EventStates] /\ \A g \in Handles : handlers[g] = "armed" => exitEvent[g] = "armed"
      BY DEF EventStates
    <3>2. StartInternal(handlers, "restarted") /\ (nested => nested') /\ (HasExited \/ nested')
      BY <2>3 DEF WakeAndRestart, Relaunch, Untold
    <3>3. \A t \in Threads : pc'[t] # "subscribe"
      BY <2>3 DEF WakeAndRestart, Relaunch
    <3> QED BY <3>1, <3>2, <3>3, RelaunchWatch DEF Watch
  <2>4. CASE NestedRestart(h)
    <3> DEFINE handlers == [exitEvent EXCEPT ![managed] = "none", ![h] = "again"]
    <3>1. handlers \in [Handles -> EventStates] /\ \A g \in Handles : handlers[g] = "armed" => exitEvent[g] = "armed"
      BY DEF EventStates
    <3>2. StartInternal(handlers, "restarted") /\ (nested => nested') /\ (HasExited \/ nested')
      BY <2>4 DEF NestedRestart, Relaunch, Untold
    <3>3. \A t \in Threads : pc'[t] # "subscribe"
      BY <2>4 DEF NestedRestart, Relaunch
    <3> QED BY <3>1, <3>2, <3>3, RelaunchWatch DEF Watch
  <2>5. CASE RestartAgain(h)
    <3> DEFINE handlers == [exitEvent EXCEPT ![h] = "none"]
    <3>1. handlers \in [Handles -> EventStates] /\ \A g \in Handles : handlers[g] = "armed" => exitEvent[g] = "armed"
      BY DEF EventStates
    <3>2. StartInternal(handlers, "restarted") /\ (nested => nested') /\ (HasExited \/ nested')
      BY <2>5 DEF RestartAgain, Relaunch, Untold
    <3>3. \A t \in Threads : pc'[t] # "subscribe"
      BY <2>5 DEF RestartAgain, Relaunch
    <3> QED BY <3>1, <3>2, <3>3, RelaunchWatch DEF Watch
  <2>6. CASE WakeCollides(h)
    BY <2>6 DEF WakeCollides, Untold
  <2> QED BY <1>10, <2>1, <2>2, <2>3, <2>4, <2>5, <2>6 DEF OnProcessExited
<1>11. ASSUME NEW p \in Pids, LaunchByHand(p) PROVE Watch'
  <2>1. proc' = [proc EXCEPT ![p] = proc'[p]] /\ proc'[p] # "none"
    BY <1>11, UnusedHandles DEF LaunchByHand
  <2>2. \A h \in Handles : exitEvent[h] = "armed" /\ Alive(h)' => Alive(h)
    BY <1>11, <2>1, UnusedHandles DEF LaunchByHand, Handles, Pending
  <2>3. HasExited' = HasExited
    BY <1>11, <2>1, UnusedHandles DEF LaunchByHand, Handles
  <2> QED BY <1>11, <2>2, <2>3 DEF LaunchByHand
<1>12. ASSUME NEW p \in Pids, ProcessExits(p) PROVE Watch'
  BY <1>12 DEF ProcessExits
<1>13. CASE RestartAgent
  BY <1>13 DEF RestartAgent
<1>14. CASE UNCHANGED vars
  BY <1>14 DEF vars
<1> QED
  BY <1>1, <1>2, <1>3, <1>4, <1>5, <1>6, <1>7, <1>8, <1>9, <1>10, <1>11, <1>12, <1>13, <1>14
  DEF Next, Body

LEMMA IInvStep == IInv /\ [Next]_vars => IInv'
  BY TypeStep, ControlStep, FlagStep, WatchStep DEF IInv

LEMMA Inductive == Spec => []IInv
  BY IInvInit, IInvStep, PTL DEF Spec

\* The tracked live process always has its exit event armed.
THEOREM SupervisedAlways == Spec => []Supervised
<1>1. IInv => Supervised
  BY DEF IInv, Watch
<1> QED BY <1>1, Inductive, PTL

\* The handle and the exit subscription never come apart, and before a callback launches
\* within a look no other live process is watched.
THEOREM WatchIsExact == Spec => []WatchedExactly
<1>1. IInv => WatchedExactly
  BY DEF IInv, Watch, WatchedIsManaged, WatchedExactly
<1> QED BY <1>1, Inductive, PTL

\* The one way to let go of a live process: a callback launched it within a look, and
\* whoever took that look goes on as if there were none.
THEOREM NeverAbandoned == Spec => ManagedNotAbandoned
<1> DEFINE Kept == managed' \notin {managed, NoProcess} /\ ~HasExited
                      => Overtaken /\ nested /\ verdict = "restarted"
<1>1. IInv /\ [Next]_vars => [Kept]_vars
  <2> SUFFICES ASSUME IInv, [Next]_vars, managed' \notin {managed, NoProcess}, ~HasExited
               PROVE  Overtaken
      BY DEF IInv, Control, OvertakenByRestart
  <2> USE DEF manager, StopAnswers, Callback, Return, Goto
  <2>1. ASSUME NEW t \in Threads, Body(t) \/ StopFails(t) PROVE Overtaken
    <3>1. pc[t] \in {"scan", "gone"}
      BY <2>1
      DEF Body, CallbackInLook, Collide, Untold, Attaching, List, Adopt, TakeOver, FindNone,
          Subscribe, SubscribeThrows, KillDuplicates, Starting, StartAlreadyRunning,
          StartLaunches, FoundGone, Stopping, StopNotRunning, StopBegins, StoppedGracefully,
          WaitedFor, GraceOver, KilledAfterTimeout, StopFails, GetStatus
    <3> QED BY <3>1 DEF Overtaken
  <2>2. ASSUME NEW h \in Handles, PoolRaises(h) \/ OnProcessExited(h) PROVE Overtaken
    BY <2>2 DEF PoolRaises, OnProcessExited, CheckIntent, WakeForNothing, WakeAndRestart,
                NestedRestart, RestartAgain, WakeCollides, Untold, Overtaken
  <2> QED
    BY <2>1, <2>2 DEF Next, Call, Enter, Acquire, LaunchByHand, ProcessExits, RestartAgent, vars
<1> QED BY <1>1, Inductive, PTL DEF Spec, ManagedNotAbandoned

\* After a Stop that answered Ok no callback launches the process again.
THEOREM StopAlwaysHolds == Spec => StopHolds
<1>1. IInv /\ [Next]_vars => [verdict = "stopped" => verdict' # "restarted"]_vars
  <2> SUFFICES ASSUME IInv, [Next]_vars, verdict = "stopped" PROVE verdict' # "restarted"
      OBVIOUS
  <2> USE DEF manager, StopAnswers, Callback, Return, Goto
  <2>0. intentional
    BY DEF IInv, Flag, FlagAfterStop
  <2>1. ASSUME NEW t \in Threads, Body(t) \/ StopFails(t) PROVE verdict' # "restarted"
    BY <2>0, <2>1
    DEF Body, CallbackInLook, Collide, Attaching, List, Adopt, TakeOver, FindNone,
        Subscribe, SubscribeThrows, KillDuplicates, Starting, StartAlreadyRunning,
        StartLaunches, StartInternal, Stopping, StopNotRunning, StopBegins, StoppedGracefully,
        WaitedFor, GraceOver, KilledAfterTimeout, StopFails, GetStatus
  <2>2. ASSUME NEW h \in Handles, PoolRaises(h) \/ OnProcessExited(h)
        PROVE  verdict' # "restarted"
    BY <2>0, <2>2 DEF IInv, Control, AgainHeld, PoolRaises, OnProcessExited, CheckIntent,
                      WakeForNothing, WakeAndRestart, NestedRestart, RestartAgain, WakeCollides
  <2> QED
    BY <2>1, <2>2 DEF Next, Call, Enter, Acquire, LaunchByHand, ProcessExits, RestartAgent, vars
<1> QED BY <1>1, Inductive, PTL DEF Spec, StopHolds
-----------------------------------------------------------------------------
(***************************************************************************)
(* No exit goes unnoticed.                                                 *)
(***************************************************************************)
\* While a process is meant to run, only a stop in progress has the flag up ...
FlagFromStop ==
    verdict \in Supposed /\ intentional => \E t \in Threads : pc[t] \in {"wait", "kill", "stuck"}

\* ... and while that stop waits, the callback of the exit has not begun.
ExitDuringStop ==
    \A t \in Threads : pc[t] \in {"wait", "kill"} /\ HasExited
        => managed \in Handles /\ exitEvent[managed] \in {"armed", "raised"}

Noticed == FlagFromStop /\ ExitDuringStop /\ CrashNoticed

LEMMA NoticedInit == Init => Noticed
  BY DEF Init, Noticed, FlagFromStop, ExitDuringStop, CrashNoticed, Supposed

\* A launch leaves a live process or none that is supposed to run.
LEMMA LaunchedNoticed ==
  ASSUME IInv, NEW handlers \in [Handles -> EventStates], NEW outcome,
         StartInternal(handlers, outcome), ~intentional',
         \A t \in Threads : pc'[t] \notin {"wait", "kill"}
  PROVE  Noticed'
  BY Launched DEF IInv, Noticed, FlagFromStop, ExitDuringStop, CrashNoticed, Supposed

LEMMA NoticedStep == IInv /\ Noticed /\ [Next]_vars => Noticed'
<1> SUFFICES ASSUME IInv, Noticed, [Next]_vars PROVE Noticed'
    OBVIOUS
<1> USE ConstantsAssumption
    DEF ConstantsAssumption, IInv, TypeOK, Control, LockHeld, AgainHeld, Flag, FlagAfterStop,
        Watch, Supervised, Noticed, FlagFromStop, ExitDuringStop, CrashNoticed, ExitMissed, Due,
        Supposed, HasExited, Alive, Running, Inside, Steps, EventStates, Pending,
        Goto, Return, manager, StopAnswers, Callback
<1>1. ASSUME NEW t \in Threads, Call(t) PROVE Noticed'
  BY <1>1 DEF Call
<1>2. ASSUME NEW t \in Threads, NEW o \in Ops, Enter(t, o) PROVE Noticed'
  BY <1>2 DEF Enter, Acquire
<1>3. ASSUME NEW t \in Threads, CallbackInLook(t) PROVE Noticed'
  <2>1. pc[t] \in Inside \ {"wait", "kill", "stuck"} /\ WhenGone[pc[t]] \notin {"wait", "kill"}
    BY <1>3 DEF CallbackInLook, Looking, WhenGone
  <2>2. CASE intentional
    BY <1>3, <2>1, <2>2 DEF CallbackInLook, Untold
  <2>3. CASE ~intentional
    <3> DEFINE handlers == [exitEvent EXCEPT ![managed] = "none"]
    <3>1. handlers \in [Handles -> EventStates]
      OBVIOUS
    <3>2. StartInternal(handlers, "restarted") /\ ~intentional'
      BY <1>3, <2>3 DEF CallbackInLook
    <3>3. \A s \in Threads : pc'[s] \notin {"wait", "kill"}
      BY <1>3, <2>1, <2>3 DEF CallbackInLook
    <3> QED BY <3>1, <3>2, <3>3, LaunchedNoticed
  <2> QED BY <2>2, <2>3
<1>4. ASSUME NEW t \in Threads, Collide(t) PROVE Noticed'
  BY <1>4 DEF Collide, Looking, Untold
<1>5. ASSUME NEW t \in Threads, Attaching(t) PROVE Noticed'
  <2>1. CASE List(t)
    BY <2>1 DEF List
  <2>2. ASSUME NEW p \in Pids, Adopt(t, p) PROVE Noticed'
    BY <2>2 DEF Adopt, TakeOver, Handles, Matching
  <2>3. CASE FindNone(t)
    BY <2>3 DEF FindNone
  <2>4. CASE Subscribe(t)
    BY <2>4 DEF Subscribe
  <2>5. CASE SubscribeThrows(t)
    BY <2>5 DEF SubscribeThrows
  <2>6. CASE KillDuplicates(t)
    <3>1. \A p \in Pids : Running(p)' <=> Running(p)
      BY <2>6 DEF KillDuplicates, Duplicates, Matching
    <3>2. \A h \in Handles : Alive(h)' <=> Alive(h)
      BY <3>1, SameRunning
    <3> QED BY <2>6, <3>2 DEF KillDuplicates
  <2> QED BY <1>5, <2>1, <2>2, <2>3, <2>4, <2>5, <2>6 DEF Attaching
<1>6. ASSUME NEW t \in Threads, Starting(t) PROVE Noticed'
  <2>1. CASE StartAlreadyRunning(t)
    BY <2>1 DEF StartAlreadyRunning, FoundAlive
  <2>2. CASE StartLaunches(t)
    <3>1. StartInternal(exitEvent, "started") /\ ~intentional'
      BY <2>2 DEF StartLaunches
    <3>2. \A s \in Threads : pc'[s] \notin {"wait", "kill"}
      BY <2>2 DEF StartLaunches, FoundGone
    <3> QED BY <3>1, <3>2, LaunchedNoticed
  <2> QED BY <1>6, <2>1, <2>2 DEF Starting
<1>7. ASSUME NEW t \in Threads, Stopping(t) \/ StopFails(t) PROVE Noticed'
  <2>1. CASE StopNotRunning(t)
    BY <2>1 DEF StopNotRunning, FoundGone
  <2>2. CASE StopBegins(t)
    BY <2>2 DEF StopBegins, FoundAlive
  <2>3. CASE StoppedGracefully(t)
    BY <2>3 DEF StoppedGracefully, WaitedFor
  <2>4. CASE GraceOver(t)
    BY <2>4 DEF GraceOver
  <2>5. CASE KilledAfterTimeout(t)
    <3>1. \A p \in Pids : Running(p)' <=> Running(p)
      BY <2>5 DEF KilledAfterTimeout
    <3>2. \A h \in Handles : Alive(h)' <=> Alive(h)
      BY <3>1, SameRunning
    <3> QED BY <2>5, <3>2 DEF KilledAfterTimeout
  <2>6. CASE StopFails(t)
    BY <2>6 DEF StopFails
  <2> QED BY <1>7, <2>1, <2>2, <2>3, <2>4, <2>5, <2>6 DEF Stopping
<1>8. ASSUME NEW t \in Threads, GetStatus(t) PROVE Noticed'
  BY <1>8 DEF GetStatus, FoundAlive, FoundGone
<1>9. ASSUME NEW h \in Handles, PoolRaises(h) PROVE Noticed'
  BY <1>9 DEF PoolRaises
<1>10. ASSUME NEW h \in Handles, OnProcessExited(h) PROVE Noticed'
  <2>1. CASE CheckIntent(h)
    BY <2>1 DEF CheckIntent
  <2>2. CASE WakeForNothing(h)
    BY <2>2 DEF WakeForNothing
  <2>3. CASE WakeAndRestart(h)
    <3> DEFINE handlers == [exitEvent EXCEPT ![h] = "none"]
    <3>1. handlers \in [Handles -> EventStates]
      OBVIOUS
    <3>2. StartInternal(handlers, "restarted") /\ ~intentional'
      BY <2>3 DEF WakeAndRestart, Relaunch
    <3>3. \A t \in Threads : pc'[t] \notin {"wait", "kill"}
      BY <2>3 DEF WakeAndRestart, Relaunch
    <3> QED BY <3>1, <3>2, <3>3, LaunchedNoticed
  <2>4. CASE NestedRestart(h)
    <3> DEFINE handlers == [exitEvent EXCEPT ![managed] = "none", ![h] = "again"]
    <3>1. handlers \in [Handles -> EventStates]
      OBVIOUS
    <3>2. StartInternal(handlers, "restarted") /\ ~intentional'
      BY <2>4 DEF NestedRestart, Relaunch
    <3>3. \A t \in Threads : pc'[t] \notin {"wait", "kill"}
      BY <2>4 DEF NestedRestart, Relaunch
    <3> QED BY <3>1, <3>2, <3>3, LaunchedNoticed
  <2>5. CASE RestartAgain(h)
    <3> DEFINE handlers == [exitEvent EXCEPT ![h] = "none"]
    <3>1. handlers \in [Handles -> EventStates]
      OBVIOUS
    <3>2. StartInternal(handlers, "restarted") /\ ~intentional'
      BY <2>5 DEF RestartAgain, Relaunch
    <3>3. \A t \in Threads : pc'[t] \notin {"wait", "kill"}
      BY <2>5 DEF RestartAgain, Relaunch
    <3> QED BY <3>1, <3>2, <3>3, LaunchedNoticed
  <2>6. CASE WakeCollides(h)
    BY <2>6 DEF WakeCollides, Untold
  <2> QED BY <1>10, <2>1, <2>2, <2>3, <2>4, <2>5, <2>6 DEF OnProcessExited
<1>11. ASSUME NEW p \in Pids, LaunchByHand(p) PROVE Noticed'
  BY <1>11, UnusedHandles DEF LaunchByHand
<1>12. ASSUME NEW p \in Pids, ProcessExits(p) PROVE Noticed'
  BY <1>12 DEF ProcessExits
<1>13. CASE RestartAgent
  BY <1>13 DEF RestartAgent
<1>14. CASE UNCHANGED vars
  BY <1>14 DEF vars
<1> QED
  BY <1>1, <1>2, <1>3, <1>4, <1>5, <1>6, <1>7, <1>8, <1>9, <1>10, <1>11, <1>12, <1>13, <1>14
  DEF Next, Body

\* From the exit of the tracked process until it is launched again or stopped a callback is
\* on its way, whatever calls, failed stops and other processes come between.
THEOREM NoCrashUnnoticed == Spec => []CrashNoticed
<1>1. Noticed => CrashNoticed
  BY DEF Noticed
<1> QED BY <1>1, NoticedInit, NoticedStep, Inductive, PTL DEF Spec
-----------------------------------------------------------------------------
(***************************************************************************)
(* Where nobody else launches the executable and every scan succeeds, at   *)
(* most one process runs until a callback launches within a look.  The     *)
(* argument needs to know what a scan in progress has still to look at,    *)
(* and that whoever may launch next (a call past its scan, a pending       *)
(* callback) tracks all there is.                                          *)
(***************************************************************************)
AgentAlone == ~ManualLaunches /\ ~ScanFaults

Unguarded == \A p \in Pids : proc[p] # "guarded"

QueryLooksOnly == \A t \in Threads : op[t] = "query" => pc[t] \in {"act", "gone", "stuck"}

AtMostOneRuns == \A p, q \in Pids : Running(p) /\ Running(q) => p = q

ScanSeesAll == \A t \in Threads : pc[t] = "scan" => \A p \in Pids : Running(p) => p \in candidates

PastScan == \E t \in Threads : /\ pc[t] \in {"subscribe", "attached", "act", "wait", "kill"}
                               /\ op[t] # "query"

EventPending == \E h \in Handles : exitEvent[h] \in Pending

Tracked(p) == managed \in Handles /\ p = managed[1]

AllTracked == \A p \in Pids : Running(p) => Tracked(p)

RunningIsTracked == PastScan \/ EventPending => AllTracked

Alone == Unguarded /\ QueryLooksOnly /\ (~nested => AtMostOneRuns /\ ScanSeesAll /\ RunningIsTracked)

LEMMA AloneInit == Init => Alone
  BY DEF Init, Alone, Unguarded, QueryLooksOnly, AtMostOneRuns, ScanSeesAll, RunningIsTracked, AllTracked, Running

\* A launch where nothing runs leaves at most what it launched.
LEMMA LaunchedAlone ==
  ASSUME IInv, Unguarded, nested' \/ \A p \in Pids : ~Running(p),
         NEW handlers \in [Handles -> EventStates], NEW outcome,
         StartInternal(handlers, outcome),
         \A t \in Threads : pc'[t] # "scan", QueryLooksOnly'
  PROVE  Alone'
<1>1. Unguarded'
  BY Launched DEF IInv, TypeOK, Unguarded, Unused
<1>2. ASSUME ~nested' PROVE AllTracked'
  <2>1. \A p \in Pids : proc[p] = "none"
    BY <1>2 DEF Running
  <2>2. ASSUME NEW p \in Pids, Running(p)' PROVE Tracked(p)'
    <3>1. CASE proc' = proc
      BY <2>1, <2>2, <3>1 DEF Running
    <3>2. CASE proc' # proc
      <4>1. PICK q \in Unused : proc' = [proc EXCEPT ![q] = "live"] /\ managed' = <<q, "own">>
                                /\ managed' \in Handles
        BY <3>2, Launched DEF IInv
      <4>2. p = q
        BY <2>1, <2>2, <4>1 DEF Running, IInv, TypeOK
      <4> QED BY <4>1, <4>2 DEF Tracked
    <3> QED BY <3>1, <3>2
  <2> QED BY <2>2 DEF AllTracked
<1>3. AllTracked' => AtMostOneRuns'
  BY DEF AllTracked, Tracked, AtMostOneRuns
<1> QED BY <1>1, <1>2, <1>3 DEF Alone, ScanSeesAll, RunningIsTracked

LEMMA AloneStep == AgentAlone /\ IInv /\ Alone /\ [Next]_vars => Alone'
<1> SUFFICES ASSUME AgentAlone, IInv, Alone, [Next]_vars PROVE Alone'
    OBVIOUS
<1> USE ConstantsAssumption
    DEF ConstantsAssumption, AgentAlone, IInv, TypeOK, Control, LockHeld, LookGone, AgainHeld,
        Alone, Unguarded, QueryLooksOnly, AtMostOneRuns, ScanSeesAll, RunningIsTracked, AllTracked, Tracked,
        PastScan, EventPending, HasExited, Alive, Running, Inside, Steps, EventStates, Pending,
        Goto, Return, manager, StopAnswers, Callback
<1>1. ASSUME NEW t \in Threads, Call(t) PROVE Alone'
  BY <1>1 DEF Call
<1>2. ASSUME NEW t \in Threads, NEW o \in Ops, Enter(t, o) PROVE Alone'
  <2>1. \A s \in Threads \ {t} : pc[s] \notin Inside
    BY <1>2 DEF Enter, Acquire
  <2>2. CASE o = "query"
    BY <1>2, <2>1, <2>2 DEF Enter, Acquire
  <2>3. CASE o # "query" /\ HasExited
    BY <1>2, <2>1, <2>3 DEF Enter, Acquire
  <2>4. CASE o # "query" /\ ~HasExited
    <3>1. nested \/ AllTracked
      BY <2>4 DEF Handles
    <3> QED BY <1>2, <2>1, <2>4, <3>1 DEF Enter, Acquire
  <2> QED BY <2>2, <2>3, <2>4
<1>3. ASSUME NEW t \in Threads, CallbackInLook(t) PROVE Alone'
  <2>1. /\ pc[t] \in Inside /\ WhenGone[pc[t]] # "scan"
        /\ op[t] = "query" => WhenGone[pc[t]] = "gone"
    BY <1>3 DEF CallbackInLook, Looking, WhenGone
  <2>2. CASE intentional
    BY <1>3, <2>1, <2>2 DEF CallbackInLook, Untold
  <2>3. CASE ~intentional
    <3> DEFINE handlers == [exitEvent EXCEPT ![managed] = "none"]
    <3>1. handlers \in [Handles -> EventStates]
      OBVIOUS
    <3>2. StartInternal(handlers, "restarted") /\ nested'
      BY <1>3, <2>3 DEF CallbackInLook
    <3>3. (\A s \in Threads : pc'[s] # "scan") /\ QueryLooksOnly'
      BY <1>3, <2>1, <2>3 DEF CallbackInLook
    <3> QED BY <3>1, <3>2, <3>3, LaunchedAlone
  <2> QED BY <2>2, <2>3
<1>4. ASSUME NEW t \in Threads, Collide(t) PROVE Alone'
  BY <1>4 DEF Collide, Looking, Untold
<1>5. ASSUME NEW t \in Threads, Attaching(t) PROVE Alone'
  <2>1. CASE List(t)
    BY <2>1 DEF List, Matching
  <2>2. ASSUME NEW p \in Pids, Adopt(t, p) PROVE Alone'
    BY <2>2 DEF Adopt, TakeOver, Handles, Matching
  <2>3. CASE FindNone(t)
    BY <2>3 DEF FindNone, Matching
  <2>4. CASE Subscribe(t)
    BY <2>4 DEF Subscribe
  <2>5. CASE SubscribeThrows(t)
    BY <2>5 DEF SubscribeThrows
  <2>6. CASE KillDuplicates(t)
    <3>1. \A p \in Pids : Running(p)' <=> Running(p)
      BY <2>6 DEF KillDuplicates, Duplicates, Matching
    <3> QED BY <2>6, <3>1 DEF KillDuplicates, Duplicates, Matching
  <2> QED BY <1>5, <2>1, <2>2, <2>3, <2>4, <2>5, <2>6 DEF Attaching
<1>6. ASSUME NEW t \in Threads, Starting(t) PROVE Alone'
  <2>1. CASE StartAlreadyRunning(t)
    BY <2>1 DEF StartAlreadyRunning, FoundAlive
  <2>2. CASE StartLaunches(t)
    <3>1. StartInternal(exitEvent, "started") /\ nested' = nested
      BY <2>2 DEF StartLaunches
    <3>2. nested \/ (HasExited /\ PastScan)
      BY <2>2 DEF StartLaunches, FoundGone
    <3>3. nested' \/ \A p \in Pids : ~Running(p)
      BY <3>1, <3>2
    <3>4. (\A s \in Threads : pc'[s] # "scan") /\ QueryLooksOnly'
      BY <2>2 DEF StartLaunches, FoundGone
    <3> QED BY <3>1, <3>3, <3>4, LaunchedAlone
  <2> QED BY <1>6, <2>1, <2>2 DEF Starting
<1>7. ASSUME NEW t \in Threads, Stopping(t) \/ StopFails(t) PROVE Alone'
  <2>1. CASE StopNotRunning(t)
    BY <2>1 DEF StopNotRunning, FoundGone
  <2>2. CASE StopBegins(t)
    BY <2>2 DEF StopBegins, FoundAlive
  <2>3. CASE StoppedGracefully(t)
    BY <2>3 DEF StoppedGracefully, WaitedFor
  <2>4. CASE GraceOver(t)
    BY <2>4 DEF GraceOver
  <2>5. CASE KilledAfterTimeout(t)
    BY <2>5 DEF KilledAfterTimeout
  <2>6. CASE StopFails(t)
    BY <2>6 DEF StopFails
  <2> QED BY <1>7, <2>1, <2>2, <2>3, <2>4, <2>5, <2>6 DEF Stopping
<1>8. ASSUME NEW t \in Threads, GetStatus(t) PROVE Alone'
  BY <1>8 DEF GetStatus, FoundAlive, FoundGone
<1>9. ASSUME NEW h \in Handles, PoolRaises(h) PROVE Alone'
  BY <1>9 DEF PoolRaises
<1>10. ASSUME NEW h \in Handles, OnProcessExited(h) PROVE Alone'
  <2>1. CASE CheckIntent(h)
    BY <2>1 DEF CheckIntent
  <2>2. CASE WakeForNothing(h)
    BY <2>2 DEF WakeForNothing
  <2>3. CASE WakeAndRestart(h)
    <3> DEFINE handlers == [exitEvent EXCEPT ![h] = "none"]
    <3>1. handlers \in [Handles -> EventStates]
      OBVIOUS
    <3>2. StartInternal(handlers, "restarted") /\ HasExited /\ EventPending /\ nested' = nested
      BY <2>3 DEF WakeAndRestart, Relaunch
    <3>3. nested' \/ \A p \in Pids : ~Running(p)
      BY <3>2
    <3>4. (\A t \in Threads : pc'[t] # "scan") /\ QueryLooksOnly'
      BY <2>3 DEF WakeAndRestart, Relaunch
    <3> QED BY <3>1, <3>2, <3>3, <3>4, LaunchedAlone
  <2>4. CASE NestedRestart(h)
    <3> DEFINE handlers == [exitEvent EXCEPT ![managed] = "none", ![h] = "again"]
    <3>1. handlers \in [Handles -> EventStates]
      OBVIOUS
    <3>2. StartInternal(handlers, "restarted") /\ nested'
      BY <2>4 DEF NestedRestart, Relaunch
    <3>3. (\A t \in Threads : pc'[t] # "scan") /\ QueryLooksOnly'
      BY <2>4 DEF NestedRestart, Relaunch
    <3> QED BY <3>1, <3>2, <3>3, LaunchedAlone
  <2>5. CASE RestartAgain(h)
    <3> DEFINE handlers == [exitEvent EXCEPT ![h] = "none"]
    <3>1. handlers \in [Handles -> EventStates]
      OBVIOUS
    <3>2. StartInternal(handlers, "restarted") /\ nested'
      BY <2>5 DEF RestartAgain, Relaunch
    <3>3. (\A t \in Threads : pc'[t] # "scan") /\ QueryLooksOnly'
      BY <2>5 DEF RestartAgain, Relaunch
    <3> QED BY <3>1, <3>2, <3>3, LaunchedAlone
  <2>6. CASE WakeCollides(h)
    BY <2>6 DEF WakeCollides, Untold
  <2> QED BY <1>10, <2>1, <2>2, <2>3, <2>4, <2>5, <2>6 DEF OnProcessExited
<1>11. ASSUME NEW p \in Pids, LaunchByHand(p) PROVE Alone'
  BY <1>11 DEF LaunchByHand
<1>12. ASSUME NEW p \in Pids, ProcessExits(p) PROVE Alone'
  BY <1>12 DEF ProcessExits
<1>13. CASE RestartAgent
  BY <1>13 DEF RestartAgent
<1>14. CASE UNCHANGED vars
  BY <1>14 DEF vars
<1> QED
  BY <1>1, <1>2, <1>3, <1>4, <1>5, <1>6, <1>7, <1>8, <1>9, <1>10, <1>11, <1>12, <1>13, <1>14
  DEF Next, Body

\* Users and faults away, the agent has two live copies of the executable only after a
\* callback has launched within a look.
THEOREM NoDuplicatesAlone == AgentAlone /\ Spec => []NoAgentDuplicates
<1>1. Alone => NoAgentDuplicates
  <2> DEFINE S == {p \in Pids : proc[p] = "live"}
  <2> SUFFICES ASSUME Alone, ~nested PROVE Cardinality(S) <= 1
      BY DEF NoAgentDuplicates
  <2>1. CASE S = {}
    BY <2>1, FS_EmptySet
  <2>2. CASE S # {}
    <3>1. PICK p \in S : TRUE
      BY <2>2
    <3>2. S = {p}
      BY <3>1 DEF Alone, AtMostOneRuns, Running
    <3> QED BY <3>2, FS_Singleton
  <2> QED BY <2>1, <2>2
<1>2. AgentAlone /\ Init /\ [][Next]_vars => []Alone
  <2> SUFFICES ASSUME AgentAlone PROVE Init /\ [][Next]_vars => []Alone
      OBVIOUS
  <2>1. IInv /\ Alone /\ [Next]_vars => Alone'
    BY AloneStep
  <2> QED BY AloneInit, <2>1, Inductive, PTL DEF Spec
<1> QED BY <1>1, <1>2, PTL DEF Spec
=============================================================================
