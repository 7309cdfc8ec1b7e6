------------------------- MODULE AppLifecycleProofs -------------------------
(***************************************************************************)
(* Proofs about AppLifecycle, for any connections, scopes and processes.   *)
(***************************************************************************)
EXTENDS AppLifecycle, FiniteSetTheorems, TLAPS

LEMMA TypeInit == Init => TypeOK
<1> SUFFICES ASSUME Init PROVE TypeOK
    OBVIOUS
<1>1. /\ built \in [Scopes -> Defs \cup {NoDef}] /\ child \in [Scopes -> Handles \cup {NoProcess}]
      /\ hold \in [Scopes -> BOOLEAN]
  BY DEF Init
<1>2. pc \in [Callers -> {"boot", "idle"}]
  BY DEF Init
<1>3. /\ op \in [Callers -> {"none"}] /\ def \in [Callers -> {NoDef}]
      /\ mine \in [Callers -> {NoScope}]
  BY DEF Init
<1> QED BY <1>1, <1>2, <1>3 DEF Init, TypeOK

\* A launch leaves handles, events and processes of their kinds.
LEMMA LaunchedType ==
  ASSUME TypeOK, NEW s \in Scopes, NEW watches, watches \subseteq Scopes \X Handles,
         NEW ps \in SUBSET Pids, NEW h \in Handles \cup {NoProcess}, Launched(s, watches, ps, h)
  PROVE  /\ child' \in [Scopes -> Handles \cup {NoProcess}]
         /\ watched' \subseteq Scopes \X Handles /\ alive' \subseteq Pids
<1>1. {s} \X (ps \X {"own"}) \subseteq Scopes \X Handles
  BY DEF Handles
<1> QED BY <1>1 DEF TypeOK, Launched

LEMMA LaunchType ==
  ASSUME TypeOK, NEW s \in Scopes, NEW watches, watches \subseteq Scopes \X Handles,
         Launch(s, watches)
  PROVE  /\ child' \in [Scopes -> Handles \cup {NoProcess}]
         /\ watched' \subseteq Scopes \X Handles /\ alive' \subseteq Pids
<1>1. CASE Launched(s, watches, {}, NoProcess)
  BY <1>1, LaunchedType
<1>2. ASSUME NEW p \in Unused, Launched(s, watches, {p}, <<p, "own">>)
      PROVE  /\ child' \in [Scopes -> Handles \cup {NoProcess}]
             /\ watched' \subseteq Scopes \X Handles /\ alive' \subseteq Pids
  <2>1. p \in Pids /\ <<p, "own">> \in Handles /\ {p} \in SUBSET Pids
    BY DEF Unused, Handles
  <2> QED BY <1>2, <2>1, LaunchedType
<1> QED BY <1>1, <1>2 DEF Launch

\* A caller that has its scope has one.
HasScope == {"scoped", "unstarted"} \cup Inside
Scoped == \A t \in Callers : pc[t] \in HasScope => mine[t] \in Scopes

LEMMA ScopedStep == TypeOK /\ Scoped /\ [Next]_vars => Scoped'
<1> SUFFICES ASSUME TypeOK, Scoped, [Next]_vars PROVE Scoped'
    OBVIOUS
<1> USE DEF TypeOK, Scoped, HasScope, Inside, Callers, Goto, Begin, Return, calls
<1>1. ASSUME NEW t \in Threads, NEW d \in Defs, Register(t, d) PROVE Scoped'
  BY <1>1 DEF Register
<1>2. ASSUME NEW t \in Threads, NEW o \in Ops, Lookup(t, o) PROVE Scoped'
  BY <1>2 DEF Lookup
<1>3. ASSUME NEW t \in Threads, Unregister(t) PROVE Scoped'
  BY <1>3 DEF Unregister, UnregisterChecks, CallbackInCheck, UnregisterHangs, UnregisterFindsNone,
              UnregisterRemoves, Forget
<1>4. CASE Boot
  BY <1>4 DEF Boot
<1>5. ASSUME NEW t \in Callers, EnsureScope(t) PROVE Scoped'
  BY <1>5 DEF EnsureScope, NewScope, Unreferenced
<1>6. ASSUME NEW t \in Callers, Registered(t) \/ BootSkips(t) \/ Answers(t) \/ Start(t)
      PROVE  Scoped'
  BY <1>6 DEF Registered, BootSkips, Answers, Start
<1>7. ASSUME NEW t \in Callers, Stop(t) \/ Collide(t) PROVE Scoped'
  BY <1>7 DEF Stop, Collide, Hangs
<1>8. ASSUME NEW t \in Callers, CallbackInLook(t) PROVE Scoped'
  <2>1. pc[t] \in HasScope /\ UNCHANGED mine
    BY <1>8 DEF CallbackInLook, Looking, Asking, Entering
  <2>2. pc' = pc \/ Goto(t, WhenGone(t))
    BY <1>8 DEF CallbackInLook
  <2> QED BY <2>1, <2>2
<1>9. ASSUME NEW t \in Callers,
             \/ BootGoesOn(t) \/ Stays(t) \/ FindNone(t) \/ KillDuplicates(t)
             \/ \E p \in Pids : Adopt(t, p)
      PROVE  Scoped'
  BY <1>9 DEF BootGoesOn, Stays, FindNone, Adopt, KillDuplicates, Scanning, Asking, Entering
<1>10. ASSUME NEW p \in Pids, Exits(p) PROVE Scoped'
  BY <1>10 DEF Exits
<1>11. ASSUME NEW s \in Scopes, NEW h \in Handles, OnProcessExited(s, h) PROVE Scoped'
  BY <1>11 DEF OnProcessExited, PoolRaises, Handled, Restart, RestartTwice, RestartCollides
<1>12. CASE RestartAgent
  BY <1>12 DEF RestartAgent
<1>13. CASE UNCHANGED vars
  BY <1>13 DEF vars
<1> QED
  BY <1>1, <1>2, <1>3, <1>4, <1>5, <1>6, <1>7, <1>8, <1>9, <1>10, <1>11, <1>12, <1>13
  DEF Next, Routed, Operate

\* Every action keeps every variable to its values.
LEMMA TypeStep == TypeOK /\ Scoped /\ [Next]_vars => TypeOK'
<1> SUFFICES ASSUME TypeOK, Scoped, [Next]_vars PROVE TypeOK'
    OBVIOUS
<1> USE LifecycleAssumption
    DEF LifecycleAssumption, Commands, Inside, TypeOK, Goto, Begin, Return, service, calls,
        managers, history
<1>1. ASSUME NEW t \in Threads, NEW d \in Defs, Register(t, d) PROVE TypeOK'
  BY <1>1 DEF Register, Meets
<1>2. ASSUME NEW t \in Threads, NEW o \in Ops, Lookup(t, o) PROVE TypeOK'
  BY <1>2 DEF Lookup, Meets
<1>3. ASSUME NEW t \in Threads, Unregister(t) PROVE TypeOK'
  <2>1. CASE UnregisterHangs(t)
    BY <2>1 DEF UnregisterHangs
  <2>2. CASE UnregisterChecks(t) \/ UnregisterFindsNone(t) \/ Forget(t)
    BY <2>2 DEF UnregisterChecks, UnregisterFindsNone, Forget
  <2>3. CASE UnregisterRemoves(t)
    BY <2>3 DEF UnregisterRemoves
  <2>4. CASE CallbackInCheck(t)
    <3>1. CASE Launch(scope, watched \ {<<scope, child[scope]>>}) /\ overtaken' = TRUE
      <4>1. scope \in Scopes
        BY <2>4 DEF CallbackInCheck
      <4>2. /\ child' \in [Scopes -> Handles \cup {NoProcess}]
            /\ watched' \subseteq Scopes \X Handles /\ alive' \subseteq Pids
        BY <3>1, <4>1, LaunchType
      <4> QED BY <2>4, <3>1, <4>2 DEF CallbackInCheck
    <3>2. CASE UNCHANGED <<child, alive, overtaken>> /\ watched' \subseteq watched
      BY <2>4, <3>2 DEF CallbackInCheck
    <3> QED BY <2>4, <3>1, <3>2 DEF CallbackInCheck
  <2> QED BY <1>3, <2>1, <2>2, <2>3, <2>4 DEF Unregister
<1>4. CASE Boot
  BY <1>4 DEF Boot, Meets
<1>5. ASSUME NEW t \in Callers, EnsureScope(t) PROVE TypeOK'
  <2>1. CASE /\ scope # NoScope /\ mine' = [mine EXCEPT ![t] = scope]
             /\ UNCHANGED <<scope, built, child, hold>>
    BY <1>5, <2>1 DEF EnsureScope
  <2>2. ASSUME NEW s \in Unreferenced,
               scope' = s, built' = [built EXCEPT ![s] = def[t]],
               child' = [child EXCEPT ![s] = NoProcess], hold' = [hold EXCEPT ![s] = FALSE],
               mine' = [mine EXCEPT ![t] = s]
        PROVE  TypeOK'
    BY <1>5, <2>2 DEF EnsureScope, Unreferenced
  <2> QED BY <1>5, <2>1, <2>2 DEF EnsureScope, NewScope
<1>6. ASSUME NEW t \in Callers, Registered(t) \/ Operate(t) PROVE TypeOK'
  <2>1. CASE Registered(t) \/ BootSkips(t) \/ Answers(t)
    BY <2>1 DEF Registered, BootSkips, Answers
  <2>2. CASE BootGoesOn(t) \/ Stays(t) \/ FindNone(t)
    BY <2>2 DEF BootGoesOn, Stays, FindNone
  <2> SUFFICES ASSUME CallbackInLook(t) \/ Collide(t) \/ (\E p \in Pids : Adopt(t, p))
                      \/ KillDuplicates(t) \/ Start(t) \/ Stop(t)
               PROVE  TypeOK'
      BY <1>6, <2>1, <2>2 DEF Operate
  <2>3. mine[t] \in Scopes
    BY DEF Scoped, HasScope, CallbackInLook, Collide, Looking, Adopt, KillDuplicates, Start, Stop,
           Asking, Entering, Scanning, FoundAlive, FoundGone
  <2>4. CASE CallbackInLook(t)
    <3>1. CASE /\ watched' = watched \ {<<mine[t], child[mine[t]]>>}
               /\ UNCHANGED <<child, alive, pc, overtaken>>
      BY <2>4, <3>1 DEF CallbackInLook
    <3>2. CASE /\ Launch(mine[t], watched \ {<<mine[t], child[mine[t]]>>})
               /\ Goto(t, WhenGone(t)) /\ overtaken' = TRUE
      <4>1. WhenGone(t) \in {"unstarted"} \cup Inside
        BY DEF WhenGone
      <4>2. /\ child' \in [Scopes -> Handles \cup {NoProcess}]
            /\ watched' \subseteq Scopes \X Handles /\ alive' \subseteq Pids
        BY <2>3, <3>2, LaunchType
      <4> QED BY <2>4, <3>2, <4>1, <4>2 DEF CallbackInLook
    <3> QED BY <2>4, <3>1, <3>2 DEF CallbackInLook
  <2>5. CASE Collide(t)
    BY <2>3, <2>5 DEF Collide, Hangs
  <2>6. ASSUME NEW p \in Pids, Adopt(t, p) PROVE TypeOK'
    BY <2>3, <2>6 DEF Adopt, Watch, Handles
  <2>7. CASE KillDuplicates(t)
    <3>1. alive' \subseteq Pids
      BY <2>7 DEF KillDuplicates, Running, Handles
    <3> QED BY <2>7, <3>1 DEF KillDuplicates
  <2>8. CASE Start(t)
    <3>1. /\ child' \in [Scopes -> Handles \cup {NoProcess}]
          /\ watched' \subseteq Scopes \X Handles /\ alive' \subseteq Pids
      BY <2>3, <2>8, LaunchType DEF Start
    <3> QED BY <2>8, <3>1 DEF Start
  <2>9. CASE Stop(t)
    BY <2>3, <2>9 DEF Stop, Hangs
  <2> QED BY <2>4, <2>5, <2>6, <2>7, <2>8, <2>9
<1>7. ASSUME NEW p \in Pids, Exits(p) PROVE TypeOK'
  BY <1>7 DEF Exits
<1>8. ASSUME NEW s \in Scopes, NEW h \in Handles, OnProcessExited(s, h) PROVE TypeOK'
  <2>1. CASE PoolRaises(s, h) \/ Handled(s, h) \/ RestartCollides(s, h)
    BY <2>1 DEF PoolRaises, Handled, RestartCollides
  <2>2. CASE Restart(s, h)
    <3>1. /\ child' \in [Scopes -> Handles \cup {NoProcess}]
          /\ watched' \subseteq Scopes \X Handles /\ alive' \subseteq Pids
      BY <2>2, LaunchType DEF Restart
    <3> QED BY <2>2, <3>1 DEF Restart
  <2>3. CASE RestartTwice(s, h)
    <3> DEFINE watches == watched \ {<<s, child[s]>>}
    <3>1. watches \subseteq Scopes \X Handles
      OBVIOUS
    <3> HIDE DEF watches
    <3>2. /\ child' \in [Scopes -> Handles \cup {NoProcess}]
          /\ watched' \subseteq Scopes \X Handles /\ alive' \subseteq Pids
      <4>1. CASE Launch(s, watches)
        BY <3>1, <4>1, LaunchType
      <4>2. ASSUME NEW p \in Unused, Launched(s, watches, {p}, NoProcess)
            PROVE  /\ child' \in [Scopes -> Handles \cup {NoProcess}]
                   /\ watched' \subseteq Scopes \X Handles /\ alive' \subseteq Pids
        <5>1. {p} \in SUBSET Pids
          BY DEF Unused
        <5> QED BY <3>1, <4>2, <5>1, LaunchedType
      <4>3. ASSUME NEW p \in Unused, NEW q \in Unused, Launched(s, watches, {p, q}, <<q, "own">>)
            PROVE  /\ child' \in [Scopes -> Handles \cup {NoProcess}]
                   /\ watched' \subseteq Scopes \X Handles /\ alive' \subseteq Pids
        <5>1. {p, q} \in SUBSET Pids /\ <<q, "own">> \in Handles
          BY DEF Unused, Handles
        <5> QED BY <3>1, <4>3, <5>1, LaunchedType
      <4> QED BY <2>3, <4>1, <4>2, <4>3 DEF RestartTwice, watches
    <3> QED BY <2>3, <3>2 DEF RestartTwice
  <2> QED BY <1>8, <2>1, <2>2, <2>3 DEF OnProcessExited
<1>9. CASE RestartAgent
  BY <1>9 DEF RestartAgent
<1>10. CASE UNCHANGED vars
  BY <1>10 DEF vars
<1> QED
  BY <1>1, <1>2, <1>3, <1>4, <1>5, <1>6, <1>7, <1>8, <1>9, <1>10
  DEF Next, Routed

LEMMA ScopedAlways == Spec => [](TypeOK /\ Scoped)
<1>1. Init => Scoped
  BY DEF Init, Scoped, HasScope, Inside
<1> QED BY <1>1, TypeInit, TypeStep, ScopedStep, PTL DEF Spec

\* Every variable keeps to its values.
THEOREM TypeCorrect == Spec => []TypeOK
  BY ScopedAlways, PTL
-----------------------------------------------------------------------------
(***************************************************************************)
(* Until an application is removed there is one scope at a time, and       *)
(* whoever holds a scope, tracks a process or has an exit to handle has    *)
(* that one.                                                               *)
(***************************************************************************)
Intact == removals = "none"

NoRemoval == Intact => \A t \in Callers : pc[t] # "removed"

\* Callers hold the cached scope or none.
Held == Intact => \A t \in Callers : mine[t] \in {NoScope, scope}

\* Other scopes are blank.
Owned == Intact => \A s \in Scopes : s # scope => child[s] = NoProcess /\ Awaited(s) = {}

Sole == NoRemoval /\ Held /\ Owned

SInv == TypeOK /\ Scoped /\ Sole

\* A manager changes the handle of its own scope, and the exits it has to handle.
OnlyOf(s) == /\ \A r \in Scopes : r # s => child'[r] = child[r]
             /\ \A e \in (watched \cup due)' : e \in watched \cup due \/ e[1] = s
             /\ UNCHANGED <<scope, removals>>

LEMMA LaunchOnlyOf ==
  ASSUME TypeOK, NEW s \in Scopes, NEW watches, watches \subseteq watched, due' \subseteq due,
         UNCHANGED <<scope, removals>>,
         \/ Launch(s, watches)
         \/ \E p \in Unused : Launched(s, watches, {p}, NoProcess)
         \/ \E p, q \in Unused : Launched(s, watches, {p, q}, <<q, "own">>)
  PROVE  OnlyOf(s)
<1>1. PICK ps, h : Launched(s, watches, ps, h)
  BY DEF Launch
<1>2. \A r \in Scopes : r # s => child'[r] = child[r]
  BY <1>1 DEF Launched, TypeOK
<1>3. \A e \in {s} \X (ps \X {"own"}) : e[1] = s
  OBVIOUS
<1>4. \A e \in (watched \cup due)' : e \in watched \cup due \/ e[1] = s
  BY <1>1, <1>3 DEF Launched
<1> QED BY <1>2, <1>4 DEF OnlyOf

\* What a manager that is the cached scope's does leaves the others blank.
LEMMA OnlyOfOwned == ASSUME TypeOK, Owned, OnlyOf(scope) PROVE Owned'
<1> SUFFICES ASSUME Intact', NEW s \in Scopes, s # scope'
             PROVE  child'[s] = NoProcess /\ Awaited(s)' = {}
    BY DEF Owned
<1>1. Intact /\ s # scope
  BY DEF OnlyOf, Intact
<1>2. child[s] = NoProcess /\ Awaited(s) = {}
  BY <1>1 DEF Owned
<1>3. \A h \in Handles : <<s, h>>[1] = s
  OBVIOUS
<1>4. ASSUME NEW h \in Handles, <<s, h>> \in (watched \cup due)' PROVE FALSE
  BY <1>1, <1>2, <1>3, <1>4 DEF OnlyOf, Awaited
<1> QED BY <1>1, <1>2, <1>4 DEF OnlyOf, Awaited

\* The calls of a manager, and its callbacks, are those of one scope.
LEMMA OperateOnlyOf ==
  ASSUME TypeOK, Scoped, NEW t \in Callers, Operate(t)
  PROVE  OnlyOf(mine[t]) \/ UNCHANGED <<scope, removals, child, watched, due>>
<1> USE DEF service, managers, history, calls
<1>1. CASE \/ BootSkips(t) \/ BootGoesOn(t) \/ Answers(t) \/ Stays(t) \/ FindNone(t)
           \/ KillDuplicates(t) \/ Stop(t)
  BY <1>1 DEF BootSkips, BootGoesOn, Answers, Stays, FindNone, KillDuplicates, Stop
<1> SUFFICES ASSUME CallbackInLook(t) \/ Collide(t) \/ (\E p \in Pids : Adopt(t, p)) \/ Start(t)
             PROVE  OnlyOf(mine[t])
    BY <1>1 DEF Operate
<1>2. mine[t] \in Scopes
  BY DEF Scoped, HasScope, Inside, CallbackInLook, Collide, Looking, Adopt, Start, Asking, Entering,
         Scanning, FoundGone
<1>3. CASE CallbackInLook(t)
  <2>1. watched \ {<<mine[t], child[mine[t]]>>} \subseteq watched /\ due' \subseteq due
        /\ UNCHANGED <<scope, removals>>
    BY <1>3 DEF CallbackInLook
  <2>2. CASE Launch(mine[t], watched \ {<<mine[t], child[mine[t]]>>})
    BY <1>2, <2>1, <2>2, LaunchOnlyOf
  <2>3. CASE watched' \subseteq watched /\ UNCHANGED child
    BY <2>1, <2>3 DEF OnlyOf
  <2> QED BY <1>3, <2>2, <2>3 DEF CallbackInLook
<1>4. CASE Collide(t)
  BY <1>4 DEF Collide, OnlyOf
<1>5. ASSUME NEW p \in Pids, Adopt(t, p) PROVE OnlyOf(mine[t])
  BY <1>2, <1>5 DEF Adopt, Watch, OnlyOf, TypeOK
<1>6. CASE Start(t)
  BY <1>2, <1>6, LaunchOnlyOf DEF Start
<1> QED BY <1>3, <1>4, <1>5, <1>6

LEMMA CallbackOnlyOf ==
  ASSUME TypeOK, NEW s \in Scopes, NEW h \in Handles, OnProcessExited(s, h)
  PROVE  OnlyOf(s) /\ Awaited(s) # {} /\ UNCHANGED <<pc, mine>>
<1> USE DEF service, managers, history, calls
<1>1. Awaited(s) # {}
  BY DEF OnProcessExited, PoolRaises, Handled, Restart, RestartTwice, RestartCollides, Callback,
         Awaited
<1>2. UNCHANGED <<scope, removals, pc, mine>>
  BY DEF OnProcessExited, PoolRaises, Handled, Restart, RestartTwice, RestartCollides
<1>3. CASE PoolRaises(s, h)
  <2>1. UNCHANGED child /\ watched' \cup due' = watched \cup due
    BY <1>3 DEF PoolRaises
  <2> QED BY <1>1, <1>2, <2>1 DEF OnlyOf
<1>4. CASE Handled(s, h) \/ RestartCollides(s, h)
  <2>1. UNCHANGED <<child, watched>> /\ due' \subseteq due
    BY <1>4 DEF Handled, RestartCollides
  <2> QED BY <1>1, <1>2, <2>1 DEF OnlyOf
<1>5. CASE Restart(s, h)
  <2>1. watched \subseteq watched /\ due' \subseteq due /\ Launch(s, watched)
    BY <1>5 DEF Restart
  <2>2. OnlyOf(s)
    BY <1>2, <2>1, LaunchOnlyOf
  <2> QED BY <1>1, <1>2, <2>2
<1>6. CASE RestartTwice(s, h)
  <2> DEFINE watches == watched \ {<<s, child[s]>>}
  <2>1. watches \subseteq watched /\ due' \subseteq due
    BY <1>6 DEF RestartTwice
  <2>2. \/ Launch(s, watches)
        \/ \E p \in Unused : Launched(s, watches, {p}, NoProcess)
        \/ \E p, q \in Unused : Launched(s, watches, {p, q}, <<q, "own">>)
    BY <1>6 DEF RestartTwice
  <2> HIDE DEF watches
  <2>3. OnlyOf(s)
    BY <1>2, <2>1, <2>2, LaunchOnlyOf
  <2> QED BY <1>1, <1>2, <2>3
<1> QED BY <1>1, <1>2, <1>3, <1>4, <1>5, <1>6 DEF OnProcessExited

\* An operation moves its own thread, and keeps its scope or lets go of it.
Moves(t) == \E x \in {"scoped", "unstarted", "idle", "stuck"} \cup Inside :
               pc' = [pc EXCEPT ![t] = x]

LEMMA OperateCalls ==
  ASSUME TypeOK, NEW t \in Callers, Operate(t)
  PROVE  Moves(t) /\ (mine' = mine \/ mine' = [mine EXCEPT ![t] = NoScope])
<1> USE DEF Goto, Return, service, calls, managers, history, Inside
<1>1. CASE CallbackInLook(t)
  <2>1. pc[t] \in {"scoped", "unstarted", "attached", "cleared"} /\ UNCHANGED mine
    BY <1>1 DEF CallbackInLook, Looking, Asking, Entering
  <2>2. CASE UNCHANGED pc
    BY <2>1, <2>2 DEF Moves, TypeOK
  <2>3. CASE pc' = [pc EXCEPT ![t] = WhenGone(t)]
    <3>1. WhenGone(t) \in {"unstarted"} \cup Inside
      BY DEF WhenGone
    <3> QED BY <2>1, <2>3, <3>1 DEF Moves
  <2> QED BY <1>1, <2>1, <2>2, <2>3 DEF CallbackInLook
<1>2. CASE Collide(t) \/ Stop(t)
  BY <1>2 DEF Collide, Stop, Hangs, Moves
<1>3. CASE BootSkips(t) \/ Answers(t) \/ Start(t)
  BY <1>3 DEF BootSkips, Answers, Start, Moves
<1>4. CASE \/ BootGoesOn(t) \/ Stays(t) \/ FindNone(t) \/ KillDuplicates(t)
           \/ \E p \in Pids : Adopt(t, p)
  BY <1>4 DEF BootGoesOn, Stays, FindNone, Adopt, KillDuplicates, Moves
<1> QED BY <1>1, <1>2, <1>3, <1>4 DEF Operate

LEMMA SoleInit == Init => Sole
  BY DEF Init, Sole, NoRemoval, Held, Owned, Awaited

LEMMA SoleStep == SInv /\ [Next]_vars => Sole'
<1> SUFFICES ASSUME SInv, [Next]_vars PROVE Sole'
    OBVIOUS
<1> USE LifecycleAssumption
    DEF LifecycleAssumption, SInv, TypeOK, Sole, NoRemoval, Held, Intact,
        Callers, Goto, Begin, Return, service, calls, managers, history
<1>1. ASSUME NEW t \in Threads, NEW d \in Defs, Register(t, d) PROVE Sole'
  BY <1>1 DEF Register, Meets, Owned, Awaited
<1>2. ASSUME NEW t \in Threads, NEW o \in Ops, Lookup(t, o) PROVE Sole'
  BY <1>2 DEF Lookup, Meets, Owned, Awaited
<1>3. ASSUME NEW t \in Threads, Unregister(t) PROVE Sole'
  <2>1. CASE UnregisterChecks(t) \/ UnregisterHangs(t)
    BY <2>1 DEF UnregisterChecks, UnregisterHangs, Owned, Awaited
  <2>4. CASE CallbackInCheck(t)
    <3>1. NoRemoval' /\ Held' /\ UNCHANGED <<scope, removals>>
      BY <2>4 DEF CallbackInCheck
    <3>2. /\ watched \ {<<scope, child[scope]>>} \subseteq watched
          /\ due' \subseteq due /\ scope \in Scopes
      BY <2>4 DEF CallbackInCheck
    <3>3. CASE Launch(scope, watched \ {<<scope, child[scope]>>})
      BY <3>1, <3>2, <3>3, LaunchOnlyOf, OnlyOfOwned
    <3>4. CASE UNCHANGED child /\ watched' \subseteq watched
      BY <3>1, <3>2, <3>4 DEF Owned, Awaited
    <3> QED BY <2>4, <3>1, <3>3, <3>4 DEF CallbackInCheck
  <2>2. CASE UnregisterFindsNone(t) \/ Forget(t)
    BY <2>2 DEF UnregisterFindsNone, Forget, Owned, Awaited
  <2>3. CASE UnregisterRemoves(t)
    BY <2>3 DEF UnregisterRemoves, Owned, Awaited
  <2> QED BY <1>3, <2>1, <2>2, <2>3, <2>4 DEF Unregister
<1>4. CASE Boot
  BY <1>4 DEF Boot, Meets, Owned, Awaited
<1>5. ASSUME NEW t \in Callers, EnsureScope(t) PROVE Sole'
  <2>1. CASE /\ scope # NoScope /\ mine' = [mine EXCEPT ![t] = scope]
             /\ UNCHANGED <<scope, built, child, hold>>
    BY <1>5, <2>1 DEF EnsureScope, Owned, Awaited
  <2>2. ASSUME scope = NoScope, NEW s \in Scopes,
               scope' = s, child' = [child EXCEPT ![s] = NoProcess],
               mine' = [mine EXCEPT ![t] = s]
        PROVE  Sole'
    <3>1. Intact => \A u \in Callers : mine[u] = NoScope
      BY <2>2
    <3>2. Intact => \A r \in Scopes : child[r] = NoProcess /\ Awaited(r) = {}
      BY <2>2 DEF Owned
    <3>3. UNCHANGED <<watched, due, removals>> /\ NoRemoval'
      BY <1>5 DEF EnsureScope
    <3>4. \A r \in Scopes : child'[r] = child[r] \/ child'[r] = NoProcess
      BY <2>2
    <3>5. Owned'
      BY <3>2, <3>3, <3>4 DEF Owned, Awaited
    <3>6. Held'
      BY <2>2, <3>1, <3>3
    <3> QED BY <3>3, <3>5, <3>6
  <2> QED BY <1>5, <2>1, <2>2 DEF EnsureScope, NewScope, Unreferenced
<1>6. ASSUME NEW t \in Callers, Registered(t) PROVE Sole'
  BY <1>6 DEF Registered, Owned, Awaited
<1>7. ASSUME NEW t \in Callers, Operate(t) PROVE Sole'
  <2>1. UNCHANGED <<scope, removals>>
    BY <1>7, OperateOnlyOf DEF OnlyOf
  <2>2. NoRemoval' /\ Held'
    BY <1>7, <2>1, OperateCalls DEF Moves, Inside
  <2>3. Owned'
    <3>1. mine[t] \in Scopes
      BY <1>7 DEF Scoped, HasScope, Inside, Operate, CallbackInLook, Collide, BootSkips, BootGoesOn,
                  Stays, FindNone, Looking, Adopt, KillDuplicates, Answers, Start, Stop, Asking,
                  Entering, Scanning, FoundAlive, FoundGone
    <3>2. CASE Intact /\ OnlyOf(mine[t])
      <4>1. mine[t] = scope
        BY <3>1, <3>2
      <4> QED BY <3>2, <4>1, OnlyOfOwned
    <3>3. CASE ~Intact
      BY <2>1, <3>3 DEF Owned
    <3>4. CASE UNCHANGED <<scope, removals, child, watched, due>>
      BY <3>4 DEF Owned, Awaited
    <3> QED BY <1>7, <3>2, <3>3, <3>4, OperateOnlyOf
  <2> QED BY <2>2, <2>3
<1>8. ASSUME NEW p \in Pids, Exits(p) PROVE Sole'
  BY <1>8 DEF Exits, Owned, Awaited
<1>9. ASSUME NEW s \in Scopes, NEW h \in Handles, OnProcessExited(s, h) PROVE Sole'
  <2>1. OnlyOf(s) /\ Awaited(s) # {} /\ UNCHANGED <<pc, mine>>
    BY <1>9, CallbackOnlyOf
  <2>2. UNCHANGED <<scope, removals>>
    BY <2>1 DEF OnlyOf
  <2>3. Owned'
    <3>1. CASE Intact
      <4>1. s = scope
        BY <2>1, <3>1 DEF Owned
      <4> QED BY <2>1, <4>1, OnlyOfOwned
    <3>2. CASE ~Intact
      BY <2>2, <3>2 DEF Owned
    <3> QED BY <3>1, <3>2
  <2> QED BY <2>1, <2>2, <2>3
<1>10. CASE RestartAgent
  BY <1>10 DEF RestartAgent, Owned, Awaited
<1>11. CASE UNCHANGED vars
  BY <1>11 DEF vars, Owned, Awaited
<1> QED
  BY <1>1, <1>2, <1>3, <1>4, <1>5, <1>6, <1>7, <1>8, <1>9, <1>10, <1>11 DEF Next, Routed

LEMMA SoleAlways == Spec => []SInv
<1>1. Init => SInv
  BY TypeInit, SoleInit DEF Init, SInv, Scoped, HasScope, Inside
<1>2. SInv /\ [Next]_vars => SInv'
  BY TypeStep, ScopedStep, SoleStep DEF SInv
<1> QED BY <1>1, <1>2, PTL DEF Spec

\* A set whose members are all the same has one at most.
LEMMA AtMostOne ==
  ASSUME NEW S, \A x, y \in S : x = y PROVE Cardinality(S) <= 1
<1>1. CASE S = {}
  BY <1>1, FS_EmptySet
<1>2. ASSUME NEW x \in S PROVE Cardinality(S) <= 1
  <2>1. S = {x}
    BY <1>2
  <2> QED BY <2>1, FS_Singleton
<1> QED BY <1>1, <1>2

\* Until an application is removed no two managers ever answer for the executable, whatever
\* the connections, the boot service, exits and agent restarts interleave.
THEOREM OneSupervisorAlways == Spec => []OneSupervisor
<1>1. SInv => OneSupervisor
  <2> SUFFICES ASSUME SInv, Intact
               PROVE  Cardinality({s \in Scopes : Running(s) \/ Awaited(s) # {}}) <= 1
      BY DEF OneSupervisor, Intact
  <2>1. \A s \in Scopes : s # scope => ~Running(s) /\ Awaited(s) = {}
    BY LifecycleAssumption DEF LifecycleAssumption, SInv, Sole, Owned, Running
  <2>2. \A x, y \in {s \in Scopes : Running(s) \/ Awaited(s) # {}} : x = y
    BY <2>1
  <2> QED BY <2>2, AtMostOne
<1> QED BY <1>1, SoleAlways, PTL
-----------------------------------------------------------------------------
(***************************************************************************)
(* One process, as long as no launch overtakes a look: whoever is about to *)
(* launch has the cached scope, and that scope's manager tracks a process  *)
(* or none lives.                                                          *)
(***************************************************************************)
Undisturbed == ~overtaken

StillIntact == Undisturbed => Intact

NotBehind == Undisturbed => \A t \in Callers : pc[t] \notin {"listing", "gone"}

Single == Undisturbed => \A p, q \in alive : p = q

\* Somebody may launch: an exit is watched or due, or a call has done its attach.
MayLaunch == \/ \E s \in Scopes : Awaited(s) # {}
             \/ \E t \in Callers : pc[t] \in {"attached", "cleared"}

Attended == Undisturbed /\ MayLaunch => alive = {} \/ Running(scope)

Lone == StillIntact /\ NotBehind /\ Single /\ Attended

LEMMA LoneInit == Init => Lone
  BY DEF Init, Lone, StillIntact, Intact, Undisturbed, NotBehind, Single, Attended

\* A launch where nothing lives leaves one process, which the scope tracks, or none.
LEMMA LaunchAlone ==
  ASSUME TypeOK, scope \in Scopes, alive = {}, NEW watches, Launch(scope, watches)
  PROVE  (\A p, q \in alive' : p = q) /\ (alive' = {} \/ (scope' = scope => Running(scope)'))
<1>1. CASE Launched(scope, watches, {}, NoProcess)
  BY <1>1 DEF Launched
<1>2. ASSUME NEW p \in Unused, Launched(scope, watches, {p}, <<p, "own">>)
      PROVE  alive' = {p} /\ (scope' = scope => Running(scope)')
  <2>1. <<p, "own">> \in Handles /\ <<p, "own">>[1] = p
    BY DEF Unused, Handles
  <2>2. alive' = {p} /\ child' = [child EXCEPT ![scope] = <<p, "own">>]
    BY <1>2 DEF Launched
  <2> QED BY <2>1, <2>2 DEF Running, TypeOK
<1> QED BY <1>1, <1>2 DEF Launch

\* Steps that leave the processes and the tracked one alone, and let nobody new launch.
Quiet == /\ UNCHANGED <<alive, overtaken>>
         /\ NotBehind'
         /\ StillIntact'
         /\ MayLaunch' /\ ~overtaken => MayLaunch /\ UNCHANGED <<scope, child>>

LEMMA QuietLone == ASSUME Lone, Quiet PROVE Lone'
  BY DEF Lone, Quiet, Undisturbed, Single, Attended, Running

LInv == SInv /\ Lone

LEMMA LoneStep == LInv /\ [Next]_vars => Lone'
<1> SUFFICES ASSUME LInv, [Next]_vars PROVE Lone'
    OBVIOUS
<1> USE DEF service, calls, managers, history
<1>1. CASE overtaken'
  BY <1>1 DEF Lone, Undisturbed, StillIntact, NotBehind, Single, Attended
<1> SUFFICES ASSUME ~overtaken' PROVE Lone'
    BY <1>1
<1>2. ~overtaken
  BY DEF Next, vars, Register, Lookup, Unregister, UnregisterChecks, CallbackInCheck,
         UnregisterHangs, UnregisterFindsNone, UnregisterRemoves, Forget, Boot, Routed,
         EnsureScope, Registered, Operate, CallbackInLook, Collide, BootSkips, BootGoesOn, Stays,
         FindNone, Adopt, KillDuplicates, Answers, Start, Stop, Exits, OnProcessExited,
         PoolRaises, Handled, Restart, RestartTwice, RestartCollides, RestartAgent
<1>3. TypeOK /\ Scoped /\ Intact
  BY <1>2 DEF LInv, SInv, Lone, StillIntact, Undisturbed
<1>4. /\ \A t \in Callers : pc[t] \notin {"removed", "listing", "gone"}
      /\ \A t \in Callers : mine[t] \in {NoScope, scope}
      /\ \A s \in Scopes : s # scope => child[s] = NoProcess /\ Awaited(s) = {}
  BY <1>2, <1>3 DEF LInv, SInv, Sole, NoRemoval, Held, Owned, Lone, NotBehind, Undisturbed
<1>5. (\A p, q \in alive : p = q) /\ (MayLaunch => alive = {} \/ Running(scope))
  BY <1>2 DEF LInv, Lone, Single, Attended, Undisturbed
<1>6. ASSUME Intact', NotBehind', \A p, q \in alive' : p = q,
             MayLaunch' => alive' = {} \/ Running(scope)'
      PROVE  Lone'
  BY <1>6 DEF Lone, StillIntact, Single, Attended
<1>7. ASSUME Quiet PROVE Lone'
  BY <1>7, QuietLone DEF LInv
<1>8. ASSUME UNCHANGED <<alive, child, watched, due, scope, removals, overtaken>>,
             NEW t \in Callers, NEW x, pc' = [pc EXCEPT ![t] = x],
             x \notin {"attached", "cleared", "listing", "gone"}
      PROVE  Lone'
  BY <1>2, <1>3, <1>4, <1>7, <1>8
  DEF Quiet, MayLaunch, Awaited, NotBehind, StillIntact, Intact, TypeOK
<1>9. ASSUME NEW t \in Callers, Meets PROVE UNCHANGED removals
  BY <1>4, <1>9 DEF Meets
<1>10. Booter \in Callers /\ Threads \subseteq Callers
  BY DEF Callers
<1>11. ASSUME NEW t \in Threads, NEW d \in Defs, Register(t, d) PROVE Lone'
  BY <1>8, <1>9, <1>10, <1>11 DEF Register, Begin, Goto
<1>12. ASSUME NEW t \in Threads, NEW o \in Ops, Lookup(t, o) PROVE Lone'
  BY <1>8, <1>9, <1>10, <1>12 DEF Lookup, Begin, Goto
<1>13. ASSUME NEW t \in Threads, Unregister(t) PROVE Lone'
  <2>1. CASE UnregisterChecks(t) \/ UnregisterHangs(t)
    BY <1>8, <1>10, <2>1 DEF UnregisterChecks, UnregisterHangs, Begin, Goto
  <2>2. CASE UnregisterFindsNone(t)
    BY <1>8, <1>10, <2>2 DEF UnregisterFindsNone, Return, Goto
  <2>3. ~UnregisterRemoves(t) /\ ~Forget(t)
    BY <1>4, <1>10 DEF UnregisterRemoves, Forget
  <2>4. CASE CallbackInCheck(t)
    <3>1. /\ watched' \subseteq watched /\ pc' = [pc EXCEPT ![t] = "checked"]
          /\ UNCHANGED <<child, alive, due, scope, removals>>
      BY <2>4 DEF CallbackInCheck, Begin, Goto
    <3>2. MayLaunch' => MayLaunch
      BY <1>3, <1>10, <3>1 DEF MayLaunch, Awaited, TypeOK
    <3>3. NotBehind' /\ Intact'
      BY <1>3, <1>4, <1>10, <3>1 DEF NotBehind, Intact, TypeOK
    <3> QED BY <1>5, <1>6, <3>1, <3>2, <3>3 DEF Running
  <2> QED BY <1>13, <2>1, <2>2, <2>3, <2>4 DEF Unregister
<1>14. CASE Boot
  BY <1>8, <1>9, <1>10, <1>14 DEF Boot, Begin, Goto
<1>15. ASSUME NEW t \in Callers, EnsureScope(t) PROVE Lone'
  <2>1. CASE UNCHANGED <<scope, built, child, hold>>
    BY <1>8, <1>15, <2>1 DEF EnsureScope, Goto
  <2>2. CASE scope = NoScope
    <3>1. \A s \in Scopes : Awaited(s) = {}
      BY <1>4, <2>2, LifecycleAssumption DEF LifecycleAssumption
    <3>2. \A u \in Callers : pc[u] \notin HasScope
      BY <1>3, <1>4, <2>2, LifecycleAssumption DEF LifecycleAssumption, Scoped
    <3>3. /\ UNCHANGED <<alive, watched, due, removals, overtaken>>
          /\ pc' = [pc EXCEPT ![t] = "scoped"]
      BY <1>15 DEF EnsureScope, Goto
    <3>4. ~MayLaunch'
      BY <1>3, <3>1, <3>2, <3>3 DEF MayLaunch, Awaited, HasScope, Inside, TypeOK
    <3>5. Intact' /\ NotBehind'
      BY <1>3, <1>4, <3>3 DEF Intact, NotBehind, TypeOK
    <3> QED BY <1>5, <1>6, <3>3, <3>4, <3>5
  <2> QED BY <1>15, <2>1, <2>2 DEF EnsureScope
<1>16. ASSUME NEW t \in Callers, Registered(t) PROVE Lone'
  BY <1>8, <1>16 DEF Registered, Return, Goto
<1>17. ASSUME NEW t \in Callers, Operate(t) PROVE Lone'
  <2>1. CASE BootSkips(t) \/ BootGoesOn(t) \/ Answers(t)
    BY <1>8, <2>1 DEF BootSkips, BootGoesOn, Answers, Return, Goto
  <2> SUFFICES ASSUME \/ CallbackInLook(t) \/ Collide(t) \/ Stays(t) \/ FindNone(t)
                      \/ \E p \in Pids : Adopt(t, p)
                      \/ KillDuplicates(t) \/ Start(t) \/ Stop(t)
               PROVE  Lone'
      BY <1>17, <2>1 DEF Operate
  <2>2. mine[t] = scope /\ scope \in Scopes
    <3>1. pc[t] \in HasScope
      BY DEF HasScope, Inside, CallbackInLook, Collide, Stays, FindNone, Looking, Adopt,
             KillDuplicates, Start, Stop, Asking, Entering, Scanning, FoundAlive, FoundGone
    <3> QED BY <1>3, <1>4, <3>1, LifecycleAssumption DEF Scoped, LifecycleAssumption
  <2>3. UNCHANGED <<scope, removals>> /\ Intact'
    BY <1>2, <1>3, <1>17, OperateOnlyOf DEF OnlyOf, Intact
  <2>4. CASE CallbackInLook(t)
    <3>1. watched' \subseteq watched /\ UNCHANGED <<child, alive, pc, due>>
      BY <2>4 DEF CallbackInLook
    <3>2. MayLaunch' => MayLaunch
      BY <3>1 DEF MayLaunch, Awaited
    <3>3. NotBehind'
      BY <1>4, <3>1 DEF NotBehind
    <3> QED BY <1>5, <1>6, <2>3, <3>1, <3>2, <3>3 DEF Running
  <2>5. CASE Collide(t)
    <3>1. /\ watched' \subseteq watched /\ UNCHANGED <<child, alive, due>>
          /\ pc' = [pc EXCEPT ![t] = "stuck"]
      BY <2>5 DEF Collide, Hangs, Goto
    <3>2. MayLaunch' => MayLaunch
      BY <1>3, <3>1 DEF MayLaunch, Awaited, TypeOK
    <3>3. NotBehind'
      BY <1>3, <1>4, <3>1 DEF NotBehind, TypeOK
    <3> QED BY <1>5, <1>6, <2>3, <3>1, <3>2, <3>3 DEF Running
  <2>6. ASSUME NEW x \in {"attached", "cleared", "idle", "stuck"}, pc' = [pc EXCEPT ![t] = x],
               \A p, q \in alive' : p = q, alive' = {} \/ Running(scope)'
        PROVE  Lone'
    <3>1. NotBehind'
      BY <1>3, <1>4, <2>6 DEF NotBehind, TypeOK
    <3> QED BY <1>6, <2>3, <2>6, <3>1
  <2>7. CASE Stays(t)
    BY <1>5, <2>2, <2>3, <2>6, <2>7 DEF Stays, Goto, Running
  <2>8. CASE FindNone(t)
    BY <1>5, <2>6, <2>8 DEF FindNone, Goto
  <2>9. ASSUME NEW p \in Pids, Adopt(t, p) PROVE Lone'
    <3>1. <<p, "found">> \in Handles /\ <<p, "found">>[1] = p
      BY DEF Handles
    <3>2. Running(scope)' /\ UNCHANGED alive
      BY <1>3, <2>2, <2>3, <2>9, <3>1 DEF Adopt, Watch, Running, TypeOK
    <3> QED BY <1>5, <2>6, <2>9, <3>2 DEF Adopt, Goto
  <2>10. CASE KillDuplicates(t)
    <3>1. alive = {} \/ Running(scope)
      BY <1>5, <2>10 DEF KillDuplicates, MayLaunch
    <3>2. alive' = {} \/ (Running(scope)' /\ alive' = {child[scope][1]})
      BY <2>2, <2>3, <2>10, <3>1 DEF KillDuplicates, Running
    <3> QED BY <2>6, <2>10, <3>2 DEF KillDuplicates, Goto
  <2>11. CASE Start(t)
    <3>1. pc[t] = "cleared" /\ ~Running(scope) /\ Launch(scope, watched)
      BY <1>4, <2>2, <2>11 DEF Start, FoundGone, LooksGone
    <3>2. alive = {}
      BY <1>5, <3>1 DEF MayLaunch
    <3> QED BY <1>3, <2>2, <2>3, <2>6, <2>11, <3>1, <3>2, LaunchAlone DEF Start, Return, Goto
  <2>12. CASE Stop(t)
    <3>1. alive' = {}
      BY <1>5, <2>2, <2>12 DEF Stop, FoundAlive, Running
    <3> QED BY <2>6, <2>12, <3>1 DEF Stop, Hangs, Return, Goto
  <2> QED BY <2>4, <2>5, <2>7, <2>8, <2>9, <2>10, <2>11, <2>12
<1>18. ASSUME NEW p \in Pids, Exits(p) PROVE Lone'
  <2>1. alive' = {} /\ UNCHANGED <<removals, pc>>
    BY <1>5, <1>18 DEF Exits
  <2> QED BY <1>3, <1>4, <1>6, <2>1 DEF Intact, NotBehind
<1>19. ASSUME NEW s \in Scopes, NEW h \in Handles, OnProcessExited(s, h) PROVE Lone'
  <2>1. OnlyOf(s) /\ Awaited(s) # {} /\ UNCHANGED <<pc, mine>>
    BY <1>3, <1>19, CallbackOnlyOf
  <2>2. s = scope /\ MayLaunch /\ UNCHANGED <<scope, removals>>
    BY <1>4, <2>1 DEF MayLaunch, OnlyOf
  <2>3. Intact' /\ NotBehind'
    BY <1>3, <1>4, <2>1, <2>2 DEF Intact, NotBehind
  <2>4. CASE PoolRaises(s, h) \/ Handled(s, h) \/ RestartCollides(s, h)
    <3>1. UNCHANGED <<alive, child>>
      BY <2>4 DEF PoolRaises, Handled, RestartCollides
    <3> QED BY <1>5, <1>6, <2>2, <2>3, <3>1 DEF Running
  <2>5. CASE Restart(s, h)
    <3>1. alive = {}
      BY <1>5, <2>2, <2>5 DEF Restart
    <3> QED BY <1>3, <1>6, <2>2, <2>3, <2>5, <3>1, LaunchAlone DEF Restart
  <2>6. ~RestartTwice(s, h)
    BY DEF RestartTwice
  <2> QED BY <1>19, <2>4, <2>5, <2>6 DEF OnProcessExited
<1>20. CASE RestartAgent
  <2>1. ~MayLaunch'
    BY <1>20 DEF RestartAgent, MayLaunch, Awaited
  <2>2. Intact' /\ NotBehind' /\ UNCHANGED alive
    BY <1>20 DEF RestartAgent, Intact, NotBehind
  <2> QED BY <1>5, <1>6, <2>1, <2>2
<1>21. CASE UNCHANGED vars
  BY <1>2, <1>3, <1>4, <1>7, <1>21
  DEF vars, Quiet, MayLaunch, Awaited, NotBehind, StillIntact, Intact
<1> QED
  BY <1>11, <1>12, <1>13, <1>14, <1>15, <1>16, <1>17, <1>18, <1>19, <1>20, <1>21 DEF Next, Routed

\* The executable never runs twice, through restarts of the agent too, unless a callback has
\* launched within a look or an application was removed.
THEOREM OneProcessAlways == Spec => []OneProcess
<1>1. LInv /\ [Next]_vars => LInv'
  BY TypeStep, ScopedStep, SoleStep, LoneStep DEF LInv, SInv
<1>2. LInv => OneProcess
  BY AtMostOne DEF LInv, Lone, Single, Undisturbed, OneProcess
<1>3. Init => SInv
  BY TypeInit, SoleInit DEF Init, SInv, Scoped, HasScope, Inside
<1> QED BY <1>1, <1>2, <1>3, LoneInit, PTL DEF Spec, LInv
-----------------------------------------------------------------------------
(***************************************************************************)
(* As long as no removal and another call overlap, the definition a        *)
(* command looked up is the registered one when it builds a scope from it. *)
(***************************************************************************)
Apart == removals # "overlapped"

\* The definition a command has obtained is the registered one.
Current == Apart => \A t \in Callers : pc[t] = "ensure" => def[t] = registered /\ registered # NoDef

\* A cached scope follows a registration, except between the two halves of a removal.
Follows == Apart /\ (\A t \in Callers : pc[t] # "removed")
              => scope = NoScope \/ (registered # NoDef /\ built[scope] = registered)

Orderly == Current /\ Follows

LEMMA OrderlyStep == TypeOK /\ Orderly /\ [Next]_vars => Orderly'
<1> SUFFICES ASSUME TypeOK, Orderly, [Next]_vars PROVE Orderly'
    OBVIOUS
<1> USE LifecycleAssumption
    DEF LifecycleAssumption, TypeOK, Orderly, Current, Follows, Apart,
        Callers, Goto, Begin, Return, service, calls, managers, history
<1>1. ASSUME NEW t \in Threads, NEW d \in Defs, Register(t, d) PROVE Orderly'
  BY <1>1 DEF Register, Meets
<1>2. ASSUME NEW t \in Threads, NEW o \in Ops, Lookup(t, o) PROVE Orderly'
  BY <1>2 DEF Lookup, Meets
<1>3. ASSUME NEW t \in Threads, Unregister(t) PROVE Orderly'
  <2>1. CASE UnregisterChecks(t) \/ CallbackInCheck(t) \/ UnregisterHangs(t)
    BY <2>1 DEF UnregisterChecks, CallbackInCheck, UnregisterHangs
  <2>2. CASE UnregisterFindsNone(t)
    BY <2>2 DEF UnregisterFindsNone
  <2>3. CASE UnregisterRemoves(t)
    BY <2>3 DEF UnregisterRemoves
  <2>4. CASE Forget(t)
    BY <2>4 DEF Forget
  <2> QED BY <1>3, <2>1, <2>2, <2>3, <2>4 DEF Unregister
<1>4. CASE Boot
  BY <1>4 DEF Boot, Meets
<1>5. ASSUME NEW t \in Callers, EnsureScope(t) PROVE Orderly'
  <2>1. CASE UNCHANGED <<scope, built, child, hold>>
    BY <1>5, <2>1 DEF EnsureScope
  <2>2. ASSUME scope = NoScope, NEW s \in Unreferenced,
               scope' = s, built' = [built EXCEPT ![s] = def[t]]
        PROVE  Orderly'
    <3>1. built'[scope'] = def[t]
      BY <2>2 DEF Unreferenced
    <3>2. /\ UNCHANGED <<registered, def, removals>>
          /\ pc[t] = "ensure" /\ pc' = [pc EXCEPT ![t] = "scoped"]
      BY <1>5 DEF EnsureScope
    <3> QED BY <3>1, <3>2
  <2> QED BY <1>5, <2>1, <2>2 DEF EnsureScope, NewScope
<1>6. ASSUME NEW t \in Callers, Registered(t) PROVE Orderly'
  BY <1>6 DEF Registered
<1>7. ASSUME NEW t \in Callers, Operate(t) PROVE Orderly'
  <2>1. /\ UNCHANGED <<registered, scope, built, removals>>
        /\ def' = def \/ def' = [def EXCEPT ![t] = NoDef]
    BY <1>7 DEF Operate, CallbackInLook, Collide, Hangs, BootSkips, BootGoesOn, Stays, FindNone,
                Adopt, KillDuplicates, Answers, Start, Stop
  <2>2. PICK x \in {"scoped", "unstarted", "idle", "stuck"} \cup Inside : pc' = [pc EXCEPT ![t] = x]
    BY <1>7, OperateCalls DEF Moves
  <2>3. x \notin {"ensure", "removed"}
    BY DEF Inside
  <2>4. pc[t] # "removed"
    BY <1>7 DEF Operate, CallbackInLook, Collide, Looking, BootSkips, BootGoesOn, Stays, FindNone,
                Adopt, KillDuplicates, Answers, Start, Stop, Asking, Entering, Scanning,
                FoundAlive, FoundGone
  <2> QED BY <2>1, <2>2, <2>3, <2>4
<1>8. ASSUME NEW p \in Pids, Exits(p) PROVE Orderly'
  BY <1>8 DEF Exits
<1>9. ASSUME NEW s \in Scopes, NEW h \in Handles, OnProcessExited(s, h) PROVE Orderly'
  BY <1>9 DEF OnProcessExited, PoolRaises, Handled, Restart, RestartTwice, RestartCollides
<1>10. CASE RestartAgent
  BY <1>10 DEF RestartAgent
<1>11. CASE UNCHANGED vars
  BY <1>11 DEF vars
<1> QED
  BY <1>1, <1>2, <1>3, <1>4, <1>5, <1>6, <1>7, <1>8, <1>9, <1>10, <1>11 DEF Next, Routed

\* As long as no removal overlaps another call, the scope that is cached when every call has
\* returned was built from the definition that is registered.
THEOREM ScopeFollows == Spec => []ScopeFollowsRegistration
<1>1. Init => Orderly
  BY DEF Init, Orderly, Current, Follows
<1>2. TypeOK /\ Orderly => ScopeFollowsRegistration
  BY DEF TypeOK, Orderly, Follows, Apart, ScopeFollowsRegistration
<1> QED BY <1>1, <1>2, OrderlyStep, ScopedAlways, PTL DEF Spec
=============================================================================
