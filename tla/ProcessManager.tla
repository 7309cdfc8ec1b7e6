--------------------------- MODULE ProcessManager ---------------------------
(***************************************************************************)
(* One ProcessManagerService of the agent: the calls that threads make on  *)
(* it, its OnProcessExited callbacks, and the operating system's processes *)
(* that run the manager's executable, whoever launched them.               *)
(*                                                                         *)
(* A call holds _lock from its first statement to its answer, but the      *)
(* processes, their users and the callbacks all move between any two of    *)
(* its statements, so a call is split wherever it looks at, or acts on, a  *)
(* process.  Whoever is the first to find that a process is gone runs its  *)
(* exit callback: as a rule the thread pool, but Process.HasExited and     *)
(* WaitForExit do it too, on the thread that called them, which holds the  *)
(* re-entrant _lock already.  Only one of the two runs it, and the other   *)
(* waits meanwhile for the lock of the Process object.                     *)
(***************************************************************************)
EXTENDS Naturals, FiniteSets

CONSTANTS
    Threads,         \* threads that may call the manager
    Pids,            \* processes that can run the executable
    NoProcess,       \* null, or a handle never started or already disposed
    Free, Pool,      \* nobody holds the lock; a callback of the thread pool does
    Ops,             \* the operations the threads call
    ManualLaunches,  \* whether users launch the executable themselves
    ScanFaults,      \* whether a scan, reading a process in it or a Kill may throw
    AgentRestarts    \* whether the agent's own process may stop and come back

Operations == {"start", "stop", "status", "query"}

\* Process objects: one for a process launched here, one for a process found.
Handles == Pids \X {"own", "found"}

ASSUME ConstantsAssumption ==
    /\ NoProcess \notin Handles
    /\ {Free, Pool} \cap Threads = {} /\ Free # Pool
    /\ Ops \subseteq Operations
    /\ {ManualLaunches, ScanFaults, AgentRestarts} \subseteq BOOLEAN

VARIABLES
    proc,         \* what each process is: not there, live, live and not to be watched
                  \* by the agent, or killed and not yet gone
    managed,      \* _managedProcess
    intentional,  \* _intentionalStop
    lock,         \* holder of _lock
    exitEvent,    \* the Exited event of each handle and its callback
    candidates,   \* processes the scan in progress found and has not looked at yet
    op, pc,       \* the call each thread is in, and its next step
    verdict,      \* history: how the last decision about the process ended
    nested        \* history: whether a callback has launched within somebody's look

vars == <<proc, managed, intentional, lock, exitEvent, candidates, op, pc, verdict, nested>>

\* "again": its callback launches once more after the one that ran in its look.
EventStates == {"none", "armed", "raised", "cooling", "again", "missed"}
Pending == {"armed", "raised", "cooling", "again"}

\* "gone": the look said so, whatever has been launched since.
Steps == {"idle", "entry", "look", "list", "scan", "subscribe", "attached", "act",
          "gone", "wait", "kill", "stuck"}
Verdicts == {"none", "adopted", "lost", "started", "restarted", "failed",
             "stopped", "notRunning", "stopError"}

Running(p) == proc[p] # "none"
Alive(h) == h \in Handles /\ Running(h[1])

\* What HasExitedSafe(_managedProcess) answers ...
HasExited == ~Alive(managed)

\* ... and whether the exit callback has still to run when it is asked.
Untold == managed \in Handles /\ HasExited /\ exitEvent[managed] = "armed"

\* The processes the scans find: same executable path.
Matching == {p \in Pids : Running(p)}

\* Identifiers the operating system can give to a new process: none is used again
\* while a handle is open on it.
Unused == {p \in Pids : /\ ~Running(p)
                        /\ managed \notin {<<p, "own">>, <<p, "found">>}
                        /\ {exitEvent[<<p, "own">>], exitEvent[<<p, "found">>]} \cap Pending = {}}

Init == /\ proc = [p \in Pids |-> "none"]
        /\ managed = NoProcess
        /\ intentional = FALSE
        /\ lock = Free
        /\ exitEvent = [h \in Handles |-> "none"]
        /\ candidates = {}
        /\ op = [t \in Threads |-> "none"]
        /\ pc = [t \in Threads |-> "idle"]
        /\ verdict = "none"
        /\ nested = FALSE
-----------------------------------------------------------------------------
(***************************************************************************)
(* Launches, and the exit callbacks that run within a look.                *)
(***************************************************************************)
Goto(t, s) == pc' = [pc EXCEPT ![t] = s]

Return(t) == /\ lock' = Free
             /\ Goto(t, "idle")
             /\ op' = [op EXCEPT ![t] = "none"]

\* The variables of a step that only moves its thread on, or back out of the call.
manager == <<proc, managed, intentional, exitEvent, verdict, nested>>

\* StartInternal: a new process with its event armed, or a handle never started.
StartInternal(handlers, outcome) ==
    \/ \E p \in Unused :
          /\ proc' = [proc EXCEPT ![p] = "live"]
          /\ managed' = <<p, "own">>
          /\ exitEvent' = [handlers EXCEPT ![<<p, "own">>] = "armed"]
          /\ verdict' = outcome
    \/ /\ managed' = NoProcess
       /\ exitEvent' = handlers
       /\ verdict' = "failed"
       /\ UNCHANGED proc

\* The looks a call takes at the tracked process before it acts, and what follows
\* the answer that it is gone.
Looking(t) == pc[t] \in {"look", "attached", "act"}
WhenGone == [look |-> "list", attached |-> "act", act |-> "gone"]

\* HasExited runs the callback in the look: with the flag up it does nothing, else it
\* sleeps, still in the lock, and launches; the look answers for the old process.
CallbackInLook(t) ==
    /\ Looking(t) /\ Untold
    /\ \/ /\ intentional
          /\ exitEvent' = [exitEvent EXCEPT ![managed] = "none"]
          /\ UNCHANGED <<proc, managed, verdict, nested, pc>>
       \/ /\ ~intentional
          /\ StartInternal([exitEvent EXCEPT ![managed] = "none"], "restarted")
          /\ nested' = TRUE
          /\ Goto(t, WhenGone[pc[t]])
    /\ UNCHANGED <<intentional, lock, candidates, op>>

\* The thread pool comes first: its callback holds the lock of the Process object and
\* waits for _lock, this thread holds _lock and waits for the lock of the object.
Collide(t) == /\ Looking(t) \/ pc[t] = "wait"
              /\ Untold
              /\ exitEvent' = [exitEvent EXCEPT ![managed] = "raised"]
              /\ Goto(t, "stuck")
              /\ UNCHANGED <<proc, managed, intentional, lock, candidates, op, verdict, nested>>
-----------------------------------------------------------------------------
(***************************************************************************)
(* Calls.  All but IsRunning and ProcessId begin by attaching to a process *)
(* they can find and killing its duplicates.                               *)
(***************************************************************************)
\* A call comes to the lock; which call it is matters from there on.
Call(t) == /\ pc[t] = "idle"
           /\ Goto(t, "entry")
           /\ UNCHANGED <<manager, lock, candidates, op>>

\* lock (_lock).
Acquire(t, o, step) == /\ pc[t] = "entry"
                       /\ lock = Free
                       /\ lock' = t
                       /\ op' = [op EXCEPT ![t] = o]
                       /\ Goto(t, step)
                       /\ UNCHANGED <<manager, candidates>>

\* Variant: nothing attaches.
EnterWithoutAttaching(t, o) == Acquire(t, o, "act")

\* The attach returns at once when a live process is tracked.
Enter(t, o) == Acquire(t, o, CASE o = "query" -> "act"
                             [] o # "query" /\ HasExited -> "look"
                             [] o # "query" /\ ~HasExited -> "attached")

\* GetProcessesByName, once the tracked process is known to be gone.
List(t) == /\ pc[t] = "list" \/ (pc[t] = "look" /\ ~Untold)
           /\ candidates' = Matching
           /\ Goto(t, "scan")
           /\ UNCHANGED <<manager, lock, op>>

TakeOver(t, p, step) == /\ pc[t] = "scan"
                        /\ p \in candidates \cap Matching
                        /\ intentional' = FALSE
                        /\ managed' = <<p, "found">>
                        /\ candidates' = candidates \ {p}
                        /\ verdict' = "adopted"
                        /\ Goto(t, step)
                        /\ UNCHANGED <<proc, lock, exitEvent, op, nested>>

\* Variant: the adopted process gets no exit handler.
AdoptUnwatched(t, p) == TakeOver(t, p, "attached")

Adopt(t, p) == TakeOver(t, p, "subscribe")

FindNone(t) == /\ pc[t] = "scan"
               /\ candidates \cap Matching = {} \/ ScanFaults
               /\ candidates' = {}
               /\ Goto(t, "attached")
               /\ UNCHANGED <<manager, lock, op>>

\* EnableRaisingEvents = true starts the watch and Exited += comes after it: the
\* event of a process that exits meanwhile finds the handler or finds none.
Subscribe(t) ==
    /\ pc[t] = "subscribe" /\ proc[managed[1]] # "guarded"
    /\ \E e \in IF HasExited THEN {"armed", "missed"} ELSE {"armed"} :
          exitEvent' = [exitEvent EXCEPT ![managed] = e]
    /\ candidates' = {}
    /\ Goto(t, "attached")
    /\ UNCHANGED <<proc, managed, intentional, lock, op, verdict, nested>>

\* ... or the watch throws, for a process that is gone or may not be watched: the
\* handle is disposed where it stands, in _managedProcess, and the scan goes on.
SubscribeThrows(t) == /\ pc[t] = "subscribe"
                      /\ proc[managed[1]] \in {"none", "guarded"}
                      /\ managed' = NoProcess
                      /\ verdict' = "lost"
                      /\ Goto(t, "scan")
                      /\ UNCHANGED <<proc, intentional, lock, exitEvent, candidates, op, nested>>

Duplicates == {p \in Matching : ~HasExited /\ p # managed[1]}

\* KillDuplicatesUnderLock; Kill is a request, the process goes when it goes.
KillDuplicates(t) ==
    /\ pc[t] = "attached" /\ ~Untold
    /\ \E spared \in IF ScanFaults THEN SUBSET Duplicates ELSE {{}} :
          proc' = [p \in Pids |-> IF p \in Duplicates \ spared THEN "dying" ELSE proc[p]]
    /\ Goto(t, "act")
    /\ UNCHANGED <<managed, intentional, lock, exitEvent, candidates, op, verdict, nested>>

\* The look of Start, Stop and GetStatus at the process they are about.
FoundAlive(t, o) == pc[t] = "act" /\ op[t] = o /\ ~HasExited
FoundGone(t, o) == op[t] = o /\ (pc[t] = "gone" \/ (pc[t] = "act" /\ HasExited /\ ~Untold))

StartAlreadyRunning(t) == /\ FoundAlive(t, "start")
                          /\ Return(t)
                          /\ UNCHANGED <<manager, candidates>>

StartLaunches(t) == /\ FoundGone(t, "start")
                    /\ intentional' = FALSE
                    /\ StartInternal(exitEvent, "started")
                    /\ Return(t)
                    /\ UNCHANGED <<candidates, nested>>

\* GetStatus, IsRunning and ProcessId.
GetStatus(t) == /\ \E o \in {"status", "query"} : FoundAlive(t, o) \/ FoundGone(t, o)
                /\ Return(t)
                /\ UNCHANGED <<manager, candidates>>

\* Stop answers: what it leaves in the flag, and how it ended.
StopAnswers(t, flag, outcome) == /\ intentional' = flag
                                 /\ verdict' = outcome
                                 /\ Return(t)
                                 /\ UNCHANGED <<managed, candidates, nested>>

StopNotRunning(t) == /\ FoundGone(t, "stop")
                     /\ StopAnswers(t, intentional, "notRunning")
                     /\ UNCHANGED <<proc, exitEvent>>

\* The flag goes up, CloseMainWindow asks, and the wait for the exit begins.
StopBegins(t) == /\ FoundAlive(t, "stop")
                 /\ intentional' = TRUE
                 /\ Goto(t, "wait")
                 /\ UNCHANGED <<proc, managed, lock, exitEvent, candidates, op, verdict, nested>>

\* WaitForExit returns true; its callback, if it is the one to run it, finds the flag up.
WaitedFor(t, flag) ==
    /\ pc[t] = "wait"
    /\ HasExited
    /\ exitEvent' = [exitEvent EXCEPT ![managed] = IF Untold THEN "none" ELSE @]
    /\ StopAnswers(t, flag, "stopped")
    /\ UNCHANGED proc

\* Variant: the flag is lowered when Stop is over, as its comment has it.
StoppedAndForgotten(t) == WaitedFor(t, FALSE)

StoppedGracefully(t) == WaitedFor(t, intentional)

\* Variant: WaitForExit without a grace period, which gives up on no process.
GraceNeverOver(t) == pc[t] = "wait" /\ ~HasExited /\ UNCHANGED vars

\* ... or the grace period is over.
GraceOver(t) == /\ pc[t] = "wait"
                /\ ~HasExited
                /\ Goto(t, "kill")
                /\ UNCHANGED <<manager, lock, candidates, op>>

\* Variant: the killed process is left in a state of its own.
KilledUnrecorded(t) ==
    /\ pc[t] = "kill"
    /\ proc' = [p \in Pids |-> IF p = managed[1] THEN "killed" ELSE proc[p]]
    /\ StopAnswers(t, intentional, "stopped")
    /\ UNCHANGED exitEvent

\* Kill does not wait for the process to be gone.
KilledAfterTimeout(t) ==
    /\ pc[t] = "kill"
    /\ proc' = [p \in Pids |-> IF p = managed[1] /\ Running(p) THEN "dying" ELSE proc[p]]
    /\ StopAnswers(t, intentional, "stopped")
    /\ UNCHANGED exitEvent

\* Variant: the error path leaves the flag up.
StopFailsForGood(t) == /\ pc[t] \in {"wait", "kill"}
                       /\ StopAnswers(t, intentional, "stopError")
                       /\ UNCHANGED <<proc, exitEvent>>

\* CloseMainWindow, WaitForExit or Kill throws: the stop is taken back.
StopFails(t) == /\ pc[t] \in {"wait", "kill"}
                /\ StopAnswers(t, FALSE, "stopError")
                /\ UNCHANGED <<proc, exitEvent>>
-----------------------------------------------------------------------------
(***************************************************************************)
(* OnProcessExited on the thread pool: two critical sections with a sleep  *)
(* between them.                                                           *)
(***************************************************************************)
\* The pool is the first to see the exit; its callback comes to the lock.
PoolRaises(h) == /\ exitEvent[h] = "armed" /\ ~Running(h[1])
                 /\ exitEvent' = [exitEvent EXCEPT ![h] = "raised"]
                 /\ UNCHANGED <<proc, managed, intentional, lock, candidates, op, pc,
                                verdict, nested>>

Callback(h, state) == exitEvent[h] = state /\ lock = Free

\* Variant: a callback that finds the lock taken gives up.
CheckIntentIfFree(h) ==
    /\ exitEvent[h] = "raised"
    /\ exitEvent' = [exitEvent EXCEPT ![h] =
                        IF intentional \/ lock # Free THEN "none" ELSE "cooling"]
    /\ UNCHANGED <<proc, managed, intentional, lock, candidates, op, pc, verdict, nested>>

CheckIntent(h) ==
    /\ Callback(h, "raised")
    /\ exitEvent' = [exitEvent EXCEPT ![h] = IF intentional THEN "none" ELSE "cooling"]
    /\ UNCHANGED <<proc, managed, intentional, lock, candidates, op, pc, verdict, nested>>

WakeForNothing(h) ==
    /\ Callback(h, "cooling")
    /\ intentional \/ ~HasExited
    /\ exitEvent' = [exitEvent EXCEPT ![h] = "none"]
    /\ UNCHANGED <<proc, managed, intentional, lock, candidates, op, pc, verdict, nested>>

Relaunch(h) == /\ StartInternal([exitEvent EXCEPT ![h] = "none"], "restarted")
               /\ UNCHANGED <<intentional, candidates, op, pc, nested>>

\* Variant: the double-check asks for the flag only.
WakeWithoutLooking(h) == Callback(h, "cooling") /\ ~intentional /\ Relaunch(h) /\ UNCHANGED lock

WakeAndRestart(h) == /\ Callback(h, "cooling")
                     /\ ~intentional /\ HasExited /\ ~Untold
                     /\ Relaunch(h)
                     /\ UNCHANGED lock

\* The double-check is a look like any other: it may find the exit of a newer process,
\* run that one's callback first, and launch all the same ...
NestedRestart(h) == /\ Callback(h, "cooling")
                    /\ ~intentional /\ Untold
                    /\ StartInternal([exitEvent EXCEPT ![managed] = "none", ![h] = "again"],
                                     "restarted")
                    /\ nested' = TRUE
                    /\ lock' = Pool
                    /\ UNCHANGED <<intentional, candidates, op, pc>>

RestartAgain(h) == exitEvent[h] = "again" /\ lock' = Free /\ Relaunch(h)

\* ... or wait for the lock of its object for ever.
WakeCollides(h) == /\ Callback(h, "cooling")
                   /\ ~intentional /\ Untold
                   /\ exitEvent' = [exitEvent EXCEPT ![managed] = "raised"]
                   /\ lock' = Pool
                   /\ UNCHANGED <<proc, managed, intentional, candidates, op, pc, verdict, nested>>
-----------------------------------------------------------------------------
(***************************************************************************)
(* The machine the agent runs on.                                          *)
(***************************************************************************)
LaunchByHand(p) == /\ ManualLaunches
                   /\ p \in Unused
                   /\ \E kind \in {"live", "guarded"} : proc' = [proc EXCEPT ![p] = kind]
                   /\ UNCHANGED <<managed, intentional, lock, exitEvent, candidates, op, pc,
                                  verdict, nested>>

\* A crash, a close by its user, or the end of a killed process.
ProcessExits(p) ==
    /\ Running(p)
    /\ proc' = [proc EXCEPT ![p] = "none"]
    /\ UNCHANGED <<managed, intentional, lock, exitEvent, candidates, op, pc, verdict, nested>>

\* The agent stops and comes back with new objects; the processes stay.
RestartAgent == /\ AgentRestarts
                /\ managed' = NoProcess
                /\ intentional' = FALSE
                /\ lock' = Free
                /\ exitEvent' = [h \in Handles |-> "none"]
                /\ candidates' = {}
                /\ op' = [t \in Threads |-> "none"]
                /\ pc' = [t \in Threads |-> "idle"]
                /\ verdict' = "none"
                /\ UNCHANGED <<proc, nested>>
-----------------------------------------------------------------------------
Attaching(t) == \/ List(t)
                \/ \E p \in Pids : Adopt(t, p)
                \/ FindNone(t)
                \/ Subscribe(t)
                \/ SubscribeThrows(t)
                \/ KillDuplicates(t)

Starting(t) == StartAlreadyRunning(t) \/ StartLaunches(t)

Stopping(t) == \/ StopNotRunning(t)
               \/ StopBegins(t)
               \/ StoppedGracefully(t)
               \/ GraceOver(t)
               \/ KilledAfterTimeout(t)

Body(t) == \/ CallbackInLook(t) \/ Collide(t)
           \/ Attaching(t) \/ Starting(t) \/ Stopping(t) \/ GetStatus(t)

OnProcessExited(h) == \/ CheckIntent(h) \/ WakeForNothing(h) \/ WakeAndRestart(h)
                      \/ NestedRestart(h) \/ RestartAgain(h) \/ WakeCollides(h)

Next == \/ \E t \in Threads : \/ Call(t)
                              \/ \E o \in Ops : Enter(t, o)
                              \/ Body(t)
                              \/ StopFails(t)
        \/ \E h \in Handles : PoolRaises(h) \/ OnProcessExited(h)
        \/ \E p \in Pids : LaunchByHand(p) \/ ProcessExits(p)
        \/ RestartAgent

Spec == Init /\ [][Next]_vars

\* A thread inside the lock keeps running, without an exception to help it; one that
\* waits for the lock gets it when it is free again and again, and so does a callback;
\* the pool sees an exit that nobody else has seen; a killed process goes.
Fairness == /\ \A t \in Threads : SF_vars((\E o \in Ops : Enter(t, o)) \/ Body(t))
            /\ \A p \in Pids :
                  /\ SF_vars(\E h \in Handles : h[1] = p /\ (PoolRaises(h) \/ OnProcessExited(h)))
                  /\ WF_vars(proc[p] = "dying" /\ ProcessExits(p))

FairSpec == Spec /\ Fairness
-----------------------------------------------------------------------------
(***************************************************************************)
(* Properties.                                                             *)
(***************************************************************************)
\* Every variable keeps to its values.
TypeOK == /\ proc \in [Pids -> {"none", "live", "guarded", "dying"}]
          /\ managed \in Handles \cup {NoProcess}
          /\ intentional \in BOOLEAN
          /\ lock \in Threads \cup {Free, Pool}
          /\ exitEvent \in [Handles -> EventStates]
          /\ candidates \subseteq Pids
          /\ op \in [Threads -> Operations \cup {"none"}]
          /\ pc \in [Threads -> Steps]
          /\ verdict \in Verdicts
          /\ nested \in BOOLEAN

\* Whenever nobody is in the middle of adopting it, a live process the manager
\* tracks has its exit event armed: the handle and the subscription that drives
\* the auto-restart never come apart, whoever started the process.
Supervised == /\ ~HasExited
              /\ \A t \in Threads : pc[t] # "subscribe"
              => exitEvent[managed] = "armed"

\* Nobody else's exit is watched: an event of a live process belongs to the handle
\* that tracks it, so the exit of a killed duplicate restarts nothing.
OnlyManagedIsWatched ==
    \A h \in Handles : exitEvent[h] = "armed" /\ Alive(h) => h = managed

\* Through launches, adoptions, killed duplicates, exits and restarts of the agent the
\* live tracked process is watched, and nothing else is but what the manager let go of
\* because a callback launched within a look.
WatchedExactly == Supervised /\ (~nested => OnlyManagedIsWatched)

\* Where users and faults stay away, the calls, the auto-restarts and the agent's
\* own restarts put two live processes of the executable side by side in one way
\* only: after a callback that launched within a look.
NoAgentDuplicates == ~nested => Cardinality({p \in Pids : proc[p] = "live"}) <= 1

\* Somebody acts on a look that said the process is gone, while a launch has overtaken it.
Overtaken == /\ ~HasExited
             /\ \/ \E t \in Threads : pc[t] \in {"list", "scan", "gone"}
                \/ \E h \in Handles : exitEvent[h] = "again"

\* A live process that was started or adopted, or restarted by a callback that came on
\* its own, is never let go of for another one: a late callback, or a Start during the
\* cool-down, finds it and leaves it.  It happens to one that a callback has just
\* restarted within the very look that decides.
ManagedNotAbandoned ==
    [][managed' \notin {managed, NoProcess} /\ ~HasExited
          => Overtaken /\ nested /\ verdict = "restarted"]_vars

\* After Stop answered Ok no callback launches the process again, until a call
\* decides otherwise; the exit may be noticed long after the answer.
StopHolds == [][verdict = "stopped" => verdict' # "restarted"]_vars

\* _lock and the lock of a Process object are each held by one who waits for the other.
Deadlocked == \/ \E t \in Threads : pc[t] = "stuck"
              \/ lock = Pool /\ \A h \in Handles : exitEvent[h] # "again"

\* Every call is answered, whatever the process does with the close request, unless
\* the two locks are deadlocked.
CallsAnswered == \A t \in Threads : pc[t] # "idle" ~> pc[t] = "idle" \/ Deadlocked

ExitMissed == managed \in Handles /\ exitEvent[managed] = "missed"

\* An exit is due from its moment on, in the middle of an adoption too.
Due == {h \in Handles : \/ exitEvent[h] \in Pending /\ ~Alive(h)
                        \/ h = managed /\ HasExited /\ \E t \in Threads : pc[t] = "subscribe"}

Supposed == {"adopted", "started", "restarted", "stopError"}

\* No exit slips between the calls and the callback: from the moment the tracked process
\* is gone until it is launched again or a stop succeeds, a callback is on its way, also
\* while a Stop that will fail is under way, unless the exit fell into its adoption.
CrashNoticed == verdict \in Supposed /\ HasExited => ExitMissed \/ managed \in Due

\* A tracked process that exits without a stop is launched again, or the launch
\* fails, or somebody stops it; also after a Stop that failed.  The two locks may
\* be deadlocked before that.
CrashRecovered ==
    verdict \in Supposed /\ HasExited
        ~> ~HasExited \/ ExitMissed \/ verdict \notin Supposed \/ Deadlocked
-----------------------------------------------------------------------------
(***************************************************************************)
(* The abstract specification.                                             *)
(***************************************************************************)
Abstract == INSTANCE Supervisor
    WITH Processes <- Handles,
         child <- IF HasExited THEN NoProcess ELSE managed,
         strays <- {h \in Handles : exitEvent[h] = "armed" /\ Alive(h) /\ h # managed},
         hold <- intentional, due <- Due, outcome <- verdict, late <- Overtaken

\* Every step of the calls, of the callbacks and of the machine is a step of the
\* supervisor or none at all: one launch at most for an exit, none that a stop holds
\* back, none over a live process but by an actor whose look was overtaken, and an
\* exit unnoticed only in an adoption.
ImplementsSupervisor == Abstract!Spec
-----------------------------------------------------------------------------
(***************************************************************************)
(* What a comment of the class promises and the code does not keep.        *)
(***************************************************************************)
\* "Double-check: someone may have called Start() or Stop() during the delay":
\* a Stop during the cool-down cancels the restart it interrupts.
StopDuringCoolDownHolds == [][verdict = "notRunning" => verdict' # "restarted"]_vars
=============================================================================
