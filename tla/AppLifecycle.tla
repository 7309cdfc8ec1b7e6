---------------------------- MODULE AppLifecycle ----------------------------
(***************************************************************************)
(* One application of the agent from its registration to its removal: the  *)
(* commands MultiAppManagerService routes to it on several connections,    *)
(* the scope it caches for the application, the manager that scope's       *)
(* ProcessManagerRegistry caches for one instance, and the start of the    *)
(* default instance when the agent boots.                                  *)
(*                                                                         *)
(* A scope and its manager are objects: they live on in the threads that   *)
(* hold them and in their exit callbacks after the application is gone.    *)
(* Every definition names the same executable.  A manager's call is split  *)
(* at the looks that can run an exit callback on the calling thread; the   *)
(* failures of a call, and what comes between its other statements, are in *)
(* ProcessManager.                                                         *)
(***************************************************************************)
EXTENDS Naturals, FiniteSets

CONSTANTS
    Threads,       \* the command loops of the connections
    Booter,        \* DefaultInstanceStartupService
    Ops,           \* the commands they receive
    Defs,          \* definitions of the application
    NoDef,         \* not registered
    Scopes,        \* scope objects, reused when nothing refers to them
    NoScope,
    Pids,          \* processes of the instance's executable
    NoProcess,
    HasDefault,    \* whether the instance is the default one, started at boot
    AgentRestarts  \* whether the agent may stop and come back

Commands == {"register", "unregister", "start", "stop", "status"}

\* Process objects: one for a process launched here, one for a process found.
Handles == Pids \X {"own", "found"}

ASSUME LifecycleAssumption ==
    /\ Booter \notin Threads
    /\ Ops \subseteq Commands
    /\ NoDef \notin Defs /\ NoScope \notin Scopes /\ NoProcess \notin Handles
    /\ HasDefault \in BOOLEAN /\ AgentRestarts \in BOOLEAN

VARIABLES
    registered,  \* the application's entry in AppRegistryService
    scope,       \* its entry in _apps
    built,       \* the definition each scope was built from
    child,       \* _managedProcess of each scope's manager
    hold,        \* its _intentionalStop
    watched,     \* exit events armed: the processes whose exit nobody has seen yet
    due,         \* exits whose callback runs on the thread pool
    deadlocked,  \* scopes whose manager's lock is never released again
    alive,       \* live processes
    op, pc,      \* the command of each thread, and where it is
    def, mine,   \* the definition and the scope it has obtained
    removals,    \* history: whether an application was removed since the agent started,
                 \* and whether another call was under way meanwhile
    overtaken    \* history: whether a callback launched within a look, or an application
                 \* was removed, ever

service == <<registered, scope, built>>
managers == <<child, hold, watched, due, deadlocked, alive>>
calls == <<op, pc, def, mine>>
history == <<removals, overtaken>>
vars == <<service, managers, calls, history>>

Callers == Threads \cup {Booter}

Running(s) == child[s] \in Handles /\ child[s][1] \in alive

\* The tracked process is gone, and the next look at it runs its callback.
Untold(s) == child[s] \in Handles /\ ~Running(s) /\ <<s, child[s]>> \in watched

\* Exits a manager has still to handle, whether they have come or not.
Awaited(s) == {h \in Handles : <<s, h>> \in watched \cup due}

\* Scopes the garbage collector has.
Unreferenced == {s \in Scopes : /\ s # scope
                                /\ \A t \in Callers : mine[t] # s
                                /\ Awaited(s) = {}}

\* Identifiers of processes that have gone and have no handle open on them.
Unused == {p \in Pids \ alive :
             \A s \in Scopes \ Unreferenced :
                \A h \in {<<p, "own">>, <<p, "found">>} : h # child[s] /\ h \notin Awaited(s)}

Init == /\ registered \in Defs \cup {NoDef}
        /\ scope = NoScope
        /\ built = [s \in Scopes |-> NoDef]
        /\ child = [s \in Scopes |-> NoProcess]
        /\ hold = [s \in Scopes |-> FALSE]
        /\ watched = {}
        /\ due = {}
        /\ deadlocked = {}
        /\ alive = {}
        /\ op = [t \in Callers |-> "none"]
        /\ pc = [t \in Callers |-> IF t = Booter THEN "boot" ELSE "idle"]
        /\ def = [t \in Callers |-> NoDef]
        /\ mine = [t \in Callers |-> NoScope]
        /\ removals = "none"
        /\ overtaken = FALSE
-----------------------------------------------------------------------------
Goto(t, s) == pc' = [pc EXCEPT ![t] = s]

Begin(t, o, d, s) == /\ op' = [op EXCEPT ![t] = o]
                     /\ def' = [def EXCEPT ![t] = d]
                     /\ Goto(t, s)
                     /\ UNCHANGED mine

Return(t) == /\ op' = [op EXCEPT ![t] = "none"]
             /\ def' = [def EXCEPT ![t] = NoDef]
             /\ mine' = [mine EXCEPT ![t] = NoScope]
             /\ Goto(t, "idle")

\* A command that begins between the halves of a removal overlaps it.
Meets == removals' = IF \E u \in Callers : pc[u] = "removed" THEN "overlapped" ELSE removals

\* RegisterApp: the registry first, then the scope.
Register(t, d) == /\ pc[t] = "idle" /\ "register" \in Ops
                  /\ registered = NoDef
                  /\ registered' = d
                  /\ Begin(t, "register", d, "ensure")
                  /\ Meets
                  /\ UNCHANGED <<scope, built, managers, overtaken>>

\* GetRegistry begins with the definition.
Lookup(t, o) == /\ pc[t] = "idle" /\ o \in Ops \cap {"start", "stop", "status"}
                /\ registered # NoDef
                /\ Begin(t, o, registered, "ensure")
                /\ Meets
                /\ UNCHANGED <<service, managers, overtaken>>

\* DefaultInstanceStartupService, after its delay: GetDefaultManagers.
Boot == /\ pc[Booter] = "boot"
        /\ IF HasDefault /\ registered # NoDef
           THEN Begin(Booter, "boot", registered, "ensure")
           ELSE Goto(Booter, "idle") /\ UNCHANGED <<op, def, mine>>
        /\ Meets
        /\ UNCHANGED <<service, managers, overtaken>>

\* _lock of the service: free, unless an unregistration waits in it for a deadlocked manager.
ServiceFree == \A t \in Callers : pc[t] # "hung"

NewScope(t) == \E s \in Unreferenced :
                  /\ scope' = s
                  /\ built' = [built EXCEPT ![s] = def[t]]
                  /\ child' = [child EXCEPT ![s] = NoProcess]
                  /\ hold' = [hold EXCEPT ![s] = FALSE]
                  /\ mine' = [mine EXCEPT ![t] = s]

\* Variant: the scope is built without a look at the dictionary.
EnsureScopeAnew(t) ==
    /\ pc[t] = "ensure"
    /\ NewScope(t)
    /\ Goto(t, "scoped")
    /\ UNCHANGED <<registered, watched, due, deadlocked, alive, op, def, history>>

EnsureScope(t) ==
    /\ pc[t] = "ensure" /\ ServiceFree
    /\ \/ /\ scope # NoScope
          /\ mine' = [mine EXCEPT ![t] = scope]
          /\ UNCHANGED <<scope, built, child, hold>>
       \/ scope = NoScope /\ NewScope(t)
    /\ Goto(t, "scoped")
    /\ UNCHANGED <<registered, watched, due, deadlocked, alive, op, def, history>>

\* Variant: the connection is left in a state of its own.
RegisteredUnanswered(t) == /\ pc[t] = "scoped" /\ op[t] = "register"
                           /\ Goto(t, "registered")
                           /\ UNCHANGED <<service, managers, op, def, mine, history>>

Registered(t) == /\ pc[t] = "scoped" /\ op[t] = "register"
                 /\ Return(t)
                 /\ UNCHANGED <<service, managers, history>>
-----------------------------------------------------------------------------
(***************************************************************************)
(* Calls of the scope's manager: the attach, the duplicates, the act.      *)
(***************************************************************************)
Inside == {"listing", "attached", "cleared", "gone"}

\* The lock of a manager.
Free(s) == s \notin deadlocked /\ \A t \in Callers : mine[t] = s => pc[t] \notin Inside

\* The boot service asks IsRunning first, then calls Start.
Asking(t) == pc[t] = "scoped" /\ op[t] = "boot" /\ Free(mine[t])

Entering(t) == /\ \/ pc[t] = "scoped" /\ op[t] \in {"start", "stop", "status"}
                  \/ pc[t] = "unstarted"
               /\ Free(mine[t])

\* Where a call looks at the tracked process, and where it is when the answer is "gone".
Looking(t) == Asking(t) \/ Entering(t) \/ pc[t] \in {"attached", "cleared"}
WhenGone(t) == CASE Asking(t) -> "unstarted"
                 [] Entering(t) -> "listing"
                 [] pc[t] = "attached" -> "cleared"
                 [] OTHER -> "gone"

Watch(s, h) == child' = [child EXCEPT ![s] = h] /\ watched' = watched \cup {<<s, h>>}

\* The processes ps have been launched and h is tracked; watches are the events armed before.
Launched(s, watches, ps, h) == /\ alive' = alive \cup ps
                               /\ child' = [child EXCEPT ![s] = h]
                               /\ watched' = watches \cup ({s} \X (ps \X {"own"}))

\* StartInternal, which may fail; it does not look at other processes.
Launch(s, watches) == \/ \E p \in Unused : Launched(s, watches, {p}, <<p, "own">>)
                      \/ Launched(s, watches, {}, NoProcess)

\* The look is the first to see the exit and runs the callback: with the flag up it does
\* nothing, else it launches, and the call goes on as one that found nothing.
CallbackInLook(t) ==
    /\ Looking(t) /\ Untold(mine[t])
    /\ LET watches == watched \ {<<mine[t], child[mine[t]]>>}
       IN  \/ /\ hold[mine[t]]
              /\ watched' = watches
              /\ UNCHANGED <<child, alive, pc, overtaken>>
           \/ /\ ~hold[mine[t]]
              /\ Launch(mine[t], watches)
              /\ Goto(t, WhenGone(t))
              /\ overtaken' = TRUE
    /\ UNCHANGED <<service, hold, due, deadlocked, op, def, mine, removals>>

\* The pool is, and its callback and this call wait for each other's lock.
Hangs(t) == /\ deadlocked' = deadlocked \cup {mine[t]}
            /\ Goto(t, "stuck")
            /\ UNCHANGED <<op, def, mine>>

Collide(t) == /\ Looking(t)
              /\ Untold(mine[t])
              /\ Hangs(t)
              /\ watched' = watched \ {<<mine[t], child[mine[t]]>>}
              /\ UNCHANGED <<service, child, hold, due, alive, history>>

\* Variant: at boot any process of the executable will do.
SkipsSurvivors(t) == /\ Asking(t)
                     /\ alive # {}
                     /\ Return(t)
                     /\ UNCHANGED <<service, managers, history>>

\* At boot a manager that already tracks a process is left alone.
BootSkips(t) == /\ Asking(t)
                /\ Running(mine[t])
                /\ Return(t)
                /\ UNCHANGED <<service, managers, history>>

LooksGone(s) == ~Running(s) /\ ~Untold(s)

BootGoesOn(t) == /\ Asking(t)
                 /\ LooksGone(mine[t])
                 /\ Goto(t, "unstarted")
                 /\ UNCHANGED <<service, managers, op, def, mine, history>>

Stays(t) == /\ Entering(t)
            /\ Running(mine[t])
            /\ Goto(t, "attached")
            /\ UNCHANGED <<service, managers, op, def, mine, history>>

Scanning(t) == (Entering(t) /\ LooksGone(mine[t])) \/ pc[t] = "listing"

Adopt(t, p) == /\ Scanning(t)
               /\ p \in alive
               /\ Watch(mine[t], <<p, "found">>)
               /\ hold' = [hold EXCEPT ![mine[t]] = FALSE]
               /\ Goto(t, "attached")
               /\ UNCHANGED <<service, due, deadlocked, alive, op, def, mine, history>>

\* Variant: the scan overlooks every process.
FindNoneEver(t) == /\ Scanning(t)
                   /\ Goto(t, "attached")
                   /\ UNCHANGED <<service, managers, op, def, mine, history>>

FindNone(t) == /\ Scanning(t)
               /\ alive = {}
               /\ Goto(t, "attached")
               /\ UNCHANGED <<service, managers, op, def, mine, history>>

KillDuplicates(t) ==
    /\ pc[t] = "attached"
    /\ Running(mine[t]) \/ LooksGone(mine[t])
    /\ alive' = IF Running(mine[t]) THEN {child[mine[t]][1]} ELSE alive
    /\ Goto(t, "cleared")
    /\ UNCHANGED <<service, child, hold, watched, due, deadlocked, op, def, mine, history>>

FoundAlive(t, o) == pc[t] = "cleared" /\ op[t] \in o /\ Running(mine[t])
FoundGone(t, o) == op[t] \in o /\ (pc[t] = "gone" \/ (pc[t] = "cleared" /\ LooksGone(mine[t])))

\* Every answer that changes nothing.
Answers(t) == /\ \/ FoundAlive(t, {"start", "status", "boot"})
                 \/ FoundGone(t, {"stop", "status"})
              /\ Return(t)
              /\ UNCHANGED <<service, managers, history>>

Start(t) == /\ FoundGone(t, {"start", "boot"})
            /\ Launch(mine[t], watched)
            /\ hold' = [hold EXCEPT ![mine[t]] = FALSE]
            /\ Return(t)
            /\ UNCHANGED <<service, due, deadlocked, history>>

\* The flag goes up and the process goes; the wait for it may meet the pool as well.
Stop(t) == /\ FoundAlive(t, {"stop"})
           /\ alive' = alive \ {child[mine[t]][1]}
           /\ hold' = [hold EXCEPT ![mine[t]] = TRUE]
           /\ Hangs(t) \/ (Return(t) /\ UNCHANGED deadlocked)
           /\ UNCHANGED <<service, child, watched, due, history>>
-----------------------------------------------------------------------------
(***************************************************************************)
(* UnregisterApp: a check under the lock, the registry, the dictionary.    *)
(***************************************************************************)
UnregisterChecks(t) == /\ pc[t] = "idle" /\ "unregister" \in Ops
                       /\ ServiceFree
                       /\ scope # NoScope => LooksGone(scope) /\ Free(scope)
                       /\ Begin(t, "unregister", NoDef, "checked")
                       /\ UNCHANGED <<service, managers, history>>

\* The check runs the callback, which may launch, and still finds the old process gone.
CallbackInCheck(t) ==
    /\ pc[t] = "idle" /\ "unregister" \in Ops
    /\ ServiceFree
    /\ scope # NoScope /\ Free(scope) /\ Untold(scope)
    /\ LET watches == watched \ {<<scope, child[scope]>>}
       IN  \/ /\ hold[scope]
              /\ watched' = watches
              /\ UNCHANGED <<child, alive, overtaken>>
           \/ /\ ~hold[scope]
              /\ Launch(scope, watches)
              /\ overtaken' = TRUE
    /\ Begin(t, "unregister", NoDef, "checked")
    /\ UNCHANGED <<service, hold, due, deadlocked, removals>>

\* The check waits for a manager that is deadlocked, or deadlocks with it, and keeps
\* _lock of the service from every other command.
UnregisterHangs(t) == /\ pc[t] = "idle" /\ "unregister" \in Ops
                      /\ ServiceFree
                      /\ scope # NoScope
                      /\ scope \in deadlocked \/ (Free(scope) /\ Untold(scope))
                      /\ deadlocked' = deadlocked \cup {scope}
                      /\ Begin(t, "unregister", NoDef, "hung")
                      /\ UNCHANGED <<service, child, hold, watched, due, alive, history>>

UnregisterFindsNone(t) == /\ pc[t] = "checked"
                          /\ registered = NoDef
                          /\ Return(t)
                          /\ UNCHANGED <<service, managers, history>>

UnregisterRemoves(t) == /\ pc[t] = "checked"
                        /\ registered # NoDef
                        /\ registered' = NoDef
                        /\ removals' = IF \A u \in Callers \ {t} : pc[u] \in {"idle", "boot"}
                                       THEN IF removals = "none" THEN "alone" ELSE removals
                                       ELSE "overlapped"
                        /\ overtaken' = TRUE
                        /\ Goto(t, "removed")
                        /\ UNCHANGED <<scope, built, managers, op, def, mine>>

\* Variant: the scope stays in the dictionary.
ForgetNothing(t) == /\ pc[t] = "removed"
                    /\ Return(t)
                    /\ UNCHANGED <<service, managers, history>>

Forget(t) == /\ pc[t] = "removed" /\ ServiceFree
             /\ scope' = NoScope
             /\ Return(t)
             /\ UNCHANGED <<registered, built, managers, history>>
-----------------------------------------------------------------------------
\* A process ends by itself.
Exits(p) == /\ p \in alive
            /\ alive' = alive \ {p}
            /\ UNCHANGED <<service, child, hold, watched, due, deadlocked, calls, history>>

\* The thread pool sees an exit first.
PoolRaises(s, h) == /\ <<s, h>> \in watched /\ h[1] \notin alive
                    /\ watched' = watched \ {<<s, h>>}
                    /\ due' = due \cup {<<s, h>>}
                    /\ UNCHANGED <<service, child, hold, deadlocked, alive, calls, history>>

Callback(s, h) == <<s, h>> \in due /\ Free(s)

\* OnProcessExited has nothing to do, then or after its sleep ...
Handled(s, h) == /\ Callback(s, h)
                 /\ hold[s] \/ Running(s)
                 /\ due' = due \ {<<s, h>>}
                 /\ UNCHANGED <<service, child, hold, watched, deadlocked, alive, calls, history>>

\* ... or launches the process again without a look at others ...
Restart(s, h) == /\ Callback(s, h)
                 /\ ~hold[s] /\ ~Running(s) /\ ~Untold(s)
                 /\ Launch(s, watched)
                 /\ due' = due \ {<<s, h>>}
                 /\ UNCHANGED <<service, hold, deadlocked, calls, history>>

\* ... and if its own look runs the callback of a newer process, that one launches first ...
RestartTwice(s, h) ==
    /\ Callback(s, h)
    /\ ~hold[s] /\ Untold(s)
    /\ LET watches == watched \ {<<s, child[s]>>}
       IN  \/ Launch(s, watches)
           \/ \E p \in Unused : Launched(s, watches, {p}, NoProcess)
           \/ \E p, q \in Unused : p # q /\ Launched(s, watches, {p, q}, <<q, "own">>)
    /\ due' = due \ {<<s, h>>}
    /\ overtaken' = TRUE
    /\ UNCHANGED <<service, hold, deadlocked, calls, removals>>

\* ... or it waits for the pool's callback, which waits for it.
RestartCollides(s, h) ==
    /\ Callback(s, h)
    /\ ~hold[s] /\ Untold(s)
    /\ deadlocked' = deadlocked \cup {s}
    /\ UNCHANGED <<service, child, hold, watched, due, alive, calls, history>>

\* The registry is read back from its file; the processes have stayed.
RestartAgent == /\ AgentRestarts
                /\ scope' = NoScope
                /\ child' = [s \in Scopes |-> NoProcess]
                /\ hold' = [s \in Scopes |-> FALSE]
                /\ watched' = {}
                /\ due' = {}
                /\ deadlocked' = {}
                /\ op' = [t \in Callers |-> "none"]
                /\ pc' = [t \in Callers |-> IF t = Booter THEN "boot" ELSE "idle"]
                /\ def' = [t \in Callers |-> NoDef]
                /\ mine' = [t \in Callers |-> NoScope]
                /\ removals' = "none"
                /\ UNCHANGED <<registered, built, alive, overtaken>>
-----------------------------------------------------------------------------
Operate(t) == \/ CallbackInLook(t) \/ Collide(t)
              \/ BootSkips(t) \/ BootGoesOn(t)
              \/ Stays(t) \/ FindNone(t) \/ \E p \in Pids : Adopt(t, p)
              \/ KillDuplicates(t)
              \/ Answers(t) \/ Start(t) \/ Stop(t)

Routed(t) == EnsureScope(t) \/ Registered(t) \/ Operate(t)

Unregister(t) == \/ UnregisterChecks(t) \/ CallbackInCheck(t) \/ UnregisterHangs(t)
                 \/ UnregisterFindsNone(t) \/ UnregisterRemoves(t)
                 \/ Forget(t)

OnProcessExited(s, h) == \/ PoolRaises(s, h) \/ Handled(s, h) \/ Restart(s, h)
                         \/ RestartTwice(s, h) \/ RestartCollides(s, h)

Next == \/ \E t \in Threads : \/ \E d \in Defs : Register(t, d)
                              \/ \E o \in Ops : Lookup(t, o)
                              \/ Unregister(t)
        \/ Boot
        \/ \E t \in Callers : Routed(t)
        \/ \E p \in Pids : Exits(p)
        \/ \E s \in Scopes, h \in Handles : OnProcessExited(s, h)
        \/ RestartAgent

Spec == Init /\ [][Next]_vars

\* The agent is not restarted for ever before its startup service has run, and a thread
\* inside a manager's lock keeps running.
FairSpec == /\ Spec
            /\ SF_vars(Boot) /\ SF_vars(EnsureScope(Booter))
            /\ SF_vars(pc[Booter] = "scoped" /\ Operate(Booter))
            /\ SF_vars(pc[Booter] # "scoped" /\ Operate(Booter))
            /\ \A t \in Threads : WF_vars(pc[t] \in Inside /\ Operate(t))
-----------------------------------------------------------------------------
(***************************************************************************)
(* Properties.                                                             *)
(***************************************************************************)
\* Every variable keeps to its values.
TypeOK == /\ registered \in Defs \cup {NoDef}
          /\ scope \in Scopes \cup {NoScope}
          /\ built \in [Scopes -> Defs \cup {NoDef}]
          /\ child \in [Scopes -> Handles \cup {NoProcess}]
          /\ hold \in [Scopes -> BOOLEAN]
          /\ watched \subseteq Scopes \X Handles
          /\ due \subseteq Scopes \X Handles
          /\ deadlocked \subseteq Scopes
          /\ alive \subseteq Pids
          /\ op \in [Callers -> Commands \cup {"boot", "none"}]
          /\ pc \in [Callers -> {"boot", "idle", "ensure", "scoped", "unstarted", "checked",
                                 "removed", "stuck", "hung"} \cup Inside]
          /\ def \in [Callers -> Defs \cup {NoDef}]
          /\ mine \in [Callers -> Scopes \cup {NoScope}]
          /\ removals \in {"none", "alone", "overlapped"}
          /\ overtaken \in BOOLEAN

\* Until an application is removed, one manager at a time answers for the executable:
\* the one that tracks its process, or that has an exit of it to handle.
OneSupervisor ==
    removals = "none"
       => Cardinality({s \in Scopes : Running(s) \/ Awaited(s) # {}}) <= 1

\* The agent never runs the executable twice, through restarts of either, unless a callback
\* launched within somebody's look or an application was removed before.
OneProcess == ~overtaken => Cardinality(alive) <= 1

\* When every call has returned the cached scope belongs to the registered definition,
\* unless a removal and another call overlapped: none outlives its registration and
\* none was built from an older one.
ScopeFollowsRegistration ==
    removals # "overlapped" /\ (\A t \in Callers : pc[t] \in {"idle", "boot"})
       => scope = NoScope \/ built[scope] = registered

\* A default instance that survives a restart of the agent comes under supervision
\* again, though no command is ever sent, unless the application is removed; its manager
\* may be deadlocked by then.
SurvivorSupervised ==
    pc[Booter] = "boot" /\ HasDefault /\ registered # NoDef /\ alive # {}
       ~> \/ alive = {} \/ \E s \in Scopes : Running(s)
          \/ removals # "none" \/ deadlocked # {}

\* "Unregisters an application, refusing if any of its instances are still running".
UnregisterRefuses == [][registered # NoDef /\ registered' = NoDef => alive = {}]_vars
=============================================================================
