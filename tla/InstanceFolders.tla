-------------------------- MODULE InstanceFolders --------------------------
(***************************************************************************)
(* One numbered instance of an application: its folder, the Create and     *)
(* Delete calls of InstanceManagerService on several connections, and what *)
(* they see of the instance's process.                                     *)
(*                                                                         *)
(* The file system has no lock over a folder: Create copies file by file   *)
(* and Delete removes file by file, while the process is started, exits    *)
(* and is restarted, and while the agent itself may crash.  A running      *)
(* executable cannot be removed.  The process is supervised as in          *)
(* ProcessManager, here without its steps.                                 *)
(***************************************************************************)
EXTENDS Naturals

CONSTANTS
    Threads,       \* the command loops of the connections
    Ops,           \* the commands they receive
    N,             \* files of the default instance, in the order of the copy
    Exe,           \* the executable among them
    IOFaults,      \* whether a file operation may throw
    AgentCrashes   \* whether the agent may stop and come back

Commands == {"create", "delete", "start", "stop", "status"}

ASSUME FoldersAssumption ==
    /\ Ops \subseteq Commands
    /\ N \in Nat \ {0} /\ Exe \in 1..N
    /\ IOFaults \in BOOLEAN /\ AgentCrashes \in BOOLEAN

VARIABLES
    exists,    \* whether the folder exists
    folder,    \* the files in it
    pc,        \* where each thread is
    next,      \* the file each Create copies next
    created,   \* history: Creates that answered Ok since the folder was absent
    disturbed, \* history: whether a delete, a fault or a crash has touched it since
    running,   \* whether the instance's process runs
    tracked,   \* whether its manager tracks the process
    cooling    \* whether an exit callback is about to restart it

disk == <<exists, folder>>
process == <<running, tracked, cooling>>
history == <<created, disturbed>>
vars == <<disk, pc, next, history, process>>

Files == 1..N

Init == /\ exists = FALSE
        /\ folder = {}
        /\ pc = [t \in Threads |-> "idle"]
        /\ next = [t \in Threads |-> 1]
        /\ created = 0
        /\ disturbed = FALSE
        /\ running = FALSE
        /\ tracked = FALSE
        /\ cooling = FALSE
-----------------------------------------------------------------------------
Goto(t, s) == pc' = [pc EXCEPT ![t] = s]

Receive(t, o) == pc[t] = "idle" /\ o \in Ops

Return(t) == Goto(t, "idle")

CreateFindsFolder(t) == /\ Receive(t, "create")
                        /\ exists
                        /\ Return(t)
                        /\ UNCHANGED <<disk, next, history, process>>

CreateBegins(t) == /\ Receive(t, "create")
                   /\ ~exists
                   /\ Goto(t, "mkdir")
                   /\ UNCHANGED <<disk, next, history, process>>

\* Directory.CreateDirectory takes a folder that exists by now as it is.
CreateDirectory(t) == /\ pc[t] = "mkdir"
                      /\ exists' = TRUE
                      /\ next' = [next EXCEPT ![t] = 1]
                      /\ Goto(t, "copy")
                      /\ UNCHANGED <<folder, history, process>>

Copy(t) == /\ pc[t] = "copy" /\ next[t] <= N
           /\ exists
           /\ folder' = folder \cup {next[t]}
           /\ next' = [next EXCEPT ![t] = @ + 1]
           /\ UNCHANGED <<exists, pc, history, process>>

\* Variant: overwrite: true.
CopyOver(t) == Copy(t)

\* overwrite: false
CopyFile(t) == next[t] \notin folder /\ Copy(t)

\* The file is there, the folder is gone, or the copy throws.
CopyImpossible(t) == /\ pc[t] = "copy" /\ next[t] <= N
                     /\ IOFaults \/ ~exists \/ next[t] \in folder
                     /\ disturbed' = (disturbed \/ next[t] \notin folder)
                     /\ Return(t)

\* Variant: a Create that fails removes its folder.
CopyFailsAndCleansUp(t) == /\ CopyImpossible(t)
                           /\ exists' = FALSE
                           /\ folder' = {}
                           /\ UNCHANGED <<next, created, process>>

\* Variant: its connection is never answered.
CopyFailsUnanswered(t) == /\ pc[t] = "copy" /\ next[t] <= N
                          /\ IOFaults \/ ~exists \/ next[t] \in folder
                          /\ Goto(t, "failed")
                          /\ UNCHANGED <<disk, next, history, process>>

\* What was copied so far stays.
CopyFails(t) == /\ CopyImpossible(t)
                /\ UNCHANGED <<disk, next, created, process>>

CreateEnds(t) == /\ pc[t] = "copy" /\ next[t] > N
                 /\ created' = created + 1
                 /\ Return(t)
                 /\ UNCHANGED <<disk, next, disturbed, process>>
-----------------------------------------------------------------------------
DeleteFindsNone(t) == /\ Receive(t, "delete")
                      /\ ~exists
                      /\ Return(t)
                      /\ UNCHANGED <<disk, next, history, process>>

DeleteRefused(t) == /\ Receive(t, "delete")
                    /\ exists /\ running /\ tracked
                    /\ Return(t)
                    /\ UNCHANGED <<disk, next, history, process>>

DeleteBegins(t) == /\ Receive(t, "delete")
                   /\ exists /\ ~(running /\ tracked)
                   /\ Goto(t, "delete")
                   /\ disturbed' = TRUE
                   /\ UNCHANGED <<disk, next, created, process>>

\* Directory.Delete, recursive.
DeleteFile(t) == /\ pc[t] = "delete"
                 /\ \E f \in folder : /\ ~(running /\ f = Exe)
                                      /\ folder' = folder \ {f}
                 /\ UNCHANGED <<exists, pc, next, history, process>>

DeleteFails(t) == /\ pc[t] = "delete"
                  /\ \/ IOFaults \/ running \/ ~exists
                     \/ \E u \in Threads : pc[u] = "copy"
                  /\ Return(t)
                  /\ UNCHANGED <<disk, next, history, process>>

DeleteEnds(t) == /\ pc[t] = "delete"
                 /\ exists /\ folder = {}
                 /\ exists' = FALSE
                 /\ created' = 0
                 /\ disturbed' = (\E u \in Threads \ {t} : pc[u] # "idle")
                 /\ Return(t)
                 /\ UNCHANGED <<folder, next, process>>
-----------------------------------------------------------------------------
(***************************************************************************)
(* The instance's process and its manager.                                 *)
(***************************************************************************)
Launches == Exe \in folder

\* A status or a list attaches to a process that runs; so do a start and a stop.
Status(t) == /\ Receive(t, "status")
             /\ tracked' = running
             /\ UNCHANGED <<disk, pc, next, history, running, cooling>>

Start(t) == /\ Receive(t, "start")
            /\ running' = (running \/ Launches)
            /\ tracked' = running'
            /\ UNCHANGED <<disk, pc, next, history, cooling>>

Stop(t) == /\ Receive(t, "stop")
           /\ running
           /\ running' = FALSE
           /\ tracked' = FALSE
           /\ cooling' = FALSE
           /\ UNCHANGED <<disk, pc, next, history>>

Exits == /\ running
         /\ running' = FALSE
         /\ tracked' = FALSE
         /\ cooling' = (cooling \/ tracked)
         /\ UNCHANGED <<disk, pc, next, history>>

AutoRestart == /\ cooling
               /\ cooling' = FALSE
               /\ running' = (running \/ Launches)
               /\ tracked' = IF running THEN tracked ELSE running'
               /\ UNCHANGED <<disk, pc, next, history>>

\* The calls are cut off; the folder and the process stay as they are.
RestartAgent == /\ AgentCrashes
                /\ pc' = [t \in Threads |-> "idle"]
                /\ tracked' = FALSE
                /\ cooling' = FALSE
                /\ disturbed' = (disturbed \/ \E t \in Threads : pc[t] # "idle")
                /\ UNCHANGED <<disk, next, created, running>>
-----------------------------------------------------------------------------
Create(t) == \/ CreateFindsFolder(t)
             \/ CreateBegins(t)
             \/ CreateDirectory(t)
             \/ CopyFile(t)
             \/ CopyFails(t)
             \/ CreateEnds(t)

Delete(t) == \/ DeleteFindsNone(t)
             \/ DeleteRefused(t)
             \/ DeleteBegins(t)
             \/ DeleteFile(t)
             \/ DeleteFails(t)
             \/ DeleteEnds(t)

Next == \/ \E t \in Threads : Create(t) \/ Delete(t) \/ Start(t) \/ Stop(t) \/ Status(t)
        \/ Exits
        \/ AutoRestart
        \/ RestartAgent

Spec == Init /\ [][Next]_vars
-----------------------------------------------------------------------------
(***************************************************************************)
(* Properties.                                                             *)
(***************************************************************************)
\* Every variable keeps to its values.
TypeOK == /\ exists \in BOOLEAN
          /\ folder \subseteq Files
          /\ pc \in [Threads -> {"idle", "mkdir", "copy", "delete"}]
          /\ next \in [Threads -> 1..(N + 1)]
          /\ created \in Nat /\ disturbed \in BOOLEAN
          /\ running \in BOOLEAN /\ tracked \in BOOLEAN /\ cooling \in BOOLEAN

\* Of several Creates of one instance, all past the check that the folder is absent,
\* one answers Ok, as long as nothing else touches the folder.
OneCreateSucceeds == ~disturbed => created <= 1

\* ... and the others, which fail, leave it the whole of its folder.
QuietComplete == ~disturbed /\ (\A t \in Threads : pc[t] = "idle")
                    => folder = IF created = 0 THEN {} ELSE Files
=============================================================================
