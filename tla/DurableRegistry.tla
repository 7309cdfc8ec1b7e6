-------------------------- MODULE DurableRegistry --------------------------
(***************************************************************************)
(* What the registry of applications promises: a copy that survives the    *)
(* process and changes in one step only, when a mutation is saved, to what *)
(* the memory holds.  There is no file here, and nothing half written.     *)
(***************************************************************************)
CONSTANTS AppIds, Defs, NoDef

VARIABLES
    memory,   \* the registry the agent works with
    durable,  \* the registry it will start with
    state     \* "down", "idle", or "saving" a mutation

registry == <<memory, durable, state>>

Empty == [a \in AppIds |-> NoDef]

Init == memory = Empty /\ durable = Empty /\ state = "idle"

\* A registration or the removal of one definition.
Mutate(a, d) == /\ state = "idle"
                /\ memory[a] # d
                /\ memory[a] = NoDef \/ d = NoDef
                /\ memory' = [memory EXCEPT ![a] = d]
                /\ state' = "saving"
                /\ UNCHANGED durable

Commit == /\ state = "saving"
          /\ durable' = memory
          /\ state' = "idle"
          /\ UNCHANGED memory

\* The mutation is answered all the same, and lives in memory until the next save.
SaveFails == /\ state = "saving"
             /\ state' = "idle"
             /\ UNCHANGED <<memory, durable>>

Crash == /\ state # "down"
         /\ state' = "down"
         /\ UNCHANGED <<memory, durable>>

Start == /\ state = "down"
         /\ memory' \in {durable, Empty}
         /\ state' = "idle"
         /\ UNCHANGED durable

Next == \/ \E a \in AppIds, d \in Defs \cup {NoDef} : Mutate(a, d)
        \/ Commit \/ SaveFails
        \/ Crash \/ Start

Spec == Init /\ [][Next]_registry
=============================================================================
