---------------------------- MODULE AppRegistry ----------------------------
(***************************************************************************)
(* AppRegistryService: the definitions in memory, apps.json and its        *)
(* temporary sibling, through mutations, failing file operations, crashes  *)
(* in the middle of a save and the load at the next start.                 *)
(*                                                                         *)
(* A mutation holds the write lock until it has answered, so there is one  *)
(* at a time.  One that is refused (a duplicate, an unknown identifier, an *)
(* invalid definition) changes nothing and has no action.                  *)
(***************************************************************************)
CONSTANTS
    AppIds,    \* application identifiers
    Defs,      \* what a definition says besides its identifier
    NoDef,     \* not registered
    NoFile,    \* the file does not exist
    Torn       \* the file was not written to its end

ASSUME RegistryAssumption ==
    /\ NoDef \notin Defs
    /\ NoFile # Torn
    /\ {NoFile, Torn} \cap [AppIds -> Defs \cup {NoDef}] = {}

Registries == [AppIds -> Defs \cup {NoDef}]

VARIABLES
    apps,    \* _apps
    file,    \* apps.json
    tmp,     \* apps.json.tmp
    phase,   \* where the service is
    acked,   \* history: the registry after the last mutation that was answered
    latest,  \* history: the registry after the last mutation
    failed   \* history: whether an operation on the files failed since they were in step

vars == <<apps, file, tmp, phase, acked, latest, failed>>

Phases == {"down", "idle", "save", "writing", "written"}

Empty == [a \in AppIds |-> NoDef]

\* The registry a file stands for.
Content(f) == IF f = NoFile THEN Empty ELSE f

Init == /\ apps = Empty
        /\ file = NoFile
        /\ tmp = NoFile
        /\ phase = "idle"
        /\ acked = Empty
        /\ latest = Empty
        /\ failed = FALSE
-----------------------------------------------------------------------------
Mutate(a, d) == /\ phase = "idle"
                /\ apps' = [apps EXCEPT ![a] = d]
                /\ latest' = apps'

Register(a, d) == /\ apps[a] = NoDef
                  /\ Mutate(a, d)
                  /\ phase' = "save"
                  /\ UNCHANGED <<file, tmp, acked, failed>>

\* Variant: the removal is not saved.
UnregisterUnsaved(a) == /\ apps[a] # NoDef
                        /\ Mutate(a, NoDef)
                        /\ acked' = apps'
                        /\ UNCHANGED <<file, tmp, phase, failed>>

Unregister(a) == /\ apps[a] # NoDef
                 /\ Mutate(a, NoDef)
                 /\ phase' = "save"
                 /\ UNCHANGED <<file, tmp, acked, failed>>

\* Variant: a temporary file that is there already is taken for the one to move.
OpenTmpUnlessThere == /\ phase = "save"
                      /\ IF tmp = NoFile THEN tmp' = Torn /\ phase' = "writing"
                                         ELSE UNCHANGED tmp /\ phase' = "written"
                      /\ UNCHANGED <<apps, file, acked, latest, failed>>

\* File.WriteAllText creates or empties the temporary file ...
OpenTmp == /\ phase = "save"
           /\ tmp' = Torn
           /\ phase' = "writing"
           /\ UNCHANGED <<apps, file, acked, latest, failed>>

\* ... and writes it to its end.
WriteTmp == /\ phase = "writing"
            /\ tmp' = apps
            /\ phase' = "written"
            /\ UNCHANGED <<apps, file, acked, latest, failed>>

MoveTmp == /\ file' = tmp
           /\ tmp' = NoFile
           /\ phase' = "idle"
           /\ acked' = apps
           /\ failed' = FALSE
           /\ UNCHANGED <<apps, latest>>

\* Variant: the move does not wait for the write.
ReplaceEarly == phase \in {"writing", "written"} /\ MoveTmp

\* File.Move, and the mutation answers.
Replace == phase = "written" /\ MoveTmp

\* An exception is logged and swallowed: the mutation answers as if saved.
SaveFails == /\ phase \in {"save", "writing", "written"}
             /\ phase' = "idle"
             /\ acked' = apps
             /\ failed' = TRUE
             /\ UNCHANGED <<apps, file, tmp, latest>>
-----------------------------------------------------------------------------
Crash == /\ phase # "down"
         /\ phase' = "down"
         /\ UNCHANGED <<apps, file, tmp, acked, latest, failed>>

\* The constructor loads what the file holds; a read that fails loads nothing.
Load(loaded, unread) == /\ phase = "down"
                        /\ apps' = loaded
                        /\ acked' = loaded
                        /\ latest' = loaded
                        /\ failed' = unread
                        /\ phase' = "idle"
                        /\ UNCHANGED <<file, tmp>>

Boot == Load(Content(file), FALSE)

BootUnread == Load(Empty, TRUE)

Save == OpenTmp \/ WriteTmp \/ Replace \/ SaveFails

Next == \/ \E a \in AppIds : Unregister(a) \/ \E d \in Defs : Register(a, d)
        \/ Save
        \/ Crash
        \/ Boot
        \/ BootUnread

Spec == Init /\ [][Next]_vars
-----------------------------------------------------------------------------
(***************************************************************************)
(* Properties.                                                             *)
(***************************************************************************)
\* Every variable keeps to its values; the registry file is never a torn one.
TypeOK == /\ apps \in Registries
          /\ file \in Registries \cup {NoFile}
          /\ tmp \in Registries \cup {NoFile, Torn}
          /\ phase \in Phases
          /\ acked \in Registries
          /\ latest \in Registries
          /\ failed \in BOOLEAN

\* The file only ever becomes what the registry in memory is at that moment: what a
\* failed save or a crash left in the temporary file is never moved over it.
FileFollowsMemory == [][file' # file => file' = apps]_vars

Durable == INSTANCE DurableRegistry
              WITH memory <- apps, durable <- Content(file),
                   state <- IF phase \in {"save", "writing", "written"} THEN "saving" ELSE phase

\* The save by way of a temporary file is one step: through failures and crashes at any
\* point apps.json stands for the registry of the last save that succeeded.
SavesAtOnce == Durable!Spec

\* A crash at any point of a save loses no mutation that was answered and brings
\* back nothing but the one in progress, where the files were in step before.
Recovered == [][phase = "down" /\ phase' = "idle" /\ ~failed /\ ~failed'
                   => apps' \in {acked, latest}]_vars

\* What was answered is in the file, and one save that succeeds makes up for all
\* that failed before it.
Persisted == phase = "idle" /\ ~failed => Content(file) = apps
=============================================================================
