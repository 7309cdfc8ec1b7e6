------------------------- MODULE AppRegistryProofs -------------------------
(***************************************************************************)
(* Proofs about AppRegistry, for any identifiers and definitions.          *)
(***************************************************************************)
EXTENDS AppRegistry, TLAPS

\* A temporary file that was written to its end holds the registry in memory.
TmpInv == phase = "written" => tmp = apps

\* While the files are in step the file holds the answered mutations, and a mutation
\* is in progress exactly between its change in memory and its answer.
DiskInv ==
    ~failed => /\ phase = "idle" => Content(file) = apps /\ acked = apps
               /\ phase \in {"save", "writing", "written"}
                     => Content(file) = acked /\ latest = apps
               /\ phase = "down" => Content(file) \in {acked, latest}

\* No registry is an absent or a torn file.
LEMMA FilesDiffer == NoFile \notin Registries /\ Torn \notin Registries
  BY RegistryAssumption DEF Registries

\* What a file is loaded as is a registry.
LEMMA ContentType == ASSUME NEW f \in Registries \cup {NoFile} PROVE Content(f) \in Registries
  BY DEF Content, Empty, Registries

\* The first state.
LEMMA InitInv == Init => TypeOK /\ TmpInv /\ DiskInv
  BY DEF Init, TypeOK, TmpInv, DiskInv, Registries, Empty, Phases, Content

\* Every action keeps the types: only a finished temporary file is moved.
LEMMA TypeStep == TypeOK /\ TmpInv /\ [Next]_vars => TypeOK'
<1> SUFFICES ASSUME TypeOK, TmpInv, [Next]_vars PROVE TypeOK'
  OBVIOUS
<1> USE DEF TypeOK
<1>1. ASSUME NEW a \in AppIds, Unregister(a) PROVE TypeOK'
  BY <1>1 DEF Unregister, Mutate, Registries, Phases
<1>2. ASSUME NEW a \in AppIds, NEW d \in Defs, Register(a, d) PROVE TypeOK'
  BY <1>2 DEF Register, Mutate, Registries, Phases
<1>3. CASE OpenTmp
  BY <1>3 DEF OpenTmp, Phases
<1>4. CASE WriteTmp
  BY <1>4 DEF WriteTmp, Phases
<1>5. CASE Replace
  BY <1>5 DEF Replace, MoveTmp, TmpInv, Phases
<1>6. CASE SaveFails
  BY <1>6 DEF SaveFails, Phases
<1>7. CASE Crash
  BY <1>7 DEF Crash, Phases
<1>8. CASE Boot
  BY <1>8, ContentType DEF Boot, Load, Phases
<1>9. CASE BootUnread
  BY <1>9 DEF BootUnread, Load, Empty, Registries, Phases
<1>10. CASE UNCHANGED vars
  BY <1>10 DEF vars
<1> QED
  BY <1>1, <1>2, <1>3, <1>4, <1>5, <1>6, <1>7, <1>8, <1>9, <1>10 DEF Next, Save

\* The memory does not change between the write of the temporary file and its move.
LEMMA TmpStep == TmpInv /\ [Next]_vars => TmpInv'
  BY DEF TmpInv, Next, Unregister, Register, Mutate, Save, OpenTmp, WriteTmp, Replace,
         MoveTmp, SaveFails, Crash, Boot, BootUnread, Load, vars

\* The file keeps up with the answers unless an operation on it fails.
LEMMA DiskStep == TypeOK /\ TmpInv /\ DiskInv /\ [Next]_vars => DiskInv'
<1> SUFFICES ASSUME TypeOK, TmpInv, DiskInv, [Next]_vars PROVE DiskInv'
  OBVIOUS
<1> USE DEF DiskInv
<1>1. ASSUME NEW a \in AppIds, Unregister(a) PROVE DiskInv'
  BY <1>1 DEF Unregister, Mutate, Content
<1>2. ASSUME NEW a \in AppIds, NEW d \in Defs, Register(a, d) PROVE DiskInv'
  BY <1>2 DEF Register, Mutate, Content
<1>3. CASE OpenTmp
  BY <1>3 DEF OpenTmp
<1>4. CASE WriteTmp
  BY <1>4 DEF WriteTmp
<1>5. CASE Replace
  <2>1. file' = apps /\ apps' = apps /\ acked' = apps /\ phase' = "idle"
    BY <1>5 DEF Replace, MoveTmp, TmpInv
  <2>2. apps # NoFile
    BY FilesDiffer DEF TypeOK
  <2> QED
    BY <2>1, <2>2 DEF Content
<1>6. CASE SaveFails
  BY <1>6 DEF SaveFails
<1>7. CASE Crash
  <2>1. ~failed /\ phase = "idle" => Content(file) = acked
    BY <1>7 DEF Crash
  <2>2. phase' = "down" /\ UNCHANGED <<file, acked, latest, failed>>
    BY <1>7 DEF Crash
  <2>3. phase \in {"idle", "save", "writing", "written"}
    BY <1>7 DEF Crash, TypeOK, Phases
  <2> QED
    BY <2>1, <2>2, <2>3
<1>8. CASE Boot
  BY <1>8 DEF Boot, Load
<1>9. CASE BootUnread
  BY <1>9 DEF BootUnread, Load
<1>10. CASE UNCHANGED vars
  BY <1>10 DEF vars
<1> QED
  BY <1>1, <1>2, <1>3, <1>4, <1>5, <1>6, <1>7, <1>8, <1>9, <1>10 DEF Next, Save

\* The registry file is always a whole registry, whatever fails or crashes.
THEOREM TypeCorrect == Spec => []TypeOK
  BY InitInv, TypeStep, TmpStep, PTL DEF Spec

\* The file only ever becomes the registry in memory.
THEOREM FileIsMemory == Spec => FileFollowsMemory
<1>1. TmpInv /\ [Next]_vars => [file' # file => file' = apps]_vars
  BY DEF TmpInv, Next, Unregister, Register, Mutate, Save, OpenTmp, WriteTmp, Replace,
         MoveTmp, SaveFails, Crash, Boot, BootUnread, Load, vars
<1> QED
  BY <1>1, InitInv, TmpStep, PTL DEF Spec, FileFollowsMemory

\* The invariant the last two theorems rest on.
THEOREM Inductive == Spec => [](TypeOK /\ TmpInv /\ DiskInv)
<1>1. TypeOK /\ TmpInv /\ DiskInv /\ [Next]_vars => (TypeOK /\ TmpInv /\ DiskInv)'
  BY TypeStep, TmpStep, DiskStep
<1> QED
  BY <1>1, InitInv, PTL DEF Spec

\* An answered mutation is in the file, unless an operation on it failed since.
THEOREM AnswersPersist == Spec => []Persisted
<1>1. DiskInv => Persisted
  BY DEF DiskInv, Persisted
<1> QED
  BY <1>1, Inductive, PTL

\* ... and no crash loses it.
THEOREM CrashesRecover == Spec => Recovered
<1>1. DiskInv /\ [Next]_vars
         => [phase = "down" /\ phase' = "idle" /\ ~failed /\ ~failed'
                => apps' \in {acked, latest}]_vars
  BY DEF DiskInv, Next, Unregister, Register, Mutate, Save, OpenTmp, WriteTmp, Replace,
         MoveTmp, SaveFails, Crash, Boot, BootUnread, Load, vars
<1> QED
  BY <1>1, Inductive, PTL DEF Spec, Recovered
-----------------------------------------------------------------------------
\* Every step of the service is a step of the durable registry or leaves it alone: the
\* steps before the move of the temporary file are out of its sight.
LEMMA SavesStep == TypeOK /\ TmpInv /\ [Next]_vars => [Durable!Next]_(Durable!registry)
<1> SUFFICES ASSUME TypeOK, TmpInv, [Next]_vars
             PROVE  Durable!Next \/ UNCHANGED Durable!registry
  OBVIOUS
<1> USE DEF Durable!registry
<1>1. ASSUME NEW a \in AppIds, Unregister(a) PROVE Durable!Next
  <2>1. Durable!Mutate(a, NoDef)
    BY <1>1 DEF Unregister, Mutate, Durable!Mutate, Content
  <2> QED
    BY <2>1 DEF Durable!Next
<1>2. ASSUME NEW a \in AppIds, NEW d \in Defs, Register(a, d) PROVE Durable!Next
  <2>1. Durable!Mutate(a, d)
    BY <1>2, RegistryAssumption DEF Register, Mutate, Durable!Mutate, Content
  <2> QED
    BY <2>1 DEF Durable!Next
<1>3. CASE OpenTmp \/ WriteTmp
  BY <1>3 DEF OpenTmp, WriteTmp, Content
<1>4. CASE Replace
  <2>1. Content(file') = apps
    BY <1>4, FilesDiffer DEF Replace, MoveTmp, TmpInv, TypeOK, Content
  <2>2. Durable!Commit
    BY <1>4, <2>1 DEF Replace, MoveTmp, Durable!Commit, Content
  <2> QED
    BY <2>2 DEF Durable!Next
<1>5. CASE SaveFails
  BY <1>5 DEF SaveFails, Durable!SaveFails, Durable!Next, Content
<1>6. CASE Crash
  BY <1>6 DEF Crash, Durable!Crash, Durable!Next, Content
<1>7. CASE Boot \/ BootUnread
  BY <1>7 DEF Boot, BootUnread, Load, Empty, Durable!Empty, Durable!Start, Durable!Next, Content
<1>8. CASE UNCHANGED vars
  BY <1>8 DEF vars, Content
<1> QED
  BY <1>1, <1>2, <1>3, <1>4, <1>5, <1>6, <1>7, <1>8 DEF Next, Save

\* The save by way of a temporary file is one step, whatever fails or crashes in its course.
THEOREM Implementation == Spec => SavesAtOnce
<1>1. Init => Durable!Init
  BY DEF Init, Durable!Init, Empty, Durable!Empty, Content
<1>2. TypeOK /\ TmpInv /\ [Next]_vars => [Durable!Next]_(Durable!registry)
  BY SavesStep
<1> QED
  BY <1>1, <1>2, Inductive, PTL DEF Spec, SavesAtOnce, Durable!Spec
=============================================================================
