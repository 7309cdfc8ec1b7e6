----------------------- MODULE InstanceFoldersProofs -----------------------
(***************************************************************************)
(* Proofs about InstanceFolders, for any connections and number of files.  *)
(***************************************************************************)
EXTENDS InstanceFolders, TLAPS

\* The positions of a copy.
LEMMA Positions == 1 \in 1..(N + 1) /\ \A k \in 1..(N + 1) : k <= N => k + 1 \in 1..(N + 1) /\ k \in Files
  BY FoldersAssumption DEF FoldersAssumption, Files

LEMMA TypeInit == Init => TypeOK
<1> SUFFICES ASSUME Init PROVE TypeOK
    OBVIOUS
<1>1. next \in [Threads -> 1..(N + 1)]
  BY Positions DEF Init
<1>2. pc \in [Threads -> {"idle", "mkdir", "copy", "delete"}]
  BY DEF Init
<1> QED BY <1>1, <1>2 DEF Init, TypeOK

\* Every variable keeps to its values.
LEMMA TypeStep == TypeOK /\ [Next]_vars => TypeOK'
<1> SUFFICES ASSUME TypeOK, [Next]_vars PROVE TypeOK'
    OBVIOUS
<1> USE FoldersAssumption
    DEF FoldersAssumption, TypeOK, Files, Receive, Return, Goto, disk, history, process
<1>1. ASSUME NEW t \in Threads, Create(t) PROVE TypeOK'
  <2>1. CASE CreateFindsFolder(t) \/ CreateBegins(t)
    BY <2>1 DEF CreateFindsFolder, CreateBegins
  <2>2. CASE CreateDirectory(t)
    BY <2>2, Positions DEF CreateDirectory
  <2>3. CASE CopyFile(t)
    BY <2>3, Positions DEF CopyFile, Copy
  <2>4. CASE CopyFails(t)
    BY <2>4 DEF CopyFails, CopyImpossible
  <2>5. CASE CreateEnds(t)
    BY <2>5 DEF CreateEnds
  <2> QED BY <1>1, <2>1, <2>2, <2>3, <2>4, <2>5 DEF Create
<1>2. ASSUME NEW t \in Threads, Delete(t) PROVE TypeOK'
  <2>1. CASE DeleteFindsNone(t) \/ DeleteRefused(t) \/ DeleteBegins(t) \/ DeleteFile(t)
    BY <2>1 DEF DeleteFindsNone, DeleteRefused, DeleteBegins, DeleteFile
  <2>2. CASE DeleteFails(t)
    BY <2>2 DEF DeleteFails
  <2>3. CASE DeleteEnds(t)
    BY <2>3 DEF DeleteEnds
  <2> QED BY <1>2, <2>1, <2>2, <2>3 DEF Delete
<1>3. ASSUME NEW t \in Threads, Start(t) \/ Stop(t) \/ Status(t) PROVE TypeOK'
  BY <1>3 DEF Start, Stop, Status, Launches
<1>4. CASE Exits \/ AutoRestart
  BY <1>4 DEF Exits, AutoRestart, Launches
<1>5. CASE RestartAgent
  BY <1>5 DEF RestartAgent
<1>6. CASE UNCHANGED vars
  BY <1>6 DEF vars
<1> QED BY <1>1, <1>2, <1>3, <1>4, <1>5, <1>6 DEF Next

\* Every variable keeps to its values.
THEOREM TypeCorrect == Spec => []TypeOK
  BY TypeInit, TypeStep, PTL DEF Spec
-----------------------------------------------------------------------------
(***************************************************************************)
(* Only the Create that copied one file can be about to copy the next: the *)
(* files of an undisturbed folder are those its leader has copied.         *)
(***************************************************************************)
Waiting(t) == pc[t] = "copy" => next[t] = 1

\* Nobody has copied anything.
Fresh == folder = {} /\ created = 0 /\ \A t \in Threads : Waiting(t)

\* One Create is ahead of all others, and it alone has filled the folder.
Led == \E l \in Threads : /\ pc[l] = "copy" /\ next[l] > 1
                          /\ folder = 1..(next[l] - 1)
                          /\ created = 0
                          /\ \A t \in Threads \ {l} : Waiting(t)

\* It has answered.
Whole == folder = Files /\ created = 1 /\ \A t \in Threads : Waiting(t)

NoDelete == \A t \in Threads : pc[t] # "delete"

FInv == ~disturbed => NoDelete /\ (Fresh \/ Led \/ Whole)

LEMMA FInvInit == Init => FInv
  BY DEF Init, FInv, NoDelete, Fresh, Waiting

LEMMA CreateStep ==
  ASSUME TypeOK, FInv, NEW t \in Threads, Create(t), ~disturbed'
  PROVE  NoDelete' /\ (Fresh' \/ Led' \/ Whole')
<1> USE FoldersAssumption
    DEF FoldersAssumption, TypeOK, Files, Receive, Return, Goto, disk, history, process, Waiting
<1>1. ~disturbed /\ NoDelete /\ (Fresh \/ Led \/ Whole)
  BY DEF FInv, Create, CreateFindsFolder, CreateBegins, CreateDirectory, CopyFile, Copy,
         CopyFails, CopyImpossible, CreateEnds
<1>2. NoDelete'
  BY <1>1 DEF NoDelete, Create, CreateFindsFolder, CreateBegins, CreateDirectory, CopyFile, Copy,
              CopyFails, CopyImpossible, CreateEnds
<1>3. CASE CreateFindsFolder(t) \/ CreateBegins(t) \/ CreateDirectory(t)
  <2>1. UNCHANGED <<folder, created>> /\ pc[t] # "copy" /\ Waiting(t)'
    BY <1>3 DEF CreateFindsFolder, CreateBegins, CreateDirectory
  <2>2. \A u \in Threads \ {t} : pc'[u] = pc[u] /\ next'[u] = next[u]
    BY <1>3 DEF CreateFindsFolder, CreateBegins, CreateDirectory
  <2>3. CASE Fresh
    BY <1>2, <2>1, <2>2, <2>3 DEF Fresh
  <2>4. CASE Led
    BY <1>2, <2>1, <2>2, <2>4 DEF Led
  <2>5. CASE Whole
    BY <1>2, <2>1, <2>2, <2>5 DEF Whole
  <2> QED BY <1>1, <1>2, <2>3, <2>4, <2>5
<1>4. CASE CopyFile(t)
  <2>1. /\ pc[t] = "copy" /\ next[t] \in Files \ folder
        /\ pc' = pc /\ created' = created /\ next' = [next EXCEPT ![t] = @ + 1]
        /\ folder' = folder \cup {next[t]}
    BY <1>4 DEF CopyFile, Copy
  <2>2. CASE Fresh
    <3>1. next[t] = 1 /\ folder' = 1..(next'[t] - 1)
      BY <2>1, <2>2 DEF Fresh
    <3> QED BY <1>2, <2>1, <2>2, <3>1 DEF Fresh, Led
  <2>3. CASE Led
    <3>1. PICK l \in Threads : /\ pc[l] = "copy" /\ next[l] > 1
                               /\ folder = 1..(next[l] - 1) /\ created = 0
                               /\ \A u \in Threads \ {l} : Waiting(u)
      BY <2>3 DEF Led
    <3>2. t = l
      BY <2>1, <3>1
    <3>3. folder' = 1..(next'[l] - 1)
      BY <2>1, <3>1, <3>2
    <3> QED BY <1>2, <2>1, <3>1, <3>2, <3>3 DEF Led
  <2>4. ~Whole
    BY <2>1 DEF Whole
  <2> QED BY <1>1, <2>2, <2>3, <2>4
<1>5. CASE CopyFails(t)
  <2>1. /\ pc[t] = "copy" /\ next[t] \in folder
        /\ UNCHANGED <<folder, created, next>> /\ pc' = [pc EXCEPT ![t] = "idle"]
    BY <1>5 DEF CopyFails, CopyImpossible
  <2>2. ~Fresh
    BY <2>1 DEF Fresh
  <2>3. CASE Led
    <3>1. PICK l \in Threads : /\ pc[l] = "copy" /\ next[l] > 1
                               /\ folder = 1..(next[l] - 1) /\ created = 0
                               /\ \A u \in Threads \ {l} : Waiting(u)
      BY <2>3 DEF Led
    <3>2. t # l
      BY <2>1, <3>1
    <3> QED BY <1>2, <2>1, <3>1, <3>2 DEF Led
  <2>4. CASE Whole
    BY <1>2, <2>1, <2>4 DEF Whole
  <2> QED BY <1>1, <2>2, <2>3, <2>4
<1>6. CASE CreateEnds(t)
  <2>1. /\ pc[t] = "copy" /\ next[t] = N + 1
        /\ UNCHANGED <<folder, next>> /\ created' = created + 1 /\ pc' = [pc EXCEPT ![t] = "idle"]
    BY <1>6 DEF CreateEnds
  <2>2. ~Fresh /\ ~Whole
    BY <2>1 DEF Fresh, Whole
  <2>3. PICK l \in Threads : /\ pc[l] = "copy" /\ next[l] > 1
                             /\ folder = 1..(next[l] - 1) /\ created = 0
                             /\ \A u \in Threads \ {l} : Waiting(u)
    BY <1>1, <2>2 DEF Led
  <2>4. t = l
    BY <2>1, <2>3
  <2> QED BY <1>2, <2>1, <2>3, <2>4 DEF Whole
<1> QED BY <1>3, <1>4, <1>5, <1>6 DEF Create

LEMMA FInvStep == TypeOK /\ FInv /\ [Next]_vars => FInv'
<1> SUFFICES ASSUME TypeOK, FInv, [Next]_vars, ~disturbed'
             PROVE  NoDelete' /\ (Fresh' \/ Led' \/ Whole')
    BY DEF FInv
<1> USE DEF Receive, Return, Goto, disk, history, process
<1>1. CASE UNCHANGED <<folder, pc, next, created, disturbed>>
  BY <1>1 DEF FInv, NoDelete, Fresh, Led, Whole, Waiting
<1>2. ASSUME NEW t \in Threads, Create(t) PROVE NoDelete' /\ (Fresh' \/ Led' \/ Whole')
  BY <1>2, CreateStep
<1>3. ASSUME NEW t \in Threads, Delete(t) PROVE NoDelete' /\ (Fresh' \/ Led' \/ Whole')
  <2>1. CASE DeleteFindsNone(t) \/ DeleteRefused(t)
    <3>1. pc' = pc
      BY <2>1 DEF DeleteFindsNone, DeleteRefused, TypeOK
    <3> QED BY <1>1, <2>1, <3>1 DEF DeleteFindsNone, DeleteRefused
  <2>2. CASE DeleteBegins(t) \/ DeleteFile(t) \/ DeleteFails(t)
    BY <2>2 DEF DeleteBegins, DeleteFile, DeleteFails, FInv, NoDelete
  <2>3. CASE DeleteEnds(t)
    <3>1. \A u \in Threads : pc'[u] = "idle"
      BY <2>3 DEF DeleteEnds, TypeOK
    <3>2. folder' = {} /\ created' = 0
      BY <2>3 DEF DeleteEnds
    <3> QED BY <3>1, <3>2 DEF NoDelete, Fresh, Waiting
  <2> QED BY <1>3, <2>1, <2>2, <2>3 DEF Delete
<1>4. ASSUME NEW t \in Threads, Start(t) \/ Stop(t) \/ Status(t)
      PROVE  UNCHANGED <<folder, pc, next, created, disturbed>>
  BY <1>4 DEF Start, Stop, Status
<1>5. CASE Exits \/ AutoRestart
  BY <1>1, <1>5 DEF Exits, AutoRestart
<1>6. CASE RestartAgent
  <2>1. pc' = [t \in Threads |-> "idle"] /\ \A t \in Threads : pc[t] = "idle"
    BY <1>6 DEF RestartAgent
  <2>2. pc = [t \in Threads |-> pc[t]]
    BY DEF TypeOK
  <2>3. pc' = pc /\ disturbed' = disturbed
    BY <1>6, <2>1, <2>2 DEF RestartAgent, TypeOK
  <2> QED BY <1>1, <1>6, <2>3 DEF RestartAgent
<1>7. CASE UNCHANGED vars
  BY <1>1, <1>7 DEF vars
<1> QED BY <1>1, <1>2, <1>3, <1>4, <1>5, <1>6, <1>7 DEF Next

LEMMA Undisturbed == Spec => [](TypeOK /\ FInv)
  BY TypeInit, TypeStep, FInvInit, FInvStep, PTL DEF Spec

\* However many Creates are past the check for the folder, at most one answers Ok
\* while nothing else touches it.
THEOREM OneCreateAlways == Spec => []OneCreateSucceeds
<1>1. TypeOK /\ FInv => OneCreateSucceeds
  BY DEF FInv, Fresh, Led, Whole, OneCreateSucceeds
<1> QED BY <1>1, Undisturbed, PTL

\* ... and when they are all over the folder is whole or was never begun.
THEOREM QuietCompleteAlways == Spec => []QuietComplete
<1>1. TypeOK /\ FInv => QuietComplete
  BY DEF FInv, Fresh, Led, Whole, QuietComplete
<1> QED BY <1>1, Undisturbed, PTL
=============================================================================
