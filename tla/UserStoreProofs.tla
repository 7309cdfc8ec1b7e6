-------------------------- MODULE UserStoreProofs --------------------------
(***************************************************************************)
(* Proofs about UserStore, for any requests, users and hashes.             *)
(***************************************************************************)
EXTENDS UserStore, TLAPS

Before == {"read", "open", "write"}

\* What each request holds where it is.
HoldsInv == \A r \in Requests :
    /\ pc[r] \in Before => job[r] \in Jobs
    /\ pc[r] \in Before /\ job[r].op \in {"add", "password"} => job[r].hash # NoHash
    /\ pc[r] = "read" /\ job[r].op # "password" => buf[r] \in Stores
    /\ pc[r] \in {"open", "write", "assign"} => buf[r] \in Stores

\* Nothing goes on while the application is down.
DownInv == ~up => loading = Nothing /\ \A r \in Requests : ~InProgress(r)

\* One at a time: a request excludes every other one.
AloneInv == ledger # Nothing =>
    \A r, s \in Requests : InProgress(r) /\ InProgress(s) => r = s

\* Then the file and what the request holds are in step, and the configuration is or comes
\* to be, unless the watcher has yet to look.
StepInv == ledger # Nothing =>
    /\ file \in {ledger, Cut}
    /\ up /\ ~changed /\ file # Cut =>
          IF loading = Nothing THEN conf = ledger ELSE loading = ledger
    /\ \A r \in Requests :
        /\ pc[r] = "read" /\ file # Cut /\ job[r].op # "password" => buf[r] = ledger
        /\ pc[r] = "write" => file = Cut
        /\ pc[r] \in {"open", "reload", "assign"} => file = ledger
        /\ pc[r] \in {"open", "write", "assign"} => buf[r] = ledger

\* Whoever takes an account away is an administrator other than its owner, and nobody
\* adds an account that is there.
OtherInv == ledger # Nothing /\ ~outlived =>
    /\ \E u \in Users : Administrator(ledger, u)
    /\ \A r \in Requests :
          pc[r] \in Before /\ (file # Cut \/ pc[r] = "write") =>
             /\ job[r].op = "add" => ledger[job[r].user] = Absent
             /\ job[r].op \in {"delete", "deactivate"} =>
                   \E u \in Users : u # job[r].user /\ Administrator(ledger, u)

\* What is on its way into the configuration is the file, unless the watcher has yet to look.
SettledInv == Prompt /\ ~changed =>
    /\ loading # Nothing => loading = Content(file)
    /\ \A r \in Requests : pc[r] = "assign" => buf[r] = file
    /\ up /\ loading = Nothing => conf = Content(file)

\* Whose deletion was saved is not in the ledger, and nobody is adding one of that name.
DeletionInv == ledger # Nothing =>
    /\ \A u \in gone : ledger[u] = Absent
    /\ \A r \in Requests : pc[r] \in Before /\ job[r].op = "add" => job[r].user \notin gone

IInv == TypeOK /\ HoldsInv /\ DownInv /\ AloneInv /\ StepInv

\* No store is unreadable or missing.
LEMMA StoresDiffer == \A s \in Stores : s # Cut /\ s # Garbled /\ s # Nothing
  BY StoreAssumption DEF Unreadable

\* A change makes a store of a store.
LEMMA ApplyType == ASSUME NEW j \in Jobs, NEW s \in Stores, j.op = "add" => j.hash # NoHash,
                          j.op = "password" => j.hash # NoHash
                   PROVE  Apply(j, s) \in Stores
<1>1. s[j.user] \in Accounts \cup {Absent} /\ j.user \in Users
  BY DEF Jobs, Stores
<1>2. Changed(j, s[j.user]) \in Accounts \cup {Absent}
  BY <1>1 DEF Changed, Accounts, Jobs
<1> QED
  BY <1>1, <1>2 DEF Apply, Stores
\* The first state.
LEMMA InitInv == Init => IInv /\ OtherInv
<1> SUFFICES ASSUME Init PROVE IInv /\ OtherInv
  OBVIOUS
<1>1. file \in Stores /\ ledger = file /\ conf = file /\ loading = Nothing /\ up
  BY StoreAssumption DEF Init
<1>2. TypeOK
  BY <1>1 DEF Init, TypeOK
<1>3. HoldsInv /\ DownInv /\ AloneInv
  BY <1>1 DEF Init, HoldsInv, DownInv, AloneInv, InProgress, Before
<1>4. StepInv
  BY <1>1 DEF Init, StepInv
<1>5. OtherInv
  BY StoreAssumption DEF Init, OtherInv, Before
<1> QED
  BY <1>2, <1>3, <1>4, <1>5 DEF IInv

\* Every action keeps the types.
LEMMA TypeStep == TypeOK /\ HoldsInv /\ [Next]_vars => TypeOK'
<1> SUFFICES ASSUME TypeOK, HoldsInv, [Next]_vars PROVE TypeOK'
  OBVIOUS
<1> USE DEF TypeOK
<1>1. ASSUME NEW r \in Requests, Begin(r) PROVE TypeOK'
  <2>1. PICK c \in Cookies, j \in Jobs :
           Add(r, c, j) \/ SetActive(r, c, j) \/ Delete(r, c, j) \/ ChangePassword(r, c, j)
    BY <1>1 DEF Begin
  <2>2. Begins(r, c, j)
    BY <2>1 DEF Add, SetActive, Delete, ChangePassword, Manages
  <2>3. buf' \in [Requests -> Stores \cup {Nothing}]
    BY <2>1 DEF Add, SetActive, Delete, ChangePassword, Manages
  <2> QED
    BY <2>2, <2>3 DEF Begins, Goto, web
<1>2. ASSUME NEW r \in Requests, ReadFile(r) PROVE TypeOK'
  BY <1>2 DEF ReadFile, Goto, web, history
<1>3. ASSUME NEW r \in Requests, WriteFile(r) PROVE TypeOK'
  <2>1. job[r] \in Jobs /\ (job[r].op \in {"add", "password"} => job[r].hash # NoHash)
        /\ buf[r] \in Stores
    BY <1>3 DEF WriteFile, HoldsInv, Before
  <2>2. ledger' \in Stores \cup {Nothing}
    BY <1>3, <2>1, ApplyType DEF WriteFile
  <2>3. file' \in Stores \cup Unreadable
    BY <1>3, <2>1, ApplyType DEF WriteFile, Unreadable
  <2>4. gone' \subseteq Users
    BY <1>3, <2>1 DEF WriteFile, Removed, Jobs
  <2> QED
    BY <1>3, <2>2, <2>3, <2>4 DEF WriteFile, Goto
<1>4. ASSUME NEW r \in Requests,
             ReadFails(r) \/ OpenFails(r) \/ WriteFails(r) \/ ReloadFails(r)
      PROVE  TypeOK'
  BY <1>4 DEF ReadFails, OpenFails, WriteFails, ReloadFails, Ends, Goto, web, history
<1>5. ASSUME NEW r \in Requests, OpenFile(r) PROVE TypeOK'
  BY <1>5 DEF OpenFile, Goto, Unreadable, history
<1>6. ASSUME NEW r \in Requests, ReloadReads(r) PROVE TypeOK'
  BY <1>6 DEF ReloadReads, Goto, web, history
<1>7. ASSUME NEW r \in Requests, ReloadAssigns(r) PROVE TypeOK'
  BY <1>7 DEF ReloadAssigns, Ends, Goto, HoldsInv, history
<1>8. CASE WatchReads
  BY <1>8 DEF WatchReads, request, history, Content, NoAccounts, Stores
<1>9. CASE WatchAssigns
  BY <1>9 DEF WatchAssigns, request, history
<1>10. ASSUME NEW u \in Users, SignIn(u) PROVE TypeOK'
  <2>1. conf[u].admin \in BOOLEAN
    BY <1>10 DEF SignIn, Active, Stores, Accounts
  <2> QED
    BY <1>10, <2>1 DEF SignIn, Cookies, web, request, history
<1>14. ASSUME NEW c \in Cookies, SignOut(c) PROVE TypeOK'
  BY <1>14 DEF SignOut, web, request, history
<1>11. CASE Crash
  <2>1. NoAccounts \in Stores
    BY DEF NoAccounts, Stores
  <2>2. pc' \in [Requests -> {"sent", "done", "read", "open", "write", "reload", "assign"}]
    BY <1>11 DEF Crash
  <2> QED
    BY <1>11, <2>1, <2>2 DEF Crash, history
<1>12. CASE Boot
  BY <1>12 DEF Boot, request, history
<1>13. CASE BootFails \/ UNCHANGED vars
  BY <1>13 DEF BootFails, vars, web, request, history
<1> QED
  BY <1>1, <1>2, <1>3, <1>4, <1>5, <1>6, <1>7, <1>8, <1>9, <1>10, <1>11, <1>12, <1>13,
     <1>14 DEF Next, Save

\* How a request begins, whichever it is.
LEMMA BeginStep ==
    ASSUME TypeOK, NEW r \in Requests, Begin(r)
    PROVE  \E c \in Cookies, j \in Jobs :
              /\ Begins(r, c, j)
              /\ j.op \in {"add", "password"} => j.hash # NoHash
              /\ buf' = IF j.op = "password" THEN buf ELSE [buf EXCEPT ![r] = conf]
              /\ j.op = "add" => conf[j.user] = Absent
              /\ j.op \in {"delete", "deactivate"} => c.admin /\ c.user # j.user
  BY DEF Begin, Add, SetActive, Delete, ChangePassword, Manages

\* What holds of one request only its own steps and a crash change.
LEMMA HoldsStep == TypeOK /\ HoldsInv /\ [Next]_vars => HoldsInv'
<1> SUFFICES ASSUME TypeOK, HoldsInv, [Next]_vars, TypeOK' PROVE HoldsInv'
  BY TypeStep
<1>1. ASSUME NEW r \in Requests, Begin(r) PROVE HoldsInv'
  <2>1. PICK c \in Cookies, j \in Jobs :
              /\ Begins(r, c, j)
              /\ j.op \in {"add", "password"} => j.hash # NoHash
              /\ buf' = IF j.op = "password" THEN buf ELSE [buf EXCEPT ![r] = conf]
    BY <1>1, BeginStep
  <2> QED
    BY <2>1 DEF Begins, Goto, HoldsInv, TypeOK, Before
<1>2. ASSUME NEW r \in Requests, ReadFile(r) PROVE HoldsInv'
  BY <1>2 DEF ReadFile, Goto, HoldsInv, TypeOK, Before
<1>3. ASSUME NEW r \in Requests, WriteFile(r) PROVE HoldsInv'
  BY <1>3 DEF WriteFile, Goto, HoldsInv, TypeOK, Before
<1>4. ASSUME NEW r \in Requests,
             ReadFails(r) \/ OpenFails(r) \/ WriteFails(r) \/ ReloadFails(r) \/ ReloadAssigns(r)
      PROVE  HoldsInv'
  BY <1>4 DEF ReadFails, OpenFails, WriteFails, ReloadFails, ReloadAssigns, Ends, Goto,
              HoldsInv, TypeOK, Before
<1>5. ASSUME NEW r \in Requests, OpenFile(r) PROVE HoldsInv'
  BY <1>5 DEF OpenFile, Goto, HoldsInv, TypeOK, Before
<1>6. ASSUME NEW r \in Requests, ReloadReads(r) PROVE HoldsInv'
  BY <1>6 DEF ReloadReads, Goto, HoldsInv, TypeOK, Before, Unreadable
<1>7. CASE WatchReads \/ WatchAssigns \/ Boot \/ BootFails \/ UNCHANGED vars
           \/ (\E u \in Users : SignIn(u)) \/ \E c \in Cookies : SignOut(c)
  <2>1. UNCHANGED <<pc, job, buf>>
    BY <1>7 DEF WatchReads, WatchAssigns, Boot, BootFails, SignIn, SignOut, vars, request
  <2> QED
    BY <2>1 DEF HoldsInv
<1>8. CASE Crash
  BY <1>8 DEF Crash, HoldsInv, InProgress, Before
<1> QED
  BY <1>1, <1>2, <1>3, <1>4, <1>5, <1>6, <1>7, <1>8 DEF Next, Save

\* A crash ends every request and load; nothing begins before the next start.
LEMMA DownStep == TypeOK /\ DownInv /\ [Next]_vars => DownInv'
<1> SUFFICES ASSUME TypeOK, DownInv, [Next]_vars PROVE DownInv'
  OBVIOUS
<1>1. ASSUME NEW r \in Requests, Begin(r) PROVE DownInv'
  BY <1>1, BeginStep DEF Begins, web, DownInv
<1>2. ASSUME NEW r \in Requests, Save(r) PROVE DownInv'
  <2>1. up
    BY <1>2 DEF Save, ReadFile, ReadFails, OpenFile, OpenFails, WriteFile, WriteFails,
                ReloadReads, ReloadFails, ReloadAssigns, DownInv, InProgress
  <2> QED
    BY <1>2, <2>1 DEF Save, ReadFile, ReadFails, OpenFile, OpenFails, WriteFile, WriteFails,
                      ReloadReads, ReloadFails, ReloadAssigns, DownInv, web
<1>3. CASE WatchReads \/ WatchAssigns \/ Boot
  BY <1>3 DEF WatchReads, WatchesNow, WatchAssigns, Boot, DownInv
<1>4. CASE BootFails \/ UNCHANGED vars \/ (\E u \in Users : SignIn(u)) \/ \E c \in Cookies : SignOut(c)
  BY <1>4 DEF BootFails, SignIn, SignOut, vars, web, request, DownInv, InProgress
<1>5. CASE Crash
  BY <1>5 DEF Crash, DownInv, InProgress, TypeOK
<1> QED
  BY <1>1, <1>2, <1>3, <1>4, <1>5 DEF Next

\* The ledger is given up when a change begins before all is quiet.
LEMMA AloneStep == TypeOK /\ AloneInv /\ [Next]_vars => AloneInv'
<1> SUFFICES ASSUME TypeOK, AloneInv, [Next]_vars PROVE AloneInv'
  OBVIOUS
<1>1. ASSUME NEW r \in Requests, Begin(r) PROVE AloneInv'
  <2>1. PICK c \in Cookies, j \in Jobs : Begins(r, c, j)
    BY <1>1, BeginStep
  <2>2. ledger' # Nothing => Quiet
    BY <2>1 DEF Begins
  <2> QED
    BY <2>1, <2>2 DEF Begins, Goto, AloneInv, Quiet, InProgress, TypeOK
<1>2. ASSUME NEW r \in Requests, Save(r) PROVE AloneInv'
  <2>1. InProgress(r) /\ (ledger' # Nothing => ledger # Nothing)
    BY <1>2 DEF Save, ReadFile, ReadFails, OpenFile, OpenFails, WriteFile, WriteFails,
                ReloadReads, ReloadFails, ReloadAssigns, InProgress, web, history
  <2>2. \A s \in Requests : InProgress(s)' => InProgress(s)
    BY <1>2 DEF Save, ReadFile, ReadFails, OpenFile, OpenFails, WriteFile, WriteFails, Ends,
                Goto, ReloadReads, ReloadFails, ReloadAssigns, InProgress, TypeOK
  <2> QED
    BY <2>1, <2>2 DEF AloneInv
<1>3. CASE WatchReads \/ WatchAssigns
  BY <1>3 DEF WatchReads, WatchAssigns, AloneInv, InProgress, request, history
<1>4. CASE BootFails \/ Boot \/ UNCHANGED vars \/ (\E u \in Users : SignIn(u)) \/ \E c \in Cookies : SignOut(c)
  BY <1>4 DEF BootFails, Boot, SignIn, SignOut, vars, web, request, history, AloneInv, InProgress
<1>5. CASE Crash
  BY <1>5 DEF Crash, AloneInv, InProgress, history, TypeOK
<1> QED
  BY <1>1, <1>2, <1>3, <1>4, <1>5 DEF Next

\* While changes come one at a time file, configuration and ledger stay in step.
LEMMA StepStep == IInv /\ [Next]_vars => StepInv'
<1> SUFFICES ASSUME IInv, [Next]_vars, ledger' # Nothing PROVE StepInv'
  BY DEF StepInv
<1> USE DEF IInv
<1>0. ledger = Nothing => ledger' = Nothing
  BY DEF Next, Begin, Add, SetActive, Delete, ChangePassword, Manages, Begins, Save, ReadFile,
         ReadFails, OpenFile, OpenFails, WriteFile, WriteFails, ReloadReads, ReloadFails,
         ReloadAssigns, WatchReads, WatchAssigns, SignIn, SignOut, Crash, Boot, BootFails,
         vars, history
<1>a. ledger \in Stores /\ ledger # Cut /\ ledger # Garbled
  BY <1>0, StoresDiffer DEF TypeOK
<1>1. ASSUME NEW r \in Requests, Begin(r) PROVE StepInv'
  <2>1. PICK c \in Cookies, j \in Jobs :
              /\ Begins(r, c, j)
              /\ buf' = IF j.op = "password" THEN buf ELSE [buf EXCEPT ![r] = conf]
    BY <1>1, BeginStep
  <2>2. Quiet /\ ledger' = ledger
    BY <2>1 DEF Begins
  <2>3. UNCHANGED <<file, conf, loading, changed, up>> /\ up
    BY <2>1 DEF Begins, web
  <2>4. file # Cut => conf = ledger
    BY <1>a, <2>2, <2>3 DEF StepInv, Quiet
  <2>5. \A s \in Requests : s # r => pc'[s] \in {"sent", "done"}
    BY <2>1, <2>2 DEF Begins, Goto, TypeOK, Quiet, InProgress
  <2>6. pc'[r] = "read" /\ job'[r] = j /\ (j.op # "password" => buf'[r] = conf)
    BY <2>1 DEF Begins, Goto, TypeOK
  <2> QED
    BY <1>a, <2>2, <2>3, <2>4, <2>5, <2>6 DEF StepInv, Quiet
<1>2. ASSUME NEW r \in Requests, Save(r) PROVE StepInv'
  <2>1. InProgress(r)
    BY <1>2 DEF Save, ReadFile, ReadFails, OpenFile, OpenFails, WriteFile, WriteFails,
                ReloadReads, ReloadFails, ReloadAssigns, InProgress
  <2>2. ledger # Nothing /\ \A s \in Requests : s # r => pc[s] \in {"sent", "done"}
    BY <1>0, <2>1 DEF AloneInv, InProgress
  <2>3. loading' = loading /\ \A s \in Requests : s # r => pc'[s] \in {"sent", "done"}
    BY <1>2, <2>2 DEF Save, ReadFile, ReadFails, OpenFile, OpenFails, WriteFile, WriteFails,
                ReloadReads, ReloadFails, ReloadAssigns, Ends, Goto, TypeOK, web
  <2> USE DEF StepInv
  <2>4. file \in {ledger, Cut}
    BY <2>2
  <2>5. CASE ReadFile(r)
    <3>1. file = ledger
      BY <2>4, <2>5 DEF ReadFile, Unreadable
    <3>2. UNCHANGED <<file, conf, up, changed, job, ledger>> /\ pc'[r] = "open"
      BY <2>5 DEF ReadFile, Goto, TypeOK, web, history
    <3>3. buf'[r] = ledger
      BY <2>2, <2>5, <1>a, <3>1 DEF ReadFile, TypeOK
    <3> QED
      BY <2>2, <2>3, <3>1, <3>2, <3>3, <1>a
  <2>6. CASE ReadFails(r) \/ WriteFails(r) \/ OpenFails(r) \/ ReloadFails(r)
    <3>1. UNCHANGED <<file, conf, up, changed, ledger>> /\ pc'[r] = "done"
      BY <2>6 DEF ReadFails, WriteFails, OpenFails, ReloadFails, Ends, Goto, TypeOK, web, history
    <3> QED
      BY <2>2, <2>3, <3>1
  <2>7. CASE OpenFile(r)
    <3>1. UNCHANGED <<buf, ledger>> /\ pc'[r] = "write" /\ file' = Cut
      BY <2>7 DEF OpenFile, Goto, TypeOK, history
    <3>2. buf[r] = ledger
      BY <2>2, <2>7 DEF OpenFile
    <3> QED
      BY <2>3, <3>1, <3>2
  <2>8. CASE WriteFile(r)
    <3>1. file = Cut /\ buf[r] = ledger
      BY <2>2, <2>8 DEF WriteFile
    <3>2. file' = ledger' /\ changed' /\ pc'[r] = "reload"
      BY <2>2, <2>8, <3>1 DEF WriteFile, Goto, TypeOK
    <3> QED
      BY <2>3, <3>2
  <2>9. CASE ReloadReads(r)
    <3>1. UNCHANGED <<file, conf, up, changed, ledger>> /\ pc'[r] = "assign" /\ buf'[r] = file
      BY <2>9 DEF ReloadReads, Goto, TypeOK, web, history
    <3>2. file = ledger
      BY <2>2, <2>9 DEF ReloadReads
    <3> QED
      BY <2>2, <2>3, <3>1, <3>2
  <2>10. CASE ReloadAssigns(r)
    <3>1. UNCHANGED <<file, up, changed, ledger>> /\ pc'[r] = "done" /\ conf' = buf[r]
      BY <2>10 DEF ReloadAssigns, Ends, Goto, TypeOK, history
    <3>2. file = ledger /\ buf[r] = ledger
      BY <2>2, <2>10 DEF ReloadAssigns
    <3> QED
      BY <2>2, <2>3, <3>1, <3>2
  <2> QED
    BY <1>2, <2>5, <2>6, <2>7, <2>8, <2>9, <2>10 DEF Save
<1>3. CASE WatchReads
  <2>1. UNCHANGED <<file, conf, up, pc, job, buf, ledger>> /\ loading' = Content(file)
    BY <1>3 DEF WatchReads, request, history
  <2>2. file # Cut => loading' = ledger
    BY <1>0, <1>a, <2>1 DEF Content, Unreadable, StepInv
  <2>3. loading' # Nothing
    BY <2>1, StoresDiffer DEF Content, NoAccounts, Stores, TypeOK, Unreadable
  <2> QED
    BY <1>0, <2>1, <2>2, <2>3 DEF StepInv
<1>4. CASE WatchAssigns
  <2>1. UNCHANGED <<file, up, changed, pc, job, buf, ledger>>
        /\ conf' = loading /\ loading' = Nothing
    BY <1>4 DEF WatchAssigns, request, history
  <2>2. up /\ ~changed /\ file # Cut => loading = ledger
    BY <1>0, <1>4 DEF WatchAssigns, StepInv
  <2> QED
    BY <1>0, <2>1, <2>2 DEF StepInv
<1>5. CASE BootFails \/ UNCHANGED vars
           \/ (\E u \in Users : SignIn(u)) \/ \E c \in Cookies : SignOut(c)
  <2>1. UNCHANGED <<file, conf, up, changed, loading, pc, job, buf, ledger>>
    BY <1>5 DEF BootFails, SignIn, SignOut, vars, web, request, history
  <2> QED
    BY <2>1 DEF StepInv
<1>6. CASE Crash
  <2>1. \A s \in Requests : pc'[s] \in {"sent", "done"}
    BY <1>6 DEF Crash, InProgress
  <2>2. file' = file /\ ledger' = ledger /\ ~up'
    BY <1>6 DEF Crash, history
  <2>3. file \in {ledger, Cut}
    BY <1>0 DEF StepInv
  <2> QED
    BY <2>1, <2>2, <2>3 DEF StepInv
<1>7. CASE Boot
  <2>1. UNCHANGED <<file, loading, pc, ledger>> /\ conf' = file /\ file \notin Unreadable /\ ~up
    BY <1>7 DEF Boot, request, history
  <2>2. loading = Nothing /\ \A s \in Requests : pc[s] \in {"sent", "done"}
    BY <2>1 DEF DownInv, InProgress
  <2>3. file = ledger
    BY <1>0, <2>1 DEF StepInv, Unreadable
  <2> QED
    BY <2>1, <2>2, <2>3 DEF StepInv
<1> QED
  BY <1>1, <1>2, <1>3, <1>4, <1>5, <1>6, <1>7 DEF Next

\* What a change leaves of the administrators.
LEMMA ApplyOther ==
    ASSUME NEW j \in Jobs, NEW s \in Stores, NEW u \in Users, Administrator(s, u),
           j.op = "password" => j.hash # NoHash,
           j.op = "add" => s[j.user] = Absent,
           u # j.user \/ j.op \notin {"delete", "deactivate"}
    PROVE  Administrator(Apply(j, s), u)
<1>1. CASE u # j.user
  BY <1>1 DEF Apply, Administrator, Active, Stores
<1>2. CASE u = j.user
  <2>1. Apply(j, s)[u] = Changed(j, s[u])
    BY <1>2 DEF Apply, Stores
  <2>2. s[u] \in Accounts /\ s[u].active /\ s[u].admin /\ s[u] # Absent
    BY DEF Administrator, Active, Stores
  <2>3. j.op \in {"activate", "password"}
    BY <1>2, <2>2 DEF Jobs, Managing
  <2>4. Changed(j, s[u]) \in Accounts /\ Changed(j, s[u]).active /\ Changed(j, s[u]).admin
    <3>1. CASE j.op = "activate"
      BY <2>2, <3>1 DEF Changed, Accounts
    <3>2. CASE j.op = "password"
      BY <2>2, <3>2 DEF Changed, Accounts, Jobs
    <3> QED
      BY <2>3, <3>1, <3>2
  <2> QED
    BY <2>1, <2>4, StoreAssumption DEF Administrator, Active
<1> QED
  BY <1>1, <1>2

\* Of the administrators one other than the account's owner remains.
LEMMA OtherStep == IInv /\ OtherInv /\ [Next]_vars => OtherInv'
<1> SUFFICES ASSUME IInv, OtherInv, [Next]_vars, ledger' # Nothing, ~outlived' PROVE OtherInv'
  BY DEF OtherInv
<1> USE DEF IInv
<1>0. ledger # Nothing /\ (~outlived \/ \E r \in Requests : Begin(r))
  BY DEF Next, Begin, Add, SetActive, Delete, ChangePassword, Manages, Begins, Save, ReadFile,
         ReadFails, OpenFile, OpenFails, WriteFile, WriteFails, ReloadReads, ReloadFails,
         ReloadAssigns, WatchReads, WatchAssigns, SignIn, SignOut, Crash, Boot, BootFails,
         vars, history
<1>a. ledger \in Stores
  BY <1>0 DEF TypeOK
<1>1. ASSUME NEW r \in Requests, Begin(r) PROVE OtherInv'
  <2>1. PICK c \in Cookies, j \in Jobs :
              /\ Begins(r, c, j)
              /\ j.op = "add" => conf[j.user] = Absent
              /\ j.op \in {"delete", "deactivate"} => c.admin /\ c.user # j.user
    BY <1>1, BeginStep
  <2>2. Quiet /\ UNCHANGED <<ledger, file>> /\ ~outlived /\ BornOut(c) /\ up
    BY <2>1 DEF Begins
  <2>3. \A s \in Requests : s # r => pc'[s] \in {"sent", "done"}
    BY <2>1, <2>2 DEF Begins, Goto, TypeOK, Quiet, InProgress
  <2>4. pc'[r] = "read" /\ job'[r] = j
    BY <2>1 DEF Begins, Goto, TypeOK
  <2>5. file # Cut => conf = ledger
    BY <1>0, <2>2 DEF StepInv, Quiet
  <2>6. c.user \in Users
    BY DEF Cookies
  <2>7. file # Cut /\ j.op \in {"delete", "deactivate"}
           => Administrator(ledger, c.user) /\ c.user # j.user
    BY <2>1, <2>2, <2>5 DEF BornOut, Administrator
  <2> QED
    BY <1>0, <2>1, <2>2, <2>3, <2>4, <2>5, <2>6, <2>7 DEF OtherInv, Before
<1>2. ASSUME NEW r \in Requests, WriteFile(r) PROVE OtherInv'
  <2>1. /\ pc[r] = "write" /\ job[r] \in Jobs /\ ledger' = Apply(job[r], ledger) /\ ~outlived
        /\ job[r].op \in {"add", "password"} => job[r].hash # NoHash
    BY <1>0, <1>2 DEF WriteFile, HoldsInv, Before
  <2>2. \A s \in Requests : pc'[s] \notin Before
    BY <1>0, <1>2 DEF WriteFile, Goto, TypeOK, AloneInv, InProgress, Before
  <2>3. /\ job[r].op = "add" => ledger[job[r].user] = Absent
        /\ \E u \in Users : Administrator(ledger, u)
             /\ (u # job[r].user \/ job[r].op \notin {"delete", "deactivate"})
    BY <1>0, <2>1 DEF OtherInv, Before
  <2>4. \E u \in Users : Administrator(ledger', u)
    BY <1>a, <2>1, <2>3, ApplyOther
  <2> QED
    BY <2>2, <2>4 DEF OtherInv
<1>3. ASSUME NEW r \in Requests, OpenFile(r) PROVE OtherInv'
  <2>1. UNCHANGED <<job, ledger, outlived>> /\ ~outlived
    BY <1>0, <1>3 DEF OpenFile, history
  <2>2. file # Cut /\ pc[r] = "open"
    BY <1>0, <1>3, <1>a, StoresDiffer DEF OpenFile, StepInv
  <2>3. \A s \in Requests : s # r => pc'[s] \notin Before
    BY <1>0, <1>3 DEF OpenFile, Goto, TypeOK, AloneInv, InProgress, Before
  <2> QED
    BY <1>0, <2>1, <2>2, <2>3 DEF OtherInv, Before
<1>4. ASSUME NEW r \in Requests,
             \/ ReadFile(r) \/ ReadFails(r) \/ OpenFails(r) \/ WriteFails(r)
             \/ ReloadReads(r) \/ ReloadFails(r) \/ ReloadAssigns(r)
      PROVE  OtherInv'
  <2>1. UNCHANGED <<file, ledger, outlived>> /\ ~outlived
    BY <1>0, <1>4 DEF ReadFile, ReadFails, OpenFails, WriteFails, ReloadReads, ReloadFails,
                      ReloadAssigns, history
  <2>2. \A s \in Requests : pc'[s] \in Before
           => pc[s] \in Before /\ job'[s] = job[s] /\ (pc'[s] = "write" => pc[s] = "write")
    BY <1>4 DEF ReadFile, ReadFails, OpenFails, WriteFails, ReloadReads, ReloadFails, Ends,
                ReloadAssigns, Goto, TypeOK, Before
  <2> QED
    BY <1>0, <2>1, <2>2 DEF OtherInv
<1>5. CASE \/ WatchReads \/ WatchAssigns \/ Boot \/ BootFails \/ UNCHANGED vars
           \/ (\E u \in Users : SignIn(u)) \/ \E c \in Cookies : SignOut(c)
  <2>1. UNCHANGED <<file, pc, job, ledger, outlived>>
    BY <1>5 DEF WatchReads, WatchAssigns, Boot, BootFails, SignIn, SignOut, vars, request, history
  <2> QED
    BY <1>0, <2>1 DEF OtherInv
<1>6. CASE Crash
  <2>1. \A s \in Requests : pc'[s] \notin Before
    BY <1>6 DEF Crash, InProgress, Before
  <2>2. UNCHANGED <<ledger, outlived>>
    BY <1>6 DEF Crash, history
  <2> QED
    BY <1>0, <2>1, <2>2 DEF OtherInv
<1> QED
  BY <1>1, <1>2, <1>3, <1>4, <1>5, <1>6 DEF Next, Save

\* Whatever writes the file leaves the watcher a change to look at, and nothing that was
\* loaded before its look is still to be assigned after it.
LEMMA SettledStep == IInv /\ SettledInv /\ [Next]_vars => SettledInv'
<1> SUFFICES ASSUME IInv, SettledInv, [Next]_vars, Prompt, ~changed' PROVE SettledInv'
  BY DEF SettledInv
<1> USE DEF IInv
<1>1. ASSUME NEW r \in Requests, Begin(r) PROVE SettledInv'
  <2>1. PICK c \in Cookies, j \in Jobs : Begins(r, c, j)
    BY <1>1, BeginStep
  <2>2. UNCHANGED <<file, conf, up, changed, loading>>
    BY <2>1 DEF Begins, web
  <2>3. \A s \in Requests : pc'[s] = "assign" => pc[s] = "assign" /\ s # r
    BY <2>1 DEF Begins, Goto, TypeOK
  <2>4. \A s \in Requests : s # r => buf'[s] = buf[s]
    BY <1>1, BeginStep DEF TypeOK
  <2> QED
    BY <2>2, <2>3, <2>4 DEF SettledInv, Content
<1>2. ASSUME NEW r \in Requests, OpenFile(r) \/ WriteFile(r) PROVE SettledInv'
  BY <1>2 DEF OpenFile, WriteFile
<1>3. ASSUME NEW r \in Requests,
             \/ ReadFile(r) \/ ReadFails(r) \/ OpenFails(r) \/ WriteFails(r)
             \/ ReloadReads(r) \/ ReloadFails(r)
      PROVE  SettledInv'
  <2>1. UNCHANGED <<file, conf, up, changed, loading>>
    BY <1>3 DEF ReadFile, ReadFails, OpenFails, WriteFails, ReloadReads, ReloadFails, web
  <2>2. \A s \in Requests : pc'[s] = "assign"
           => buf'[s] = file \/ (pc[s] = "assign" /\ buf'[s] = buf[s])
    BY <1>3 DEF ReadFile, ReadFails, OpenFails, WriteFails, ReloadReads, ReloadFails, Ends,
                Goto, TypeOK
  <2> QED
    BY <2>1, <2>2 DEF SettledInv, Content
<1>4. ASSUME NEW r \in Requests, ReloadAssigns(r) PROVE SettledInv'
  <2>1. UNCHANGED <<file, up, changed, loading>> /\ conf' = buf[r] /\ pc[r] = "assign"
    BY <1>4 DEF ReloadAssigns
  <2>2. \A s \in Requests : pc'[s] = "assign" => pc[s] = "assign" /\ buf'[s] = buf[s]
    BY <1>4 DEF ReloadAssigns, Ends, Goto, TypeOK
  <2>3. buf[r] = file /\ buf[r] \in Stores
    BY <2>1 DEF SettledInv, HoldsInv
  <2>4. conf' = Content(file)
    BY <2>1, <2>3, StoresDiffer DEF Content, Unreadable
  <2> QED
    BY <2>1, <2>2, <2>4 DEF SettledInv, Content
<1>5. CASE WatchReads
  <2>1. UNCHANGED <<file, pc, buf>> /\ loading' = Content(file)
    BY <1>5 DEF WatchReads, request
  <2>2. \A r \in Requests : pc[r] # "assign"
    BY <1>5 DEF WatchReads
  <2>3. loading' # Nothing
    BY <2>1, StoresDiffer DEF Content, NoAccounts, Stores, TypeOK, Unreadable
  <2> QED
    BY <2>1, <2>2, <2>3 DEF SettledInv, Content
<1>6. CASE WatchAssigns
  BY <1>6 DEF WatchAssigns, request, SettledInv, Content
<1>7. CASE BootFails \/ UNCHANGED vars \/ (\E u \in Users : SignIn(u)) \/ \E c \in Cookies : SignOut(c)
  <2>1. UNCHANGED <<file, conf, up, changed, loading, pc, buf>>
    BY <1>7 DEF BootFails, SignIn, SignOut, vars, web, request
  <2> QED
    BY <2>1 DEF SettledInv, Content
<1>8. CASE Crash
  BY <1>8 DEF Crash, InProgress, SettledInv
<1>9. CASE Boot
  <2>1. UNCHANGED <<file, loading, pc, buf>> /\ conf' = Content(file) /\ ~up
    BY <1>9 DEF Boot, request, Content
  <2>2. loading = Nothing /\ \A s \in Requests : pc[s] # "assign"
    BY <2>1 DEF DownInv, InProgress
  <2> QED
    BY <2>1, <2>2 DEF SettledInv, Content
<1> QED
  BY <1>1, <1>2, <1>3, <1>4, <1>5, <1>6, <1>7, <1>8, <1>9 DEF Next, Save

\* What a change makes of an account that does not exist: only an addition creates one.
LEMMA ApplyAbsent ==
    ASSUME NEW j \in Jobs, NEW s \in Stores, NEW u \in Users,
           s[u] = Absent \/ (j.op = "delete" /\ u = j.user),
           j.op = "add" => u # j.user
    PROVE  Apply(j, s)[u] = Absent
<1>1. CASE u # j.user
  BY <1>1 DEF Apply, Stores
<1>2. CASE u = j.user
  <2>1. Apply(j, s)[u] = Changed(j, s[u])
    BY <1>2 DEF Apply, Stores
  <2> QED
    BY <1>2, <2>1 DEF Changed
<1> QED
  BY <1>1, <1>2

\* One at a time, only an addition of that name brings a deleted account back.
LEMMA DeletionStep == IInv /\ DeletionInv /\ [Next]_vars => DeletionInv'
<1> SUFFICES ASSUME IInv, DeletionInv, [Next]_vars, ledger' # Nothing PROVE DeletionInv'
  BY DEF DeletionInv
<1> USE DEF IInv
<1>0. ledger # Nothing
  BY DEF Next, Begin, Add, SetActive, Delete, ChangePassword, Manages, Begins, Save, ReadFile,
         ReadFails, OpenFile, OpenFails, WriteFile, WriteFails, ReloadReads, ReloadFails,
         ReloadAssigns, WatchReads, WatchAssigns, SignIn, SignOut, Crash, Boot, BootFails,
         vars, history
<1>a. ledger \in Stores
  BY <1>0 DEF TypeOK
<1>1. ASSUME NEW r \in Requests, Begin(r) PROVE DeletionInv'
  <2>1. PICK c \in Cookies, j \in Jobs : Begins(r, c, j)
    BY <1>1, BeginStep
  <2>2. Quiet /\ ledger' = ledger
    BY <2>1 DEF Begins
  <2>3. \A s \in Requests : s # r => pc'[s] \notin Before
    BY <2>1, <2>2 DEF Begins, Goto, TypeOK, Quiet, InProgress, Before
  <2>4. job'[r] = j /\ gone' = IF j.op = "add" THEN gone \ {j.user} ELSE gone
    BY <2>1 DEF Begins, TypeOK
  <2> QED
    BY <1>0, <2>2, <2>3, <2>4 DEF DeletionInv
<1>2. ASSUME NEW r \in Requests, WriteFile(r) PROVE DeletionInv'
  <2>1. pc[r] = "write" /\ job[r] \in Jobs /\ ledger' = Apply(job[r], ledger)
    BY <1>0, <1>2 DEF WriteFile, HoldsInv, Before
  <2>2. \A s \in Requests : pc'[s] \notin Before
    BY <1>0, <1>2 DEF WriteFile, Goto, TypeOK, AloneInv, InProgress, Before
  <2>3. gone' \subseteq gone \cup {job[r].user} /\ (job[r].op # "delete" => gone' = gone)
    BY <1>2 DEF WriteFile, Removed
  <2>4. \A u \in gone' : /\ u \in Users
                         /\ ledger[u] = Absent \/ (job[r].op = "delete" /\ u = job[r].user)
                         /\ job[r].op = "add" => u # job[r].user
    BY <1>0, <2>1, <2>3 DEF DeletionInv, TypeOK, Before, Jobs
  <2>5. \A u \in gone' : ledger'[u] = Absent
    BY <1>a, <2>1, <2>4, ApplyAbsent
  <2> QED
    BY <2>2, <2>5 DEF DeletionInv
<1>3. ASSUME NEW r \in Requests,
             \/ ReadFile(r) \/ ReadFails(r) \/ OpenFile(r) \/ OpenFails(r) \/ WriteFails(r)
             \/ ReloadReads(r) \/ ReloadFails(r) \/ ReloadAssigns(r)
      PROVE  DeletionInv'
  <2>1. UNCHANGED <<ledger, gone>>
    BY <1>3 DEF ReadFile, ReadFails, OpenFile, OpenFails, WriteFails, ReloadReads, ReloadFails,
                ReloadAssigns, history
  <2>2. \A s \in Requests : pc'[s] \in Before => pc[s] \in Before /\ job'[s] = job[s]
    BY <1>3 DEF ReadFile, ReadFails, OpenFile, OpenFails, WriteFails, ReloadReads, ReloadFails,
                ReloadAssigns, Ends, Goto, TypeOK, Before
  <2> QED
    BY <1>0, <2>1, <2>2 DEF DeletionInv
<1>4. CASE \/ WatchReads \/ WatchAssigns \/ Boot \/ BootFails \/ UNCHANGED vars
           \/ (\E u \in Users : SignIn(u)) \/ \E c \in Cookies : SignOut(c)
  <2>1. UNCHANGED <<pc, job, gone>> /\ ledger' = ledger
    BY <1>4 DEF WatchReads, WatchAssigns, Boot, BootFails, SignIn, SignOut, vars, request, history
  <2> QED
    BY <1>0, <2>1 DEF DeletionInv
<1>5. CASE Crash
  <2>1. \A s \in Requests : pc'[s] \notin Before
    BY <1>5 DEF Crash, InProgress, Before
  <2>2. UNCHANGED <<ledger, gone>>
    BY <1>5 DEF Crash, history
  <2> QED
    BY <1>0, <2>1, <2>2 DEF DeletionInv
<1> QED
  BY <1>1, <1>2, <1>3, <1>4, <1>5 DEF Next, Save

\* The inductive invariant: requests in progress are alone while there is a ledger, and in
\* step with it.
THEOREM Inductive == Spec => []IInv
<1>1. IInv /\ [Next]_vars => IInv'
  BY TypeStep, HoldsStep, DownStep, AloneStep, StepStep DEF IInv
<1> QED
  BY <1>1, InitInv, PTL DEF Spec

\* The accounts keep to their types: the file is a whole store, cut, or garbled.
THEOREM TypeCorrect == Spec => []TypeOK
<1>1. IInv => TypeOK
  BY DEF IInv
<1> QED
  BY <1>1, Inductive, PTL

\* Changes that wait for each other and for the watcher lose nothing, and bring no deleted
\* account back.
THEOREM OneAtATimeAlways == Spec => []OneAtATime
<1>1. Init => DeletionInv
  BY DEF Init, DeletionInv, Before
<1>2. IInv /\ DeletionInv /\ [Next]_vars => DeletionInv'
  BY DeletionStep
<1>3. IInv /\ DeletionInv => OneAtATime
  BY DEF IInv, StepInv, DeletionInv, OneAtATime
<1> QED
  BY <1>1, <1>2, <1>3, Inductive, PTL DEF Spec

\* ... and leave an administrator, unless a cookie acted that its account no longer bore out.
THEOREM SomeoneRemainsAlways == Spec => []SomeoneRemains
<1>1. IInv /\ OtherInv /\ [Next]_vars => OtherInv'
  BY OtherStep
<1>2. OtherInv => SomeoneRemains
  BY DEF OtherInv, SomeoneRemains
<1> QED
  BY <1>1, <1>2, InitInv, Inductive, PTL DEF Spec

\* Once the watcher has looked, the configuration is the file, provided that a reload in
\* progress ends within the watcher's delay.
THEOREM SettledAlways == Spec => []Settled
<1>1. Init => SettledInv
  <2> SUFFICES ASSUME Init PROVE SettledInv
    OBVIOUS
  <2>1. file \in Stores /\ conf = file /\ loading = Nothing
    BY StoreAssumption DEF Init
  <2>2. Content(file) = file
    BY <2>1, StoresDiffer DEF Content, Unreadable
  <2> QED
    BY <2>1, <2>2 DEF Init, SettledInv
<1>2. IInv /\ SettledInv /\ [Next]_vars => SettledInv'
  BY SettledStep
<1>3. SettledInv => Settled
  BY DEF SettledInv, Settled
<1> QED
  BY <1>1, <1>2, <1>3, Inductive, PTL DEF Spec
=============================================================================
