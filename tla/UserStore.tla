----------------------------- MODULE UserStore -----------------------------
(***************************************************************************)
(* The accounts of the web application: users.json, the configuration that *)
(* was loaded from it, and the requests of UserManagementController and    *)
(* AccountController that change them.                                     *)
(*                                                                         *)
(* Nothing locks the file or the configuration.  The user management       *)
(* writes the list it derived from the configuration; a password change    *)
(* edits the text of the file; both write in place and reload.  A file     *)
(* watcher reloads too, and whoever signed in stays signed in by a cookie  *)
(* that nobody checks against the accounts again.                          *)
(***************************************************************************)
CONSTANTS
    Requests,   \* the browser requests that change accounts
    Users,      \* user names, as they are stored
    Hashes,     \* password hashes
    Shipped,    \* the accounts users.json may be deployed with
    NoHash,     \* a request that brings none
    Absent,     \* no account of that name
    Cut,        \* users.json after it was truncated and before it is written
    Garbled,    \* ... with the texts of two writers in it
    Nothing,    \* no job, nothing read
    Faults,     \* whether opening and writing the file may throw
    Crashes,    \* whether the web application may stop and start again
    Prompt      \* whether a Reload in progress ends before the watcher's delay

Accounts == [hash : Hashes, active : BOOLEAN, admin : BOOLEAN]
Stores == [Users -> Accounts \cup {Absent}]
Unreadable == {Cut, Garbled}

\* The name and role that a cookie claims.
Cookies == [user : Users, admin : BOOLEAN]

Active(s, u) == s[u] # Absent /\ s[u].active

Administrator(s, u) == Active(s, u) /\ s[u].admin

ASSUME StoreAssumption ==
    /\ Shipped \subseteq Stores
    /\ \A s \in Shipped : \E u \in Users : Administrator(s, u)
    /\ NoHash \notin Hashes
    /\ Absent \notin Accounts
    /\ Cut # Garbled /\ (Unreadable \cup {Nothing}) \cap Stores = {}
    /\ Faults \in BOOLEAN /\ Crashes \in BOOLEAN /\ Prompt \in BOOLEAN

VARIABLES
    file,       \* users.json
    conf,       \* Auth:Users of the configuration
    up,         \* whether the web application runs
    changed,    \* whether the watcher has a change to look at
    loading,    \* what the watcher's load has read and not yet assigned
    pc,         \* where each request is
    job,        \* what each request asks for
    buf,        \* the accounts each request has read
    signedIn,   \* the cookies in use
    ledger,     \* history: the accounts as every save made them, while they came one by one
    outlived,   \* history: whether a cookie was used that its account no longer bears out
    gone        \* history: users whose account a saved deletion removed, and nobody added since

web == <<conf, up, changed, loading>>
request == <<pc, job, buf>>
history == <<ledger, outlived, gone>>
vars == <<file, web, request, signedIn, history>>

Managing == {"add", "activate", "deactivate", "delete"}
Jobs == [op : Managing \cup {"password"}, user : Users, hash : Hashes \cup {NoHash},
         admin : BOOLEAN]

NoAccounts == [u \in Users |-> Absent]

\* What a request makes of the account it is about; the role of a new one is the form's.
Changed(j, a) ==
    IF j.op = "add" THEN [hash |-> j.hash, active |-> TRUE, admin |-> j.admin]
    ELSE IF j.op = "delete" \/ a = Absent THEN Absent
    ELSE [hash   |-> IF j.op = "password" THEN j.hash ELSE a.hash,
          active |-> IF j.op = "password" THEN a.active ELSE j.op = "activate",
          admin  |-> a.admin]

Apply(j, s) == [s EXCEPT ![j.user] = Changed(j, @)]

InProgress(r) == pc[r] \notin {"sent", "done"}

\* What a load makes of the file: one that does not parse empties the configuration.
Content(s) == IF s \in Unreadable THEN NoAccounts ELSE s

\* No request is under way, and the watcher has put the last change in place.
Quiet == ~changed /\ loading = Nothing /\ \A r \in Requests : ~InProgress(r)

Init == /\ file \in Shipped
        /\ conf = file
        /\ up = TRUE
        /\ changed = FALSE
        /\ loading = Nothing
        /\ pc = [r \in Requests |-> "sent"]
        /\ job = [r \in Requests |-> Nothing]
        /\ buf = [r \in Requests |-> Nothing]
        /\ signedIn = {}
        /\ ledger = file
        /\ outlived = FALSE
        /\ gone = {}
-----------------------------------------------------------------------------
(***************************************************************************)
(* A request reads the configuration first: GetUsers, or the check of the  *)
(* current password.  One that is refused there changes nothing and has no *)
(* action.                                                                 *)
(***************************************************************************)
Goto(r, s) == pc' = [pc EXCEPT ![r] = s]

\* A request is over, with an answer or an exception.
Ends(r) == /\ Goto(r, "done")
           /\ job' = [job EXCEPT ![r] = Nothing]
           /\ buf' = [buf EXCEPT ![r] = Nothing]

\* The account is there, active, and has the role of the cookie.
BornOut(c) == Active(conf, c.user) /\ conf[c.user].admin = c.admin

Begins(r, c, j) == /\ up /\ pc[r] = "sent"
                   /\ c \in signedIn
                   /\ Goto(r, "read")
                   /\ job' = [job EXCEPT ![r] = j]
                   /\ ledger' = IF Quiet THEN ledger ELSE Nothing
                   /\ outlived' = (ledger' # Nothing /\ (outlived \/ ~BornOut(c)))
                   /\ gone' = IF j.op = "add" THEN gone \ {j.user} ELSE gone
                   /\ UNCHANGED <<file, web, signedIn>>

\* Only the cookie says who is an administrator.
Manages(r, c, j) == /\ c.admin
                    /\ Begins(r, c, j)
                    /\ buf' = [buf EXCEPT ![r] = conf]

Add(r, c, j) == /\ j.op = "add" /\ j.hash # NoHash
                /\ conf[j.user] = Absent
                /\ Manages(r, c, j)

SetActive(r, c, j) == /\ j.op \in {"activate", "deactivate"} /\ j.hash = NoHash /\ ~j.admin
                      /\ j.user # c.user
                      /\ Manages(r, c, j)

\* Variant: the account to delete is not compared with the caller's.
DeleteAnyone(r, c, j) == /\ j.op = "delete" /\ j.hash = NoHash /\ ~j.admin
                         /\ Manages(r, c, j)

Delete(r, c, j) == /\ j.op = "delete" /\ j.hash = NoHash /\ ~j.admin
                   /\ j.user # c.user
                   /\ Manages(r, c, j)

ChangePassword(r, c, j) == /\ j.op = "password" /\ j.hash # NoHash /\ ~j.admin
                           /\ j.user = c.user
                           /\ conf[c.user] # Absent
                           /\ Begins(r, c, j)
                           /\ UNCHANGED buf

Begin(r) == \E c \in Cookies, j \in Jobs :
    Add(r, c, j) \/ SetActive(r, c, j) \/ Delete(r, c, j) \/ ChangePassword(r, c, j)
-----------------------------------------------------------------------------
(***************************************************************************)
(* SaveUsers and SavePasswordHash: read and parse the file, put in the     *)
(* list or change the one hash, write the file in place, reload.           *)
(***************************************************************************)
\* Variant: the list is written without the file having been read.
ReadNothing(r) == /\ pc[r] = "read"
                  /\ Goto(r, "open")
                  /\ buf' = IF job[r].op = "password"
                               THEN [buf EXCEPT ![r] = Content(file)]
                               ELSE buf
                  /\ UNCHANGED <<file, web, job, signedIn, history>>

ReadFile(r) == /\ pc[r] = "read" /\ file \notin Unreadable
               /\ Goto(r, "open")
               /\ buf' = IF job[r].op = "password" THEN [buf EXCEPT ![r] = file] ELSE buf
               /\ UNCHANGED <<file, web, job, signedIn, history>>

ReadFails(r) == /\ pc[r] = "read" /\ file \in Unreadable
                /\ Ends(r)
                /\ UNCHANGED <<file, web, signedIn, history>>

\* Opening for writing truncates.
OpenFile(r) == /\ pc[r] = "open"
               /\ file' = Cut
               /\ changed' = TRUE
               /\ Goto(r, "write")
               /\ UNCHANGED <<conf, up, loading, job, buf, signedIn, history>>

\* A platform that honours FileShare.Read admits no second writer.
OpenFails(r) == /\ pc[r] = "open"
                /\ Faults \/ \E s \in Requests \ {r} : pc[s] = "write"
                /\ Ends(r)
                /\ UNCHANGED <<file, web, signedIn, history>>

\* Somebody is adding an account of that name.
BeingAdded(u) == \E s \in Requests :
    pc[s] \in {"read", "open", "write"} /\ job[s].op = "add" /\ job[s].user = u

\* Whom a deletion removes: the list that it read had his account.
Removed(r) == {u \in {job[r].user} : /\ job[r].op = "delete" /\ buf[r][u] # Absent
                                     /\ ~BeingAdded(u)}

\* Where one is admitted, the shorter of two texts leaves the end of the longer.
WriteFile(r) == /\ pc[r] = "write"
                /\ LET text == Apply(job[r], buf[r])
                   IN  \/ file' = text
                       \/ file \notin {Cut, text} /\ file' = Garbled
                /\ ledger' = IF ledger = Nothing THEN Nothing ELSE Apply(job[r], ledger)
                /\ changed' = TRUE
                /\ Goto(r, "reload")
                /\ gone' = gone \cup Removed(r)
                /\ job' = [job EXCEPT ![r] = Nothing]
                /\ buf' = [buf EXCEPT ![r] = Nothing]
                /\ UNCHANGED <<conf, up, loading, signedIn, outlived>>

WriteFails(r) == /\ pc[r] = "write" /\ Faults
                 /\ Ends(r)
                 /\ UNCHANGED <<file, web, signedIn, history>>

ReloadReads(r) == /\ pc[r] = "reload" /\ file \notin Unreadable
                  /\ Goto(r, "assign")
                  /\ buf' = [buf EXCEPT ![r] = file]
                  /\ UNCHANGED <<file, web, job, signedIn, history>>

\* The change is written, the request fails all the same: the file is not whole, cannot
\* be opened, or another of the configuration's files throws first.
ReloadFails(r) == /\ pc[r] = "reload" /\ (Faults \/ file \in Unreadable)
                  /\ Ends(r)
                  /\ UNCHANGED <<file, web, signedIn, history>>

\* Variant: the reload leaves no users section behind.
ReloadClears(r) == /\ pc[r] = "assign"
                   /\ conf' = Nothing
                   /\ Ends(r)
                   /\ UNCHANGED <<file, up, changed, loading, signedIn, history>>

ReloadAssigns(r) == /\ pc[r] = "assign"
                    /\ conf' = buf[r]
                    /\ Ends(r)
                    /\ UNCHANGED <<file, up, changed, loading, signedIn, history>>

Save(r) == \/ ReadFile(r) \/ ReadFails(r)
           \/ OpenFile(r) \/ OpenFails(r)
           \/ WriteFile(r) \/ WriteFails(r)
           \/ ReloadReads(r) \/ ReloadFails(r) \/ ReloadAssigns(r)
-----------------------------------------------------------------------------
(***************************************************************************)
(* The watcher (reloadOnChange: true), sign-in, and the process itself.    *)
(***************************************************************************)
\* Variant: reloadOnChange: false, as every request reloads by itself.
WatchesNever == FALSE

WatchesNow == up /\ changed /\ loading = Nothing

WatchReads == /\ WatchesNow
              /\ Prompt => \A r \in Requests : pc[r] # "assign"
              /\ loading' = Content(file)
              /\ changed' = FALSE
              /\ UNCHANGED <<file, conf, up, request, signedIn, history>>

\* Variant: the watcher listens again only when its load is done.
WatchAssignsThenListens == /\ up /\ loading # Nothing
                           /\ conf' = loading
                           /\ loading' = Nothing
                           /\ changed' = FALSE
                           /\ UNCHANGED <<file, up, request, signedIn, history>>

WatchAssigns == /\ up /\ loading # Nothing
                /\ conf' = loading
                /\ loading' = Nothing
                /\ UNCHANGED <<file, up, changed, request, signedIn, history>>

SignIn(u) == /\ up /\ Active(conf, u)
             /\ signedIn' = signedIn \cup {[user |-> u, admin |-> conf[u].admin]}
             /\ UNCHANGED <<file, web, request, history>>

\* Logout, or a cookie that expires.
SignOut(c) == /\ c \in signedIn
              /\ signedIn' = signedIn \ {c}
              /\ UNCHANGED <<file, web, request, history>>

Crash == /\ Crashes /\ up
         /\ up' = FALSE
         /\ conf' = NoAccounts
         /\ changed' = FALSE
         /\ loading' = Nothing
         /\ pc' = [r \in Requests |-> IF InProgress(r) THEN "done" ELSE pc[r]]
         /\ job' = [r \in Requests |-> Nothing]
         /\ buf' = [r \in Requests |-> Nothing]
         /\ UNCHANGED <<file, signedIn, history>>

Boot == /\ ~up /\ file \notin Unreadable
        /\ up' = TRUE
        /\ conf' = file
        /\ UNCHANGED <<file, changed, loading, request, signedIn, history>>

\* The file is not optional: the host does not start, now or later.
BootFails == /\ ~up /\ file \in Unreadable
             /\ UNCHANGED vars

Next == \/ \E r \in Requests : Begin(r) \/ Save(r)
        \/ WatchReads \/ WatchAssigns
        \/ \E u \in Users : SignIn(u)
        \/ \E c \in Cookies : SignOut(c)
        \/ Crash \/ Boot \/ BootFails

Spec == Init /\ [][Next]_vars

\* Requests run to their end, and the watcher is called back for every change.
Fairness == /\ \A r \in Requests : WF_vars(Save(r))
            /\ WF_vars(WatchReads)
            /\ WF_vars(WatchAssigns)

FairSpec == Spec /\ Fairness
-----------------------------------------------------------------------------
(***************************************************************************)
(* Properties.                                                             *)
(***************************************************************************)
\* Every variable keeps to its values.
TypeOK == /\ file \in Stores \cup Unreadable
          /\ conf \in Stores
          /\ ledger \in Stores \cup {Nothing}
          /\ up \in BOOLEAN /\ changed \in BOOLEAN
          /\ loading \in Stores \cup {Nothing}
          /\ pc \in [Requests -> {"sent", "done", "read", "open", "write", "reload", "assign"}]
          /\ job \in [Requests -> Jobs \cup {Nothing}]
          /\ buf \in [Requests -> Stores \cup {Nothing}]
          /\ signedIn \subseteq Cookies /\ gone \subseteq Users
          /\ outlived \in BOOLEAN

\* Changes that come one at a time, each begun when the one before has ended and the
\* watcher has put it in place, lose nothing, whatever fails or crashes and however the
\* watcher reads the file while one is being saved: the file is cut or holds every change
\* that reached it, although lists are written from the configuration and passwords into
\* the file; the configuration agrees when the watcher has nothing to do, while there is a
\* file to load; and no list brings a deleted user back, until somebody adds one of that
\* name.  (Begun earlier, a change may write the accounts of a truncated file.)
OneAtATime ==
    ledger # Nothing =>
        /\ file \in {ledger, Cut}
        /\ up /\ ~changed /\ loading = Nothing /\ file # Cut => conf = ledger
        /\ file # Cut => \A u \in gone : file[u] = Absent

\* Since nobody deletes or deactivates his own account, such changes leave an active
\* administrator, whatever roles users are added with, unless a cookie was used that its
\* account no longer bore out: deleted, deactivated, or added again with another role.
SomeoneRemains ==
    ledger # Nothing /\ ~outlived => \E u \in Users : Administrator(ledger, u)

\* Concurrent reloads may assign in the wrong order and the watcher may read a file that
\* is being written; once nothing is going on the configuration comes to be the file.
ConfigurationCatchesUp ==
    []<>(\/ ~up \/ file \in Unreadable \/ conf = file
         \/ \E r \in Requests : InProgress(r))

\* Once the watcher has looked at the last change and put its load in place, the
\* configuration is what the file says, and stays so: no reload that began before that
\* change comes in later, whether or not other requests are under way.
Settled == Prompt /\ up /\ ~changed /\ loading = Nothing => conf = Content(file)

\* "Permanently delete ...? This cannot be undone.": a user whose deletion was saved is
\* not in the file until somebody adds one of that name.
DeletedStaysDeleted == file \notin Unreadable => \A u \in gone : file[u] = Absent
=============================================================================
