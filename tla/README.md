# RemoteAppHandler: verification project

RemoteAppHandler lets people in a browser start, stop and supervise programs on a
remote Windows machine. A web application (`HandelApp.Web`) sends commands over one
TCP connection to an agent (`HandelApp.Agent`) on that machine; the agent launches the
programs, restarts them when they crash, provisions numbered copies of them and keeps a
registry of the applications it may run.

This directory holds TLA+ modules for the parts of that system that are hard to get
right and hard to test, the TLC configurations that check them on small instances, and
TLAPS proofs for every value of the constants. All paths below are relative to the
repository; the C# sources are under `src/src`. The repository has no tests, so the
code and its comments are the only statement of what is intended.

- [The system](#the-system)
- [The modules and the code](#the-modules-and-the-code)
- [The runs](#the-runs)
- [Fairness](#fairness)
- [The proofs](#the-proofs)
- [Where code and comments disagree](#where-code-and-comments-disagree)
- [What is left out](#what-is-left-out)
- [Plan](#plan)

## The system

```
 browser ──► controllers ──► RemoteAgentService ═══TCP═══► TcpCommandListener
                │             ▲      (semaphore,            (one loop per
                │             │       one stream)            connection)
             UserStore   AgentConnectionMonitor                   │
             users.json   (reconnects every interval)             ▼
                                                        MultiAppManagerService
   DefaultInstanceStartupService (once, at boot) ─────► (lock, dictionary of scopes)
                                                          │              │
                                             AppRegistryService    one scope per app
                                                 apps.json       ┌───────┴────────┐
                                                   ProcessManagerRegistry   InstanceManagerService
                                                          │                  (folders on disk)
                                               ProcessManagerService
                                               (one per instance, lock)
                                                          │  ▲
                                                 launch,  │  │ Exited callbacks (thread
                                                 kill     ▼  │ pool, or inside a look)
                                                  operating system processes
```

| Component | State | Operations | Talks to |
|---|---|---|---|
| `ProcessManagerService` | `_managedProcess`, `_intentionalStop`, `_lock`, event subscriptions | `Start`, `Stop`, `GetStatus`, `TryAttachExisting`, `OnProcessExited` | processes; called by the listener's loops, the boot service, folder operations, and by whoever first sees that a process exited |
| `ProcessManagerRegistry` | instance name → manager | `GetOrCreate`, `GetAll` | creates the managers of one application |
| `InstanceManagerService` | the instance folders on disk (none in memory) | `CreateInstance`, `DeleteInstance`, `ListInstances` | asks managers whether an instance runs |
| `MultiAppManagerService` | identifier → scope (`_apps`), `_lock` | `RegisterApp`, `UnregisterApp`, `ListApps`, routing, `GetDefaultManagers` | registry, scopes |
| `AppRegistryService` | definitions in memory, `apps.json`, `apps.json.tmp`, reader/writer lock | `Register`, `Unregister`, `Get`, `GetAll`, load and save | file system |
| `DefaultInstanceStartupService` | none | starts the default instances two seconds after boot | `MultiAppManagerService` |
| `TcpCommandListener` | one command loop per accepted connection | accept, read, dispatch, respond | `ProtocolSerializer`, `MultiAppManagerService` |
| `ProtocolSerializer` | none; a buffer per call | write a frame, read a frame | both ends of the connection |
| `RemoteAgentService` | `_tcpClient`, `_stream`, `_isConnected`, `_lock` (semaphore of 1) | `EnsureConnectedAsync`, `SendCommandAsync`, `DisposeAsync` | agent |
| `AgentConnectionMonitor` | none | every interval, `EnsureConnectedAsync` | `RemoteAgentService` |
| `HandelAppController`, `AppsController` | none | one action per command; `Create` lists, then creates the next number | `RemoteAgentService` |
| `UserManagementController`, `AccountController` | `users.json` and the configuration loaded from it; cookies | add, activate, delete, change password; log in and out | file system, the configuration's file watcher |
| `PasswordTool`, views, hosts, protocol types, options | none that matters here | | |

`PROJECT.json` lists them all under `components`, with the sources, the state of the
model and the reason where there is none.

**What is hard here.**

- *Callbacks against calls.* The exit callback of a process takes the manager's lock
  twice with a three-second sleep between; `Start`, `Stop` and adoptions happen in
  the gap. Processes launched by users, killed duplicates and processes that survived
  the agent's own restart all look alike to a scan.
- *Callbacks inside calls.* `Process.HasExited` and `Process.WaitForExit` raise `Exited` on
  the thread that called them when they are the first to see the exit. That thread holds
  the manager's lock, which is re-entrant: the callback runs there and then, launches, and
  the look still answers that the old process is gone. And the runtime takes the lock of the
  `Process` object to raise the event: when the thread pool is first, its callback holds
  that lock and wants the manager's, and the thread that looks holds the manager's and wants
  that one.
- *Locks of different extent.* Registry, dictionary of scopes and manager each have
  their own lock; `UnregisterApp` and `EnsureScope` span several critical sections.
  `UnregisterApp` asks managers for `IsRunning` while it holds the dictionary's lock, so
  it waits for a `Stop` in its grace period, and for ever for a manager that is deadlocked.
- *Files without locks.* `CreateInstance` and `DeleteInstance` work file by file on the
  same folder from several connections; `AppRegistryService` writes through a
  temporary file and can be cut off at any step.
- *One connection for everybody.* A request may give up at any await while the agent
  goes on with its command; no response carries an identifier that anyone compares.
  Because an abandoned connection's command keeps running, two command loops can be at
  work although the web application has one connection.
- *A stream is not a sequence of messages.* Reads return what they like, and a writer may
  be cut off inside a message.
- *A file and a copy of it.* The accounts exist twice, in `users.json` and in the
  configuration; one kind of request writes what it made of the copy, the other edits the
  file, both reload, a watcher reloads too, and nothing locks either. Who may change them
  is said by a cookie, which carries the name and role of its sign-in.
- *Restarts.* The agent keeps no record of the processes it started; after a restart
  it finds them again by scanning.

**What makes each component correct.** A manager: at most one process per instance,
a crash restarted, a stop respected, every call answered; where a callback inside a call or
the two locks break this, nothing else does. A connection: the right
answer for each request, no command executed twice, no request stuck, a lost
connection restored. The registry: what was answered survives. An application: one
supervisor for one executable, from registration to removal. A folder: a Create that
answered Ok leaves a whole instance. A stream: whole messages in order, whatever the reads
return. The accounts: a change that was saved is not undone, the configuration follows the
file, somebody can still administer.
`PROJECT.json` lists the concrete hazards, each at its line, under `hazards`.

## The modules and the code

`PROJECT.json` gives the source lines of every definition under `map`. Each module
`M.tla` models; `MCM.tla` supplies model values and symmetry for the `.cfg` files;
`MProofs.tla` holds theorems. Definitions introduced by a comment that begins with
"Variant" are plausible mistakes, not behaviour of the code: no specification uses
them, and they exist to show that a property notices them.

### ProcessManager

One `ProcessManagerService`, its callers, its callbacks and the machine it runs on.

| Variable | Code |
|---|---|
| `proc` | the processes that run the executable: gone, live, live but not to be watched by the agent (`guarded`), or killed and not yet gone |
| `managed` | `_managedProcess`: a `Process` object, of a process launched here (`own`) or of one found (`found`) |
| `intentional`, `lock` | `_intentionalStop`; `_lock` and whether a thread or a callback of the pool holds it |
| `exitEvent` | per `Process` object: handler registered (`armed`), event raised by the pool, callback in its sleep (`cooling`) or about to launch after one that ran inside its look (`again`), or an exit nobody was told of (`missed`) |
| `candidates` | what `Process.GetProcessesByName` returned and the loop has not looked at |
| `op`, `pc` | the call of each thread and the statement it has reached |
| `verdict` | history: how the last decision about the process ended |
| `nested` | history: whether a callback has launched within somebody's look |

A call holds `_lock` from its first statement to its answer, but processes and the pool move
between any two of its statements, so a call is split wherever it looks at or acts on a
process. `Enter` takes the lock and looks; the attach is `List`, `Adopt` or `FindNone`,
`Subscribe` or `SubscribeThrows`, `KillDuplicates`; then comes the body of `Start`, `Stop`,
`GetStatus` or of the queries `IsRunning` and `ProcessId`. `Stop` raises the flag
(`StopBegins`), waits (`StoppedGracefully`, `GraceOver`), kills (`KilledAfterTimeout`), or
fails (`StopFails`).

Each look of a call (`Looking`) that is the first to see an exit ends in one of two ways.
`CallbackInLook` runs `OnProcessExited` on the spot: both its critical sections and its
sleep are inside the caller's lock, and when it launches, the call goes on with the answer
"gone". `Collide` is the pool coming first: two threads wait for each other's lock, and the
manager never answers again. `WaitForExit` in `Stop` can do both; its callback finds the flag
up. On the pool `OnProcessExited` is `PoolRaises`, `CheckIntent`, then after the sleep
`WakeForNothing` or `WakeAndRestart`; its double-check is a look as well, so it may launch
beside the callback of a newer process (`NestedRestart`, `RestartAgain`) or collide with it
(`WakeCollides`). `LaunchByHand` and `ProcessExits` are the users and the processes
themselves; `RestartAgent` is a new agent with new objects beside old processes.

Simplifications: `KillDuplicatesUnderLock` kills what it finds in one step (each `Kill` may
fail); `EnableRaisingEvents = true` and `Exited +=` of an adoption are two outcomes of one
step, or, when the former throws, the disposed object stays in `_managedProcess`
(`NoProcess`), as in the code; a callback inside a look is one step, since nobody else gets
the lock meanwhile. The callback reads `ExitCode` (`:244`) before it takes the lock; that is a
look too, and the callback it may run is one of the pool's. `TryAttachExisting` has no caller
in the repository; what it does is the beginning of the other calls.

### Supervisor

What a `ProcessManagerService` promises, without lock, scans and steps: the live process
under supervision (`child`), whether a stop holds restarts back (`hold`), the exits not
yet dealt with (`due`), how the last decision ended (`outcome`), and the live processes it has
let go of (`strays`). An exit is answered by one launch, or dismissed because a stop asked for
it or a newer process overtook it; only an exit in the middle of an adoption may be missed. A
launch comes instead of a live process in one case: a restart was launched within the look of
somebody who goes on as if the process were gone (`late`), and that one leaves a stray.
ProcessManager implements it under the mapping at its end: `child` is the handle while its
process lives, `strays` the other live processes with an armed event, `due` the exits whose
callback is to come, running or in its sleep, and an exit that happens between the adoption
and its subscription.

### AgentConnection

`RemoteAgentService` with any number of `SendCommandAsync` calls in progress,
`AgentConnectionMonitor`, and the command loops of `TcpCommandListener` at the other end.

| Variable | Code |
|---|---|
| `sem`, `isConnected`, `conn` | `_lock`, `_isConnected`, `_tcpClient` with `_stream` |
| `link`, `peer` | the two ends of each TCP connection; `peer` is where the agent's loop is |
| `serving`, `toAgent`, `toWeb` | the command a loop executes, commands and responses on their way |
| `pc` | where each request and the monitor are |
| `got`, `executed` | history: whose response a request got, how often a command ran |
| `agentUp` | whether the agent runs |

Each critical section of the semaphore is `Begin...` to one of its ends; a request may
fail at each await (`ConnectFails`, `WriteFails`, `ReadFails`, `CancelWait`). A request
that fails while writing may or may not have been heard. At the agent, `LoopFails` is every
way in which a command loop ends of itself: an address that is not on the allowlist, a
header it refuses, a failing read or write. `AgentStops` ends the agent and `RestartWeb` the
web application, by `DisposeAsync` or a crash; either comes back with new objects, and what
the other end holds of the old connections stays. `TcpClient.Connected` has no
variable: it turns false only through a failing I/O call, and whoever makes that
call lowers `_isConnected` too. Messages arrive whole and in order; that this may be taken
for for granted is what Framing is about.

### RemoteCalls

What the controllers rely on, without connections, semaphore and streams: whose turn it is
(`turn`), what has become of each command (`command`: unsent, under way, executed or lost)
and what its caller knows (`call`). Commands go out one at a time, each is executed at most
once, only an executed one is answered, and one whose call failed before its turn is never
executed; of a call that failed later nothing is promised, and its command may be executed
while others are under way. AgentConnection implements it (`ImplementsCalls`): the turn is
the semaphore's holder while the connection is up, a command is under way while a stream or
a command loop has it, and lost when nobody has it any more.

### MessageChannel and Framing

MessageChannel is what callers of `ProtocolSerializer` rely on: messages sent, a prefix of
them received, and an end (`over`) after which nothing more is received.

Framing is one direction of a connection, byte by byte.

| Variable | Code |
|---|---|
| `wire`, `closed` | the bytes that were written and arrive, and whether the writer is gone |
| `taken` | how many bytes were read |
| `phase`, `want`, `buffer` | which `ReadExactAsync` is in progress, its buffer's length and the bytes it has; or how reading ended |
| `received` | the bodies returned to the caller |
| `sent`, `starts` | history: the bodies written, and where each begins on the wire |

`WriteMessage` is `WriteMessageAsync`, which checks no length. `ReadSome` is one
`ReadAsync` of any number of bytes that are there and wanted; `ReadHeader`, `RefuseHeader` and
`ReadBody` are what `ReadMessageAsync` does with a full buffer, `EndOfStream` a read of zero
bytes, `ReadStops` a cancelled or failing read, and `WriterStops` a writer that is cut off
after any byte. Lengths are 32 bits, big-endian, the first bit the sign. The JSON text of a
body is not modelled: a body is any non-empty byte sequence. `ImplementsChannel` maps `over`
to a reader that has ended.

### AppRegistry

The definitions in memory, `apps.json` and `apps.json.tmp`. A mutation changes the
memory, then saves: `OpenTmp` (the file is empty or half written), `WriteTmp`,
`Replace` (`File.Move`), with `SaveFails` at every step (the exception is logged, and
the mutation answers ok) and `Crash` anywhere. `Boot` loads the file, `BootUnread` is a
read that fails. `acked`, `latest` and `failed` are history.

### DurableRegistry

What the registry promises, without files: a copy in memory and a durable one, which changes
in one step, when a mutation is saved, to what the memory holds. A save may fail and the
agent may end at any moment; it starts again with the durable copy, or with none when that
cannot be read. AppRegistry implements it (`SavesAtOnce`): the durable copy is what
`apps.json` stands for, and the temporary file is out of sight.

### AppLifecycle

One application, its registry entry (`registered`), its entry in the dictionary (`scope`),
the scope objects (`built`: the definition each was built from) with the state of their
managers (`child`, `hold`, `watched`, `due`, `deadlocked`), and the commands of several
connections with the startup service (`Booter`). A command looks up the definition, ensures
the scope and calls the manager. The call is split at its looks, as in ProcessManager:
`Asking` and `BootSkips`/`BootGoesOn` are the startup service's `IsRunning`, `Stays`,
`FindNone` and `Adopt` the attach, then `KillDuplicates` and `Start`, `Stop` or `Answers`; at
each look `CallbackInLook` or `Collide` may come instead. The exit of a process is handled by
`PoolRaises` and `Handled`, `Restart`, `RestartTwice` or `RestartCollides`. `UnregisterApp`
is check, removal from the registry, removal from the dictionary; the check is a look too
(`CallbackInCheck`), and one at a deadlocked manager never ends and keeps the dictionary's
lock (`UnregisterHangs`). Scopes are objects: a thread or a callback that holds one keeps it
alive after the application is gone. `removals` and `overtaken` are history: whether the
application was removed, with other calls under way or not, and whether a callback launched
within a look or an application was removed.

Simplifications: `Kill` is immediate, a Stop ends its process, and the failures of a call
and `Subscribe` as a step of its own are left to ProcessManager; there is one instance
(managers of different instances share nothing); all definitions name the same executable,
which is the case in which managers can meet.

### InstanceFolders

One numbered instance: its folder (`exists`, `folder`), Creates and Deletes on several
connections, file by file, and the process as the folder operations see it (`running`,
`tracked`, `cooling`). The existence check and `Directory.CreateDirectory` are separate
steps, each file is copied with `overwrite: false`, a Delete may fail at any file.
`created` and `disturbed` are history. Files are copied in one fixed order; nested
folders are not distinguished.

### UserStore

The accounts of the web application.

| Variable | Code |
|---|---|
| `file` | `users.json`: a set of accounts, or cut off, or garbled by two writers |
| `conf` | `Auth:Users` in the configuration |
| `changed`, `loading` | the file watcher of `AddJsonFile(..., reloadOnChange: true)` |
| `pc`, `job`, `buf` | where each request is, what it asks for, which accounts it has read |
| `signedIn` | the cookies in use: the name and the role at sign-in |
| `up` | whether the web application runs |
| `ledger`, `outlived`, `gone` | history: the accounts as the saves made them as long as changes came one at a time; whether a cookie was used that its account no longer bore out; whose account a saved deletion removed |

A change begins with what it reads from the configuration (`Add`, `SetActive`, `Delete`:
the whole list) or checks in it (`ChangePassword`), reads the file (`ReadFile`: the password
change takes its list from here), truncates it (`OpenFile`), writes it (`WriteFile`) and
reloads in two steps (`ReloadReads`, `ReloadAssigns`); each may throw, a reload of a file that
is whole as well. The role of a new account is the form's, so a name that was deleted may come
back with another one; only the cookie decides who manages. The watcher reads and assigns by
itself, a truncated file too. `Crash`, `Boot` and `BootFails` are the process: without a file
that parses it does not start. `Shipped` are the accounts the application may be deployed
with: any that include an active administrator.

Simplifications: refused requests change nothing and have no action; `GetUsers` reads the
configuration in one step; stored names carry no blanks; the watcher's own load opens the
file. `Prompt` is an assumption about time: a reload a request has begun ends before the
watcher, which waits 250 ms, begins its own.

## The runs

Each cfg lists its constants. `user_store` takes about a minute and a half,
`app_lifecycle` and `app_lifecycle_boot` up to one, `agent_connection` half of one, the
others a few seconds.

| Run | Instance | Shows |
|---|---|---|
| `process_manager` | 1 thread, 3 processes, all operations, manual launches, processes that may not be watched, faulty scans, agent restarts | `WatchedExactly`, `ManagedNotAbandoned`, `StopHolds`, `CrashNoticed`, `ImplementsSupervisor`, `TypeOK` |
| `process_manager_alone` | 2 threads, 2 processes, `Start` and `Stop`, no manual launches or faults, agent restarts, fairness | `NoAgentDuplicates`, `CallsAnswered`, `CrashRecovered` |
| `agent_connection` | 2 requests and the monitor, 3 connections, loops that fail, restarts of agent and web application, fairness | `OwnResponse`, `AtMostOnce`, `ImplementsCalls`, `RequestsFinish`, `Reconnected`, `TypeOK` |
| `framing` | bodies of 1, 2, 3, 5 and 6 bytes, a limit of 5, up to 3 messages, any partition into reads, writer and reader that stop, fairness | `RefusesOnlyOversized`, `NothingWithheld`, `AllReturned`, `ImplementsChannel`, `TypeOK` |
| `app_registry` | 3 applications, 2 definitions, failing file operations and crashes at every step | `Persisted`, `Recovered`, `SavesAtOnce`, `TypeOK` |
| `app_lifecycle` | 1 connection with all commands and the boot service, 2 definitions, 2 scopes, 2 processes, agent restarts | `OneSupervisor`, `OneProcess`, `ScopeFollowsRegistration`, `TypeOK` |
| `app_lifecycle_boot` | 1 connection with `start` and `stop` and the boot service, 1 scope, 3 processes, agent restarts, fairness | `SurvivorSupervised` |
| `instance_folders` | 3 connections, 3 files, all operations, failing file operations, agent restarts | `OneCreateSucceeds`, `QuietComplete`, `TypeOK` |
| `user_store` | 2 requests of any kind, 2 users of either role, any deployed accounts with an administrator, 2 hashes, failing files, crashes, `Prompt`, fairness | `OneAtATime`, `SomeoneRemains`, `Settled`, `ConfigurationCatchesUp`, `TypeOK` |
| `stop_during_cool_down`, `unregister_running`, `deletion_undone` | as small as the behaviour allows | a statement of the repository refuted, see below |

What the properties say, in one place:

- `WatchedExactly`: the tracked process and the exit subscription never come apart: a
  tracked live process is watched, and nothing else is, but what the manager let go of
  because a callback launched within a look.
- `ManagedNotAbandoned`: no late callback and no call during a cool-down replaces a live
  tracked process by another, with one exception: a process that a callback has just
  restarted within the look of a call, or of another callback, that then launches too.
- `StopHolds`: after `Stop` answered Ok no callback relaunches, although the exit may be
  noticed long after the answer, and by whoever looks first.
- `ImplementsSupervisor`: each step of the calls, callbacks, processes and agent restarts is
  one step of Supervisor or none.
- `NoAgentDuplicates`: where only the agent launches the executable, calls, auto-restarts
  and agent restarts never make two, unless a callback has launched within a look.
- `CallsAnswered`: every call is answered, whatever the process does with the close request,
  unless the lock of the manager and that of a `Process` object are deadlocked.
- `CrashRecovered`: a tracked process that exits without a stop is launched again, or the
  launch fails, or somebody stops it, or the two locks deadlock; so `_intentionalStop`, which
  nobody lowers after a stop, is lowered on every path that makes a process supervised again.
  Its escape `ExitMissed` is an exit between `EnableRaisingEvents` and `Exited +=` of an
  adoption.
- `CrashNoticed`: the safe half of the same: from the moment a process that nobody stopped
  is gone until it is launched again or a stop succeeds, an exit event or a callback is on its
  way, also while a Stop is under way that will fail. With `ExitMissed` as its only escape.
- `OwnResponse`, `AtMostOnce`: with no correlation identifier, a timed-out request's
  response reaches nobody else because the request takes the connection with it, and
  nothing is sent twice.
- `ImplementsCalls`: timeouts, breaks, queued callers and restarts at either end add up to
  RemoteCalls: a caller that gave up before it had the connection has sent nothing, an answer
  means one execution, and a command left behind can still run, once, beside a later one.
- `RequestsFinish`, `Reconnected`: everybody queued on the semaphore gets through, and a
  lost connection comes back without a request.
- `ImplementsChannel`: however reads cut the stream and wherever it ends, callers get
  whole messages, in order, without a gap; a cut-off message is never taken for one.
- `RefusesOnlyOversized`: the reader never loses its place, so the length it refuses is one
  the writer wrote, of a message that is too long, right after the messages before it.
- `NothingWithheld`: a reader that waits while the writer is there has returned
  everything, so no answer stays in a buffer until the next message pushes it out.
- `AllReturned`: whoever keeps reading gets every message, up to the end of the stream or a
  message too long for it.
- `Persisted`, `Recovered`: an answered mutation is in the file, and after a crash in memory,
  unless an operation on the files failed since the last save that succeeded.
- `SavesAtOnce`: truncating, writing and moving the temporary file, failing or cut off
  anywhere, is one step of DurableRegistry or none; the rest of an earlier attempt never
  becomes the registry.
- `OneSupervisor`: boot service and commands race and agents restart, and still one manager
  at a time answers for the executable, until the application is removed.
- `OneProcess`: and one process runs it, unless a callback launched within a look or the
  application was removed before. With either there may be two.
- `SurvivorSupervised`: a default instance that survives a restart of the agent comes under
  supervision without a command, unless the application is removed or a manager deadlocks.
- `ScopeFollowsRegistration`: when every call has returned, the cached scope was built from
  the registered definition, unless a removal and another call overlapped.
- `OneCreateSucceeds`, `QuietComplete`: of several Creates past the existence check one
  succeeds, and the losers leave its folder whole.
- `OneAtATime`: changes that come one at a time, each begun when the one before has ended
  and the watcher has put it in place, lose nothing, whatever throws or crashes and however
  the watcher reads the file while one is being saved; although one kind of request writes
  what it made of the configuration and the other edits the file. At rest the configuration
  agrees; and although every change writes all the accounts, none brings a deleted one back.
  What keeps it true when a reload throws, or the watcher has loaded a truncated file, is the
  watcher's next look. A change that does not wait for it may be made of the empty list and
  overwrite all the accounts, though no other change is under way.
- `SomeoneRemains`: since nobody deletes or deactivates his own account, such changes leave an
  administrator who can sign in, whatever roles accounts are added with, unless a cookie was
  used that its account no longer bore out: deleted, deactivated, or added again with
  another role.
- `Settled`: with other requests under way or not, once the watcher has looked at the last
  change and put its load in place, the configuration is what the file says, and no reload
  that began before that change comes in later. It speaks of instances with `Prompt`.
- `ConfigurationCatchesUp`: reloads of requests and watcher overtake each other and may read
  a file that is being written; at rest the configuration comes to be the file again.

**Bounds and why they are enough.** One thread is enough in `process_manager`: the lock admits
one call at a time, and what moves beside it is the callbacks, the processes and their users;
the queue at the lock is what the second thread of `process_manager_alone` is for. Three
processes are the tracked one, the one that comes after it or lives beside it, and the one a
callback launches within the look that decides. Three connections give a Create that wins and
two that lose. Three connections in `agent_connection` are the
one in use and two that timed-out requests left behind, with an agent still busy on
them. Two scopes in `app_lifecycle` are the cached one and one that a thread or a callback
holds on to; one connection beside the boot service gives a removal that overlaps another
call. `app_lifecycle_boot` removes nothing and needs one scope.
Three files are before, at and after the executable. The bodies in
`framing` are shorter and longer than a header, at the limit and beyond it,
with bytes that would read as lengths at the wrong place; the third message is one that
follows an outcome of the second. Two requests in `user_store` give every order of two
changes, and either user may be an administrator, act on the other, be deleted and be added
again; changes one at a time are the behaviours in which the second begins when the first has
ended and the watcher has caught up. Deadlock checking is on in every run
except `framing`, where a connection that is over stops. `Framing.MaxSent` bounds the
messages. No other module has an unbounded counter in its instances: `executed` and
`created` are bounded by the number of requests and of threads, as the invariants show.

What restricts a property is said in the property, so that no run has to leave out an
operation: `nested` and `overtaken` tell whether a callback launched within a look,
`removals` whether an application was removed, `ledger` whether changes came one at a time,
and `Deadlocked` whether the two locks are. The states beyond these are in the runs, and under
[disagreements](#where-code-and-comments-disagree). Two properties are about a smaller
instance: `NoAgentDuplicates` is false where users launch the executable, and
`SurvivorSupervised` is checked without registrations and removals.

## Fairness

- *ProcessManager.* Strong fairness for each thread (`Enter` waits for a monitor that is free
  again and again, the rest is the CLR scheduling a thread), with no exception to help it;
  strong fairness for the pool to see an exit that nobody else has seen and for its callback
  to get the monitor; weak fairness for the end of a process that was killed. None of it helps
  two threads that wait for each other's lock. Nothing makes a live process exit or a user do
  anything: `Stop` ends by its grace period.
- *AgentConnection.* The monitor's delay ends and the loops of the agent run (weak);
  waiters on the semaphore get it, and a request in progress gets an answer or its timeout
  (strong); an agent that stays up does not refuse the monitor for ever. No request has to
  be sent and the agent need not come back. Connections may break and the web application
  may restart again and again; that one attempt of the monitor gets through all the same is
  the strong fairness of its `ConnectSucceeds`.
- *AppLifecycle.* Strong fairness for the steps of the startup service, at the lock and inside
  it: the agent is not restarted for ever before the service has run once. Weak fairness for a
  thread inside a manager's lock. Commands need not arrive.
- *Framing.* Weak fairness for the reader alone: a `ReadMessageAsync` goes on until its stream
  ends or its token is cancelled, and both callers call it again. Nobody has to write.
- *UserStore.* Weak fairness for each request in progress and for the watcher, which the
  runtime calls back for a change it has seen. No request has to come and nobody has to sign
  in.

`app_registry`, `app_lifecycle`, `process_manager` and `instance_folders` check safety only.

## The proofs

All theorems are about the same `Spec` the runs check, for any sets of threads,
processes, requests, connections, applications and definitions; they rest on the named
`ASSUME` of each module (model values are distinct, switches are Boolean), which TLC
evaluates in every run.

**ProcessManagerProofs.** `TypeCorrect`, `SupervisedAlways`, `WatchIsExact`,
`NeverAbandoned`, `StopAlwaysHolds`. `Supervised` is not inductive alone: the
subscription is a later step than the adoption, so the invariant (`IInv`) needs who is inside
a call (`Control`): exactly the holder of the lock (`LockHeld`), or one callback that launches
once more (`AgainHeld`); a scan goes on over a live process only when a callback has launched
within the look before it (`LookGone`), and then that process was just restarted
(`OvertakenByRestart`), which is `NeverAbandoned`. `Watch` is that an armed event of a live
process belongs to the tracked handle until a callback launches within a look. The flag's part,
`FlagDuringStop` and `FlagAfterStop`, is that it is up from `StopBegins` past the answer, which
is all `StopAlwaysHolds` needs: every callback, on the pool or within a look, reads it.
`NoDuplicatesAlone` needs more (`Alone`), and an assumption, `AgentAlone` (no manual launches,
no scan faults): until a callback launches within a look at most one process runs
(`AtMostOneRuns`), a scan in progress still has every running process before it
(`ScanSeesAll`), and past the scan or with an exit event pending a running process can only be
the tracked one (`RunningIsTracked`). `NoCrashUnnoticed` (`CrashNoticed`) needs to know what a
Stop in progress may do to the flag: while the process is meant to run, a flag that is up
belongs to a Stop that still waits (`FlagFromStop`), and while it waits an exit stays armed or
raised, since its callback waits for the lock the Stop holds (`ExitDuringStop`).

**ProcessManagerRefinement.** `Implementation`: `Spec => ImplementsSupervisor`, one lemma
per group of actions. It needs four facts more (`Quiet`): between an adoption and its
subscription nobody else decides (`Adopting`), what a late decision overlooks was launched here
(`OvertakenOwn`), a live process has no exit to deal with, whoever had its identifier before
(`AliveNotDue`), and a found handle that is not tracked has no event (`FoundQuiet`).

**AgentConnectionProofs.** `TypeCorrect`, `SemaphoreReturned`, `ResponsesMatch`
(`OwnResponse`), `ExecutedOnce` (`AtMostOnce`). The argument is that a connection in use is clean: `CleanInv` says that
between requests nothing is on it at either end, and that during a request it carries
that request only. It holds because whoever gives up lowers `_isConnected` under the
semaphore (`ConnInv`, `LockInv`), and the next caller then connects afresh.
`AtMostOnce` follows from where a command is: with its caller, on one connection, or done
(`ChannelInv`, `AloneInv`, `BeforeInv`, `StageInv`, `GotInv`).
`Implementation`: `Spec => ImplementsCalls` uses the same invariant, and that the monitor sends
nothing (`MonitorInv`). Most steps leave the mapping alone (`Stutter`); what breaks a
connection loses the command that was on it (`Losing`), and what ends a request gives its
turn back, with a command that got through or not (`Failing`, `Fates`), or ends it before its
turn came (`FailsBefore`). A restart of the web application is one `Fail` of all its calls.

**AppRegistryProofs.** `TypeCorrect`, `FileIsMemory`, `AnswersPersist`, `CrashesRecover`,
`Implementation` (`Spec => SavesAtOnce`).
`TmpInv` says a finished temporary file holds the registry in memory; it is why the move
never installs a torn file or a stale one. `DiskInv` relates the file to memory and to the
answered and latest registries in each phase of a save. The refinement needs `TmpInv` and the
types: the move is `Commit`, everything before it a stutter.

**AppLifecycleProofs.** `TypeCorrect`, `OneSupervisorAlways`, `OneProcessAlways`,
`ScopeFollows`. Until an application is removed (`Sole`) callers hold the cached scope or none
(`Held`), and whatever tracks a process or has an exit to handle is that scope (`Owned`).
Until, in addition, a callback launches within a look (`Lone`), nobody goes on after a look
that a launch has overtaken (`NotBehind`), one process lives (`Single`), and wherever somebody
may launch, with an exit to handle or past the attach, it is the one that the scope tracks
(`Attended`), which is what makes the auto-restart safe although it looks for no other
process. `ScopeFollows` has the invariant `Orderly`: while removals overlapped nothing, a
definition in hand is the registered one, and a cached scope was built from it, except between
the two halves of a removal.

**InstanceFoldersProofs.** `TypeCorrect`, `OneCreateAlways`, `QuietCompleteAlways`. Because
a copy stops at a file that is there, only the Create that copied a file can be about to
copy the next: an undisturbed folder is fresh, led by one Create that alone has filled it,
or whole (`FInv`).

**FramingProofs.** `TypeCorrect`, `RefusesOnlyOversizedAlways`, `NothingWithheldAlways`, and `Implementation`: `Spec =>
ImplementsChannel`, for any bodies up to 2^31 - 1 bytes and any limit. The history `starts`
turns the wire into a layout that can be spoken of without recursion: each message has its
header and its body at its place (`Laid`, `Written`), and the reader's buffer is a piece of
the message after those received, at that place (`InPlace`). `DecodeEncode`, that
the four bytes of a length read back as that length, is arithmetic on its own.

**UserStoreProofs.** `TypeCorrect`, `OneAtATimeAlways`, `SomeoneRemainsAlways`,
`SettledAlways`. While changes come one at a time at most one request is in progress
(`AloneInv`); `StepInv` then says for each of its steps what file, configuration, buffer and
the watcher's load are in terms of `ledger`: the file is cut or the ledger, and unless the
watcher has a change to look at, what is on its way into the configuration is the file's
content. A crash leaves nothing behind (`HoldsInv`, `DownInv`). For
`SomeoneRemains`, `OtherInv` says that whoever's account a change in progress takes away,
there is another active administrator: the caller, whose cookie the account bore out when the
change began. That no deleted account returns needs `DeletionInv`: whose deletion was saved is
not in the ledger, and no addition of that name is in progress. `SettledAlways` is about
overlapping changes too: unless the watcher has a change to look at, whatever is on its way
into the configuration (its own load, the buffer of a reload, the configuration itself) is what
the file says (`SettledInv`). Every write raises `changed` and the watcher lowers it only when
it reads; `Prompt` is what keeps a reload from assigning after a later look of the watcher.

**Only model-checked.** The liveness properties `CallsAnswered`, `CrashRecovered`,
`RequestsFinish`, `Reconnected`, `AllReturned`, `SurvivorSupervised` and
`ConfigurationCatchesUp` (TLAPS does no fairness or ENABLED reasoning here), and the three
violations. For four of them the part that is safety is proved: `CrashNoticed` says that the
callback `CrashRecovered` waits for is on its way, `Settled` that the watcher's look
`ConfigurationCatchesUp` waits for is enough, `NothingWithheld` that the reader of
`AllReturned` is behind by what it has not read only, `SemaphoreReturned` that the
semaphore the requests of `RequestsFinish` queue for is held by one of them at work. Every invariant, action property and
refinement that a passing run checks is also a theorem.

## Where code and comments disagree

Three disagreements have a run whose counterexample shows them; `findings` in
`PROJECT.json` quotes the lines.

| Run | Comment or text | Code |
|---|---|---|
| `stop_during_cool_down` | a Stop during the restart delay is noticed | `Stop` finds no process, answers NotRunning and never raises the flag; the restart goes ahead |
| `unregister_running` | refuses while an instance runs | a process that survived an agent restart is in no manager, so the removal goes through; a Start after the check does the same |
| `deletion_undone` | a deletion cannot be undone | a request that read the accounts before the deletion was saved writes the deleted one back |

Smaller ones, met while modelling and left without a run:

- `ProcessManagerService.cs:281` says that the exit event of an adopted process is subscribed
  to; `EnableRaisingEvents` (`:305`) precedes `Exited +=`, and an exit in between is lost. When
  it throws for a process that lives, the disposed object stays in `_managedProcess`
  (`:315-317`) and the process runs on, unmanaged.
- `ProcessManagerService.cs:240` has `OnProcessExited` called on a thread of the pool;
  `Process.HasExited` (`:383`) and `WaitForExit` (`:176`) raise the event on the caller's thread
  when they are the first to see the exit.
- `ProcessManagerService.cs:104` has `Start` launch when nothing runs; its look (`:122`) may run
  the callback of the old process, which launches, and `Start` launches once more (`:134`): two
  live processes, one of them in no manager. Every property that would exclude it has `nested`
  or `overtaken` as its exception.
- `ProcessManagerService.cs:139-141` has `Stop` end after the grace period; when the pool sees
  the exit first, its callback holds the lock of the `Process` object and waits for `_lock`,
  and the `WaitForExit` of `Stop` (`:176`), or any other look, waits for that lock with `_lock`
  in its hands. No call of that manager is answered any more. `CallsAnswered` and
  `CrashRecovered` show that nothing else stops them.
- `RemoteAgentService.cs:137` lets the next call reconnect; a call already queued behind the
  failure throws without trying (`:124`).
- `InstanceManagerService.cs:70` refuses to delete a running instance; a restart after the
  check (`:99`), or a survivor no manager knows, runs while its folder is emptied.
- `HandelAppController.cs:66` takes the highest number "to avoid collisions"; two users who list
  before either creates get the same one, which the agent refuses to the second.
- `UserManagementController.cs:62` compares a name before it is trimmed (`:69`), so a name with
  blanks around it becomes a second account of that name.
- Cookies are not compared with the accounts again: two administrators can delete each other,
  and an administrator who was deleted and added again as an ordinary user can delete the last
  one. `SomeoneRemains` says that a cookie of this kind is needed for it.
- A change that begins while the watcher has still to look at the one before may lose every
  account: the watcher reads `users.json` as `SaveUsers` has truncated it
  (`UserManagementController.cs:140`), assigns after the reload (`:143`), and the next list is
  made of nothing. No two requests have to overlap for this.
- `users.json` is written in place; once it does not parse, every change fails while it is
  read and the web application does not start (`Program.cs:8`, not optional).
- `ProcessManagerService.cs:26` describes the flag as set during a stop; it stays up after
  it (`:173`). `CrashRecovered` shows that this harms nothing.
- `AppRegistryService.cs:8` promises a save after every mutation; a save that fails is
  swallowed (`:161`) and the mutation answers ok. `Persisted` says exactly when that matters.
- `ProcessManagerRegistry.cs:11` wants one manager per instance; unregistering during a
  start and registering again makes two, one of them held only by a thread or a callback.
- `UnregisterApp` asks `IsRunning` inside the dictionary's lock (`MultiAppManagerService.cs:69`);
  of a manager that is deadlocked it gets no answer, and from then on no command does.
- `MultiAppManagerService.cs:241` builds a scope from the definition the caller read
  earlier; after an unregistration in between it caches a scope of an application that is
  gone, which the next registration then inherits.
- `InstanceManagerService.cs:48` takes any existing folder for a provisioned instance, also
  the rest of a copy that failed; `:230` calls the copy additive, which `overwrite: false`
  (`:238`) turns into a failure.
- `AgentConnectionMonitor.cs:10` keeps the connection warm; it restores only connections
  already known to be lost, since `IsConnected` tells how the last operation went
  (`RemoteAgentService.cs:68`).
- `DefaultInstanceStartupService.cs:35` skips a manager that already runs; after a
  restart of the agent no manager knows its survivor yet, so `Start` runs, adopts it, and
  its answer is logged as a failure to start.

## What is left out

- *Time.* Delays and timeouts are steps that may happen; no property measures them. That a
  Stop in its grace period delays an unregistration is therefore not visible, only that a
  deadlocked manager stops it.
- *The JSON text* of messages and files: a body is bytes, a file is what it says or does not
  parse. A body that is not JSON is a failing read.
- *The backlog, names and containment checks, options*: static, or without
  effect on the state that properties speak of.
- *Several instances and several applications at once*: their managers, folders and scopes
  share only the locks and the registry file, which is modelled for several applications.
- *Output pipes and exit codes* of the processes: nothing in the agent depends on them.
- *The numbering of instances* by the web application: see the plan.
- *Views, hosts, tools*: no state.
- *Scripts.* All JavaScript in the repository but four comment lines (`wwwroot/js/site.js`) is
  vendored: AdminLTE with its demonstration pages and the jQuery validation adapter, under
  `wwwroot/lib`. None of it holds state of this system, and none is modelled. The system
  is the C# under `src/src/HandelApp.*`; the definitions map to about 40 % of its lines,
  documentation comments counted.

## Plan

The order was: the manager first, because everything else exists to reach it, then the
connection, the registry, the routing of commands to managers, the folders, the
abstract supervisor, the accounts, the frames under the connection, and the abstract
specifications of the calls and of the registry. These are done,
and proved as far as the prover reaches. What would come next:

1. **InstanceNumbers**: `HandelAppController.Create` lists and then creates; two users and a
   failed list, over the promises InstanceFolders checks.
2. **AgentExecution**: AgentConnection composed with the routing, so that "executed once"
   speaks of the manager's calls, with the two loops an abandoned connection leaves.
3. A liveness part of Supervisor (every exit that is due is dealt with), checked against
   ProcessManager.
