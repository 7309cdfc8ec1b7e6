-------------------------- MODULE AgentConnection --------------------------
(***************************************************************************)
(* The web application's one connection to the agent: RemoteAgentService   *)
(* with the requests that send commands through it, AgentConnectionMonitor *)
(* with its reconnect loop, and at the other end the command loop that     *)
(* TcpCommandListener runs for each accepted connection.                   *)
(*                                                                         *)
(* A request is one SendCommandAsync call of a controller.  It may give up *)
(* at any await (its timeout, or the browser going away); the agent goes   *)
(* on with what it has received.  A response carries the name of the       *)
(* request it answers; nothing in the web application looks at it.         *)
(*                                                                         *)
(* TcpClient.Connected has no variable: it turns false only when an I/O    *)
(* call fails, and whoever makes that call lowers _isConnected as well.    *)
(***************************************************************************)
EXTENDS Naturals, Sequences

CONSTANTS
    Requests,      \* the commands the controllers send, each once
    Conns,         \* TCP connections
    Monitor,       \* AgentConnectionMonitor
    Free,          \* nobody holds the semaphore
    NoConn,        \* no connection
    AgentCrashes,  \* whether the agent may stop and come back
    WebRestarts    \* whether the web application may

Callers == Requests \cup {Monitor}

ASSUME ConnectionAssumption ==
    /\ Monitor \notin Requests
    /\ Free \notin Callers
    /\ NoConn \notin Conns
    /\ AgentCrashes \in BOOLEAN /\ WebRestarts \in BOOLEAN

VARIABLES
    sem,          \* holder of the semaphore _lock
    isConnected,  \* _isConnected
    conn,         \* _tcpClient and _stream
    link,         \* the web application's end of each connection
    peer,         \* the agent's end: where its command loop is
    serving,      \* the request a command loop is busy with
    toAgent,      \* commands on their way, by connection
    toWeb,        \* responses on their way, by connection
    pc,           \* where each caller is
    got,          \* history: the request whose response a request got
    executed,     \* history: how often the agent executed a request
    agentUp       \* whether the agent runs

web == <<sem, isConnected, conn, link, pc, got>>
agent == <<peer, serving, executed, agentUp>>
vars == <<web, agent, toAgent, toWeb>>

Init == /\ sem = Free
        /\ isConnected = FALSE
        /\ conn = NoConn
        /\ link = [c \in Conns |-> "closed"]
        /\ peer = [c \in Conns |-> "closed"]
        /\ serving = [c \in Conns |-> Free]
        /\ toAgent = [c \in Conns |-> <<>>]
        /\ toWeb = [c \in Conns |-> <<>>]
        /\ pc = [p \in Callers |-> IF p = Monitor THEN "pause" ELSE "new"]
        /\ got = [r \in Requests |-> Free]
        /\ executed = [r \in Requests |-> 0]
        /\ agentUp = TRUE
-----------------------------------------------------------------------------
Finished == {"answered", "failed", "notConnected"}

Goto(p, s) == pc' = [pc EXCEPT ![p] = s]

\* Where EnsureConnectedAsync returns to, and where its exception ends: the monitor
\* tries again after its interval.
Connected(p) == Goto(p, IF p = Monitor THEN "pause" ELSE "send")

\* Variant: the exception ends the monitor's loop.
RejectedForGood(p) == Goto(p, "failed")

Rejected(p) == Goto(p, IF p = Monitor THEN "pause" ELSE "failed")

\* The look at _isConnected that takes no lock.
FastCheck(p, start) == /\ pc[p] = start
                       /\ IF isConnected THEN Connected(p) ELSE Goto(p, "ensure")
                       /\ UNCHANGED <<sem, isConnected, conn, link, got, agent, toAgent, toWeb>>

Send(r) == FastCheck(r, "new")

MonitorWakes == FastCheck(Monitor, "pause")

\* The second check, under the semaphore.
EnsureFindsConnected(p) ==
    /\ pc[p] = "ensure"
    /\ sem = Free
    /\ isConnected
    /\ Connected(p)
    /\ UNCHANGED <<sem, isConnected, conn, link, got, agent, toAgent, toWeb>>

\* The old stream and client are disposed, the new one connects.
BeginConnect(p) ==
    /\ pc[p] = "ensure"
    /\ sem = Free
    /\ ~isConnected
    /\ sem' = p
    /\ link' = [c \in Conns |-> IF c = conn THEN "closed" ELSE link[c]]
    /\ conn' = NoConn
    /\ Goto(p, "connect")
    /\ UNCHANGED <<isConnected, got, agent, toAgent, toWeb>>

ConnectSucceeds(p) ==
    /\ pc[p] = "connect"
    /\ agentUp
    /\ \E c \in Conns :
          /\ link[c] = "closed" /\ peer[c] = "closed"
          /\ link' = [link EXCEPT ![c] = "open"]
          /\ peer' = [peer EXCEPT ![c] = "reading"]
          /\ toAgent' = [toAgent EXCEPT ![c] = <<>>]
          /\ toWeb' = [toWeb EXCEPT ![c] = <<>>]
          /\ conn' = c
    /\ isConnected' = TRUE
    /\ sem' = Free
    /\ Connected(p)
    /\ UNCHANGED <<serving, executed, agentUp, got>>

\* No agent, the connect timeout, or a request that is cancelled.
ConnectFails(p) == /\ pc[p] = "connect"
                   /\ isConnected' = FALSE
                   /\ sem' = Free
                   /\ Rejected(p)
                   /\ UNCHANGED <<conn, link, got, agent, toAgent, toWeb>>

\* Cancelled while it waits for the semaphore: nothing but the request changes.
CancelWait(r) == /\ pc[r] \in {"ensure", "send"}
                 /\ Goto(r, "failed")
                 /\ UNCHANGED <<sem, isConnected, conn, link, got, agent, toAgent, toWeb>>

BeginSend(r) == /\ pc[r] = "send"
                /\ sem = Free
                /\ isConnected
                /\ sem' = r
                /\ Goto(r, "write")
                /\ UNCHANGED <<isConnected, conn, link, got, agent, toAgent, toWeb>>

\* "Not connected to remote agent."
SendFindsNoConnection(r) ==
    /\ pc[r] = "send"
    /\ sem = Free
    /\ ~isConnected
    /\ Goto(r, "notConnected")
    /\ UNCHANGED <<sem, isConnected, conn, link, got, agent, toAgent, toWeb>>

\* What the agent's end receives of a command: nothing when it is gone.
Deliver(r) == toAgent' = [c \in Conns |-> IF c = conn /\ peer[c] # "closed"
                                          THEN Append(toAgent[c], r) ELSE toAgent[c]]

WriteCommand(r) == /\ pc[r] = "write"
                   /\ Deliver(r)
                   /\ Goto(r, "read")
                   /\ UNCHANGED <<sem, isConnected, conn, link, got, agent, toWeb>>

ReadResponse(r) == /\ pc[r] = "read"
                   /\ toWeb[conn] # <<>>
                   /\ got' = [got EXCEPT ![r] = Head(toWeb[conn])]
                   /\ toWeb' = [toWeb EXCEPT ![conn] = Tail(@)]
                   /\ sem' = Free
                   /\ Goto(r, "answered")
                   /\ UNCHANGED <<isConnected, conn, link, agent, toAgent>>

\* The catch of SendCommandAsync: what it leaves in _isConnected and in the lock,
\* and where the request goes.
Catch(r, flag, holder, step) == /\ isConnected' = flag
                                /\ sem' = holder
                                /\ Goto(r, step)
                                /\ UNCHANGED <<conn, link, got, agent, toWeb>>

GiveUp(r) == Catch(r, FALSE, Free, "failed")

Reading(r) == pc[r] = "read" /\ UNCHANGED toAgent

\* Variants: a timed-out request leaves the connection to the next one; it sends its
\* command again; it forgets the semaphore; the end of the stream passes for an answer.
ReadFailsButKeeps(r) == Reading(r) /\ Catch(r, isConnected, Free, "failed")
ReadFailsAndRetries(r) == Reading(r) /\ Catch(r, FALSE, Free, "ensure")
ReadFailsHolding(r) == Reading(r) /\ Catch(r, FALSE, r, "failed")
ReadNull(r) == /\ Reading(r)
               /\ got' = [got EXCEPT ![r] = NoConn]
               /\ sem' = Free
               /\ Goto(r, "answered")
               /\ UNCHANGED <<isConnected, conn, link, agent, toWeb>>

\* The timeout, a cancelled request, the end of the stream or a bad length header.
ReadFails(r) == Reading(r) /\ GiveUp(r)

\* The command may have been delivered all the same.
WriteFails(r) == /\ pc[r] = "write"
                 /\ GiveUp(r)
                 /\ Deliver(r) \/ UNCHANGED toAgent

\* The web application ends, by DisposeAsync or by itself, and starts again: the stream
\* and the client are gone, and so are the requests in progress.
Abandoned(p) == IF p = Monitor THEN "pause"
                ELSE IF pc[p] \in Finished \cup {"new"} THEN pc[p] ELSE "failed"

RestartWeb == /\ WebRestarts
              /\ sem' = Free
              /\ isConnected' = FALSE
              /\ conn' = NoConn
              /\ link' = [c \in Conns |-> "closed"]
              /\ pc' = [p \in Callers |-> Abandoned(p)]
              /\ UNCHANGED <<got, agent, toAgent, toWeb>>
-----------------------------------------------------------------------------
(***************************************************************************)
(* HandleClientAsync: one command at a time, in the order of arrival.      *)
(***************************************************************************)
ReceiveCommand(c) == /\ peer[c] = "reading"
                     /\ toAgent[c] # <<>>
                     /\ serving' = [serving EXCEPT ![c] = Head(toAgent[c])]
                     /\ toAgent' = [toAgent EXCEPT ![c] = Tail(@)]
                     /\ peer' = [peer EXCEPT ![c] = "executing"]
                     /\ UNCHANGED <<web, executed, agentUp, toWeb>>

\* MultiAppManagerService does what the command says.
Execute(c) == /\ peer[c] = "executing"
              /\ executed' = [executed EXCEPT ![serving[c]] = @ + 1]
              /\ peer' = [peer EXCEPT ![c] = "answering"]
              /\ UNCHANGED <<web, serving, agentUp, toAgent, toWeb>>

Respond(c) == /\ peer[c] = "answering"
              /\ link[c] = "open"
              /\ toWeb' = [toWeb EXCEPT ![c] = Append(@, serving[c])]
              /\ serving' = [serving EXCEPT ![c] = Free]
              /\ peer' = [peer EXCEPT ![c] = "reading"]
              /\ UNCHANGED <<web, executed, agentUp, toAgent>>

\* The web's end is gone and the response lost, although the write succeeds.
RespondInVain(c) ==
    /\ peer[c] = "answering"
    /\ link[c] = "closed"
    /\ serving' = [serving EXCEPT ![c] = Free]
    /\ peer' = [peer EXCEPT ![c] = "reading"]
    /\ UNCHANGED <<web, executed, agentUp, toAgent, toWeb>>

\* An address that is not on the allowlist, a command that is refused, a read or a write
\* that fails: the loop ends, and the web application finds out when it next reads.
LoopFails(c) == /\ peer[c] \in {"reading", "answering"}
                /\ peer' = [peer EXCEPT ![c] = "closed"]
                /\ serving' = [serving EXCEPT ![c] = Free]
                /\ toAgent' = [toAgent EXCEPT ![c] = <<>>]
                /\ UNCHANGED <<web, executed, agentUp, toWeb>>

\* The client closed the connection and everything it sent has been read.
EndOfCommands(c) == /\ peer[c] = "reading"
                    /\ link[c] = "closed"
                    /\ toAgent[c] = <<>>
                    /\ peer' = [peer EXCEPT ![c] = "closed"]
                    /\ UNCHANGED <<web, serving, executed, agentUp, toAgent, toWeb>>

AgentStops == /\ AgentCrashes
              /\ agentUp
              /\ agentUp' = FALSE
              /\ peer' = [c \in Conns |-> "closed"]
              /\ serving' = [c \in Conns |-> Free]
              /\ toAgent' = [c \in Conns |-> <<>>]
              /\ UNCHANGED <<web, executed, toWeb>>

AgentBoots == /\ ~agentUp
              /\ agentUp' = TRUE
              /\ UNCHANGED <<web, peer, serving, executed, toAgent, toWeb>>
-----------------------------------------------------------------------------
Ensure(p) == \/ EnsureFindsConnected(p)
             \/ BeginConnect(p)
             \/ ConnectSucceeds(p)
             \/ ConnectFails(p)

SendSteps(r) == \/ BeginSend(r)
                \/ SendFindsNoConnection(r)
                \/ WriteCommand(r)
                \/ WriteFails(r)
                \/ ReadResponse(r)
                \/ ReadFails(r)

Serve(c) == \/ ReceiveCommand(c)
            \/ Execute(c)
            \/ Respond(c)
            \/ RespondInVain(c)
            \/ EndOfCommands(c)

Next == \/ MonitorWakes
        \/ \E p \in Callers : Ensure(p)
        \/ \E r \in Requests : Send(r) \/ SendSteps(r) \/ CancelWait(r)
        \/ \E c \in Conns : Serve(c) \/ LoopFails(c)
        \/ AgentStops
        \/ AgentBoots
        \/ RestartWeb

Spec == Init /\ [][Next]_vars

\* The monitor's timer and the timeouts of connect and command come, a caller that
\* waits for the semaphore gets it, the agent's loops run, and an agent that is up
\* does not refuse the monitor for ever.  No request has to be sent.
Fairness == /\ WF_vars(MonitorWakes)
            /\ \A p \in Callers : SF_vars(Ensure(p))
            /\ SF_vars(ConnectSucceeds(Monitor))
            /\ \A r \in Requests : SF_vars(SendSteps(r))
            /\ \A c \in Conns : WF_vars(Serve(c))

FairSpec == Spec /\ Fairness
-----------------------------------------------------------------------------
(***************************************************************************)
(* Properties.                                                             *)
(***************************************************************************)
CallerSteps == Finished \cup {"pause", "new", "ensure", "connect", "send", "write", "read"}

\* Every variable keeps to its values.
TypeOK == /\ sem \in Callers \cup {Free}
          /\ isConnected \in BOOLEAN
          /\ conn \in Conns \cup {NoConn}
          /\ link \in [Conns -> {"open", "closed"}]
          /\ peer \in [Conns -> {"closed", "reading", "executing", "answering"}]
          /\ serving \in [Conns -> Requests \cup {Free}]
          /\ toAgent \in [Conns -> Seq(Requests)]
          /\ toWeb \in [Conns -> Seq(Requests)]
          /\ pc \in [Callers -> CallerSteps]
          /\ got \in [Requests -> Requests \cup {Free}]
          /\ executed \in [Requests -> Nat]
          /\ agentUp \in BOOLEAN

\* Nobody gets the response of somebody else's command, although no correlation id
\* is compared and responses come late: a timed-out request takes its connection
\* with it.
OwnResponse == \A r \in Requests : got[r] \in {Free, r}

\* However the connection breaks, the agent never executes a command twice, and
\* what was answered was executed.
AtMostOnce == \A r \in Requests : /\ executed[r] <= 1
                                  /\ got[r] # Free => executed[got[r]] = 1

\* What a caller and its command have come to.
Carries(c, r) == toAgent[c] = <<r>> \/ serving[c] = r

NotSent == {"new", "ensure", "connect", "send", "write"}

Turn == IF isConnected THEN sem ELSE Free

Command == [r \in Requests |->
    IF executed[r] > 0 THEN "executed"
    ELSE IF \E c \in Conns : Carries(c, r) THEN "underway"
    ELSE IF pc[r] \in NotSent THEN "unsent" ELSE "lost"]

Call == [r \in Requests |->
    IF pc[r] = "answered" THEN "answered"
    ELSE IF pc[r] \in Finished THEN "failed" ELSE "open"]

Calls == INSTANCE RemoteCalls WITH Nobody <- Free, turn <- Turn, command <- Command, call <- Call

\* Through every break, timeout and restart the controllers see commands that go out one
\* at a time: answered only when executed, never executed when the call failed before it
\* was sent, and of unknown fate otherwise.
ImplementsCalls == Calls!Spec

\* A request that was sent comes to an end, whatever becomes of the agent.
RequestsFinish == \A r \in Requests : pc[r] # "new" ~> pc[r] \in Finished

\* A connection known to be lost is restored without anybody sending a command,
\* as long as the agent stays up.
Reconnected == agentUp /\ ~isConnected ~> isConnected \/ ~agentUp
=============================================================================
