----------------------- MODULE AgentConnectionProofs -----------------------
(***************************************************************************)
(* Proofs about AgentConnection, for any requests and connections.         *)
(***************************************************************************)
EXTENDS AgentConnection, TLAPS

\* The semaphore is held in the middle of a connect and of a send, and nowhere else.
LockInv == \A p \in Callers : pc[p] \in {"connect", "write", "read"} <=> sem = p

\* _isConnected means a connection whose web end is open; it is down during a connect.
ConnInv == /\ \A p \in Callers : pc[p] = "connect" => ~isConnected /\ conn = NoConn
           /\ \A r \in Requests : pc[r] \in {"write", "read"} => isConnected
           /\ isConnected => conn \in Conns /\ link[conn] = "open"

\* A connection carries one command or one response at most.
ChannelInv ==
    \A c \in Conns :
       /\ toAgent[c] = <<>> \/ \E r \in Requests : toAgent[c] = <<r>>
       /\ toWeb[c] = <<>> \/ \E r \in Requests : toWeb[c] = <<r>>
       /\ toAgent[c] # <<>> => serving[c] = Free /\ toWeb[c] = <<>>
       /\ serving[c] # Free => toWeb[c] = <<>>
       /\ peer[c] \in {"executing", "answering"} <=> serving[c] # Free
       /\ peer[c] = "closed" => toAgent[c] = <<>>

\* The connection in use is clean for the next request, and carries nothing but the
\* command or the response of the request that reads from it.
CleanInv ==
    /\ isConnected /\ (\A r \in Requests : pc[r] # "read")
          => toAgent[conn] = <<>> /\ toWeb[conn] = <<>> /\ serving[conn] = Free
    /\ \A r \in Requests : pc[r] = "read" =>
          /\ toAgent[conn] \in {<<>>, <<r>>}
          /\ toWeb[conn] \in {<<>>, <<r>>}
          /\ serving[conn] \in {Free, r}

\* A command is in one place at most: with its caller, on one connection, or done.
AloneInv == \A r \in Requests, c \in Conns, d \in Conns :
               Carries(c, r) /\ Carries(d, r) => c = d

BeforeInv ==
    \A r \in Requests : pc[r] \in {"new", "ensure", "connect", "send", "write"}
       => executed[r] = 0 /\ \A c \in Conns : ~Carries(c, r)

\* How often a command was executed follows from where it is.
StageInv ==
    \A r \in Requests :
       /\ executed[r] \in {0, 1}
       /\ \A c \in Conns :
             /\ toAgent[c] = <<r>> => executed[r] = 0
             /\ serving[c] = r => executed[r] = IF peer[c] = "executing" THEN 0 ELSE 1
             /\ toWeb[c] = <<r>> => executed[r] = 1

GotInv == \A r \in Requests : got[r] # Free => got[r] = r /\ executed[r] = 1

IInv == TypeOK /\ LockInv /\ ConnInv /\ ChannelInv /\ CleanInv /\ AloneInv /\ BeforeInv /\ StageInv /\ GotInv
-----------------------------------------------------------------------------
\* What the provers need to know of channels with one message.
LEMMA OneMessage ==
    ASSUME NEW S, NEW a \in S
    PROVE  /\ Append(<<>>, a) = <<a>> /\ Head(<<a>>) = a /\ Tail(<<a>>) = <<>>
           /\ <<a>> \in Seq(S) /\ <<>> \in Seq(S) /\ <<a>> # <<>>
           /\ \A b : <<a>> = <<b>> => a = b
  OBVIOUS

\* The empty channel.
LEMMA Empty == ASSUME NEW S PROVE <<>> \in Seq(S)
  OBVIOUS

\* What the steps that put a message on a channel, or take one, do under the invariant.
Delivered(r) ==
    /\ conn \in Conns /\ isConnected /\ sem = r
    /\ toAgent[conn] = <<>> /\ toWeb[conn] = <<>> /\ serving[conn] = Free
    /\ toAgent' \in [Conns -> Seq(Requests)]
    /\ toAgent'[conn] = IF peer[conn] # "closed" THEN <<r>> ELSE <<>>
    /\ \A c \in Conns \ {conn} : toAgent'[c] = toAgent[c]
    /\ \A c \in Conns, q \in Requests : toAgent'[c] = <<q>>
          <=> toAgent[c] = <<q>> \/ (c = conn /\ q = r /\ peer[c] # "closed")

Received(c, r) ==
    /\ peer[c] = "reading" /\ peer' = [peer EXCEPT ![c] = "executing"]
    /\ toAgent[c] = <<r>> /\ serving[c] = Free /\ toWeb[c] = <<>>
    /\ serving' = [serving EXCEPT ![c] = r]
    /\ toAgent' = [toAgent EXCEPT ![c] = <<>>]
    /\ UNCHANGED <<web, executed, agentUp, toWeb>>

Responded(c, r) ==
    /\ peer[c] = "answering" /\ peer' = [peer EXCEPT ![c] = "reading"]
    /\ serving[c] = r /\ toAgent[c] = <<>> /\ toWeb[c] = <<>>
    /\ serving' = [serving EXCEPT ![c] = Free]
    /\ toWeb' = [toWeb EXCEPT ![c] = <<r>>]
    /\ UNCHANGED <<web, executed, agentUp, toAgent>>

ReadOwn(r) ==
    /\ pc[r] = "read" /\ sem' = Free /\ Goto(r, "answered")
    /\ conn \in Conns /\ toWeb[conn] = <<r>> /\ toAgent[conn] = <<>> /\ serving[conn] = Free
    /\ got' = [got EXCEPT ![r] = r]
    /\ toWeb' = [toWeb EXCEPT ![conn] = <<>>]
    /\ UNCHANGED <<isConnected, conn, link, agent, toAgent>>

\* A command is only written to a clean connection, so it is alone there.
LEMMA Delivery ==
    ASSUME IInv, NEW r \in Requests, pc[r] = "write", Deliver(r)
    PROVE  Delivered(r)
<1>1. conn \in Conns /\ isConnected /\ sem = r
  BY DEF IInv, ConnInv, LockInv, Callers
<1>2. \A q \in Requests : pc[q] # "read"
  BY <1>1, ConnectionAssumption DEF IInv, LockInv, Callers
<1>3. toAgent[conn] = <<>> /\ toWeb[conn] = <<>> /\ serving[conn] = Free
  BY <1>1, <1>2 DEF IInv, CleanInv
<1>4. Append(<<>>, r) = <<r>> /\ <<r>> \in Seq(Requests)
  BY OneMessage
<1>5. /\ toAgent' \in [Conns -> Seq(Requests)]
      /\ toAgent'[conn] = IF peer[conn] # "closed" THEN <<r>> ELSE <<>>
      /\ \A c \in Conns \ {conn} : toAgent'[c] = toAgent[c]
  BY <1>1, <1>3, <1>4 DEF Deliver, IInv, TypeOK
<1>6. \A q \in Requests : <<q>> # <<>> /\ (<<r>> = <<q>> => q = r)
  BY OneMessage
<1> QED
  BY <1>1, <1>3, <1>5, <1>6 DEF Delivered

\* The command loop takes the only command of its connection.
LEMMA Reception ==
    ASSUME IInv, NEW c \in Conns, ReceiveCommand(c)
    PROVE  \E r \in Requests : Received(c, r)
  BY OneMessage DEF ReceiveCommand, Received, IInv, ChannelInv, TypeOK

\* ... and answers on a channel that holds no other response.
LEMMA Response ==
    ASSUME IInv, NEW c \in Conns, Respond(c)
    PROVE  \E r \in Requests : Responded(c, r)
<1>1. serving[c] \in Requests /\ toAgent[c] = <<>> /\ toWeb[c] = <<>>
  BY ConnectionAssumption DEF Respond, IInv, ChannelInv, TypeOK, Callers
<1> QED
  BY <1>1, OneMessage DEF Respond, Responded, IInv, TypeOK

\* The request that reads finds its own response, and nothing is left behind it.
LEMMA OwnReading ==
    ASSUME IInv, NEW r \in Requests, ReadResponse(r)
    PROVE  ReadOwn(r)
<1>1. conn \in Conns /\ toWeb[conn] = <<r>>
  BY DEF ReadResponse, IInv, ConnInv, CleanInv
<1>2. toAgent[conn] = <<>> /\ serving[conn] = Free
  BY <1>1, OneMessage DEF IInv, ChannelInv
<1> QED
  BY <1>1, <1>2, OneMessage DEF ReadResponse, ReadOwn, IInv, TypeOK

\* A caller moves to one of its steps.
LEMMA GotoType ==
    ASSUME TypeOK, NEW p, NEW s \in CallerSteps, Goto(p, s)
    PROVE  pc' \in [Callers -> CallerSteps]
  BY DEF TypeOK, Goto

\* Nothing is connected at first.
LEMMA InitInv == Init => IInv
<1> SUFFICES ASSUME Init PROVE IInv
  OBVIOUS
<1> USE ConnectionAssumption DEF Init, Callers
<1>1. TypeOK
  BY Empty DEF TypeOK, CallerSteps, Finished
<1>2. LockInv /\ ConnInv /\ CleanInv /\ GotInv
  BY DEF LockInv, ConnInv, CleanInv, GotInv
<1>3. ChannelInv
  BY DEF ChannelInv
<1>4. AloneInv /\ BeforeInv /\ StageInv
  BY OneMessage DEF AloneInv, BeforeInv, StageInv, Carries
<1> QED
  BY <1>1, <1>2, <1>3, <1>4 DEF IInv

\* Every action keeps the types; the channels are only written with requests.
LEMMA TypeStep == IInv /\ [Next]_vars => TypeOK'
<1> SUFFICES ASSUME IInv, [Next]_vars PROVE TypeOK'
  OBVIOUS
<1> USE ConnectionAssumption DEF IInv, TypeOK, CallerSteps, Finished, Callers, ConnInv, ChannelInv
<1>u. CASE UNCHANGED vars
  BY <1>u DEF vars, web, agent
<1>1. CASE MonitorWakes
  BY <1>1 DEF MonitorWakes, FastCheck, Connected, Goto, web, agent
<1>2. ASSUME NEW p \in Callers, EnsureFindsConnected(p) PROVE TypeOK'
  BY <1>2 DEF EnsureFindsConnected, Connected, Goto, web, agent
<1>3. ASSUME NEW p \in Callers, BeginConnect(p) PROVE TypeOK'
  BY <1>3 DEF BeginConnect, Goto, web, agent
<1>4. ASSUME NEW p \in Callers, ConnectSucceeds(p) PROVE TypeOK'
  BY <1>4, Empty, OneMessage DEF ConnectSucceeds, Connected, Goto, web, agent
<1>5. ASSUME NEW p \in Callers, ConnectFails(p) PROVE TypeOK'
  BY <1>5 DEF ConnectFails, Rejected, Goto, web, agent
<1>6. ASSUME NEW r \in Requests, Send(r) PROVE TypeOK'
  <2>1. Goto(r, "send") \/ Goto(r, "ensure")
    BY <1>6 DEF Send, FastCheck, Connected
  <2>2. pc' \in [Callers -> CallerSteps]
    BY <2>1, GotoType DEF CallerSteps
  <2> QED
    BY <1>6, <2>2 DEF Send, FastCheck, web, agent
<1>7. ASSUME NEW r \in Requests, CancelWait(r) PROVE TypeOK'
  BY <1>7 DEF CancelWait, Goto, web, agent
<1>8. ASSUME NEW r \in Requests, BeginSend(r) PROVE TypeOK'
  BY <1>8 DEF BeginSend, Goto, web, agent
<1>9. ASSUME NEW r \in Requests, SendFindsNoConnection(r) PROVE TypeOK'
  BY <1>9 DEF SendFindsNoConnection, Goto, web, agent
<1>10. ASSUME NEW r \in Requests, WriteCommand(r) PROVE TypeOK'
  <2>1. pc[r] = "write" /\ Goto(r, "read") /\ Delivered(r)
    BY <1>10, Delivery DEF WriteCommand
  <2>2. UNCHANGED <<sem, isConnected, conn, link, got, agent, toWeb>>
    BY <1>10 DEF WriteCommand
  <2> QED
    BY <2>1, <2>2, OneMessage DEF Goto, Delivered, agent
<1>11. ASSUME NEW r \in Requests, WriteFails(r) PROVE TypeOK'
  <2>1. pc[r] = "write" /\ ~isConnected' /\ isConnected' = FALSE /\ sem' = Free /\ Goto(r, "failed")
    BY <1>11 DEF WriteFails, GiveUp, Catch
  <2>2. UNCHANGED <<conn, link, got, agent, toWeb>>
    BY <1>11 DEF WriteFails, GiveUp, Catch
  <2>3. CASE Delivered(r)
    BY <2>1, <2>2, <2>3, OneMessage DEF Goto, Delivered, agent
  <2>4. CASE UNCHANGED toAgent
    BY <2>1, <2>2, <2>4 DEF Goto, agent
  <2> QED
    BY <1>11, <2>1, <2>3, <2>4, Delivery DEF WriteFails
<1>12. ASSUME NEW r \in Requests, ReadResponse(r) PROVE TypeOK'
  <2>1. ReadOwn(r)
    BY <1>12, OwnReading
  <2> QED
    BY <2>1, OneMessage, Empty DEF ReadOwn, Goto, agent
<1>13. ASSUME NEW r \in Requests, ReadFails(r) PROVE TypeOK'
  BY <1>13 DEF ReadFails, Reading, GiveUp, Catch, Goto, web, agent
<1>14. ASSUME NEW c \in Conns, ReceiveCommand(c) PROVE TypeOK'
  <2>1. PICK r \in Requests : Received(c, r)
    BY <1>14, Reception
  <2> QED
    BY <2>1, OneMessage, Empty DEF Received, web
<1>15. ASSUME NEW c \in Conns, Execute(c) PROVE TypeOK'
  BY <1>15, Empty, OneMessage DEF Execute, Goto, web, agent
<1>16. ASSUME NEW c \in Conns, Respond(c) PROVE TypeOK'
  <2>1. PICK r \in Requests : Responded(c, r)
    BY <1>16, Response
  <2> QED
    BY <2>1, OneMessage DEF Responded, web
<1>17. ASSUME NEW c \in Conns, RespondInVain(c) PROVE TypeOK'
  BY <1>17 DEF RespondInVain, web
<1>18. ASSUME NEW c \in Conns, EndOfCommands(c) PROVE TypeOK'
  BY <1>18 DEF EndOfCommands, Goto, web, agent
<1>19. CASE AgentStops
  BY <1>19, Empty, OneMessage DEF AgentStops, Goto, web, agent
<1>20. CASE AgentBoots
  BY <1>20 DEF AgentBoots, Goto, web, agent
<1>21. CASE RestartWeb
  BY <1>21 DEF RestartWeb, Abandoned, Finished, agent
<1>22. ASSUME NEW c \in Conns, LoopFails(c) PROVE TypeOK'
  BY <1>22, Empty, OneMessage DEF LoopFails, web
<1> QED
  BY <1>u, <1>1, <1>2, <1>3, <1>4, <1>5, <1>6, <1>7, <1>8, <1>9, <1>10, <1>11, <1>12, <1>13, <1>14, <1>15, <1>16, <1>17, <1>18, <1>19, <1>20, <1>21, <1>22
     DEF Next, Ensure, SendSteps, Serve

\* The semaphore is taken and given back in step with the callers' program counters.
LEMMA LockStep == IInv /\ [Next]_vars => LockInv'
<1> SUFFICES ASSUME IInv, [Next]_vars PROVE LockInv'
  OBVIOUS
<1> USE ConnectionAssumption DEF IInv, LockInv, TypeOK, Callers
<1>u. CASE UNCHANGED vars
  BY <1>u DEF vars, web, agent
<1>1. CASE MonitorWakes
  BY <1>1 DEF MonitorWakes, FastCheck, Connected, Goto, web, agent
<1>2. ASSUME NEW p \in Callers, EnsureFindsConnected(p) PROVE LockInv'
  BY <1>2 DEF EnsureFindsConnected, Connected, Goto, web, agent
<1>3. ASSUME NEW p \in Callers, BeginConnect(p) PROVE LockInv'
  BY <1>3 DEF BeginConnect, Goto, web, agent
<1>4. ASSUME NEW p \in Callers, ConnectSucceeds(p) PROVE LockInv'
  BY <1>4, Empty, OneMessage DEF ConnectSucceeds, Connected, Goto, web, agent
<1>5. ASSUME NEW p \in Callers, ConnectFails(p) PROVE LockInv'
  BY <1>5 DEF ConnectFails, Rejected, Goto, web, agent
<1>6. ASSUME NEW r \in Requests, Send(r) PROVE LockInv'
  BY <1>6 DEF Send, FastCheck, Connected, Goto, web, agent
<1>7. ASSUME NEW r \in Requests, CancelWait(r) PROVE LockInv'
  BY <1>7 DEF CancelWait, Goto, web, agent
<1>8. ASSUME NEW r \in Requests, BeginSend(r) PROVE LockInv'
  BY <1>8 DEF BeginSend, Goto, web, agent
<1>9. ASSUME NEW r \in Requests, SendFindsNoConnection(r) PROVE LockInv'
  BY <1>9 DEF SendFindsNoConnection, Goto, web, agent
<1>10. ASSUME NEW r \in Requests, WriteCommand(r) PROVE LockInv'
  <2>1. pc[r] = "write" /\ Goto(r, "read") /\ Delivered(r)
    BY <1>10, Delivery DEF WriteCommand
  <2>2. UNCHANGED <<sem, isConnected, conn, link, got, agent, toWeb>>
    BY <1>10 DEF WriteCommand
  <2> QED
    BY <2>1, <2>2, OneMessage DEF Goto, Delivered, agent
<1>11. ASSUME NEW r \in Requests, WriteFails(r) PROVE LockInv'
  <2>1. pc[r] = "write" /\ ~isConnected' /\ isConnected' = FALSE /\ sem' = Free /\ Goto(r, "failed")
    BY <1>11 DEF WriteFails, GiveUp, Catch
  <2>2. UNCHANGED <<conn, link, got, agent, toWeb>>
    BY <1>11 DEF WriteFails, GiveUp, Catch
  <2>3. CASE Delivered(r)
    BY <2>1, <2>2, <2>3, OneMessage DEF Goto, Delivered, agent
  <2>4. CASE UNCHANGED toAgent
    BY <2>1, <2>2, <2>4 DEF Goto, agent
  <2> QED
    BY <1>11, <2>1, <2>3, <2>4, Delivery DEF WriteFails
<1>12. ASSUME NEW r \in Requests, ReadResponse(r) PROVE LockInv'
  <2>1. ReadOwn(r)
    BY <1>12, OwnReading
  <2> QED
    BY <2>1, OneMessage, Empty DEF ReadOwn, Goto, agent
<1>13. ASSUME NEW r \in Requests, ReadFails(r) PROVE LockInv'
  BY <1>13 DEF ReadFails, Reading, GiveUp, Catch, Goto, web, agent
<1>14. ASSUME NEW c \in Conns, ReceiveCommand(c) PROVE LockInv'
  <2>1. PICK r \in Requests : Received(c, r)
    BY <1>14, Reception
  <2> QED
    BY <2>1, OneMessage, Empty DEF Received, web
<1>15. ASSUME NEW c \in Conns, Execute(c) PROVE LockInv'
  BY <1>15, Empty, OneMessage DEF Execute, Goto, web, agent
<1>16. ASSUME NEW c \in Conns, Respond(c) PROVE LockInv'
  <2>1. PICK r \in Requests : Responded(c, r)
    BY <1>16, Response
  <2> QED
    BY <2>1, OneMessage DEF Responded, web
<1>17. ASSUME NEW c \in Conns, RespondInVain(c) PROVE LockInv'
  BY <1>17 DEF RespondInVain, web
<1>18. ASSUME NEW c \in Conns, EndOfCommands(c) PROVE LockInv'
  BY <1>18 DEF EndOfCommands, Goto, web, agent
<1>19. CASE AgentStops
  BY <1>19, Empty, OneMessage DEF AgentStops, Goto, web, agent
<1>20. CASE AgentBoots
  BY <1>20 DEF AgentBoots, Goto, web, agent
<1>21. CASE RestartWeb
  BY <1>21 DEF RestartWeb, Abandoned, Finished, agent
<1>22. ASSUME NEW c \in Conns, LoopFails(c) PROVE LockInv'
  BY <1>22, Empty, OneMessage DEF LoopFails, web
<1> QED
  BY <1>u, <1>1, <1>2, <1>3, <1>4, <1>5, <1>6, <1>7, <1>8, <1>9, <1>10, <1>11, <1>12, <1>13, <1>14, <1>15, <1>16, <1>17, <1>18, <1>19, <1>20, <1>21, <1>22
     DEF Next, Ensure, SendSteps, Serve

\* A connect starts with the flag down, and only its end raises it.
LEMMA ConnStep == IInv /\ [Next]_vars => ConnInv'
<1> SUFFICES ASSUME IInv, [Next]_vars PROVE ConnInv'
  OBVIOUS
<1> USE ConnectionAssumption DEF IInv, ConnInv, LockInv, TypeOK, Callers
<1>u. CASE UNCHANGED vars
  BY <1>u DEF vars, web, agent
<1>1. CASE MonitorWakes
  BY <1>1 DEF MonitorWakes, FastCheck, Connected, Goto, web, agent
<1>2. ASSUME NEW p \in Callers, EnsureFindsConnected(p) PROVE ConnInv'
  BY <1>2 DEF EnsureFindsConnected, Connected, Goto, web, agent
<1>3. ASSUME NEW p \in Callers, BeginConnect(p) PROVE ConnInv'
  BY <1>3 DEF BeginConnect, Goto, web, agent
<1>4. ASSUME NEW p \in Callers, ConnectSucceeds(p) PROVE ConnInv'
  BY <1>4, Empty, OneMessage DEF ConnectSucceeds, Connected, Goto, web, agent
<1>5. ASSUME NEW p \in Callers, ConnectFails(p) PROVE ConnInv'
  BY <1>5 DEF ConnectFails, Rejected, Goto, web, agent
<1>6. ASSUME NEW r \in Requests, Send(r) PROVE ConnInv'
  BY <1>6 DEF Send, FastCheck, Connected, Goto, web, agent
<1>7. ASSUME NEW r \in Requests, CancelWait(r) PROVE ConnInv'
  BY <1>7 DEF CancelWait, Goto, web, agent
<1>8. ASSUME NEW r \in Requests, BeginSend(r) PROVE ConnInv'
  BY <1>8 DEF BeginSend, Goto, web, agent
<1>9. ASSUME NEW r \in Requests, SendFindsNoConnection(r) PROVE ConnInv'
  BY <1>9 DEF SendFindsNoConnection, Goto, web, agent
<1>10. ASSUME NEW r \in Requests, WriteCommand(r) PROVE ConnInv'
  <2>1. pc[r] = "write" /\ Goto(r, "read") /\ Delivered(r)
    BY <1>10, Delivery DEF WriteCommand
  <2>2. UNCHANGED <<sem, isConnected, conn, link, got, agent, toWeb>>
    BY <1>10 DEF WriteCommand
  <2> QED
    BY <2>1, <2>2, OneMessage DEF Goto, Delivered, agent
<1>11. ASSUME NEW r \in Requests, WriteFails(r) PROVE ConnInv'
  <2>1. pc[r] = "write" /\ ~isConnected' /\ isConnected' = FALSE /\ sem' = Free /\ Goto(r, "failed")
    BY <1>11 DEF WriteFails, GiveUp, Catch
  <2>2. UNCHANGED <<conn, link, got, agent, toWeb>>
    BY <1>11 DEF WriteFails, GiveUp, Catch
  <2>3. CASE Delivered(r)
    BY <2>1, <2>2, <2>3, OneMessage DEF Goto, Delivered, agent
  <2>4. CASE UNCHANGED toAgent
    BY <2>1, <2>2, <2>4 DEF Goto, agent
  <2> QED
    BY <1>11, <2>1, <2>3, <2>4, Delivery DEF WriteFails
<1>12. ASSUME NEW r \in Requests, ReadResponse(r) PROVE ConnInv'
  <2>1. ReadOwn(r)
    BY <1>12, OwnReading
  <2> QED
    BY <2>1, OneMessage, Empty DEF ReadOwn, Goto, agent
<1>13. ASSUME NEW r \in Requests, ReadFails(r) PROVE ConnInv'
  BY <1>13 DEF ReadFails, Reading, GiveUp, Catch, Goto, web, agent
<1>14. ASSUME NEW c \in Conns, ReceiveCommand(c) PROVE ConnInv'
  <2>1. PICK r \in Requests : Received(c, r)
    BY <1>14, Reception
  <2> QED
    BY <2>1, OneMessage, Empty DEF Received, web
<1>15. ASSUME NEW c \in Conns, Execute(c) PROVE ConnInv'
  BY <1>15, Empty, OneMessage DEF Execute, Goto, web, agent
<1>16. ASSUME NEW c \in Conns, Respond(c) PROVE ConnInv'
  <2>1. PICK r \in Requests : Responded(c, r)
    BY <1>16, Response
  <2> QED
    BY <2>1, OneMessage DEF Responded, web
<1>17. ASSUME NEW c \in Conns, RespondInVain(c) PROVE ConnInv'
  BY <1>17 DEF RespondInVain, web
<1>18. ASSUME NEW c \in Conns, EndOfCommands(c) PROVE ConnInv'
  BY <1>18 DEF EndOfCommands, Goto, web, agent
<1>19. CASE AgentStops
  BY <1>19, Empty, OneMessage DEF AgentStops, Goto, web, agent
<1>20. CASE AgentBoots
  BY <1>20 DEF AgentBoots, Goto, web, agent
<1>21. CASE RestartWeb
  BY <1>21 DEF RestartWeb, Abandoned, Finished, agent
<1>22. ASSUME NEW c \in Conns, LoopFails(c) PROVE ConnInv'
  BY <1>22, Empty, OneMessage DEF LoopFails, web
<1> QED
  BY <1>u, <1>1, <1>2, <1>3, <1>4, <1>5, <1>6, <1>7, <1>8, <1>9, <1>10, <1>11, <1>12, <1>13, <1>14, <1>15, <1>16, <1>17, <1>18, <1>19, <1>20, <1>21, <1>22
     DEF Next, Ensure, SendSteps, Serve

\* A command is received before its response is written, and alone on its connection.
LEMMA ChannelStep == IInv /\ [Next]_vars => ChannelInv'
<1> SUFFICES ASSUME IInv, [Next]_vars PROVE ChannelInv'
  OBVIOUS
<1> USE ConnectionAssumption DEF IInv, ChannelInv, TypeOK, ConnInv, CleanInv, LockInv, Callers
<1>u. CASE UNCHANGED vars
  BY <1>u DEF vars, web, agent
<1>1. CASE MonitorWakes
  BY <1>1 DEF MonitorWakes, FastCheck, Connected, Goto, web, agent
<1>2. ASSUME NEW p \in Callers, EnsureFindsConnected(p) PROVE ChannelInv'
  BY <1>2 DEF EnsureFindsConnected, Connected, Goto, web, agent
<1>3. ASSUME NEW p \in Callers, BeginConnect(p) PROVE ChannelInv'
  BY <1>3 DEF BeginConnect, Goto, web, agent
<1>4. ASSUME NEW p \in Callers, ConnectSucceeds(p) PROVE ChannelInv'
  BY <1>4, Empty, OneMessage DEF ConnectSucceeds, Connected, Goto, web, agent
<1>5. ASSUME NEW p \in Callers, ConnectFails(p) PROVE ChannelInv'
  BY <1>5 DEF ConnectFails, Rejected, Goto, web, agent
<1>6. ASSUME NEW r \in Requests, Send(r) PROVE ChannelInv'
  BY <1>6 DEF Send, FastCheck, Connected, Goto, web, agent
<1>7. ASSUME NEW r \in Requests, CancelWait(r) PROVE ChannelInv'
  BY <1>7 DEF CancelWait, Goto, web, agent
<1>8. ASSUME NEW r \in Requests, BeginSend(r) PROVE ChannelInv'
  BY <1>8 DEF BeginSend, Goto, web, agent
<1>9. ASSUME NEW r \in Requests, SendFindsNoConnection(r) PROVE ChannelInv'
  BY <1>9 DEF SendFindsNoConnection, Goto, web, agent
<1>10. ASSUME NEW r \in Requests, WriteCommand(r) PROVE ChannelInv'
  <2>1. pc[r] = "write" /\ Goto(r, "read") /\ Delivered(r)
    BY <1>10, Delivery DEF WriteCommand
  <2>2. UNCHANGED <<sem, isConnected, conn, link, got, agent, toWeb>>
    BY <1>10 DEF WriteCommand
  <2> QED
    BY <2>1, <2>2, OneMessage DEF Goto, Delivered, agent
<1>11. ASSUME NEW r \in Requests, WriteFails(r) PROVE ChannelInv'
  <2>1. pc[r] = "write" /\ ~isConnected' /\ isConnected' = FALSE /\ sem' = Free /\ Goto(r, "failed")
    BY <1>11 DEF WriteFails, GiveUp, Catch
  <2>2. UNCHANGED <<conn, link, got, agent, toWeb>>
    BY <1>11 DEF WriteFails, GiveUp, Catch
  <2>3. CASE Delivered(r)
    BY <2>1, <2>2, <2>3, OneMessage DEF Goto, Delivered, agent
  <2>4. CASE UNCHANGED toAgent
    BY <2>1, <2>2, <2>4 DEF Goto, agent
  <2> QED
    BY <1>11, <2>1, <2>3, <2>4, Delivery DEF WriteFails
<1>12. ASSUME NEW r \in Requests, ReadResponse(r) PROVE ChannelInv'
  <2>1. ReadOwn(r)
    BY <1>12, OwnReading
  <2> QED
    BY <2>1, OneMessage, Empty DEF ReadOwn, Goto, agent
<1>13. ASSUME NEW r \in Requests, ReadFails(r) PROVE ChannelInv'
  BY <1>13 DEF ReadFails, Reading, GiveUp, Catch, Goto, web, agent
<1>14. ASSUME NEW c \in Conns, ReceiveCommand(c) PROVE ChannelInv'
  <2>1. PICK r \in Requests : Received(c, r)
    BY <1>14, Reception
  <2> QED
    BY <2>1, OneMessage, Empty DEF Received, web
<1>15. ASSUME NEW c \in Conns, Execute(c) PROVE ChannelInv'
  BY <1>15, Empty, OneMessage DEF Execute, Goto, web, agent
<1>16. ASSUME NEW c \in Conns, Respond(c) PROVE ChannelInv'
  <2>1. PICK r \in Requests : Responded(c, r)
    BY <1>16, Response
  <2> QED
    BY <2>1, OneMessage DEF Responded, web
<1>17. ASSUME NEW c \in Conns, RespondInVain(c) PROVE ChannelInv'
  BY <1>17 DEF RespondInVain, web
<1>18. ASSUME NEW c \in Conns, EndOfCommands(c) PROVE ChannelInv'
  BY <1>18 DEF EndOfCommands, Goto, web, agent
<1>19. CASE AgentStops
  BY <1>19, Empty, OneMessage DEF AgentStops, Goto, web, agent
<1>20. CASE AgentBoots
  BY <1>20 DEF AgentBoots, Goto, web, agent
<1>21. CASE RestartWeb
  BY <1>21 DEF RestartWeb, Abandoned, Finished, agent
<1>22. ASSUME NEW c \in Conns, LoopFails(c) PROVE ChannelInv'
  BY <1>22, Empty, OneMessage DEF LoopFails, web
<1> QED
  BY <1>u, <1>1, <1>2, <1>3, <1>4, <1>5, <1>6, <1>7, <1>8, <1>9, <1>10, <1>11, <1>12, <1>13, <1>14, <1>15, <1>16, <1>17, <1>18, <1>19, <1>20, <1>21, <1>22
     DEF Next, Ensure, SendSteps, Serve

\* A failed request lowers the flag, so what it leaves on the connection is nobody's.
LEMMA CleanStep == IInv /\ [Next]_vars => CleanInv'
<1> SUFFICES ASSUME IInv, [Next]_vars PROVE CleanInv'
  OBVIOUS
<1> USE ConnectionAssumption DEF IInv, CleanInv, ChannelInv, TypeOK, ConnInv, LockInv, Callers
<1>u. CASE UNCHANGED vars
  BY <1>u DEF vars, web, agent
<1>1. CASE MonitorWakes
  BY <1>1 DEF MonitorWakes, FastCheck, Connected, Goto, web, agent
<1>2. ASSUME NEW p \in Callers, EnsureFindsConnected(p) PROVE CleanInv'
  BY <1>2 DEF EnsureFindsConnected, Connected, Goto, web, agent
<1>3. ASSUME NEW p \in Callers, BeginConnect(p) PROVE CleanInv'
  BY <1>3 DEF BeginConnect, Goto, web, agent
<1>4. ASSUME NEW p \in Callers, ConnectSucceeds(p) PROVE CleanInv'
  <2>1. PICK c \in Conns :
           /\ link[c] = "closed" /\ peer[c] = "closed" /\ conn' = c
           /\ toAgent' = [toAgent EXCEPT ![c] = <<>>] /\ toWeb' = [toWeb EXCEPT ![c] = <<>>]
    BY <1>4 DEF ConnectSucceeds
  <2>2. serving' = serving /\ serving[c] = Free
    BY <1>4, <2>1 DEF ConnectSucceeds
  <2>3. toAgent'[c] = <<>> /\ toWeb'[c] = <<>>
    BY <2>1
  <2>4. \A r \in Requests : pc'[r] # "read"
    BY <1>4 DEF ConnectSucceeds, Connected, Goto
  <2> QED
    BY <2>1, <2>2, <2>3, <2>4
<1>5. ASSUME NEW p \in Callers, ConnectFails(p) PROVE CleanInv'
  BY <1>5 DEF ConnectFails, Rejected, Goto, web, agent
<1>6. ASSUME NEW r \in Requests, Send(r) PROVE CleanInv'
  BY <1>6 DEF Send, FastCheck, Connected, Goto, web, agent
<1>7. ASSUME NEW r \in Requests, CancelWait(r) PROVE CleanInv'
  BY <1>7 DEF CancelWait, Goto, web, agent
<1>8. ASSUME NEW r \in Requests, BeginSend(r) PROVE CleanInv'
  BY <1>8 DEF BeginSend, Goto, web, agent
<1>9. ASSUME NEW r \in Requests, SendFindsNoConnection(r) PROVE CleanInv'
  BY <1>9 DEF SendFindsNoConnection, Goto, web, agent
<1>10. ASSUME NEW r \in Requests, WriteCommand(r) PROVE CleanInv'
  <2>1. pc[r] = "write" /\ Goto(r, "read") /\ Delivered(r)
    BY <1>10, Delivery DEF WriteCommand
  <2>2. UNCHANGED <<sem, isConnected, conn, link, got, agent, toWeb>>
    BY <1>10 DEF WriteCommand
  <2> QED
    BY <2>1, <2>2, OneMessage DEF Goto, Delivered, agent
<1>11. ASSUME NEW r \in Requests, WriteFails(r) PROVE CleanInv'
  <2>1. pc[r] = "write" /\ ~isConnected' /\ isConnected' = FALSE /\ sem' = Free /\ Goto(r, "failed")
    BY <1>11 DEF WriteFails, GiveUp, Catch
  <2>2. UNCHANGED <<conn, link, got, agent, toWeb>>
    BY <1>11 DEF WriteFails, GiveUp, Catch
  <2>3. CASE Delivered(r)
    BY <2>1, <2>2, <2>3, OneMessage DEF Goto, Delivered, agent
  <2>4. CASE UNCHANGED toAgent
    BY <2>1, <2>2, <2>4 DEF Goto, agent
  <2> QED
    BY <1>11, <2>1, <2>3, <2>4, Delivery DEF WriteFails
<1>12. ASSUME NEW r \in Requests, ReadResponse(r) PROVE CleanInv'
  <2>1. ReadOwn(r)
    BY <1>12, OwnReading
  <2>2. \A q \in Requests : pc'[q] # "read"
    BY <2>1 DEF ReadOwn, Goto
  <2>3. toAgent'[conn'] = <<>> /\ toWeb'[conn'] = <<>> /\ serving'[conn'] = Free
    BY <2>1 DEF ReadOwn, agent
  <2> HIDE DEF IInv
  <2> QED
    BY <2>2, <2>3 DEF CleanInv
<1>13. ASSUME NEW r \in Requests, ReadFails(r) PROVE CleanInv'
  BY <1>13 DEF ReadFails, Reading, GiveUp, Catch, Goto, web, agent
<1>14. ASSUME NEW c \in Conns, ReceiveCommand(c) PROVE CleanInv'
  <2>1. PICK r \in Requests : Received(c, r)
    BY <1>14, Reception
  <2>2. UNCHANGED <<isConnected, conn, pc, toWeb>>
    BY <2>1 DEF Received, web
  <2>3. CASE c = conn
    <3>1. toAgent'[conn] = <<>> /\ serving'[conn] = r
      BY <2>1, <2>3 DEF Received
    <3>2. \A q \in Requests : toAgent[conn] = <<q>> => q = r
      BY <2>1, <2>3, OneMessage DEF Received
    <3>0. <<r>> # <<>>
      BY OneMessage
    <3>3. toAgent[conn] # <<>> /\ toWeb[conn] = <<>>
      BY <2>1, <2>3, <3>0 DEF Received
    <3>4. ~(isConnected /\ \A q \in Requests : pc[q] # "read")
      BY <3>3
    <3>5. \A q \in Requests : pc[q] = "read" => q = r
      BY <3>2, <3>3
    <3> HIDE DEF IInv, ChannelInv, TypeOK
    <3> QED
      BY <2>2, <3>1, <3>3, <3>4, <3>5
  <2>4. CASE c # conn
    <3>1. conn \in Conns => toAgent'[conn] = toAgent[conn] /\ serving'[conn] = serving[conn]
      BY <2>1, <2>4 DEF Received
    <3> QED
      BY <2>2, <3>1
  <2> QED
    BY <2>3, <2>4
<1>15. ASSUME NEW c \in Conns, Execute(c) PROVE CleanInv'
  BY <1>15, Empty, OneMessage DEF Execute, Goto, web, agent
<1>16. ASSUME NEW c \in Conns, Respond(c) PROVE CleanInv'
  <2>1. PICK r \in Requests : Responded(c, r)
    BY <1>16, Response
  <2>2. CASE c = conn
    BY <2>1, <2>2, OneMessage DEF Responded, web
  <2>3. CASE c # conn
    BY <2>1, <2>3 DEF Responded, web
  <2> QED
    BY <2>2, <2>3
<1>17. ASSUME NEW c \in Conns, RespondInVain(c) PROVE CleanInv'
  BY <1>17 DEF RespondInVain, web
<1>18. ASSUME NEW c \in Conns, EndOfCommands(c) PROVE CleanInv'
  BY <1>18 DEF EndOfCommands, Goto, web, agent
<1>19. CASE AgentStops
  BY <1>19, Empty, OneMessage DEF AgentStops, Goto, web, agent
<1>20. CASE AgentBoots
  BY <1>20 DEF AgentBoots, Goto, web, agent
<1>21. CASE RestartWeb
  BY <1>21 DEF RestartWeb, Abandoned, Finished, agent
<1>22. ASSUME NEW c \in Conns, LoopFails(c) PROVE CleanInv'
  BY <1>22, Empty, OneMessage DEF LoopFails, web
<1> QED
  BY <1>u, <1>1, <1>2, <1>3, <1>4, <1>5, <1>6, <1>7, <1>8, <1>9, <1>10, <1>11, <1>12, <1>13, <1>14, <1>15, <1>16, <1>17, <1>18, <1>19, <1>20, <1>21, <1>22
     DEF Next, Ensure, SendSteps, Serve

\* A command travels on the connection it was written to.
LEMMA AloneStep == IInv /\ [Next]_vars => AloneInv'
<1> SUFFICES ASSUME IInv, [Next]_vars PROVE AloneInv'
  OBVIOUS
<1> USE ConnectionAssumption DEF IInv, AloneInv, BeforeInv, Carries, ChannelInv, TypeOK, Callers
<1>u. CASE UNCHANGED vars
  BY <1>u DEF vars, web, agent
<1>1. CASE MonitorWakes
  BY <1>1 DEF MonitorWakes, FastCheck, Connected, Goto, web, agent
<1>2. ASSUME NEW p \in Callers, EnsureFindsConnected(p) PROVE AloneInv'
  BY <1>2 DEF EnsureFindsConnected, Connected, Goto, web, agent
<1>3. ASSUME NEW p \in Callers, BeginConnect(p) PROVE AloneInv'
  BY <1>3 DEF BeginConnect, Goto, web, agent
<1>4. ASSUME NEW p \in Callers, ConnectSucceeds(p) PROVE AloneInv'
  BY <1>4, Empty, OneMessage DEF ConnectSucceeds, Connected, Goto, web, agent
<1>5. ASSUME NEW p \in Callers, ConnectFails(p) PROVE AloneInv'
  BY <1>5 DEF ConnectFails, Rejected, Goto, web, agent
<1>6. ASSUME NEW r \in Requests, Send(r) PROVE AloneInv'
  BY <1>6 DEF Send, FastCheck, Connected, Goto, web, agent
<1>7. ASSUME NEW r \in Requests, CancelWait(r) PROVE AloneInv'
  BY <1>7 DEF CancelWait, Goto, web, agent
<1>8. ASSUME NEW r \in Requests, BeginSend(r) PROVE AloneInv'
  BY <1>8 DEF BeginSend, Goto, web, agent
<1>9. ASSUME NEW r \in Requests, SendFindsNoConnection(r) PROVE AloneInv'
  BY <1>9 DEF SendFindsNoConnection, Goto, web, agent
<1>10. ASSUME NEW r \in Requests, WriteCommand(r) PROVE AloneInv'
  <2>1. pc[r] = "write" /\ Goto(r, "read") /\ Delivered(r)
    BY <1>10, Delivery DEF WriteCommand
  <2>2. UNCHANGED <<sem, isConnected, conn, link, got, agent, toWeb>>
    BY <1>10 DEF WriteCommand
  <2> QED
    BY <2>1, <2>2, OneMessage DEF Goto, Delivered, agent
<1>11. ASSUME NEW r \in Requests, WriteFails(r) PROVE AloneInv'
  <2>1. pc[r] = "write" /\ ~isConnected' /\ isConnected' = FALSE /\ sem' = Free /\ Goto(r, "failed")
    BY <1>11 DEF WriteFails, GiveUp, Catch
  <2>2. UNCHANGED <<conn, link, got, agent, toWeb>>
    BY <1>11 DEF WriteFails, GiveUp, Catch
  <2>3. CASE Delivered(r)
    BY <2>1, <2>2, <2>3, OneMessage DEF Goto, Delivered, agent
  <2>4. CASE UNCHANGED toAgent
    BY <2>1, <2>2, <2>4 DEF Goto, agent
  <2> QED
    BY <1>11, <2>1, <2>3, <2>4, Delivery DEF WriteFails
<1>12. ASSUME NEW r \in Requests, ReadResponse(r) PROVE AloneInv'
  <2>1. ReadOwn(r)
    BY <1>12, OwnReading
  <2> QED
    BY <2>1, OneMessage, Empty DEF ReadOwn, Goto, agent
<1>13. ASSUME NEW r \in Requests, ReadFails(r) PROVE AloneInv'
  BY <1>13 DEF ReadFails, Reading, GiveUp, Catch, Goto, web, agent
<1>14. ASSUME NEW c \in Conns, ReceiveCommand(c) PROVE AloneInv'
  <2>1. PICK r \in Requests : Received(c, r)
    BY <1>14, Reception
  <2> QED
    BY <2>1, OneMessage, Empty DEF Received, web
<1>15. ASSUME NEW c \in Conns, Execute(c) PROVE AloneInv'
  BY <1>15, Empty, OneMessage DEF Execute, Goto, web, agent
<1>16. ASSUME NEW c \in Conns, Respond(c) PROVE AloneInv'
  <2>1. PICK r \in Requests : Responded(c, r)
    BY <1>16, Response
  <2> QED
    BY <2>1, OneMessage DEF Responded, web
<1>17. ASSUME NEW c \in Conns, RespondInVain(c) PROVE AloneInv'
  BY <1>17 DEF RespondInVain, web
<1>18. ASSUME NEW c \in Conns, EndOfCommands(c) PROVE AloneInv'
  BY <1>18 DEF EndOfCommands, Goto, web, agent
<1>19. CASE AgentStops
  BY <1>19, Empty, OneMessage DEF AgentStops, Goto, web, agent
<1>20. CASE AgentBoots
  BY <1>20 DEF AgentBoots, Goto, web, agent
<1>21. CASE RestartWeb
  BY <1>21 DEF RestartWeb, Abandoned, Finished, agent
<1>22. ASSUME NEW c \in Conns, LoopFails(c) PROVE AloneInv'
  BY <1>22, Empty, OneMessage DEF LoopFails, web
<1> QED
  BY <1>u, <1>1, <1>2, <1>3, <1>4, <1>5, <1>6, <1>7, <1>8, <1>9, <1>10, <1>11, <1>12, <1>13, <1>14, <1>15, <1>16, <1>17, <1>18, <1>19, <1>20, <1>21, <1>22
     DEF Next, Ensure, SendSteps, Serve

\* A delivery changes nothing for the commands that are still with their callers.
LEMMA Unspent ==
    ASSUME TypeOK, BeforeInv, NEW r \in Requests, Delivered(r),
           NEW s \in {"read", "failed"}, Goto(r, s), UNCHANGED <<serving, executed>>
    PROVE  BeforeInv'
<1> DEFINE Before == {"new", "ensure", "connect", "send", "write"}
<1> SUFFICES ASSUME NEW q \in Requests, pc'[q] \in Before
             PROVE  executed'[q] = 0 /\ \A c \in Conns : ~(toAgent'[c] = <<q>> \/ serving'[c] = q)
  BY DEF BeforeInv, Carries
<1>1. q # r /\ pc[q] \in Before
  BY DEF Goto, TypeOK, Callers
<1>2. executed[q] = 0 /\ \A c \in Conns : ~(toAgent[c] = <<q>> \/ serving[c] = q)
  BY <1>1 DEF BeforeInv, Carries
<1>3. \A c \in Conns : toAgent'[c] = <<q>> => toAgent[c] = <<q>>
  BY <1>1 DEF Delivered
<1> QED
  BY <1>2, <1>3

\* Nothing of a command is on the way before its caller writes it, which is once.
LEMMA BeforeStep == IInv /\ [Next]_vars => BeforeInv'
<1> SUFFICES ASSUME IInv, [Next]_vars PROVE BeforeInv'
  OBVIOUS
<1> USE ConnectionAssumption DEF IInv, BeforeInv, Carries, TypeOK, Callers, ChannelInv
<1>u. CASE UNCHANGED vars
  BY <1>u DEF vars, web, agent
<1>1. CASE MonitorWakes
  BY <1>1 DEF MonitorWakes, FastCheck, Connected, Goto, web, agent
<1>2. ASSUME NEW p \in Callers, EnsureFindsConnected(p) PROVE BeforeInv'
  BY <1>2 DEF EnsureFindsConnected, Connected, Goto, web, agent
<1>3. ASSUME NEW p \in Callers, BeginConnect(p) PROVE BeforeInv'
  BY <1>3 DEF BeginConnect, Goto, web, agent
<1>4. ASSUME NEW p \in Callers, ConnectSucceeds(p) PROVE BeforeInv'
  BY <1>4, Empty, OneMessage DEF ConnectSucceeds, Connected, Goto, web, agent
<1>5. ASSUME NEW p \in Callers, ConnectFails(p) PROVE BeforeInv'
  BY <1>5 DEF ConnectFails, Rejected, Goto, web, agent
<1>6. ASSUME NEW r \in Requests, Send(r) PROVE BeforeInv'
  BY <1>6 DEF Send, FastCheck, Connected, Goto, web, agent
<1>7. ASSUME NEW r \in Requests, CancelWait(r) PROVE BeforeInv'
  BY <1>7 DEF CancelWait, Goto, web, agent
<1>8. ASSUME NEW r \in Requests, BeginSend(r) PROVE BeforeInv'
  BY <1>8 DEF BeginSend, Goto, web, agent
<1>9. ASSUME NEW r \in Requests, SendFindsNoConnection(r) PROVE BeforeInv'
  BY <1>9 DEF SendFindsNoConnection, Goto, web, agent
<1>10. ASSUME NEW r \in Requests, WriteCommand(r) PROVE BeforeInv'
  <2>1. pc[r] = "write" /\ Goto(r, "read") /\ Delivered(r)
    BY <1>10, Delivery DEF WriteCommand
  <2>2. UNCHANGED <<sem, isConnected, conn, link, got, agent, toWeb>>
    BY <1>10 DEF WriteCommand
  <2> QED
    BY <2>1, <2>2, Unspent DEF agent
<1>11. ASSUME NEW r \in Requests, WriteFails(r) PROVE BeforeInv'
  <2>1. pc[r] = "write" /\ ~isConnected' /\ isConnected' = FALSE /\ sem' = Free /\ Goto(r, "failed")
    BY <1>11 DEF WriteFails, GiveUp, Catch
  <2>2. UNCHANGED <<conn, link, got, agent, toWeb>>
    BY <1>11 DEF WriteFails, GiveUp, Catch
  <2>3. CASE Delivered(r)
    BY <2>1, <2>2, <2>3, Unspent DEF agent
  <2>4. CASE UNCHANGED toAgent
    BY <2>1, <2>2, <2>4 DEF Goto, agent
  <2> QED
    BY <1>11, <2>1, <2>3, <2>4, Delivery DEF WriteFails
<1>12. ASSUME NEW r \in Requests, ReadResponse(r) PROVE BeforeInv'
  <2>1. ReadOwn(r)
    BY <1>12, OwnReading
  <2> QED
    BY <2>1, OneMessage, Empty DEF ReadOwn, Goto, agent
<1>13. ASSUME NEW r \in Requests, ReadFails(r) PROVE BeforeInv'
  BY <1>13 DEF ReadFails, Reading, GiveUp, Catch, Goto, web, agent
<1>14. ASSUME NEW c \in Conns, ReceiveCommand(c) PROVE BeforeInv'
  <2>1. PICK r \in Requests : Received(c, r)
    BY <1>14, Reception
  <2> QED
    BY <2>1, OneMessage, Empty DEF Received, web
<1>15. ASSUME NEW c \in Conns, Execute(c) PROVE BeforeInv'
  BY <1>15, Empty, OneMessage DEF Execute, Goto, web, agent
<1>16. ASSUME NEW c \in Conns, Respond(c) PROVE BeforeInv'
  <2>1. PICK r \in Requests : Responded(c, r)
    BY <1>16, Response
  <2> QED
    BY <2>1, OneMessage DEF Responded, web
<1>17. ASSUME NEW c \in Conns, RespondInVain(c) PROVE BeforeInv'
  BY <1>17 DEF RespondInVain, web
<1>18. ASSUME NEW c \in Conns, EndOfCommands(c) PROVE BeforeInv'
  BY <1>18 DEF EndOfCommands, Goto, web, agent
<1>19. CASE AgentStops
  BY <1>19, Empty, OneMessage DEF AgentStops, Goto, web, agent
<1>20. CASE AgentBoots
  BY <1>20 DEF AgentBoots, Goto, web, agent
<1>21. CASE RestartWeb
  BY <1>21 DEF RestartWeb, Abandoned, Finished, agent
<1>22. ASSUME NEW c \in Conns, LoopFails(c) PROVE BeforeInv'
  BY <1>22, Empty, OneMessage DEF LoopFails, web
<1> QED
  BY <1>u, <1>1, <1>2, <1>3, <1>4, <1>5, <1>6, <1>7, <1>8, <1>9, <1>10, <1>11, <1>12, <1>13, <1>14, <1>15, <1>16, <1>17, <1>18, <1>19, <1>20, <1>21, <1>22
     DEF Next, Ensure, SendSteps, Serve

\* Only Execute counts, and it leaves nothing to execute again.
LEMMA StageStep == IInv /\ [Next]_vars => StageInv'
<1> SUFFICES ASSUME IInv, [Next]_vars PROVE StageInv'
  OBVIOUS
<1> USE ConnectionAssumption DEF IInv, StageInv, BeforeInv, AloneInv, ChannelInv, Carries, TypeOK, Callers
<1>u. CASE UNCHANGED vars
  BY <1>u DEF vars, web, agent
<1>1. CASE MonitorWakes
  BY <1>1 DEF MonitorWakes, FastCheck, Connected, Goto, web, agent
<1>2. ASSUME NEW p \in Callers, EnsureFindsConnected(p) PROVE StageInv'
  BY <1>2 DEF EnsureFindsConnected, Connected, Goto, web, agent
<1>3. ASSUME NEW p \in Callers, BeginConnect(p) PROVE StageInv'
  BY <1>3 DEF BeginConnect, Goto, web, agent
<1>4. ASSUME NEW p \in Callers, ConnectSucceeds(p) PROVE StageInv'
  BY <1>4, Empty, OneMessage DEF ConnectSucceeds, Connected, Goto, web, agent
<1>5. ASSUME NEW p \in Callers, ConnectFails(p) PROVE StageInv'
  BY <1>5 DEF ConnectFails, Rejected, Goto, web, agent
<1>6. ASSUME NEW r \in Requests, Send(r) PROVE StageInv'
  BY <1>6 DEF Send, FastCheck, Connected, Goto, web, agent
<1>7. ASSUME NEW r \in Requests, CancelWait(r) PROVE StageInv'
  BY <1>7 DEF CancelWait, Goto, web, agent
<1>8. ASSUME NEW r \in Requests, BeginSend(r) PROVE StageInv'
  BY <1>8 DEF BeginSend, Goto, web, agent
<1>9. ASSUME NEW r \in Requests, SendFindsNoConnection(r) PROVE StageInv'
  BY <1>9 DEF SendFindsNoConnection, Goto, web, agent
<1>10. ASSUME NEW r \in Requests, WriteCommand(r) PROVE StageInv'
  <2>1. pc[r] = "write" /\ Goto(r, "read") /\ Delivered(r)
    BY <1>10, Delivery DEF WriteCommand
  <2>2. UNCHANGED <<sem, isConnected, conn, link, got, agent, toWeb>>
    BY <1>10 DEF WriteCommand
  <2>3. executed' = executed /\ serving' = serving /\ peer' = peer /\ toWeb' = toWeb
    BY <2>2 DEF agent
  <2>4. \A c \in Conns, q \in Requests : toAgent'[c] = <<q>> => executed[q] = 0
    <3> HIDE DEF ChannelInv, AloneInv, TypeOK, Callers
    <3> QED
      BY <2>1 DEF Delivered
  <2> QED
    BY <2>3, <2>4
<1>11. ASSUME NEW r \in Requests, WriteFails(r) PROVE StageInv'
  <2>1. pc[r] = "write" /\ ~isConnected' /\ isConnected' = FALSE /\ sem' = Free /\ Goto(r, "failed")
    BY <1>11 DEF WriteFails, GiveUp, Catch
  <2>2. UNCHANGED <<conn, link, got, agent, toWeb>>
    BY <1>11 DEF WriteFails, GiveUp, Catch
  <2>3. CASE Delivered(r)
    <3>1. executed' = executed /\ serving' = serving /\ peer' = peer /\ toWeb' = toWeb
      BY <2>2 DEF agent
    <3>2. \A c \in Conns, q \in Requests : toAgent'[c] = <<q>> => executed[q] = 0
      <4> HIDE DEF ChannelInv, AloneInv, TypeOK, Callers
      <4> QED
        BY <2>1, <2>3 DEF Delivered
    <3> QED
      BY <3>1, <3>2
  <2>4. CASE UNCHANGED toAgent
    BY <2>1, <2>2, <2>4 DEF Goto, agent
  <2> QED
    BY <1>11, <2>1, <2>3, <2>4, Delivery DEF WriteFails
<1>12. ASSUME NEW r \in Requests, ReadResponse(r) PROVE StageInv'
  <2>1. ReadOwn(r)
    BY <1>12, OwnReading
  <2> QED
    BY <2>1, OneMessage, Empty DEF ReadOwn, Goto, agent
<1>13. ASSUME NEW r \in Requests, ReadFails(r) PROVE StageInv'
  BY <1>13 DEF ReadFails, Reading, GiveUp, Catch, Goto, web, agent
<1>14. ASSUME NEW c \in Conns, ReceiveCommand(c) PROVE StageInv'
  <2>1. PICK r \in Requests : Received(c, r)
    BY <1>14, Reception
  <2>2. \A d \in Conns, q \in Requests : toAgent'[d] = <<q>> => toAgent[d] = <<q>>
    BY <2>1, OneMessage DEF Received
  <2>3. \A d \in Conns : /\ serving'[d] = IF d = c THEN r ELSE serving[d]
                         /\ peer'[d] = IF d = c THEN "executing" ELSE peer[d]
    BY <2>1 DEF Received
  <2>4. executed' = executed /\ toWeb' = toWeb
    BY <2>1 DEF Received
  <2>5. executed[r] = 0
    BY <2>1 DEF Received
  <2>6. ASSUME NEW d \in Conns, NEW q \in Requests, serving'[d] = q
        PROVE  executed[q] = IF peer'[d] = "executing" THEN 0 ELSE 1
    <3> HIDE DEF ChannelInv, AloneInv, BeforeInv, TypeOK
    <3>1. CASE d = c
      BY <2>3, <2>5, <2>6, <3>1
    <3>2. CASE d # c
      BY <2>3, <2>6, <3>2
    <3> QED
      BY <3>1, <3>2
  <2> HIDE DEF ChannelInv, AloneInv, BeforeInv, TypeOK
  <2> QED
    BY <2>2, <2>4, <2>6
<1>15. ASSUME NEW c \in Conns, Execute(c) PROVE StageInv'
  BY <1>15, Empty, OneMessage DEF Execute, Goto, web, agent
<1>16. ASSUME NEW c \in Conns, Respond(c) PROVE StageInv'
  <2>1. PICK r \in Requests : Responded(c, r)
    BY <1>16, Response
  <2> QED
    BY <2>1, OneMessage DEF Responded, web
<1>17. ASSUME NEW c \in Conns, RespondInVain(c) PROVE StageInv'
  BY <1>17 DEF RespondInVain, web
<1>18. ASSUME NEW c \in Conns, EndOfCommands(c) PROVE StageInv'
  BY <1>18 DEF EndOfCommands, Goto, web, agent
<1>19. CASE AgentStops
  BY <1>19, Empty, OneMessage DEF AgentStops, Goto, web, agent
<1>20. CASE AgentBoots
  BY <1>20 DEF AgentBoots, Goto, web, agent
<1>21. CASE RestartWeb
  BY <1>21 DEF RestartWeb, Abandoned, Finished, agent
<1>22. ASSUME NEW c \in Conns, LoopFails(c) PROVE StageInv'
  BY <1>22, Empty, OneMessage DEF LoopFails, web
<1> QED
  BY <1>u, <1>1, <1>2, <1>3, <1>4, <1>5, <1>6, <1>7, <1>8, <1>9, <1>10, <1>11, <1>12, <1>13, <1>14, <1>15, <1>16, <1>17, <1>18, <1>19, <1>20, <1>21, <1>22
     DEF Next, Ensure, SendSteps, Serve

\* The request that reads takes its own response, after the execution.
LEMMA GotStep == IInv /\ [Next]_vars => GotInv'
<1> SUFFICES ASSUME IInv, [Next]_vars PROVE GotInv'
  OBVIOUS
<1> USE ConnectionAssumption DEF IInv, GotInv, StageInv, CleanInv, TypeOK, ConnInv, Callers
<1>u. CASE UNCHANGED vars
  BY <1>u DEF vars, web, agent
<1>1. CASE MonitorWakes
  BY <1>1 DEF MonitorWakes, FastCheck, Connected, Goto, web, agent
<1>2. ASSUME NEW p \in Callers, EnsureFindsConnected(p) PROVE GotInv'
  BY <1>2 DEF EnsureFindsConnected, Connected, Goto, web, agent
<1>3. ASSUME NEW p \in Callers, BeginConnect(p) PROVE GotInv'
  BY <1>3 DEF BeginConnect, Goto, web, agent
<1>4. ASSUME NEW p \in Callers, ConnectSucceeds(p) PROVE GotInv'
  BY <1>4, Empty, OneMessage DEF ConnectSucceeds, Connected, Goto, web, agent
<1>5. ASSUME NEW p \in Callers, ConnectFails(p) PROVE GotInv'
  BY <1>5 DEF ConnectFails, Rejected, Goto, web, agent
<1>6. ASSUME NEW r \in Requests, Send(r) PROVE GotInv'
  BY <1>6 DEF Send, FastCheck, Connected, Goto, web, agent
<1>7. ASSUME NEW r \in Requests, CancelWait(r) PROVE GotInv'
  BY <1>7 DEF CancelWait, Goto, web, agent
<1>8. ASSUME NEW r \in Requests, BeginSend(r) PROVE GotInv'
  BY <1>8 DEF BeginSend, Goto, web, agent
<1>9. ASSUME NEW r \in Requests, SendFindsNoConnection(r) PROVE GotInv'
  BY <1>9 DEF SendFindsNoConnection, Goto, web, agent
<1>10. ASSUME NEW r \in Requests, WriteCommand(r) PROVE GotInv'
  <2>1. pc[r] = "write" /\ Goto(r, "read") /\ Delivered(r)
    BY <1>10, Delivery DEF WriteCommand
  <2>2. UNCHANGED <<sem, isConnected, conn, link, got, agent, toWeb>>
    BY <1>10 DEF WriteCommand
  <2> QED
    BY <2>1, <2>2, OneMessage DEF Goto, Delivered, agent
<1>11. ASSUME NEW r \in Requests, WriteFails(r) PROVE GotInv'
  <2>1. pc[r] = "write" /\ ~isConnected' /\ isConnected' = FALSE /\ sem' = Free /\ Goto(r, "failed")
    BY <1>11 DEF WriteFails, GiveUp, Catch
  <2>2. UNCHANGED <<conn, link, got, agent, toWeb>>
    BY <1>11 DEF WriteFails, GiveUp, Catch
  <2>3. CASE Delivered(r)
    BY <2>1, <2>2, <2>3, OneMessage DEF Goto, Delivered, agent
  <2>4. CASE UNCHANGED toAgent
    BY <2>1, <2>2, <2>4 DEF Goto, agent
  <2> QED
    BY <1>11, <2>1, <2>3, <2>4, Delivery DEF WriteFails
<1>12. ASSUME NEW r \in Requests, ReadResponse(r) PROVE GotInv'
  <2>1. ReadOwn(r)
    BY <1>12, OwnReading
  <2> QED
    BY <2>1, OneMessage, Empty DEF ReadOwn, Goto, agent
<1>13. ASSUME NEW r \in Requests, ReadFails(r) PROVE GotInv'
  BY <1>13 DEF ReadFails, Reading, GiveUp, Catch, Goto, web, agent
<1>14. ASSUME NEW c \in Conns, ReceiveCommand(c) PROVE GotInv'
  <2>1. PICK r \in Requests : Received(c, r)
    BY <1>14, Reception
  <2> QED
    BY <2>1, OneMessage, Empty DEF Received, web
<1>15. ASSUME NEW c \in Conns, Execute(c) PROVE GotInv'
  BY <1>15, Empty, OneMessage DEF Execute, Goto, web, agent
<1>16. ASSUME NEW c \in Conns, Respond(c) PROVE GotInv'
  <2>1. PICK r \in Requests : Responded(c, r)
    BY <1>16, Response
  <2> QED
    BY <2>1, OneMessage DEF Responded, web
<1>17. ASSUME NEW c \in Conns, RespondInVain(c) PROVE GotInv'
  BY <1>17 DEF RespondInVain, web
<1>18. ASSUME NEW c \in Conns, EndOfCommands(c) PROVE GotInv'
  BY <1>18 DEF EndOfCommands, Goto, web, agent
<1>19. CASE AgentStops
  BY <1>19, Empty, OneMessage DEF AgentStops, Goto, web, agent
<1>20. CASE AgentBoots
  BY <1>20 DEF AgentBoots, Goto, web, agent
<1>21. CASE RestartWeb
  BY <1>21 DEF RestartWeb, Abandoned, Finished, agent
<1>22. ASSUME NEW c \in Conns, LoopFails(c) PROVE GotInv'
  BY <1>22, Empty, OneMessage DEF LoopFails, web
<1> QED
  BY <1>u, <1>1, <1>2, <1>3, <1>4, <1>5, <1>6, <1>7, <1>8, <1>9, <1>10, <1>11, <1>12, <1>13, <1>14, <1>15, <1>16, <1>17, <1>18, <1>19, <1>20, <1>21, <1>22
     DEF Next, Ensure, SendSteps, Serve

-----------------------------------------------------------------------------
\* The inductive invariant, for any requests, connections and agent.
THEOREM Inductive == Spec => []IInv
<1>1. IInv /\ [Next]_vars => IInv'
  BY TypeStep, LockStep, ConnStep, ChannelStep, CleanStep, AloneStep, BeforeStep,
     StageStep, GotStep DEF IInv
<1> QED
  BY <1>1, InitInv, PTL DEF Spec

\* Every variable of the connection keeps to its type.
THEOREM TypeCorrect == Spec => []TypeOK
<1>1. IInv => TypeOK
  BY DEF IInv
<1> QED
  BY <1>1, Inductive, PTL

\* Nobody who is done, waits or gave up keeps the semaphore, and nobody is past its entry
\* without it: what the queue behind it can rely on.
THEOREM SemaphoreReturned == Spec => []LockInv
<1>1. IInv => LockInv
  BY DEF IInv
<1> QED
  BY <1>1, Inductive, PTL

\* SendCommandAsync returns the response to its own command, or throws.
THEOREM ResponsesMatch == Spec => []OwnResponse
<1>1. IInv => OwnResponse
  BY DEF IInv, GotInv, OwnResponse
<1> QED
  BY <1>1, Inductive, PTL

\* No timeout, reconnect or restart at either end makes the agent execute a command twice, and
\* an answer means it was executed.
THEOREM ExecutedOnce == Spec => []AtMostOnce
<1>1. IInv => AtMostOnce
  <2> SUFFICES ASSUME IInv, NEW r \in Requests
               PROVE  executed[r] <= 1 /\ (got[r] # Free => executed[got[r]] = 1)
    BY DEF AtMostOnce
  <2>1. executed[r] <= 1
    BY DEF IInv, StageInv
  <2>2. got[r] # Free => executed[got[r]] = 1
    BY DEF IInv, GotInv
  <2> QED
    BY <2>1, <2>2
<1> QED
  BY <1>1, Inductive, PTL
-----------------------------------------------------------------------------
(***************************************************************************)
(* AgentConnection implements RemoteCalls.                                 *)
(***************************************************************************)
\* The monitor connects and sends nothing.
MonitorInv == pc[Monitor] \in {"pause", "ensure", "connect"}

LEMMA MonitorStep == IInv /\ MonitorInv /\ [Next]_vars => MonitorInv'
<1> SUFFICES ASSUME IInv, MonitorInv, [Next]_vars PROVE MonitorInv'
  OBVIOUS
<1> USE ConnectionAssumption DEF IInv, MonitorInv, TypeOK, Callers
<1>1. CASE MonitorWakes
  BY <1>1 DEF MonitorWakes, FastCheck, Connected, Goto
<1>2. ASSUME NEW p \in Callers, Ensure(p) PROVE MonitorInv'
  BY <1>2 DEF Ensure, EnsureFindsConnected, BeginConnect, ConnectSucceeds, ConnectFails,
              Connected, Rejected, Goto
<1>3. ASSUME NEW r \in Requests, Send(r) \/ SendSteps(r) \/ CancelWait(r) PROVE MonitorInv'
  BY <1>3 DEF Send, FastCheck, Connected, SendSteps, BeginSend, SendFindsNoConnection,
              WriteCommand, WriteFails, ReadResponse, ReadFails, Reading, GiveUp, Catch,
              CancelWait, Goto
<1>4. CASE UNCHANGED vars \/ AgentStops \/ AgentBoots
           \/ \E c \in Conns : Serve(c) \/ LoopFails(c)
  BY <1>4 DEF vars, web, AgentStops, AgentBoots, Serve, ReceiveCommand, Execute, Respond,
              RespondInVain, EndOfCommands, LoopFails
<1>5. CASE RestartWeb
  BY <1>5 DEF RestartWeb, Abandoned
<1> QED
  BY <1>1, <1>2, <1>3, <1>4, <1>5 DEF Next

\* A step that moves no command, and no caller further than to where it may send.
Unmoved ==
    /\ Turn' = Turn
    /\ \A r \in Requests :
          /\ executed'[r] = executed[r]
          /\ pc'[r] = pc[r] \/ (pc[r] \in NotSent /\ pc'[r] \in NotSent)
          /\ \/ executed[r] > 0
             \/ \A c \in Conns : Carries(c, r)' <=> Carries(c, r)

LEMMA Stutter == Unmoved => UNCHANGED Calls!calls
<1> SUFFICES ASSUME Unmoved PROVE UNCHANGED <<Turn, Command, Call>>
  BY DEF Calls!calls
<1>1. \A r \in Requests : Command'[r] = Command[r]
  BY DEF Unmoved, Command
<1>2. \A r \in Requests : Call'[r] = Call[r]
  BY DEF Unmoved, Call, NotSent, Finished
<1>3. Command' = Command /\ Call' = Call
  BY <1>1, <1>2 DEF Command, Call
<1> QED
  BY <1>3 DEF Unmoved

\* A step of commands under way that are lost, and of callers that fail, read off request by
\* request.
LEMMA Losing ==
    ASSUME NEW S \in SUBSET Requests, UNCHANGED <<Turn, Call>>,
           \A r \in S : Command[r] = "underway",
           \A r \in Requests : Command'[r] = IF r \in S THEN "lost" ELSE Command[r]
    PROVE  Calls!Next
<1>1. Command' = [r \in Requests |-> IF r \in S THEN "lost" ELSE Command[r]]
  BY DEF Command
<1>2. Calls!Lose(S)
  BY <1>1 DEF Calls!Lose
<1> QED
  BY <1>2 DEF Calls!Next

LEMMA Failing ==
    ASSUME NEW S \in SUBSET Requests, NEW through \in SUBSET (S \cap {Turn}),
           Turn' = IF Turn \in S THEN Free ELSE Turn,
           \A r \in S : Call[r] = "open",
           \A r \in Requests : Call'[r] = IF r \in S THEN "failed" ELSE Call[r],
           \A r \in Requests : Command'[r] = IF r \in S /\ Command[r] = "unsent"
                                               THEN IF r \in through THEN "underway" ELSE "lost"
                                               ELSE Command[r]
    PROVE  Calls!Next
<1>1. Command' = [r \in Requests |-> IF r \in S /\ Command[r] = "unsent"
                                       THEN IF r \in through THEN "underway" ELSE "lost"
                                       ELSE Command[r]]
  BY DEF Command
<1>2. Call' = [r \in Requests |-> IF r \in S THEN "failed" ELSE Call[r]]
  BY DEF Call
<1>3. Calls!Fail(S)
  BY <1>1, <1>2 DEF Calls!Fail
<1> QED
  BY <1>3 DEF Calls!Next

\* One caller fails; its command is lost if it was not sent, or gets through all the same.
LEMMA FailingOnly ==
    ASSUME NEW r \in Requests, NEW fate, fate = "lost" \/ (fate = "underway" /\ Turn = r),
           Call[r] = "open", Turn' = IF Turn = r THEN Free ELSE Turn,
           \A q \in Requests : Call'[q] = IF q \in {r} THEN "failed" ELSE Call[q],
           \A q \in Requests : q # r => Command'[q] = Command[q],
           Command'[r] = IF Command[r] = "unsent" THEN fate ELSE Command[r]
    PROVE  Calls!Next
<1> DEFINE S == {r}
<1> DEFINE through == IF fate = "lost" THEN {} ELSE {r}
<1>1. S \in SUBSET Requests /\ through \in SUBSET (S \cap {Turn})
  OBVIOUS
<1>2. \A q \in Requests : (q \in S <=> q = r) /\ (q \in through <=> q = r /\ fate # "lost")
  OBVIOUS
<1>3. Turn \in S <=> Turn = r
  OBVIOUS
<1>4. \A q \in Requests : Call'[q] = IF q \in S THEN "failed" ELSE Call[q]
  OBVIOUS
<1>5. \A q \in S : Call[q] = "open"
  OBVIOUS
<1> HIDE DEF S, through
<1>6. \A q \in Requests : Command'[q] = IF q \in S /\ Command[q] = "unsent"
                                          THEN IF q \in through THEN "underway" ELSE "lost"
                                          ELSE Command[q]
  BY <1>2
<1>7. Turn' = IF Turn \in S THEN Free ELSE Turn
  BY <1>3
<1> QED
  BY <1>1, <1>4, <1>5, <1>6, <1>7, Failing

\* What has become of a command before it is sent, and after it was executed.
LEMMA Fates ==
    ASSUME IInv, NEW r \in Requests
    PROVE  /\ pc[r] \in NotSent => Command[r] = "unsent" /\ Call[r] = "open"
           /\ executed[r] > 0 <=> executed[r] = 1
           /\ executed[r] \in {0, 1}
           /\ executed[r] = 1 => Command[r] = "executed"
           /\ executed[r] = 0 /\ (\E c \in Conns : Carries(c, r))
                 => Command[r] = "underway" /\ pc[r] \notin NotSent
           /\ executed[r] = 0 /\ pc[r] \notin NotSent /\ ~(\E c \in Conns : Carries(c, r))
                 => Command[r] = "lost"
<1>1. executed[r] \in {0, 1}
  BY DEF IInv, StageInv
<1>2. pc[r] \in NotSent => executed[r] = 0 /\ \A c \in Conns : ~Carries(c, r)
  BY DEF IInv, BeforeInv, NotSent
<1>3. pc[r] \in NotSent => pc[r] \notin Finished
  BY DEF NotSent, Finished
<1> QED
  BY <1>1, <1>2, <1>3 DEF Command, Call, Finished

\* A request that is about to fail without having the turn.
LEMMA FailsBefore ==
    ASSUME IInv, NEW r \in Requests, pc[r] \in {"ensure", "connect", "send"},
           NEW s \in {"failed", "notConnected"}, Goto(r, s),
           Turn # r, Turn' = Turn, UNCHANGED <<agent, toAgent>>
    PROVE  Calls!Next
<1>1. Command[r] = "unsent" /\ Call[r] = "open"
  BY Fates DEF NotSent
<1>2. pc' = [pc EXCEPT ![r] = s] /\ pc'[r] = s
  BY DEF Goto, IInv, TypeOK, Callers
<1>3. \A q \in Requests : Call'[q] = IF q \in {r} THEN "failed" ELSE Call[q]
  BY <1>2 DEF Call, Finished
<1>4. executed[r] = 0 /\ \A c \in Conns : ~Carries(c, r)
  BY DEF IInv, BeforeInv
<1>5. \A q \in Requests : q # r => Command'[q] = Command[q]
  BY <1>2 DEF Command, Carries, agent
<1>6. Command'[r] = "lost"
  BY <1>2, <1>4 DEF Command, Carries, agent, NotSent
<1> QED
  BY <1>1, <1>3, <1>5, <1>6, FailingOnly

\* Every step of the connection is a step of the calls or leaves them alone.
LEMMA CallsStep == IInv /\ MonitorInv /\ [Next]_vars => [Calls!Next]_(Calls!calls)
<1> SUFFICES ASSUME IInv, MonitorInv, [Next]_vars PROVE Calls!Next \/ UNCHANGED Calls!calls
  OBVIOUS
<1> USE ConnectionAssumption DEF IInv
<1>u. CASE UNCHANGED vars
  BY <1>u, Stutter DEF Unmoved, Turn, Carries, vars, web, agent
<1>1. CASE MonitorWakes
  <2>1. \A r \in Requests : pc'[r] = pc[r]
    BY <1>1 DEF MonitorWakes, FastCheck, Connected, Goto, TypeOK, Callers
  <2> QED
    BY <1>1, <2>1, Stutter DEF MonitorWakes, FastCheck, Unmoved, Turn, Carries, agent
<1>2. ASSUME NEW p \in Callers, EnsureFindsConnected(p) PROVE UNCHANGED Calls!calls
  <2>1. \A r \in Requests : pc'[r] = pc[r] \/ (pc[r] \in NotSent /\ pc'[r] \in NotSent)
    BY <1>2 DEF EnsureFindsConnected, Connected, Goto, TypeOK, Callers, NotSent
  <2> QED
    BY <1>2, <2>1, Stutter DEF EnsureFindsConnected, Unmoved, Turn, Carries, agent
<1>3. ASSUME NEW p \in Callers, BeginConnect(p) PROVE UNCHANGED Calls!calls
  <2>1. \A r \in Requests : pc'[r] = pc[r] \/ (pc[r] \in NotSent /\ pc'[r] \in NotSent)
    BY <1>3 DEF BeginConnect, Goto, TypeOK, Callers, NotSent
  <2> QED
    BY <1>3, <2>1, Stutter DEF BeginConnect, Unmoved, Turn, Carries, agent
<1>4. ASSUME NEW p \in Callers, ConnectSucceeds(p) PROVE UNCHANGED Calls!calls
  <2>1. \A r \in Requests : pc'[r] = pc[r] \/ (pc[r] \in NotSent /\ pc'[r] \in NotSent)
    BY <1>4 DEF ConnectSucceeds, Connected, Goto, TypeOK, Callers, NotSent
  <2>2. \A c \in Conns : toAgent'[c] = toAgent[c]
    BY <1>4 DEF ConnectSucceeds, ChannelInv, TypeOK
  <2>3. Turn' = Turn
    BY <1>4 DEF ConnectSucceeds, ConnInv, Turn
  <2> QED
    BY <1>4, <2>1, <2>2, <2>3, Stutter DEF ConnectSucceeds, Unmoved, Carries
<1>5. ASSUME NEW p \in Callers, ConnectFails(p) PROVE Calls!Next \/ UNCHANGED Calls!calls
  <2>1. Turn = Free /\ Turn' = Free
    BY <1>5 DEF ConnectFails, ConnInv, Turn
  <2>2. CASE p = Monitor
    <3>1. \A r \in Requests : pc'[r] = pc[r]
      BY <1>5, <2>2 DEF ConnectFails, Rejected, Goto, TypeOK, Callers
    <3> QED
      BY <1>5, <2>1, <3>1, Stutter DEF ConnectFails, Unmoved, Carries, agent
  <2>3. CASE p \in Requests
    <3>1. pc[p] = "connect" /\ Goto(p, "failed") /\ UNCHANGED <<agent, toAgent>>
      BY <1>5, <2>3 DEF ConnectFails, Rejected
    <3>2. Turn # p
      BY <2>1, <2>3 DEF Callers
    <3> QED
      BY <2>1, <2>3, <3>1, <3>2, FailsBefore
  <2> QED
    BY <2>2, <2>3 DEF Callers
<1>6. ASSUME NEW r \in Requests, Send(r) PROVE UNCHANGED Calls!calls
  <2>1. \A q \in Requests : pc'[q] = pc[q] \/ (pc[q] \in NotSent /\ pc'[q] \in NotSent)
    BY <1>6 DEF Send, FastCheck, Connected, Goto, TypeOK, Callers, NotSent
  <2> QED
    BY <1>6, <2>1, Stutter DEF Send, FastCheck, Unmoved, Turn, Carries, agent
<1>7. ASSUME NEW r \in Requests, CancelWait(r) PROVE Calls!Next
  <2>1. pc[r] \in {"ensure", "send"} /\ Goto(r, "failed") /\ UNCHANGED <<agent, toAgent>>
    BY <1>7 DEF CancelWait
  <2>2. Turn # r /\ Turn' = Turn
    BY <1>7 DEF CancelWait, LockInv, Turn, Callers
  <2> QED
    BY <2>1, <2>2, FailsBefore
<1>8. ASSUME NEW r \in Requests, BeginSend(r) PROVE Calls!Next
  <2>1. Turn = Free /\ Turn' = r
    BY <1>8 DEF BeginSend, Turn
  <2>2. Command[r] = "unsent" /\ Call[r] = "open"
    BY <1>8, Fates DEF BeginSend, NotSent
  <2>3. pc[r] = "send" /\ pc' = [pc EXCEPT ![r] = "write"] /\ UNCHANGED <<agent, toAgent>>
    BY <1>8 DEF BeginSend, Goto
  <2>4. \A q \in Requests : pc'[q] = pc[q] \/ (pc[q] \in NotSent /\ pc'[q] \in NotSent)
    BY <2>3 DEF TypeOK, Callers, NotSent
  <2>5. \A q \in Requests : Command'[q] = Command[q] /\ Call'[q] = Call[q]
    BY <2>3, <2>4 DEF Command, Call, Carries, agent, NotSent, Finished
  <2>6. UNCHANGED <<Command, Call>>
    BY <2>5 DEF Command, Call
  <2> QED
    BY <2>1, <2>2, <2>6 DEF Calls!Take, Calls!Next
<1>9. ASSUME NEW r \in Requests, SendFindsNoConnection(r) PROVE Calls!Next
  <2>1. pc[r] = "send" /\ Goto(r, "notConnected") /\ UNCHANGED <<agent, toAgent>>
    BY <1>9 DEF SendFindsNoConnection
  <2>2. Turn # r /\ Turn' = Turn
    BY <1>9 DEF SendFindsNoConnection, Turn, Callers
  <2> QED
    BY <2>1, <2>2, FailsBefore
<1>10. ASSUME NEW r \in Requests, WriteCommand(r) PROVE Calls!Next
  <2>1. Delivered(r) /\ pc[r] = "write" /\ pc' = [pc EXCEPT ![r] = "read"]
        /\ UNCHANGED <<sem, isConnected, agent>>
    BY <1>10, Delivery DEF WriteCommand, Goto
  <2>2. Turn = r /\ Turn' = r
    BY <2>1 DEF Delivered, Turn
  <2>3. Command[r] = "unsent" /\ executed[r] = 0 /\ \A c \in Conns : ~Carries(c, r)
    BY <2>1, Fates DEF NotSent, BeforeInv
  <2>4. \A q \in Requests \ {r}, c \in Conns : Carries(c, q)' <=> Carries(c, q)
    BY <2>1 DEF Delivered, Carries, agent
  <2>5. \A q \in Requests : q # r => pc'[q] = pc[q]
    BY <2>1
  <2>6. \A q \in Requests : q # r => Command'[q] = Command[q]
    BY <2>1, <2>4, <2>5 DEF Command, agent
  <2>7. Command'[r] \in {"underway", "lost"}
    <3>1. pc'[r] = "read" /\ executed'[r] = 0
      BY <2>1, <2>3 DEF TypeOK, Callers, agent
    <3> QED
      BY <3>1 DEF Command, NotSent
  <2>8. Command' = [Command EXCEPT ![r] = Command'[r]]
    BY <2>6 DEF Command
  <2>9. \A q \in Requests : Call'[q] = Call[q]
    BY <2>1, <2>5 DEF Call, TypeOK, Callers, Finished
  <2>10. Call' = Call
    BY <2>9 DEF Call
  <2> QED
    BY <2>2, <2>3, <2>7, <2>8, <2>10 DEF Calls!Send, Calls!Next
<1>11. ASSUME NEW r \in Requests, WriteFails(r) PROVE Calls!Next
  <2>1. pc[r] = "write" /\ pc' = [pc EXCEPT ![r] = "failed"] /\ pc'[r] = "failed"
        /\ isConnected' = FALSE /\ UNCHANGED agent
    BY <1>11 DEF WriteFails, GiveUp, Catch, Goto, TypeOK, Callers
  <2>2. Turn = r /\ Turn' = Free
    BY <2>1 DEF ConnInv, LockInv, Turn, Callers
  <2>3. Command[r] = "unsent" /\ Call[r] = "open" /\ executed[r] = 0
        /\ \A c \in Conns : ~Carries(c, r)
    BY <2>1, Fates DEF NotSent, BeforeInv
  <2>4. \A q \in Requests \ {r}, c \in Conns : Carries(c, q)' <=> Carries(c, q)
    <3>1. CASE Delivered(r)
      BY <2>1, <3>1 DEF Delivered, Carries, agent
    <3>2. CASE UNCHANGED toAgent
      BY <2>1, <3>2 DEF Carries, agent
    <3> QED
      BY <1>11, <2>1, <3>1, <3>2, Delivery DEF WriteFails
  <2>5. \A q \in Requests : q # r => Command'[q] = Command[q]
    BY <2>1, <2>4 DEF Command, agent
  <2>6. Command'[r] \in {"underway", "lost"}
    BY <2>1, <2>3 DEF Command, NotSent, agent
  <2>7. \A q \in Requests : Call'[q] = IF q \in {r} THEN "failed" ELSE Call[q]
    BY <2>1 DEF Call, Finished
  <2>8. Turn' = IF Turn = r THEN Free ELSE Turn
    BY <2>2
  <2> QED
    BY <2>2, <2>3, <2>5, <2>6, <2>7, <2>8, FailingOnly
<1>12. ASSUME NEW r \in Requests, ReadResponse(r) PROVE Calls!Next
  <2>1. ReadOwn(r)
    BY <1>12, OwnReading
  <2>2. pc[r] = "read" /\ pc' = [pc EXCEPT ![r] = "answered"] /\ pc'[r] = "answered"
        /\ UNCHANGED <<agent, toAgent, isConnected>> /\ sem' = Free
    BY <2>1 DEF ReadOwn, Goto, TypeOK, Callers
  <2>3. Turn = r /\ Turn' = Free
    BY <2>2 DEF ConnInv, LockInv, Turn, Callers
  <2>4. executed[r] = 1
    BY <2>1 DEF ReadOwn, StageInv
  <2>5. Command[r] = "executed"
    BY <2>4, Fates
  <2>6. \A q \in Requests : Command'[q] = Command[q]
    BY <2>2, <2>4 DEF Command, Carries, agent
  <2>7. \A q \in Requests : Call'[q] = IF q = r THEN "answered" ELSE Call[q]
    BY <2>2 DEF Call
  <2>8. Command' = Command /\ Call' = [Call EXCEPT ![r] = "answered"]
    BY <2>6, <2>7 DEF Command, Call
  <2> QED
    BY <2>3, <2>5, <2>8 DEF Calls!Answer, Calls!Next
<1>13. ASSUME NEW r \in Requests, ReadFails(r) PROVE Calls!Next
  <2>1. pc[r] = "read" /\ pc' = [pc EXCEPT ![r] = "failed"] /\ pc'[r] = "failed"
        /\ isConnected' = FALSE /\ UNCHANGED <<agent, toAgent>>
    BY <1>13 DEF ReadFails, Reading, GiveUp, Catch, Goto, TypeOK, Callers
  <2>2. Turn = r /\ Turn' = Free
    BY <2>1 DEF ConnInv, LockInv, Turn, Callers
  <2>3. Call[r] = "open" /\ Command[r] # "unsent"
    BY <2>1 DEF Call, Finished, Command, NotSent
  <2>4. \A q \in Requests : Command'[q] = Command[q]
    BY <2>1 DEF Command, Carries, agent, NotSent
  <2>5. \A q \in Requests : Call'[q] = IF q \in {r} THEN "failed" ELSE Call[q]
    BY <2>1 DEF Call, Finished
  <2> QED
    BY <2>2, <2>3, <2>4, <2>5, FailingOnly
<1>14. ASSUME NEW c \in Conns, ReceiveCommand(c) PROVE UNCHANGED Calls!calls
  <2>1. PICK r \in Requests : Received(c, r)
    BY <1>14, Reception
  <2>2. \A d \in Conns, q \in Requests : Carries(d, q)' <=> Carries(d, q)
    BY <2>1, OneMessage DEF Received, Carries, TypeOK, Callers
  <2> QED
    BY <2>1, <2>2, Stutter DEF Received, Unmoved, Turn, web
<1>15. ASSUME NEW c \in Conns, Execute(c) PROVE Calls!Next
  <2>1. PICK r \in Requests : serving[c] = r
    BY <1>15 DEF Execute, ChannelInv, TypeOK
  <2>2. executed[r] = 0 /\ executed' = [executed EXCEPT ![r] = @ + 1]
    BY <1>15, <2>1 DEF Execute, StageInv
  <2>3. UNCHANGED <<web, serving, toAgent>>
    BY <1>15 DEF Execute
  <2>4. Command[r] = "underway"
    BY <2>1, <2>2, Fates DEF Carries
  <2>5. executed'[r] = 1 /\ \A q \in Requests : q # r => executed'[q] = executed[q]
    BY <2>2 DEF TypeOK
  <2>6. \A q \in Requests : Command'[q] = IF q = r THEN "executed" ELSE Command[q]
    BY <2>3, <2>5 DEF Command, Carries, web
  <2>7. Command' = [Command EXCEPT ![r] = "executed"] /\ Call' = Call /\ Turn' = Turn
    BY <2>3, <2>6 DEF Command, Call, Turn, web
  <2> QED
    BY <2>4, <2>7 DEF Calls!Execute, Calls!Next
<1>16. ASSUME NEW c \in Conns, Respond(c) \/ RespondInVain(c) PROVE UNCHANGED Calls!calls
  <2>1. peer[c] = "answering" /\ serving' = [serving EXCEPT ![c] = Free]
        /\ UNCHANGED <<web, executed, toAgent>>
    BY <1>16 DEF Respond, RespondInVain
  <2>2. \A q \in Requests : serving[c] = q => executed[q] = 1
    BY <2>1 DEF StageInv
  <2>3. \A d \in Conns, q \in Requests : executed[q] > 0 \/ (Carries(d, q)' <=> Carries(d, q))
    BY <2>1, <2>2 DEF Carries, TypeOK, Callers
  <2> QED
    BY <2>1, <2>3, Stutter DEF Unmoved, Turn, web
<1>17. ASSUME NEW c \in Conns, EndOfCommands(c) PROVE UNCHANGED Calls!calls
  BY <1>17, Stutter DEF EndOfCommands, Unmoved, Turn, Carries, web
<1>18. ASSUME NEW c \in Conns, LoopFails(c) PROVE Calls!Next
  <2> DEFINE S == {r \in Requests : Carries(c, r) /\ executed[r] = 0}
  <2>1. UNCHANGED <<web, executed>>
    BY <1>18 DEF LoopFails
  <2>2. \A r \in Requests : ~Carries(c, r)'
    BY <1>18, OneMessage DEF LoopFails, Carries, TypeOK, Callers
  <2>3. \A d \in Conns \ {c}, r \in Requests : Carries(d, r)' <=> Carries(d, r)
    BY <1>18 DEF LoopFails, Carries, TypeOK
  <2>4. \A r \in S : Command[r] = "underway" /\ pc[r] \notin NotSent
    BY Fates
  <2>5. \A r \in S, d \in Conns : ~Carries(d, r)'
    BY <2>2, <2>3 DEF AloneInv
  <2>6. \A r \in S : Command'[r] = "lost"
    BY <2>1, <2>4, <2>5 DEF Command, web
  <2>7. \A r \in Requests \ S : Command'[r] = Command[r]
    <3>1. \A r \in Requests \ S : executed[r] > 0 \/ ~Carries(c, r)
      BY Fates
    <3> QED
      BY <2>1, <2>2, <2>3, <3>1 DEF Command, web
  <2>8. UNCHANGED <<Turn, Call>>
    BY <2>1 DEF Turn, Call, web
  <2>9. \A r \in Requests : Command'[r] = IF r \in S THEN "lost" ELSE Command[r]
    BY <2>6, <2>7
  <2> HIDE DEF S
  <2>10. S \in SUBSET Requests
    BY DEF S
  <2> QED
    BY <2>4, <2>8, <2>9, <2>10, Losing
<1>19. CASE AgentStops
  <2> DEFINE S == {r \in Requests : executed[r] = 0 /\ \E c \in Conns : Carries(c, r)}
  <2>1. UNCHANGED <<web, executed>>
    BY <1>19 DEF AgentStops
  <2>2. \A r \in Requests, c \in Conns : ~Carries(c, r)'
    BY <1>19, OneMessage DEF AgentStops, Carries, Callers
  <2>3. \A r \in S : Command[r] = "underway" /\ pc[r] \notin NotSent
    BY Fates
  <2>4. \A r \in S : Command'[r] = "lost"
    BY <2>1, <2>2, <2>3 DEF Command, web
  <2>5. \A r \in Requests \ S : Command'[r] = Command[r]
    <3>1. \A r \in Requests \ S : executed[r] > 0 \/ \A c \in Conns : ~Carries(c, r)
      BY Fates
    <3> QED
      BY <2>1, <2>2, <3>1 DEF Command, web
  <2>6. UNCHANGED <<Turn, Call>>
    BY <2>1 DEF Turn, Call, web
  <2>7. \A r \in Requests : Command'[r] = IF r \in S THEN "lost" ELSE Command[r]
    BY <2>4, <2>5
  <2> HIDE DEF S
  <2>8. S \in SUBSET Requests
    BY DEF S
  <2> QED
    BY <2>3, <2>6, <2>7, <2>8, Losing
<1>20. CASE AgentBoots
  BY <1>20, Stutter DEF AgentBoots, Unmoved, Turn, Carries, web
<1>21. CASE RestartWeb
  <2> DEFINE S == {r \in Requests : pc[r] \notin Finished \cup {"new"}}
  <2>1. UNCHANGED <<serving, executed, toAgent>> /\ Turn' = Free
    BY <1>21 DEF RestartWeb, agent, Turn
  <2>2. \A r \in Requests : pc'[r] = IF r \in S THEN "failed" ELSE pc[r]
    BY <1>21 DEF RestartWeb, Abandoned, Callers
  <2>3. Turn = Free \/ Turn \in S
    <3>1. Turn # Free => Turn = sem /\ isConnected /\ sem \in Callers
      BY DEF Turn, TypeOK
    <3>2. Turn # Free => pc[sem] \in {"connect", "write", "read"}
      BY <3>1 DEF LockInv
    <3>3. Turn # Free => sem # Monitor
      BY <3>1, <3>2 DEF MonitorInv, ConnInv
    <3> QED
      BY <3>1, <3>2, <3>3 DEF Callers, Finished
  <2>4. \A r \in S : Call[r] = "open"
    BY DEF Call, Finished
  <2>5. \A r \in Requests : Call'[r] = IF r \in S THEN "failed" ELSE Call[r]
    BY <2>2 DEF Call, Finished
  <2>6. \A r \in Requests : Command'[r] = IF r \in S /\ Command[r] = "unsent"
                                            THEN "lost" ELSE Command[r]
    BY <2>1, <2>2 DEF Command, Carries, NotSent, Finished
  <2> HIDE DEF S
  <2>7. S \in SUBSET Requests /\ Free \notin S
    BY DEF S, Callers
  <2>8. Turn' = IF Turn \in S THEN Free ELSE Turn
    BY <2>1, <2>3
  <2>9. {} \in SUBSET (S \cap {Turn})
    OBVIOUS
  <2>10. \A r \in Requests : Command'[r] = IF r \in S /\ Command[r] = "unsent"
                                             THEN IF r \in {} THEN "underway" ELSE "lost"
                                             ELSE Command[r]
    BY <2>6
  <2> QED
    BY <2>4, <2>5, <2>7, <2>8, <2>9, <2>10, Failing
<1> QED
  BY <1>u, <1>1, <1>2, <1>3, <1>4, <1>5, <1>6, <1>7, <1>8, <1>9, <1>10, <1>11, <1>12, <1>13,
     <1>14, <1>15, <1>16, <1>17, <1>18, <1>19, <1>20, <1>21
     DEF Next, Ensure, SendSteps, Serve

\* The controllers see commands that go out one at a time, are executed at most once and
\* answered only when executed; what failed before it was sent is never executed.
THEOREM Implementation == Spec => ImplementsCalls
<1>1. Init => Calls!Init /\ MonitorInv
  <2> SUFFICES ASSUME Init PROVE Calls!Init /\ MonitorInv
    OBVIOUS
  <2> USE ConnectionAssumption DEF Init, Callers
  <2>1. \A r \in Requests : pc[r] = "new" /\ executed[r] = 0
    OBVIOUS
  <2>2. \A r \in Requests, c \in Conns : ~Carries(c, r)
    BY OneMessage DEF Carries
  <2>3. Command = [r \in Requests |-> "unsent"] /\ Call = [r \in Requests |-> "open"]
    BY <2>1, <2>2 DEF Command, Call, NotSent, Finished
  <2> QED
    BY <2>3 DEF Calls!Init, Turn, MonitorInv
<1>2. IInv /\ MonitorInv /\ [Next]_vars => MonitorInv' /\ [Calls!Next]_(Calls!calls)
  BY MonitorStep, CallsStep
<1> QED
  BY <1>1, <1>2, Inductive, PTL DEF Spec, ImplementsCalls, Calls!Spec
=============================================================================
