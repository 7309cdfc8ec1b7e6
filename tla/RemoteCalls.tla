---------------------------- MODULE RemoteCalls ----------------------------
(***************************************************************************)
(* What the controllers may rely on when they send commands to the agent:  *)
(* the commands go out one at a time, each is executed at most once, and   *)
(* only one that was executed is answered.  A call that fails tells        *)
(* nothing of a command that was sent: it may have been executed, it may   *)
(* be executed yet, while others are under way, or never.  One that fails  *)
(* before its turn came is never executed.                                 *)
(***************************************************************************)
CONSTANTS Requests, Nobody

VARIABLES
    turn,     \* the request that may send and waits for its answer
    command,  \* what has become of each command
    call      \* what its caller knows

calls == <<turn, command, call>>

Init == /\ turn = Nobody
        /\ command = [r \in Requests |-> "unsent"]
        /\ call = [r \in Requests |-> "open"]

Take(r) == /\ turn = Nobody
           /\ call[r] = "open" /\ command[r] = "unsent"
           /\ turn' = r
           /\ UNCHANGED <<command, call>>

\* The agent may be gone without the sender noticing.
Send(r) == /\ turn = r
           /\ command[r] = "unsent"
           /\ \E s \in {"underway", "lost"} : command' = [command EXCEPT ![r] = s]
           /\ UNCHANGED <<turn, call>>

Execute(r) == /\ command[r] = "underway"
              /\ command' = [command EXCEPT ![r] = "executed"]
              /\ UNCHANGED <<turn, call>>

\* What is under way and breaks with its connection or the agent.
Lose(S) == /\ \A r \in S : command[r] = "underway"
           /\ command' = [r \in Requests |-> IF r \in S THEN "lost" ELSE command[r]]
           /\ UNCHANGED <<turn, call>>

Answer(r) == /\ turn = r
             /\ command[r] = "executed"
             /\ call' = [call EXCEPT ![r] = "answered"]
             /\ turn' = Nobody
             /\ UNCHANGED command

\* The sending may have failed after the command got through.
Fail(S) == /\ \A r \in S : call[r] = "open"
           /\ call' = [r \in Requests |-> IF r \in S THEN "failed" ELSE call[r]]
           /\ turn' = IF turn \in S THEN Nobody ELSE turn
           /\ \E through \in SUBSET (S \cap {turn}) :
                command' = [r \in Requests |->
                              IF r \in S /\ command[r] = "unsent"
                                THEN IF r \in through THEN "underway" ELSE "lost"
                                ELSE command[r]]

Next == \/ \E r \in Requests : Take(r) \/ Send(r) \/ Execute(r) \/ Answer(r)
        \/ \E S \in SUBSET Requests : Lose(S) \/ Fail(S)

Spec == Init /\ [][Next]_calls
=============================================================================
