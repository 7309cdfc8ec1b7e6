--------------------------- MODULE MessageChannel ---------------------------
(***************************************************************************)
(* What the two ends of a connection rely on: messages arrive whole, once, *)
(* in the order they were sent, until the connection is over for whoever   *)
(* reads it; what was not received by then is lost.                        *)
(***************************************************************************)
EXTENDS Naturals, Sequences

CONSTANT Messages

VARIABLES sent, received, over

chan == <<sent, received, over>>

Init == sent = <<>> /\ received = <<>> /\ over = FALSE

Send(m) == /\ sent' = Append(sent, m)
           /\ UNCHANGED <<received, over>>

Receive == /\ ~over /\ Len(received) < Len(sent)
           /\ received' = Append(received, sent[Len(received) + 1])
           /\ UNCHANGED <<sent, over>>

\* The end of the stream, a failure, or a message the reader refuses.
End == ~over /\ over' = TRUE /\ UNCHANGED <<sent, received>>

Next == (\E m \in Messages : Send(m)) \/ Receive \/ End

Spec == Init /\ [][Next]_chan
=============================================================================
