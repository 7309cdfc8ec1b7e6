----------------------------- MODULE Supervisor -----------------------------
(***************************************************************************)
(* What a ProcessManagerService promises, without the lock, the scans, the *)
(* other processes of the executable and the steps of a call: which        *)
(* process it supervises, whether a stop holds restarts back, the exits it *)
(* has still to deal with, and the processes it let go of because it had   *)
(* decided before a restart overtook the decision.  ProcessManager         *)
(* implements it.                                                          *)
(***************************************************************************)
CONSTANTS
    Processes,   \* processes that can be supervised
    NoProcess

VARIABLES
    child,    \* the live process under supervision
    strays,   \* live processes let go of, whose exits are watched all the same
    hold,     \* whether a stop holds restarts back
    due,      \* processes whose exit has not been dealt with
    outcome,  \* how the last decision about the process ended
    late      \* whether somebody goes on as if the child it overlooks were gone

vars == <<child, strays, hold, due, outcome, late>>

Idle == child = NoProcess

Init == /\ child = NoProcess
        /\ strays = {}
        /\ hold = FALSE
        /\ due = {}
        /\ outcome = "none"
        /\ late = FALSE
-----------------------------------------------------------------------------
\* A process comes under supervision where there is none; it takes the place of a live
\* one only in a decision that is late, and that one goes astray.
Replace == /\ Idle \/ late
           /\ strays' = IF Idle THEN strays ELSE strays \cup {child}

\* A process that runs already.
Adopt == /\ Replace
         /\ child' \in Processes \ strays'
         /\ hold' = FALSE
         /\ outcome' = "adopted"
         /\ late' = FALSE
         /\ UNCHANGED due

\* A launch succeeds or fails.
Launch(success) == /\ Replace
                   /\ \/ child' \in Processes \ (due \cup strays') /\ outcome' = success
                      \/ child' = NoProcess /\ outcome' = "failed"

Start == Launch("started") /\ hold' = FALSE /\ late' = FALSE /\ UNCHANGED due

\* Of the processes that are watched some are gone.
Exit == \E gone \in SUBSET (strays \cup {child}) :
            /\ gone # {} /\ NoProcess \notin gone
            /\ child' = IF child \in gone THEN NoProcess ELSE child
            /\ strays' = strays \ gone
            /\ due' = due \cup gone
            /\ late' = (late /\ child \notin gone)
            /\ UNCHANGED <<hold, outcome>>

DealtWith(p) == p \in due /\ due' = due \ {p}

\* An exit is answered by one launch, which may overtake a decision ...
Restart(p) == /\ DealtWith(p)
              /\ ~hold /\ UNCHANGED hold
              /\ Launch("restarted")
              /\ late' \in {FALSE, child' # NoProcess}

\* ... or it was asked for, or overtaken by a newer process ...
Dismiss(p) == DealtWith(p) /\ (hold \/ ~Idle) /\ UNCHANGED <<child, strays, hold, outcome, late>>

\* ... or it came too early in an adoption to be noticed.
Miss(p) == /\ DealtWith(p)
           /\ Idle /\ outcome = "adopted" /\ outcome' \in {"adopted", "lost"}
           /\ UNCHANGED <<child, strays, hold, late>>

\* A process that cannot be watched is not supervised.
Lose == /\ ~Idle /\ outcome = "adopted"
        /\ child' = NoProcess
        /\ outcome' = "lost"
        /\ UNCHANGED <<strays, hold, due, late>>

StopBegins == ~Idle /\ hold' = TRUE /\ UNCHANGED <<child, strays, due, outcome, late>>

StopAnswers(answer) == outcome' = answer /\ UNCHANGED <<child, strays>>

Stopped == /\ hold /\ UNCHANGED <<hold, late>>
           /\ StopAnswers("stopped")
           /\ UNCHANGED due \/ \E p \in Processes : DealtWith(p)

StopFails == hold /\ StopAnswers("stopError") /\ hold' = FALSE /\ UNCHANGED <<due, late>>

NothingToStop == /\ Idle \/ late
                 /\ StopAnswers("notRunning")
                 /\ late' = FALSE
                 /\ UNCHANGED <<hold, due>>

\* A late decision comes to nothing.
NothingDone == late /\ late' = FALSE /\ UNCHANGED <<child, strays, hold, due, outcome>>

\* The agent forgets what it supervised.
Forget == /\ child' = NoProcess
          /\ strays' = {}
          /\ hold' = FALSE
          /\ due' = {}
          /\ outcome' = "none"
          /\ late' = FALSE
-----------------------------------------------------------------------------
Next == \/ Adopt
        \/ Start
        \/ Exit
        \/ \E p \in Processes : Restart(p) \/ Dismiss(p) \/ Miss(p)
        \/ Lose
        \/ StopBegins
        \/ Stopped
        \/ StopFails
        \/ NothingToStop
        \/ NothingDone
        \/ Forget

Spec == Init /\ [][Next]_vars
=============================================================================
