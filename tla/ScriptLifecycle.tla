--------------------------- MODULE ScriptLifecycle ---------------------------
(***************************************************************************)
(* What a console promises about the script it runs, whatever timers,      *)
(* messages, dialogues and nested event loops are involved: a run begins   *)
(* only when the one before is over; JavaScript outside main runs only     *)
(* while the script waits; and a run that ends in good order has first run *)
(* the exit handler if the script gave it one, once and last.              *)
(***************************************************************************)

VARIABLES
    phase,    \* where the run of the script has got to
    guarded,  \* the script has an exit handler yet to be run
    ended     \* how the last run ended; "no" while one is in progress

lifecycle == <<phase, guarded, ended>>

Init == phase = "idle" /\ guarded = FALSE /\ ended = "orderly"

Goes(to, from) == phase \in from /\ phase' = to

Start == Goes("main", {"idle"}) /\ guarded' = FALSE /\ ended' = "no"

SetExitHandler ==
    phase \in {"main", "handling"} /\ guarded' = TRUE /\ UNCHANGED <<phase, ended>>

Wait == Goes("waiting", {"main", "handling"}) /\ UNCHANGED <<guarded, ended>>

CallBack == Goes("handling", {"waiting"}) /\ UNCHANGED <<guarded, ended>>

RunExitHandler ==
    /\ Goes("exiting", {"main", "waiting", "handling"})
    /\ guarded /\ guarded' = FALSE /\ UNCHANGED ended

EndOrderly ==
    /\ Goes("idle", {"main", "waiting", "handling", "exiting"})
    /\ ~guarded /\ guarded' = FALSE /\ ended' = "orderly"

\* An error, the timeout, or a message box closed by another script.
EndAbruptly ==
    /\ Goes("idle", {"main", "handling", "exiting"})
    /\ guarded' = FALSE /\ ended' = "abruptly"

Close == Goes("closed", {"idle", "waiting"}) /\ guarded' = FALSE /\ ended' = "no"

Reopen == Goes("idle", {"closed"}) /\ guarded' = FALSE /\ ended' = "orderly"

Next ==
    \/ Start \/ SetExitHandler \/ Wait \/ CallBack \/ RunExitHandler
    \/ EndOrderly \/ EndAbruptly \/ Close \/ Reopen

Spec == Init /\ [][Next]_lifecycle
=============================================================================
