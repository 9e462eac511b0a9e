------------------------------ MODULE RunOnce ------------------------------
(***************************************************************************)
(* What a SharedInformerFactory promises its users: every informer is run   *)
(* at most once, and when Shutdown has returned none runs nor ever will.    *)
(***************************************************************************)
CONSTANT Types   \* what can be run

VARIABLES
    ever,    \* what has been started
    alive,   \* what is running
    over     \* a call of Shutdown has returned

Init == ever = {} /\ alive = {} /\ over = FALSE

Begin ==
    /\ ~over
    /\ \E new \in SUBSET (Types \ ever) :
          ever' = ever \cup new /\ alive' = alive \cup new
    /\ UNCHANGED over

End ==
    /\ \E t \in alive : alive' = alive \ {t}
    /\ UNCHANGED <<ever, over>>

Finish == alive = {} /\ over' = TRUE /\ UNCHANGED <<ever, alive>>

Next == Begin \/ End \/ Finish

Spec == Init /\ [][Next]_<<ever, alive, over>>
=============================================================================
