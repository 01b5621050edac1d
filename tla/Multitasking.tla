---------------------------- MODULE Multitasking ----------------------------
(***************************************************************************)
(* What the scheduler promises: one thread runs, the others that exist     *)
(* wait, a switch exchanges the running thread with a waiting one, and no  *)
(* thread is ever in two places or nowhere.                                *)
(***************************************************************************)
CONSTANTS Thread, Boot

VARIABLES running, waiting

vars == <<running, waiting>>

Init == running = Boot /\ waiting = {}

Create(t) == /\ t \notin waiting \cup {running}
             /\ waiting' = waiting \cup {t}
             /\ UNCHANGED running

Switch(t) == /\ t \in waiting
             /\ running' = t
             /\ waiting' = (waiting \ {t}) \cup {running}

Next == \E t \in Thread : Create(t) \/ Switch(t)

Spec == Init /\ [][Next]_vars
=============================================================================
