------------------------------ MODULE Pointer -------------------------------
(***************************************************************************)
(* What the mouse driver promises.  While it is following, the pointer     *)
(* does what the hand does, stopped at the edges of the screen; a movement *)
(* too long for a signed byte is followed in its buttons only.  While it   *)
(* is not, the pointer is somewhere on the screen.                         *)
(***************************************************************************)
EXTENDS Integers

CONSTANTS Width, Height, StartX, StartY, Packets

VARIABLES x, y, buttons, following

Within(low, n, high) == IF n < low THEN low ELSE IF n > high THEN high ELSE n

Columns == 0 .. Width - 1
Rows == 0 .. Height - 1

\* Where a movement of d ends that would go to n, as far as it is followed.
Moved(d, n, range) == IF d \in -128 .. 127 THEN {Within(0, n, range - 1)} ELSE 0 .. range - 1

Init == x = StartX /\ y = StartY /\ buttons = 0 /\ following \in BOOLEAN

Follow == \E k \in Packets :
  /\ following
  /\ ~k.overflow
  /\ x' \in Moved(k.dx, x + k.dx, Width)
  /\ y' \in Moved(k.dy, y - k.dy, Height)
  /\ buttons' = IF k.left THEN 1 ELSE 0
  /\ following' \in BOOLEAN

Stray == /\ ~following
         /\ x' \in Columns /\ y' \in Rows /\ buttons' \in 0 .. 7
         /\ following' \in BOOLEAN

Disturbed == following' \in BOOLEAN /\ UNCHANGED <<x, y, buttons>>

Next == Follow \/ Stray \/ Disturbed

Spec == Init /\ [][Next]_<<x, y, buttons, following>>
=============================================================================
