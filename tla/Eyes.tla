-------------------------------- MODULE Eyes --------------------------------
(***************************************************************************)
(* What a frame of kernel/applications/xeyes.cpp draws: two eyes whose     *)
(* pupils look at the mouse, computed with the integer square root of      *)
(* kernel/utils/utils.cpp.  Desktop has the task and its dirty rectangle.  *)
(*                                                                         *)
(* Coordinates are the window's.  The frame reads mouse_x and mouse_y with *)
(* interrupts on, so the two may come from two packets: any x goes with    *)
(* any y.  A frame keeps nothing of the one before it.                     *)
(***************************************************************************)
EXTENDS Integers, Sequences

CONSTANTS WinW, WinH,           \* size of the window
          EyeR, PupilR,         \* radii
          MouseXs, MouseYs,     \* where the mouse may be, seen from the window
          MaxFrames             \* bound

VARIABLES looked_at, pupils, frames

eyesVars == <<looked_at, pupils, frames>>

Sides == {"left", "right"}

Centre == [left |-> <<WinW \div 4, WinH \div 2>>, right |-> <<(WinW * 3) \div 4, WinH \div 2>>]

max_move == EyeR - PupilR - 2

-----------------------------------------------------------------------------
\* One bit of the root, two of the number.
RootStep(s) ==
  IF s.value >= s.res + s.bit
  THEN [value |-> s.value - (s.res + s.bit), res |-> s.res \div 2 + s.bit, bit |-> s.bit \div 4]
  ELSE [value |-> s.value, res |-> s.res \div 2, bit |-> s.bit \div 4]

K == 1024
TopBit == K * K * K             \* 1 << 30

\* The largest int.
IntMax == TopBit + (TopBit - 1)

\* The loop that looks for the first bit only leaves out steps that change
\* nothing.
RootLoop(value) ==
  LET loop[i \in 0 .. 16] == IF i = 0 THEN [value |-> value, res |-> 0, bit |-> TopBit]
                             ELSE RootStep(loop[i - 1])
  IN  loop

int_sqrt(value) == IF value <= 0 THEN 0 ELSE RootLoop(value)[16].res

\* Division towards zero, by a positive number.
Truncated(a, b) == IF a >= 0 THEN a \div b ELSE -((-a) \div b)

Square(n) == n * n

SquaredDistance(p, q) == Square(p[1] - q[1]) + Square(p[2] - q[2])

PulledHalfway(d, dist) ==                               \* mutant: only one bound for both axes
  IF d > max_move THEN max_move ELSE IF d < -max_move THEN -max_move ELSE d

\* How far the pupil moves along one axis.
Pulled(d, dist) == IF dist > max_move THEN Truncated(d * max_move, dist) ELSE d

Pupil(c, m) ==
  LET dist == int_sqrt(SquaredDistance(m, c))
  IN  <<c[1] + Pulled(m[1] - c[1], dist), c[2] + Pulled(m[2] - c[2], dist)>>

\* The pixels of the window that buf_fill_circle colours.
Disc(c, r) ==
  {p \in ((c[1] - r .. c[1] + r) \cap (0 .. WinW - 1)) \X ((c[2] - r .. c[2] + r) \cap (0 .. WinH - 1)) :
     SquaredDistance(p, c) <= Square(r)}

-----------------------------------------------------------------------------
Faces(m) == [e \in Sides |-> Pupil(Centre[e], m)]

\* Where a frame may find the mouse.
Spots == MouseXs \X MouseYs

\* Every place is near enough for an int to hold its squared distance, the
\* eye is small enough for the products of xeyes_task, and a pupil can move.
EyesAssumption == /\ {WinW, WinH, PupilR} \subseteq Nat /\ EyeR \in Nat
                  /\ Square(EyeR) <= IntMax /\ max_move >= 2
                  /\ MouseXs \cup MouseYs \subseteq Int
                  /\ \A m \in Spots, e \in Sides : SquaredDistance(m, Centre[e]) <= IntMax
                  /\ MaxFrames \in Nat

\* Before the first frame: nothing has been looked at or drawn.
EyesInit == looked_at = Centre.left /\ pupils = Centre /\ frames = 0

EyesFrame == /\ frames < MaxFrames /\ frames' = frames + 1
             /\ \E x \in MouseXs, y \in MouseYs : looked_at' = <<x, y>> /\ pupils' = Faces(<<x, y>>)

EyesSpec == EyesInit /\ [][EyesFrame]_eyesVars

-----------------------------------------------------------------------------
(* Properties.                                                             *)

\* The shifting algorithm gives the root rounded down (utils.cpp lines
\* 109-126).
RootIsFloor ==
  \A e \in Sides : LET square == SquaredDistance(looked_at, Centre[e])
                       root == int_sqrt(square)
                   IN  Square(root) <= square /\ square < Square(root + 1)

\* No pixel of a pupil is painted beside its eye, wherever the mouse is: the
\* slack of two pixels takes up both roundings (xeyes.cpp lines 13-28,
\* 45-101).
PupilsInEyes ==
  \A e \in Sides : \A p \in Disc(pupils[e], PupilR) : SquaredDistance(p, Centre[e]) <= Square(EyeR)

\* Each pupil is nearer to the mouse than the centre of its eye, or on it
\* (lines 66-98).
PupilsNearer ==
  \A e \in Sides : \/ pupils[e] = looked_at
                   \/ SquaredDistance(pupils[e], looked_at) < SquaredDistance(Centre[e], looked_at)

\* The root and the two quotients are each rounded; together they still
\* make eyes that look at the mouse from within, in every frame (lines
\* 64-101).
PupilsLook == frames > 0 => RootIsFloor /\ PupilsInEyes /\ PupilsNearer
=============================================================================
