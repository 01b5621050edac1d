----------------------------- MODULE MCDevices ------------------------------
(***************************************************************************)
(* The drivers of the two devices that answer in their own time, the disk  *)
(* and the mouse.  They share nothing, so a behaviour shows one of them.   *)
(***************************************************************************)
EXTENDS Disk, Mouse

VARIABLE part

\* A sector, and the two sectors of a file system block.
MCCounts == {1, 2}

\* A quiet packet, and some whose bytes have bit 3, an overflow, or more
\* than a signed byte.
MCMovements ==
  {[dx |-> 0,    dy |-> 0,  left |-> FALSE, overflow |-> FALSE],
   [dx |-> 9,    dy |-> 1,  left |-> TRUE,  overflow |-> FALSE],
   [dx |-> -200, dy |-> -1, left |-> FALSE, overflow |-> FALSE],
   [dx |-> 0,    dy |-> 8,  left |-> FALSE, overflow |-> TRUE]}

MCInit == /\ Init /\ MouseInit
          /\ \/ part = "disk" /\ Quiet(current)
             \/ part = "mouse" /\ \A i, j \in Sector : content[i] = content[j]

MCNext == /\ part' = part
          /\ \/ part = "disk" /\ Next /\ UNCHANGED mouseVars
             \/ part = "mouse" /\ MouseNext /\ UNCHANGED vars

\* In the behaviours of the mouse the disk has nothing to do.
MCSpec == MCInit /\ [][MCNext]_<<part, vars, mouseVars>> /\ Fairness
=============================================================================
