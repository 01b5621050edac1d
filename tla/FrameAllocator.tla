--------------------------- MODULE FrameAllocator ---------------------------
(***************************************************************************)
(* What the physical memory manager promises its callers: every page it    *)
(* hands out is one nobody else holds, and it refuses a request only when  *)
(* no page is left.  Nothing is said of the order pages come in, nor of    *)
(* how the free ones are remembered.                                       *)
(***************************************************************************)

CONSTANTS Frame,    \* the pages the allocator may ever manage
          NULL      \* the refusal, nullptr

VARIABLES avail,    \* pages nobody holds
          held,     \* pages given out and not returned
          result    \* what the last request was answered

vars == <<avail, held, result>>

Init == /\ avail = {}
        /\ held = {}
        /\ result = NULL

\* A page found in the memory map is put at the allocator's disposal.
Donate(p) == /\ p \notin avail \cup held
             /\ avail' = avail \cup {p}
             /\ UNCHANGED <<held, result>>

Grant(p) == /\ p \in avail
            /\ avail' = avail \ {p}
            /\ held' = held \cup {p}
            /\ result' = p

Refuse == /\ avail = {}
          /\ result' = NULL
          /\ UNCHANGED <<avail, held>>

Return(p) == /\ p \in held
             /\ held' = held \ {p}
             /\ avail' = avail \cup {p}
             /\ UNCHANGED result

Next == \/ \E p \in Frame : Donate(p) \/ Grant(p) \/ Return(p)
        \/ Refuse

Spec == Init /\ [][Next]_vars
=============================================================================
