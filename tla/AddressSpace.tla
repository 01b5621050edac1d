---------------------------- MODULE AddressSpace ----------------------------
(***************************************************************************)
(* What paging promises: every page is mapped to itself or not at all, and *)
(* a page that is mapped stays mapped, whatever else is mapped later.      *)
(***************************************************************************)
CONSTANTS Page,
          Unmapped

VARIABLE translation    \* of each page

Init == \A v \in Page : translation[v] \in {v, Unmapped}

Map(v) == /\ translation[v] = Unmapped
          /\ translation' = [translation EXCEPT ![v] = v]

Next == \E v \in Page : Map(v)

Spec == Init /\ [][Next]_translation
=============================================================================
