------------------------------ MODULE MCMemory ------------------------------
EXTENDS GraphicsHeap, TLC

\* A region that straddles the 2 MB line (here page 3), one the firmware
\* keeps, and one well above; all of it below the graphics regions.
SmallMap == << [conventional |-> TRUE,  start |-> 1, pages |-> 4],
               [conventional |-> FALSE, start |-> 5, pages |-> 3],
               [conventional |-> TRUE,  start |-> 8, pages |-> 4] >>

\* Memory that goes on past them, as on any machine with more than 16 MB.
LargeMap == << [conventional |-> TRUE, start |-> 10, pages |-> 5] >>

\* A holder's data: zero, or a number that is itself a page.
MCOwnerWords == {0, 4}
MCPixels == {4, 9}
MCWindowSizes == {1, 2}

\* The firmware's tables, with three entries each: PML4 in page 5, a PDPT
\* in 6 whose first entry is a huge page, a PD in 7 whose first entry is one.
Table(p) == [present |-> TRUE, huge |-> FALSE, frame |-> p]
Huge(p) == [present |-> TRUE, huge |-> TRUE, frame |-> p]

MCTables == 5 :> (0 :> Table(6) @@ 1 :> NoEntry @@ 2 :> NoEntry)
         @@ 6 :> (0 :> Huge(0) @@ 1 :> Table(7) @@ 2 :> NoEntry)
         @@ 7 :> (0 :> Huge(9) @@ 1 :> NoEntry @@ 2 :> NoEntry)

MCPlaces == 5 :> [level |-> 4, upper |-> 0] @@ 6 :> [level |-> 3, upper |-> 0]
         @@ 7 :> [level |-> 2, upper |-> 1]

\* Pages of four bytes.  The kernel is page 1, the firmware's notes part of
\* page 2, the graphics regions pages 12 to 17.
MCKernelRange == [start |-> 4, size |-> 4]
MCFixedRanges == << [start |-> 9, size |-> 2], [start |-> 48, size |-> 24] >>

\* A framebuffer in a huge page, one that starts and ends within a page, and
\* one that takes more tables than there are pages.
MCFramebuffers == {[start |-> 8, size |-> 4], [start |-> 73, size |-> 7],
                   [start |-> 102, size |-> 33]}
MCPages == {0, 1, 2, 3, 9, 11, 12, 13, 14, 17, 18, 19, 20, 25, 27, 32, 33, 34}
=============================================================================
