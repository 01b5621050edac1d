---------------------------- MODULE GraphicsHeap ----------------------------
(***************************************************************************)
(* The two memory regions the graphics code takes for itself, beside the   *)
(* physical memory manager that knows nothing of them: the back buffer at  *)
(* 0x1000000 (kernel/wm/gfx.cpp) and the window buffers handed out upwards *)
(* from 0x1400000 (wm_create_window, kernel/wm/wm.cpp).  Both are written  *)
(* through fixed addresses.  Sizes are counted in pages.                   *)
(*                                                                         *)
(* With them, the memory of the kernel in the order of kernel_entry:       *)
(* init_pmm, init_paging, gfx_init, and then everything else.              *)
(***************************************************************************)
EXTENDS Paging

CONSTANTS BackBuffer,       \* page of 0x1000000
          WindowHeap,       \* page of 0x1400000
          BackBufferPages,  \* fb_height * fb_pitch, in pages
          WindowSizes,      \* sizes of the windows that get opened, in pages
          MAX_WINDOWS,
          Pixels            \* words that drawing leaves in memory

ASSUME GraphicsAssumption ==
  /\ BackBuffer \in Nat \ {0}
  /\ WindowHeap \in Nat
  /\ WindowHeap > BackBuffer
  /\ BackBufferPages \in Nat
  /\ WindowSizes \subseteq Nat
  /\ MAX_WINDOWS \in Nat
  /\ Pixels \subseteq Nat

VARIABLES backbuffer,    \* NULL until gfx_init
          windows,       \* the pages of each window in use, in slot order
          wm_heap_next

gfxVars == <<backbuffer, windows, wm_heap_next>>

GraphicsInit == /\ Init
                /\ PagingInit
                /\ backbuffer = NULL
                /\ windows = <<>>
                /\ wm_heap_next = WindowHeap

\* What a store through a graphics pointer leaves in the pages' first words.
Stored(pages, words) == \E w \in words :
  next' = [p \in Usable |-> IF p \in pages THEN w ELSE next[p]]

Screen == BackBuffer .. BackBuffer + BackBufferPages - 1

unchangedList == <<free_list_head, total_free_pages, desc, page, held, result, multi>>

\* The back buffer is put at its address and cleared, byte by byte.
GfxInit == /\ Paged /\ backbuffer = NULL
           /\ backbuffer' = BackBuffer
           /\ Stored(Screen, {0})
           /\ UNCHANGED <<unchangedList, windows, wm_heap_next>>

\* Any drawing primitive: it stores pixels in a part of the back buffer.
GfxDraw == /\ backbuffer # NULL
           /\ \E p \in Screen : Stored({p}, Pixels)
           /\ UNCHANGED <<unchangedList, gfxVars>>

HeapStill(size) == UNCHANGED wm_heap_next               \* mutant: never advanced

\* The window heap is a bump allocator: nothing is ever given back.
HeapBump(size) == wm_heap_next' = wm_heap_next + size

CreateWindow ==
  /\ backbuffer # NULL
  /\ Len(windows) < MAX_WINDOWS
  /\ \E size \in WindowSizes :
       LET buffer == wm_heap_next .. wm_heap_next + size - 1 IN
       /\ windows' = Append(windows, buffer)
       /\ HeapBump(size)
       /\ Stored(buffer, Pixels)
  /\ UNCHANGED <<unchangedList, backbuffer>>

Graphics == GfxInit \/ GfxDraw \/ CreateWindow

\* Nobody gives a page table back or writes over it.
TablesKept == \A p \in DOMAIN tables \cap Usable : p \in held' /\ next'[p] = next[p]

GraphicsNext ==
  \/ Next /\ (Booted => Paged /\ TablesKept) /\ UNCHANGED <<pagingVars, gfxVars>>
  \/ PagingNext /\ UNCHANGED gfxVars
  \/ Graphics /\ UNCHANGED pagingVars

GraphicsSpec == GraphicsInit /\ [][GraphicsNext]_<<vars, pagingVars, gfxVars>>

-----------------------------------------------------------------------------
\* No two windows share a page of pixels, however many are opened and
\* whatever their sizes: drawing into one leaves the others alone
\* (wm_create_window, wm.cpp lines 45-54).
WindowBuffersDisjoint ==
  \A i, j \in DOMAIN windows : i # j => windows[i] \cap windows[j] = {}

\* gfx.cpp line 34 calls 0x1000000 the "reserved contiguous graphics heap":
\* once the back buffer is there, the page allocator has none of its pages.
GraphicsHeapReserved ==
  backbuffer # NULL => Screen \cap (Unheld \cup held) = {}

\* wm.cpp line 45 puts the window heap "after the buffer": no window's
\* pixels are back buffer pixels.
WindowsAfterBuffer == \A i \in DOMAIN windows : windows[i] \cap Screen = {}

\* Whoever draws, on a window or on the screen, draws on nothing else.
PixelsPrivate == WindowBuffersDisjoint /\ WindowsAfterBuffer
=============================================================================
