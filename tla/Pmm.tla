-------------------------------- MODULE Pmm ---------------------------------
(***************************************************************************)
(* The physical memory manager of kernel/memory/memory.cpp: a stack of     *)
(* free pages linked through the first word of each page.  init_pmm fills  *)
(* it from the firmware's memory map, pmm_alloc pops it, pmm_free pushes,  *)
(* pmm_alloc_pages pops several times.                                     *)
(*                                                                         *)
(* A page is named by its number (address / 4096); page 0 is nullptr.      *)
(* Every call runs with interrupts off (boot before sti, or inside the     *)
(* keyboard interrupt), so a call of pmm_alloc or pmm_free is one step.    *)
(* The loops of init_pmm and pmm_alloc_pages take one step per iteration.  *)
(***************************************************************************)
EXTENDS Naturals, Sequences

CONSTANTS MemMap,       \* the firmware's descriptors, in order
          ReservedPages,\* pages below this number are never managed (2 MB)
          OwnerWords,   \* words the holder of a page may store in its first word
          MaxCount      \* largest count passed to pmm_alloc_pages

NULL == 0

ASSUME MemMapAssumption ==
  MemMap \in Seq([conventional : BOOLEAN, start : Nat, pages : Nat])

ASSUME ReservedAssumption == ReservedPages \in Nat \ {0}

ASSUME WordsAssumption == OwnerWords \subseteq Nat

ASSUME CountAssumption == MaxCount \in Nat

\* Pages the first n steps of the inner loop over descriptor d push.
Pushed(d, n) == {MemMap[d].start + k : k \in 0 .. n - 1} \ 0 .. ReservedPages - 1

Descriptors == 1 .. Len(MemMap)

Conventional == {d \in Descriptors : MemMap[d].conventional}

\* The pages init_pmm manages once it is done.
Usable == UNION {Pushed(d, MemMap[d].pages) : d \in Conventional}

\* The firmware never describes a page twice (UEFI, GetMemoryMap).
ASSUME DisjointAssumption ==
  \A d, e \in Conventional :
     d # e => Pushed(d, MemMap[d].pages) \cap Pushed(e, MemMap[e].pages) = {}

VARIABLES free_list_head,   \* page number or NULL
          next,             \* the first word of every usable page
          total_free_pages,
          desc, page,       \* i and j of init_pmm's loops
          held,             \* pages popped and not pushed back
          result,           \* what the last pmm_alloc returned
          multi             \* the pmm_alloc_pages call in progress

list == <<free_list_head, next, total_free_pages>>
vars == <<list, desc, page, held, result, multi>>

Idle == [active |-> FALSE, first |-> NULL, got |-> 0, want |-> 0]

Booted == desc > Len(MemMap)

Init == /\ free_list_head = NULL
        /\ next \in [Usable -> {0}]
        /\ total_free_pages = 0
        /\ desc = 1
        /\ page = 0
        /\ held = {}
        /\ result = NULL
        /\ multi = Idle

-----------------------------------------------------------------------------
(* The two primitives, as changes of the list alone.                       *)

PushUnlinked(p) == /\ free_list_head' = p                 \* mutant: link not stored
                   /\ total_free_pages' = total_free_pages + 1
                   /\ UNCHANGED next

Push(p) == /\ next' = [next EXCEPT ![p] = free_list_head]
           /\ free_list_head' = p
           /\ total_free_pages' = total_free_pages + 1

Pop == /\ free_list_head # NULL
       /\ result' = free_list_head
       /\ held' = held \cup {free_list_head}
       /\ free_list_head' = next[free_list_head]
       /\ total_free_pages' = total_free_pages - 1
       /\ UNCHANGED next

KeepsLastPage == /\ total_free_pages < 2                   \* mutant: last page refused
                 /\ result' = NULL
                 /\ UNCHANGED <<list, held>>

PopNothing == /\ free_list_head = NULL
              /\ result' = NULL
              /\ UNCHANGED <<list, held>>

-----------------------------------------------------------------------------
(* init_pmm: the descriptor loop and, inside it, the page loop.            *)

Here == MemMap[desc].start + page

InPageLoop == /\ ~Booted
              /\ MemMap[desc].conventional
              /\ page < MemMap[desc].pages

ReservedOffByOne(p) == p < ReservedPages - 1               \* mutant

Reserved(p) == p < ReservedPages

InitReserve == /\ InPageLoop
               /\ Reserved(Here)
               /\ page' = page + 1
               /\ UNCHANGED <<list, desc, held, result, multi>>

InitPush == /\ InPageLoop
            /\ ~Reserved(Here)
            /\ Push(Here)
            /\ page' = page + 1
            /\ UNCHANGED <<desc, held, result, multi>>

InitNextDescriptor == /\ ~Booted
                      /\ ~InPageLoop
                      /\ desc' = desc + 1
                      /\ page' = 0
                      /\ UNCHANGED <<list, held, result, multi>>

-----------------------------------------------------------------------------
Alloc == /\ Booted /\ ~multi.active
         /\ Pop \/ PopNothing
         /\ UNCHANGED <<desc, page, multi>>

\* A holder gives its page back.
Free == /\ Booted /\ ~multi.active
        /\ \E p \in held : Push(p) /\ held' = held \ {p}
        /\ UNCHANGED <<desc, page, result, multi>>

\* A holder uses its page: what it stores may land on the old link.
OwnerWrite == /\ Booted
              /\ \E p \in held, w \in OwnerWords : next' = [next EXCEPT ![p] = w]
              /\ UNCHANGED <<free_list_head, total_free_pages, desc, page, held,
                             result, multi>>

\* pmm_alloc_pages: the first page; nullptr ends the call at once.
AllocPagesBegin ==
  /\ Booted /\ ~multi.active
  /\ \E count \in 1 .. MaxCount :
        \/ /\ Pop
           /\ multi' = [active |-> TRUE, first |-> free_list_head,
                        got |-> 1, want |-> count]
        \/ PopNothing /\ UNCHANGED multi
  /\ UNCHANGED <<desc, page>>

\* One more page, or nullptr: the pages popped so far are not pushed back.
AllocPagesStep ==
  /\ multi.active /\ multi.got < multi.want
  /\ \/ Pop /\ multi' = [multi EXCEPT !.got = @ + 1]
     \/ PopNothing /\ multi' = Idle
  /\ UNCHANGED <<desc, page>>

AllocPagesReturn ==
  /\ multi.active /\ multi.got = multi.want
  /\ multi' = Idle
  /\ UNCHANGED <<list, desc, page, held, result>>

Next == \/ InitReserve \/ InitPush \/ InitNextDescriptor
        \/ Alloc \/ Free \/ OwnerWrite
        \/ AllocPagesBegin \/ AllocPagesStep \/ AllocPagesReturn

Spec == Init /\ [][Next]_vars

-----------------------------------------------------------------------------
(* Properties.                                                             *)

\* The pages init_pmm has pushed so far.
ScannedIn(d) == Pushed(d, IF d = desc THEN page ELSE MemMap[d].pages)

Scanned == UNION {ScannedIn(d) : d \in {e \in Conventional : e <= desc}}

Unheld == Scanned \ held

\* Types of the allocator's globals: pages are usable pages or nullptr, and
\* init_pmm's cursors stay inside the memory map.
TypeOK ==
  /\ free_list_head \in Usable \cup {NULL}
  /\ next \in [Usable -> Nat]
  /\ total_free_pages \in Nat
  /\ desc \in 1 .. Len(MemMap) + 1
  /\ page \in Nat
  /\ \A d \in Conventional : d = desc => page <= MemMap[d].pages
  /\ held \subseteq Scanned
  /\ result \in Usable \cup {NULL}
  /\ multi \in [active : BOOLEAN, first : Usable \cup {NULL}, got : Nat, want : Nat]

\* s is the free list read from its head: it visits every free page once,
\* no other, follows the links and ends in nullptr.
IsFreeList(s) ==
  LET n == total_free_pages IN
  /\ s \in [1 .. n -> Unheld]
  /\ \A p \in Unheld : \E k \in 1 .. n : s[k] = p
  /\ \A j, k \in 1 .. n : s[j] = s[k] => j = k
  /\ n = 0 => free_list_head = NULL
  /\ n > 0 => free_list_head = s[1] /\ next[s[n]] = NULL
  /\ \A k \in 1 .. n - 1 : next[s[k]] = s[k + 1]

\* The links and the counter agree with the pages that are free: whatever
\* the order of allocations and frees, and whatever holders store in their
\* pages, walking the list from free_list_head meets each free page exactly
\* once, never a held one, and total_free_pages is its length (memory.cpp
\* lines 16-31; kernel.cpp prints the counter).
FreeListIntact == \E s \in [1 .. total_free_pages -> Unheld] : IsFreeList(s)

\* The stack of pages implements the abstract allocator: a request is given
\* a page nobody holds, and is refused only when every page is held
\* (pmm_alloc, memory.cpp lines 16-23).
Abstract == INSTANCE FrameAllocator WITH Frame <- Usable, avail <- Unheld
AllocatorSpec == Abstract!Spec
=============================================================================
