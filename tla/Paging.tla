------------------------------- MODULE Paging -------------------------------
(***************************************************************************)
(* init_paging of kernel/memory/memory.cpp: a few ranges of memory are     *)
(* mapped to themselves, page by page, in the four levels of tables the    *)
(* firmware left, some entries of which map a huge page.  Tables that are  *)
(* missing are made in pages of the physical memory manager (Pmm) and      *)
(* never given back.  It runs once, at boot, with interrupts off; a step   *)
(* is what map_page does at one level.                                     *)
(*                                                                         *)
(* Pages are named by their number, ranges given by addresses.  The flags  *)
(* other than present and huge, and the processor's cache of entries, are  *)
(* left out.  The first word of a table, which Pmm keeps as next, is the   *)
(* one it had in the free list: nobody reads it until a page is freed.     *)
(***************************************************************************)
EXTENDS Pmm

CONSTANTS Fanout,           \* entries to a table: 512
          PageSize,         \* 4096
          CR3,              \* the page of the top table
          FirmwareTables,   \* of each page that is a table at boot, its entries
          FirmwarePlaces,   \* of each, its level and the page numbers it is for
          KernelRange, Framebuffers, FixedRanges,   \* what is mapped: [start, size]
          VirtualPage       \* the pages looked at

Index == 0 .. Fanout - 1

EntryType == [present : BOOLEAN, huge : BOOLEAN, frame : Nat]

NoEntry == [present |-> FALSE, huge |-> FALSE, frame |-> 0]

RangeType == [start : Nat, size : Nat]

\* Pages an entry of a table of each level stands for.
Span == <<1, Fanout, Fanout * Fanout, Fanout * Fanout * Fanout>>

\* Page numbers have four indices.
Numbers == Span[4] * Fanout

\* An entry leads to the page of its number, to a huge page that starts
\* there, or to the one table that is for it.
EntryPlaced(tbls, place, t, i) ==
  LET e     == tbls[t][i]
      level == place[t].level
      n     == place[t].upper * Fanout + i
  IN  e.present => \/ level = 1 /\ e.frame = n
                   \/ level \in {2, 3} /\ e.huge /\ e.frame = n * Span[level]
                   \/ /\ level = 4 \/ (level \in {2, 3} /\ ~e.huge)
                      /\ e.frame \in DOMAIN tbls
                      /\ place[e.frame] = [level |-> level - 1, upper |-> n]

\* Each table is of one level and for pages with the same upper indices, and
\* memory is mapped to itself.
WellPlaced(tbls, place) ==
  /\ place \in [DOMAIN tbls -> [level : 1 .. 4, upper : Nat]]
  /\ CR3 \in DOMAIN tbls /\ place[CR3] = [level |-> 4, upper |-> 0]
  /\ \A t \in DOMAIN tbls : \A i \in Index : EntryPlaced(tbls, place, t, i)

ASSUME PagingAssumption ==
  /\ Fanout \in Nat \ {0} /\ PageSize \in Nat \ {0}
  /\ FirmwareTables \in [DOMAIN FirmwareTables -> [Index -> EntryType]]
  /\ KernelRange \in RangeType /\ Framebuffers \subseteq RangeType
  /\ FixedRanges \in Seq(RangeType)
  /\ VirtualPage \subseteq 0 .. Numbers - 1

\* The firmware's tables are not in memory it calls free; they map memory to
\* itself (UEFI).
ASSUME TablesAssumption == /\ DOMAIN FirmwareTables \cap Usable = {}
                           /\ WellPlaced(FirmwareTables, FirmwarePlaces)

\* All that is mapped has a number of 48 bits.
ASSUME RangesAssumption ==
  \A r \in {KernelRange} \cup Framebuffers \cup {FixedRanges[k] : k \in DOMAIN FixedRanges} :
     r.start + r.size <= Numbers * PageSize

VARIABLES framebuffer,  \* where the firmware put it
          tables,       \* of each page that is a table, its entries
          range, addr,  \* the call of identity_map_range, and its loop
          walk,         \* where map_page is: table and level, 4 (PML4) to 1 (PT)
          given_up      \* pages map_page found no memory to map

pagingVars == <<framebuffer, tables, range, addr, walk, given_up>>

Ranges == <<KernelRange, framebuffer>> \o FixedRanges

Paged == range > Len(Ranges)

FirstPage(r) == r.start \div PageSize

RoundedDown(r) == (r.start + r.size) \div PageSize          \* mutant: the last part of a page

EndPage(r) == (r.start + r.size + PageSize - 1) \div PageSize

Top == [level |-> 4, table |-> CR3]

PagingInit == /\ framebuffer \in Framebuffers
              /\ tables = FirmwareTables
              /\ range = 1
              /\ addr = FirstPage(KernelRange)
              /\ walk = Top
              /\ given_up = {}

IndexOf(v, level) == (v \div Span[level]) % Fanout

-----------------------------------------------------------------------------
(* map_page.                                                               *)

InRange == Booted /\ ~Paged /\ addr < EndPage(Ranges[range])

EntryHere == tables[walk.table][IndexOf(addr, walk.level)]

NextAddress == /\ addr' = addr + 1
               /\ walk' = Top
               /\ UNCHANGED <<framebuffer, range>>

\* The firmware maps it already, in a page of 1 GB or 2 MB.
HugeHere == walk.level \in {2, 3} /\ EntryHere.present /\ EntryHere.huge

AlreadyMapped == /\ InRange /\ HugeHere
                 /\ NextAddress
                 /\ UNCHANGED <<vars, tables, given_up>>

\* get_or_create_table, when the table is there.
Descend == /\ InRange
           /\ walk.level > 1 /\ EntryHere.present /\ ~HugeHere
           /\ walk' = [level |-> walk.level - 1, table |-> EntryHere.frame]
           /\ UNCHANGED <<vars, framebuffer, tables, range, addr, given_up>>

Missing == InRange /\ walk.level > 1 /\ ~EntryHere.present

Present(p) == [present |-> TRUE, huge |-> FALSE, frame |-> p]

Uncleared(p) == [i \in Index |-> Present(p)]                \* mutant: table not zeroed

Cleared(p) == [i \in Index |-> NoEntry]

\* get_or_create_table, when it is made of a new page.
CreateTable ==
  /\ Missing
  /\ Pop
  /\ tables' = [t \in DOMAIN tables \cup {result'} |->
                  IF t = result' THEN Cleared(result')
                  ELSE IF t = walk.table
                  THEN [tables[t] EXCEPT ![IndexOf(addr, walk.level)] = Present(result')]
                  ELSE tables[t]]
  /\ walk' = [level |-> walk.level - 1, table |-> result']
  /\ UNCHANGED <<desc, page, multi, framebuffer, range, addr, given_up>>

\* No page is left: map_page returns, and nobody is told.
GiveUp == /\ Missing
          /\ PopNothing
          /\ given_up' = given_up \cup {addr}
          /\ NextAddress
          /\ UNCHANGED <<desc, page, multi, tables>>

MapLeaf ==
  /\ InRange /\ walk.level = 1
  /\ tables' = [tables EXCEPT ![walk.table][IndexOf(addr, 1)] = Present(addr)]
  /\ NextAddress
  /\ UNCHANGED <<vars, given_up>>

NextRange ==
  /\ Booted /\ ~Paged /\ ~InRange
  /\ range' = range + 1
  /\ addr' = IF range < Len(Ranges) THEN FirstPage(Ranges[range + 1]) ELSE addr
  /\ UNCHANGED <<vars, framebuffer, tables, walk, given_up>>

PagingNext == AlreadyMapped \/ Descend \/ CreateTable \/ GiveUp \/ MapLeaf \/ NextRange

-----------------------------------------------------------------------------
(* Properties.                                                             *)

Unmapped == NULL

\* What the processor makes of an address in page v.
Translate(v) ==
  LET pml4e == tables[CR3][IndexOf(v, 4)]
      pdpte == tables[pml4e.frame][IndexOf(v, 3)]
      pde   == tables[pdpte.frame][IndexOf(v, 2)]
      pte   == tables[pde.frame][IndexOf(v, 1)]
  IN  IF ~pml4e.present \/ ~pdpte.present THEN Unmapped
      ELSE IF pdpte.huge THEN pdpte.frame + (v % Span[3])
      ELSE IF ~pde.present THEN Unmapped
      ELSE IF pde.huge THEN pde.frame + (v % Span[2])
      ELSE IF pte.present THEN pte.frame ELSE Unmapped

\* No table made or entry written for one page changes where another leads,
\* huge pages of the firmware included, and every page leads to itself
\* (get_or_create_table and map_page, memory.cpp lines 68-110).
Space == INSTANCE AddressSpace WITH
  Page <- VirtualPage, translation <- [v \in VirtualPage |-> Translate(v)]
AddressSpaceSpec == Space!Spec

\* When paging is set up, every address of the kernel, the framebuffer and
\* the graphics regions is mapped, also in pages they share with others,
\* but for those memory ran out for (memory.cpp lines 112-131).
RangesMapped ==
  Paged => \A k \in DOMAIN Ranges : \A a \in Ranges[k].start .. Ranges[k].start + Ranges[k].size - 1 :
             (a \div PageSize) \notin given_up => Translate(a \div PageSize) = a \div PageSize
=============================================================================
