-------------------------------- MODULE Slab --------------------------------
(***************************************************************************)
(* kmalloc and kfree of kernel/memory/memory.cpp: caches of equal-sized    *)
(* objects, each a list of one-page slabs whose header holds a bitmap of   *)
(* the used slots and a count of the free ones.  Pages come from the frame *)
(* allocator, which other parts of the kernel use too.                     *)
(*                                                                         *)
(* Calls run inside the keyboard interrupt, with interrupts off: each is   *)
(* one step.  Sizes are in the units of PageSize.                          *)
(***************************************************************************)
EXTENDS Integers, FiniteSets, Sequences

CONSTANTS Frame,        \* pages of the frame allocator
          NULL,
          Sizes,        \* object_size of each cache, ascending
          PageSize,     \* 4096
          HeaderSize,   \* sizeof(Slab)
          BitmapBits,   \* 64
          CountLimit,   \* 2^32: free_slots is a uint32_t
          Targets,      \* the sizes asked for
          Handle        \* the places where callers keep their pointers

ASSUME SizesAssumption == Sizes \in Seq(Nat \ {0})

ASSUME LayoutAssumption ==
  /\ PageSize \in Nat /\ HeaderSize \in Nat /\ HeaderSize < PageSize
  /\ BitmapBits \in Nat \ {0}
  /\ CountLimit \in Nat /\ CountLimit > BitmapBits
  /\ Targets \subseteq Nat

Cache == DOMAIN Sizes

\* Pointers, as Pointer makes them.
Objects == [page : Frame, offset : Nat, cache : Cache, target : Nat]

ASSUME NullAssumption == NULL \notin Frame /\ NULL \notin Objects

Capacity(c) == (PageSize - HeaderSize) \div Sizes[c]

\* The caches a slab of which holds at least one object and no more objects
\* than its bitmap has bits: those of 64 to 2048 bytes, not those of 32,
\* 5096 and 10192.
SizesFit == \A c \in Cache : Capacity(c) \in 1 .. BitmapBits

VARIABLES avail, held, result,  \* of the frame allocator
          slabs,                \* for each cache, its slab list from first_slab
          bitmap,               \* for each slab page, the bits that are set
          free_slots,
          object                \* what each handle points to, or NULL

frameVars == <<avail, held, result>>
vars == <<frameVars, slabs, bitmap, free_slots, object>>

Frames == INSTANCE FrameAllocator

SlabPages(c) == {slabs[c][k] : k \in DOMAIN slabs[c]}

\* A pointer: a page, an offset from its start, and (for the properties)
\* the cache it came from and the size that was asked for.
Pointer(p, slot, c, target) ==
  [page |-> p, offset |-> HeaderSize + slot * Sizes[c], cache |-> c, target |-> target]

Init == /\ avail = Frame
        /\ held = {}
        /\ result = NULL
        /\ slabs = [c \in Cache |-> <<>>]
        /\ bitmap = [p \in Frame |-> {}]
        /\ free_slots = [p \in Frame |-> 0]
        /\ object = [h \in Handle |-> NULL]

-----------------------------------------------------------------------------
(* kmalloc.                                                                *)

\* The first cache whose objects are large enough.
Serves(c, target) == /\ Sizes[c] >= target
                     /\ \A d \in Cache : d < c => Sizes[d] < target

Served(target) == target > 0 /\ \E c \in Cache : Serves(c, target)

\* The slab the walk over the list stops at: the first with a free slot.
StopsAt(c, k) == /\ k \in DOMAIN slabs[c]
                 /\ free_slots[slabs[c][k]] # 0
                 /\ \A j \in 1 .. k - 1 : free_slots[slabs[c][j]] = 0

FirstFull(c) == slabs[c] # <<>> => free_slots[slabs[c][1]] = 0   \* mutant: no walk

AllFull(c) == \A k \in DOMAIN slabs[c] : free_slots[slabs[c][k]] = 0

\* __builtin_ctzll(~bits): the lowest clear bit.  Of a full bitmap it is
\* undefined: the build leaves any bit number, or the operand width.
ClearBit(bits) ==
  IF bits = 0 .. BitmapBits - 1
  THEN 0 .. BitmapBits
  ELSE {b \in (0 .. BitmapBits - 1) \ bits : 0 .. b - 1 \subseteq bits}

TakeUnmarked(h, p, c, target, bits, free) ==                \* mutant: bit not set
  /\ \E slot \in ClearBit(bits) :
        object' = [object EXCEPT ![h] = Pointer(p, slot, c, target)]
  /\ bitmap' = [bitmap EXCEPT ![p] = bits]
  /\ free_slots' = [free_slots EXCEPT ![p] = (free - 1) % CountLimit]

\* Take a slot of slab p, whose fields are bits and free before the call.
TakeSlot(h, p, c, target, bits, free) ==
  /\ \E slot \in ClearBit(bits) :
        /\ bitmap' = [bitmap EXCEPT ![p] = bits \cup {slot % BitmapBits}]
        /\ object' = [object EXCEPT ![h] = Pointer(p, slot, c, target)]
  /\ free_slots' = [free_slots EXCEPT ![p] = (free - 1) % CountLimit]

KmallocFromSlab(h, target) ==
  \E c \in Cache : \E k \in DOMAIN slabs[c] :
     /\ Serves(c, target)
     /\ StopsAt(c, k)
     /\ TakeSlot(h, slabs[c][k], c, target, bitmap[slabs[c][k]], free_slots[slabs[c][k]])
     /\ UNCHANGED <<frameVars, slabs>>

TakePage(p) == Frames!Grant(p)

KmallocNewSlab(h, target) ==
  \E c \in Cache, p \in Frame :
     /\ Serves(c, target)
     /\ AllFull(c)
     /\ TakePage(p)
     /\ slabs' = [slabs EXCEPT ![c] = <<p>> \o @]
     /\ TakeSlot(h, p, c, target, {}, Capacity(c))

KmallocNoMemory(target) ==
  \E c \in Cache :
     /\ Serves(c, target)
     /\ AllFull(c)
     /\ Frames!Refuse
     /\ UNCHANGED <<slabs, bitmap, free_slots, object>>

\* A caller stores what kmalloc returns in a handle it is not using.
Kmalloc == \E h \in Handle, target \in Targets :
              /\ object[h] = NULL
              /\ target > 0
              /\ \/ KmallocFromSlab(h, target)
                 \/ KmallocNewSlab(h, target)
                 \/ KmallocNoMemory(target)

\* Nothing asked for, or more than the largest cache serves: nullptr.
KmallocRejected == /\ \E target \in Targets : ~Served(target)
                   /\ UNCHANGED vars

-----------------------------------------------------------------------------
(* kfree: the slab header is found by masking the pointer, the slot by     *)
(* dividing its offset.                                                    *)

SlotOf(ptr) == (ptr.offset - HeaderSize) \div Sizes[ptr.cache]

KfreeUncounted == \E h \in Handle :                          \* mutant: no free_slots++
           LET ptr == object[h] IN
           /\ ptr # NULL
           /\ bitmap' = [bitmap EXCEPT ![ptr.page] = @ \ {SlotOf(ptr) % BitmapBits}]
           /\ object' = [object EXCEPT ![h] = NULL]
           /\ UNCHANGED <<frameVars, slabs, free_slots>>

Kfree == \E h \in Handle :
           LET ptr == object[h] IN
           /\ ptr # NULL
           /\ bitmap' = [bitmap EXCEPT ![ptr.page] = @ \ {SlotOf(ptr) % BitmapBits}]
           /\ free_slots' = [free_slots EXCEPT ![ptr.page] = (@ + 1) % CountLimit]
           /\ object' = [object EXCEPT ![h] = NULL]
           /\ UNCHANGED <<frameVars, slabs>>

\* Page tables and task stacks come from the same allocator and stay.
OtherAlloc == /\ \E p \in Frame : Frames!Grant(p)
              /\ UNCHANGED <<slabs, bitmap, free_slots, object>>

Next == Kmalloc \/ KmallocRejected \/ Kfree \/ OtherAlloc

Spec == Init /\ [][Next]_vars

-----------------------------------------------------------------------------
(* Properties.                                                             *)

Live == {h \in Handle : object[h] # NULL}

\* Types: slabs are pages the frame allocator has given out, counts are
\* 32-bit words, handles hold pointers.
TypeOK == /\ avail \subseteq Frame /\ held \subseteq Frame
          /\ avail \cap held = {}
          /\ result \in Frame \cup {NULL}
          /\ slabs \in [Cache -> Seq(held)]
          /\ bitmap \in [Frame -> SUBSET (0 .. BitmapBits - 1)]
          /\ free_slots \in [Frame -> 0 .. CountLimit - 1]
          /\ object \in [Handle -> Objects \cup {NULL}]

Bytes(ptr) == ptr.offset .. ptr.offset + ptr.target - 1

\* No two live pointers share a byte, none reaches into a slab header or
\* past the end of its page: however kmalloc and kfree are interleaved, a
\* caller that stays within what it asked for harms nobody (memory.cpp
\* lines 175-194).
LiveDisjoint ==
  /\ \A h \in Live : Bytes(object[h]) \subseteq HeaderSize .. PageSize - 1
  /\ \A g, h \in Live : (g # h /\ object[g].page = object[h].page)
                           => Bytes(object[g]) \cap Bytes(object[h]) = {}

\* A page is a slab of one cache at most, and is in its list once.
SlabsDistinct ==
  \A c, d \in Cache : \A j \in DOMAIN slabs[c], k \in DOMAIN slabs[d] :
     slabs[c][j] = slabs[d][k] => c = d /\ j = k

\* The two records a slab header keeps of its slots agree with each other
\* and with the pointers callers hold (memory.cpp lines 176-178, 193-194).
SlotAccounting ==
  /\ TypeOK
  /\ SlabsDistinct
  /\ \A c \in Cache : \A p \in SlabPages(c) :
       LET users == {h \in Live : object[h].page = p} IN
       /\ bitmap[p] = {SlotOf(object[h]) : h \in users}
       /\ Cardinality(users) = Cardinality(bitmap[p])
       /\ free_slots[p] = Capacity(c) - Cardinality(users)

LiveIn(c) == {h \in Live : object[h].cache = c}

\* A cache takes one more page only when every slot of every slab it has is
\* in use: freed slots are reused first (memory.cpp lines 160-174).
GrowsOnlyWhenFull ==
  [][\A c \in Cache : slabs'[c] # slabs[c]
        => Cardinality(LiveIn(c)) = Len(slabs[c]) * Capacity(c)]_vars
=============================================================================
